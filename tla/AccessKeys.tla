----------------------------- MODULE AccessKeys -----------------------------
(***************************************************************************)
(* The keys by which one isolate of the Worker checks the tokens of        *)
(* Cloudflare Access (createAccessAuth of src/api/auth.ts): a cache with a *)
(* lifetime, one refresh at a time that concurrent requests share, and a   *)
(* shortest interval between refreshes for an unknown key.                 *)
(*                                                                         *)
(* Access publishes new keys and withdraws old ones at any time.  Tokens   *)
(* are whole and signed by the key they name; the claims are judged later  *)
(* and without state.  One team domain is configured.                      *)
(***************************************************************************)
EXTENDS Integers

CONSTANTS Kid,           \* the identifiers of keys
          Request,       \* the requests in flight at once
          JwksTtl,       \* JWKS_TTL_MS, in ticks
          MinRefetch,    \* JWKS_MIN_REFETCH_MS, in ticks
          RefreshLimit,  \* environment: the longest a refresh takes, in ticks
          MaxTicks       \* bound: ticks of the run

VARIABLES
  ticks,          \* Date.now(), in ticks
  jwks,           \* the keys Access publishes
  since,          \* history: since when each key is published, or Unseen
  seen,           \* history: when each key was last published, or Unseen
  keyCache,       \* cache, with when its refresh was begun as history
  lastRefetchAt,  \* when the last refresh was begun
  refreshing,     \* inflight: the answer of Access to the refresh under way, or NoRefresh
  request         \* each request: where it is and the key it asks for

keyVars == <<ticks, jwks, since, seen, keyCache, lastRefetchAt, refreshing, request>>

ASSUME KeysAssumption ==
  /\ {JwksTtl, MinRefetch, RefreshLimit, MaxTicks} \subseteq Nat
  /\ RefreshLimit < MinRefetch

Unseen == -1
NoKid == "none"
NoKeyCache == [keys |-> {}, fetchedAt |-> Unseen, begun |-> Unseen]

\* "asked": Access has not answered yet.
NoRefresh == [pc |-> "none", keys |-> {}]

\* "stale" waits because the cache was too old, "unknown" because its key
\* was not in it; the other places are the answers 200, 401 and 503.
NoRequest == [pc |-> "idle", kid |-> NoKid]

RequestState ==
  [pc : {"idle", "stale", "unknown", "verified", "rejected", "unavailable"}, kid : Kid \cup {NoKid}]

KeysTypeOK ==
  /\ ticks \in 0 .. MaxTicks
  /\ jwks \subseteq Kid
  /\ since \in [Kid -> Unseen .. MaxTicks] /\ seen \in [Kid -> Unseen .. MaxTicks]
  /\ keyCache \in [keys : SUBSET Kid, fetchedAt : Unseen .. MaxTicks, begun : Unseen .. MaxTicks]
  /\ lastRefetchAt \in -MinRefetch .. MaxTicks
  /\ refreshing \in [pc : {"none", "asked", "answered"}, keys : SUBSET Kid]
  /\ request \in [Request -> RequestState]

\* Access is about to publish its first keys; lastRefetchAt is the epoch,
\* which is long ago.
KeysInit ==
  /\ ticks = 0
  /\ jwks = {}
  /\ since = [k \in Kid |-> Unseen]
  /\ seen = since
  /\ keyCache = NoKeyCache
  /\ lastRefetchAt = -MinRefetch
  /\ refreshing = NoRefresh
  /\ request = [r \in Request |-> NoRequest]

\* now() - current.fetchedAt <= JWKS_TTL_MS
HasFreshKeys == keyCache # NoKeyCache /\ ticks - keyCache.fetchedAt <= JwksTtl

\* Mutant of MayRefetch: an unknown key is never looked up again before the
\* cache is too old.
MayRefetchNever == FALSE

\* The shortest interval is over.
MayRefetch == ticks - lastRefetchAt >= MinRefetch

\* refresh, up to its first await: the one under way is joined.
JoinRefresh ==
  IF refreshing = NoRefresh
  THEN refreshing' = [pc |-> "asked", keys |-> {}] /\ lastRefetchAt' = ticks
  ELSE UNCHANGED <<refreshing, lastRefetchAt>>

\* findKey, up to its first await
FindKey(r, k) ==
  LET Goes(pc) == request' = [request EXCEPT ![r] = [pc |-> pc, kid |-> k]] IN
  /\ request[r].pc = "idle"
  /\ \/ ~HasFreshKeys /\ JoinRefresh /\ Goes("stale")
     \/ /\ HasFreshKeys /\ k \in keyCache.keys
        /\ Goes("verified") /\ UNCHANGED <<refreshing, lastRefetchAt>>
     \/ /\ HasFreshKeys /\ k \notin keyCache.keys /\ MayRefetch
        /\ JoinRefresh /\ Goes("unknown")
     \/ /\ HasFreshKeys /\ k \notin keyCache.keys /\ ~MayRefetch
        /\ Goes("rejected") /\ UNCHANGED <<refreshing, lastRefetchAt>>
  /\ UNCHANGED <<ticks, jwks, since, seen, keyCache>>

\* Access answers with the keys of this moment.
AnswerRefresh ==
  /\ refreshing.pc = "asked"
  /\ refreshing' = [pc |-> "answered", keys |-> jwks]
  /\ UNCHANGED <<ticks, jwks, since, seen, keyCache, lastRefetchAt, request>>

Waiting(r) == request[r].pc \in {"stale", "unknown"}

\* The requests that wait for the refresh go on with the keys it brought:
\* one that began with too old a cache may still ask for its key again.
Resumed(keys) ==
  [r \in Request |->
    IF ~Waiting(r) THEN request[r]
    ELSE [request[r] EXCEPT !.pc =
           IF request[r].kid \in keys THEN "verified"
           ELSE IF request[r].pc = "stale" /\ MayRefetch THEN "unknown"
           ELSE "rejected"]]

\* The keys are imported: refresh resolves.
EndRefresh ==
  /\ refreshing.pc = "answered" /\ refreshing.keys # {}
  /\ keyCache' = [keys |-> refreshing.keys, fetchedAt |-> ticks, begun |-> lastRefetchAt]
  /\ request' = Resumed(refreshing.keys)
  /\ IF \E r \in Request : request'[r].pc = "unknown"
     THEN refreshing' = [pc |-> "asked", keys |-> {}] /\ lastRefetchAt' = ticks
     ELSE refreshing' = NoRefresh /\ UNCHANGED lastRefetchAt
  /\ UNCHANGED <<ticks, jwks, since, seen>>

\* No answer, not 200, or nothing usable in it: refresh rejects.
FailRefresh ==
  /\ refreshing # NoRefresh
  /\ refreshing' = NoRefresh
  /\ request' = [r \in Request |->
       IF Waiting(r) THEN [request[r] EXCEPT !.pc = "unavailable"] ELSE request[r]]
  /\ UNCHANGED <<ticks, jwks, since, seen, keyCache, lastRefetchAt>>

\* The request is over, or its client has left.
EndRequest(r) ==
  /\ request[r].pc \in {"verified", "rejected", "unavailable"}
  /\ request' = [request EXCEPT ![r] = NoRequest]
  /\ UNCHANGED <<ticks, jwks, since, seen, keyCache, lastRefetchAt, refreshing>>

\* Access publishes keys or withdraws them.
Rotate(keys) ==
  /\ keys # jwks
  /\ jwks' = keys
  /\ since' = [k \in Kid |-> IF k \notin keys THEN Unseen ELSE IF k \in jwks THEN since[k] ELSE ticks]
  /\ seen' = [k \in Kid |-> IF k \in keys THEN ticks ELSE seen[k]]
  /\ UNCHANGED <<ticks, keyCache, lastRefetchAt, refreshing, request>>

\* The isolate goes, with its memory and its requests.
LoseIsolate ==
  /\ keyCache' = NoKeyCache /\ lastRefetchAt' = -MinRefetch /\ refreshing' = NoRefresh
  /\ request' = [r \in Request |-> NoRequest]
  /\ UNCHANGED <<ticks, jwks, since, seen>>

KeysTick ==
  /\ ticks < MaxTicks
  /\ refreshing # NoRefresh => ticks - lastRefetchAt < RefreshLimit
  /\ ticks' = ticks + 1
  /\ seen' = [k \in Kid |-> IF k \in jwks THEN ticks + 1 ELSE seen[k]]
  /\ UNCHANGED <<jwks, since, keyCache, lastRefetchAt, refreshing, request>>

KeysNext ==
  \/ \E r \in Request : EndRequest(r) \/ \E k \in Kid : FindKey(r, k)
  \/ AnswerRefresh \/ EndRefresh \/ FailRefresh
  \/ \E keys \in SUBSET Kid : Rotate(keys)
  \/ LoseIsolate
  \/ KeysTick

KeysSpec == KeysInit /\ [][KeysNext]_keyVars

(***************************************************************************)
(* Properties.                                                             *)
(***************************************************************************)
\* A request is let through only by a key that was still published when the
\* refresh that brought it was begun, in keys that have not outlived their
\* lifetime; and a token whose key has been published for the shortest
\* interval is refused only while the refresh begun for it since then has
\* not succeeded (findKey and refresh, when keys are rotated between the
\* requests that share a refresh).  The second half rests on RefreshLimit <
\* MinRefetch, which the code does not enforce: the fetch of refresh has no
\* timeout.  Under it a request that waits for a refresh never asks for another.
JudgedByCurrentKeys ==
  [][\A r \in Request :
       LET k == request'[r].kid IN
       request[r].pc # request'[r].pc =>
         /\ request'[r].pc = "verified" =>
              seen[k] >= keyCache'.begun /\ ticks - keyCache'.fetchedAt <= JwksTtl
         /\ request'[r].pc = "rejected" /\ k \in jwks /\ ticks - since[k] >= MinRefetch =>
              lastRefetchAt >= since[k] /\ keyCache'.begun <= since[k]]_keyVars
=============================================================================
