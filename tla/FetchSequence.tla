--------------------------- MODULE FetchSequence ---------------------------
(***************************************************************************)
(* The fetches of one check, or of one RPC of another Worker: the fetchers *)
(* of the policy are tried in order, transient failures are retried, and   *)
(* each attempt follows redirects hop by hop, in the Worker (cf-http) or   *)
(* in an executor (gcp-http by push, home-http by pull through the         *)
(* CrawlerObject).  The site, its redirects and the DNS answer anything at *)
(* every hop.  Times are in seconds.                                       *)
(***************************************************************************)
EXTENDS HttpOutcome, Sequences, FiniteSets, FiniteSetsExt

CONSTANTS
  Kinds,          \* what asks for fetches: "check" and / or "rpc"
  Policies,       \* lists of [id, proceedOn] the policies may hold
  Targets,        \* bound: targets fetched in one check
  Urls, StartUrl, \* URLs the site may redirect to, and the first one
  WorkerUrls,     \* URLs that checkUrlForSsrf accepts
  ExecutorUrls,   \* URLs whose scheme, port and host an executor accepts
  CallerUrls,     \* URLs on the allowed hosts of the RPC's caller
  Addrs, BlockedAddrs,  \* addresses, and those an executor must not contact
  Responses,      \* [status, over, captcha, location] the site may answer
  MaxAttempts, Retries, MaxRedirects,
  PullBudget, MinPullWait, LeaseWait, ResultWait, DohTimeout,
  LeaseTtl        \* of the HostObject lease that covers the check

ASSUME KindAssumption == Kinds \subseteq {"check", "rpc"}
ASSUME UrlAssumption ==
  /\ WorkerUrls \cup ExecutorUrls \cup CallerUrls \cup {StartUrl} \subseteq Urls
  /\ BlockedAddrs \subseteq Addrs
ASSUME CountAssumption ==
  /\ Targets \in Nat \ {0} /\ MaxAttempts \in Nat \ {0}
  /\ Retries \in Nat /\ MaxRedirects \in Nat
ASSUME TimeAssumption ==
  /\ PullBudget \in Nat /\ MinPullWait \in Nat /\ LeaseWait \in Nat
  /\ ResultWait \in Nat /\ DohTimeout \in Nat /\ LeaseTtl \in Nat

VARIABLES
  kind, policy,
  target,       \* number of the target being fetched
  pos,          \* entry of the policy being tried
  req,          \* the attempt in flight
  log,          \* attempts at this target: [pos, class]
  result,       \* outcome of this target
  unavailable,  \* ctx.unavailableFetchers
  pullUsed,     \* ctx.pullWaitUsedMs
  outages       \* history: submissions an absent executor has left unanswered

vars == <<kind, policy, target, pos, req, log, result, unavailable, pullUsed, outages>>

NoReq == [pc |-> "idle", url |-> NoUrl, redirects |-> 0, addr |-> "none", waited |-> 0]
Pending == Failure("pending", NoStatus)

IsPull(f) == f = "home-http"     \* PULL_FETCHER_IDS

\* validateFetcherPolicy, of both fetch/policy.ts and db/fetcherPolicies.ts:
\* the allow list is the set of the fetchers in the order list.
ValidPolicy(p) ==
  Len(p) > 0 /\ \A i, j \in DOMAIN p : p[i].id = p[j].id => i = j

\* The fetchers of the registry, and the entries a policy can have
FetcherIds == {"cf-http", "gcp-http", "home-http"}
PolicyEntry == [id : FetcherIds, proceedOn : SUBSET STRING]

ASSUME PolicyAssumption == \A p \in Policies : p \in Seq(PolicyEntry) /\ ValidPolicy(p)

\* planAttempts; an RPC tries every fetcher of its caller.
PlanLength(p) == IF kind = "check" /\ Len(p) > MaxAttempts THEN MaxAttempts ELSE Len(p)

Fetcher == policy[pos].id

\* checkUrlForSsrf, and for an RPC the allowed hosts too
Guard == IF kind = "rpc" THEN WorkerUrls \cap CallerUrls ELSE WorkerUrls

Init ==
  /\ kind \in Kinds
  /\ policy \in Policies
  /\ target = 1 /\ pos = 1
  /\ req = NoReq
  /\ log = <<>>
  /\ result = Pending
  /\ unavailable = {} /\ pullUsed = 0 /\ outages = 0

-----------------------------------------------------------------------------
(* The limits of a pull fetcher *)

Remaining == PullBudget - pullUsed

\* Mutant of SubmitLimits: the time to the lease is not taken off the rest.
SubmitLimitsOverlapping ==
  LET lease == Min({LeaseWait, Remaining \div 5})
  IN  [lease |-> lease, result |-> Min({ResultWait, Remaining})]

\* leaseWaitMs and resultWaitMs; an RPC uses the defaults of submitAndWait
SubmitLimits ==
  LET lease == Min({LeaseWait, Remaining \div 5})
  IN  IF kind = "rpc" THEN [lease |-> LeaseWait, result |-> ResultWait]
      ELSE [lease |-> lease, result |-> Min({ResultWait, Remaining - lease})]

-----------------------------------------------------------------------------
(* The end of an attempt *)

\* Mutant of ShouldProceedToNext: an explicit proceedOn overrides the refusals.
ShouldProceedToNextAnyway(entry, out) == out.class \in entry.proceedOn

\* shouldProceedToNext, of a check
ShouldProceedToNext(entry, out) ==
  out.class \notin NeverProceedable /\ out.class \in entry.proceedOn

\* shouldContinue, of an RPC
ShouldContinue(out) ==
  /\ out.class \notin NeverProceedable
  /\ out.class \in DefaultProceedable \cup {"http_403"} \/ out.status = NoStatus

MayProceed(entry, out) ==
  IF kind = "check" THEN ShouldProceedToNext(entry, out) ELSE ShouldContinue(out)

\* TRANSIENT_RETRY_FAILURE_CLASSES
Transient == {"http_5xx", "network_error"}

TriesOf(p, attempts) == Cardinality({i \in DOMAIN attempts : attempts[i].pos = p})

\* The entry is tried again: not for a pull fetcher, not for an RPC.
MayRetry(out) ==
  /\ kind = "check"
  /\ out.class \in Transient
  /\ TriesOf(pos, log) < Retries
  /\ ~IsPull(Fetcher)

\* An answer is returned to another Worker only if it may see the final URL.
Answer(out) == IF kind = "rpc" /\ out.ok /\ out.url \notin Guard
               THEN Failure("ssrf_blocked", NoStatus) ELSE out

\* runFetchSequence and the loop of fetchPage, after an attempt.  asked says
\* that the fetcher was really called.
Record(out, waited, asked) ==
  /\ log' = Append(log, [pos |-> pos, class |-> out.class])
  /\ req' = NoReq
  /\ unavailable' = IF kind = "check" /\ out.class = "executor_unavailable"
                    THEN unavailable \cup {Fetcher} ELSE unavailable
  /\ pullUsed' = IF kind = "check" /\ IsPull(Fetcher) THEN pullUsed + waited ELSE pullUsed
  /\ outages' = IF asked /\ out.class = "executor_unavailable" THEN outages + 1 ELSE outages
  /\ IF MayRetry(out) THEN UNCHANGED <<pos, result>>
     ELSE IF ~out.ok /\ MayProceed(policy[pos], out) /\ pos < PlanLength(policy)
     THEN pos' = pos + 1 /\ UNCHANGED result
     ELSE result' = Answer(out) /\ UNCHANGED pos
  /\ UNCHANGED <<kind, policy, target>>

Goto(r) == req' = r /\ UNCHANGED <<kind, policy, target, pos, log, result, unavailable,
                                   pullUsed, outages>>

\* A home-http attempt ends with the payload's outcome, or unavailable, after
\* any part of the time it may wait.
Waits == IF IsPull(Fetcher)
         THEN {req.waited + w : w \in {0, SubmitLimits.lease, SubmitLimits.lease + SubmitLimits.result}}
         ELSE {0}

Finish(out) == \E w \in Waits : Record(out, w, TRUE)

\* The final URL is checked again for home-http only.
FinishPayload(payload) ==
  Finish(FromPayload(payload, IF IsPull(Fetcher) THEN WorkerUrls ELSE Urls))

-----------------------------------------------------------------------------
(* Steps of an attempt *)

\* Without asking: unavailable earlier in this check, or no time left
Skip ==
  /\ req.pc = "idle" /\ result = Pending /\ kind = "check"
  /\ \/ Fetcher \in unavailable
     \/ IsPull(Fetcher) /\ Remaining < MinPullWait
  /\ Record(Failure("executor_unavailable", NoStatus), 0, FALSE)

\* runFetcher with an implementation of the registry
MayAsk(f) ==
  /\ req.pc = "idle" /\ result = Pending
  /\ Fetcher = f
  /\ kind = "check" => /\ Fetcher \notin unavailable
                       /\ IsPull(Fetcher) => Remaining >= MinPullWait

Refused(waited) == Record(Failure("ssrf_blocked", NoStatus), waited, TRUE)
Started(pc, waited) == Goto([NoReq EXCEPT !.pc = pc, !.url = StartUrl, !.waited = waited])

\* httpFetch: the guard on the first URL
AskCf ==
  /\ MayAsk("cf-http")
  /\ IF StartUrl \in Guard THEN Started("send", 0) ELSE Refused(0)

\* gcpHttpFetch: the guard, then a signed POST to the executor
AskGcp ==
  /\ MayAsk("gcp-http")
  /\ IF StartUrl \in Guard THEN Started("vet", 0) ELSE Refused(0)

\* homeHttpFetch: the guard and the name's addresses over DNS-over-HTTPS
\* (resolveAndCheck), then the job is submitted.
AskHome ==
  /\ MayAsk("home-http")
  /\ IF StartUrl \notin Guard THEN Refused(0)
     ELSE \E doh \in {0, DohTimeout} : Refused(doh) \/ Started("vet", doh)

\* vet: static checks, then every address of the name must be allowed; the
\* connection will use the one that is chosen here.
Vet ==
  /\ req.pc = "vet"
  /\ \/ req.url \notin ExecutorUrls /\ FinishPayload(ExecutorError("ssrf_blocked"))
     \/ /\ req.url \in ExecutorUrls
        /\ \/ FinishPayload(ExecutorError("network_error"))       \* DNS fails
           \/ \E answer \in SUBSET Addrs \ {{}} :
                IF answer \cap BlockedAddrs # {}
                THEN FinishPayload(ExecutorError("ssrf_blocked"))
                ELSE \E a \in answer : Goto([req EXCEPT !.pc = "send", !.addr = a])

\* pinnedLookup; the Worker's fetch cannot choose an address.
Contact == IF Fetcher = "cf-http" THEN {"none"} ELSE {req.addr}

Send ==
  /\ req.pc = "send"
  /\ \E a \in Contact : Goto([req EXCEPT !.pc = "reply", !.addr = a])

\* The request fails, or the total timeout passes.
RequestFails ==
  /\ req.pc \in {"send", "reply"}
  /\ \E class \in {"network_error", "timeout"} :
       IF Fetcher = "cf-http" THEN Finish(Failure(class, NoStatus))
                              ELSE FinishPayload(ExecutorError(class))

\* Mutant of FollowTo: the redirect of cf-http is not checked.
FollowToUnchecked(url) ==
  Goto([req EXCEPT !.url = url, !.redirects = @ + 1, !.addr = "none",
                   !.pc = IF Fetcher = "cf-http" THEN "send" ELSE "vet"])

\* The next hop: the Worker checks the URL itself, the executor vets it.
FollowTo(url) ==
  IF Fetcher = "cf-http" /\ url \notin Guard
  THEN Finish(Failure("ssrf_blocked", NoStatus))
  ELSE Goto([req EXCEPT !.url = url, !.redirects = @ + 1, !.addr = "none",
                        !.pc = IF Fetcher = "cf-http" THEN "send" ELSE "vet"])

\* httpFetch and fetchTarget after a response
Reply(resp) ==
  /\ req.pc = "reply"
  /\ \/ /\ IsRedirect(resp.status)
        /\ IF resp.location \notin Urls \/ req.redirects >= MaxRedirects
           THEN IF Fetcher = "cf-http" THEN Finish(Failure("network_error", resp.status))
                                       ELSE FinishPayload(ExecutorError("network_error"))
           ELSE FollowTo(resp.location)
     \/ /\ ~IsRedirect(resp.status)
        /\ IF Fetcher = "cf-http" THEN Finish(Terminal(resp, req.url))
                                  ELSE FinishPayload(ExecutorPayload(resp, req.url))

\* The connection breaks, or the total timeout passes, while httpFetch reads a
\* body: it does not catch that, runFetcher does.
BodyBreaks(resp) ==
  /\ req.pc = "reply" /\ Fetcher = "cf-http"
  /\ BodyIsRead(resp.status)
  /\ Finish(Failure("internal_error", NoStatus))

AtExecutor(f) == req.pc \in {"vet", "send", "reply"} /\ Fetcher = f

\* createServer: an unknown token or a malformed request is refused, and so is
\* any request while maxInflight are being served.
ExecutorRefuses ==
  /\ AtExecutor("gcp-http") /\ req.pc = "vet" /\ req.redirects = 0
  /\ \E class \in {"internal_error", "network_error"} : Finish(Failure(class, NoStatus))

\* The executor is down, slow, or its answer cannot be read.
ExecutorLost ==
  /\ AtExecutor("gcp-http")
  /\ \E class \in {"network_error", "timeout", "internal_error"} :
       Finish(Failure(class, NoStatus))

\* submitAndWait: maintenance, no Runner is online, none leases the job or
\* returns its result in time; or the RPC to the CrawlerObject fails.
HomeUnavailable ==
  /\ AtExecutor("home-http")
  /\ Finish(Failure("executor_unavailable", NoStatus))

\* Mutant of NextTarget: the executors that were unavailable are forgotten.
NextTargetForgetting ==
  /\ kind = "check" /\ result # Pending /\ target < Targets /\ (target > 1 \/ result.ok)
  /\ target' = target + 1 /\ pos' = 1 /\ log' = <<>> /\ result' = Pending
  /\ unavailable' = {}
  /\ UNCHANGED <<kind, policy, req, pullUsed, outages>>

\* A sitemap index that was read is followed by its children, each fetched
\* through the same policy; a child that fails does not stop the others.
NextTarget ==
  /\ kind = "check" /\ result # Pending /\ target < Targets /\ (target > 1 \/ result.ok)
  /\ target' = target + 1 /\ pos' = 1 /\ log' = <<>> /\ result' = Pending
  /\ UNCHANGED <<kind, policy, req, unavailable, pullUsed, outages>>

Next ==
  \/ Skip \/ AskCf \/ AskGcp \/ AskHome
  \/ Vet \/ Send \/ RequestFails
  \/ ExecutorRefuses \/ ExecutorLost \/ HomeUnavailable
  \/ NextTarget
  \/ \E resp \in Responses : Reply(resp) \/ BodyBreaks(resp)

Spec == Init /\ [][Next]_vars

-----------------------------------------------------------------------------
(* Properties *)

Classes == NeverProceedable \cup DefaultProceedable \cup {"success", "http_429", "http_403", "internal_error"}

\* The attempts stay within the policy, and the attempt in flight within its
\* redirects.
TypeOK ==
  /\ kind \in Kinds /\ policy \in Policies
  /\ target \in 1..Targets /\ pos \in 1..PlanLength(policy)
  /\ req.pc \in {"idle", "vet", "send", "reply"} /\ req.redirects \in 0..MaxRedirects
  /\ \A i \in DOMAIN log : log[i] \in [pos : 1..PlanLength(policy), class : Classes]
  /\ unavailable \subseteq {"home-http"} /\ pullUsed \in Nat /\ outages \in Nat

Legal(i) ==
  LET a == log[i]  b == log[i + 1] IN
  /\ a.class \notin NeverProceedable \cup {"success"}
  /\ \/ b.pos = a.pos + 1
     \/ b.pos = a.pos /\ a.class \in Transient /\ kind = "check"

\* SPEC 8, ADR-0005 and ADR-0014, over the whole history of a target.  A
\* refusal of the site ends it, whatever the policy says; entries are tried in
\* order and repeated only after a transient failure; and it is not given up
\* before the entry's retries and the fetchers that may follow are used up.
AttemptsFollowPolicy ==
  /\ \A i \in 1..(Len(log) - 1) : Legal(i)
  /\ \A p \in DOMAIN policy : TriesOf(p, log) <= Retries + 1
  /\ (result # Pending /\ kind = "check" /\ ~result.ok) =>
       LET last == log[Len(log)] IN
       /\ (last.class \in Transient /\ ~IsPull(policy[last.pos].id))
             => TriesOf(last.pos, log) = Retries + 1
       /\ \/ last.class \in NeverProceedable
          \/ last.class \notin policy[last.pos].proceedOn
          \/ last.pos = PlanLength(policy)

\* SPEC 15: every hop is checked again.  A site is contacted only at URLs the
\* party that contacts it accepts, an executor only at an address it has
\* checked although the name may have changed meanwhile, and a caller of the
\* RPC is given pages of its allowed hosts only, wherever redirects led.
AllowedUrlsOnly ==
  /\ req.pc = "reply" =>
       IF Fetcher = "cf-http" THEN req.url \in Guard
       ELSE req.url \in ExecutorUrls /\ req.addr \notin BlockedAddrs
  /\ kind = "rpc" /\ result.ok => result.url \in CallerUrls

\* PULL_WAIT_BUDGET_MS keeps all the waiting for Runners in one check within
\* the lease of the HostObject, the DNS check of the last submission included.
PullWaitFitsLease == pullUsed <= LeaseTtl

\* An executor that is absent is waited for once in a check, however many
\* targets the check fetches.
OneOutagePerCheck == kind = "check" => outages <= 1
=============================================================================
