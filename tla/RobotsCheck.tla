----------------------------- MODULE RobotsCheck -----------------------------
(***************************************************************************)
(* checkRobots of src/robots/check.ts with the cache in D1 behind it       *)
(* (src/pipeline/robotsCache.ts), as called by concurrent checks of one    *)
(* origin.                                                                 *)
(*                                                                         *)
(* What the origin answers is "permits" or "forbids" (a robots.txt that    *)
(* says so of the target), "missing" (4xx) or "down" (5xx); no answer in   *)
(* time and a body that cannot be read are "down" too.  The rules          *)
(* themselves are in RobotsRules.                                          *)
(***************************************************************************)
EXTENDS Integers

CONSTANTS RobotsChecker,  \* the checks of the origin
          RobotsTtl,      \* DEFAULT_ROBOTS_TTL_SECONDS, in ticks of now
          MaxNow          \* bound: ticks of the run

VARIABLES
  now,        \* Date.now(), in ticks
  published,  \* what the origin answers
  served,     \* history: the last tick at which the origin answered so, or Never
  cached,     \* the row of robots_cache, or NoRow
  lookup      \* each checker's pc, with its locals and its decision

robotsVars == <<now, published, served, cached, lookup>>

ASSUME RobotsAssumption ==
  /\ RobotsTtl \in Nat \ {0}
  /\ MaxNow \in Nat

RobotsAnswers == {"permits", "forbids", "missing", "down"}
Never == -1

NoRow == [answer |-> "none", fetchedAt |-> 0]
RobotsRow == [answer : RobotsAnswers \cup {"none"}, fetchedAt : 0 .. MaxNow]

\* A lookup under way keeps its entry, fetchedAt being when it was begun;
\* one that has ended in a decision keeps the entry the decision rests on.
NoLookup == [pc |-> "idle", entry |-> NoRow, fromCache |-> FALSE]

RobotsTypeOK ==
  /\ now \in 0 .. MaxNow
  /\ published \in RobotsAnswers
  /\ served \in [RobotsAnswers -> Never .. MaxNow]
  /\ cached \in RobotsRow
  /\ lookup \in [RobotsChecker -> [pc : {"idle", "fetch", "put", "decided"},
                                   entry : RobotsRow, fromCache : BOOLEAN]]

RobotsInit ==
  /\ now = 0
  /\ published = "permits"
  /\ served = [a \in RobotsAnswers |-> IF a = published THEN 0 ELSE Never]
  /\ cached = NoRow
  /\ lookup = [c \in RobotsChecker |-> NoLookup]

\* unavailable of the entry: the origin could not be asked.
Unavailable(entry) == entry.answer = "down"

\* The verdict: what cannot be known is not allowed.
RobotsVerdict(entry) ==
  IF Unavailable(entry) \/ entry.answer = "forbids" THEN "disallowed" ELSE "allowed"

\* 0 <= ageMs < ttlSeconds * 1000
IsFresh(row) == row # NoRow /\ now - row.fetchedAt < RobotsTtl

Decided(entry, fromCache) ==
  [pc |-> "decided", entry |-> entry, fromCache |-> fromCache]

\* checkRobots up to its first await on the origin: the row is used when it
\* is fresh, and otherwise the time of the fetch is taken before it is sent.
BeginLookup(c) ==
  /\ lookup[c].pc = "idle"
  /\ lookup' = [lookup EXCEPT ![c] =
       IF IsFresh(cached)
       THEN Decided(cached, TRUE)
       ELSE [pc |-> "fetch", entry |-> [answer |-> "none", fetchedAt |-> now], fromCache |-> FALSE]]
  /\ UNCHANGED <<now, published, served, cached>>

\* fetchRobots: the answer of the origin arrives, or does not.
FetchRobots(c) ==
  /\ lookup[c].pc = "fetch"
  /\ \E answer \in {published, "down"} :
       lookup' = [lookup EXCEPT ![c].pc = "put", ![c].entry.answer = answer]
  /\ UNCHANGED <<now, published, served, cached>>

\* Mutant of Cacheable: an outage is kept like any answer.
CacheableAlways(entry) == entry.answer # "none"

\* An outage is not written to the cache (ADR-0017).
Cacheable(entry) == ~Unavailable(entry)

\* cache.put, and the decision on the entry fetched.
PutAndDecide(c) ==
  /\ lookup[c].pc = "put"
  /\ cached' = IF Cacheable(lookup[c].entry) THEN lookup[c].entry ELSE cached
  /\ lookup' = [lookup EXCEPT ![c] = Decided(lookup[c].entry, FALSE)]
  /\ UNCHANGED <<now, published, served>>

\* The check goes on with its decision; or the Worker dies, or the write to
\* D1 throws, and the lookup is gone without one.
EndLookup(c) ==
  /\ lookup[c].pc # "idle"
  /\ lookup' = [lookup EXCEPT ![c] = NoLookup]
  /\ UNCHANGED <<now, published, served, cached>>

\* The site edits its robots.txt, fails or recovers; bound: once a tick.
Publish(answer) ==
  /\ \A a \in RobotsAnswers \ {published} : served[a] < now
  /\ answer # published
  /\ published' = answer
  /\ served' = [served EXCEPT ![answer] = now]
  /\ UNCHANGED <<now, cached, lookup>>

RobotsTick ==
  /\ now < MaxNow
  /\ now' = now + 1
  /\ served' = [served EXCEPT ![published] = now + 1]
  /\ UNCHANGED <<published, cached, lookup>>

RobotsNext ==
  \/ \E c \in RobotsChecker : BeginLookup(c) \/ FetchRobots(c) \/ PutAndDecide(c) \/ EndLookup(c)
  \/ \E answer \in RobotsAnswers : Publish(answer)
  \/ RobotsTick

RobotsSpec == RobotsInit /\ [][RobotsNext]_robotsVars

(***************************************************************************)
(* Properties.                                                             *)
(***************************************************************************)
\* The answer a decision rests on was still the origin's less than a TTL
\* before it or, if the check asked the origin itself, since the check was
\* begun.  A check that finds the origin unavailable has always asked it
\* itself, so that the failures counted before a monitor is stopped are
\* failures of fetches (checkRobots with createD1RobotsCache, when the
\* answer changes under a slow fetch and when a row overwrites a newer one).
DecisionsAreCurrent ==
  [][\A c \in RobotsChecker :
       lookup'[c].pc = "decided" /\ lookup[c].pc # "decided" =>
         LET d == lookup'[c]
             lastSeen == served[d.entry.answer]
         IN  IF Unavailable(d.entry) THEN ~d.fromCache
             ELSE \/ d.fromCache  /\ now - lastSeen < RobotsTtl
                  \/ ~d.fromCache /\ lastSeen >= d.entry.fetchedAt]_robotsVars
=============================================================================
