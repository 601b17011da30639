---------------------------- MODULE HostLimiter ----------------------------
(***************************************************************************)
(* HostObject (src/src/do/hostObject.ts): the rate limit, leases, backoff  *)
(* and circuit breaker that every check of one canonical origin shares.    *)
(*                                                                         *)
(* A Durable Object serialises its storage calls, so acquireLease and      *)
(* releaseLease are one atomic action each.  The checks that hold leases   *)
(* (runMonitorCheck and the content processors under it) are modelled by   *)
(* the set "holding": a check may outlive the TTL of its lease, may die    *)
(* without releasing, and may release a lease that has already expired.    *)
(*                                                                         *)
(* The code stores absolute times; only their distance from the clock is   *)
(* ever used, so each timestamp t is represented by the time left until t  *)
(* and Tick lets one unit of time pass.  null timestamps:                  *)
(*   lastAcquireAt = null   is  spacingLeft = 0                            *)
(*   nextAllowedAt = null   is  waitLeft = 0      ("?? 0" in the code)     *)
(*   circuitOpenUntil       is  circuitSet (not null) and openLeft         *)
(***************************************************************************)
EXTENDS Integers, FiniteSets

CONSTANTS
  LeaseId,           \* lease UUIDs; one stands for one check execution at a time
  NoLease,           \* null in halfOpenProbeLeaseId
  MinInterval,       \* MIN_ACCESS_INTERVAL_MS
  MaxConcurrent,     \* MAX_CONCURRENT_LEASES
  LeaseTtl,          \* LEASE_TTL_MS
  Threshold,         \* CIRCUIT_BREAKER_THRESHOLD
  CircuitOpen,       \* CIRCUIT_OPEN_MS
  BaseBackoff,       \* BASE_BACKOFF_MS
  MaxBackoff,        \* MAX_BACKOFF_MS
  RetryAfters,       \* Retry-After values a 429 may carry (0: none)
  HoldLimit,         \* the longest a check keeps a lease before it releases
  StreakCap          \* bound: failureStreak saturates here

ASSUME LeaseIdAssumption == IsFiniteSet(LeaseId) /\ NoLease \notin LeaseId

ASSUME TimingAssumption ==
  /\ MinInterval \in Nat \ {0}
  /\ LeaseTtl \in Nat \ {0}
  /\ CircuitOpen \in Nat \ {0}
  /\ BaseBackoff \in Nat
  /\ MaxBackoff \in Nat
  /\ HoldLimit \in Nat
  /\ RetryAfters \subseteq Nat

\* 60 s and 10 s against 300 s: when the open window ends, every lease
\* granted before it began is stale and the access interval has passed.
ASSUME WindowAssumption ==
  /\ LeaseTtl <= CircuitOpen
  /\ MinInterval <= CircuitOpen

ASSUME LimitAssumption ==
  /\ MaxConcurrent \in Nat \ {0}
  /\ Threshold \in Nat \ {0}
  /\ StreakCap \in Nat
  /\ Threshold <= StreakCap

VARIABLES
  active,          \* keys of activeLeases
  leaseLeft,       \* granted-at + LEASE_TTL_MS - now, for the active leases
  spacingLeft,     \* lastAcquireAt + MIN_ACCESS_INTERVAL_MS - now
  waitLeft,        \* nextAllowedAt - now
  failureStreak,
  circuitSet,      \* circuitOpenUntil # null
  openLeft,        \* circuitOpenUntil - now
  probe,           \* halfOpenProbeLeaseId
  holding,         \* leases whose check is still fetching
  holdLeft         \* time the check still has before it must release

hostState == <<active, leaseLeft, spacingLeft, waitLeft, failureStreak,
               circuitSet, openLeft, probe>>
vars == <<active, leaseLeft, spacingLeft, waitLeft, failureStreak,
          circuitSet, openLeft, probe, holding, holdLeft>>

-----------------------------------------------------------------------------
Larger(a, b) == IF a >= b THEN a ELSE b
Smaller(a, b) == IF a <= b THEN a ELSE b
Countdown(n) == IF n = 0 THEN 0 ELSE n - 1

\* backoffMsFor
BackoffFor(streak) ==
  IF streak <= 0 THEN 0
  ELSE Smaller(MaxBackoff, BaseBackoff * 2^(streak - 1))

\* Mutant of Fresh: expireStaleLeases never runs.
FreshNever == active

\* What expireStaleLeases leaves: the leases younger than the TTL, ...
Fresh == {l \in active : leaseLeft[l] > 0}

\* Mutant of FreshProbe: the stale lease goes, the probe stays recorded.
FreshProbeForgotten == probe

\* ... and the probe only while its lease is one of them.
FreshProbe == IF probe \in Fresh THEN probe ELSE NoLease

Init ==
  /\ active = {}
  /\ leaseLeft = [l \in LeaseId |-> 0]
  /\ spacingLeft = 0
  /\ waitLeft = 0
  /\ failureStreak = 0
  /\ circuitSet = FALSE
  /\ openLeft = 0
  /\ probe = NoLease
  /\ holding = {}
  /\ holdLeft = [l \in LeaseId |-> 0]

-----------------------------------------------------------------------------
(* acquireLease *)

\* crypto.randomUUID(): an identifier nobody holds and the object has not kept
Unused(l) == l \notin active \cup holding

\* Mutant of ProbeAllowed: the half-open path does not wait for the window.
ProbeAllowedEarly == circuitSet /\ FreshProbe = NoLease

\* The window has elapsed and no probe is outstanding: grant a probe.
ProbeAllowed == circuitSet /\ openLeft = 0 /\ FreshProbe = NoLease

\* Mutant of NormalAllowed: the lease count is compared with <=.
NormalAllowedOffByOne ==
  /\ ~circuitSet
  /\ Cardinality(Fresh) <= MaxConcurrent
  /\ spacingLeft = 0
  /\ waitLeft = 0

\* Mutant of NormalAllowed: lastAcquireAt is not looked at.
NormalAllowedNoSpacing ==
  /\ ~circuitSet
  /\ Cardinality(Fresh) < MaxConcurrent
  /\ waitLeft = 0

\* The closed path: a free slot, the access interval and the backoff over.
NormalAllowed ==
  /\ ~circuitSet
  /\ Cardinality(Fresh) < MaxConcurrent
  /\ spacingLeft = 0
  /\ waitLeft = 0

\* The part common to both grants: record the lease, its holder and the time.
Grant(l) ==
  /\ active' = Fresh \cup {l}
  /\ leaseLeft' = [k \in LeaseId |-> IF k = l THEN LeaseTtl
                                     ELSE IF k \in Fresh THEN leaseLeft[k] ELSE 0]
  /\ spacingLeft' = MinInterval
  /\ holding' = holding \cup {l}
  /\ holdLeft' = [holdLeft EXCEPT ![l] = HoldLimit]

\* Mutant of AcquireProbe: circuitOpenUntil is not reset by the grant.
AcquireProbeStillOpen(l) ==
  /\ Unused(l)
  /\ ProbeAllowed
  /\ Grant(l)
  /\ probe' = l
  /\ UNCHANGED <<waitLeft, failureStreak, circuitSet, openLeft>>

\* Half-open: neither the concurrency cap nor waitLeft is looked at.
AcquireProbe(l) ==
  /\ Unused(l)
  /\ ProbeAllowed
  /\ Grant(l)
  /\ probe' = l
  /\ circuitSet' = FALSE
  /\ openLeft' = 0
  /\ UNCHANGED <<waitLeft, failureStreak>>

AcquireNormal(l) ==
  /\ Unused(l)
  /\ NormalAllowed
  /\ Grant(l)
  /\ probe' = FreshProbe
  /\ UNCHANGED <<waitLeft, failureStreak, circuitSet, openLeft>>

\* A refused acquire saves the state without the stale leases, except while
\* the circuit is open, where it returns before any save.
AcquireRefused ==
  /\ ~ProbeAllowed
  /\ ~NormalAllowed
  /\ ~(circuitSet /\ openLeft > 0)
  /\ active' = Fresh
  /\ leaseLeft' = [k \in LeaseId |-> IF k \in Fresh THEN leaseLeft[k] ELSE 0]
  /\ probe' = FreshProbe
  /\ UNCHANGED <<spacingLeft, waitLeft, failureStreak, circuitSet, openLeft,
                 holding, holdLeft>>

-----------------------------------------------------------------------------
(* releaseLease *)

\* delete activeLeases[leaseId]; end the half-open state if it was the probe.
\* The lease may have expired and been dropped before: the outcome counts all
\* the same.
Drop(l) ==
  /\ l \in holding
  /\ active' = active \ {l}
  /\ leaseLeft' = [leaseLeft EXCEPT ![l] = 0]
  /\ probe' = IF probe = l THEN NoLease ELSE probe
  /\ holding' = holding \ {l}
  /\ holdLeft' = [holdLeft EXCEPT ![l] = 0]
  /\ UNCHANGED spacingLeft

ReleaseOk(l) ==
  /\ Drop(l)
  /\ failureStreak' = 0
  /\ circuitSet' = FALSE
  /\ openLeft' = 0
  /\ waitLeft' = 0

\* The executor, not the host, was at fault: streak and backoff stay.
ReleaseExecutorUnavailable(l) ==
  /\ Drop(l)
  /\ UNCHANGED <<failureStreak, circuitSet, openLeft, waitLeft>>

\* retryAfter is 0 unless the failure is http_429 with a Retry-After header.
ReleaseFailed(l, retryAfter) ==
  /\ Drop(l)
  /\ failureStreak' = Smaller(StreakCap, failureStreak + 1)
  /\ waitLeft' = Larger(BackoffFor(failureStreak'), retryAfter)
  /\ IF failureStreak' >= Threshold
     THEN circuitSet' = TRUE /\ openLeft' = CircuitOpen
     ELSE UNCHANGED <<circuitSet, openLeft>>

-----------------------------------------------------------------------------
(* The environment *)

\* The check's isolate dies, or its release call is lost.
Crash(l) ==
  /\ l \in holding
  /\ holding' = holding \ {l}
  /\ holdLeft' = [holdLeft EXCEPT ![l] = 0]
  /\ UNCHANGED hostState

Tick ==
  /\ \A l \in holding : holdLeft[l] > 0
  /\ leaseLeft' = [l \in LeaseId |-> Countdown(leaseLeft[l])]
  /\ holdLeft' = [l \in LeaseId |-> Countdown(holdLeft[l])]
  /\ spacingLeft' = Countdown(spacingLeft)
  /\ waitLeft' = Countdown(waitLeft)
  /\ openLeft' = Countdown(openLeft)
  /\ UNCHANGED <<active, failureStreak, circuitSet, probe, holding>>

Finish(l) ==
  \/ ReleaseOk(l)
  \/ ReleaseExecutorUnavailable(l)
  \/ \E r \in RetryAfters \cup {0} : ReleaseFailed(l, r)
  \/ Crash(l)

Next ==
  \/ \E l \in LeaseId : AcquireProbe(l)
  \/ \E l \in LeaseId : AcquireNormal(l)
  \/ AcquireRefused
  \/ \E l \in LeaseId : Finish(l)
  \/ Tick

Spec == Init /\ [][Next]_vars

\* Time passes, and a check ends: every request it makes has a timeout.
Fairness == WF_vars(Tick) /\ \A l \in LeaseId : WF_vars(Finish(l))
FairSpec == Spec /\ Fairness

-----------------------------------------------------------------------------
(* Properties *)

\* The HostObject state and its clients are well typed: in particular a wait is
\* bounded by MAX_BACKOFF_MS unless the host itself asked for more.
TypeOK ==
  /\ active \subseteq LeaseId
  /\ leaseLeft \in [LeaseId -> 0..LeaseTtl]
  /\ spacingLeft \in 0..MinInterval
  /\ waitLeft \in Nat
  /\ waitLeft <= MaxBackoff \/ \E r \in RetryAfters : waitLeft <= r
  /\ failureStreak \in 0..StreakCap
  /\ circuitSet \in BOOLEAN
  /\ openLeft \in 0..CircuitOpen
  /\ probe \in LeaseId \cup {NoLease}
  /\ holding \subseteq LeaseId
  /\ holdLeft \in [LeaseId -> 0..HoldLimit]

\* activeLeases never exceeds MAX_CONCURRENT_LEASES, although the half-open
\* path of acquireLease grants without counting.
CapRespected == Cardinality(active) <= MaxConcurrent

\* No more than MAX_CONCURRENT_LEASES checks really access the host at once.
\* This is about the holders, not about the object's own table: an expired
\* lease frees a slot whether or not its check is done.
RealConcurrency == Cardinality(holding) <= MaxConcurrent

\* While the circuit is open, every lease the object still keeps and the access
\* interval run out no later than the open window: this is why acquireLease may
\* skip both checks when it grants a half-open probe.
WindowOutlastsLeases ==
  circuitSet => /\ \A l \in active : leaseLeft[l] <= openLeft
                /\ spacingLeft <= openLeft

\* A probe that is recorded is one of the active leases, so its expiry or its
\* release always ends the half-open state; nothing else could.
ProbeIsActive == probe # NoLease => probe \in active

\* Two grants are at least MIN_ACCESS_INTERVAL_MS apart, on the half-open path
\* too, which does not read lastAcquireAt.
GrantSpacing == [][\A l \in LeaseId :
                      l \in active' \ active => spacingLeft = 0]_vars

\* A half-open probe is alone: no lease granted before the window is left.
ProbeGrantedAlone ==
  [][\A l \in LeaseId :
        (circuitSet /\ l \in active' \ active) => active' = {l}]_vars

\* An origin is never locked out for good: leaked leases, a leaked probe, an
\* open circuit and any backoff all pass, and some acquire is granted.
NeverLockedOut == []<>(ProbeAllowed \/ NormalAllowed)

\* The comment on halfOpenProbeLeaseId: while it is not null, acquireLease
\* grants no further lease.
SingleProbe ==
  [][\A l \in LeaseId :
        (probe # NoLease /\ probe' = probe) => l \notin active' \ active]_vars

\* The comment on nextAllowedAt: no acquire is granted before that time.
BackoffHonoured ==
  [][\A l \in LeaseId : l \in active' \ active => waitLeft = 0]_vars

=============================================================================
