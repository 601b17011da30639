------------------------- MODULE SharedStateProofs -------------------------
(***************************************************************************)
(* Proofs about the state that checks, requests and loops share: the       *)
(* limiter of an origin (HostLimiter), the slots of a home runner          *)
(* (HomeRunner) and the small machines that Algorithms puts side by side,  *)
(* each by its own specification and for every value of its constants.     *)
(*                                                                         *)
(* In HostLimiter, CapRespected is not inductive: the half-open path of    *)
(* acquireLease adds a lease without counting.  It is safe because the     *)
(* open window outlasts every lease (WindowOutlastsLeases), so the table   *)
(* is empty when a probe is granted; that fact in turn carries             *)
(* GrantSpacing and ProbeGrantedAlone.  Real concurrency needs one thing   *)
(* more: no check outlives its lease, which is what HoldLimit < LeaseTtl   *)
(* buys.                                                                   *)
(*                                                                         *)
(* In HomeRunner, a lease request counts the free slots and then waits;    *)
(* what it counted stays free, because only its own answer fills slots.    *)
(* The stop is a sequence: when it waits for the jobs, no loop is left to  *)
(* take another.                                                           *)
(*                                                                         *)
(* The three caches that concurrent requests share are the accepted tokens *)
(* of an executor (ExecutorToken), the robots.txt of an origin             *)
(* (RobotsCheck) and the keys of Access (AccessKeys).  Each invariant      *)
(* relates what a cache holds to what was true outside it: an accepted     *)
(* token is remembered or has outlived its use; a stored answer was still  *)
(* given after its fetch was begun.  Of SourceConfig, it relates what each *)
(* check goes on with to what is stored.                                   *)
(***************************************************************************)
EXTENDS HostLimiter, HomeRunner, ExecutorToken, RobotsCheck, AccessKeys, SourceConfig,
        FiniteSetTheorems, SequenceTheorems, TLAPS

-----------------------------------------------------------------------------
(* The limiter of an origin *)

LimiterInv ==
  /\ TypeOK
  /\ CapRespected
  /\ WindowOutlastsLeases
  /\ ProbeIsActive

-----------------------------------------------------------------------------
(* Lemmas about the operators *)

\* backoffMsFor yields an integer that never exceeds MAX_BACKOFF_MS.
LEMMA BackoffForType ==
  ASSUME NEW s \in Nat
  PROVE  BackoffFor(s) \in Int /\ BackoffFor(s) <= MaxBackoff
<1>1. CASE s = 0
  BY <1>1, TimingAssumption DEF BackoffFor
<1>2. CASE s # 0
  <2>1. s - 1 \in Nat
    BY <1>2
  <2>2. 2^(s - 1) \in Int
    BY <2>1, SMT
  <2>3. BaseBackoff * 2^(s - 1) \in Int
    BY <2>2, TimingAssumption
  <2> QED
    BY <2>3, <1>2, TimingAssumption DEF BackoffFor, Smaller
<1> QED
  BY <1>1, <1>2

\* Letting a unit of time pass keeps a countdown in its range and preserves
\* the order of two countdowns.
LEMMA CountdownMonotone ==
  ASSUME NEW m \in Nat, NEW n \in Nat, m <= n
  PROVE  /\ Countdown(m) \in Nat
         /\ Countdown(n) \in 0..n
         /\ Countdown(m) <= Countdown(n)
BY DEF Countdown

\* Every set of leases is finite, and no larger than a set that includes it.
LEMMA LeaseSetsFinite ==
  ASSUME NEW S \in SUBSET LeaseId, NEW T \in SUBSET S
  PROVE  /\ IsFiniteSet(S)
         /\ Cardinality(S) \in Nat
         /\ Cardinality(T) <= Cardinality(S)
<1>1. IsFiniteSet(S)
  BY LeaseIdAssumption, FS_Subset
<1> QED
  BY <1>1, FS_Subset, FS_CardinalityType

\* Adding one lease to a table below the cap does not exceed the cap.
LEMMA OneMore ==
  ASSUME NEW S \in SUBSET LeaseId, NEW l \in LeaseId,
         Cardinality(S) < MaxConcurrent
  PROVE  Cardinality(S \cup {l}) <= MaxConcurrent
<1>1. IsFiniteSet(S) /\ Cardinality(S) \in Nat
  BY LeaseSetsFinite
<1>2. \/ Cardinality(S \cup {l}) = Cardinality(S)
      \/ Cardinality(S \cup {l}) = Cardinality(S) + 1
  BY <1>1, FS_AddElement
<1> QED
  BY <1>1, <1>2, LimitAssumption

-----------------------------------------------------------------------------
(* The inductive invariant *)

LEMMA LimiterBegins == Init => LimiterInv
<1> SUFFICES ASSUME Init PROVE LimiterInv
  OBVIOUS
<1>1. TypeOK
  <2>1. circuitSet \in BOOLEAN
    BY Zenon DEF Init
  <2> QED
    BY <2>1, TimingAssumption, LimitAssumption DEF Init, TypeOK
<1>2. CapRespected
  BY FS_EmptySet, LimitAssumption DEF Init, CapRespected
<1> QED
  BY <1>1, <1>2 DEF Init, LimiterInv, WindowOutlastsLeases, ProbeIsActive

\* What a grant does to the typed part of the state, whichever path gave it.
LEMMA GrantType ==
  ASSUME TypeOK, NEW l \in LeaseId, Grant(l)
  PROVE  /\ active' \subseteq LeaseId
         /\ leaseLeft' \in [LeaseId -> 0..LeaseTtl]
         /\ spacingLeft' \in 0..MinInterval
         /\ holding' \subseteq LeaseId
         /\ holdLeft' \in [LeaseId -> 0..HoldLimit]
BY TimingAssumption DEF TypeOK, Grant, Fresh

LEMMA AcquireProbeKeeps ==
  ASSUME LimiterInv, NEW l \in LeaseId, AcquireProbe(l)
  PROVE  LimiterInv'
<1> USE DEF LimiterInv
<1>1. Fresh = {}
  BY TimingAssumption
  DEF AcquireProbe, ProbeAllowed, WindowOutlastsLeases, Fresh, TypeOK
<1>2. active' = {l}
  BY <1>1 DEF AcquireProbe, Grant
<1>3. TypeOK'
  <2>1. circuitSet' \in BOOLEAN
    BY Zenon DEF AcquireProbe
  <2>2. openLeft' \in 0..CircuitOpen
    BY TimingAssumption DEF AcquireProbe
  <2> QED
    BY <2>1, <2>2, GrantType DEF AcquireProbe, TypeOK
<1>4. CapRespected'
  BY <1>2, FS_Singleton, LimitAssumption DEF CapRespected
<1>5. WindowOutlastsLeases'
  BY DEF AcquireProbe, WindowOutlastsLeases
<1>6. ProbeIsActive'
  BY <1>2 DEF AcquireProbe, ProbeIsActive
<1> QED
  BY <1>3, <1>4, <1>5, <1>6

LEMMA AcquireNormalKeeps ==
  ASSUME LimiterInv, NEW l \in LeaseId, AcquireNormal(l)
  PROVE  LimiterInv'
<1> USE DEF LimiterInv
<1>1. TypeOK'
  BY GrantType DEF AcquireNormal, TypeOK, FreshProbe
<1>2. CapRespected'
  <2>1. Fresh \in SUBSET LeaseId
    BY DEF TypeOK, Fresh
  <2> QED
    BY <2>1, OneMore DEF AcquireNormal, NormalAllowed, Grant, CapRespected
<1>3. WindowOutlastsLeases'
  BY DEF AcquireNormal, NormalAllowed, WindowOutlastsLeases
<1>4. ProbeIsActive'
  BY DEF AcquireNormal, Grant, FreshProbe, ProbeIsActive
<1> QED
  BY <1>1, <1>2, <1>3, <1>4

LEMMA AcquireRefusedKeeps ==
  ASSUME LimiterInv, AcquireRefused
  PROVE  LimiterInv'
<1> USE DEF LimiterInv
<1>1. active' \subseteq active
  BY DEF AcquireRefused, Fresh
<1>2. TypeOK'
  BY TimingAssumption DEF AcquireRefused, TypeOK, Fresh, FreshProbe
<1>3. CapRespected'
  BY <1>1, <1>2, LeaseSetsFinite, LimitAssumption DEF TypeOK, CapRespected
<1>4. WindowOutlastsLeases'
  BY <1>1, TimingAssumption DEF AcquireRefused, WindowOutlastsLeases, TypeOK, Fresh
<1>5. ProbeIsActive'
  BY DEF AcquireRefused, FreshProbe, ProbeIsActive
<1> QED
  BY <1>2, <1>3, <1>4, <1>5

\* The half of releaseLease that does not depend on the outcome.
LEMMA DropKeeps ==
  ASSUME LimiterInv, NEW l \in LeaseId, Drop(l)
  PROVE  /\ active' \subseteq active
         /\ active' \subseteq LeaseId
         /\ leaseLeft' \in [LeaseId -> 0..LeaseTtl]
         /\ \A k \in active' : leaseLeft'[k] = leaseLeft[k]
         /\ spacingLeft' = spacingLeft
         /\ probe' \in LeaseId \cup {NoLease}
         /\ holding' \subseteq LeaseId
         /\ holdLeft' \in [LeaseId -> 0..HoldLimit]
         /\ CapRespected'
         /\ ProbeIsActive'
<1> USE DEF LimiterInv
<1>1. active' \subseteq active
  BY DEF Drop
<1>2. CapRespected'
  BY <1>1, LeaseSetsFinite, LimitAssumption DEF TypeOK, CapRespected
<1>3. ProbeIsActive'
  BY DEF Drop, ProbeIsActive
<1> QED
  BY <1>1, <1>2, <1>3, TimingAssumption DEF Drop, TypeOK

LEMMA ReleaseOkKeeps ==
  ASSUME LimiterInv, NEW l \in LeaseId, ReleaseOk(l)
  PROVE  LimiterInv'
<1> USE DEF LimiterInv
<1>1. Drop(l)
  BY DEF ReleaseOk
<1>2. TypeOK'
  <2>1. circuitSet' \in BOOLEAN
    BY Zenon DEF ReleaseOk
  <2>2. /\ failureStreak' \in 0..StreakCap
        /\ openLeft' \in 0..CircuitOpen
        /\ waitLeft' \in Nat
        /\ waitLeft' <= MaxBackoff
    BY TimingAssumption, LimitAssumption DEF ReleaseOk
  <2> QED
    BY <1>1, <2>1, <2>2, DropKeeps DEF TypeOK
<1>3. WindowOutlastsLeases'
  BY DEF ReleaseOk, WindowOutlastsLeases
<1> QED
  BY <1>1, <1>2, <1>3, DropKeeps

LEMMA ReleaseExecutorUnavailableKeeps ==
  ASSUME LimiterInv, NEW l \in LeaseId, ReleaseExecutorUnavailable(l)
  PROVE  LimiterInv'
<1> USE DEF LimiterInv
<1>1. Drop(l)
  BY DEF ReleaseExecutorUnavailable
<1>2. TypeOK'
  BY <1>1, DropKeeps DEF ReleaseExecutorUnavailable, TypeOK
<1>3. WindowOutlastsLeases'
  BY <1>1, DropKeeps DEF ReleaseExecutorUnavailable, WindowOutlastsLeases
<1> QED
  BY <1>1, <1>2, <1>3, DropKeeps

LEMMA ReleaseFailedKeeps ==
  ASSUME LimiterInv, NEW l \in LeaseId, NEW r \in RetryAfters \cup {0},
         ReleaseFailed(l, r)
  PROVE  LimiterInv'
<1> USE DEF LimiterInv
<1>1. Drop(l)
  BY DEF ReleaseFailed
<1>2. failureStreak' \in 0..StreakCap
  BY LimitAssumption DEF ReleaseFailed, TypeOK, Smaller
<1>3. r \in Nat
  BY TimingAssumption
<1>4. /\ waitLeft' \in Nat
      /\ waitLeft' <= MaxBackoff \/ \E q \in RetryAfters : waitLeft' <= q
  <2>1. /\ BackoffFor(failureStreak') \in Int
        /\ BackoffFor(failureStreak') <= MaxBackoff
    BY <1>2, BackoffForType, LimitAssumption
  <2> QED
    BY <2>1, <1>3, TimingAssumption DEF ReleaseFailed, Larger
<1>5. circuitSet' \in BOOLEAN /\ openLeft' \in 0..CircuitOpen
  <2>1. \/ circuitSet' = TRUE /\ openLeft' = CircuitOpen
        \/ circuitSet' = circuitSet /\ openLeft' = openLeft
    BY DEF ReleaseFailed
  <2>2. CircuitOpen \in 0..CircuitOpen
    BY TimingAssumption
  <2> QED
    BY <2>1, <2>2, Zenon DEF TypeOK
<1>6. TypeOK'
  BY <1>1, <1>2, <1>4, <1>5, DropKeeps DEF TypeOK
<1>7. WindowOutlastsLeases'
  <2>1. CASE failureStreak' >= Threshold
    <3>1. \A k \in active' : leaseLeft'[k] <= CircuitOpen
      BY <1>1, DropKeeps, TimingAssumption, WindowAssumption DEF TypeOK
    <3>2. spacingLeft' <= CircuitOpen
      BY <1>1, DropKeeps, TimingAssumption, WindowAssumption DEF TypeOK
    <3> QED
      BY <2>1, <3>1, <3>2 DEF ReleaseFailed, WindowOutlastsLeases
  <2>2. CASE ~(failureStreak' >= Threshold)
    BY <2>2, <1>1, DropKeeps DEF ReleaseFailed, WindowOutlastsLeases
  <2> QED
    BY <2>1, <2>2
<1> QED
  BY <1>1, <1>6, <1>7, DropKeeps

LEMMA CrashKeeps ==
  ASSUME LimiterInv, NEW l \in LeaseId, Crash(l)
  PROVE  LimiterInv'
BY TimingAssumption
DEF LimiterInv, TypeOK, CapRespected, WindowOutlastsLeases, ProbeIsActive, Crash, hostState

LEMMA TickKeeps ==
  ASSUME LimiterInv, Tick
  PROVE  LimiterInv'
<1> USE DEF LimiterInv
<1>1. leaseLeft' \in [LeaseId -> 0..LeaseTtl] /\ holdLeft' \in [LeaseId -> 0..HoldLimit]
  BY TimingAssumption DEF Tick, TypeOK, Countdown
<1>2. /\ spacingLeft' \in 0..MinInterval
      /\ openLeft' \in 0..CircuitOpen
      /\ waitLeft' \in Nat
      /\ waitLeft' <= waitLeft
  BY TimingAssumption DEF Tick, TypeOK, Countdown
<1>3. waitLeft' <= MaxBackoff \/ \E r \in RetryAfters : waitLeft' <= r
  BY <1>2, TimingAssumption DEF TypeOK
<1>4. TypeOK'
  BY <1>1, <1>2, <1>3 DEF Tick, TypeOK
<1>5. WindowOutlastsLeases'
  <2>1. SUFFICES ASSUME circuitSet
                 PROVE  /\ \A l \in active : leaseLeft'[l] <= openLeft'
                        /\ spacingLeft' <= openLeft'
    BY DEF Tick, WindowOutlastsLeases
  <2>2. ASSUME NEW l \in active PROVE leaseLeft'[l] <= openLeft'
    <3>1. leaseLeft[l] \in Nat /\ openLeft \in Nat /\ leaseLeft[l] <= openLeft
      BY <2>1, <2>2, TimingAssumption DEF TypeOK, WindowOutlastsLeases
    <3> QED
      BY <3>1, <2>2, CountdownMonotone DEF Tick, TypeOK
  <2>3. spacingLeft' <= openLeft'
    <3>1. spacingLeft \in Nat /\ openLeft \in Nat /\ spacingLeft <= openLeft
      BY <2>1, TimingAssumption DEF TypeOK, WindowOutlastsLeases
    <3> QED
      BY <3>1, CountdownMonotone DEF Tick
  <2> QED
    BY <2>2, <2>3
<1> QED
  BY <1>4, <1>5 DEF Tick, CapRespected, ProbeIsActive

LEMMA LimiterStep == LimiterInv /\ [Next]_vars => LimiterInv'
<1> SUFFICES ASSUME LimiterInv, [Next]_vars PROVE LimiterInv'
  OBVIOUS
<1>1. CASE UNCHANGED vars
  BY <1>1
  DEF vars, LimiterInv, TypeOK, CapRespected, WindowOutlastsLeases, ProbeIsActive
<1>2. ASSUME NEW l \in LeaseId, Finish(l) PROVE LimiterInv'
  BY <1>2, ReleaseOkKeeps, ReleaseExecutorUnavailableKeeps, ReleaseFailedKeeps, CrashKeeps
  DEF Finish
<1> QED
  BY <1>1, <1>2, AcquireProbeKeeps, AcquireNormalKeeps, AcquireRefusedKeeps, TickKeeps
  DEF Next

-----------------------------------------------------------------------------
(* Theorems *)

\* The inductive invariant holds of every behaviour of the HostObject.
THEOREM LimiterInvariance == Spec => []LimiterInv
BY LimiterBegins, LimiterStep, PTL DEF Spec

\* The state of the HostObject keeps its type; no wait exceeds MAX_BACKOFF_MS
\* unless a Retry-After asked for it.
THEOREM LimiterTypes == Spec => []TypeOK
<1>1. LimiterInv => TypeOK
  BY DEF LimiterInv
<1> QED
  BY <1>1, LimiterInvariance, PTL

\* activeLeases never holds more than MAX_CONCURRENT_LEASES leases.
THEOREM ConcurrencyCap == Spec => []CapRespected
<1>1. LimiterInv => CapRespected
  BY DEF LimiterInv
<1> QED
  BY <1>1, LimiterInvariance, PTL

\* A recorded half-open probe is an active lease, so its end is never missed.
THEOREM ProbeNeverLeaks == Spec => []ProbeIsActive
<1>1. LimiterInv => ProbeIsActive
  BY DEF LimiterInv
<1> QED
  BY <1>1, LimiterInvariance, PTL

\* While the circuit is open, no kept lease and no access interval outlasts the
\* window: acquireLease may leave both unread when it grants a probe.
THEOREM WindowCoversLeases == Spec => []WindowOutlastsLeases
<1>1. LimiterInv => WindowOutlastsLeases
  BY DEF LimiterInv
<1> QED
  BY <1>1, LimiterInvariance, PTL

\* Only the two acquire actions add a lease to the table.
LEMMA GrantsOnly ==
  ASSUME Next, NEW l \in LeaseId, l \in active' \ active
  PROVE  AcquireProbe(l) \/ AcquireNormal(l)
<1>1. ASSUME NEW k \in LeaseId, AcquireProbe(k) PROVE AcquireProbe(l)
  <2>1. l = k
    BY <1>1 DEF AcquireProbe, Grant, Fresh
  <2> QED
    BY <1>1, <2>1
<1>2. ASSUME NEW k \in LeaseId, AcquireNormal(k) PROVE AcquireNormal(l)
  <2>1. l = k
    BY <1>2 DEF AcquireNormal, Grant, Fresh
  <2> QED
    BY <1>2, <2>1
<1>3. ASSUME NEW k \in LeaseId, Finish(k) PROVE FALSE
  BY <1>3 DEF Finish, ReleaseOk, ReleaseExecutorUnavailable, ReleaseFailed,
              Drop, Crash, hostState
<1>4. ~AcquireRefused /\ ~Tick
  BY DEF AcquireRefused, Tick, Fresh
<1> QED
  BY <1>1, <1>2, <1>3, <1>4 DEF Next

\* In the open window's last instant nothing is left of the leases granted
\* before it, and the access interval is over.
LEMMA ProbeMeetsEmptyTable ==
  ASSUME LimiterInv, NEW l \in LeaseId, AcquireProbe(l)
  PROVE  active' = {l} /\ spacingLeft = 0
<1> USE DEF LimiterInv
<1>1. Fresh = {}
  BY TimingAssumption
  DEF AcquireProbe, ProbeAllowed, WindowOutlastsLeases, Fresh, TypeOK
<1>2. spacingLeft = 0
  BY TimingAssumption DEF AcquireProbe, ProbeAllowed, WindowOutlastsLeases, TypeOK
<1> QED
  BY <1>1, <1>2 DEF AcquireProbe, Grant

\* Any two grants of an origin are MIN_ACCESS_INTERVAL_MS apart, also when the
\* second one is a half-open probe.
THEOREM GrantsAreSpaced == Spec => GrantSpacing
<1>1. LimiterInv /\ [Next]_vars => [\A l \in LeaseId :
                                l \in active' \ active => spacingLeft = 0]_vars
  <2> SUFFICES ASSUME LimiterInv, Next, NEW l \in LeaseId, l \in active' \ active
               PROVE  spacingLeft = 0
    OBVIOUS
  <2> QED
    BY GrantsOnly, ProbeMeetsEmptyTable DEF AcquireNormal, NormalAllowed
<1> QED
  BY <1>1, LimiterInvariance, PTL DEF Spec, GrantSpacing

\* A half-open probe is the only lease of its origin when it is granted.
THEOREM ProbesAreAlone == Spec => ProbeGrantedAlone
<1>1. LimiterInv /\ [Next]_vars => [\A l \in LeaseId :
              (circuitSet /\ l \in active' \ active) => active' = {l}]_vars
  <2> SUFFICES ASSUME LimiterInv, Next, NEW l \in LeaseId,
                      circuitSet, l \in active' \ active
               PROVE  active' = {l}
    OBVIOUS
  <2> QED
    BY GrantsOnly, ProbeMeetsEmptyTable DEF AcquireNormal, NormalAllowed
<1> QED
  BY <1>1, LimiterInvariance, PTL DEF Spec, ProbeGrantedAlone

-----------------------------------------------------------------------------
(* Real concurrency, when every check is done before its lease expires *)

\* Every check that is still fetching holds a lease that outlasts it.
HoldersCovered == \A l \in holding : l \in active /\ holdLeft[l] < leaseLeft[l]

LEMMA HoldersCoveredStep ==
  ASSUME HoldLimit < LeaseTtl, LimiterInv, HoldersCovered, [Next]_vars
  PROVE  HoldersCovered'
<1> USE DEF LimiterInv
<1>0. holding \subseteq Fresh
  BY TimingAssumption DEF HoldersCovered, TypeOK, Fresh
<1>1. ASSUME NEW l \in LeaseId, Grant(l) PROVE HoldersCovered'
  <2>1. ASSUME NEW k \in holding' PROVE k \in active' /\ holdLeft'[k] < leaseLeft'[k]
    <3>1. CASE k = l
      BY <1>1, <3>1, TimingAssumption DEF Grant, TypeOK
    <3>2. CASE k # l
      BY <1>0, <1>1, <2>1, <3>2 DEF Grant, TypeOK, HoldersCovered
    <3> QED
      BY <3>1, <3>2
  <2> QED
    BY <2>1 DEF HoldersCovered
<1>2. ASSUME AcquireRefused PROVE HoldersCovered'
  BY <1>0, <1>2 DEF AcquireRefused, TypeOK, HoldersCovered
<1>3. ASSUME NEW l \in LeaseId, Drop(l) PROVE HoldersCovered'
  BY <1>3 DEF Drop, TypeOK, HoldersCovered
<1>4. ASSUME NEW l \in LeaseId, Crash(l) PROVE HoldersCovered'
  BY <1>4 DEF Crash, hostState, TypeOK, HoldersCovered
<1>5. ASSUME Tick PROVE HoldersCovered'
  BY <1>5, TimingAssumption DEF Tick, Countdown, TypeOK, HoldersCovered
<1>6. CASE UNCHANGED vars
  BY <1>6 DEF vars, HoldersCovered
<1> QED
  BY <1>1, <1>2, <1>3, <1>4, <1>5, <1>6
  DEF Next, Finish, AcquireProbe, AcquireNormal, ReleaseOk,
      ReleaseExecutorUnavailable, ReleaseFailed

\* The number of checks that access the host at the same time is bounded by
\* MAX_CONCURRENT_LEASES, provided that no check holds its lease for LEASE_TTL_MS:
\* the rule the pull budget of fetchTarget.ts is designed for.
THEOREM RealConcurrencyBound ==
  ASSUME HoldLimit < LeaseTtl
  PROVE  Spec => []RealConcurrency
<1>1. Init => HoldersCovered
  BY DEF Init, HoldersCovered
<1>2. LimiterInv /\ HoldersCovered /\ [Next]_vars => HoldersCovered'
  BY HoldersCoveredStep
<1>3. LimiterInv /\ HoldersCovered => RealConcurrency
  <2> SUFFICES ASSUME LimiterInv, HoldersCovered PROVE RealConcurrency
    OBVIOUS
  <2>1. holding \subseteq active
    BY DEF HoldersCovered
  <2> QED
    BY <2>1, LeaseSetsFinite, LimitAssumption
    DEF LimiterInv, TypeOK, CapRespected, RealConcurrency
<1> QED
  BY <1>1, <1>2, <1>3, LimiterInvariance, PTL DEF Spec

-----------------------------------------------------------------------------
(* The slots of a home runner *)

\* The job takes a slot: the map inflight has its key.
Held == {"fetch", "send", "settled"}

RunnerTyped ==
  /\ job \in [Job -> {"none", "gone"} \cup Held]
  /\ inflight \in SUBSET Job
  /\ free \in Nat
  /\ \A j \in Job : job[j] \in Held => j \in inflight

\* What a pending lease request has counted is still free.
SlotsReserved ==
  /\ Cardinality(inflight) <= Concurrency
  /\ loop = "call" => free + Cardinality(inflight) <= Concurrency

\* stop waits for the loops first, then for the jobs.
StopInOrder ==
  /\ stop \in {"jobs", "drained"} => beat = "ended" /\ loop = "ended"
  /\ stop = "drained" => inflight = {}

RunnerInv == RunnerTyped /\ SlotsReserved /\ StopInOrder

-----------------------------------------------------------------------------
(* Steps *)

\* Any set of jobs is finite, as a lease response is.
LEMMA JobsAreFinite ==
  ASSUME NEW S \in SUBSET Job
  PROVE  IsFiniteSet(S) /\ Cardinality(S) \in Nat
BY RunnerAssumption, FS_Subset, FS_CardinalityType

LEMMA RunnerBegins == RunnerInit => RunnerInv
BY RunnerAssumption, FS_EmptySet
   DEF RunnerInit, RunnerInv, RunnerTyped, SlotsReserved, StopInOrder, Held

\* Jobs are taken only into the slots the request has counted.
LEMMA LeaseAnsweredKeeps ==
  ASSUME RunnerInv, LeaseAnswered
  PROVE  RunnerInv'
<1>1. PICK S \in SUBSET {j \in Job : job[j] = "none"} : \E taken, skipped \in SUBSET S :
        /\ skipped \subseteq taken
        /\ Cardinality(taken) = (IF Cardinality(S) > free THEN free ELSE Cardinality(S))
        /\ inflight' = inflight \cup taken
        /\ job' = [j \in Job |-> IF j \in skipped THEN "settled"
                                 ELSE IF j \in taken THEN "fetch"
                                 ELSE IF j \in S THEN "gone" ELSE job[j]]
  BY DEF LeaseAnswered
<1>2. PICK taken \in SUBSET S, skipped \in SUBSET S :
        /\ skipped \subseteq taken
        /\ Cardinality(taken) = (IF Cardinality(S) > free THEN free ELSE Cardinality(S))
        /\ inflight' = inflight \cup taken
        /\ job' = [j \in Job |-> IF j \in skipped THEN "settled"
                                 ELSE IF j \in taken THEN "fetch"
                                 ELSE IF j \in S THEN "gone" ELSE job[j]]
  BY <1>1
<1>3. loop = "call" /\ loop' = "ready" /\ free' = 0 /\ UNCHANGED <<beat, stop>>
  BY DEF LeaseAnswered
<1>4. RunnerTyped'
  BY <1>2, <1>3 DEF RunnerInv, RunnerTyped, Held
<1>5. Cardinality(inflight') <= Cardinality(inflight) + Cardinality(taken)
  <2>1. taken \in SUBSET Job /\ inflight \in SUBSET Job
    BY DEF RunnerInv, RunnerTyped
  <2>2. /\ IsFiniteSet(inflight) /\ IsFiniteSet(taken)
        /\ Cardinality(inflight) \in Nat /\ Cardinality(taken) \in Nat
    BY <2>1, JobsAreFinite
  <2>3. Cardinality(inflight \cap taken) \in Nat
    <3> DEFINE both == inflight \cap taken
    <3>1. both \in SUBSET Job
      BY <2>1
    <3> HIDE DEF both
    <3>2. Cardinality(both) \in Nat
      BY <3>1, JobsAreFinite
    <3> QED
      BY <3>2 DEF both
  <2>4. Cardinality(inflight \cup taken) =
          Cardinality(inflight) + Cardinality(taken) - Cardinality(inflight \cap taken)
    BY <2>2, FS_Union, Zenon
  <2> QED
    BY <1>2, <2>2, <2>3, <2>4
<1>6. Cardinality(taken) <= free
  <2>1. Cardinality(S) \in Nat
    BY JobsAreFinite
  <2> QED
    BY <1>2, <2>1 DEF RunnerInv, RunnerTyped
<1>7. SlotsReserved'
  <2>1. /\ Cardinality(inflight) \in Nat /\ Cardinality(taken) \in Nat
        /\ Cardinality(inflight') \in Nat
    BY <1>4, JobsAreFinite DEF RunnerInv, RunnerTyped
  <2> QED
    BY <1>3, <1>5, <1>6, <2>1, RunnerAssumption DEF RunnerInv, RunnerTyped, SlotsReserved
<1>8. StopInOrder'
  BY <1>3 DEF RunnerInv, StopInOrder
<1> QED
  BY <1>4, <1>7, <1>8 DEF RunnerInv

\* A job that ends gives its slot back.
LEMMA JobEndsKeeps ==
  ASSUME RunnerInv, NEW j \in Job, JobEnds(j)
  PROVE  RunnerInv'
<1>1. /\ job' = [job EXCEPT ![j] = "gone"] /\ inflight' = inflight \ {j}
      /\ loop' = Woken(loop) /\ UNCHANGED <<beat, free, stop>> /\ Running
  BY DEF JobEnds
<1>2. RunnerTyped'
  BY <1>1 DEF RunnerInv, RunnerTyped, Held
<1>3. Cardinality(inflight') <= Cardinality(inflight)
  <2>1. IsFiniteSet(inflight)
    BY JobsAreFinite DEF RunnerInv, RunnerTyped
  <2> QED
    BY <1>1, <2>1, FS_Subset
<1>4. SlotsReserved'
  <2>1. Cardinality(inflight) \in Nat /\ Cardinality(inflight') \in Nat
    BY <1>2, JobsAreFinite DEF RunnerInv, RunnerTyped
  <2> QED
    BY <1>1, <1>3, <2>1, RunnerAssumption DEF RunnerInv, RunnerTyped, SlotsReserved, Woken
<1>5. StopInOrder'
  BY <1>1 DEF RunnerInv, StopInOrder, Woken, Running
<1> QED
  BY <1>2, <1>4, <1>5 DEF RunnerInv

\* Every step of the loops, the jobs and the stop preserves RunnerInv.
LEMMA RunnerStep == RunnerInv /\ [RunnerNext]_runnerVars => RunnerInv'
<1> SUFFICES ASSUME RunnerInv, [RunnerNext]_runnerVars PROVE RunnerInv'
  OBVIOUS
<1>1. CASE HeartbeatFailed \/ NextHeartbeat \/ \E m \in BOOLEAN : HeartbeatAnswered(m)
  <2>1. /\ UNCHANGED <<free, job, inflight, stop>>
        /\ loop' \in {loop, Woken(loop)} /\ beat # "ended"
    BY <1>1 DEF HeartbeatFailed, NextHeartbeat, HeartbeatAnswered
  <2> QED
    BY <2>1 DEF RunnerInv, RunnerTyped, SlotsReserved, StopInOrder, Woken
<1>2. CASE LeaseLoopStarts \/ PauseEnds
  BY <1>2 DEF LeaseLoopStarts, PauseEnds, RunnerInv, RunnerTyped, SlotsReserved, StopInOrder
<1>3. CASE AskForLease
  <2>1. Cardinality(inflight) \in Nat
    BY JobsAreFinite DEF RunnerInv, RunnerTyped
  <2>2. /\ UNCHANGED <<beat, job, inflight, stop>> /\ loop = "ready"
        /\ loop' \in {"ended", "slot", "call"}
        /\ loop' = "call" => free' = Concurrency - Cardinality(inflight) /\ free' > 0
        /\ loop' # "call" => free' = 0
    BY <1>3, <2>1, RunnerAssumption DEF AskForLease, FreeSlots
  <2> QED
    BY <2>1, <2>2, RunnerAssumption DEF RunnerInv, RunnerTyped, SlotsReserved, StopInOrder
<1>4. CASE LeaseAnswered
  BY <1>4, LeaseAnsweredKeeps
<1>5. CASE LeaseFailed
  <2>1. /\ UNCHANGED <<beat, inflight, stop>> /\ loop = "call" /\ free' = 0
        /\ loop' \in {"ended", "backoff"}
    BY <1>5 DEF LeaseFailed
  <2>2. PICK S \in SUBSET {j \in Job : job[j] = "none"} :
          job' = [j \in Job |-> IF j \in S THEN "gone" ELSE job[j]]
    BY <1>5 DEF LeaseFailed
  <2> QED
    BY <2>1, <2>2 DEF RunnerInv, RunnerTyped, Held, SlotsReserved, StopInOrder
<1>6. ASSUME NEW j \in Job, Fetched(j) \/ ResultAnswered(j) \/ ResultFailed(j)
      PROVE  RunnerInv'
  <2>1. /\ UNCHANGED <<beat, loop, free, inflight, stop>> /\ job[j] \in Held
        /\ \/ UNCHANGED job
           \/ \E s \in Held : job' = [job EXCEPT ![j] = s]
    BY <1>6 DEF Fetched, ResultAnswered, ResultFailed, Held
  <2> QED
    BY <2>1 DEF RunnerInv, RunnerTyped, Held, SlotsReserved, StopInOrder
<1>7. ASSUME NEW j \in Job, JobEnds(j) PROVE RunnerInv'
  BY <1>7, JobEndsKeeps
<1>8. CASE Stop
  BY <1>8 DEF Stop, Woken, RunnerInv, RunnerTyped, SlotsReserved, StopInOrder
<1>9. CASE LoopsEnded \/ Drained \/ GraceExceeded
  BY <1>9 DEF LoopsEnded, Drained, GraceExceeded, RunnerInv, RunnerTyped, SlotsReserved,
              StopInOrder
<1>10. CASE UNCHANGED runnerVars
  BY <1>10 DEF runnerVars, RunnerInv, RunnerTyped, SlotsReserved, StopInOrder
<1> QED
  BY <1>1, <1>2, <1>3, <1>4, <1>5, <1>6, <1>7, <1>8, <1>9, <1>10 DEF RunnerNext

-----------------------------------------------------------------------------
(* Theorems *)

THEOREM RunnerInvariance == RunnerSpec => []RunnerInv
BY RunnerBegins, RunnerStep, PTL DEF RunnerSpec

\* config.concurrency bounds what is executed at once, although the slots are
\* counted before the request and the Worker may answer with any number of jobs
\* (freeSlots and the slice in leaseLoop).
THEOREM ConcurrencyIsRespected == RunnerSpec => []WithinConcurrency
<1>1. ASSUME RunnerInv PROVE WithinConcurrency
  <2>1. Executing \subseteq inflight /\ IsFiniteSet(inflight)
    BY <1>1, JobsAreFinite DEF Executing, RunnerInv, RunnerTyped, Held
  <2>2. Cardinality(Executing) <= Cardinality(inflight)
    BY <2>1, FS_Subset
  <2>3. Cardinality(Executing) \in Nat /\ Cardinality(inflight) \in Nat
    BY <1>1, <2>1, JobsAreFinite DEF RunnerInv, RunnerTyped
  <2> QED
    BY <1>1, <2>2, <2>3, RunnerAssumption DEF RunnerInv, SlotsReserved, WithinConcurrency
<1> QED
  BY RunnerInvariance, <1>1, PTL

\* stop reports a drained runner only when no job is executed and no loop could
\* take another one, whatever was answered while it was stopping.
THEOREM DrainLeavesNothing == RunnerSpec => []DrainedIsIdle
<1>1. RunnerInv => DrainedIsIdle
  BY DEF RunnerInv, RunnerTyped, StopInOrder, DrainedIsIdle, Executing, Held
<1> QED
  BY RunnerInvariance, <1>1, PTL

-----------------------------------------------------------------------------
(* Accepted tokens *)

TokenInv ==
  /\ seconds \in Nat
  /\ DOMAIN issued \subseteq Jti /\ \A j \in DOMAIN issued : issued[j] \in Int
  /\ DOMAIN entries \subseteq DOMAIN issued
  /\ \A j \in DOMAIN entries : entries[j] = issued[j]
  /\ uses \in [Jti -> 0 .. 1]
  /\ \A j \in Jti : uses[j] = 1 =>
       j \in DOMAIN issued /\ (j \in DOMAIN entries \/ Outlived(issued[j]))

\* What purge leaves in the cache has not outlived its token, and nothing
\* else is dropped.
LEMMA PurgedKeeps ==
  ASSUME TokenInv
  PROVE  /\ DOMAIN Purged \subseteq DOMAIN entries
         /\ \A j \in DOMAIN Purged : Purged[j] = entries[j]
         /\ \A j \in DOMAIN entries \ DOMAIN Purged : Outlived(issued[j])
BY DEF Purged, TokenInv

\* Every step of the Worker, the executor and the clock preserves TokenInv.
LEMMA TokenStep == TokenInv /\ [TokenNext]_tokenVars => TokenInv'
<1> SUFFICES ASSUME TokenInv, [TokenNext]_tokenVars PROVE TokenInv'
  OBVIOUS
<1>1. ASSUME NEW j \in Jti, SignToken(j) PROVE TokenInv'
  <2>1. PICK iat \in seconds - ClockSkew .. seconds + ClockSkew :
          issued' = With(issued, j, iat + TokenLifetime)
    BY <1>1 DEF SignToken
  <2>2. iat + TokenLifetime \in Int
    BY TokenAssumption DEF TokenInv
  <2>3. /\ DOMAIN issued' = DOMAIN issued \cup {j}
        /\ issued'[j] = iat + TokenLifetime
        /\ \A k \in DOMAIN issued : issued'[k] = issued[k]
    BY <2>1, <1>1 DEF SignToken, With
  <2> QED
    BY <1>1, <2>2, <2>3 DEF SignToken, TokenInv, Outlived
<1>2. ASSUME NEW j \in Jti, ReceiveToken(j) PROVE TokenInv'
  <2>1. ~Outlived(issued[j])
    BY <1>2, TokenAssumption DEF ReceiveToken, TimesFit, Outlived, TokenInv
  <2>2. CASE j \notin DOMAIN Purged /\ Cardinality(DOMAIN Purged) < MaxJtiEntries
    <3>1. entries' = With(Purged, j, issued[j]) /\ uses' = [uses EXCEPT ![j] = @ + 1]
      BY <1>2, <2>2 DEF ReceiveToken
    <3>2. uses[j] # 1
      BY <2>1, <2>2, PurgedKeeps DEF TokenInv
    <3>3. uses' \in [Jti -> 0 .. 1]
      BY <3>1, <3>2 DEF TokenInv
    <3>4. /\ DOMAIN entries' = DOMAIN Purged \cup {j}
          /\ \A k \in DOMAIN entries' : entries'[k] = issued[k]
      BY <3>1, PurgedKeeps DEF TokenInv, With
    <3>5. \A k \in Jti \ {j} : uses'[k] = uses[k]
      BY <3>1 DEF TokenInv
    <3> QED
      BY <1>2, <3>3, <3>4, <3>5, PurgedKeeps DEF ReceiveToken, TokenInv, Outlived
  <2>3. CASE ~(j \notin DOMAIN Purged /\ Cardinality(DOMAIN Purged) < MaxJtiEntries)
    <3>1. entries' = Purged /\ uses' = uses
      BY <1>2, <2>3 DEF ReceiveToken
    <3> QED
      BY <1>2, <3>1, PurgedKeeps DEF ReceiveToken, TokenInv, Outlived
  <2> QED
    BY <2>2, <2>3
<1>3. CASE RestartExecutor
  BY <1>3 DEF RestartExecutor, NoTokens, TokenInv, Outlived
<1>4. CASE TokenTick
  BY <1>4, TokenAssumption DEF TokenTick, TokenInv, Outlived
<1>5. CASE UNCHANGED tokenVars
  BY <1>5 DEF tokenVars, TokenInv, Outlived
<1> QED
  BY <1>1, <1>2, <1>3, <1>4, <1>5 DEF TokenNext

\* An instance of the executor accepts a token at most once, for every
\* lifetime, skew and size of its memory (JtiCache).
THEOREM TokensAcceptedOnce == TokenSpec => []TokenAcceptedOnce
<1>1. TokenInit => TokenInv
  BY DEF TokenInit, TokenInv, NoTokens
<1>2. TokenInv => TokenAcceptedOnce
  BY DEF TokenInv, TokenAcceptedOnce
<1> QED
  BY <1>1, <1>2, TokenStep, PTL DEF TokenSpec

-----------------------------------------------------------------------------
(* robots.txt *)

RobotsInv ==
  /\ RobotsTypeOK
  /\ served[published] = now
  /\ cached # NoRow =>
       /\ cached.answer \in RobotsAnswers \ {"down"}
       /\ served[cached.answer] >= cached.fetchedAt
  /\ \A c \in RobotsChecker :
       /\ lookup[c].pc = "fetch" => lookup[c].entry.fetchedAt <= now
       /\ lookup[c].pc = "put" =>
            /\ lookup[c].entry.answer \in RobotsAnswers
            /\ ~Unavailable(lookup[c].entry) =>
                 served[lookup[c].entry.answer] >= lookup[c].entry.fetchedAt

\* Every step of a check, the origin and the clock preserves RobotsInv.
LEMMA RobotsStep == RobotsInv /\ [RobotsNext]_robotsVars => RobotsInv'
<1> SUFFICES ASSUME RobotsInv, [RobotsNext]_robotsVars PROVE RobotsInv'
  OBVIOUS
<1> USE RobotsAssumption
<1>1. ASSUME NEW c \in RobotsChecker, BeginLookup(c) PROVE RobotsInv'
  <2>1. CASE IsFresh(cached)
    BY <1>1, <2>1 DEF BeginLookup, Decided, RobotsInv, RobotsTypeOK, RobotsRow, Unavailable
  <2>2. CASE ~IsFresh(cached)
    <3> DEFINE row == [answer |-> "none", fetchedAt |-> now]
    <3>1. row \in RobotsRow /\ row.fetchedAt = now
      BY DEF RobotsInv, RobotsTypeOK, RobotsRow
    <3>2. /\ lookup' = [lookup EXCEPT ![c] = [pc |-> "fetch", entry |-> row, fromCache |-> FALSE]]
          /\ UNCHANGED <<now, published, served, cached>>
      BY <1>1, <2>2 DEF BeginLookup
    <3> HIDE DEF row
    <3> QED
      BY <3>1, <3>2 DEF RobotsInv, RobotsTypeOK, Unavailable
  <2> QED
    BY <2>1, <2>2
<1>2. ASSUME NEW c \in RobotsChecker, FetchRobots(c) PROVE RobotsInv'
  <2>1. PICK answer \in {published, "down"} :
          lookup' = [lookup EXCEPT ![c].pc = "put", ![c].entry.answer = answer]
    BY <1>2 DEF FetchRobots
  <2> DEFINE row == [lookup[c].entry EXCEPT !.answer = answer]
  <2>2. /\ row \in RobotsRow /\ row.answer = answer
        /\ row.fetchedAt = lookup[c].entry.fetchedAt
    BY DEF RobotsInv, RobotsTypeOK, RobotsRow, RobotsAnswers
  <2>3. lookup' = [lookup EXCEPT ![c] = [@ EXCEPT !.pc = "put", !.entry = row]]
    BY <2>1 DEF RobotsInv, RobotsTypeOK
  <2>4. answer \in RobotsAnswers
    BY DEF RobotsInv, RobotsTypeOK, RobotsAnswers
  <2>5. ~Unavailable(row) => served[row.answer] >= row.fetchedAt
    BY <1>2, <2>2 DEF FetchRobots, RobotsInv, Unavailable
  <2> HIDE DEF row
  <2> QED
    BY <1>2, <2>2, <2>3, <2>4, <2>5 DEF FetchRobots, RobotsInv, RobotsTypeOK, Unavailable
<1>3. ASSUME NEW c \in RobotsChecker, PutAndDecide(c) PROVE RobotsInv'
  BY <1>3 DEF PutAndDecide, Cacheable, Decided, RobotsInv, RobotsTypeOK, RobotsRow, Unavailable
<1>4. ASSUME NEW c \in RobotsChecker, EndLookup(c) PROVE RobotsInv'
  BY <1>4 DEF EndLookup, NoLookup, NoRow, RobotsInv, RobotsTypeOK, RobotsRow, Unavailable
<1>5. ASSUME NEW answer \in RobotsAnswers, Publish(answer) PROVE RobotsInv'
  <2>1. \A a \in RobotsAnswers : served'[a] >= served[a]
    BY <1>5 DEF Publish, RobotsInv, RobotsTypeOK, Never
  <2> QED
    BY <1>5, <2>1 DEF Publish, RobotsInv, RobotsTypeOK, RobotsRow, Unavailable, Never
<1>6. CASE RobotsTick
  <2>1. now' \in 0 .. MaxNow /\ now' = now + 1
    BY <1>6 DEF RobotsTick, RobotsInv, RobotsTypeOK
  <2>2. \A a \in RobotsAnswers : served'[a] >= served[a]
    BY <1>6 DEF RobotsTick, RobotsInv, RobotsTypeOK, Never
  <2> QED
    BY <1>6, <2>1, <2>2 DEF RobotsTick, RobotsInv, RobotsTypeOK, RobotsRow, Unavailable, Never
<1>7. CASE UNCHANGED robotsVars
  BY <1>7 DEF robotsVars, RobotsInv, RobotsTypeOK, Unavailable
<1> QED
  BY <1>1, <1>2, <1>3, <1>4, <1>5, <1>6, <1>7 DEF RobotsNext

\* Every decision rests on an answer of the origin that is current in the
\* sense of the lifetime, whatever the number of checks, the lifetime and
\* the order in which slow answers are stored (checkRobots).
THEOREM RobotsDecisionsAreCurrent == RobotsSpec => DecisionsAreCurrent
<1> DEFINE RestsOnCurrent(c) ==
      lookup'[c].pc = "decided" /\ lookup[c].pc # "decided" =>
        LET d == lookup'[c]
            lastSeen == served[d.entry.answer]
        IN  IF Unavailable(d.entry) THEN ~d.fromCache
            ELSE \/ d.fromCache  /\ now - lastSeen < RobotsTtl
                 \/ ~d.fromCache /\ lastSeen >= d.entry.fetchedAt
<1>1. RobotsInit => RobotsInv
  BY RobotsAssumption
  DEF RobotsInit, RobotsInv, RobotsTypeOK, NoLookup, NoRow, Never, RobotsAnswers, RobotsRow
<1>2. ASSUME RobotsInv, [RobotsNext]_robotsVars, NEW c \in RobotsChecker PROVE RestsOnCurrent(c)
  <2> SUFFICES ASSUME lookup'[c].pc = "decided", lookup[c].pc # "decided" PROVE RestsOnCurrent(c)
    OBVIOUS
  <2> USE <1>2, RobotsAssumption
  <2>1. CASE BeginLookup(c)
    <3>1. IsFresh(cached) /\ lookup'[c] = Decided(cached, TRUE)
      BY <2>1 DEF BeginLookup, NoLookup, RobotsInv, RobotsTypeOK
    <3>2. ~Unavailable(cached) /\ now - served[cached.answer] < RobotsTtl
      BY <3>1 DEF IsFresh, Unavailable, RobotsInv, RobotsTypeOK, RobotsRow, Never
    <3> QED
      BY <3>1, <3>2 DEF Decided
  <2>2. CASE PutAndDecide(c)
    <3>1. lookup[c].pc = "put" /\ lookup'[c] = Decided(lookup[c].entry, FALSE)
      BY <2>2 DEF PutAndDecide, RobotsInv, RobotsTypeOK
    <3> QED
      BY <3>1 DEF Decided, RobotsInv
  <2>3. CASE ~BeginLookup(c) /\ ~PutAndDecide(c)
    <3>1. ASSUME NEW e \in RobotsChecker \ {c}, BeginLookup(e) \/ PutAndDecide(e) PROVE FALSE
      BY <3>1 DEF BeginLookup, PutAndDecide, RobotsInv, RobotsTypeOK
    <3>2. ASSUME NEW e \in RobotsChecker, FetchRobots(e) \/ EndLookup(e) PROVE FALSE
      BY <3>2 DEF FetchRobots, EndLookup, NoLookup, RobotsInv, RobotsTypeOK
    <3>3. ASSUME \/ \E answer \in RobotsAnswers : Publish(answer)
                 \/ RobotsTick
                 \/ UNCHANGED robotsVars
          PROVE  FALSE
      BY <3>3 DEF Publish, RobotsTick, robotsVars
    <3> QED
      BY <2>3, <3>1, <3>2, <3>3 DEF RobotsNext
  <2> QED
    BY <2>1, <2>2, <2>3
<1>3. RobotsInv /\ [RobotsNext]_robotsVars =>
        [\A c \in RobotsChecker : RestsOnCurrent(c)]_robotsVars
  BY <1>2
<1> QED
  BY <1>1, <1>3, RobotsStep, PTL DEF RobotsSpec, DecisionsAreCurrent

-----------------------------------------------------------------------------
(* The keys of Access *)

\* A set of keys brought by a refresh begun at t: each was still published
\* then, and it lacks none that has been published since before.
Brought(keys, t) ==
  /\ \A k \in keys : seen[k] >= t
  /\ \A k \in jwks : since[k] < t => k \in keys

KeysInv ==
  /\ KeysTypeOK
  /\ \A k \in jwks : seen[k] = ticks /\ since[k] \in 0 .. ticks
  /\ keyCache.begun <= ticks /\ keyCache.fetchedAt <= ticks
  /\ keyCache # NoKeyCache => Brought(keyCache.keys, keyCache.begun)
  /\ refreshing # NoRefresh => ticks - lastRefetchAt <= RefreshLimit /\ lastRefetchAt \in 0 .. ticks
  /\ refreshing.pc = "answered" => Brought(refreshing.keys, lastRefetchAt)

\* What a refresh brought stays so when keys are rotated and time passes.
LEMMA BroughtStays ==
  ASSUME KeysInv, NEW keys \in SUBSET Kid, NEW t \in Int, t <= ticks, Brought(keys, t),
         \/ \E new \in SUBSET Kid : Rotate(new)
         \/ KeysTick
  PROVE  Brought(keys, t)'
<1>1. ASSUME NEW new \in SUBSET Kid, Rotate(new) PROVE Brought(keys, t)'
  <2>1. \A k \in keys : seen'[k] >= t
    BY <1>1 DEF Rotate, Brought, KeysInv, KeysTypeOK, RequestState, Unseen
  <2>2. ASSUME NEW k \in jwks', since'[k] < t PROVE k \in keys
    BY <1>1, <2>2 DEF Rotate, Brought, KeysInv, KeysTypeOK, RequestState, Unseen
  <2> QED
    BY <2>1, <2>2 DEF Brought
<1>2. CASE KeysTick
  BY <1>2 DEF KeysTick, Brought, KeysInv, KeysTypeOK, RequestState, Unseen
<1> QED
  BY <1>1, <1>2

\* Joining the refresh under way or beginning one keeps what KeysInv says
\* of it.
LEMMA JoinKeeps ==
  ASSUME KeysInv, JoinRefresh, UNCHANGED <<ticks, jwks, since, seen, keyCache>>,
         request' \in [Request -> RequestState]
  PROVE  KeysInv'
<1>1. CASE refreshing = NoRefresh
  BY <1>1, KeysAssumption DEF JoinRefresh, NoRefresh, Brought, KeysInv, KeysTypeOK, RequestState
<1>2. CASE refreshing # NoRefresh
  BY <1>2 DEF JoinRefresh, Brought, KeysInv, KeysTypeOK, RequestState
<1> QED
  BY <1>1, <1>2

\* Every step of a request, of Access and of the isolate preserves KeysInv.
LEMMA KeysStep == KeysInv /\ [KeysNext]_keyVars => KeysInv'
<1> SUFFICES ASSUME KeysInv, [KeysNext]_keyVars PROVE KeysInv'
  OBVIOUS
<1> USE KeysAssumption
<1>1. ASSUME NEW r \in Request, NEW k \in Kid, FindKey(r, k) PROVE KeysInv'
  <2>1. PICK pc \in {"stale", "unknown", "verified", "rejected"} :
          request' = [request EXCEPT ![r] = [pc |-> pc, kid |-> k]]
    BY <1>1 DEF FindKey
  <2>2. request' \in [Request -> RequestState]
    BY <2>1 DEF KeysInv, KeysTypeOK, RequestState
  <2>3. UNCHANGED <<ticks, jwks, since, seen, keyCache>>
    BY <1>1 DEF FindKey
  <2>4. CASE JoinRefresh
    BY <2>2, <2>3, <2>4, JoinKeeps
  <2>5. CASE UNCHANGED <<refreshing, lastRefetchAt>>
    BY <2>2, <2>3, <2>5 DEF Brought, KeysInv, KeysTypeOK, RequestState
  <2> QED
    BY <1>1, <2>4, <2>5 DEF FindKey
<1>2. CASE AnswerRefresh
  <2>1. refreshing # NoRefresh
    BY <1>2 DEF AnswerRefresh, NoRefresh
  <2>2. Brought(jwks, lastRefetchAt)
    BY <2>1 DEF Brought, KeysInv
  <2> QED
    BY <1>2, <2>1, <2>2 DEF AnswerRefresh, Brought, KeysInv, KeysTypeOK, RequestState
<1>3. CASE EndRefresh
  <2>1. refreshing # NoRefresh /\ refreshing.keys \in SUBSET Kid
    BY <1>3 DEF EndRefresh, NoRefresh, KeysInv, KeysTypeOK, RequestState
  <2>2. request' \in [Request -> RequestState]
    BY <1>3 DEF EndRefresh, Resumed, KeysInv, KeysTypeOK, RequestState
  <2>3. keyCache' = [keys |-> refreshing.keys, fetchedAt |-> ticks, begun |-> lastRefetchAt]
    BY <1>3 DEF EndRefresh
  <2>4. Brought(keyCache'.keys, keyCache'.begun)
    BY <1>3, <2>3 DEF EndRefresh, KeysInv
  <2>5. /\ refreshing' \in {NoRefresh, [pc |-> "asked", keys |-> {}]}
        /\ refreshing' # NoRefresh => lastRefetchAt' = ticks
        /\ refreshing' = NoRefresh => lastRefetchAt' = lastRefetchAt
        /\ UNCHANGED <<ticks, jwks, since, seen>>
    BY <1>3 DEF EndRefresh, NoRefresh
  <2>6. KeysTypeOK'
    <3>1. keyCache' \in [keys : SUBSET Kid, fetchedAt : Unseen .. MaxTicks, begun : Unseen .. MaxTicks]
      BY <2>1, <2>3 DEF KeysInv, KeysTypeOK, Unseen
    <3>2. refreshing' \in [pc : {"none", "asked", "answered"}, keys : SUBSET Kid]
      BY <2>5 DEF NoRefresh
    <3>3. lastRefetchAt' \in -MinRefetch .. MaxTicks
      BY <2>5 DEF KeysInv, KeysTypeOK
    <3> QED
      BY <2>2, <2>5, <3>1, <3>2, <3>3 DEF KeysInv, KeysTypeOK
  <2> QED
    BY <2>1, <2>3, <2>4, <2>5, <2>6 DEF Brought, KeysInv, KeysTypeOK, RequestState, NoRefresh
<1>4. CASE FailRefresh
  <2>1. request' \in [Request -> RequestState]
    BY <1>4 DEF FailRefresh, KeysInv, KeysTypeOK, RequestState
  <2> QED
    BY <1>4, <2>1 DEF FailRefresh, NoRefresh, Brought, KeysInv, KeysTypeOK, RequestState
<1>5. ASSUME NEW r \in Request, EndRequest(r) PROVE KeysInv'
  BY <1>5 DEF EndRequest, NoRequest, Brought, KeysInv, KeysTypeOK, RequestState
<1>6. ASSUME NEW keys \in SUBSET Kid, Rotate(keys) PROVE KeysInv'
  <2>1. keyCache # NoKeyCache => Brought(keyCache.keys, keyCache.begun)'
    BY <1>6, BroughtStays DEF Rotate, KeysInv, KeysTypeOK, RequestState
  <2>2. refreshing.pc = "answered" => Brought(refreshing.keys, lastRefetchAt)'
    BY <1>6, BroughtStays DEF Rotate, KeysInv, KeysTypeOK, RequestState, NoRefresh
  <2> QED
    BY <1>6, <2>1, <2>2 DEF Rotate, KeysInv, KeysTypeOK, RequestState, Unseen
<1>7. CASE LoseIsolate
  BY <1>7 DEF LoseIsolate, NoKeyCache, NoRefresh, NoRequest, Unseen, KeysInv, KeysTypeOK, RequestState
<1>8. CASE KeysTick
  <2>1. keyCache # NoKeyCache => Brought(keyCache.keys, keyCache.begun)'
    BY <1>8, BroughtStays DEF KeysTick, KeysInv, KeysTypeOK, RequestState
  <2>2. refreshing.pc = "answered" => Brought(refreshing.keys, lastRefetchAt)'
    <3> SUFFICES ASSUME refreshing.pc = "answered" PROVE Brought(refreshing.keys, lastRefetchAt)'
      BY <1>8 DEF KeysTick
    <3>1. /\ refreshing.keys \in SUBSET Kid /\ lastRefetchAt \in Int /\ lastRefetchAt <= ticks
          /\ Brought(refreshing.keys, lastRefetchAt)
      BY DEF KeysInv, KeysTypeOK, NoRefresh
    <3> QED
      BY <1>8, <3>1, BroughtStays DEF KeysTick
  <2> QED
    BY <1>8, <2>1, <2>2 DEF KeysTick, KeysInv, KeysTypeOK, RequestState, Unseen
<1>9. CASE UNCHANGED keyVars
  BY <1>9 DEF keyVars, Brought, KeysInv, KeysTypeOK, RequestState
<1> QED
  BY <1>1, <1>2, <1>3, <1>4, <1>5, <1>6, <1>7, <1>8, <1>9 DEF KeysNext

\* Whatever the number of keys and of requests that share a refresh, a
\* request is let through only by keys that are current, and a key that has
\* been published for the shortest interval is refused only while a refresh
\* begun since has not succeeded (findKey and refresh); a refresh takes less
\* than that interval.
THEOREM RequestsJudgedByCurrentKeys == KeysSpec => JudgedByCurrentKeys
<1> DEFINE Judged(r) ==
      LET k == request'[r].kid IN
      request[r].pc # request'[r].pc =>
        /\ request'[r].pc = "verified" =>
             seen[k] >= keyCache'.begun /\ ticks - keyCache'.fetchedAt <= JwksTtl
        /\ request'[r].pc = "rejected" /\ k \in jwks /\ ticks - since[k] >= MinRefetch =>
             lastRefetchAt >= since[k] /\ keyCache'.begun <= since[k]
<1>1. KeysInit => KeysInv
  BY KeysAssumption
  DEF KeysInit, KeysInv, KeysTypeOK, RequestState, NoKeyCache, NoRefresh, NoRequest, Unseen
<1>2. ASSUME KeysInv, [KeysNext]_keyVars, NEW r \in Request PROVE Judged(r)
  <2> SUFFICES ASSUME request[r].pc # request'[r].pc, request'[r].pc \in {"verified", "rejected"}
               PROVE  Judged(r)
    OBVIOUS
  <2> USE <1>2, KeysAssumption
  <2>1. ASSUME NEW k \in Kid, FindKey(r, k) PROVE Judged(r)
    <3>1. request'[r].kid = k /\ keyCache' = keyCache
      BY <2>1 DEF FindKey, KeysInv, KeysTypeOK, RequestState
    <3>2. HasFreshKeys
      BY <2>1 DEF FindKey, KeysInv, KeysTypeOK, RequestState
    <3>3. request'[r].pc = "verified" => k \in keyCache.keys
      BY <2>1 DEF FindKey, KeysInv, KeysTypeOK, RequestState
    <3>4. request'[r].pc = "rejected" => k \notin keyCache.keys /\ ~MayRefetch
      BY <2>1 DEF FindKey, KeysInv, KeysTypeOK, RequestState
    <3> QED
      BY <3>1, <3>2, <3>3, <3>4 DEF HasFreshKeys, MayRefetch, Brought, KeysInv, KeysTypeOK, RequestState, Unseen
  <2>2. CASE EndRefresh
    <3>1. Waiting(r) /\ request'[r].kid = request[r].kid
      BY <2>2 DEF EndRefresh, Resumed, KeysInv, KeysTypeOK, RequestState
    <3>2. request'[r].pc = "verified" <=> request[r].kid \in refreshing.keys
      BY <2>2, <3>1 DEF EndRefresh, Resumed, KeysInv, KeysTypeOK, RequestState
    <3>3. /\ keyCache'.begun = lastRefetchAt /\ keyCache'.fetchedAt = ticks
          /\ Brought(refreshing.keys, lastRefetchAt)
          /\ refreshing # NoRefresh /\ refreshing.keys \subseteq Kid
      BY <2>2 DEF EndRefresh, NoRefresh, KeysInv, KeysTypeOK, RequestState
    <3>4. ticks - lastRefetchAt < MinRefetch
      BY <3>3 DEF KeysInv, KeysTypeOK, RequestState
    <3> QED
      BY <3>1, <3>2, <3>3, <3>4 DEF Brought, KeysInv, KeysTypeOK, RequestState, Unseen
  <2>3. CASE ~EndRefresh /\ \A k \in Kid : ~FindKey(r, k)
    <3>1. ASSUME NEW e \in Request \ {r}, NEW k \in Kid, FindKey(e, k) PROVE FALSE
      BY <3>1 DEF FindKey, KeysInv, KeysTypeOK, RequestState
    <3>2. ASSUME NEW e \in Request, EndRequest(e) PROVE FALSE
      BY <3>2 DEF EndRequest, NoRequest, KeysInv, KeysTypeOK, RequestState
    <3>3. CASE FailRefresh
      BY <3>3 DEF FailRefresh, KeysInv, KeysTypeOK, RequestState
    <3>4. CASE LoseIsolate
      BY <3>4 DEF LoseIsolate, NoRequest
    <3>5. ASSUME \/ AnswerRefresh \/ KeysTick \/ UNCHANGED keyVars
                 \/ \E keys \in SUBSET Kid : Rotate(keys)
          PROVE  FALSE
      BY <3>5 DEF AnswerRefresh, KeysTick, keyVars, Rotate
    <3> QED
      BY <2>3, <3>1, <3>2, <3>3, <3>4, <3>5 DEF KeysNext
  <2> QED
    BY <2>1, <2>2, <2>3
<1>3. KeysInv /\ [KeysNext]_keyVars => [\A r \in Request : Judged(r)]_keyVars
  BY <1>2
<1> QED
  BY <1>1, <1>3, KeysStep, PTL DEF KeysSpec, JudgedByCurrentKeys

-----------------------------------------------------------------------------
(* The configuration of a source and the tags of its items *)

TagSets == {NoTags} \cup
  {ComputeTags(Classifier[n], title) : n \in DOMAIN Classifier, title \in Titles \cup {NoTitle}}

DetectedRow == [item : Item, inserted : BOOLEAN, title : Titles \cup {NoTitle}, tags : TagSets]

Runs == [pc : DOMAIN NextStage \cup {"idle"}, config : Configs, detected : Seq(DetectedRow),
         at : Nat \ {0}, fetches : Nat]

ConfigTyped ==
  /\ source = NoSource \/ source \in [type : Types, config : Configs]
  /\ DOMAIN changes \subseteq Item
  /\ \A i \in DOMAIN changes : changes[i] \in [title : Titles \cup {NoTitle}, tags : TagSets]
  /\ run \in [Check -> Runs]

\* The tags somebody goes on with are none, or those stored for the item.
AsStored(item, tags) == item \in DOMAIN changes /\ tags \in {NoTags, changes[item].tags}

KeptAsStored(r) == \A k \in DOMAIN r.detected : AsStored(r.detected[k].item, r.detected[k].tags)

ConfigInv ==
  /\ ConfigTyped
  /\ ConfigFitsRecipe
  /\ \A c \in Check : KeptAsStored(run[c])
  /\ \A pair \in routed : AsStored(pair[1], pair[2])

\* A source that passes the validation fits the processor it selects.
LEMMA ValidatedFits ==
  ASSUME NEW type \in Types, NEW config, ValidateSourceConfig(type, config)
  PROVE  LET recipe == RecipeKey([type |-> type, config |-> config]) IN
         /\ recipe = "page:extract" =>
              "extract" \in DOMAIN config /\ Extraction[config["extract"]].item
                /\ Extraction[config["extract"]].parses
         /\ "classify" \in DOMAIN config =>
              /\ recipe \in {"page:extract", "sitemap:traverse", "feed"}
              /\ Classifier[config["classify"]].sound
<1> DEFINE recipe == RecipeKey([type |-> type, config |-> config])
<1>1. /\ type = "page" =>
           recipe = IF Has(config, "page_mode", "extract") THEN "page:extract" ELSE "page:content"
      /\ type = "sitemap" =>
           recipe = IF Has(config, "sitemap_mode", "traverse") THEN "sitemap:traverse"
                                                                ELSE "sitemap:direct"
      /\ type = "rss" => recipe = "feed"
  BY DEF RecipeKey, Types
<1>2. type \in {"page", "sitemap", "rss"}
  BY DEF Types
<1> HIDE DEF recipe
<1>3. recipe = "page:extract" => type = "page" /\ Has(config, "page_mode", "extract")
  BY <1>1, <1>2
<1>4. "classify" \in DOMAIN config => recipe \in {"page:extract", "sitemap:traverse", "feed"}
  BY <1>1, <1>2 DEF ValidateSourceConfig, ClassifyApplies
<1> QED
  BY <1>3, <1>4 DEF recipe, ValidateSourceConfig, ExtractIsSound

\* The schema has only the named classifiers.
LEMMA ClassifierNamed ==
  ASSUME NEW config \in Configs, "classify" \in DOMAIN config
  PROVE  config["classify"] \in DOMAIN Classifier
<1>1. PICK keys \in SUBSET ConfigKeys :
        config \in {f \in [keys -> UNION {ValuesOf(k) : k \in keys}] :
                      \A k \in keys : f[k] \in ValuesOf(k)}
  BY DEF Configs
<1>2. DOMAIN config = keys /\ \A k \in keys : config[k] \in ValuesOf(k)
  BY <1>1
<1>3. ValuesOf("classify") = DOMAIN Classifier
  BY DEF ValuesOf
<1> QED
  BY <1>2, <1>3

LEMMA NothingConfigured == [k \in {} |-> ""] \in Configs
<1> DEFINE config == [k \in {} |-> ""]
<1>1. config \in [{} -> UNION {ValuesOf(k) : k \in {}}]
  OBVIOUS
<1>2. {} \in SUBSET ConfigKeys
  OBVIOUS
<1> QED
  BY <1>1, <1>2 DEF Configs

LEMMA EmptyRunTyped == EmptyRun \in Runs /\ KeptAsStored(EmptyRun)
BY NothingConfigured DEF EmptyRun, Runs, NextStage, KeptAsStored

LEMMA ConfigBegins == ConfigInit => ConfigInv
BY EmptyRunTyped DEF ConfigInit, ConfigInv, ConfigTyped, ConfigFitsRecipe

\* A check goes on, and the rows of changes only grow or get their tags: the
\* tags of the other checks, and those routed before, are still the stored ones.
LEMMA CheckGoesOn ==
  ASSUME ConfigInv, source' = source,
         DOMAIN changes \subseteq DOMAIN changes', DOMAIN changes' \subseteq Item,
         \A i \in DOMAIN changes' :
           changes'[i] \in [title : Titles \cup {NoTitle}, tags : TagSets],
         \A i \in DOMAIN changes : changes[i].tags \in {NoTags, changes'[i].tags},
         NEW c \in Check, NEW r \in Runs, run' = [run EXCEPT ![c] = r],
         \A k \in DOMAIN r.detected :
           AsStored(r.detected[k].item, r.detected[k].tags)
             \/ (r.detected[k].item \in DOMAIN changes'
                   /\ r.detected[k].tags \in {NoTags, changes'[r.detected[k].item].tags}),
         \A pair \in routed' : pair \in routed \/ AsStored(pair[1], pair[2])
  PROVE  ConfigInv'
<1>1. ASSUME NEW i, NEW tags, AsStored(i, tags)
      PROVE  i \in DOMAIN changes' /\ tags \in {NoTags, changes'[i].tags}
  BY <1>1 DEF AsStored
<1>2. run' \in [Check -> Runs] /\ run'[c] = r /\ \A d \in Check \ {c} : run'[d] = run[d]
  BY DEF ConfigInv, ConfigTyped
<1>3. (ConfigTyped /\ ConfigFitsRecipe)'
  BY <1>2 DEF ConfigInv, ConfigTyped, ConfigFitsRecipe
<1>4. ASSUME NEW d \in Check, NEW k \in DOMAIN run'[d].detected
      PROVE  /\ run'[d].detected[k].item \in DOMAIN changes'
             /\ run'[d].detected[k].tags \in {NoTags, changes'[run'[d].detected[k].item].tags}
  <2>1. CASE d = c
    BY <1>1, <1>2, <1>4, <2>1
  <2>2. CASE d # c
    <3>1. k \in DOMAIN run[d].detected
          /\ AsStored(run[d].detected[k].item, run[d].detected[k].tags)
      BY <1>2, <1>4, <2>2 DEF ConfigInv, KeptAsStored
    <3> QED
      BY <1>1, <1>2, <2>2, <3>1
  <2> QED
    BY <2>1, <2>2
<1>5. \A pair \in routed' :
        pair[1] \in DOMAIN changes' /\ pair[2] \in {NoTags, changes'[pair[1]].tags}
  BY <1>1 DEF ConfigInv
<1> QED
  BY <1>3, <1>4, <1>5 DEF ConfigInv, KeptAsStored, AsStored

\* The row a stage is at
LEMMA AtRow ==
  ASSUME ConfigInv, NEW c \in Check, NEW stage, Working(c, stage)
  PROVE  /\ run[c] \in Runs /\ run[c].at \in DOMAIN run[c].detected
         /\ Current(c) \in DetectedRow
         /\ AsStored(Current(c).item, Current(c).tags)
         /\ Advanced(c) \in Runs /\ Advanced(c).detected = run[c].detected
         /\ Advanced(c).fetches = run[c].fetches
<1>1. run[c] \in Runs
  BY DEF ConfigInv, ConfigTyped
<1>2. run[c].at \in 1 .. Len(run[c].detected) /\ run[c].detected \in Seq(DetectedRow)
  BY <1>1 DEF Working, Runs
<1>3. run[c].at \in DOMAIN run[c].detected /\ Current(c) \in DetectedRow
  BY <1>2 DEF Current
<1>4. Advanced(c) \in Runs /\ Advanced(c).detected = run[c].detected
      /\ Advanced(c).fetches = run[c].fetches
  BY <1>1 DEF Advanced, Runs
<1> QED
  BY <1>1, <1>3, <1>4 DEF ConfigInv, KeptAsStored, Current

\* enrichTitle and classify change one field of the row the check is at.
WithTitle(r, k, title) == [r EXCEPT !.fetches = @ + 1, !.detected[k].title = title]
WithTags(r, k, tags) == [r EXCEPT !.detected[k].tags = tags]

LEMMA TitleSet ==
  ASSUME NEW r \in Runs, NEW k \in DOMAIN r.detected, NEW title \in Titles \cup {NoTitle}
  PROVE  LET s == WithTitle(r, k, title) IN
         /\ s \in Runs /\ DOMAIN s.detected = DOMAIN r.detected
         /\ \A j \in DOMAIN r.detected : /\ s.detected[j].item = r.detected[j].item
                                         /\ s.detected[j].tags = r.detected[j].tags
<1> DEFINE s == WithTitle(r, k, title)
           d == [r.detected EXCEPT ![k].title = title]
<1>1. r.detected \in Seq(DetectedRow)
  BY DEF Runs
<1>2. [r.detected[k] EXCEPT !.title = title] \in DetectedRow
  <2>1. r.detected[k] \in DetectedRow
    BY <1>1
  <2> QED
    BY <2>1 DEF DetectedRow
<1>3. d \in Seq(DetectedRow) /\ DOMAIN d = DOMAIN r.detected
      /\ d[k] = [r.detected[k] EXCEPT !.title = title]
      /\ \A j \in DOMAIN r.detected : j # k => d[j] = r.detected[j]
  BY <1>1, <1>2, ExceptSeq
<1>4. \A j \in DOMAIN r.detected : d[j].item = r.detected[j].item /\ d[j].tags = r.detected[j].tags
  BY <1>1, <1>3 DEF DetectedRow
<1>5. s = [pc |-> r.pc, config |-> r.config, detected |-> d, at |-> r.at,
           fetches |-> r.fetches + 1]
  <2>1. s = [r EXCEPT !.fetches = @ + 1, !.detected = d]
    BY DEF WithTitle
  <2> HIDE DEF d, s
  <2> QED
    BY <2>1 DEF Runs
<1> HIDE DEF d, s
<1>6. s \in Runs
  BY <1>3, <1>5 DEF Runs
<1> QED
  BY <1>3, <1>4, <1>5, <1>6 DEF s

LEMMA TagsSet ==
  ASSUME NEW r \in Runs, NEW k \in DOMAIN r.detected, NEW tags \in TagSets
  PROVE  LET s == WithTags(r, k, tags) IN
         /\ s \in Runs /\ DOMAIN s.detected = DOMAIN r.detected
         /\ s.detected[k].item = r.detected[k].item /\ s.detected[k].tags = tags
         /\ \A j \in DOMAIN r.detected : j # k => s.detected[j] = r.detected[j]
<1> DEFINE s == WithTags(r, k, tags)
           d == [r.detected EXCEPT ![k].tags = tags]
<1>1. r.detected \in Seq(DetectedRow)
  BY DEF Runs
<1>2. [r.detected[k] EXCEPT !.tags = tags] \in DetectedRow
  <2>1. r.detected[k] \in DetectedRow
    BY <1>1
  <2> QED
    BY <2>1 DEF DetectedRow
<1>3. d \in Seq(DetectedRow) /\ DOMAIN d = DOMAIN r.detected
      /\ d[k] = [r.detected[k] EXCEPT !.tags = tags]
      /\ \A j \in DOMAIN r.detected : j # k => d[j] = r.detected[j]
  BY <1>1, <1>2, ExceptSeq
<1>4. d[k].item = r.detected[k].item /\ d[k].tags = tags
  BY <1>1, <1>3 DEF DetectedRow
<1>5. s = [pc |-> r.pc, config |-> r.config, detected |-> d, at |-> r.at,
           fetches |-> r.fetches]
  <2>1. s = [r EXCEPT !.detected = d]
    BY DEF WithTags
  <2> HIDE DEF d, s
  <2> QED
    BY <2>1 DEF Runs
<1> HIDE DEF d, s
<1>6. s \in Runs
  BY <1>3, <1>5 DEF Runs
<1>7. s.detected = d
  BY <1>5
<1>8. /\ DOMAIN s.detected = DOMAIN r.detected
      /\ s.detected[k].item = r.detected[k].item /\ s.detected[k].tags = tags
      /\ \A j \in DOMAIN r.detected : j # k => s.detected[j] = r.detected[j]
  BY <1>3, <1>4, <1>7
<1> QED
  BY <1>6, <1>8 DEF s

\* A check begins, ends a stage, passes a row or dies: it has the rows it had, or none.
LEMMA OnlyTheCheck ==
  ASSUME ConfigInv, UNCHANGED <<source, changes>>, NEW c \in Check, NEW r \in Runs,
         run' = [run EXCEPT ![c] = r], r.detected \in {run[c].detected, <<>>},
         \A pair \in routed' : pair \in routed \/ AsStored(pair[1], pair[2])
  PROVE  ConfigInv'
<1>1. \A k \in DOMAIN r.detected : AsStored(r.detected[k].item, r.detected[k].tags)
  BY DEF ConfigInv, KeptAsStored
<1>2. \A i \in DOMAIN changes' :
        changes'[i] \in [title : Titles \cup {NoTitle}, tags : TagSets]
  BY DEF ConfigInv, ConfigTyped
<1>3. DOMAIN changes' \subseteq Item
  BY DEF ConfigInv, ConfigTyped
<1> QED
  BY <1>1, <1>2, <1>3, CheckGoesOn

\* insertChangeIfNew: the row is as it is stored, whoever stored it.
LEMMA Detecting ==
  ASSUME ConfigInv, NEW c \in Check, NEW item \in Item, NEW title \in Titles \cup {NoTitle},
         DetectItem(c, item, title)
  PROVE  ConfigInv'
<1> DEFINE found == item \in DOMAIN changes
           row == IF found THEN changes[item] ELSE [title |-> title, tags |-> NoTags]
           new == [item |-> item, inserted |-> ~found, title |-> row.title, tags |-> row.tags]
           r == [run[c] EXCEPT !.detected = Append(@, new)]
<1>1. row \in [title : Titles \cup {NoTitle}, tags : TagSets]
  BY DEF ConfigInv, ConfigTyped, TagSets
<1>2. new \in DetectedRow
  BY <1>1 DEF DetectedRow
<1>3. /\ changes' = [i \in DOMAIN changes \cup {item} |-> IF i = item THEN row ELSE changes[i]]
      /\ run' = [run EXCEPT ![c] = r] /\ UNCHANGED <<source, routed>>
  BY DEF DetectItem
<1>4. found => row = changes[item]
  OBVIOUS
<1>5. run[c] \in Runs
  BY DEF ConfigInv, ConfigTyped
<1> HIDE DEF row, found
<1>6. /\ r \in Runs /\ Len(r.detected) = Len(run[c].detected) + 1
      /\ r.detected[Len(r.detected)] = new
      /\ \A k \in DOMAIN run[c].detected : r.detected[k] = run[c].detected[k]
  <2>1. run[c].detected \in Seq(DetectedRow)
    BY <1>5 DEF Runs
  <2>2. r.detected = Append(run[c].detected, new)
    BY <1>5 DEF Runs
  <2> HIDE DEF new
  <2>3. r.detected \in Seq(DetectedRow)
    BY <1>2, <2>1, <2>2
  <2>4. r \in Runs
    BY <1>5, <2>1, <1>2 DEF Runs
  <2> HIDE DEF r
  <2> QED
    BY <1>2, <2>1, <2>2, <2>4
<1>7. new.item = item /\ new.tags = row.tags
  OBVIOUS
<1> HIDE DEF r, new
<1>8. /\ DOMAIN changes \subseteq DOMAIN changes' /\ DOMAIN changes' \subseteq Item
      /\ item \in DOMAIN changes' /\ changes'[item] = row
      /\ \A i \in DOMAIN changes : changes'[i] = changes[i]
      /\ \A i \in DOMAIN changes' :
           changes'[i] \in [title : Titles \cup {NoTitle}, tags : TagSets]
  BY <1>1, <1>3, <1>4 DEF ConfigInv, ConfigTyped, found
<1>9. ASSUME NEW k \in DOMAIN r.detected
      PROVE  AsStored(r.detected[k].item, r.detected[k].tags)
               \/ (r.detected[k].item \in DOMAIN changes'
                     /\ r.detected[k].tags \in {NoTags, changes'[r.detected[k].item].tags})
  <2>1. CASE k \in DOMAIN run[c].detected
    BY <1>6, <2>1 DEF ConfigInv, KeptAsStored
  <2>2. CASE k \notin DOMAIN run[c].detected
    <3>1. k = Len(r.detected)
      BY <1>5, <1>6, <2>2 DEF Runs
    <3> QED
      BY <1>6, <1>7, <1>8, <3>1
  <2> QED
    BY <2>1, <2>2
<1> QED
  BY <1>3, <1>6, <1>8, <1>9, CheckGoesOn

LEMMA Enriching ==
  ASSUME ConfigInv, NEW c \in Check, EnrichItem(c)
  PROVE  ConfigInv'
<1>1. Working(c, "enrich") /\ UNCHANGED <<source, routed>>
  BY DEF EnrichItem
<1>2. CASE ~NeedsTitle(c)
  <2>1. run' = [run EXCEPT ![c] = Advanced(c)] /\ changes' = changes
    BY <1>2 DEF EnrichItem
  <2> QED
    BY <1>1, <2>1, AtRow, OnlyTheCheck
<1>3. CASE NeedsTitle(c)
  <2>1. PICK title \in Titles \cup {NoTitle} :
          /\ changes' = IF title = NoTitle THEN changes
                        ELSE [changes EXCEPT ![Current(c).item].title = title]
          /\ run' = [run EXCEPT ![c] =
               [Advanced(c) EXCEPT !.fetches = @ + 1, !.detected[run[c].at].title = title]]
    BY <1>3 DEF EnrichItem
  <2>2. PICK r : r = WithTitle(Advanced(c), run[c].at, title)
    OBVIOUS
  <2>3. r \in Runs /\ run' = [run EXCEPT ![c] = r] /\ DOMAIN r.detected = DOMAIN run[c].detected
        /\ \A k \in DOMAIN r.detected : /\ r.detected[k].item = run[c].detected[k].item
                                        /\ r.detected[k].tags = run[c].detected[k].tags
    <3>1. /\ Advanced(c) \in Runs /\ run[c].at \in DOMAIN Advanced(c).detected
          /\ Advanced(c).detected = run[c].detected
      BY <1>1, AtRow
    <3>2. run' = [run EXCEPT ![c] = r]
      BY <2>1, <2>2 DEF WithTitle
    <3> QED
      BY <2>2, <3>1, <3>2, TitleSet
  <2>4. \A k \in DOMAIN r.detected : AsStored(r.detected[k].item, r.detected[k].tags)
    BY <2>3 DEF ConfigInv, KeptAsStored
  <2>5. /\ DOMAIN changes' = DOMAIN changes
        /\ \A i \in DOMAIN changes : /\ changes'[i] \in [title : Titles \cup {NoTitle}, tags : TagSets]
                                     /\ changes'[i].tags = changes[i].tags
    BY <2>1 DEF ConfigInv, ConfigTyped
  <2>6. DOMAIN changes' \subseteq Item
    BY <2>5 DEF ConfigInv, ConfigTyped
  <2> QED
    BY <1>1, <2>3, <2>4, <2>5, <2>6, CheckGoesOn
<1> QED
  BY <1>2, <1>3

\* setChangeTagsIfNull: the tags of a row are stored once.
LEMMA Classifying ==
  ASSUME ConfigInv, NEW c \in Check, ClassifyItem(c)
  PROVE  ConfigInv'
<1>1. Working(c, "classify") /\ UNCHANGED <<source, routed>>
  BY DEF ClassifyItem
<1>2. CASE run' = [run EXCEPT ![c] = Advanced(c)] /\ changes' = changes
  BY <1>1, <1>2, AtRow, OnlyTheCheck
<1>3. CASE /\ "classify" \in DOMAIN run[c].config
           /\ StoreTags(c, ComputeTags(Classifier[run[c].config["classify"]], Current(c).title))
  <2> DEFINE item == Current(c).item
  <2>1. PICK tags \in TagSets : StoreTags(c, tags)
    <3>1. run[c].config \in Configs /\ Current(c).title \in Titles \cup {NoTitle}
      BY <1>1, AtRow DEF Runs, DetectedRow
    <3> QED
      BY <1>3, <3>1, ClassifierNamed DEF TagSets
  <2>2. item \in DOMAIN changes /\ changes[item] \in [title : Titles \cup {NoTitle}, tags : TagSets]
    BY <1>1, AtRow DEF AsStored, ConfigInv, ConfigTyped
  <2>3. PICK kept \in TagSets :
          /\ kept = IF changes[item].tags = NoTags THEN tags ELSE changes[item].tags
          /\ changes' = [changes EXCEPT ![item].tags = kept]
          /\ run' = [run EXCEPT ![c] = [Advanced(c) EXCEPT !.detected[run[c].at].tags = kept]]
    BY <2>1, <2>2 DEF StoreTags
  <2>4. PICK r : r = WithTags(Advanced(c), run[c].at, kept)
    OBVIOUS
  <2>5. r \in Runs /\ run' = [run EXCEPT ![c] = r] /\ DOMAIN r.detected = DOMAIN run[c].detected
        /\ r.detected[run[c].at].item = item /\ r.detected[run[c].at].tags = kept
        /\ \A k \in DOMAIN r.detected : k # run[c].at => r.detected[k] = run[c].detected[k]
    <3>1. /\ Advanced(c) \in Runs /\ run[c].at \in DOMAIN Advanced(c).detected
          /\ Advanced(c).detected = run[c].detected
      BY <1>1, AtRow
    <3>2. run[c].detected[run[c].at].item = item
      BY DEF Current
    <3>3. run' = [run EXCEPT ![c] = r]
      BY <2>3, <2>4 DEF WithTags
    <3> HIDE DEF item
    <3> QED
      BY <2>4, <3>1, <3>2, <3>3, TagsSet
  <2>6. /\ DOMAIN changes' = DOMAIN changes /\ changes'[item].tags = kept
        /\ \A i \in DOMAIN changes :
             changes'[i] \in [title : Titles \cup {NoTitle}, tags : TagSets]
        /\ \A i \in DOMAIN changes : i # item => changes'[i] = changes[i]
    BY <2>2, <2>3 DEF ConfigInv, ConfigTyped
  <2>7. \A i \in DOMAIN changes : changes[i].tags \in {NoTags, changes'[i].tags}
    BY <2>3, <2>6
  <2>8. DOMAIN changes' \subseteq Item
    BY <2>6 DEF ConfigInv, ConfigTyped
  <2> HIDE DEF item
  <2>9. ASSUME NEW k \in DOMAIN r.detected
        PROVE  AsStored(r.detected[k].item, r.detected[k].tags)
                 \/ (r.detected[k].item \in DOMAIN changes'
                       /\ r.detected[k].tags \in {NoTags, changes'[r.detected[k].item].tags})
    BY <2>2, <2>5, <2>6 DEF ConfigInv, KeptAsStored
  <2> QED
    BY <1>1, <2>5, <2>6, <2>7, <2>8, <2>9, CheckGoesOn
<1> QED
  BY <1>2, <1>3 DEF ClassifyItem

LEMMA ConfigStep == ConfigInv /\ [ConfigNext]_configVars => ConfigInv'
<1> SUFFICES ASSUME ConfigInv, [ConfigNext]_configVars PROVE ConfigInv'
  OBVIOUS
<1>1. ASSUME NEW type \in Types, NEW config \in Configs, UNCHANGED <<changes, routed, run>>,
             source' = [type |-> type, config |-> config], ValidateSourceConfig(type, config)
      PROVE  ConfigInv'
  <2>1. source'.type = type /\ source'.config = config
    BY <1>1
  <2>2. ConfigFitsRecipe'
    BY <1>1, <2>1, ValidatedFits DEF ConfigFitsRecipe
  <2> QED
    BY <1>1, <2>2 DEF ConfigInv, ConfigTyped, KeptAsStored, AsStored
<1>2. ASSUME NEW type \in Types, NEW config \in Configs, CreateSource(type, config)
      PROVE  ConfigInv'
  BY <1>1, <1>2 DEF CreateSource
<1>3. ASSUME NEW config \in Configs, PatchSource(config) PROVE ConfigInv'
  <2>1. source \in [type : Types, config : Configs]
    BY <1>3 DEF PatchSource, ConfigInv, ConfigTyped
  <2>2. source' = [type |-> source.type, config |-> config] /\ source.type \in Types
    BY <1>3, <2>1 DEF PatchSource
  <2> QED
    BY <1>1, <1>3, <2>2 DEF PatchSource
<1>4. ASSUME NEW c \in Check, StageStep(c) PROVE ConfigInv'
  <2>1. run[c] \in Runs
    BY DEF ConfigInv, ConfigTyped
  <2>2. CASE StartCheck(c)
    <3>1. PICK r : r = [EmptyRun EXCEPT !.pc = "detect", !.config = source.config]
      OBVIOUS
    <3>2. r \in Runs /\ r.detected = <<>>
      BY <2>2, <3>1, EmptyRunTyped DEF StartCheck, EmptyRun, Runs, NextStage, ConfigInv, ConfigTyped
    <3> QED
      BY <2>2, <3>1, <3>2, OnlyTheCheck DEF StartCheck
  <2>3. CASE EndStage(c)
    <3>1. PICK r : r = [run[c] EXCEPT !.pc = NextStage[@], !.at = 1]
      OBVIOUS
    <3>2. /\ run[c].pc \in DOMAIN NextStage
          /\ NextStage[run[c].pc] \in DOMAIN NextStage \cup {"idle"}
      BY <2>1, <2>3 DEF EndStage, Runs, NextStage
    <3>3. r \in Runs /\ r.detected = run[c].detected
      <4>1. r = [pc |-> NextStage[run[c].pc], config |-> run[c].config,
                 detected |-> run[c].detected, at |-> 1, fetches |-> run[c].fetches]
        BY <2>1, <3>1 DEF Runs
      <4> QED
        BY <2>1, <3>2, <4>1 DEF Runs
    <3>4. run' = [run EXCEPT ![c] = r]
      BY <2>1, <2>3, <3>1 DEF EndStage, ConfigInv, ConfigTyped
    <3> QED
      BY <2>3, <3>3, <3>4, OnlyTheCheck DEF EndStage
  <2>4. CASE DieInCheck(c)
    <3>1. EmptyRun.detected = <<>>
      BY DEF EmptyRun
    <3> QED
      BY <2>4, <3>1, EmptyRunTyped, OnlyTheCheck DEF DieInCheck
  <2>5. CASE NotifyItem(c)
    <3>1. /\ Working(c, "notify") /\ run' = [run EXCEPT ![c] = Advanced(c)]
          /\ routed' = routed \cup {<<Current(c).item, Current(c).tags>>}
          /\ UNCHANGED <<source, changes>>
      BY <2>5 DEF NotifyItem
    <3>2. \A pair \in routed' : pair \in routed \/ AsStored(pair[1], pair[2])
      BY <3>1, AtRow
    <3> QED
      BY <3>1, <3>2, AtRow, OnlyTheCheck
  <2> QED
    BY <1>4, <2>2, <2>3, <2>4, <2>5, Detecting, Enriching, Classifying DEF StageStep
<1>5. CASE UNCHANGED configVars
  BY <1>5 DEF configVars, ConfigInv, ConfigTyped, ConfigFitsRecipe, KeptAsStored, AsStored
<1> QED
  BY <1>2, <1>3, <1>4, <1>5 DEF ConfigNext

\* What a source does with its items is what was accepted for it: under every
\* sequence of PATCHes the stored configuration fits the processor it selects, and
\* however checks overlap, fail and are repeated, a change is routed by its stored
\* tags or by none (validateSourceConfig, resolveRecipeKey, setChangeTagsIfNull).
THEOREM SourceStagesFollowConfig == ConfigSpec => []StagesFollowConfig
<1>1. ConfigInv => StagesFollowConfig
  BY DEF ConfigInv, AsStored, StagesFollowConfig, RoutedByStoredTags
<1> QED
  BY ConfigBegins, ConfigStep, <1>1, PTL DEF ConfigSpec
=============================================================================
