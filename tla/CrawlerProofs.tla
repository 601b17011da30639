--------------------------- MODULE CrawlerProofs ----------------------------
(***************************************************************************)
(* Proofs about CrawlerJobs, for every number of jobs, runners and resets, *)
(* up to the refinement of RemoteFetch.                                    *)
(*                                                                         *)
(* The argument follows a job: it is leased once, because it is queued     *)
(* once and only a queued job is leased; the one call that leased it is    *)
(* the only one that can hand it to a runner; and only a runner that has   *)
(* it can send a result.  Each check waits exactly as long as its timer    *)
(* is set, whatever the row has been through in storage.                   *)
(***************************************************************************)
EXTENDS CrawlerJobs, TLAPS

-----------------------------------------------------------------------------
(* The invariant *)

States == {"none", "queued", "leased"} \cup Terminal
Rows == [state : States, runner : Runner \cup {NoRunner}, token : Nat]
Calls == [pc : {"idle", "checking", "claim", "polling", "hashing", "responding"},
          jobs : SUBSET Job]
Runs == [st : {"none", "fetching", "sending", "sending_large", "done"}, token : Nat]
Progress == {"idle", "checking", "waiting"} \cup Answered

\* The part of TypeOK that the steps below depend on
Typed ==
  /\ row \in [Job -> Rows]
  /\ waiter \in [Job -> BOOLEAN]
  /\ timer \in [Job -> {"none", "queue", "result"}]
  /\ call \in [Runner -> Calls]
  /\ caller \in [Job -> Progress]
  /\ run \in [Job -> Runs]
  /\ leases \in [Job -> {0, 1}] /\ given \in [Job -> {0, 1}]

\* A job is queued at most once, and was not leased before it was.
LeasedFromQueue ==
  \A j \in Job :
    /\ caller[j] \in {"idle", "checking"} => row[j].state = "none" /\ leases[j] = 0
    /\ row[j].state = "queued" => leases[j] = 0

\* The jobs that the lease call of r has claimed and not yet handed over
Claimed(r) == IF call[r].pc \in {"hashing", "responding"} THEN call[r].jobs ELSE {}

\* A claimed job was leased by that call alone, and nobody has it yet.
ClaimedOnce ==
  \A r \in Runner : \A j \in Claimed(r) :
    /\ leases[j] = 1 /\ given[j] = 0
    /\ \A q \in Runner : j \in Claimed(q) => q = r

\* A runner has only what it was given, and it was given only what was leased.
GivenIsLeased ==
  \A j \in Job :
    /\ given[j] <= leases[j]
    /\ run[j].st # "none" => given[j] = 1

IInv == Typed /\ WaitersAreTimed /\ LeasedFromQueue /\ ClaimedOnce /\ GivenIsLeased

-----------------------------------------------------------------------------
(* Steps *)

\* A step that neither touches a row nor answers a check, hands nothing over and
\* claims nothing
LEMMA Quiet ==
  ASSUME IInv, UNCHANGED <<row, waiter, timer, caller, leases, given>>,
         call' \in [Runner -> Calls], run' \in [Job -> Runs],
         \A r \in Runner : Claimed(r)' \subseteq Claimed(r),
         \A j \in Job : run'[j].st # "none" => run[j].st # "none"
  PROVE  IInv'
<1>1. Typed'
  BY DEF IInv, Typed
<1>2. WaitersAreTimed' /\ LeasedFromQueue'
  BY DEF IInv, WaitersAreTimed, LeasedFromQueue, TimerState
<1>3. ClaimedOnce'
  BY DEF IInv, ClaimedOnce
<1>4. GivenIsLeased'
  BY DEF IInv, GivenIsLeased
<1> QED
  BY <1>1, <1>2, <1>3, <1>4 DEF IInv

\* A lease call that goes on without having claimed anything
LEMMA QuietCall ==
  ASSUME IInv, NEW r \in Runner, call' \in [Runner -> Calls],
         \A q \in Runner \ {r} : call'[q] = call[q],
         call'[r].pc \notin {"hashing", "responding"},
         UNCHANGED <<row, waiter, timer, caller, leases, given, run>>
  PROVE  IInv'
<1>1. run' \in [Job -> Runs]
  BY DEF IInv, Typed
<1>2. \A q \in Runner : Claimed(q)' \subseteq Claimed(q)
  BY DEF Claimed
<1> QED
  BY <1>1, <1>2, Quiet

\* expireJob ends the wait of the open jobs S.
LEMMA ExpireStep ==
  ASSUME IInv, NEW S \in SUBSET Open, Expire(S),
         UNCHANGED <<call, run, leases, given>>
  PROVE  IInv'
<1>1. \A j \in Job : /\ row'[j] = IF j \in S THEN [row[j] EXCEPT !.state = "expired"]
                                             ELSE row[j]
                     /\ waiter'[j] = (waiter[j] /\ j \notin S)
                     /\ timer'[j] = IF j \in S THEN "none" ELSE timer[j]
                     /\ caller'[j] = IF j \in S /\ waiter[j] THEN "unavailable"
                                                             ELSE caller[j]
  BY DEF Expire, Resolve
<1>2. Typed'
  <2>1. row' \in [Job -> Rows]
    BY <1>1 DEF Expire, IInv, Typed, Rows, States, Terminal
  <2>2. waiter' \in [Job -> BOOLEAN]
    BY DEF Expire, Resolve, IInv, Typed
  <2>3. timer' \in [Job -> {"none", "queue", "result"}]
    BY DEF Expire, Resolve, IInv, Typed
  <2>4. caller' \in [Job -> Progress]
    BY DEF Expire, Resolve, IInv, Typed, Progress, Answered
  <2> QED
    BY <2>1, <2>2, <2>3, <2>4 DEF IInv, Typed
<1>3. \A j \in S : row[j].state \in {"queued", "leased"} /\ row'[j].state = "expired"
  BY <1>1 DEF Open, IInv, Typed, Rows
<1>4. WaitersAreTimed'
  <2> SUFFICES ASSUME NEW j \in Job
               PROVE  /\ waiter'[j] <=> timer'[j] # "none"
                      /\ waiter'[j] <=> caller'[j] = "waiting"
                      /\ timer'[j] # "none" => row'[j].state = TimerState(timer'[j])
    BY DEF WaitersAreTimed, TimerState
  <2>1. /\ waiter[j] <=> timer[j] # "none"
        /\ waiter[j] <=> caller[j] = "waiting"
        /\ timer[j] # "none" => row[j].state = TimerState(timer[j])
    BY DEF IInv, WaitersAreTimed
  <2>2. CASE j \in S
    BY <1>1, <2>1, <2>2
  <2>3. CASE j \notin S
    BY <1>1, <2>1, <2>3
  <2> QED
    BY <2>2, <2>3
<1>5. LeasedFromQueue'
  BY <1>1, <1>3 DEF IInv, LeasedFromQueue
<1>6. ClaimedOnce' /\ GivenIsLeased'
  BY DEF IInv, ClaimedOnce, Claimed, GivenIsLeased
<1> QED
  BY <1>2, <1>4, <1>5, <1>6 DEF IInv

LEMMA InitInv == Init => IInv
<1> SUFFICES ASSUME Init PROVE IInv
  OBVIOUS
<1>1. Typed
  BY DEF Init, Typed, NoRow, NoCall, NoRun, Rows, Calls, Runs, Progress, States
<1>2. WaitersAreTimed /\ LeasedFromQueue /\ GivenIsLeased
  BY DEF Init, NoRow, NoRun, WaitersAreTimed, LeasedFromQueue, GivenIsLeased
<1>3. ClaimedOnce
  BY DEF Init, NoCall, Claimed, ClaimedOnce
<1> QED
  BY <1>1, <1>2, <1>3 DEF IInv

\* Submitting a job, up to its row
LEMMA SubmitStep ==
  ASSUME IInv, NEW j \in Job, Submit(j) \/ SubmitRefused(j) \/ SubmitAccepted(j)
  PROVE  IInv'
<1>1. CASE Submit(j) \/ SubmitRefused(j)
  <2>1. PICK c \in {"checking", "unavailable"} : caller' = [caller EXCEPT ![j] = c]
    BY <1>1 DEF Submit, SubmitRefused
  <2>2. caller[j] \in {"idle", "checking"} /\ (c = "checking" => caller[j] = "idle")
    BY <1>1, <2>1 DEF Submit, SubmitRefused, IInv, Typed
  <2>3. UNCHANGED <<row, waiter, timer, call, run, leases, given>>
    BY <1>1 DEF Submit, SubmitRefused, stored
  <2>4. Typed'
    BY <2>1, <2>3 DEF IInv, Typed, Progress, Answered
  <2>5. WaitersAreTimed' /\ LeasedFromQueue'
    BY <2>1, <2>2, <2>3 DEF IInv, Typed, WaitersAreTimed, LeasedFromQueue, TimerState
  <2>6. ClaimedOnce' /\ GivenIsLeased'
    BY <2>3 DEF IInv, ClaimedOnce, Claimed, GivenIsLeased
  <2> QED
    BY <2>4, <2>5, <2>6 DEF IInv
<1>2. CASE SubmitAccepted(j)
  <2>1. leases[j] = 0
    BY <1>2 DEF SubmitAccepted, IInv, LeasedFromQueue
  <2>2. /\ UNCHANGED <<run, leases, given>>
        /\ row' = [row EXCEPT ![j] = [NoRow EXCEPT !.state = "queued"]]
        /\ waiter' = [waiter EXCEPT ![j] = TRUE]
        /\ timer' = [timer EXCEPT ![j] = "queue"]
        /\ caller' = [caller EXCEPT ![j] = "waiting"]
    BY <1>2 DEF SubmitAccepted
  <2>3. call' \in [Runner -> Calls] /\ \A r \in Runner : Claimed(r)' = Claimed(r)
    BY <1>2 DEF SubmitAccepted, Woken, Claimed, IInv, Typed, Calls
  <2>4. Typed'
    <3>1. row' \in [Job -> Rows]
      BY <2>2 DEF NoRow, IInv, Typed, Rows, States
    <3>2. waiter' \in [Job -> BOOLEAN] /\ timer' \in [Job -> {"none", "queue", "result"}]
      BY <2>2 DEF IInv, Typed
    <3> QED
      BY <2>2, <2>3, <3>1, <3>2 DEF IInv, Typed, Progress
  <2>5. WaitersAreTimed' /\ LeasedFromQueue'
    BY <2>1, <2>2 DEF IInv, Typed, WaitersAreTimed, LeasedFromQueue, TimerState, NoRow
  <2>6. ClaimedOnce' /\ GivenIsLeased'
    BY <2>2, <2>3 DEF IInv, ClaimedOnce, GivenIsLeased
  <2> QED
    BY <2>4, <2>5, <2>6 DEF IInv
<1> QED
  BY <1>1, <1>2

\* claim leases queued jobs, which nobody has leased before.
LEMMA ClaimStep ==
  ASSUME IInv, NEW r \in Runner, Claim(r)
  PROVE  IInv'
<1>1. PICK S \in SUBSET Claimable :
        /\ row' = [j \in Job |-> IF j \in S THEN [row[j] EXCEPT !.state = "leased",
                                                               !.runner = r] ELSE row[j]]
        /\ timer' = [j \in Job |-> IF j \in S THEN "result" ELSE timer[j]]
        /\ leases' = [j \in Job |-> IF j \in S THEN leases[j] + 1 ELSE leases[j]]
        /\ call' = [call EXCEPT ![r] = [pc |-> "hashing", jobs |-> S]]
  BY DEF Claim
<1>2. UNCHANGED <<waiter, caller, run, given>>
  BY DEF Claim
<1>3. S \subseteq Job /\ \A j \in S : row[j].state = "queued" /\ waiter[j]
  BY DEF Claimable
<1>4. \A j \in S : leases[j] = 0 /\ leases'[j] = 1 /\ given[j] = 0
  <2> SUFFICES ASSUME NEW j \in S PROVE leases[j] = 0 /\ leases'[j] = 1 /\ given[j] = 0
    OBVIOUS
  <2>1. j \in Job /\ leases[j] = 0
    BY <1>3 DEF IInv, LeasedFromQueue
  <2>2. leases'[j] = 1
    <3>1. leases' = [k \in Job |-> IF k \in S THEN leases[k] + 1 ELSE leases[k]]
      BY <1>1
    <3>2. leases'[j] = leases[j] + 1
      BY <2>1, <3>1
    <3> QED
      BY <2>1, <3>2
  <2>3. given[j] = 0
    BY <2>1 DEF IInv, Typed, GivenIsLeased
  <2> QED
    BY <2>1, <2>2, <2>3
<1>5. Typed'
  <2>1. row' \in [Job -> Rows]
    BY <1>1 DEF IInv, Typed, Rows, States
  <2>2. timer' \in [Job -> {"none", "queue", "result"}]
    BY <1>1 DEF IInv, Typed
  <2>3. call' \in [Runner -> Calls]
    BY <1>1, <1>3 DEF IInv, Typed, Calls
  <2>4. leases' \in [Job -> {0, 1}]
    BY <1>1, <1>4 DEF IInv, Typed
  <2> QED
    BY <1>2, <2>1, <2>2, <2>3, <2>4 DEF IInv, Typed
<1>6. \A j \in Job : /\ j \in S => row'[j].state = "leased" /\ timer'[j] = "result"
                     /\ j \notin S => row'[j] = row[j] /\ timer'[j] = timer[j]
                                      /\ leases'[j] = leases[j]
  BY <1>1 DEF IInv, Typed, Rows
<1>7. WaitersAreTimed'
  BY <1>2, <1>3, <1>6 DEF IInv, WaitersAreTimed, TimerState
<1>8. LeasedFromQueue'
  BY <1>2, <1>3, <1>6 DEF IInv, LeasedFromQueue, WaitersAreTimed
<1>9. Claimed(r)' = S /\ \A q \in Runner \ {r} : Claimed(q)' = Claimed(q)
  BY <1>1 DEF IInv, Typed, Claimed
<1>10. \A q \in Runner : Claimed(q) \cap S = {} /\ Claimed(q) \subseteq Job
  BY <1>4 DEF IInv, ClaimedOnce, Claimed, Typed, Calls
<1>11. ClaimedOnce'
  BY <1>2, <1>3, <1>4, <1>6, <1>9, <1>10 DEF IInv, ClaimedOnce
<1>12. GivenIsLeased'
  BY <1>2, <1>4, <1>6 DEF IInv, GivenIsLeased
<1> QED
  BY <1>5, <1>7, <1>8, <1>11, <1>12 DEF IInv

\* The hash is stored into whatever the row has become.
LEMMA HashedStep ==
  ASSUME IInv, NEW r \in Runner, Hashed(r)
  PROVE  IInv'
<1>1. \A j \in Job : row'[j].state = row[j].state
  BY DEF Hashed, IInv, Typed, Rows
<1>2. row' \in [Job -> Rows]
  BY DEF Hashed, IInv, Typed, Rows
<1>3. call' \in [Runner -> Calls] /\ \A q \in Runner : Claimed(q)' = Claimed(q)
  BY DEF Hashed, IInv, Typed, Calls, Claimed
<1>4. UNCHANGED <<waiter, timer, caller, run, leases, given>>
  BY DEF Hashed
<1>5. WaitersAreTimed' /\ LeasedFromQueue'
  BY <1>1, <1>4 DEF IInv, WaitersAreTimed, LeasedFromQueue, TimerState
<1>6. ClaimedOnce' /\ GivenIsLeased' /\ Typed'
  BY <1>2, <1>3, <1>4 DEF IInv, ClaimedOnce, GivenIsLeased, Typed
<1> QED
  BY <1>5, <1>6 DEF IInv

\* A lease response hands over what the call has claimed.
LEMMA RespondedStep ==
  ASSUME IInv, NEW r \in Runner, Responded(r)
  PROVE  /\ IInv'
         /\ call[r].jobs = Claimed(r)
         /\ given' = [j \in Job |-> IF j \in Claimed(r) THEN 1 ELSE given[j]]
<1>1. call[r].jobs = Claimed(r) /\ Claimed(r) \subseteq Job
  BY DEF Responded, Claimed, IInv, Typed, Calls
<1>2. \A j \in Claimed(r) : leases[j] = 1 /\ given[j] = 0
  BY DEF IInv, ClaimedOnce
<1>3. given' = [j \in Job |-> IF j \in Claimed(r) THEN 1 ELSE given[j]]
  BY <1>1, <1>2 DEF Responded, IInv, Typed
<1>4. UNCHANGED <<row, waiter, timer, caller, leases>>
  BY DEF Responded, stored
<1>5. Claimed(r)' = {} /\ \A q \in Runner \ {r} : Claimed(q)' = Claimed(q)
  BY DEF Responded, NoCall, Claimed, IInv, Typed
<1>6. /\ run' \in [Job -> Runs]
      /\ \A j \in Job \ Claimed(r) : run'[j] = run[j]
  BY <1>1 DEF Responded, IInv, Typed, Runs
<1>7. Typed'
  <2>1. call' \in [Runner -> Calls]
    BY DEF Responded, NoCall, IInv, Typed, Calls
  <2> QED
    BY <1>3, <1>4, <1>6, <2>1 DEF IInv, Typed
<1>8. WaitersAreTimed' /\ LeasedFromQueue'
  BY <1>4 DEF IInv, WaitersAreTimed, LeasedFromQueue, TimerState
<1>9. ClaimedOnce'
  BY <1>1, <1>3, <1>4, <1>5 DEF IInv, ClaimedOnce, Claimed, Typed, Calls
<1>10. GivenIsLeased'
  BY <1>2, <1>3, <1>4, <1>6 DEF IInv, GivenIsLeased
<1> QED
  BY <1>1, <1>3, <1>7, <1>8, <1>9, <1>10 DEF IInv

\* An accepted result completes the row and ends the wait, if there is one.
LEMMA CompleteStep ==
  ASSUME IInv, NEW j \in Job, CompleteAccepted(j)
  PROVE  IInv'
<1>1. UNCHANGED <<call, leases, given>> /\ row[j].state = "leased" /\ run[j].st = "sending"
  BY DEF CompleteAccepted, Acceptable
<1>2. row' = [row EXCEPT ![j].state = "completed"]
  BY DEF CompleteAccepted
<1>3. /\ timer' = [k \in Job |-> IF k = j THEN "none" ELSE timer[k]]
      /\ waiter' = [k \in Job |-> waiter[k] /\ k # j]
      /\ caller' = [k \in Job |-> IF k = j /\ waiter[k] THEN "result" ELSE caller[k]]
  BY DEF CompleteAccepted, Resolve
<1>4. run' \in [Job -> Runs] /\ \A k \in Job : run'[k].st # "none" => run[k].st # "none"
  BY <1>1 DEF CompleteAccepted, Replied, IInv, Typed, Runs
<1>5. Typed'
  <2>1. row' \in [Job -> Rows]
    BY <1>2 DEF IInv, Typed, Rows, States, Terminal
  <2>2. /\ waiter' \in [Job -> BOOLEAN]
        /\ timer' \in [Job -> {"none", "queue", "result"}]
        /\ caller' \in [Job -> Progress]
    BY <1>3 DEF IInv, Typed, Progress, Answered
  <2> QED
    BY <1>1, <1>4, <2>1, <2>2 DEF IInv, Typed
<1>6. \A k \in Job : /\ row'[j].state = "completed"
                     /\ k # j => row'[k] = row[k] /\ timer'[k] = timer[k]
                                 /\ waiter'[k] = waiter[k] /\ caller'[k] = caller[k]
  BY <1>2, <1>3 DEF IInv, Typed, Rows
<1>7. ~waiter'[j] /\ timer'[j] = "none" /\ caller'[j] \notin {"waiting", "idle", "checking"}
  BY <1>1, <1>3 DEF IInv, WaitersAreTimed, LeasedFromQueue
<1>8. WaitersAreTimed' /\ LeasedFromQueue'
  BY <1>1, <1>6, <1>7 DEF IInv, WaitersAreTimed, LeasedFromQueue, TimerState
<1>9. ClaimedOnce' /\ GivenIsLeased'
  BY <1>1, <1>4 DEF IInv, ClaimedOnce, Claimed, GivenIsLeased
<1> QED
  BY <1>5, <1>8, <1>9 DEF IInv

\* The row of a job that is closed, and that nobody waits for, is deleted.
LEMMA DeleteStep ==
  ASSUME IInv, NEW j \in Job, AlarmDeletes(j)
  PROVE  IInv'
<1>1. UNCHANGED <<waiter, timer, call, caller, run, leases, given>>
  BY DEF AlarmDeletes
<1>2. row' = [row EXCEPT ![j] = NoRow] /\ row[j].state \in Terminal
  BY DEF AlarmDeletes
<1>3. Typed'
  <2>1. row' \in [Job -> Rows]
    BY <1>2 DEF NoRow, IInv, Typed, Rows, States
  <2> QED
    BY <1>1, <2>1 DEF IInv, Typed
<1>4. WaitersAreTimed' /\ LeasedFromQueue'
  BY <1>1, <1>2 DEF IInv, Typed, WaitersAreTimed, LeasedFromQueue, TimerState,
                    Terminal, NoRow
<1>5. ClaimedOnce' /\ GivenIsLeased'
  BY <1>1 DEF IInv, ClaimedOnce, Claimed, GivenIsLeased
<1> QED
  BY <1>3, <1>4, <1>5 DEF IInv

\* A reset clears the memory and leaves the storage; the checks get an error.
LEMMA ResetStep ==
  ASSUME IInv, Reset
  PROVE  IInv'
<1>1. UNCHANGED <<row, run, leases, given>>
  BY DEF Reset, stored
<1>2. \A j \in Job : /\ ~waiter'[j] /\ timer'[j] = "none"
                     /\ caller'[j] \notin {"checking", "waiting"}
                     /\ caller'[j] = "idle" => caller[j] = "idle"
  BY DEF Reset
<1>3. Typed'
  <2>1. /\ waiter' \in [Job -> BOOLEAN]
        /\ timer' \in [Job -> {"none", "queue", "result"}]
        /\ caller' \in [Job -> Progress]
    BY DEF Reset, IInv, Typed, Progress, Answered
  <2>2. call' \in [Runner -> Calls]
    BY DEF Reset, NoCall, Calls
  <2> QED
    BY <1>1, <2>1, <2>2 DEF IInv, Typed
<1>4. WaitersAreTimed' /\ LeasedFromQueue'
  BY <1>1, <1>2 DEF IInv, WaitersAreTimed, LeasedFromQueue
<1>5. \A r \in Runner : Claimed(r)' = {}
  BY DEF Reset, NoCall, Claimed
<1>6. ClaimedOnce' /\ GivenIsLeased'
  BY <1>1, <1>5 DEF IInv, ClaimedOnce, GivenIsLeased
<1> QED
  BY <1>3, <1>4, <1>6 DEF IInv

\* Every step of the checks, the runners, the object and time preserves IInv.
LEMMA StepInv == IInv /\ [Next]_vars => IInv'
<1> SUFFICES ASSUME IInv, [Next]_vars PROVE IInv'
  OBVIOUS
<1>1. ASSUME NEW j \in Job, JobStep(j) PROVE IInv'
  <2>1. CASE Submit(j) \/ SubmitRefused(j) \/ SubmitAccepted(j)
    BY <2>1, SubmitStep
  <2>2. CASE Fetched(j) \/ RunLost(j) \/ CompleteRejected(j)
    <3>1. UNCHANGED <<row, waiter, timer, call, caller, leases, given>>
      BY <2>2 DEF Fetched, RunLost, CompleteRejected, stored
    <3>2. /\ run' \in [Job -> Runs]
          /\ \A k \in Job : run'[k].st # "none" => run[k].st # "none"
      <4>1. PICK s \in {"none", "fetching", "sending", "sending_large", "done"} :
              /\ run' = [run EXCEPT ![j].st = s]
              /\ run[j].st # "none"
        <5>1. CASE Fetched(j)
          BY <5>1 DEF Fetched
        <5>2. CASE RunLost(j)
          BY <5>2 DEF RunLost
        <5>3. CASE CompleteRejected(j)
          BY <5>3 DEF CompleteRejected, Sending, Replied
        <5> QED
          BY <2>2, <5>1, <5>2, <5>3
      <4> QED
        BY <4>1 DEF IInv, Typed, Runs
    <3>3. \A r \in Runner : Claimed(r)' = Claimed(r)
      BY <3>1 DEF Claimed
    <3> QED
      BY <3>1, <3>2, <3>3, Quiet DEF IInv, Typed
  <2>3. CASE CompleteAccepted(j)
    BY <2>3, CompleteStep
  <2>4. CASE DeadlinePasses(j)
    <3>1. UNCHANGED <<row, waiter, timer, call, caller, run, leases, given>>
      BY <2>4 DEF DeadlinePasses
    <3> QED
      BY <3>1, Quiet DEF Claimed, IInv, Typed
  <2>5. CASE TimerFires(j)
    <3>1. {j} \subseteq Open
      BY <2>5 DEF TimerFires, TimerState, Open
    <3> QED
      BY <2>5, <3>1, ExpireStep DEF TimerFires
  <2>6. CASE AlarmDeletes(j)
    BY <2>6, DeleteStep
  <2> QED
    BY <1>1, <2>1, <2>2, <2>3, <2>4, <2>5, <2>6 DEF JobStep
<1>2. ASSUME NEW r \in Runner, RunnerStep(r) PROVE IInv'
  <2>1. CASE Heartbeat(r) \/ RunnerGoesStale(r)
    <3>1. UNCHANGED <<row, waiter, timer, call, caller, run, leases, given>>
      BY <2>1 DEF Heartbeat, RunnerGoesStale
    <3> QED
      BY <3>1, Quiet DEF Claimed, IInv, Typed
  <2>2. CASE LeaseCall(r) \/ LeaseChecked(r) \/ ClaimNothing(r) \/ PollEnds(r)
             \/ ResponseLost(r)
    <3>1. UNCHANGED <<row, waiter, timer, caller, run, leases, given>>
      BY <2>2 DEF LeaseCall, LeaseChecked, ClaimNothing, PollEnds, ResponseLost, stored
    <3>2. \/ \E pc \in {"idle", "checking", "claim", "polling"} :
               call' = [call EXCEPT ![r].pc = pc]
          \/ call' = [call EXCEPT ![r] = NoCall]
      <4>1. CASE LeaseChecked(r)
        BY <4>1 DEF LeaseChecked
      <4>2. CASE LeaseCall(r) \/ ClaimNothing(r) \/ PollEnds(r) \/ ResponseLost(r)
        BY <4>2 DEF LeaseCall, ClaimNothing, PollEnds, ResponseLost
      <4> QED
        BY <2>2, <4>1, <4>2
    <3>3. /\ call' \in [Runner -> Calls]
          /\ \A q \in Runner \ {r} : call'[q] = call[q]
          /\ call'[r].pc \notin {"hashing", "responding"}
      <4>1. CASE \E pc \in {"idle", "checking", "claim", "polling"} :
                   call' = [call EXCEPT ![r].pc = pc]
        BY <4>1 DEF IInv, Typed, Calls
      <4>2. CASE call' = [call EXCEPT ![r] = NoCall]
        BY <4>2 DEF NoCall, IInv, Typed, Calls
      <4> QED
        BY <3>2, <4>1, <4>2
    <3> QED
      BY <3>1, <3>3, QuietCall
  <2>3. CASE Claim(r)
    BY <2>3, ClaimStep
  <2>4. CASE Hashed(r)
    BY <2>4, HashedStep
  <2>5. CASE Responded(r)
    BY <2>5, RespondedStep
  <2> QED
    BY <1>2, <2>1, <2>2, <2>3, <2>4, <2>5 DEF RunnerStep
<1>3. CASE AlarmExpires
  <2>1. {j \in Open : late[j]} \in SUBSET Open
    OBVIOUS
  <2> QED
    BY <1>3, <2>1, ExpireStep DEF AlarmExpires
<1>4. CASE SetMaintenance \/ UNCHANGED vars
  <2>1. UNCHANGED <<row, waiter, timer, call, caller, run, leases, given>>
    BY <1>4 DEF SetMaintenance, vars
  <2> QED
    BY <2>1, Quiet DEF Claimed, IInv, Typed
<1>5. CASE Reset
  BY <1>5, ResetStep
<1> QED
  BY <1>1, <1>2, <1>3, <1>4, <1>5 DEF Next

-----------------------------------------------------------------------------
(* Theorems *)

THEOREM Inductive == Spec => []IInv
BY InitInv, StepInv, PTL DEF Spec

\* A job is leased at most once (claim), also after its response was lost, its
\* deadline has passed or the object was reset.
THEOREM JobsAreLeasedOnce == Spec => []LeasedOnce
<1>1. IInv => LeasedOnce
  BY DEF IInv, Typed, LeasedOnce
<1> QED
  BY Inductive, <1>1, PTL

\* Who waits has an open row and the timer of its stage (submitAndWait, claim,
\* expireJob, complete): no wait is without an end.
THEOREM WaitersHaveTimers == Spec => []WaitersAreTimed
<1>1. IInv => WaitersAreTimed
  BY DEF IInv
<1> QED
  BY Inductive, <1>1, PTL

\* The alarm is set for every open row after each handler (scheduleAlarm), and
\* claim, which does not set it, opens none: no reset strands a job.
THEOREM AlarmIsSet == Spec => []AlarmCoversOpenJobs
<1>1. Init => AlarmCoversOpenJobs
  BY DEF Init, AlarmCoversOpenJobs, Open, NoRow
<1>2. ASSUME IInv, AlarmCoversOpenJobs, [Next]_vars PROVE AlarmCoversOpenJobs'
  <2>1. ScheduleAlarm => AlarmCoversOpenJobs'
    BY DEF ScheduleAlarm, AlarmCoversOpenJobs, Open
  <2>2. UNCHANGED <<row, alarmFor>> => AlarmCoversOpenJobs'
    BY <1>2 DEF AlarmCoversOpenJobs, Open
  <2>3. ASSUME NEW r \in Runner, Claim(r) PROVE AlarmCoversOpenJobs'
    <3>1. PICK S \in SUBSET Claimable :
            row' = [j \in Job |-> IF j \in S THEN [row[j] EXCEPT !.state = "leased",
                                                                !.runner = r]
                                             ELSE row[j]]
      BY <2>3 DEF Claim
    <3>2. S \subseteq Open /\ alarmFor' = alarmFor
      BY <2>3 DEF Claim, Claimable, Open
    <3>3. Open' \subseteq Open
      BY <3>1, <3>2 DEF Open
    <3> QED
      BY <1>2, <3>2, <3>3 DEF AlarmCoversOpenJobs
  <2>4. ASSUME NEW j \in Job, JobStep(j)
        PROVE  ScheduleAlarm \/ UNCHANGED <<row, alarmFor>>
    BY <2>4 DEF JobStep, Submit, SubmitRefused, SubmitAccepted, Fetched, RunLost,
       CompleteAccepted, CompleteRejected, DeadlinePasses, TimerFires, AlarmDeletes, stored
  <2>5. ASSUME NEW r \in Runner, RunnerStep(r)
        PROVE  ScheduleAlarm \/ UNCHANGED <<row, alarmFor>> \/ Claim(r)
    BY <2>5 DEF RunnerStep, Heartbeat, LeaseCall, LeaseChecked, ClaimNothing, PollEnds,
                Hashed, Responded, ResponseLost, RunnerGoesStale, stored
  <2>6. AlarmExpires => ScheduleAlarm
    BY DEF AlarmExpires
  <2>7. SetMaintenance \/ Reset \/ UNCHANGED vars => UNCHANGED <<row, alarmFor>>
    BY DEF SetMaintenance, Reset, stored, vars
  <2> QED
    BY <1>2, <2>1, <2>2, <2>3, <2>4, <2>5, <2>6, <2>7 DEF Next
<1> QED
  BY <1>1, <1>2, Inductive, PTL DEF Spec

\* Whatever a late result, a timer, the alarm or a reset does to a job, an expired
\* row is never completed (complete, expireJob), and a check that has its answer
\* never gets another one (resolveWaiter).
THEOREM AnswersStayFinal == Spec => AnswersAreFinal
<1>1. ASSUME IInv, Next, NEW j \in Job, row[j].state = "expired"
      PROVE  row'[j].state \in {"expired", "none"}
  <2>1. caller[j] # "checking"
    BY <1>1 DEF IInv, LeasedFromQueue
  <2>2. ASSUME NEW S, Expire(S) PROVE row'[j].state = "expired"
    BY <1>1, <2>2 DEF Expire, IInv, Typed, Rows
  <2>3. ASSUME NEW k \in Job, JobStep(k) PROVE row'[j].state \in {"expired", "none"}
    <3>1. CASE SubmitAccepted(k) \/ CompleteAccepted(k)
      BY <1>1, <2>1, <3>1 DEF SubmitAccepted, CompleteAccepted, Acceptable, IInv, Typed
    <3>2. CASE TimerFires(k)
      BY <2>2, <3>2 DEF TimerFires
    <3>3. CASE AlarmDeletes(k)
      BY <1>1, <3>3 DEF AlarmDeletes, NoRow, IInv, Typed
    <3>4. CASE Submit(k) \/ SubmitRefused(k) \/ Fetched(k) \/ RunLost(k)
               \/ CompleteRejected(k) \/ DeadlinePasses(k)
      BY <1>1, <3>4 DEF Submit, SubmitRefused, Fetched, RunLost, CompleteRejected,
                        DeadlinePasses, stored
    <3> QED
      BY <2>3, <3>1, <3>2, <3>3, <3>4 DEF JobStep
  <2>4. ASSUME NEW r \in Runner, RunnerStep(r)
        PROVE  row'[j].state \in {"expired", "none"}
    <3>1. CASE Claim(r)
      <4>1. PICK S \in SUBSET Claimable :
              row' = [k \in Job |-> IF k \in S THEN [row[k] EXCEPT !.state = "leased",
                                                                  !.runner = r]
                                               ELSE row[k]]
        BY <3>1 DEF Claim
      <4>2. j \notin S
        BY <1>1 DEF Claimable
      <4> QED
        BY <1>1, <4>1, <4>2
    <3>2. CASE Hashed(r)
      BY <1>1, <3>2 DEF Hashed, IInv, Typed, Rows
    <3>3. CASE UNCHANGED row
      BY <1>1, <3>3
    <3>4. ~Claim(r) /\ ~Hashed(r) => UNCHANGED row
      BY <2>4 DEF RunnerStep, Heartbeat, LeaseCall, LeaseChecked, ClaimNothing,
                  PollEnds, Responded, ResponseLost, RunnerGoesStale, stored
    <3> QED
      BY <3>1, <3>2, <3>3, <3>4
  <2>5. CASE AlarmExpires
    BY <2>2, <2>5 DEF AlarmExpires
  <2>6. CASE SetMaintenance \/ Reset
    BY <1>1, <2>6 DEF SetMaintenance, Reset, stored
  <2> QED
    BY <1>1, <2>3, <2>4, <2>5, <2>6 DEF Next
<1>2. ASSUME IInv, Next, NEW j \in Job, caller[j] \in Answered
      PROVE  caller'[j] = caller[j]
  <2>1. ~waiter[j]
    BY <1>2 DEF IInv, WaitersAreTimed, Answered
  <2>2. ASSUME NEW S, NEW outcome, Resolve(S, outcome) PROVE caller'[j] = caller[j]
    BY <2>1, <2>2 DEF Resolve
  <2>3. ASSUME NEW k \in Job, JobStep(k) PROVE caller'[j] = caller[j]
    <3>1. CASE Submit(k) \/ SubmitRefused(k) \/ SubmitAccepted(k)
      BY <1>2, <3>1 DEF Submit, SubmitRefused, SubmitAccepted, Answered, IInv, Typed
    <3>2. CASE CompleteAccepted(k) \/ TimerFires(k)
      BY <2>2, <3>2 DEF CompleteAccepted, TimerFires, Expire
    <3>3. CASE Fetched(k) \/ RunLost(k) \/ CompleteRejected(k) \/ DeadlinePasses(k)
               \/ AlarmDeletes(k)
      BY <3>3 DEF Fetched, RunLost, CompleteRejected, DeadlinePasses, AlarmDeletes
    <3> QED
      BY <2>3, <3>1, <3>2, <3>3 DEF JobStep
  <2>4. ASSUME NEW r \in Runner, RunnerStep(r) PROVE caller' = caller
    BY <2>4 DEF RunnerStep, Heartbeat, LeaseCall, LeaseChecked, Claim, ClaimNothing,
                PollEnds, Hashed, Responded, ResponseLost, RunnerGoesStale
  <2>5. CASE AlarmExpires
    BY <2>2, <2>5 DEF AlarmExpires, Expire
  <2>6. CASE SetMaintenance \/ Reset
    BY <1>2, <2>6 DEF SetMaintenance, Reset, Answered
  <2> QED
    BY <1>2, <2>3, <2>4, <2>5, <2>6 DEF Next
<1>3. IInv /\ [Next]_vars =>
        [\A j \in Job :
           /\ row[j].state = "expired" => row'[j].state \in {"expired", "none"}
           /\ caller[j] \in Answered => caller'[j] = caller[j]]_vars
  BY <1>1, <1>2
<1> QED
  BY Inductive, <1>3, PTL DEF Spec, AnswersAreFinal

-----------------------------------------------------------------------------
(* The refinement *)

\* The checks S, which have no answer yet, are told that none will come.
LEMMA TellsUnavailable ==
  ASSUME IInv, NEW S \in SUBSET Job, given' = given,
         \A j \in S : caller[j] \in {"checking", "waiting"},
         \A j \in Job : caller'[j] = IF j \in S THEN "unavailable" ELSE caller[j]
  PROVE  Abstract!AnswerUnavailable(S)
BY DEF Abstract!AnswerUnavailable, Answered, IInv, Typed, Progress

\* Expiring the jobs S tells those that are waited for.
LEMMA ExpireTells ==
  ASSUME IInv, NEW S \in SUBSET Job, Expire(S), given' = given
  PROVE  Abstract!Next
<1> DEFINE T == {j \in S : waiter[j]}
<1>1. \A j \in T : caller[j] = "waiting"
  BY DEF IInv, WaitersAreTimed
<1>2. \A j \in Job : caller'[j] = IF j \in T THEN "unavailable" ELSE caller[j]
  BY DEF Expire, Resolve
<1> QED
  BY <1>1, <1>2, TellsUnavailable DEF Abstract!Next

LEMMA Stutters ==
  ASSUME UNCHANGED <<caller, given>>
  PROVE  UNCHANGED Abstract!vars
BY DEF Abstract!vars

LEMMA StepRefines == IInv /\ [Next]_vars => [Abstract!Next]_(Abstract!vars)
<1> SUFFICES ASSUME IInv, [Next]_vars PROVE Abstract!Next \/ UNCHANGED Abstract!vars
  OBVIOUS
<1>1. ASSUME NEW j \in Job, JobStep(j) PROVE Abstract!Next \/ UNCHANGED Abstract!vars
  <2>1. CASE Submit(j)
    <3>1. /\ caller[j] = "idle" /\ caller' = [caller EXCEPT ![j] = "checking"]
          /\ given' = given
      BY <2>1 DEF Submit
    <3>2. Abstract!Ask(j)
      BY <3>1 DEF Abstract!Ask, Answered, IInv, Typed, Progress
    <3> QED
      BY <3>2 DEF Abstract!Next
  <2>2. CASE SubmitRefused(j)
    <3>1. Abstract!AnswerUnavailable({j})
      BY <2>2, TellsUnavailable DEF SubmitRefused, IInv, Typed
    <3> QED
      BY <3>1 DEF Abstract!Next
  <2>3. CASE SubmitAccepted(j)
    <3>1. /\ caller[j] = "checking" /\ caller' = [caller EXCEPT ![j] = "waiting"]
          /\ given' = given
      BY <2>3 DEF SubmitAccepted
    <3> QED
      BY <3>1 DEF Abstract!vars, Answered, IInv, Typed
  <2>4. CASE CompleteAccepted(j)
    <3>1. given' = given /\ given[j] = 1
      BY <2>4 DEF CompleteAccepted, Acceptable, IInv, GivenIsLeased
    <3>2. \A k \in Job : caller'[k] = IF k = j /\ waiter[k] THEN "result" ELSE caller[k]
      BY <2>4 DEF CompleteAccepted, Resolve
    <3>3. CASE waiter[j]
      <4>1. caller[j] = "waiting"
        BY <3>3 DEF IInv, WaitersAreTimed
      <4>2. Abstract!AnswerResult(j)
        BY <3>1, <3>2, <3>3, <4>1 DEF Abstract!AnswerResult, Answered
      <4> QED
        BY <4>2 DEF Abstract!Next
    <3>4. CASE ~waiter[j]
      BY <3>1, <3>2, <3>4 DEF Abstract!vars
    <3> QED
      BY <3>3, <3>4
  <2>5. CASE TimerFires(j)
    BY <2>5, ExpireTells DEF TimerFires
  <2>6. CASE Fetched(j) \/ RunLost(j) \/ CompleteRejected(j) \/ DeadlinePasses(j)
             \/ AlarmDeletes(j)
    BY <2>6, Stutters DEF Fetched, RunLost, CompleteRejected, DeadlinePasses,
                          AlarmDeletes
  <2> QED
    BY <1>1, <2>1, <2>2, <2>3, <2>4, <2>5, <2>6 DEF JobStep
<1>2. ASSUME NEW r \in Runner, RunnerStep(r)
      PROVE  Abstract!Next \/ UNCHANGED Abstract!vars
  <2>1. CASE Responded(r)
    <3>1. /\ given' = [j \in Job |-> IF j \in Claimed(r) THEN 1 ELSE given[j]]
          /\ caller' = caller
      BY <2>1, RespondedStep DEF Responded
    <3>2. Claimed(r) \subseteq Job
      BY DEF Claimed, IInv, Typed, Calls
    <3>3. \A j \in Claimed(r) : given[j] = 0 /\ caller[j] # "idle"
      BY <3>2 DEF IInv, ClaimedOnce, LeasedFromQueue
    <3>4. Abstract!Give(Claimed(r))
      BY <3>1, <3>2, <3>3 DEF Abstract!Give
    <3> QED
      BY <3>2, <3>4 DEF Abstract!Next
  <2>2. ~Responded(r) => UNCHANGED <<caller, given>>
    BY <1>2 DEF RunnerStep, Heartbeat, LeaseCall, LeaseChecked, Claim, ClaimNothing,
                PollEnds, Hashed, ResponseLost, RunnerGoesStale
  <2> QED
    BY <2>1, <2>2, Stutters
<1>3. CASE AlarmExpires
  <2>1. {j \in Open : late[j]} \in SUBSET Job
    BY DEF Open
  <2> QED
    BY <1>3, <2>1, ExpireTells DEF AlarmExpires
<1>4. CASE SetMaintenance \/ UNCHANGED vars
  BY <1>4, Stutters DEF SetMaintenance, vars
<1>5. CASE Reset
  <2>1. PICK S \in SUBSET Job : S = {j \in Job : caller[j] \in {"checking", "waiting"}}
    OBVIOUS
  <2>2. \A j \in Job : caller'[j] = IF j \in S THEN "unavailable" ELSE caller[j]
    BY <1>5, <2>1 DEF Reset
  <2>3. given' = given
    BY <1>5 DEF Reset
  <2>4. Abstract!AnswerUnavailable(S)
    BY <2>1, <2>2, <2>3, TellsUnavailable
  <2> QED
    BY <2>4 DEF Abstract!Next
<1> QED
  BY <1>1, <1>2, <1>3, <1>4, <1>5 DEF Next

\* The CrawlerObject keeps its promise to checks and sites (RemoteFetch): one
\* answer for each check, each page given to at most one runner and at most
\* once, and a result only from a runner that was given the page.
THEOREM ImplementsRemoteFetch == Spec => FetchesAtMostOnce
<1>1. Init => Abstract!Init
  BY DEF Init, Abstract!Init, Answered
<1> QED
  BY <1>1, Inductive, StepRefines, PTL DEF Spec, FetchesAtMostOnce, Abstract!Spec
=============================================================================
