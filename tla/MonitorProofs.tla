--------------------------- MODULE MonitorProofs ----------------------------
(***************************************************************************)
(* Proofs about MonitorScheduler, for every set of operations, verdicts    *)
(* and policies, and every number of crashes and exceptions.               *)
(*                                                                         *)
(* The row of check_jobs is the guard against a second fetch of a slot: a  *)
(* row that may be claimed has not been fetched for, and from the claim to *)
(* the fetch it is not claimable.  This holds wherever the row is, in the  *)
(* slot next_run_at or with the check that has been overtaken by a route.  *)
(***************************************************************************)
EXTENDS MonitorScheduler, TLAPS

-----------------------------------------------------------------------------
(* The invariant *)

Pcs == {"idle", "load", "claim", "mark", "prepare", "stop_job", "stop_monitor", "lease",
        "defer", "snapshot", "fetch", "finish", "finish_last", "finish_next", "reject",
        "apply"}

Checks == [pc : Pcs, trigger : {"none", "scheduled", "manual"},
           job : {"none", "slot", "own"},
           result : {"none", "deferred"} \cup Terminal,
           rethrow : BOOLEAN, leased : BOOLEAN]

Typed == slotJob \in JobType /\ ownJob \in JobType /\ check \in Checks

\* A row that may be claimed has not been fetched for.
Fresh(job) == job.st \in {"none", "pending"} => ~job.fetched

\* A check that has not claimed has no row of its own.
NoOwnRowYet ==
  check.pc \in {"idle", "load"} => check.job = "none" /\ ownJob = NoJob

\* The progress of a check on the row of the slot is the row's status.
SlotFollowsCheck ==
  check.job = "slot" =>
    /\ check.pc = "mark" => slotJob.st = "pending"
    /\ check.pc \in {"prepare", "stop_job", "lease", "defer", "snapshot", "fetch"}
         => slotJob.st = "running"

\* Nothing has been fetched for the row of a check that is about to fetch.
UnfetchedUntilFetch ==
  /\ check.pc = "claim" => Fresh(Job)
  /\ check.pc \in {"mark", "prepare", "lease", "defer", "snapshot"} => ~Job.fetched

\* What finishJob will write is an end.
FinishIsFinal ==
  check.pc \in {"finish", "finish_last", "finish_next"} => check.result \in Terminal

RowInv ==
  Typed /\ Fresh(slotJob) /\ NoOwnRowYet /\ SlotFollowsCheck /\ UnfetchedUntilFetch
  /\ FinishIsFinal

\* Only the check that stops the monitor goes on after the stop.
BlockedInv == status = "blocked_by_robots" => check.pc \in {"idle", "load", "apply"}

-----------------------------------------------------------------------------
(* Steps that several actions share *)

\* Both rows, and what the check knows of its own, stay: only its progress does not.
LEMMA CheckMoves ==
  ASSUME RowInv, UNCHANGED <<slotJob, ownJob>>, check' \in Checks,
         check'.job = check.job, check.pc \notin {"idle", "load"},
         check'.pc \notin {"idle", "load", "claim", "mark"},
         check.pc \in {"prepare", "lease", "snapshot", "stop_job", "fetch"}
           \/ check'.pc \notin {"prepare", "stop_job", "lease", "defer", "snapshot", "fetch"},
         check'.pc \in {"lease", "defer", "snapshot", "prepare"} =>
           check.pc \in {"prepare", "lease", "defer", "snapshot"},
         check'.pc \in {"finish", "finish_last", "finish_next"} =>
           check'.result \in Terminal
  PROVE  RowInv'
BY DEF RowInv, Typed, Fresh, NoOwnRowYet, SlotFollowsCheck, UnfetchedUntilFetch,
       FinishIsFinal, Job

\* The check is over.
LEMMA CheckEnds ==
  ASSUME RowInv, slotJob' = slotJob, NEW a, EndCheck(a)
  PROVE  RowInv'
<1>1. Idle \in Checks /\ NoJob \in JobType
  BY DEF Idle, Checks, Pcs, NoJob, JobType
<1>2. check' = Idle /\ ownJob' = NoJob
  BY DEF EndCheck
<1> QED
  BY <1>1, <1>2 DEF Idle, RowInv, Typed, Fresh, NoOwnRowYet, SlotFollowsCheck,
                    UnfetchedUntilFetch, FinishIsFinal

LEMMA RejectedEnds ==
  ASSUME RowInv, slotJob' = slotJob, Rejected
  PROVE  RowInv'
BY CheckEnds DEF Rejected

\* A step that is about neither the rows nor the check
LEMMA NothingOfTheCheck ==
  ASSUME RowInv, UNCHANGED <<slotJob, ownJob, check>>
  PROVE  RowInv'
BY DEF RowInv, Typed, Fresh, NoOwnRowYet, SlotFollowsCheck, UnfetchedUntilFetch,
       FinishIsFinal, Job

\* The row of a check moves with it from the slot, when the slot is written.
LEMMA NextRunWritten ==
  ASSUME RowInv, NEW v, NEW c \in Checks, SetNextRun(v, c), c.job = check.job,
         c.pc = check.pc
           \/ (check.pc \notin {"idle", "load"} /\ c.pc \in {"apply", "reject"}),
         c.result = check.result \/ c.pc \in {"apply", "reject"}
  PROVE  RowInv'
<1> USE DEF RowInv, Typed
<1>1. NoJob \in JobType /\ Fresh(NoJob)
  BY DEF NoJob, JobType, Fresh
<1>2. CASE status = "deleted"
  BY <1>2 DEF SetNextRun, Fresh, NoOwnRowYet, SlotFollowsCheck, UnfetchedUntilFetch,
              FinishIsFinal, Job
<1>3. CASE status # "deleted" /\ c.job = "slot"
  <2>1. slotJob' = NoJob /\ ownJob' = slotJob /\ check' = [c EXCEPT !.job = "own"]
    BY <1>3 DEF SetNextRun
  <2>2. check' \in Checks /\ check'.job = "own" /\ check'.pc = c.pc
        /\ check'.result = c.result
    BY <2>1 DEF Checks
  <2> QED
    BY <1>1, <1>3, <2>1, <2>2 DEF Fresh, NoOwnRowYet, SlotFollowsCheck,
       UnfetchedUntilFetch, FinishIsFinal, Job
<1>4. CASE status # "deleted" /\ c.job # "slot"
  <2>1. slotJob' = NoJob /\ ownJob' = ownJob /\ check' = c
    BY <1>4 DEF SetNextRun
  <2> QED
    BY <1>1, <1>4, <2>1 DEF Fresh, NoOwnRowYet, SlotFollowsCheck,
       UnfetchedUntilFetch, FinishIsFinal, Job
<1> QED
  BY <1>2, <1>3, <1>4

LEMMA InitRowInv == Init => RowInv
BY DEF Init, Idle, NoJob, RowInv, Typed, Checks, Pcs, JobType, Fresh, NoOwnRowYet,
       SlotFollowsCheck, UnfetchedUntilFetch, FinishIsFinal

\* A check writes its row, and goes on: what the row and the check are then
\* depends on what the row was only.
LEMMA RowWritten ==
  ASSUME RowInv, NEW job \in JobType, SetJob(job), check' \in Checks,
         check'.job = check.job, check.pc \notin {"idle", "load"},
         check'.pc \notin {"idle", "load", "claim"},
         Fresh(job) \/ check.job # "slot",
         check'.pc = "mark" => job.st = "pending",
         check'.pc \in {"prepare", "stop_job", "lease", "defer", "snapshot", "fetch"}
           => job.st = "running" \/ check.job # "slot",
         check'.pc \in {"mark", "prepare", "lease", "defer", "snapshot"} => ~job.fetched,
         check'.pc \in {"finish", "finish_last", "finish_next"} =>
           check'.result \in Terminal
  PROVE  RowInv'
<1>1. CASE check.job = "slot"
  <2>1. slotJob' = job /\ ownJob' = ownJob /\ Job' = job
    BY <1>1 DEF SetJob, Job
  <2> QED
    BY <1>1, <2>1 DEF RowInv, Typed, Fresh, NoOwnRowYet, SlotFollowsCheck,
       UnfetchedUntilFetch, FinishIsFinal
<1>2. CASE check.job # "slot"
  <2>1. slotJob' = slotJob /\ ownJob' = job /\ Job' = job
    BY <1>2 DEF SetJob, Job
  <2> QED
    BY <1>2, <2>1 DEF RowInv, Typed, Fresh, NoOwnRowYet, SlotFollowsCheck,
       UnfetchedUntilFetch, FinishIsFinal
<1> QED
  BY <1>1, <1>2

\* updateCheckJobStatus leaves it at what has been fetched.
LEMMA StatusWritten ==
  ASSUME RowInv, NEW st \in {"pending", "running"} \cup Terminal, SetJobStatus(st)
  PROVE  \E job \in JobType :
           /\ SetJob(job) /\ job.fetched = Job.fetched
           /\ job.st = IF Job.st = "none" THEN "none" ELSE st
<1> DEFINE job == IF Job.st = "none" THEN Job ELSE [Job EXCEPT !.st = st]
<1>1. Job \in JobType
  BY DEF Job, RowInv, Typed
<1>2. job \in JobType /\ job.fetched = Job.fetched
      /\ job.st = IF Job.st = "none" THEN "none" ELSE st
  BY <1>1 DEF JobType, Terminal
<1>3. SetJob(job)
  BY DEF SetJobStatus
<1> HIDE DEF job
<1> QED
  BY <1>2, <1>3

\* The check reads, claims and fetches.
LEMMA ClaimingStep ==
  ASSUME RowInv, Load \/ Claim \/ MarkRunning \/ StartFetch
  PROVE  RowInv'
<1>1. CASE Load
  <2>1. CASE EndCheck(alarm) \/ Rejected
    BY <1>1, <2>1, CheckEnds, RejectedEnds DEF Load
  <2>2. CASE ~(EndCheck(alarm) \/ Rejected)
    <3>1. PICK j \in {"own", "slot"} : check' = [check EXCEPT !.pc = "claim", !.job = j]
      BY <1>1, <2>2 DEF Load
    <3>2. check' \in Checks /\ check'.pc = "claim" /\ check'.job = j
      BY <3>1 DEF RowInv, Typed, Checks, Pcs
    <3>3. UNCHANGED <<slotJob, ownJob>> /\ ownJob = NoJob
      BY <1>1, <2>2 DEF Load, RowInv, NoOwnRowYet
    <3> QED
      BY <3>2, <3>3 DEF RowInv, Typed, Fresh, NoOwnRowYet, SlotFollowsCheck,
         UnfetchedUntilFetch, FinishIsFinal, Job, NoJob
  <2> QED
    BY <2>1, <2>2
<1>2. CASE Claim
  <2>1. CASE slotJob' = slotJob /\ (EndCheck(alarm) \/ Rejected)
    BY <2>1, CheckEnds, RejectedEnds
  <2>2. CASE ~(slotJob' = slotJob /\ (EndCheck(alarm) \/ Rejected))
    <3>1. /\ MayClaim /\ SetJob([Job EXCEPT !.st = "pending"])
          /\ check.pc = "claim" /\ check' = [check EXCEPT !.pc = "mark"]
      BY <1>2, <2>2 DEF Claim
    <3>2. ~Job.fetched /\ Job \in JobType
      BY <3>1 DEF RowInv, Typed, UnfetchedUntilFetch, Fresh, MayClaim, Job
    <3>3. PICK job \in JobType : SetJob(job) /\ job.st = "pending" /\ ~job.fetched
      BY <3>1, <3>2 DEF JobType
    <3>4. check' \in Checks /\ check'.pc = "mark" /\ check'.job = check.job
      BY <3>1 DEF RowInv, Typed, Checks, Pcs
    <3> QED
      BY <3>1, <3>3, <3>4, RowWritten DEF Fresh
  <2> QED
    BY <2>1, <2>2
<1>3. CASE MarkRunning
  <2>1. PICK job \in JobType : /\ SetJob(job) /\ job.fetched = Job.fetched
                               /\ job.st = IF Job.st = "none" THEN "none" ELSE "running"
    BY <1>3, StatusWritten DEF MarkRunning
  <2>2. /\ check' \in Checks /\ check'.pc = "prepare" /\ check'.job = check.job
        /\ check.pc = "mark"
    BY <1>3 DEF MarkRunning, RowInv, Typed, Checks, Pcs
  <2>3. ~Job.fetched /\ (check.job = "slot" => Job.st # "none")
    BY <2>2 DEF RowInv, UnfetchedUntilFetch, SlotFollowsCheck, Job
  <2> QED
    BY <2>1, <2>2, <2>3, RowWritten DEF Fresh
<1>4. CASE StartFetch
  <2>1. Job \in JobType
    BY DEF Job, RowInv, Typed
  <2>2. PICK job \in JobType : SetJob(job) /\ job.st = Job.st
    <3> DEFINE job == [Job EXCEPT !.fetched = TRUE]
    <3>1. job \in JobType /\ job.st = Job.st
      BY <2>1 DEF JobType
    <3>2. SetJob(job)
      BY <1>4 DEF StartFetch
    <3> HIDE DEF job
    <3> QED
      BY <3>1, <3>2
  <2>3. /\ check' \in Checks /\ check'.pc = "fetch" /\ check'.job = check.job
        /\ check.pc = "snapshot"
    BY <1>4 DEF StartFetch, Goto, RowInv, Typed, Checks, Pcs
  <2>4. check.job = "slot" => Job.st = "running"
    BY <2>3 DEF RowInv, SlotFollowsCheck, Job
  <2> QED
    BY <2>2, <2>3, <2>4, RowWritten DEF Fresh
<1> QED
  BY <1>1, <1>2, <1>3, <1>4

\* The check goes on between its writes to the row.
LEMMA MovingStep ==
  ASSUME RowInv,
         \/ SsrfBlocked \/ (\E v \in Verdicts, m \in RobotsModes : EvaluateRobots(v, m))
         \/ LeaseDenied \/ LeaseGranted \/ Fetched \/ FinishLastChecked \/ Release
  PROVE  RowInv'
<1>1. UNCHANGED <<slotJob, ownJob>>
  BY DEF SsrfBlocked, EvaluateRobots, LeaseDenied, LeaseGranted, Fetched,
         FinishLastChecked, Release
<1>2. check \in Checks
  BY DEF RowInv, Typed
<1>3. CASE SsrfBlocked
  <2>1. check' \in Checks /\ check'.job = check.job /\ check.pc = "prepare"
        /\ check'.pc = "finish" /\ check'.result = "failed"
    BY <1>2, <1>3 DEF SsrfBlocked, Finishing, Checks, Pcs, Terminal
  <2> QED
    BY <1>1, <2>1, CheckMoves DEF Terminal
<1>4. ASSUME NEW v \in Verdicts, NEW m \in RobotsModes, EvaluateRobots(v, m)
      PROVE  RowInv'
  <2>1. check.pc = "prepare" /\ (Goto("lease") \/ Finishing("failed") \/ Goto("stop_job"))
    BY <1>4 DEF EvaluateRobots
  <2>2. check' \in Checks /\ check'.job = check.job
        /\ check'.pc \in {"lease", "stop_job", "finish"}
        /\ (check'.pc = "finish" => check'.result = "failed")
    BY <1>2, <2>1 DEF Goto, Finishing, Checks, Pcs, Terminal
  <2> QED
    BY <1>1, <2>1, <2>2, CheckMoves DEF Terminal
<1>5. CASE LeaseDenied \/ LeaseGranted
  <2>1. check' \in Checks /\ check'.job = check.job /\ check.pc = "lease"
        /\ check'.pc \in {"defer", "snapshot"}
    BY <1>2, <1>5 DEF LeaseDenied, LeaseGranted, Goto, Checks, Pcs
  <2> QED
    BY <1>1, <2>1, CheckMoves
<1>6. CASE Fetched
  <2>1. check.pc = "fetch" /\ \E r \in {"succeeded", "failed"} :
          check' = [check EXCEPT !.pc = "finish", !.result = r]
          \/ check' = [check EXCEPT !.pc = "finish", !.result = r, !.rethrow = TRUE]
    BY <1>6 DEF Fetched, FailedInTry, Finishing
  <2>2. check' \in Checks /\ check'.job = check.job
        /\ check'.pc = "finish" /\ check'.result \in Terminal
    BY <1>2, <2>1 DEF Checks, Pcs, Terminal
  <2> QED
    BY <1>1, <2>1, <2>2, CheckMoves
<1>7. CASE FinishLastChecked
  <2>1. check' \in Checks /\ check'.job = check.job /\ check.pc = "finish_last"
        /\ check'.pc = "finish_next" /\ check'.result = check.result
    BY <1>2, <1>7 DEF FinishLastChecked, Goto, Checks, Pcs
  <2> QED
    BY <1>1, <2>1, CheckMoves DEF RowInv, FinishIsFinal
<1>8. CASE Release
  <2>1. check' \in Checks /\ check'.job = check.job /\ check'.result = check.result
        /\ check'.pc = check.pc
        /\ check.pc \in {"finish", "finish_last", "finish_next", "reject", "apply"}
    BY <1>2, <1>8 DEF Release, Checks
  <2> QED
    BY <1>1, <2>1, CheckMoves DEF RowInv, FinishIsFinal
<1> QED
  BY <1>3, <1>4, <1>5, <1>6, <1>7, <1>8

\* The check writes the end of its row, or puts it back.
LEMMA EndingStep ==
  ASSUME RowInv, StopJob \/ Defer \/ FinishJob
  PROVE  RowInv'
<1>1. check \in Checks
  BY DEF RowInv, Typed
<1>2. CASE StopJob
  <2>1. PICK job \in JobType : /\ SetJob(job) /\ job.fetched = Job.fetched
                               /\ job.st = IF Job.st = "none" THEN "none"
                                                              ELSE "policy_stopped"
    BY <1>2, StatusWritten DEF StopJob, Terminal
  <2>2. check' \in Checks /\ check'.job = check.job /\ check.pc = "stop_job"
        /\ check'.pc = "stop_monitor"
    BY <1>1, <1>2 DEF StopJob, Goto, Checks, Pcs
  <2>3. check.job = "slot" => Job.st = "running"
    BY <2>2 DEF RowInv, SlotFollowsCheck, Job
  <2> QED
    BY <2>1, <2>2, <2>3, RowWritten DEF Fresh
<1>3. CASE Defer
  <2>1. PICK job \in JobType : /\ SetJob(job) /\ job.fetched = Job.fetched
                               /\ job.st = IF Job.st = "none" THEN "none" ELSE "pending"
    BY <1>3, StatusWritten DEF Defer
  <2>2. check' \in Checks /\ check'.job = check.job /\ check.pc = "defer"
        /\ check'.pc = "apply"
    BY <1>1, <1>3 DEF Defer, Checks, Pcs
  <2>3. ~Job.fetched
    BY <2>2 DEF RowInv, UnfetchedUntilFetch
  <2> QED
    BY <2>1, <2>2, <2>3, RowWritten DEF Fresh
<1>4. CASE FinishJob
  <2>1. check.pc = "finish" /\ check.result \in Terminal /\ SetJobStatus(check.result)
    BY <1>4 DEF FinishJob, RowInv, FinishIsFinal
  <2>2. PICK job \in JobType : /\ SetJob(job) /\ job.fetched = Job.fetched
                               /\ job.st = IF Job.st = "none" THEN "none"
                                                              ELSE check.result
    BY <2>1, StatusWritten
  <2>3. check' \in Checks /\ check'.job = check.job /\ check'.pc = "finish_last"
        /\ check'.result = check.result
    BY <1>1, <1>4 DEF FinishJob, Goto, Checks, Pcs
  <2>4. Fresh(job) \/ check.job # "slot"
    BY <2>1, <2>2 DEF RowInv, Fresh, Job, Terminal
  <2> QED
    BY <2>1, <2>2, <2>3, <2>4, RowWritten
<1> QED
  BY <1>2, <1>3, <1>4

\* Every step of the object, the check, the routes, the cron handler and time
\* preserves RowInv, and so does every crash and every exception.
LEMMA StepRowInv == RowInv /\ [Next]_vars => RowInv'
<1> SUFFICES ASSUME RowInv, [Next]_vars PROVE RowInv'
  OBVIOUS
<1>1. check \in Checks
  BY DEF RowInv, Typed
<1>2. CASE Alarm \/ RunNow
  <2>1. UNCHANGED <<slotJob, ownJob>>
    BY <1>2 DEF Alarm, RunNow
  <2>2. CASE check' = check
    BY <2>1, <2>2, NothingOfTheCheck
  <2>3. CASE check' # check
    <3>1. check.pc = "idle" /\ \E t \in {"scheduled", "manual"} :
            check' = [Idle EXCEPT !.pc = "load", !.trigger = t]
      BY <1>2, <2>3 DEF Alarm, RunNow
    <3>2. check' \in Checks /\ check'.pc = "load" /\ check'.job = "none"
      BY <3>1 DEF Idle, Checks, Pcs
    <3> QED
      BY <2>1, <3>1, <3>2 DEF RowInv, Typed, Fresh, NoOwnRowYet, SlotFollowsCheck,
         UnfetchedUntilFetch, FinishIsFinal
  <2> QED
    BY <2>2, <2>3
<1>3. CASE CheckStep
  <2>1. CASE Gone \/ Reject
    BY <2>1, RejectedEnds DEF Gone, Reject
  <2>2. CASE Apply
    BY <2>2, CheckEnds DEF Apply
  <2>3. CASE StopMonitor
    <3>1. PICK c \in Checks : /\ c = [check EXCEPT !.pc = "apply", !.result = "policy_stopped"]
                              /\ SetNextRun("null", c)
      BY <1>1, <2>3 DEF StopMonitor, Checks, Pcs, Terminal
    <3>2. c.job = check.job /\ c.pc = "apply" /\ check.pc = "stop_monitor"
      BY <1>1, <2>3, <3>1 DEF StopMonitor, Checks
    <3> QED
      BY <3>1, <3>2, NextRunWritten
  <2>4. CASE FinishNextRun
    <3>1. PICK c \in Checks : /\ \E p \in {"reject", "apply"} : c = [check EXCEPT !.pc = p]
                              /\ SetNextRun("ahead", c)
      BY <1>1, <2>4 DEF FinishNextRun, Checks, Pcs
    <3>2. c.job = check.job /\ c.pc \in {"reject", "apply"} /\ check.pc = "finish_next"
      BY <1>1, <2>4, <3>1 DEF FinishNextRun, Checks
    <3> QED
      BY <3>1, <3>2, NextRunWritten
  <2> QED
    BY <1>3, <2>1, <2>2, <2>3, <2>4, ClaimingStep, MovingStep, EndingStep DEF CheckStep
<1>4. CASE Throw
  <2>1. CASE slotJob' = slotJob /\ Rejected
    BY <2>1, RejectedEnds
  <2>2. CASE ~(slotJob' = slotJob /\ Rejected)
    <3>1. /\ UNCHANGED <<slotJob, ownJob>>
          /\ \/ check.pc = "fetch" /\ FailedInTry
             \/ check.pc \in {"finish", "finish_last", "finish_next"} /\ Goto("reject")
      BY <1>4, <2>2 DEF Throw
    <3>2. check' \in Checks /\ check'.job = check.job
          /\ check.pc \notin {"idle", "load"} /\ check'.pc \in {"finish", "reject"}
          /\ (check'.pc = "finish" => check'.result \in Terminal)
      BY <1>1, <3>1 DEF FailedInTry, Goto, Checks, Pcs, Terminal
    <3> QED
      BY <3>1, <3>2, CheckMoves
  <2> QED
    BY <2>1, <2>2
<1>5. CASE Crash
  BY <1>5, RejectedEnds, NothingOfTheCheck DEF Crash
<1>6. CASE DeleteCascade
  <2>1. slotJob' = NoJob /\ ownJob' = NoJob
        /\ check' = IF check.job = "slot" THEN [check EXCEPT !.job = "own"] ELSE check
    BY <1>6 DEF DeleteCascade
  <2>2. check' \in Checks /\ check'.pc = check.pc /\ check'.result = check.result
        /\ check'.job # "slot" /\ (check.job # "slot" => check'.job = check.job)
    BY <1>1, <2>1 DEF Checks
  <2>3. NoJob \in JobType /\ ~NoJob.fetched
    BY DEF NoJob, JobType
  <2> QED
    BY <2>1, <2>2, <2>3 DEF RowInv, Typed, Fresh, NoOwnRowYet, SlotFollowsCheck,
       UnfetchedUntilFetch, FinishIsFinal, Job
<1>7. CASE ResumeNextRun \/ PatchNextRun
  <2>1. PICK c \in Checks : /\ SetNextRun("ahead", c)
                            /\ c.job = check.job /\ c.pc = check.pc
                            /\ c.result = check.result
    BY <1>1, <1>7 DEF ResumeNextRun, PatchNextRun
  <2> QED
    BY <2>1, NextRunWritten
<1>8. ASSUME AdminStep, ~DeleteCascade, ~ResumeNextRun, ~PatchNextRun PROVE RowInv'
  <2>1. UNCHANGED <<slotJob, ownJob, check>>
    BY <1>8 DEF AdminStep, Pause, PauseStatus, Resume, ResumeRead, ResumeAlarm,
                ResumeStatus, Patch, PatchAlarm, Delete
  <2> QED
    BY <2>1, NothingOfTheCheck
<1>9. ASSUME \/ RequestFails \/ ReconcileRead \/ ReconcileSchedule \/ TimePasses
             \/ \E v \in Verdicts : NeighbourEvaluates(v)
             \/ UNCHANGED vars
      PROVE  RowInv'
  <2>1. UNCHANGED <<slotJob, ownJob, check>>
    BY <1>9 DEF RequestFails, ReconcileRead, ReconcileSchedule, TimePasses,
                NeighbourEvaluates, vars
  <2> QED
    BY <2>1, NothingOfTheCheck
<1> QED
  BY <1>2, <1>3, <1>4, <1>5, <1>6, <1>7, <1>8, <1>9 DEF Next

-----------------------------------------------------------------------------
(* What a step does to the progress of the check and to the status *)

\* The check stays where it is, ends or is about to, or begins; or it goes on, and
\* then it has found the monitor not blocked, or found it so before.
Progress ==
  \/ check'.pc = check.pc
     /\ (status' = "blocked_by_robots" => status = "blocked_by_robots")
  \/ check'.pc \in {"idle", "apply"}
  \/ check.pc = "idle" /\ check'.pc = "load" /\ status' = status
  \/ check.pc = "load" /\ check'.pc = "claim" /\ status' # "blocked_by_robots"
  \/ /\ check.pc \notin {"idle", "load", "apply"}
     /\ status' = status
     /\ check'.pc = "fetch" => check.pc = "snapshot"

LEMMA EndIsProgress == (\E a : EndCheck(a)) \/ Rejected => check'.pc = "idle"
<1>1. ASSUME NEW a, EndCheck(a) PROVE check'.pc = "idle"
  BY <1>1 DEF EndCheck, Idle
<1> QED
  BY <1>1 DEF Rejected

LEMMA NextRunKeepsProgress ==
  ASSUME NEW v, NEW c \in Checks, SetNextRun(v, c)
  PROVE  check'.pc = c.pc
BY DEF SetNextRun, Checks

LEMMA CheckProgress ==
  ASSUME Typed, CheckStep
  PROVE  Progress
<1>1. check \in Checks
  BY DEF Typed
<1>2. CASE Load
  <2>1. CASE (\E a : EndCheck(a)) \/ Rejected
    BY <2>1, EndIsProgress DEF Progress
  <2>2. CASE ~((\E a : EndCheck(a)) \/ Rejected)
    <3>1. check.pc = "load" /\ check'.pc = "claim" /\ ~MustSkip(check.trigger)
          /\ status' = status
      BY <1>1, <1>2, <2>2 DEF Load, Checks
    <3> QED
      BY <3>1 DEF Progress, MustSkip
  <2> QED
    BY <2>1, <2>2
<1>3. CASE Claim
  <2>1. CASE (\E a : EndCheck(a)) \/ Rejected
    BY <2>1, EndIsProgress DEF Progress
  <2>2. CASE ~((\E a : EndCheck(a)) \/ Rejected)
    <3>1. check.pc = "claim" /\ check'.pc = "mark" /\ status' = status
      BY <1>1, <1>3, <2>2 DEF Claim, Checks
    <3> QED
      BY <3>1 DEF Progress
  <2> QED
    BY <2>1, <2>2
<1>4. CASE Gone \/ Reject \/ Apply
  BY <1>4, EndIsProgress DEF Gone, Reject, Apply, Progress
<1>5. CASE StopMonitor
  <2>1. PICK c \in Checks : /\ c = [check EXCEPT !.pc = "apply", !.result = "policy_stopped"]
                            /\ SetNextRun("null", c)
    BY <1>1, <1>5 DEF StopMonitor, Checks, Pcs, Terminal
  <2>2. c.pc = "apply"
    BY <1>1, <2>1 DEF Checks
  <2> QED
    BY <2>1, <2>2, NextRunKeepsProgress DEF Progress
<1>6. CASE FinishNextRun
  <2>1. PICK c \in Checks : /\ \E p \in {"reject", "apply"} : c = [check EXCEPT !.pc = p]
                            /\ SetNextRun("ahead", c)
    BY <1>1, <1>6 DEF FinishNextRun, Checks, Pcs
  <2>2. c.pc \in {"reject", "apply"} /\ check.pc = "finish_next" /\ status' = status
    BY <1>1, <1>6, <2>1 DEF FinishNextRun, Checks
  <2> QED
    BY <2>1, <2>2, NextRunKeepsProgress DEF Progress
<1>7. CASE MarkRunning \/ SsrfBlocked \/ StopJob \/ LeaseDenied \/ Defer \/ LeaseGranted
  BY <1>1, <1>7 DEF MarkRunning, SsrfBlocked, StopJob, LeaseDenied, Defer, LeaseGranted,
     Goto, Finishing, Checks, Progress
<1>8. CASE StartFetch \/ FinishJob \/ FinishLastChecked
  BY <1>1, <1>8 DEF StartFetch, FinishJob, FinishLastChecked, Goto, Checks, Progress
<1>9. CASE Fetched
  <2>1. check.pc = "fetch" /\ check'.pc = "finish" /\ status' = status
    BY <1>1, <1>9 DEF Fetched, FailedInTry, Finishing, Checks
  <2> QED
    BY <2>1 DEF Progress
<1>10. CASE Release
  BY <1>1, <1>10 DEF Release, Checks, Progress
<1>11. ASSUME NEW v \in Verdicts, NEW m \in RobotsModes, EvaluateRobots(v, m)
       PROVE  Progress
  <2>1. check.pc = "prepare" /\ check'.pc \in {"lease", "stop_job", "finish"}
        /\ status' = status
    BY <1>1, <1>11 DEF EvaluateRobots, Goto, Finishing, Checks
  <2> QED
    BY <2>1 DEF Progress
<1> QED
  BY <1>2, <1>3, <1>4, <1>5, <1>6, <1>7, <1>8, <1>9, <1>10, <1>11 DEF CheckStep

LEMMA StepProgress ==
  ASSUME Typed, [Next]_vars
  PROVE  Progress
<1>1. check \in Checks
  BY DEF Typed
<1>2. CASE CheckStep
  BY <1>2, CheckProgress
<1>3. CASE Alarm \/ RunNow
  <2>1. CASE check' = check
    BY <1>3, <2>1 DEF Alarm, RunNow, Progress
  <2>2. CASE check' # check
    <3>1. check.pc = "idle" /\ \E t \in {"scheduled", "manual"} :
            check' = [Idle EXCEPT !.pc = "load", !.trigger = t]
      BY <1>3, <2>2 DEF Alarm, RunNow
    <3>2. check.pc = "idle" /\ check'.pc = "load"
      BY <3>1 DEF Idle
    <3> QED
      BY <1>3, <3>2 DEF Alarm, RunNow, Progress
  <2> QED
    BY <2>1, <2>2
<1>4. CASE Throw
  <2>1. CASE Rejected
    BY <2>1, EndIsProgress DEF Progress
  <2>2. CASE ~Rejected
    BY <1>1, <1>4, <2>2 DEF Throw, FailedInTry, Goto, Checks, Progress
  <2> QED
    BY <2>1, <2>2
<1>5. CASE Crash
  BY <1>5, EndIsProgress DEF Crash, Progress
<1>6. CASE ResumeNextRun \/ PatchNextRun
  <2>1. PICK c \in Checks : c = check /\ SetNextRun("ahead", c)
    BY <1>1, <1>6 DEF ResumeNextRun, PatchNextRun
  <2>2. check'.pc = check.pc /\ status' = status
    BY <1>6, <2>1, NextRunKeepsProgress DEF ResumeNextRun, PatchNextRun
  <2> QED
    BY <2>2 DEF Progress
<1>7. CASE DeleteCascade
  <2>1. check'.pc = check.pc /\ status' = "deleted"
    BY <1>1, <1>7 DEF DeleteCascade, Checks
  <2> QED
    BY <2>1 DEF Progress
<1>8. ASSUME AdminStep, ~DeleteCascade, ~ResumeNextRun, ~PatchNextRun PROVE Progress
  BY <1>8 DEF AdminStep, Pause, PauseStatus, Resume, ResumeRead, ResumeAlarm, ResumeStatus,
     Patch, PatchAlarm, Delete, SetStatus, Progress
<1>9. ASSUME \/ RequestFails \/ ReconcileRead \/ ReconcileSchedule \/ TimePasses
             \/ \E v \in Verdicts : NeighbourEvaluates(v)
             \/ UNCHANGED vars
      PROVE  Progress
  BY <1>9 DEF RequestFails, ReconcileRead, ReconcileSchedule, TimePasses,
     NeighbourEvaluates, vars, Progress
<1> QED
  BY <1>2, <1>3, <1>4, <1>5, <1>6, <1>7, <1>8, <1>9 DEF Next

-----------------------------------------------------------------------------
(* Without failures, a running row is held by the check in flight *)

\* Where the row of the check may be running
AtWork == {"prepare", "stop_job", "lease", "defer", "snapshot", "fetch", "finish"}

\* A running row is the row of the check, of a check that is at work on it; a
\* deleted monitor has no rows.
JobsHeld ==
  /\ slotJob.st = "running" => check.job = "slot"
  /\ ownJob.st = "running" => check.job # "slot"
  /\ check.pc \notin AtWork => Job.st # "running"
  /\ status = "deleted" => slotJob.st = "none" /\ ownJob.st = "none"
  /\ "running" \notin orphan

NoFailureYet == crashes = 0 /\ throws = 0

LEMMA NothingFails ==
  ASSUME MaxCrashes = 0, MaxThrows = 0, NoFailureYet, [Next]_vars
  PROVE  NoFailureYet' /\ ~Crash /\ ~Throw /\ ~RequestFails
<1>1. ~Crash /\ ~Throw /\ ~RequestFails
  BY DEF Crash, Throw, RequestFails, NoFailureYet
<1>2. ASSUME CheckStep PROVE UNCHANGED <<crashes, throws>>
  <2>1. CASE Load \/ Claim \/ MarkRunning \/ Gone \/ SsrfBlocked
             \/ (\E v \in Verdicts, m \in RobotsModes : EvaluateRobots(v, m))
    BY <2>1 DEF Load, Claim, MarkRunning, Gone, SsrfBlocked, EvaluateRobots
  <2>2. CASE StopJob \/ StopMonitor \/ LeaseDenied \/ Defer \/ LeaseGranted \/ StartFetch
    BY <2>2 DEF StopJob, StopMonitor, LeaseDenied, Defer, LeaseGranted, StartFetch
  <2>3. CASE \/ Fetched \/ Release \/ FinishJob \/ FinishLastChecked \/ FinishNextRun
             \/ Reject \/ Apply
    BY <2>3 DEF Fetched, Release, FinishJob, FinishLastChecked, FinishNextRun, Reject, Apply
  <2> QED
    BY <1>2, <2>1, <2>2, <2>3 DEF CheckStep
<1>3. ASSUME AdminStep PROVE UNCHANGED <<crashes, throws>>
  BY <1>3 DEF AdminStep, Pause, PauseStatus, Resume, ResumeRead, ResumeNextRun, ResumeAlarm,
     ResumeStatus, Patch, PatchNextRun, PatchAlarm, Delete, DeleteCascade
<1>4. ASSUME \/ Alarm \/ RunNow \/ ReconcileRead \/ ReconcileSchedule \/ TimePasses
             \/ (\E v \in Verdicts : NeighbourEvaluates(v)) \/ UNCHANGED vars
      PROVE  UNCHANGED <<crashes, throws>>
  BY <1>4 DEF Alarm, RunNow, ReconcileRead, ReconcileSchedule, TimePasses,
     NeighbourEvaluates, vars
<1> QED
  BY <1>1, <1>2, <1>3, <1>4 DEF Next, NoFailureYet

\* The rows stay, and the check does not turn from a running one.
LEMMA HeldMoves ==
  ASSUME RowInv, JobsHeld, UNCHANGED <<slotJob, ownJob, orphan>>,
         check'.job = check.job, status' = "deleted" => status = "deleted",
         check'.pc = check.pc \/ check'.pc \in AtWork \/ check.pc \notin AtWork
  PROVE  JobsHeld'
BY DEF JobsHeld, Job

\* A check whose row is not running is over.
LEMMA HeldEnds ==
  ASSUME JobsHeld, slotJob' = slotJob, status' = status,
         Job.st # "running", NEW a, EndCheck(a)
  PROVE  JobsHeld'
<1>1. ownJob.st # "running" /\ slotJob.st # "running"
  BY DEF JobsHeld, Job
<1>2. ownJob' = NoJob /\ orphan' = orphan \cup Left(ownJob) /\ check' = Idle
  BY DEF EndCheck
<1>3. Job'.st # "running"
  BY <1>1, <1>2 DEF Job, NoJob
<1>4. "running" \notin orphan'
  BY <1>1, <1>2 DEF Left, JobsHeld
<1> QED
  BY <1>1, <1>2, <1>3, <1>4 DEF JobsHeld, NoJob

\* Another slot: the row goes with the check, or was no running row.
LEMMA HeldNextRun ==
  ASSUME RowInv, JobsHeld, NEW v, NEW c \in Checks, SetNextRun(v, c), c.job = check.job,
         c.pc = check.pc \/ (check.pc \notin AtWork /\ c.pc \notin AtWork),
         status' = "deleted" => status = "deleted"
  PROVE  JobsHeld'
<1>1. CASE status = "deleted"
  BY <1>1 DEF SetNextRun, JobsHeld, Job
<1>2. CASE status # "deleted" /\ c.job = "slot"
  <2>1. slotJob' = NoJob /\ ownJob' = slotJob /\ orphan' = orphan
        /\ check'.job = "own" /\ check'.pc = c.pc
    BY <1>2 DEF SetNextRun, Checks
  <2> QED
    BY <1>2, <2>1 DEF JobsHeld, Job, NoJob
<1>3. CASE status # "deleted" /\ c.job # "slot"
  <2>1. slotJob' = NoJob /\ ownJob' = ownJob /\ check' = c
        /\ orphan' = orphan \cup Left(slotJob) /\ slotJob.st # "running"
    BY <1>3 DEF SetNextRun, JobsHeld
  <2>2. "running" \notin orphan'
    BY <2>1 DEF JobsHeld, Left
  <2> QED
    BY <1>3, <2>1, <2>2 DEF JobsHeld, Job, NoJob
<1> QED
  BY <1>1, <1>2, <1>3

\* The check writes its row.
LEMMA HeldWritten ==
  ASSUME RowInv, JobsHeld, NEW job \in JobType, SetJob(job), check'.job = check.job,
         UNCHANGED <<status, orphan>>, job.st = "running" => check'.pc \in AtWork,
         status = "deleted" => job.st = "none"
  PROVE  JobsHeld'
BY DEF JobsHeld, SetJob, Job

LEMMA CheckStepHeld ==
  ASSUME RowInv, JobsHeld, CheckStep
  PROVE  JobsHeld'
<1>1. check \in Checks /\ slotJob \in JobType /\ ownJob \in JobType /\ Job \in JobType
  BY DEF RowInv, Typed, Job
<1>2. status = "deleted" => Job.st = "none"
  BY DEF JobsHeld, Job
<1>3. CASE Load \/ Claim \/ Gone \/ Reject \/ Apply
  <2>1. CASE slotJob' = slotJob /\ \E a : EndCheck(a)
    <3>1. Job.st # "running" /\ status' = status
      BY <1>2, <1>3 DEF Load, Claim, Gone, Reject, Apply, JobsHeld, AtWork
    <3> QED
      BY <2>1, <3>1, HeldEnds
  <2>2. CASE ~(slotJob' = slotJob /\ \E a : EndCheck(a))
    <3>1. CASE Load
      <4>1. PICK j \in {"own", "slot"} : check' = [check EXCEPT !.pc = "claim", !.job = j]
        BY <2>2, <3>1 DEF Load, Rejected
      <4>2. check'.pc = "claim" /\ check'.job = j
            /\ UNCHANGED <<slotJob, ownJob, orphan, status>>
            /\ check.pc = "load" /\ check.job = "none"
        BY <1>1, <2>2, <3>1, <4>1 DEF Load, Rejected, Checks, RowInv, NoOwnRowYet
      <4>3. slotJob.st # "running" /\ ownJob.st # "running"
        BY <4>2 DEF JobsHeld, Job, AtWork
      <4> QED
        BY <4>2, <4>3 DEF JobsHeld, Job
    <3>2. CASE Claim
      <4>1. /\ SetJob([Job EXCEPT !.st = "pending"]) /\ UNCHANGED <<status, orphan>>
            /\ check' = [check EXCEPT !.pc = "mark"] /\ status # "deleted"
        BY <2>2, <3>2 DEF Claim, Rejected
      <4>2. PICK job \in JobType : SetJob(job) /\ job.st = "pending"
        BY <1>1, <4>1 DEF JobType
      <4>3. check'.job = check.job
        BY <1>1, <4>1 DEF Checks
      <4> QED
        BY <4>1, <4>2, <4>3, HeldWritten
    <3> QED
      BY <1>3, <2>2, <3>1, <3>2 DEF Gone, Reject, Apply, Rejected
  <2> QED
    BY <2>1, <2>2
<1>4. ASSUME NEW st \in {"pending", "running"} \cup Terminal, SetJobStatus(st),
             check'.job = check.job, UNCHANGED <<status, orphan>>,
             st = "running" => check'.pc \in AtWork
      PROVE  JobsHeld'
  <2>1. PICK job \in JobType : /\ SetJob(job)
                               /\ job.st = IF Job.st = "none" THEN "none" ELSE st
    BY <1>4, StatusWritten
  <2> QED
    BY <1>2, <1>4, <2>1, HeldWritten
<1>5. CASE MarkRunning
  <2>1. check'.job = check.job /\ check'.pc = "prepare"
    BY <1>1, <1>5 DEF MarkRunning, Checks
  <2> QED
    BY <1>4, <1>5, <2>1 DEF MarkRunning, AtWork
<1>6. CASE StopJob \/ Defer
  <2>1. check'.job = check.job
    BY <1>1, <1>6 DEF StopJob, Defer, Goto, Checks
  <2> QED
    BY <1>4, <1>6, <2>1 DEF StopJob, Defer, Terminal
<1>7. CASE FinishJob
  <2>1. check'.job = check.job /\ check.result \in Terminal /\ check.result # "running"
    BY <1>1, <1>7 DEF FinishJob, Goto, Checks, RowInv, FinishIsFinal, Terminal
  <2> QED
    BY <1>4, <1>7, <2>1 DEF FinishJob
<1>8. CASE StartFetch
  <2>1. PICK job \in JobType : SetJob(job) /\ job.st = Job.st
    <3> DEFINE job == [Job EXCEPT !.fetched = TRUE]
    <3>1. job \in JobType /\ job.st = Job.st
      BY <1>1 DEF JobType
    <3>2. SetJob(job)
      BY <1>8 DEF StartFetch
    <3> HIDE DEF job
    <3> QED
      BY <3>1, <3>2
  <2>2. check'.job = check.job /\ check'.pc = "fetch" /\ UNCHANGED <<status, orphan>>
    BY <1>1, <1>8 DEF StartFetch, Goto, Checks
  <2> QED
    BY <1>2, <2>1, <2>2, HeldWritten DEF AtWork
<1>9. CASE StopMonitor
  <2>1. PICK c \in Checks : /\ c = [check EXCEPT !.pc = "apply", !.result = "policy_stopped"]
                            /\ SetNextRun("null", c)
    BY <1>1, <1>9 DEF StopMonitor, Checks, Pcs, Terminal
  <2>2. c.job = check.job /\ c.pc = "apply" /\ check.pc = "stop_monitor"
        /\ (status' = "deleted" => status = "deleted")
    BY <1>1, <1>9, <2>1 DEF StopMonitor, SetStatus, Checks
  <2> QED
    BY <2>1, <2>2, HeldNextRun DEF AtWork
<1>10. CASE FinishNextRun
  <2>1. PICK c \in Checks : /\ \E p \in {"reject", "apply"} : c = [check EXCEPT !.pc = p]
                            /\ SetNextRun("ahead", c)
    BY <1>1, <1>10 DEF FinishNextRun, Checks, Pcs
  <2>2. c.job = check.job /\ c.pc \in {"reject", "apply"} /\ check.pc = "finish_next"
        /\ status' = status
    BY <1>1, <1>10, <2>1 DEF FinishNextRun, Checks
  <2> QED
    BY <2>1, <2>2, HeldNextRun DEF AtWork
<1>11. ASSUME \/ SsrfBlocked \/ (\E v \in Verdicts, m \in RobotsModes : EvaluateRobots(v, m))
              \/ LeaseDenied \/ LeaseGranted \/ Fetched \/ FinishLastChecked \/ Release
       PROVE  JobsHeld'
  <2>1. UNCHANGED <<slotJob, ownJob, orphan, status>>
    BY <1>11 DEF SsrfBlocked, EvaluateRobots, LeaseDenied, LeaseGranted, Fetched,
       FinishLastChecked, Release
  <2>2. check'.job = check.job
    BY <1>1, <1>11 DEF SsrfBlocked, EvaluateRobots, LeaseDenied, LeaseGranted, Fetched,
       FinishLastChecked, Release, Goto, Finishing, FailedInTry, Checks
  <2>3. check'.pc = check.pc \/ check'.pc \in AtWork \/ check.pc \notin AtWork
    <3>1. CASE FinishLastChecked \/ Release
      BY <1>1, <3>1 DEF FinishLastChecked, Release, Checks, AtWork
    <3>2. CASE SsrfBlocked \/ (\E v \in Verdicts, m \in RobotsModes : EvaluateRobots(v, m))
      <4>1. SsrfBlocked \/ Goto("lease") \/ Goto("stop_job") \/ Finishing("failed")
        BY <3>2 DEF EvaluateRobots
      <4> QED
        BY <1>1, <4>1 DEF SsrfBlocked, Goto, Finishing, Checks, AtWork
    <3>3. CASE LeaseDenied \/ LeaseGranted \/ Fetched
      BY <1>1, <3>3 DEF LeaseDenied, LeaseGranted, Fetched, Goto, Finishing, FailedInTry,
         Checks, AtWork
    <3> QED
      BY <1>11, <3>1, <3>2, <3>3
  <2> QED
    BY <2>1, <2>2, <2>3, HeldMoves
<1> QED
  BY <1>3, <1>5, <1>6, <1>7, <1>8, <1>9, <1>10, <1>11 DEF CheckStep

LEMMA StepHeld ==
  ASSUME MaxCrashes = 0, MaxThrows = 0, RowInv, NoFailureYet, JobsHeld, [Next]_vars
  PROVE  JobsHeld'
<1>1. check \in Checks
  BY DEF RowInv, Typed
<1>2. CASE Alarm \/ RunNow
  <2>1. UNCHANGED <<slotJob, ownJob, orphan, status>> /\
        \/ check' = check
        \/ check.pc = "idle" /\ \E t \in {"scheduled", "manual"} :
             check' = [Idle EXCEPT !.pc = "load", !.trigger = t]
    BY <1>2 DEF Alarm, RunNow
  <2>2. CASE check' = check
    BY <2>1, <2>2, HeldMoves
  <2>3. CASE check' # check
    <3>1. check'.job = "none" /\ check.job = "none" /\ check.pc = "idle"
      BY <2>1, <2>3 DEF Idle, RowInv, NoOwnRowYet
    <3> QED
      BY <2>1, <3>1, HeldMoves DEF AtWork
  <2> QED
    BY <2>2, <2>3
<1>3. CASE CheckStep
  BY <1>3, CheckStepHeld
<1>4. CASE DeleteCascade
  <2>1. slotJob' = NoJob /\ ownJob' = NoJob /\ orphan' = {}
    BY <1>4 DEF DeleteCascade
  <2> QED
    BY <2>1 DEF JobsHeld, Job, NoJob
<1>5. CASE ResumeNextRun \/ PatchNextRun
  <2>1. SetNextRun("ahead", check) /\ status' = status
    BY <1>5 DEF ResumeNextRun, PatchNextRun
  <2> QED
    BY <1>1, <2>1, HeldNextRun
<1>6. ASSUME AdminStep, ~DeleteCascade, ~ResumeNextRun, ~PatchNextRun PROVE JobsHeld'
  <2>1. UNCHANGED <<slotJob, ownJob, orphan, check>>
        /\ (status' = "deleted" => status = "deleted")
    BY <1>6 DEF AdminStep, Pause, PauseStatus, Resume, ResumeRead, ResumeAlarm,
                ResumeStatus, Patch, PatchAlarm, Delete, SetStatus
  <2> QED
    BY <2>1, HeldMoves
<1>7. ASSUME \/ ReconcileRead \/ ReconcileSchedule \/ TimePasses
             \/ (\E v \in Verdicts : NeighbourEvaluates(v)) \/ UNCHANGED vars
      PROVE  JobsHeld'
  <2>1. UNCHANGED <<slotJob, ownJob, orphan, check, status>>
    BY <1>7 DEF ReconcileRead, ReconcileSchedule, TimePasses, NeighbourEvaluates, vars
  <2> QED
    BY <2>1, HeldMoves
<1> QED
  BY <1>2, <1>3, <1>4, <1>5, <1>6, <1>7, NothingFails DEF Next

-----------------------------------------------------------------------------
(* Theorems *)

\* A row of check_jobs that may be claimed has not been fetched for, and from the
\* claim to the fetch the row of a check is not claimable, also when a route has
\* written next_run_at meanwhile.
THEOREM RowsAreGuards == Spec => []RowInv
BY InitRowInv, StepRowInv, PTL DEF Spec

\* The idempotency key of check_jobs works (createCheckJobIfNew and the test of
\* its status in runMonitorCheck): no page is fetched twice for one row, however
\* alarms, routes, crashes and exceptions interleave.
THEOREM RowsFetchedOnce == Spec => SlotFetchedOnce
<1>1. ASSUME RowInv, [Next]_vars
      PROVE  [(check.pc # "fetch" /\ check'.pc = "fetch") => ~Job.fetched]_vars
  <2>1. Progress
    BY <1>1, StepProgress DEF RowInv
  <2>2. ASSUME check.pc # "fetch", check'.pc = "fetch" PROVE check.pc = "snapshot"
    BY <2>1, <2>2 DEF Progress
  <2> QED
    BY <1>1, <2>2 DEF RowInv, UnfetchedUntilFetch
<1> QED
  BY RowsAreGuards, <1>1, PTL DEF Spec, SlotFetchedOnce

\* No page is fetched for a monitor that is blocked_by_robots, although
\* runMonitorCheck reads the status once and robots.txt stops the monitor later:
\* only a check stops it, and there is one check at a time.
THEOREM BlockedIsNotFetched == Spec => []BlockedNotFetched
<1>1. Init => BlockedInv
  BY DEF Init, BlockedInv
<1>2. RowInv /\ BlockedInv /\ [Next]_vars => BlockedInv'
  <2> SUFFICES ASSUME RowInv, BlockedInv, [Next]_vars PROVE BlockedInv'
    OBVIOUS
  <2>1. Progress
    BY StepProgress DEF RowInv
  <2> QED
    BY <2>1 DEF Progress, BlockedInv
<1>3. BlockedInv => BlockedNotFetched
  BY DEF BlockedInv, BlockedNotFetched
<1> QED
  BY RowsAreGuards, <1>1, <1>2, <1>3, PTL DEF Spec

\* While no isolate dies and no call throws, every job that is running is being
\* worked on (the job of a check is put to an end, or back to pending, before the
\* check is over), also when a route writes next_run_at or deletes the monitor in
\* between.  The runs with failures show what an exception leaves behind.
THEOREM RunningJobsAreHeld ==
  ASSUME MaxCrashes = 0, MaxThrows = 0
  PROVE  Spec => []RunningJobHasCheck
<1>1. Init => NoFailureYet /\ JobsHeld
  BY DEF Init, NoFailureYet, JobsHeld, Job, NoJob, Idle
<1>2. RowInv /\ NoFailureYet /\ JobsHeld /\ [Next]_vars => NoFailureYet' /\ JobsHeld'
  BY NothingFails, StepHeld
<1>3. RowInv /\ JobsHeld => RunningJobHasCheck
  BY DEF RowInv, NoOwnRowYet, JobsHeld, RunningJobHasCheck
<1> QED
  BY RowsAreGuards, <1>1, <1>2, <1>3, PTL DEF Spec
=============================================================================
