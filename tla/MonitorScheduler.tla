------------------------- MODULE MonitorScheduler --------------------------
(***************************************************************************)
(* One monitor: its MonitorObject (alarm, in-memory running flag), the     *)
(* check that runs inside it (runMonitorCheck), its rows in D1 (monitors,  *)
(* check_jobs), the API routes that operate on it and the cron             *)
(* reconciliation that recovers lost alarms.                               *)
(*                                                                         *)
(* Every await of a D1 call is an interleaving point: the input gate of a  *)
(* Durable Object only covers its own storage.  So the check and the       *)
(* operations of the administrator are sequences of one step per D1 write, *)
(* and an isolate may die, or a D1 call throw, between any two of them.    *)
(*                                                                         *)
(* Of the timestamp next_run_at only its relation to the clock matters     *)
(* (null, ahead, overdue by more than the grace period), and of check_jobs *)
(* only the row whose scheduled_for is the current next_run_at ("slotJob") *)
(* and the row of the check in flight when that is another one ("ownJob"). *)
(***************************************************************************)
EXTENDS Integers

CONSTANTS
  Ops,               \* operations the administrator may use
  Verdicts,          \* outcomes a robots.txt evaluation may have
  RobotsModes,       \* modes the origin's robots policy may be in
  StopThreshold,     \* ROBOTS_UNAVAILABLE_STOP_THRESHOLD
  Neighbours,        \* TRUE if other monitors are registered on the same origin
  InitialNextRun,    \* next_run_at of the created monitor: "null" or "ahead"
  MaxCrashes,        \* bound: isolates that die
  MaxThrows          \* bound: calls that throw

ASSUME OpsAssumption == Ops \subseteq {"run", "pause", "resume", "patch", "delete"}
ASSUME RobotsAssumption ==
  /\ Verdicts \subseteq {"allowed", "disallowed", "unavailable"}
  /\ RobotsModes \subseteq {"enforce", "ignore"}
  /\ StopThreshold \in Nat \ {0}
ASSUME BoundAssumption == MaxCrashes \in Nat /\ MaxThrows \in Nat
ASSUME InitialAssumption ==
  InitialNextRun \in {"null", "ahead"} /\ Neighbours \in BOOLEAN

VARIABLES
  status,        \* monitors.status ("deleted": the row is gone)
  nextRun,       \* monitors.next_run_at
  checkedOnce,   \* monitors.last_checked_at is not null
  slotJob,       \* the check_jobs row of the slot next_run_at
  ownJob,        \* the row of the check in flight, when of another slot
  orphan,        \* statuses of the unfinished rows no slot or check refers to
  alarm,         \* an alarm is set in the MonitorObject
  check,         \* the check in flight; pc = "idle" is running = false
  admin,         \* the API request in progress
  due,           \* the reconciliation has read this monitor as overdue
  streak,        \* latest evaluations of the origin: consecutive unavailable
  ownStreak,     \* history: this monitor's own consecutive unavailable checks
  needsResume,   \* history: policy-stopped and not resumed since
  resumed,       \* history: the last finished request was a resume
  crashes, throws

vars == <<status, nextRun, checkedOnce, slotJob, ownJob, orphan, alarm, check, admin, due,
          streak, ownStreak, needsResume, resumed, crashes, throws>>

Terminal == {"succeeded", "failed", "policy_stopped"}
NoJob == [st |-> "none", fetched |-> FALSE]
Idle == [pc |-> "idle", trigger |-> "none", job |-> "none", result |-> "none",
         rethrow |-> FALSE, leased |-> FALSE]
NoAdmin == [op |-> "none", pc |-> "none"]

Init ==
  /\ status = "active"
  /\ nextRun = InitialNextRun
  /\ checkedOnce = FALSE
  /\ slotJob = NoJob
  /\ ownJob = NoJob
  /\ orphan = {}
  /\ alarm = FALSE
  /\ check = Idle
  /\ admin = NoAdmin
  /\ due = FALSE
  /\ streak = 0
  /\ ownStreak = 0
  /\ needsResume = FALSE
  /\ resumed = FALSE
  /\ crashes = 0
  /\ throws = 0

Min2(a, b) == IF a <= b THEN a ELSE b

-----------------------------------------------------------------------------
(* D1 writes shared by the actions *)

\* An unfinished row that nothing will ever look up again
Left(job) == IF job.st \in {"pending", "running"} THEN {job.st} ELSE {}

\* The row of the check in flight
Job == IF check.job = "slot" THEN slotJob ELSE ownJob

SetJob(job) ==
  IF check.job = "slot" THEN slotJob' = job /\ UNCHANGED ownJob
                        ELSE ownJob' = job /\ UNCHANGED slotJob

\* updateCheckJobStatus: no effect on a row the deletion has removed
SetJobStatus(st) == SetJob(IF Job.st = "none" THEN Job ELSE [Job EXCEPT !.st = st])

\* updateMonitorStatus: no effect on a deleted row
SetStatus(s) == status' = IF status = "deleted" THEN status ELSE s

\* setMonitorNextRun: a new slot, without a row so far.  A check in flight on
\* the old slot keeps its row; c is that check's state in the next state.
SetNextRun(v, c) ==
  IF status = "deleted"
  THEN check' = c /\ UNCHANGED <<nextRun, slotJob, ownJob, orphan>>
  ELSE /\ nextRun' = v
       /\ slotJob' = NoJob
       /\ IF c.job = "slot"
          THEN /\ ownJob' = slotJob
               /\ check' = [c EXCEPT !.job = "own"]
               /\ UNCHANGED orphan
          ELSE /\ orphan' = orphan \cup Left(slotJob)
               /\ check' = c
               /\ UNCHANGED ownJob

\* The check is over, with alarm state a: running = false.
EndCheck(a) ==
  /\ check' = Idle
  /\ ownJob' = NoJob
  /\ orphan' = orphan \cup Left(ownJob)
  /\ alarm' = a

-----------------------------------------------------------------------------
(* MonitorObject: alarm and runNowMonitor *)

\* The runtime has removed the alarm when it calls alarm(); while a manual
\* check is running the handler returns and nothing sets it again.
Alarm ==
  /\ alarm
  /\ alarm' = FALSE
  /\ check' = IF check.pc = "idle"
              THEN [Idle EXCEPT !.pc = "load", !.trigger = "scheduled"] ELSE check
  /\ UNCHANGED <<status, nextRun, slotJob, ownJob, orphan, admin, due, streak,
                 ownStreak, needsResume, resumed, crashes, throws, checkedOnce>>

RunNow ==
  /\ "run" \in Ops
  /\ status # "deleted"
  /\ check.pc = "idle"
  /\ check' = [Idle EXCEPT !.pc = "load", !.trigger = "manual"]
  /\ UNCHANGED <<status, nextRun, slotJob, ownJob, orphan, alarm, admin, due,
                 streak, ownStreak, needsResume, resumed, crashes, throws, checkedOnce>>

\* Mutant of MustSkip: a blocked monitor is treated like an active one.
MustSkipNotBlocked(trigger) == status = "paused" /\ trigger # "manual"

\* skipForStatus
MustSkip(trigger) ==
  \/ status = "blocked_by_robots"
  \/ status = "paused" /\ trigger # "manual"

\* A call outside the try block throws, or the monitor is gone: the handler
\* rejects and the row keeps its status.  The runtime runs a failed alarm()
\* again, up to a limit; a failed runNow is reported to the caller.
Rejected ==
  \E a \in IF check.trigger = "scheduled" THEN {TRUE, alarm} ELSE {alarm} : EndCheck(a)

\* getMonitor; skipped results set no alarm.
Load ==
  /\ check.pc = "load"
  /\ \/ status = "deleted" /\ Rejected
     \/ status # "deleted" /\ MustSkip(check.trigger) /\ EndCheck(alarm)
     \/ /\ status # "deleted"
        /\ ~MustSkip(check.trigger)
        /\ check' = [check EXCEPT
             !.pc = "claim",
             !.job = IF check.trigger = "manual" \/ nextRun = "null" THEN "own" ELSE "slot"]
        /\ UNCHANGED <<ownJob, orphan, alarm>>
  /\ UNCHANGED <<status, nextRun, slotJob, admin, due, streak, ownStreak,
                 needsResume, resumed, crashes, throws, checkedOnce>>

\* Mutant of MayClaim: a running row is taken for an own deferred attempt.
MayClaimRunning == Job.st \in {"none", "pending", "running"}

\* createCheckJobIfNew inserted the row, or found the one a deferral left.
MayClaim == Job.st \in {"none", "pending"}

Claim ==
  /\ check.pc = "claim"
  /\ \/ status = "deleted" /\ Rejected /\ UNCHANGED slotJob
     \/ status # "deleted" /\ ~MayClaim /\ EndCheck(alarm) /\ UNCHANGED slotJob
     \/ /\ status # "deleted"
        /\ MayClaim
        /\ SetJob([Job EXCEPT !.st = "pending"])
        /\ check' = [check EXCEPT !.pc = "mark"]
        /\ UNCHANGED <<orphan, alarm>>
  /\ UNCHANGED <<status, nextRun, admin, due, streak, ownStreak, needsResume,
                 resumed, crashes, throws, checkedOnce>>

\* updateCheckJobStatus(running)
MarkRunning ==
  /\ check.pc = "mark"
  /\ SetJobStatus("running")
  /\ check' = [check EXCEPT !.pc = "prepare"]
  /\ UNCHANGED <<status, nextRun, orphan, alarm, admin, due, streak, ownStreak,
                 needsResume, resumed, crashes, throws, checkedOnce>>

Goto(pc) == check' = [check EXCEPT !.pc = pc]
FailedInTry ==
  check' = [check EXCEPT !.pc = "finish", !.result = "failed", !.rethrow = TRUE]
Finishing(result) == check' = [check EXCEPT !.pc = "finish", !.result = result]

\* Rows that refer to a deleted monitor violate their foreign keys.
Gone ==
  /\ check.pc = "prepare"
  /\ status = "deleted"
  /\ Rejected
  /\ UNCHANGED <<status, nextRun, slotJob, admin, due, streak, ownStreak,
                 needsResume, resumed, crashes, throws, checkedOnce>>

SsrfBlocked ==
  /\ check.pc = "prepare"
  /\ status # "deleted"
  /\ Finishing("failed")
  /\ UNCHANGED <<status, nextRun, slotJob, ownJob, orphan, alarm, admin, due,
                 streak, ownStreak, needsResume, resumed, crashes, throws, checkedOnce>>

\* checkRobots, createRobotsEvaluation, countConsecutiveUnavailable...: the
\* count runs over the evaluations of the origin, whichever monitor made them.
EvaluateRobots(verdict, mode) ==
  /\ check.pc = "prepare"
  /\ status # "deleted"
  /\ streak' = IF verdict = "unavailable" THEN Min2(StopThreshold, streak + 1) ELSE 0
  /\ ownStreak' = IF verdict = "unavailable" THEN Min2(StopThreshold, ownStreak + 1) ELSE 0
  /\ \/ /\ verdict = "allowed" \/ mode = "ignore"
        /\ Goto("lease")
     \/ /\ verdict = "unavailable" /\ mode = "enforce" /\ streak' < StopThreshold
        /\ Finishing("failed")
     \/ /\ verdict # "allowed" /\ mode = "enforce"
        /\ verdict = "unavailable" => streak' >= StopThreshold
        /\ Goto("stop_job")
  /\ UNCHANGED <<status, nextRun, slotJob, ownJob, orphan, alarm, admin, due,
                 needsResume, resumed, crashes, throws, checkedOnce>>

NeighbourEvaluates(verdict) ==
  /\ Neighbours
  /\ streak' = IF verdict = "unavailable" THEN Min2(StopThreshold, streak + 1) ELSE 0
  /\ UNCHANGED <<status, nextRun, slotJob, ownJob, orphan, alarm, check, admin,
                 due, ownStreak, needsResume, resumed, crashes, throws, checkedOnce>>

StopJob ==
  /\ check.pc = "stop_job"
  /\ SetJobStatus("policy_stopped")
  /\ Goto("stop_monitor")
  /\ UNCHANGED <<status, nextRun, orphan, alarm, admin, due, streak, ownStreak,
                 needsResume, resumed, crashes, throws, checkedOnce>>

\* policyStopMonitor: status, stop_reason and next_run_at in one UPDATE
StopMonitor ==
  /\ check.pc = "stop_monitor"
  /\ SetStatus("blocked_by_robots")
  /\ SetNextRun("null", [check EXCEPT !.pc = "apply", !.result = "policy_stopped"])
  /\ needsResume' = TRUE
  /\ UNCHANGED <<alarm, admin, due, streak, ownStreak, resumed, crashes, throws, checkedOnce>>

\* The HostObject refuses a lease (see HostLimiter): the job waits as pending.
LeaseDenied ==
  /\ check.pc = "lease"
  /\ Goto("defer")
  /\ UNCHANGED <<status, nextRun, slotJob, ownJob, orphan, alarm, admin, due,
                 streak, ownStreak, needsResume, resumed, crashes, throws, checkedOnce>>

\* Mutant of Defer: the row is not put back to pending.
DeferRunning ==
  /\ check.pc = "defer"
  /\ check' = [check EXCEPT !.pc = "apply", !.result = "deferred"]
  /\ UNCHANGED <<status, nextRun, slotJob, ownJob, orphan, alarm, admin, due,
                 streak, ownStreak, needsResume, resumed, crashes, throws, checkedOnce>>

Defer ==
  /\ check.pc = "defer"
  /\ SetJobStatus("pending")
  /\ check' = [check EXCEPT !.pc = "apply", !.result = "deferred"]
  /\ UNCHANGED <<status, nextRun, orphan, alarm, admin, due, streak, ownStreak,
                 needsResume, resumed, crashes, throws, checkedOnce>>

LeaseGranted ==
  /\ check.pc = "lease"
  /\ check' = [check EXCEPT !.pc = "snapshot", !.leased = TRUE]
  /\ UNCHANGED <<status, nextRun, slotJob, ownJob, orphan, alarm, admin, due,
                 streak, ownStreak, needsResume, resumed, crashes, throws, checkedOnce>>

\* getLatestSnapshotForTarget, then the fetch begins
StartFetch ==
  /\ check.pc = "snapshot"
  /\ SetJob([Job EXCEPT !.fetched = TRUE])
  /\ Goto("fetch")
  /\ UNCHANGED <<status, nextRun, orphan, alarm, admin, due, streak, ownStreak,
                 needsResume, resumed, crashes, throws, checkedOnce>>

\* The fetch and the content processor, up to their result.  Their rows refer
\* to the monitor: when it has been deleted they throw.
Fetched ==
  /\ check.pc = "fetch"
  /\ IF status = "deleted" THEN FailedInTry
                           ELSE \E result \in {"succeeded", "failed"} : Finishing(result)
  /\ UNCHANGED <<status, nextRun, slotJob, ownJob, orphan, alarm, admin, due,
                 streak, ownStreak, needsResume, resumed, crashes, throws, checkedOnce>>

\* finishJob: the row first, ...
FinishJob ==
  /\ check.pc = "finish"
  /\ SetJobStatus(check.result)
  /\ Goto("finish_last")
  /\ UNCHANGED <<status, nextRun, orphan, alarm, admin, due, streak, ownStreak,
                 needsResume, resumed, crashes, throws, checkedOnce>>

\* ... then last_checked_at, ...
FinishLastChecked ==
  /\ check.pc = "finish_last"
  /\ checkedOnce' = TRUE
  /\ Goto("finish_next")
  /\ UNCHANGED <<status, nextRun, slotJob, ownJob, orphan, alarm, admin, due,
                 streak, ownStreak, needsResume, resumed, crashes, throws>>

\* ... then next_run_at.  After an exception in the processor the handler
\* rejects with it; otherwise the result is applied.
FinishNextRun ==
  /\ check.pc = "finish_next"
  /\ SetNextRun("ahead", [check EXCEPT !.pc = IF check.rethrow THEN "reject" ELSE "apply"])
  /\ UNCHANGED <<status, alarm, admin, due, streak, ownStreak, needsResume,
                 resumed, crashes, throws, checkedOnce>>

\* The finally block.  A result is returned as the promise of finishJob, so the
\* lease is released while that is still writing; the catch block awaits it.
Release ==
  /\ check.leased
  /\ \/ check.pc \in {"finish", "finish_last", "finish_next"} /\ ~check.rethrow
     \/ check.pc \in {"reject", "apply"}
  /\ check' = [check EXCEPT !.leased = FALSE]
  /\ UNCHANGED <<status, nextRun, slotJob, ownJob, orphan, alarm, admin, due,
                 streak, ownStreak, needsResume, resumed, crashes, throws, checkedOnce>>

Reject ==
  /\ check.pc = "reject"
  /\ ~check.leased
  /\ Rejected
  /\ UNCHANGED <<status, nextRun, slotJob, admin, due, streak, ownStreak,
                 needsResume, resumed, crashes, throws, checkedOnce>>

\* applyResult: none after a policy stop, a retry after a deferral, the next
\* slot after a completed check.
AlarmAfter(result) == result # "policy_stopped"

Apply ==
  /\ check.pc = "apply"
  /\ ~check.leased
  /\ EndCheck(AlarmAfter(check.result))
  /\ UNCHANGED <<status, nextRun, slotJob, admin, due, streak, ownStreak,
                 needsResume, resumed, crashes, throws, checkedOnce>>

CheckStep ==
  \/ Load \/ Claim \/ MarkRunning \/ Gone \/ SsrfBlocked
  \/ \E v \in Verdicts, m \in RobotsModes : EvaluateRobots(v, m)
  \/ StopJob \/ StopMonitor \/ LeaseDenied \/ Defer \/ LeaseGranted
  \/ StartFetch \/ Fetched \/ Release
  \/ FinishJob \/ FinishLastChecked \/ FinishNextRun \/ Reject \/ Apply

-----------------------------------------------------------------------------
(* Failures *)

\* A call throws.  Under the try block the catch finishes the job as failed and
\* rethrows.  finishJob is returned without await: when it throws, only the
\* finally block still runs.  Everywhere else the handler just rejects.
Throw ==
  /\ throws < MaxThrows
  /\ check.pc \notin {"idle", "reject"}
  /\ throws' = throws + 1
  /\ \/ /\ check.pc = "fetch"
        /\ FailedInTry
        /\ UNCHANGED <<ownJob, orphan, alarm>>
     \/ /\ check.pc \in {"finish", "finish_last", "finish_next"}
        /\ Goto("reject")
        /\ UNCHANGED <<ownJob, orphan, alarm>>
     \/ /\ check.pc \notin {"fetch", "finish", "finish_last", "finish_next"}
        /\ Rejected
  /\ UNCHANGED <<status, nextRun, slotJob, admin, due, streak, ownStreak,
                 needsResume, resumed, crashes, checkedOnce>>

\* The isolate of the MonitorObject dies: the running flag and the check are
\* gone, the alarm handler that was running is run again, and a request that
\* was waiting for the object fails.
Crash ==
  /\ crashes < MaxCrashes
  /\ check.pc # "idle" \/ admin.op # "none"
  /\ crashes' = crashes + 1
  /\ IF check.pc = "idle" THEN UNCHANGED <<check, ownJob, orphan, alarm>> ELSE Rejected
  /\ admin' \in {admin, NoAdmin}
  /\ UNCHANGED <<status, nextRun, slotJob, due, streak, ownStreak, needsResume,
                 resumed, throws, checkedOnce>>

\* A D1 call of the request throws: the request ends with an error.
RequestFails ==
  /\ throws < MaxThrows
  /\ admin.op # "none"
  /\ throws' = throws + 1
  /\ admin' = NoAdmin
  /\ UNCHANGED <<status, nextRun, slotJob, ownJob, orphan, alarm, check, due,
                 streak, ownStreak, needsResume, resumed, crashes, checkedOnce>>

-----------------------------------------------------------------------------
(* The API routes, one request at a time *)

Request(op, pc) ==
  /\ op \in Ops
  /\ admin.op = "none"
  /\ status # "deleted"
  /\ admin' = [op |-> op, pc |-> pc]

AdminGoto(pc) == admin' = [admin EXCEPT !.pc = pc]

\* pauseMonitor: deleteAlarm, ...
Pause ==
  /\ Request("pause", "do")
  /\ alarm' = FALSE
  /\ UNCHANGED <<status, nextRun, slotJob, ownJob, orphan, check, due, streak,
                 ownStreak, needsResume, resumed, crashes, throws, checkedOnce>>

\* ... the status, and the status again in the route.
PauseStatus ==
  /\ admin.op = "pause"
  /\ SetStatus("paused")
  /\ admin' = IF admin.pc = "do" THEN [admin EXCEPT !.pc = "route"] ELSE NoAdmin
  /\ resumed' = IF admin.pc = "do" THEN resumed ELSE FALSE
  /\ UNCHANGED <<nextRun, slotJob, ownJob, orphan, alarm, check, due, streak,
                 ownStreak, needsResume, crashes, throws, checkedOnce>>

\* resumeMonitor: the status, ...
Resume ==
  /\ Request("resume", "read")
  /\ SetStatus("active")
  /\ needsResume' = FALSE
  /\ UNCHANGED <<nextRun, slotJob, ownJob, orphan, alarm, check, due, streak,
                 ownStreak, resumed, crashes, throws, checkedOnce>>

\* ... getMonitor, ...
ResumeRead ==
  /\ admin.op = "resume" /\ admin.pc = "read"
  /\ AdminGoto(IF nextRun = "null" THEN "write" ELSE "alarm")
  /\ UNCHANGED <<status, nextRun, slotJob, ownJob, orphan, alarm, check, due,
                 streak, ownStreak, needsResume, resumed, crashes, throws, checkedOnce>>

\* ... next_run_at = now if it was null when read, ...
ResumeNextRun ==
  /\ admin.op = "resume" /\ admin.pc = "write"
  /\ SetNextRun("ahead", check)
  /\ AdminGoto("alarm")
  /\ UNCHANGED <<status, alarm, due, streak, ownStreak, needsResume, resumed,
                 crashes, throws, checkedOnce>>

\* ... setAlarm, ...
ResumeAlarm ==
  /\ admin.op = "resume" /\ admin.pc = "alarm"
  /\ alarm' = TRUE
  /\ AdminGoto("route")
  /\ UNCHANGED <<status, nextRun, slotJob, ownJob, orphan, check, due, streak,
                 ownStreak, needsResume, resumed, crashes, throws, checkedOnce>>

\* ... and the status again in the route, after the MonitorObject has answered.
ResumeStatus ==
  /\ admin.op = "resume" /\ admin.pc = "route"
  /\ SetStatus("active")
  /\ admin' = NoAdmin
  /\ resumed' = TRUE
  /\ UNCHANGED <<nextRun, slotJob, ownJob, orphan, alarm, check, due, streak,
                 ownStreak, needsResume, crashes, throws, checkedOnce>>

\* PATCH interval_seconds: reschedules an active monitor if that is earlier,
\* judging by the row it has read before the writes.
Patch ==
  /\ status = "active"
  /\ checkedOnce
  /\ Request("patch", "write")
  /\ UNCHANGED <<status, nextRun, slotJob, ownJob, orphan, alarm, check, due,
                 streak, ownStreak, needsResume, resumed, crashes, throws, checkedOnce>>

PatchNextRun ==
  /\ admin.op = "patch" /\ admin.pc = "write"
  /\ SetNextRun("ahead", check)
  /\ AdminGoto("alarm")
  /\ UNCHANGED <<status, alarm, due, streak, ownStreak, needsResume, resumed,
                 crashes, throws, checkedOnce>>

PatchAlarm ==
  /\ admin.op = "patch" /\ admin.pc = "alarm"
  /\ alarm' = TRUE
  /\ admin' = NoAdmin
  /\ resumed' = FALSE
  /\ UNCHANGED <<status, nextRun, slotJob, ownJob, orphan, check, due, streak,
                 ownStreak, needsResume, crashes, throws, checkedOnce>>

\* DELETE: scheduleMonitor(null), ...
Delete ==
  /\ Request("delete", "cascade")
  /\ alarm' = FALSE
  /\ UNCHANGED <<status, nextRun, slotJob, ownJob, orphan, check, due, streak,
                 ownStreak, needsResume, resumed, crashes, throws, checkedOnce>>

\* Mutant of DeleteCascade: the jobs of the monitor are forgotten.
DeleteKeepsJobs ==
  /\ admin.op = "delete"
  /\ status' = "deleted"
  /\ nextRun' = "null"
  /\ admin' = NoAdmin
  /\ resumed' = FALSE
  /\ UNCHANGED <<slotJob, ownJob, orphan, check, alarm, due, streak, ownStreak, needsResume, crashes, throws, checkedOnce>>

\* ... then every row of the monitor, its jobs included, in one batch.
DeleteCascade ==
  /\ admin.op = "delete"
  /\ status' = "deleted"
  /\ nextRun' = "null"
  /\ slotJob' = NoJob
  /\ ownJob' = NoJob
  /\ orphan' = {}
  /\ admin' = NoAdmin
  /\ resumed' = FALSE
  /\ check' = IF check.job = "slot" THEN [check EXCEPT !.job = "own"] ELSE check
  /\ UNCHANGED <<alarm, due, streak, ownStreak, needsResume, crashes, throws, checkedOnce>>

AdminStep ==
  \/ Pause \/ PauseStatus
  \/ Resume \/ ResumeRead \/ ResumeNextRun \/ ResumeAlarm \/ ResumeStatus
  \/ Patch \/ PatchNextRun \/ PatchAlarm
  \/ Delete \/ DeleteCascade

-----------------------------------------------------------------------------
(* Cron reconciliation and time *)

\* Mutant of IsDue: only a monitor whose slot has no job is considered.
IsDueFresh == status = "active" /\ nextRun = "overdue" /\ slotJob.st = "none"

\* listMonitorsDue
IsDue == status = "active" /\ nextRun = "overdue"

ReconcileRead ==
  /\ IsDue
  /\ ~due
  /\ due' = TRUE
  /\ UNCHANGED <<status, nextRun, slotJob, ownJob, orphan, alarm, check, admin,
                 streak, ownStreak, needsResume, resumed, crashes, throws, checkedOnce>>

\* scheduleMonitor with the next_run_at that was read: an alarm in the past
ReconcileSchedule ==
  /\ due
  /\ due' = FALSE
  /\ alarm' = TRUE
  /\ UNCHANGED <<status, nextRun, slotJob, ownJob, orphan, check, admin, streak,
                 ownStreak, needsResume, resumed, crashes, throws, checkedOnce>>

TimePasses ==
  /\ nextRun = "ahead"
  /\ nextRun' = "overdue"
  /\ UNCHANGED <<status, slotJob, ownJob, orphan, alarm, check, admin, due,
                 streak, ownStreak, needsResume, resumed, crashes, throws, checkedOnce>>

Next ==
  \/ Alarm \/ RunNow \/ CheckStep
  \/ Throw \/ Crash \/ RequestFails
  \/ AdminStep
  \/ ReconcileRead \/ ReconcileSchedule \/ TimePasses
  \/ \E v \in Verdicts : NeighbourEvaluates(v)

Spec == Init /\ [][Next]_vars

\* Time passes, cron fires every five minutes, a set alarm fires, calls return
\* or throw.  A refused lease is asked for again, and a HostObject that is
\* asked again and again grants (NeverLockedOut of HostLimiter).
Fairness ==
  /\ WF_vars(Alarm) /\ WF_vars(CheckStep) /\ SF_vars(LeaseGranted)
  /\ WF_vars(TimePasses) /\ WF_vars(ReconcileRead) /\ WF_vars(ReconcileSchedule)

FairSpec == Spec /\ Fairness

-----------------------------------------------------------------------------
(* Properties *)

JobType == [st : {"none", "pending", "running"} \cup Terminal, fetched : BOOLEAN]

\* The rows, the check in flight and the request in progress are well formed;
\* the row of the check in flight is the one its progress calls for.
TypeOK ==
  /\ status \in {"active", "paused", "blocked_by_robots", "deleted"}
  /\ nextRun \in {"null", "ahead", "overdue"}
  /\ slotJob \in JobType /\ ownJob \in JobType
  /\ orphan \subseteq {"pending", "running"}
  /\ alarm \in BOOLEAN /\ due \in BOOLEAN /\ checkedOnce \in BOOLEAN
  /\ check.pc \in {"idle", "load", "claim", "mark", "prepare", "stop_job",
                   "stop_monitor", "lease", "defer", "snapshot", "fetch",
                   "finish", "finish_last", "finish_next", "reject", "apply"}
  /\ check.job = "slot" => nextRun # "null"
  /\ nextRun = "null" => slotJob = NoJob
  /\ check.pc = "idle" => ownJob = NoJob

\* The idempotency key of check_jobs works: the page of one scheduled slot is
\* fetched at most once, whatever alarms are repeated by the runtime, set again
\* by the reconciliation, by resume and PATCH, or cut short by a crash.
SlotFetchedOnce ==
  [][(check.pc # "fetch" /\ check'.pc = "fetch") => ~Job.fetched]_vars

\* No page is fetched for a monitor that robots.txt has stopped, although the
\* status is only read at the start of a check.
BlockedNotFetched == check.pc = "fetch" => status # "blocked_by_robots"

\* Without failures, every job that is running is being worked on.  A comment
\* in runMonitorCheck promises it for exceptions too.
RunningJobHasCheck ==
  /\ slotJob.st = "running" => check.pc # "idle" /\ check.job = "slot"
  /\ "running" \notin orphan

Active == status = "active" /\ nextRun # "null"
Completed == check.pc = "apply" /\ check.result \in {"succeeded", "failed"}

\* A scheduled active monitor is checked again and again: an alarm that is
\* lost, consumed while a manual check runs, or overwritten is made up for by
\* the reconciliation.
ActiveIsChecked == Active ~> (~Active \/ Completed)

\* The comment on the fetch: once the lease is granted it is released, whatever
\* exception follows.
LeaseReleased ==
  [][(check.pc # "idle" /\ check'.pc = "idle") => ~check.leased]_vars

\* The comment on skipForStatus: only resume() lifts a policy stop.
BlockedNeedsResume == check.pc = "fetch" => ~needsResume

\* The comment on the deferral: the next attempt finds the same job and
\* continues it, so no job stays pending with nobody to look it up.
DeferredJobContinued == "pending" \notin orphan

\* MonitorObject: resume sets the alarm again and brings the D1 status in line.
\* When it has returned, an active monitor has a next run.
ResumeSchedules ==
  (resumed /\ admin = NoAdmin /\ check.pc = "idle" /\ status = "active")
     => nextRun # "null"

\* ADR-0017: a monitor is stopped for an unavailable robots.txt only when it
\* has failed to read it in StopThreshold checks in a row.
StopAfterOwnFailures ==
  [][(check.pc = "prepare" /\ check'.pc = "stop_job" /\ streak' > 0)
        => ownStreak' >= StopThreshold]_vars
=============================================================================
