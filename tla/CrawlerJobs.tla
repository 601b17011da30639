---------------------------- MODULE CrawlerJobs -----------------------------
(***************************************************************************)
(* The CrawlerObject of one executor: jobs that checks submit and wait     *)
(* for, runners that lease them by long-polling and send results, timers   *)
(* and alarms that expire them.                                            *)
(*                                                                         *)
(* What lies in the object's SQLite storage (row, seen, the alarm) survives*)
(* a reset; waiters, timers and the calls in progress are in memory and do *)
(* not.  The awaits inside submitAndWait and lease (a D1 query, SHA-256,   *)
(* the long poll) are interleaving points, everything else is atomic.      *)
(* Messages to and from a runner may be lost, results are sent again.      *)
(*                                                                         *)
(* Time appears as deadlines that pass (late) and runners not heard of for *)
(* RUNNER_ALIVE_WINDOW_MS (stale).  Left out: statistics, the version and  *)
(* capacity a runner reports, and the purge of more than 32 runners.       *)
(***************************************************************************)
EXTENDS Integers, FiniteSets

CONSTANTS
  Job,          \* jobs: one per submitAndWait, with a random identifier
  Runner,
  NoRunner,
  MaxLease,     \* free slots a runner asks for
  MaxResets     \* bound: resets of the Durable Object

ASSUME JobAssumption == IsFiniteSet(Job) /\ NoRunner \notin Runner
ASSUME BoundAssumption == MaxLease \in Nat \ {0} /\ MaxResets \in Nat

VARIABLES
  row,          \* jobs: state, runner_id and token_hash (0 is null)
  late,         \* the queue_deadline or lease_deadline of the row has passed
  seen,         \* runners: "live" within the alive window, "stale" or "offline"
  alarmFor,     \* the rows whose next deadline is not before the alarm
  maintenance,  \* D1: executors.status = 'maintenance'
  waiter,       \* memory: the submitAndWait promises not resolved
  timer,        \* memory: queueTimers and resultTimers
  call,         \* memory: the lease call of each runner
  caller,       \* the check that waits: its progress and answer
  run,          \* the runner's copy of a leased job
  leases,       \* history: how often each job was leased
  given,        \* history: how often a lease response reached a runner
  resets

stored == <<row, late, seen, alarmFor, maintenance>>
vars == <<row, late, seen, alarmFor, maintenance, waiter, timer, call, caller,
          run, leases, given, resets>>

NoRow == [state |-> "none", runner |-> NoRunner, token |-> 0]
NoCall == [pc |-> "idle", jobs |-> {}]
NoRun == [st |-> "none", token |-> 0]

Open == {j \in Job : row[j].state \in {"queued", "leased"}}
Terminal == {"completed", "expired"}
Answered == {"result", "unavailable"}

Init ==
  /\ row = [j \in Job |-> NoRow]
  /\ late = [j \in Job |-> FALSE]
  /\ seen = [r \in Runner |-> "stale"]
  /\ alarmFor = {}
  /\ maintenance = FALSE
  /\ waiter = [j \in Job |-> FALSE]
  /\ timer = [j \in Job |-> "none"]
  /\ call = [r \in Runner |-> NoCall]
  /\ caller = [j \in Job |-> "idle"]
  /\ run = [j \in Job |-> NoRun]
  /\ leases = [j \in Job |-> 0]
  /\ given = [j \in Job |-> 0]
  /\ resets = 0

-----------------------------------------------------------------------------
(* Helpers shared by the handlers *)

\* Mutant of ScheduleAlarm: the minimum is taken over the queued rows only.
ScheduleAlarmQueued == alarmFor' = {j \in Job : row'[j].state = "queued"}

\* scheduleAlarm: the earliest deadline of all rows, and so before each.
ScheduleAlarm ==
  alarmFor' = {j \in Job : row'[j].state \in {"queued", "leased"} \cup Terminal}

\* clearTimers and resolveWaiter for the jobs S with the same kind of outcome
Resolve(S, outcome) ==
  /\ timer' = [j \in Job |-> IF j \in S THEN "none" ELSE timer[j]]
  /\ waiter' = [j \in Job |-> waiter[j] /\ j \notin S]
  /\ caller' = [j \in Job |-> IF j \in S /\ waiter[j] THEN outcome ELSE caller[j]]

\* Mutant of Expire: the waiting check is not told.
ExpireSilently(S) ==
  /\ row' = [j \in Job |-> IF j \in S THEN [row[j] EXCEPT !.state = "expired"] ELSE row[j]]
  /\ late' = [j \in Job |-> late[j] /\ j \notin S]
  /\ seen' = [r \in Runner |->
                IF \E j \in S : row[j].state = "leased" /\ row[j].runner = r
                THEN "offline" ELSE seen[r]]
  /\ timer' = [j \in Job |-> IF j \in S THEN "none" ELSE timer[j]]
  /\ UNCHANGED <<waiter, caller>>

\* expireJob for each of the open jobs S: whose lease has expired is offline.
Expire(S) ==
  /\ row' = [j \in Job |-> IF j \in S THEN [row[j] EXCEPT !.state = "expired"] ELSE row[j]]
  /\ late' = [j \in Job |-> late[j] /\ j \notin S]
  /\ seen' = [r \in Runner |->
                IF \E j \in S : row[j].state = "leased" /\ row[j].runner = r
                THEN "offline" ELSE seen[r]]
  /\ Resolve(S, "unavailable")

-----------------------------------------------------------------------------
(* submitAndWait *)

Submit(j) ==
  /\ caller[j] = "idle"
  /\ caller' = [caller EXCEPT ![j] = "checking"]
  /\ UNCHANGED <<stored, waiter, timer, call, run, leases, given, resets>>

\* isMaintenance answers yes or throws, or no runner is alive: no row is made.
SubmitRefused(j) ==
  /\ caller[j] = "checking"
  /\ caller' = [caller EXCEPT ![j] = "unavailable"]
  /\ UNCHANGED <<stored, waiter, timer, call, run, leases, given, resets>>

\* wakeLeasers: every long poll tries to claim again.
Woken == [r \in Runner |-> IF call[r].pc = "polling"
                           THEN [call[r] EXCEPT !.pc = "claim"] ELSE call[r]]

SubmitAccepted(j) ==
  /\ caller[j] = "checking"
  /\ ~maintenance
  /\ \E r \in Runner : seen[r] = "live"
  /\ row' = [row EXCEPT ![j] = [NoRow EXCEPT !.state = "queued"]]
  /\ late' = [late EXCEPT ![j] = FALSE]
  /\ waiter' = [waiter EXCEPT ![j] = TRUE]
  /\ timer' = [timer EXCEPT ![j] = "queue"]
  /\ caller' = [caller EXCEPT ![j] = "waiting"]
  /\ ScheduleAlarm
  /\ call' = Woken
  /\ UNCHANGED <<seen, maintenance, run, leases, given, resets>>

-----------------------------------------------------------------------------
(* heartbeat and lease *)

\* touchRunner
Heartbeat(r) ==
  /\ seen' = [seen EXCEPT ![r] = "live"]
  /\ UNCHANGED row
  /\ ScheduleAlarm
  /\ UNCHANGED <<late, maintenance, waiter, timer, call, caller, run, leases,
                 given, resets>>

LeaseCall(r) ==
  /\ call[r].pc = "idle"
  /\ seen' = [seen EXCEPT ![r] = "live"]
  /\ call' = [call EXCEPT ![r].pc = "checking"]
  /\ UNCHANGED <<row, late, alarmFor, maintenance, waiter, timer, caller, run,
                 leases, given, resets>>

\* The only look at maintenance, before the long poll begins; D1 may fail.
LeaseChecked(r) ==
  /\ call[r].pc = "checking"
  /\ \E pc \in {"idle"} \cup (IF maintenance THEN {} ELSE {"claim"}) :
       call' = [call EXCEPT ![r].pc = pc]
  /\ UNCHANGED <<stored, waiter, timer, caller, run, leases, given, resets>>

\* Mutant of Claimable: leased jobs whose deadline has passed are leased again.
ClaimableAgain ==
  {j \in Job : waiter[j] /\ (row[j].state = "queued" \/ (row[j].state = "leased" /\ late[j]))}

\* Queued jobs that somebody waits for
Claimable == {j \in Job : row[j].state = "queued" /\ waiter[j]}

\* claim, up to the computation of the token hashes: as many as asked for
Claim(r) ==
  /\ call[r].pc = "claim"
  /\ \E S \in SUBSET Claimable :
       /\ S # {}
       /\ \/ Cardinality(S) = MaxLease
          \/ S = Claimable /\ Cardinality(S) < MaxLease
       /\ row' = [j \in Job |-> IF j \in S THEN [row[j] EXCEPT !.state = "leased",
                                                              !.runner = r] ELSE row[j]]
       /\ late' = [j \in Job |-> late[j] /\ j \notin S]
       /\ timer' = [j \in Job |-> IF j \in S THEN "result" ELSE timer[j]]
       /\ leases' = [j \in Job |-> IF j \in S THEN leases[j] + 1 ELSE leases[j]]
       /\ call' = [call EXCEPT ![r] = [pc |-> "hashing", jobs |-> S]]
  /\ UNCHANGED <<seen, alarmFor, maintenance, waiter, caller, run, given, resets>>

\* Nothing to lease: wait until woken or, at the end of waitMs, return nothing.
ClaimNothing(r) ==
  /\ call[r].pc = "claim"
  /\ Claimable = {}
  /\ call' = [call EXCEPT ![r].pc = "polling"]
  /\ UNCHANGED <<stored, waiter, timer, caller, run, leases, given, resets>>

PollEnds(r) ==
  /\ call[r].pc = "polling"
  /\ call' = [call EXCEPT ![r] = NoCall]
  /\ UNCHANGED <<stored, waiter, timer, caller, run, leases, given, resets>>

\* Mutant of Hashed: the hash is written as an upsert, also for a deleted row.
HashedUpsert(r) ==
  /\ call[r].pc = "hashing"
  /\ row' = [j \in Job |-> IF j \in call[r].jobs
                           THEN [row[j] EXCEPT !.token = leases[j]] ELSE row[j]]
  /\ ScheduleAlarm
  /\ call' = [call EXCEPT ![r].pc = "responding"]
  /\ UNCHANGED <<late, seen, maintenance, waiter, timer, caller, run, leases, given,
                 resets>>

\* The token hashes are stored, whatever has become of the rows.
Hashed(r) ==
  /\ call[r].pc = "hashing"
  /\ row' = [j \in Job |-> IF j \in call[r].jobs /\ row[j].state # "none"
                           THEN [row[j] EXCEPT !.token = leases[j]] ELSE row[j]]
  /\ ScheduleAlarm
  /\ call' = [call EXCEPT ![r].pc = "responding"]
  /\ UNCHANGED <<late, seen, maintenance, waiter, timer, caller, run, leases, given,
                 resets>>

\* The runner gets the response and dispatches the jobs ...
Responded(r) ==
  /\ call[r].pc = "responding"
  /\ run' = [j \in Job |-> IF j \in call[r].jobs
                           THEN [st |-> "fetching", token |-> leases[j]]
                           ELSE run[j]]
  /\ given' = [j \in Job |-> IF j \in call[r].jobs THEN given[j] + 1 ELSE given[j]]
  /\ call' = [call EXCEPT ![r] = NoCall]
  /\ UNCHANGED <<stored, waiter, timer, caller, leases, resets>>

\* ... or it never does: it is gone, or the connection is.
ResponseLost(r) ==
  /\ call[r].pc = "responding"
  /\ call' = [call EXCEPT ![r] = NoCall]
  /\ UNCHANGED <<stored, waiter, timer, caller, run, leases, given, resets>>

-----------------------------------------------------------------------------
(* The runner, and complete *)

\* execute skips a job too close to its deadline, else fetches it; the body may
\* turn out larger than the job allows.
Fetched(j) ==
  /\ run[j].st = "fetching"
  /\ \E s \in {"sending", "sending_large", "done"} : run' = [run EXCEPT ![j].st = s]
  /\ UNCHANGED <<stored, waiter, timer, call, caller, leases, given, resets>>

\* The runner is gone, or sendResult has given up.
RunLost(j) ==
  /\ run[j].st \in {"fetching", "sending", "sending_large"}
  /\ run' = [run EXCEPT ![j].st = "done"]
  /\ UNCHANGED <<stored, waiter, timer, call, caller, leases, given, resets>>

\* Mutant of Acceptable: the state of the job is not looked at.
AcceptableAnyState(j) ==
  run[j].st = "sending" /\ run[j].token = row[j].token

\* complete accepts: the token is the row's, the job leased, the body not too large.
Acceptable(j) ==
  /\ run[j].st = "sending"
  /\ run[j].token = row[j].token
  /\ row[j].state = "leased"

Sending(j) == run[j].st \in {"sending", "sending_large"}

\* The reply may be lost, then sendResult tries again, a limited number of times.
Replied(j) == \E s \in {run[j].st, "done"} : run' = [run EXCEPT ![j].st = s]

CompleteAccepted(j) ==
  /\ Acceptable(j)
  /\ row' = [row EXCEPT ![j].state = "completed"]
  /\ late' = [late EXCEPT ![j] = FALSE]
  /\ Resolve({j}, "result")
  /\ ScheduleAlarm
  /\ Replied(j)
  /\ UNCHANGED <<seen, maintenance, call, leases, given, resets>>

\* duplicate, lease_mismatch, lease_expired, too_large, not_found: nothing but
\* the statistics changes.
CompleteRejected(j) ==
  /\ Sending(j)
  /\ ~Acceptable(j)
  /\ Replied(j)
  /\ UNCHANGED <<stored, waiter, timer, call, caller, leases, given, resets>>

-----------------------------------------------------------------------------
(* Time, the alarm, maintenance and resets *)

DeadlinePasses(j) ==
  /\ j \in Open
  /\ ~late[j]
  /\ late' = [late EXCEPT ![j] = TRUE]
  /\ UNCHANGED <<row, seen, alarmFor, maintenance, waiter, timer, call, caller, run,
                 leases, given, resets>>

RunnerGoesStale(r) ==
  /\ seen[r] = "live"
  /\ seen' = [seen EXCEPT ![r] = "stale"]
  /\ UNCHANGED <<row, late, alarmFor, maintenance, waiter, timer, call, caller, run,
                 leases, given, resets>>

\* The stage of expireJob a timer was set for
TimerState(t) == IF t = "queue" THEN "queued" ELSE "leased"

TimerFires(j) ==
  /\ timer[j] # "none"
  /\ late[j]
  /\ row[j].state = TimerState(timer[j])
  /\ Expire({j})
  /\ ScheduleAlarm
  /\ UNCHANGED <<maintenance, call, run, leases, given, resets>>

\* alarm(): every late row is expired, ...
AlarmExpires ==
  /\ alarmFor # {}
  /\ \E j \in Open : late[j]
  /\ Expire({j \in Open : late[j]})
  /\ ScheduleAlarm
  /\ UNCHANGED <<maintenance, call, run, leases, given, resets>>

\* ... and a row whose retention has run out is deleted.
AlarmDeletes(j) ==
  /\ j \in alarmFor
  /\ row[j].state \in Terminal
  /\ row' = [row EXCEPT ![j] = NoRow]
  /\ ScheduleAlarm
  /\ UNCHANGED <<late, seen, maintenance, waiter, timer, call, caller, run, leases,
                 given, resets>>

SetMaintenance ==
  /\ maintenance' = ~maintenance
  /\ UNCHANGED <<row, late, seen, alarmFor, waiter, timer, call, caller, run, leases,
                 given, resets>>

\* The object is evicted or redeployed: the checks that wait get an error from
\* the RPC, which is executor_unavailable; the runners' lease calls fail.
Reset ==
  /\ resets < MaxResets
  /\ resets' = resets + 1
  /\ waiter' = [j \in Job |-> FALSE]
  /\ timer' = [j \in Job |-> "none"]
  /\ call' = [r \in Runner |-> NoCall]
  /\ caller' = [j \in Job |-> IF caller[j] \in {"checking", "waiting"}
                              THEN "unavailable" ELSE caller[j]]
  /\ UNCHANGED <<stored, run, leases, given>>

JobStep(j) ==
  \/ Submit(j) \/ SubmitRefused(j) \/ SubmitAccepted(j)
  \/ Fetched(j) \/ RunLost(j) \/ CompleteAccepted(j) \/ CompleteRejected(j)
  \/ DeadlinePasses(j) \/ TimerFires(j) \/ AlarmDeletes(j)

RunnerStep(r) ==
  \/ Heartbeat(r) \/ LeaseCall(r) \/ LeaseChecked(r)
  \/ Claim(r) \/ ClaimNothing(r) \/ PollEnds(r)
  \/ Hashed(r) \/ Responded(r) \/ ResponseLost(r)
  \/ RunnerGoesStale(r)

Next ==
  \/ \E j \in Job : JobStep(j)
  \/ \E r \in Runner : RunnerStep(r)
  \/ AlarmExpires
  \/ SetMaintenance
  \/ Reset

Spec == Init /\ [][Next]_vars

\* D1 answers, deadlines pass, timers and the alarm fire.  Of the runners
\* nothing is assumed.
Fairness ==
  /\ \A j \in Job : /\ WF_vars(SubmitRefused(j) \/ SubmitAccepted(j))
                    /\ WF_vars(DeadlinePasses(j))
                    /\ WF_vars(TimerFires(j))
  /\ WF_vars(AlarmExpires)

FairSpec == Spec /\ Fairness

-----------------------------------------------------------------------------
(* Properties *)

\* Storage and memory are well formed; a row that is deleted, not yet inserted or
\* still queued knows neither runner nor token, as late as a hash may be written.
TypeOK ==
  /\ row \in [Job -> [state : {"none", "queued", "leased"} \cup Terminal,
                      runner : Runner \cup {NoRunner}, token : Nat]]
  /\ \A j \in Job : row[j].state \in {"none", "queued"} =>
                     row[j] = [NoRow EXCEPT !.state = row[j].state]
  /\ late \in [Job -> BOOLEAN]
  /\ seen \in [Runner -> {"live", "stale", "offline"}]
  /\ alarmFor \subseteq Job /\ maintenance \in BOOLEAN
  /\ waiter \in [Job -> BOOLEAN]
  /\ timer \in [Job -> {"none", "queue", "result"}]
  /\ call \in [Runner -> [pc : {"idle", "checking", "claim", "polling", "hashing",
                                "responding"}, jobs : SUBSET Job]]
  /\ caller \in [Job -> {"idle", "checking", "waiting"} \cup Answered]
  /\ run \in [Job -> [st : {"none", "fetching", "sending", "sending_large", "done"},
                      token : Nat]]
  /\ leases \in [Job -> Nat] /\ given \in [Job -> Nat] /\ resets \in 0..MaxResets

\* Memory agrees with storage: who waits has an open row and the timer of the
\* row's stage, so the wait ends; no waiter and no timer outlives the row.
WaitersAreTimed ==
  \A j \in Job :
    /\ waiter[j] <=> timer[j] # "none"
    /\ waiter[j] <=> caller[j] = "waiting"
    /\ timer[j] # "none" => row[j].state = TimerState(timer[j])

\* A reset strands no job: the alarm, which survives it, covers every open row,
\* also while claim is computing the token hashes.
AlarmCoversOpenJobs == Open \subseteq alarmFor

\* A job is leased at most once, also after its lease response was lost, its
\* deadline has passed or the object was reset.
LeasedOnce == \A j \in Job : leases[j] <= 1

\* A result never replaces an expiry, an answer is never changed.
AnswersAreFinal ==
  [][\A j \in Job :
        /\ row[j].state = "expired" => row'[j].state \in {"expired", "none"}
        /\ caller[j] \in Answered => caller'[j] = caller[j]]_vars

\* Every check that asks is answered, whatever the runners and resets do.
EveryCallReturns == \A j \in Job : (caller[j] = "checking") ~> (caller[j] \in Answered)

\* Every row is closed in the end, also one whose timer was lost in a reset.
EveryJobCloses == \A j \in Job : (j \in Open) ~> (j \notin Open)

\* The CrawlerObject implements RemoteFetch.
Abstract == INSTANCE RemoteFetch WITH
  asked <- {j \in Job : caller[j] # "idle"},
  given <- given,
  answer <- [j \in Job |-> IF caller[j] \in Answered THEN caller[j] ELSE "none"]

FetchesAtMostOnce == Abstract!Spec
=============================================================================
