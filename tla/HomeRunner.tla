---------------------------- MODULE HomeRunner -----------------------------
(***************************************************************************)
(* The process of one home runner: a loop of heartbeats, a loop of lease   *)
(* requests, the jobs in flight, and an orderly stop on a signal.  All of  *)
(* it is one Node.js thread: what runs between two awaits is one step.     *)
(*                                                                         *)
(* The Worker answers every request in any way the client tells apart, or  *)
(* not at all.  Every wait has a timeout, so that it ends; how long it is, *)
(* the growth of the pauses after failures, and logging are left out.      *)
(***************************************************************************)
EXTENDS Integers, FiniteSets

CONSTANTS
  Job,           \* jobs the Worker may hand out, each of them once
  Concurrency,   \* config.concurrency
  Retries        \* resends of a result: the length of resultRetryDelaysMs

ASSUME RunnerAssumption ==
  IsFiniteSet(Job) /\ Concurrency \in Nat \ {0} /\ Retries \in Nat

VARIABLES
  beat,          \* heartbeatLoop: "call", "pause" or "ended"
  first,         \* firstHeartbeat is resolved
  maintenance,
  loop,          \* leaseLoop: "first", "ready", "call", "slot", "backoff" or "ended"
  free,          \* the free slots the pending lease request has counted
  job,           \* "none", "fetch", "send", "settled" or "gone"
  sends,         \* attempts to send the result of each job
  inflight,      \* keys of the map inflight
  stopping,
  stop           \* stop(): "no", "loops", "jobs", "drained" or "timeout"

runnerVars == <<beat, first, maintenance, loop, free, job, sends, inflight, stopping, stop>>

Running == stop \notin {"drained", "timeout"}   \* main calls process.exit afterwards

\* start
RunnerInit ==
  /\ beat = "call" /\ first = FALSE /\ maintenance = FALSE
  /\ loop = "first" /\ free = 0
  /\ job = [j \in Job |-> "none"] /\ sends = [j \in Job |-> 0] /\ inflight = {}
  /\ stopping = FALSE /\ stop = "no"

-----------------------------------------------------------------------------
(* heartbeatLoop *)

\* wakeLeaseLoop
Woken(l) == IF l = "slot" THEN "ready" ELSE l

HeartbeatAnswered(m) ==
  /\ Running /\ beat = "call"
  /\ maintenance' = m
  /\ loop' = IF m THEN loop ELSE Woken(loop)
  /\ beat' = "pause" /\ first' = TRUE
  /\ UNCHANGED <<free, job, sends, inflight, stopping, stop>>

\* Mutant of HeartbeatFailed: the first attempt counts only if it succeeds.
HeartbeatFailedSilently ==
  /\ Running /\ beat = "call"
  /\ beat' = "pause"
  /\ UNCHANGED <<first, maintenance, loop, free, job, sends, inflight, stopping, stop>>

\* A network error, a status that is not 200, or an answer of another form.
HeartbeatFailed ==
  /\ Running /\ beat = "call"
  /\ beat' = "pause" /\ first' = TRUE
  /\ UNCHANGED <<maintenance, loop, free, job, sends, inflight, stopping, stop>>

\* The pause ends, by itself or woken by stop.
NextHeartbeat ==
  /\ Running /\ beat = "pause"
  /\ beat' = IF stopping THEN "ended" ELSE "call"
  /\ UNCHANGED <<first, maintenance, loop, free, job, sends, inflight, stopping, stop>>

-----------------------------------------------------------------------------
(* leaseLoop *)

\* Mutant of FreeSlots: the jobs in flight are not counted.
FreeSlotsOfAll == Concurrency

FreeSlots == Concurrency - Cardinality(inflight)

LeaseLoopStarts ==
  /\ Running /\ loop = "first" /\ first
  /\ loop' = "ready"
  /\ UNCHANGED <<beat, first, maintenance, free, job, sends, inflight, stopping, stop>>

AskForLease ==
  /\ Running /\ loop = "ready"
  /\ loop' = IF stopping THEN "ended"
             ELSE IF FreeSlots <= 0 \/ maintenance THEN "slot" ELSE "call"
  /\ free' = IF loop' = "call" THEN FreeSlots ELSE 0
  /\ UNCHANGED <<beat, first, maintenance, job, sends, inflight, stopping, stop>>

\* pause: the time is over, without a wake-up
PauseEnds ==
  /\ Running /\ loop \in {"slot", "backoff"}
  /\ loop' = "ready"
  /\ UNCHANGED <<beat, first, maintenance, free, job, sends, inflight, stopping, stop>>

\* The Worker hands out the jobs S.  Of more than was asked for, the rest is
\* dropped: its leases will expire.  A job of another mode, or one whose lease
\* is about to expire, is over before anything is fetched.  The reply may have
\* been read before stop could abort the request.
LeaseAnswered ==
  /\ Running /\ loop = "call"
  /\ loop' = "ready" /\ free' = 0
  /\ \E S \in SUBSET {j \in Job : job[j] = "none"} : \E taken, skipped \in SUBSET S :
       /\ skipped \subseteq taken
       /\ Cardinality(taken) = (IF Cardinality(S) > free THEN free ELSE Cardinality(S))
       /\ inflight' = inflight \cup taken
       /\ job' = [j \in Job |-> IF j \in skipped THEN "settled"
                                ELSE IF j \in taken THEN "fetch"
                                ELSE IF j \in S THEN "gone" ELSE job[j]]
  /\ UNCHANGED <<beat, first, maintenance, sends, stopping, stop>>

\* The request fails, or is aborted by stop; jobs it had been given are lost.
LeaseFailed ==
  /\ Running /\ loop = "call"
  /\ loop' = IF stopping THEN "ended" ELSE "backoff"
  /\ free' = 0
  /\ \E S \in SUBSET {j \in Job : job[j] = "none"} :
       job' = [j \in Job |-> IF j \in S THEN "gone" ELSE job[j]]
  /\ UNCHANGED <<beat, first, maintenance, sends, inflight, stopping, stop>>

-----------------------------------------------------------------------------
(* execute *)

\* A response or a failure, within fetchTimeoutMs and the lease
Fetched(j) ==
  /\ Running /\ job[j] = "fetch"
  /\ job' = [job EXCEPT ![j] = "send"]
  /\ sends' = [sends EXCEPT ![j] = 1]
  /\ UNCHANGED <<beat, first, maintenance, loop, free, inflight, stopping, stop>>

\* 200, 404, 409, 413 and every other status below 500
ResultAnswered(j) ==
  /\ Running /\ job[j] = "send"
  /\ job' = [job EXCEPT ![j] = "settled"]
  /\ UNCHANGED <<beat, first, maintenance, loop, free, sends, inflight, stopping, stop>>

\* Mutant of ResultFailed: the result is sent again without end.
ResultFailedForever(j) ==
  /\ Running /\ job[j] = "send"
  /\ sends' = [sends EXCEPT ![j] = IF @ > Retries THEN 1 ELSE @ + 1]
  /\ UNCHANGED <<beat, first, maintenance, loop, free, job, inflight, stopping, stop>>

\* 5xx or a network error: sent again after a delay, then given up
ResultFailed(j) ==
  /\ Running /\ job[j] = "send"
  /\ IF sends[j] > Retries
     THEN job' = [job EXCEPT ![j] = "settled"] /\ UNCHANGED sends
     ELSE sends' = [sends EXCEPT ![j] = @ + 1] /\ UNCHANGED job
  /\ UNCHANGED <<beat, first, maintenance, loop, free, inflight, stopping, stop>>

\* finally
JobEnds(j) ==
  /\ Running /\ job[j] = "settled"
  /\ job' = [job EXCEPT ![j] = "gone"]
  /\ inflight' = inflight \ {j}
  /\ loop' = Woken(loop)
  /\ UNCHANGED <<beat, first, maintenance, free, sends, stopping, stop>>

-----------------------------------------------------------------------------
(* stop *)

Stop ==
  /\ stop = "no"
  /\ stopping' = TRUE /\ stop' = "loops"
  /\ loop' = IF loop = "backoff" THEN "ready" ELSE Woken(loop)
  /\ UNCHANGED <<beat, first, maintenance, free, job, sends, inflight>>

\* Mutant of LoopsEnded: the lease loop is not waited for.
LoopsEndedEarly ==
  /\ stop = "loops" /\ beat = "ended"
  /\ stop' = "jobs"
  /\ UNCHANGED <<beat, first, maintenance, loop, free, job, sends, inflight, stopping>>

\* Promise.allSettled(loops)
LoopsEnded ==
  /\ stop = "loops" /\ beat = "ended" /\ loop = "ended"
  /\ stop' = "jobs"
  /\ UNCHANGED <<beat, first, maintenance, loop, free, job, sends, inflight, stopping>>

Drained ==
  /\ stop = "jobs" /\ inflight = {}
  /\ stop' = "drained"
  /\ UNCHANGED <<beat, first, maintenance, loop, free, job, sends, inflight, stopping>>

GraceExceeded ==
  /\ stop \in {"loops", "jobs"}
  /\ stop' = "timeout"
  /\ UNCHANGED <<beat, first, maintenance, loop, free, job, sends, inflight, stopping>>

RunnerNext ==
  \/ \E m \in BOOLEAN : HeartbeatAnswered(m)
  \/ HeartbeatFailed \/ NextHeartbeat
  \/ LeaseLoopStarts \/ AskForLease \/ PauseEnds \/ LeaseAnswered \/ LeaseFailed
  \/ \E j \in Job : Fetched(j) \/ ResultAnswered(j) \/ ResultFailed(j) \/ JobEnds(j)
  \/ Stop \/ LoopsEnded \/ Drained \/ GraceExceeded

\* Timers fire, requests time out and promises that are settled are resumed.
\* Nothing is assumed of what the Worker answers.
RunnerFairness ==
  /\ WF_runnerVars(HeartbeatFailed \/ \E m \in BOOLEAN : HeartbeatAnswered(m))
  /\ WF_runnerVars(NextHeartbeat)
  /\ WF_runnerVars(LeaseLoopStarts) /\ WF_runnerVars(AskForLease) /\ WF_runnerVars(PauseEnds)
  /\ WF_runnerVars(LeaseAnswered \/ LeaseFailed)
  /\ \A j \in Job :
       /\ WF_runnerVars(Fetched(j))
       /\ WF_runnerVars(ResultAnswered(j) \/ ResultFailed(j))
       /\ WF_runnerVars(JobEnds(j))

RunnerSpec == RunnerInit /\ [][RunnerNext]_runnerVars

RunnerFairSpec == RunnerSpec /\ RunnerFairness

-----------------------------------------------------------------------------
(* Properties *)

Executing == {j \in Job : job[j] \in {"fetch", "send"}}

\* config.concurrency bounds what is executed at once, whatever number of
\* jobs the Worker returns and whenever the slots become free.
WithinConcurrency == Cardinality(Executing) <= Concurrency

\* stop says it has drained the runner only when nothing is left: no job whose
\* result is still to be sent, and no loop that could take another one.
DrainedIsIdle == stop = "drained" => Executing = {} /\ beat = "ended" /\ loop = "ended"

\* A slot comes back however the delivery of the result fails, unless the
\* process ends before.
EveryJobEnds == \A j \in Job : j \in inflight ~> (j \notin inflight \/ ~Running)

\* The runner asks for work again and again, also when no heartbeat is ever
\* answered, as long as it is neither in maintenance nor told to stop.
KeepsAsking == []<>(loop = "call" \/ maintenance \/ stopping)
=============================================================================
