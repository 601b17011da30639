-------------------------- MODULE NotifyDelivery ---------------------------
(***************************************************************************)
(* One notification: the delivery of one Change to one destination.        *)
(*                                                                         *)
(* A check inserts the row of deliveries and sends its id to NOTIFY_QUEUE  *)
(* (fanoutChange).  The queue hands the message, and possibly copies of    *)
(* it, to consumers (processNotifyBatch), which claim the row, POST to the *)
(* Discord webhook and record the outcome.  Each D1 statement and the POST *)
(* is a step of its own; a consumer may die, or a call throw, in between.  *)
(*                                                                         *)
(* Different deliveries share no row, so one is modelled.  Of claimed_at   *)
(* only its age counts: "stale" is older than CLAIM_STALE_MS.              *)
(***************************************************************************)
EXTENDS Integers, FiniteSets

CONSTANTS
  Message,         \* the message fanoutChange sends, and its redelivered copies
  First,           \* the message fanoutChange sends
  MaxAttempts,     \* DEFAULT_MAX_ATTEMPTS
  MaxRetries,      \* max_retries of the queue (no dead letter queue)
  Outcomes,        \* what the POST may come to
  SlowPost,        \* TRUE if a POST may take longer than CLAIM_STALE_MS
  MaxLosses,       \* bound: consumers that die or calls that throw
  MaxFanoutCrashes \* bound: checks that die between the insert and the send

ASSUME MessageAssumption == IsFiniteSet(Message) /\ First \in Message
ASSUME LimitAssumption ==
  /\ MaxAttempts \in Nat \ {0} /\ MaxRetries \in Nat
  /\ MaxLosses \in Nat /\ MaxFanoutCrashes \in Nat
ASSUME OutcomeAssumption ==
  /\ Outcomes \subseteq {"ok", "rate_limited", "permanent", "retryable"}
  /\ SlowPost \in BOOLEAN

VARIABLES
  row,        \* deliveries.status ("none": not inserted, "deleted": removed)
  attempts,   \* deliveries.attempt_count
  stale,      \* claimed_at is older than CLAIM_STALE_MS
  archived,   \* destinations.archived_at is not null
  fanout,     \* fanoutChange of the check in flight
  msg,        \* where each copy of the message is
  result,     \* the outcome of the POST a copy's consumer has made
  tries,      \* how often the queue has retried each copy
  accepted,   \* history: POSTs that Discord accepted
  missed,     \* history: those of them the Worker has not heard of or not recorded
  posts,      \* history: POSTs made
  losses, fanoutCrashes

vars == <<row, attempts, stale, archived, fanout, msg, result, tries, accepted,
          missed, posts, losses, fanoutCrashes>>

Settled == {"delivered", "dead"}

\* Consumers that have claimed the row and not yet recorded an outcome
Working == {m \in Message : msg[m] \in {"load", "post", "mark"}}

Init ==
  /\ row = "none"
  /\ attempts = 0
  /\ stale = FALSE
  /\ archived = FALSE
  /\ fanout = "idle"
  /\ msg = [m \in Message |-> "none"]
  /\ result = [m \in Message |-> "none"]
  /\ tries = [m \in Message |-> 0]
  /\ accepted = 0
  /\ missed = 0
  /\ posts = 0
  /\ losses = 0
  /\ fanoutCrashes = 0

-----------------------------------------------------------------------------
(* fanoutChange *)

\* The check detects the change, or detects it again: insertChangeIfNew returns
\* the same row.  Archiving has removed the subscription.
FanoutStart ==
  /\ fanout = "idle"
  /\ ~archived
  /\ row # "deleted"
  /\ fanout' = "insert"
  /\ UNCHANGED <<row, attempts, stale, archived, msg, result, tries, accepted, missed,
                 posts, losses, fanoutCrashes>>

\* createDeliveryIfNew: only the call that inserts the row sends the message.
FanoutInsert ==
  /\ fanout = "insert"
  /\ IF row = "none" THEN row' = "pending" /\ fanout' = "send"
                     ELSE fanout' = "idle" /\ UNCHANGED row
  /\ UNCHANGED <<attempts, stale, archived, msg, result, tries, accepted, missed, posts,
                 losses, fanoutCrashes>>

\* NOTIFY_QUEUE.send
FanoutSend ==
  /\ fanout = "send"
  /\ fanout' = "idle"
  /\ msg' = [msg EXCEPT ![First] = "queued"]
  /\ UNCHANGED <<row, attempts, stale, archived, result, tries, accepted, missed, posts,
                 losses, fanoutCrashes>>

FanoutCrash ==
  /\ fanoutCrashes < MaxFanoutCrashes
  /\ fanout # "idle"
  /\ fanout' = "idle"
  /\ fanoutCrashes' = fanoutCrashes + 1
  /\ UNCHANGED <<row, attempts, stale, archived, msg, result, tries, accepted, missed,
                 posts, losses>>

-----------------------------------------------------------------------------
(* The queue: at-least-once, at most MaxRetries retries of each message *)

Acked(m) == msg' = [msg EXCEPT ![m] = "gone"] /\ UNCHANGED tries

Retried(m) ==
  IF tries[m] < MaxRetries
  THEN msg' = [msg EXCEPT ![m] = "queued"] /\ tries' = [tries EXCEPT ![m] = @ + 1]
  ELSE msg' = [msg EXCEPT ![m] = "gone"] /\ UNCHANGED tries

Receive(m) ==
  /\ msg[m] = "queued"
  /\ msg' = [msg EXCEPT ![m] = "claim"]
  /\ UNCHANGED <<row, attempts, stale, archived, fanout, result, tries, accepted, missed,
                 posts, losses, fanoutCrashes>>

\* The queue delivers the message once more, besides the copy in flight.
Duplicate(m) ==
  /\ m # First
  /\ msg[m] = "none"
  /\ msg[First] \notin {"none", "gone"}
  /\ msg' = [msg EXCEPT ![m] = "queued"]
  /\ UNCHANGED <<row, attempts, stale, archived, fanout, result, tries, accepted, missed,
                 posts, losses, fanoutCrashes>>

-----------------------------------------------------------------------------
(* processOne *)

\* Mutant of Claimable: a claim in progress is not respected.
ClaimableSending == row \in {"pending", "failed", "sending"}

\* Mutant of Claimable: a row given up is taken up again.
ClaimableDead == row \in {"pending", "failed", "dead"} \/ (row = "sending" /\ stale)

\* The condition of the claiming UPDATE in getPendingDelivery
Claimable == row \in {"pending", "failed"} \/ (row = "sending" /\ stale)

\* A claim that changes no row: delivered, dead, unknown or claimed elsewhere.
\* The message is acknowledged.
Claim(m) ==
  /\ msg[m] = "claim"
  /\ IF Claimable
     THEN /\ row' = "sending"
          /\ stale' = FALSE
          /\ msg' = [msg EXCEPT ![m] = "load"]
          /\ UNCHANGED tries
     ELSE Acked(m) /\ UNCHANGED <<row, stale>>
  /\ UNCHANGED <<attempts, archived, fanout, result, accepted, missed, posts, losses,
                 fanoutCrashes>>

\* markDeliveryFailed and markDeliveryDelivered: by id, whatever the status is
MarkFailed(dead) ==
  IF row = "deleted" THEN UNCHANGED <<row, attempts>>
  ELSE /\ row' = IF dead THEN "dead" ELSE "failed"
       /\ attempts' = attempts + 1

MarkDelivered ==
  /\ row' = IF row = "deleted" THEN row ELSE "delivered"
  /\ UNCHANGED attempts

\* Mutant of Exhausted: the attempts are compared with >.
ExhaustedOffByOne == attempts > MaxAttempts

Exhausted == attempts >= MaxAttempts

\* The SELECT after the claim, and the checks on what it returns
Load(m) ==
  /\ msg[m] = "load"
  /\ \/ row = "deleted" /\ Acked(m) /\ UNCHANGED <<row, attempts>>
     \/ row # "deleted" /\ (archived \/ Exhausted) /\ MarkFailed(TRUE) /\ Acked(m)
     \/ /\ row # "deleted" /\ ~archived /\ ~Exhausted
        /\ msg' = [msg EXCEPT ![m] = "post"]
        /\ UNCHANGED <<row, attempts, tries>>
  /\ UNCHANGED <<stale, archived, fanout, result, accepted, missed, posts, losses,
                 fanoutCrashes>>

\* Whether Discord has accepted the POST.  "retryable" is a 5xx, any other
\* status that is no success, or no answer at all (a network error, status
\* null), and does not tell.
MayBeAccepted(outcome) ==
  CASE outcome = "ok" -> {TRUE}
    [] outcome = "retryable" -> BOOLEAN
    [] outcome \in {"rate_limited", "permanent"} -> {FALSE}

\* sendToDiscord
Post(m, outcome) ==
  /\ msg[m] = "post"
  /\ msg' = [msg EXCEPT ![m] = "mark"]
  /\ result' = [result EXCEPT ![m] = outcome]
  /\ posts' = posts + 1
  /\ \E taken \in MayBeAccepted(outcome) :
       /\ accepted' = IF taken THEN accepted + 1 ELSE accepted
       /\ missed' = IF taken /\ outcome # "ok" THEN missed + 1 ELSE missed
  /\ UNCHANGED <<row, attempts, stale, archived, fanout, tries, losses,
                 fanoutCrashes>>

\* Mutant of Mark: a 429 is retried without counting the attempt.
MarkUncounted(m) ==
  /\ msg[m] = "mark"
  /\ result' = [result EXCEPT ![m] = "none"]
  /\ CASE result[m] = "ok"        -> MarkDelivered /\ Acked(m)
       [] result[m] = "permanent" -> MarkFailed(TRUE) /\ Acked(m)
       [] OTHER -> /\ Retried(m)
                   /\ row' = IF row = "deleted" THEN row ELSE "failed"
                   /\ UNCHANGED attempts
  /\ UNCHANGED <<stale, archived, fanout, accepted, missed, posts, losses, fanoutCrashes>>

\* The outcome is recorded first, then the message acknowledged or retried.
Mark(m) ==
  /\ msg[m] = "mark"
  /\ result' = [result EXCEPT ![m] = "none"]
  /\ CASE result[m] = "ok"        -> MarkDelivered /\ Acked(m)
       [] result[m] = "permanent" -> MarkFailed(TRUE) /\ Acked(m)
       [] OTHER                   -> MarkFailed(FALSE) /\ Retried(m)
  /\ UNCHANGED <<stale, archived, fanout, accepted, missed, posts, losses, fanoutCrashes>>

Consume(m) ==
  \/ Receive(m)
  \/ Claim(m)
  \/ Load(m)
  \/ \E outcome \in Outcomes : Post(m, outcome)
  \/ Mark(m)

\* The consumer dies and the queue retries the message; or a call throws and
\* processNotifyBatch catches it and calls retry().
Lost(m) ==
  /\ losses < MaxLosses
  /\ msg[m] \in {"claim", "load", "post", "mark"}
  /\ losses' = losses + 1
  /\ Retried(m)
  /\ result' = [result EXCEPT ![m] = "none"]
  /\ missed' = IF result[m] = "ok" THEN missed + 1 ELSE missed
  /\ UNCHANGED <<row, attempts, stale, archived, fanout, accepted, posts, fanoutCrashes>>

-----------------------------------------------------------------------------
(* The administrator and time *)

Archive ==
  /\ ~archived
  /\ archived' = TRUE
  /\ UNCHANGED <<row, attempts, stale, fanout, msg, result, tries, accepted, missed,
                 posts, losses, fanoutCrashes>>

\* deleteMonitorCascade removes the change and its deliveries.
DeleteMonitor ==
  /\ row # "deleted"
  /\ row' = "deleted"
  /\ UNCHANGED <<attempts, stale, archived, fanout, msg, result, tries, accepted, missed,
                 posts, losses, fanoutCrashes>>

\* Five minutes have passed since the claim.  A consumer is done well within
\* that time, unless its POST, which has no timeout of its own, is slow.
ClaimGetsStale ==
  /\ row = "sending"
  /\ ~stale
  /\ \A m \in Working : SlowPost /\ msg[m] # "load"
  /\ stale' = TRUE
  /\ UNCHANGED <<row, attempts, archived, fanout, msg, result, tries, accepted, missed,
                 posts, losses, fanoutCrashes>>

Next ==
  \/ FanoutStart \/ FanoutInsert \/ FanoutSend \/ FanoutCrash
  \/ \E m \in Message : Duplicate(m) \/ Consume(m) \/ Lost(m)
  \/ Archive \/ DeleteMonitor \/ ClaimGetsStale

Spec == Init /\ [][Next]_vars

\* The check repeats, the queue delivers, consumers go on, time passes.
Fairness ==
  /\ WF_vars(FanoutStart) /\ WF_vars(FanoutInsert) /\ WF_vars(FanoutSend)
  /\ \A m \in Message : WF_vars(Consume(m))
  /\ WF_vars(ClaimGetsStale)

FairSpec == Spec /\ Fairness

-----------------------------------------------------------------------------
(* Properties *)

\* The row, the copies of the message and the consumers are well formed.  A row
\* is only given up or counted up to one step beyond MaxAttempts.
TypeOK ==
  /\ row \in {"none", "pending", "sending", "failed", "deleted"} \cup Settled
  /\ attempts \in 0..(MaxAttempts + 1)
  /\ stale \in BOOLEAN /\ archived \in BOOLEAN
  /\ fanout \in {"idle", "insert", "send"}
  /\ msg \in [Message -> {"none", "queued", "claim", "load", "post", "mark", "gone"}]
  /\ result \in [Message -> {"none"} \cup Outcomes]
  /\ tries \in [Message -> 0..MaxRetries]
  /\ accepted \in Nat /\ missed \in Nat /\ posts \in Nat
  /\ losses \in 0..MaxLosses /\ fanoutCrashes \in 0..MaxFanoutCrashes

\* The claim is exclusive: duplicated and retried messages never have two
\* consumers work on the delivery, and who works on it owns the 'sending' row.
OneClaimant ==
  /\ Cardinality(Working) <= 1
  /\ Working # {} => row \in {"sending", "deleted"}

\* A delivered or dead delivery is never taken up again, although
\* markDeliveryFailed writes its status unconditionally.
SettledIsFinal == [][(row \in Settled) => (row' \in {row, "deleted"})]_vars

\* Discord is not asked more often than maxAttempts allows, up to the attempts
\* whose outcome was lost with their consumer.
PostsBounded == posts <= MaxAttempts + losses

\* SPEC 4.4: a persistent idempotency key prevents double notifications.  Of
\* the POSTs that Discord accepts only one is heard of and recorded: it accepts
\* another one only for a consumer to whom its answer did not get (a network
\* error or a 5xx after the POST was taken, discord.ts:234) or that was lost
\* before it could record it, whatever the queue duplicates or retries.
NotifiedOnce == accepted <= 1 + missed

\* What SPEC 4.4 says without the reservation
NeverNotifiedTwice == accepted <= 1

Lossless == losses = 0 /\ fanoutCrashes = 0

\* As long as nothing is lost every delivery is settled in the end: the queue's
\* retries last exactly until the row is marked dead, so none is dropped before.
SettledUnlessLost ==
  (row = "pending") ~> (row \in Settled \cup {"deleted"} \/ ~Lossless)

\* The comments on fanoutChange and processNotifyBatch: a crash before the
\* message is sent, or an exception in its consumer, loses no notification.
EventuallySettled == (row = "pending") ~> (row \in Settled \cup {"deleted"})
=============================================================================
