---------------------------- MODULE NotifyProofs ----------------------------
(***************************************************************************)
(* Proofs about NotifyDelivery, for every number of copies of the message, *)
(* every limit and every number of losses.                                 *)
(*                                                                         *)
(* The argument is ownership: whoever works on the delivery owns the row   *)
(* in 'sending', and nobody else can claim it, because a claim gets stale  *)
(* only when nobody works (a POST is shorter than CLAIM_STALE_MS).  So the *)
(* POSTs made and the POSTs accepted can be accounted for: each is either  *)
(* recorded in the row, or in the hands of the one consumer, or its        *)
(* outcome was lost, with a consumer or with the answer of Discord.        *)
(***************************************************************************)
EXTENDS NotifyDelivery, FiniteSetTheorems, TLAPS

-----------------------------------------------------------------------------
(* The invariant *)

\* The part of TypeOK that the steps below depend on
Typed ==
  /\ row \in {"none", "pending", "sending", "failed", "deleted"} \cup Settled
  /\ attempts \in Nat /\ accepted \in Nat /\ missed \in Nat /\ posts \in Nat
  /\ losses \in Nat
  /\ stale \in BOOLEAN
  /\ msg \in [Message -> {"none", "queued", "claim", "load", "post", "mark", "gone"}]
  /\ result \in [Message -> {"none"} \cup Outcomes]

\* One consumer works, and it owns the row.
Owned ==
  /\ \A m, n \in Working : m = n
  /\ Working # {} => row \in {"sending", "deleted"}
  /\ row = "sending" /\ stale => Working = {}

\* Nobody works on the row and it may be claimed, now or when it gets stale.
Free == row \notin Settled \cup {"deleted"} /\ Working = {}

\* Of the accepted POSTs all were missed but the one that is recorded in the
\* row or is yet to be recorded by its consumer.
AcceptedAccounted ==
  /\ accepted <= 1 + missed
  /\ Free => accepted <= missed
  /\ \A m \in Working :
       ~(msg[m] = "mark" /\ result[m] = "ok") => accepted <= missed

\* Of the POSTs made each was counted as an attempt, or was lost, or is yet to
\* be counted; the last one need not be counted.
PostsAccounted ==
  /\ posts <= MaxAttempts + losses
  /\ Free => posts <= attempts + losses
  /\ \A m \in Working :
       /\ msg[m] = "load" => posts <= attempts + losses
       /\ msg[m] = "post" => attempts < MaxAttempts /\ posts <= attempts + losses
       /\ msg[m] = "mark" => attempts < MaxAttempts /\ posts <= attempts + losses + 1

\* The message is sent once, by the check that inserted the row.
NothingSentYet ==
  /\ row = "none" \/ fanout = "send" => \A m \in Message : msg[m] = "none"
  /\ fanout = "send" => row # "none"

IInv ==
  Typed /\ NothingSentYet /\ Owned /\ AcceptedAccounted /\ PostsAccounted

-----------------------------------------------------------------------------
(* Steps *)

\* A copy that leaves its consumer, or has not reached the claim yet
Resting == {"none", "queued", "claim", "gone"}

\* Acknowledging or retrying a message only moves that copy, to rest.
LEMMA Settles ==
  ASSUME Typed, NEW m \in Message, Acked(m) \/ Retried(m)
  PROVE  \E x \in Resting : msg' = [msg EXCEPT ![m] = x]
BY DEF Acked, Retried, Resting

\* A copy that comes to rest has no consumer, and the others stay where they are.
LEMMA RestedWorking ==
  ASSUME Typed, NEW m \in Message, NEW x \in Resting, msg' = [msg EXCEPT ![m] = x]
  PROVE  /\ Working' = Working \ {m}
         /\ \A n \in Working' : msg'[n] = msg[n]
         /\ msg' \in [Message -> {"none", "queued", "claim", "load", "post", "mark",
                                  "gone"}]
BY DEF Typed, Working, Resting

\* A consumer that goes on stays the only one.
LEMMA AdvancedWorking ==
  ASSUME Typed, Owned, NEW m \in Working, NEW x \in {"post", "mark"},
         msg' = [msg EXCEPT ![m] = x]
  PROVE  /\ Working' = {m} /\ Working = {m} /\ msg'[m] = x
         /\ msg' \in [Message -> {"none", "queued", "claim", "load", "post", "mark",
                                  "gone"}]
BY DEF Typed, Owned, Working

\* The account as it is while nobody works, after a step that makes no POST
LEMMA AtRest ==
  ASSUME IInv, NEW m \in Working, Working' = {}, Typed',
         posts' = posts, accepted' = accepted, missed' = missed, losses' = losses,
         posts' <= MaxAttempts + losses', accepted' <= 1 + missed',
         row' \in {"pending", "failed", "sending", "none"} =>
           accepted' <= missed' /\ posts' <= attempts' + losses'
  PROVE  Owned' /\ AcceptedAccounted' /\ PostsAccounted'
BY DEF Owned, AcceptedAccounted, PostsAccounted, Free, Settled, Typed


LEMMA InitInv == Init => IInv
<1> SUFFICES ASSUME Init PROVE IInv
  OBVIOUS
<1> USE LimitAssumption DEF Init
<1>1. Typed /\ NothingSentYet /\ Working = {}
  BY DEF Typed, NothingSentYet, Working
<1> QED
  BY <1>1 DEF IInv, Owned, AcceptedAccounted, PostsAccounted

\* Every step of the check, the queue, the consumers, the administrator and
\* time preserves IInv, as long as no POST outlasts a claim.
LEMMA StepInv ==
  ASSUME ~SlowPost, IInv, [Next]_vars
  PROVE  IInv'
<1> USE LimitAssumption, MessageAssumption, OutcomeAssumption
<1>1. CASE FanoutStart
  <2>1. Working' = Working
    BY <1>1 DEF FanoutStart, Working
  <2> QED
    BY <1>1, <2>1 DEF FanoutStart, IInv, Typed, NothingSentYet, Owned,
                      AcceptedAccounted, PostsAccounted, Free
<1>2. CASE FanoutInsert
  <2>1. Working' = Working
    BY <1>2 DEF FanoutInsert, Working
  <2> QED
    BY <1>2, <2>1 DEF FanoutInsert, IInv, Typed, NothingSentYet, Owned,
                      AcceptedAccounted, PostsAccounted, Free, Settled
<1>3. CASE FanoutSend
  <2>1. Working = {}
    BY <1>3 DEF FanoutSend, IInv, NothingSentYet, Working
  <2>2. Working' = {} /\ Typed'
    BY <1>3, <2>1 DEF FanoutSend, IInv, Typed, Working, Resting
  <2>3. row # "none"
    BY <1>3 DEF FanoutSend, IInv, NothingSentYet
  <2> QED
    BY <1>3, <2>1, <2>2, <2>3 DEF FanoutSend, IInv, NothingSentYet, Owned,
                                  AcceptedAccounted, PostsAccounted, Free
<1>4. CASE FanoutCrash
  <2>1. Working' = Working
    BY <1>4 DEF FanoutCrash, Working
  <2> QED
    BY <1>4, <2>1 DEF FanoutCrash, IInv, Typed, NothingSentYet, Owned,
                      AcceptedAccounted, PostsAccounted, Free
<1>5. ASSUME NEW m \in Message, Duplicate(m) PROVE IInv'
  <2>1. Typed' /\ Working' = Working /\ \A n \in Working : msg'[n] = msg[n]
    BY <1>5 DEF Duplicate, IInv, Typed, Working
  <2>2. NothingSentYet'
    BY <1>5 DEF Duplicate, IInv, NothingSentYet
  <2> QED
    BY <1>5, <2>1, <2>2 DEF Duplicate, IInv, Owned, AcceptedAccounted,
                            PostsAccounted, Free
<1>6. ASSUME NEW m \in Message, Receive(m) PROVE IInv'
  <2>1. Typed' /\ Working' = Working /\ \A n \in Working : msg'[n] = msg[n]
    BY <1>6 DEF Receive, IInv, Typed, Working
  <2>2. NothingSentYet'
    BY <1>6 DEF Receive, IInv, NothingSentYet
  <2> QED
    BY <1>6, <2>1, <2>2 DEF Receive, IInv, Owned, AcceptedAccounted,
                            PostsAccounted, Free
<1>7. ASSUME NEW m \in Message, Claim(m) PROVE IInv'
  <2>1. CASE Claimable
    <3>1. Working = {} /\ Free
      BY <2>1 DEF Claimable, IInv, Owned, Free, Settled
    <3>2. Typed' /\ Working' = {m} /\ msg'[m] = "load"
      BY <1>7, <2>1, <3>1 DEF Claim, IInv, Typed, Working
    <3>3. NothingSentYet'
      BY <1>7, <2>1 DEF Claim, IInv, NothingSentYet
    <3> QED
      BY <1>7, <2>1, <3>1, <3>2, <3>3
         DEF Claim, IInv, Typed, Owned, AcceptedAccounted, PostsAccounted, Free
  <2>2. CASE ~Claimable
    <3>1. Typed' /\ Working' = Working /\ \A n \in Working : msg'[n] = msg[n]
      BY <1>7, <2>2 DEF Claim, Acked, IInv, Typed, Working
    <3>2. NothingSentYet'
      BY <1>7, <2>2 DEF Claim, Acked, IInv, NothingSentYet
    <3> QED
      BY <1>7, <2>2, <3>1, <3>2 DEF Claim, IInv, Owned, AcceptedAccounted,
                                    PostsAccounted, Free
  <2> QED
    BY <2>1, <2>2
<1>8. ASSUME NEW m \in Message, Load(m) PROVE IInv'
  <2>1. m \in Working /\ Working = {m} /\ row \in {"sending", "deleted"}
    BY <1>8 DEF Load, IInv, Owned, Working
  <2>2. CASE row = "deleted" \/ archived \/ Exhausted
    <3>1. Acked(m)
      BY <1>8, <2>2 DEF Load
    <3>2. Working' = {} /\ Typed'
      BY <1>8, <2>1, <2>2, <3>1, Settles, RestedWorking
         DEF Load, MarkFailed, IInv, Typed, Settled
    <3>3. row' \in {"deleted", "dead"}
      BY <1>8, <2>1, <2>2 DEF Load, MarkFailed
    <3> QED
      BY <1>8, <2>1, <3>2, <3>3, AtRest DEF Load, IInv, AcceptedAccounted,
                                            PostsAccounted, NothingSentYet, Working
  <2>3. CASE row # "deleted" /\ ~archived /\ ~Exhausted
    <3>1. Working' = {m} /\ msg'[m] = "post" /\ Typed'
      BY <1>8, <2>1, <2>3, AdvancedWorking DEF Load, IInv, Typed, Exhausted
    <3>2. UNCHANGED <<row, attempts, stale, fanout, accepted, missed, posts, losses>>
      BY <1>8, <2>3 DEF Load
    <3>3. Owned' /\ NothingSentYet'
      BY <1>8, <2>1, <3>1, <3>2 DEF Load, IInv, Owned, NothingSentYet
    <3>4. AcceptedAccounted'
      BY <1>8, <2>1, <3>1, <3>2 DEF Load, IInv, AcceptedAccounted, Free
    <3>5. attempts < MaxAttempts
      BY <2>3 DEF IInv, Typed, Exhausted
    <3>6. PostsAccounted'
      BY <1>8, <2>1, <3>1, <3>2, <3>5 DEF Load, IInv, PostsAccounted, Free
    <3> QED
      BY <3>1, <3>3, <3>4, <3>6 DEF IInv
  <2> QED
    BY <2>2, <2>3
<1>9. ASSUME NEW m \in Message, NEW outcome \in Outcomes, Post(m, outcome)
      PROVE  IInv'
  <2>1. m \in Working
    BY <1>9 DEF Post, Working
  <2>2. Working' = {m} /\ Working = {m} /\ msg'[m] = "mark"
    BY <1>9, <2>1, AdvancedWorking DEF Post, IInv
  <2>3. PICK taken \in MayBeAccepted(outcome) :
          /\ accepted' = IF taken THEN accepted + 1 ELSE accepted
          /\ missed' = IF taken /\ outcome # "ok" THEN missed + 1 ELSE missed
    BY <1>9 DEF Post
  <2>4. Typed' /\ result'[m] = outcome
    BY <1>9, <2>1, <2>3, AdvancedWorking DEF Post, IInv, Typed
  <2>5. accepted <= missed
    BY <1>9, <2>1 DEF Post, IInv, AcceptedAccounted
  <2>6. accepted' <= 1 + missed' /\ (outcome # "ok" => accepted' <= missed')
    BY <2>3, <2>5 DEF IInv, Typed
  <2> QED
    BY <1>9, <2>1, <2>2, <2>4, <2>6 DEF Post, IInv, Typed, Owned, AcceptedAccounted,
       PostsAccounted, NothingSentYet, Free
<1>10. ASSUME NEW m \in Message, Mark(m) PROVE IInv'
  <2>1. m \in Working /\ Working = {m} /\ row \in {"sending", "deleted"}
    BY <1>10 DEF Mark, IInv, Owned, Working
  <2>2. PICK x \in Resting : msg' = [msg EXCEPT ![m] = x]
    BY <1>10, Settles DEF Mark, IInv
  <2>3. Working' = {}
    BY <2>1, <2>2, RestedWorking DEF IInv
  <2>4. Typed'
    <3>1. /\ row' \in {row, "delivered", "dead", "failed"}
          /\ attempts' \in {attempts, attempts + 1}
      BY <1>10 DEF Mark, MarkDelivered, MarkFailed
    <3>2. /\ result' = [result EXCEPT ![m] = "none"]
          /\ UNCHANGED <<stale, accepted, missed, posts, losses>>
      BY <1>10 DEF Mark
    <3>3. msg' \in [Message -> {"none", "queued", "claim", "load", "post", "mark",
                               "gone"}]
      BY <2>2, RestedWorking DEF IInv
    <3>4. result' \in [Message -> {"none"} \cup Outcomes]
      BY <3>2 DEF IInv, Typed
    <3>5. row' \in {"none", "pending", "sending", "failed", "deleted"} \cup Settled
      BY <3>1 DEF IInv, Typed, Settled
    <3> QED
      BY <3>1, <3>2, <3>3, <3>4, <3>5 DEF IInv, Typed
  <2>5. result[m] # "ok" => accepted <= missed
    BY <2>1 DEF IInv, AcceptedAccounted
  <2>6. result[m] \notin {"ok", "permanent"} /\ row # "deleted" =>
          attempts' = attempts + 1
    BY <1>10 DEF Mark, MarkFailed
  <2>7. row' \in {"pending", "failed", "sending", "none"} =>
          row' = "failed" /\ row # "deleted" /\ result[m] \notin {"ok", "permanent"}
    BY <1>10, <2>1 DEF Mark, MarkFailed, MarkDelivered
  <2>8. row' # "none" /\ fanout' = fanout /\ posts' = posts /\ accepted' = accepted
        /\ missed' = missed /\ losses' = losses
    BY <1>10, <2>1 DEF Mark, MarkFailed, MarkDelivered
  <2>9. posts <= attempts + losses + 1
    BY <1>10, <2>1 DEF Mark, IInv, PostsAccounted
  <2>10. NothingSentYet'
    BY <1>10, <2>8 DEF Mark, IInv, NothingSentYet
  <2>11. posts' <= MaxAttempts + losses' /\ accepted' <= 1 + missed'
    BY <2>8 DEF IInv, AcceptedAccounted, PostsAccounted
  <2>12. row' \in {"pending", "failed", "sending", "none"} =>
           accepted' <= missed' /\ posts' <= attempts' + losses'
    BY <2>5, <2>6, <2>7, <2>8, <2>9 DEF IInv, Typed
  <2> QED
    BY <2>1, <2>3, <2>4, <2>8, <2>10, <2>11, <2>12, AtRest DEF IInv
<1>11. ASSUME NEW m \in Message, Lost(m) PROVE IInv'
  <2>1. PICK x \in Resting : msg' = [msg EXCEPT ![m] = x]
    BY <1>11, Settles DEF Lost, IInv
  <2>2. Working' = Working \ {m} /\ \A n \in Working' : msg'[n] = msg[n]
    BY <2>1, RestedWorking DEF IInv
  <2>3. Typed' /\ \A n \in Working' : result'[n] = result[n]
    <3>1. msg' \in [Message -> {"none", "queued", "claim", "load", "post", "mark",
                               "gone"}]
      BY <2>1, RestedWorking DEF IInv
    <3>2. /\ result' = [result EXCEPT ![m] = "none"] /\ losses' = losses + 1
          /\ missed' = IF result[m] = "ok" THEN missed + 1 ELSE missed
          /\ UNCHANGED <<row, attempts, stale, accepted, posts>>
      BY <1>11 DEF Lost
    <3> QED
      BY <2>2, <3>1, <3>2 DEF IInv, Typed, Working
  <2>4. NothingSentYet'
    BY <1>11 DEF Lost, IInv, NothingSentYet
  <2> QED
    BY <1>11, <2>2, <2>3, <2>4 DEF Lost, IInv, Typed, Owned, AcceptedAccounted,
       PostsAccounted, Free, Working
<1>12. CASE Archive
  <2>1. Working' = Working
    BY <1>12 DEF Archive, Working
  <2> QED
    BY <1>12, <2>1 DEF Archive, IInv, Typed, NothingSentYet, Owned,
                       AcceptedAccounted, PostsAccounted, Free
<1>13. CASE DeleteMonitor
  <2>1. Working' = Working
    BY <1>13 DEF DeleteMonitor, Working
  <2> QED
    BY <1>13, <2>1 DEF DeleteMonitor, IInv, Typed, NothingSentYet, Owned,
                       AcceptedAccounted, PostsAccounted, Free
<1>14. CASE ClaimGetsStale
  <2>1. Working = {} /\ Working' = {}
    BY <1>14 DEF ClaimGetsStale, Working
  <2> QED
    BY <1>14, <2>1 DEF ClaimGetsStale, IInv, Typed, NothingSentYet, Owned,
                       AcceptedAccounted, PostsAccounted, Free
<1>15. CASE UNCHANGED vars
  <2>1. Working' = Working
    BY <1>15 DEF vars, Working
  <2> QED
    BY <1>15, <2>1 DEF vars, IInv, Typed, NothingSentYet, Owned, AcceptedAccounted,
                       PostsAccounted, Free
<1> QED
  BY <1>1, <1>2, <1>3, <1>4, <1>5, <1>6, <1>7, <1>8, <1>9, <1>10, <1>11, <1>12,
     <1>13, <1>14, <1>15 DEF Next, Consume

-----------------------------------------------------------------------------
(* Theorems *)

THEOREM Inductive == ASSUME ~SlowPost PROVE Spec => []IInv
<1>1. IInv /\ [Next]_vars => IInv'
  BY StepInv
<1> QED
  BY InitInv, <1>1, PTL DEF Spec

\* Of the POSTs that Discord accepts only one is heard of and recorded: another
\* one is accepted only for a consumer that was not told (discord.ts:234) or
\* that was lost before it could record it, however often the queue repeats and
\* the check detects the change again (claim and mark in notifyStore.ts),
\* provided that no POST outlasts CLAIM_STALE_MS.
THEOREM PostAcceptedOnce == ASSUME ~SlowPost PROVE Spec => []NotifiedOnce
<1>1. IInv => NotifiedOnce
  BY DEF IInv, AcceptedAccounted, NotifiedOnce
<1> QED
  BY Inductive, <1>1, PTL

\* Discord is asked at most maxAttempts times, and once more for each consumer
\* that was lost with the outcome of its POST.
THEOREM PostsAreBounded == ASSUME ~SlowPost PROVE Spec => []PostsBounded
<1>1. IInv => PostsBounded
  BY DEF IInv, PostsAccounted, PostsBounded
<1> QED
  BY Inductive, <1>1, PTL

\* Duplicated and retried messages never have two consumers work on the
\* delivery (the claiming UPDATE of getPendingDelivery).
THEOREM ClaimIsExclusive == ASSUME ~SlowPost PROVE Spec => []OneClaimant
<1>1. ASSUME Owned PROVE OneClaimant
  <2>1. CASE Working = {}
    BY <1>1, <2>1, FS_EmptySet DEF OneClaimant
  <2>2. CASE Working # {}
    <3>1. PICK m \in Working : Working = {m}
      BY <1>1, <2>2 DEF Owned
    <3> QED
      BY <1>1, <3>1, FS_Singleton DEF Owned, OneClaimant
  <2> QED
    BY <2>1, <2>2
<1> QED
  BY Inductive, <1>1, PTL DEF IInv

\* A delivered or dead delivery is never taken up again, although
\* markDeliveryFailed writes its status unconditionally: only who works on the
\* row writes it, and nobody works on a settled row.
THEOREM SettledStaysSettled == ASSUME ~SlowPost PROVE Spec => SettledIsFinal
<1>1. ASSUME IInv, [Next]_vars
      PROVE  [(row \in Settled) => row' \in {row, "deleted"}]_vars
  <2> SUFFICES ASSUME row \in Settled, Next PROVE row' \in {row, "deleted"}
    BY <1>1
  <2>1. Working = {}
    BY <1>1 DEF IInv, Owned, Settled
  <2>2. ~Claimable
    BY DEF Claimable, Settled
  <2>3. ASSUME NEW m \in Message, Duplicate(m) \/ Consume(m) \/ Lost(m)
        PROVE  row' = row
    BY <2>1, <2>2, <2>3 DEF Duplicate, Consume, Receive, Claim, Load, Post, Mark,
                            Lost, Working
  <2> QED
    BY <2>3 DEF Next, FanoutStart, FanoutInsert, FanoutSend, FanoutCrash, Archive,
                DeleteMonitor, ClaimGetsStale, Settled
<1>2. IInv /\ [Next]_vars => [(row \in Settled) => row' \in {row, "deleted"}]_vars
  BY <1>1
<1> QED
  BY Inductive, <1>2, PTL DEF Spec, SettledIsFinal
=============================================================================
