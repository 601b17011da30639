---------------------------- MODULE FetchProofs -----------------------------
(***************************************************************************)
(* Proofs about FetchSequence, for every set of policies, sites, redirects *)
(* and addresses, and every number of targets, attempts and retries.       *)
(*                                                                         *)
(* Every attempt, however it went, ends in Record: what Record keeps is    *)
(* proved once (RecordStep), and each step of an attempt keeps the rest:   *)
(* where the attempt stands among the others (Ordered), that its URL was   *)
(* checked (Vetted), and how long it has waited (Timed).                   *)
(***************************************************************************)
EXTENDS FetchSequence, FiniteSetTheorems, SequenceTheorems, TLAPS

-----------------------------------------------------------------------------
(* The invariant *)

IsOutcome(out) ==
  /\ out.ok \in BOOLEAN /\ out.class \in Classes
  /\ out.ok <=> out.class = "success"

Attempts == [pos : Nat, class : Classes]
Steps == {"idle", "vet", "send", "reply"}
Requests == [pc : Steps, url : Urls \cup {NoUrl}, redirects : Nat,
             addr : Addrs \cup {"none"}, waited : Nat]

\* What the variables hold, and when an attempt may be in flight
Typed ==
  /\ TypeOK
  /\ req \in Requests /\ log \in Seq(Attempts)
  /\ result = Pending \/ IsOutcome(result)
  /\ req.pc # "idle" => result = Pending /\ (kind = "check" => Fetcher \notin unavailable)

Last(s) == s[Len(s)]

\* Until the target has its outcome, either its attempts have got to the entry
\* pos just now, or the entry is to be tried again.
Underway ==
  /\ log = <<>> => pos = 1
  /\ log # <<>> =>
       \/ Last(log).pos = pos - 1 /\ Last(log).class \notin NeverProceedable \cup {"success"}
       \/ Last(log).pos = pos /\ Last(log).class \in Transient /\ kind = "check"
  /\ TriesOf(pos, log) <= Retries

\* A failure is the outcome only where the policy has nothing left.
GivenUp ==
  /\ log # <<>> /\ Last(log).pos = pos
  /\ (kind = "check" /\ ~result.ok) =>
       /\ (Last(log).class \in Transient /\ ~IsPull(Fetcher))
             => TriesOf(pos, log) = Retries + 1
       /\ \/ Last(log).class \in NeverProceedable
          \/ Last(log).class \notin policy[pos].proceedOn
          \/ pos = PlanLength(policy)

\* Where the attempt stands among those before it
Ordered ==
  /\ \A i \in DOMAIN log : log[i].pos <= pos
  /\ \A i \in 1..(Len(log) - 1) : Legal(i)
  /\ \A p \in DOMAIN policy : TriesOf(p, log) <= Retries + 1
  /\ IF result = Pending THEN Underway ELSE GivenUp

\* What is to be contacted has been checked, by the party that contacts it.
Vetted ==
  /\ req.pc = "vet" => Fetcher # "cf-http"
  /\ req.pc \in {"send", "reply"} =>
       IF Fetcher = "cf-http" THEN req.url \in Guard
       ELSE req.url \in ExecutorUrls /\ req.addr \notin BlockedAddrs
  /\ kind = "rpc" /\ result.ok => result.url \in CallerUrls

\* The waiting of the check so far, with that of the attempt in flight
Timed ==
  /\ pullUsed <= PullBudget + DohTimeout
  /\ req.waited <= DohTimeout
  /\ req.pc # "idle" /\ kind = "check" /\ IsPull(Fetcher) => Remaining >= MinPullWait

\* An outage of the check is remembered.
Remembered ==
  kind = "check" => outages <= 1 /\ (outages = 1 => "home-http" \in unavailable)

IInv == Typed /\ Ordered /\ Vetted /\ Timed /\ Remembered

-----------------------------------------------------------------------------
(* Lemmas about the operators of the model *)

\* The least of two numbers
LEMMA MinOfTwo ==
  ASSUME NEW a \in Int, NEW b \in Int
  PROVE  Min({a, b}) \in {a, b} /\ Min({a, b}) <= a /\ Min({a, b}) <= b
<1> DEFINE Least(x) == x \in {a, b} /\ \A y \in {a, b} : x <= y
<1>1. Least(a) \/ Least(b)
  OBVIOUS
<1>2. Least(CHOOSE x : Least(x))
  BY <1>1
<1> QED
  BY <1>2 DEF Min

\* submitAndWait is given no more time than is left of the budget.
LEMMA LimitsFit ==
  ASSUME kind = "check", Remaining \in Nat
  PROVE  /\ SubmitLimits.lease \in Nat /\ SubmitLimits.result \in Nat
         /\ SubmitLimits.lease + SubmitLimits.result <= Remaining
<1> DEFINE lease == Min({LeaseWait, Remaining \div 5})
           wait == Min({ResultWait, Remaining - lease})
<1>1. Remaining \div 5 \in Nat /\ Remaining \div 5 <= Remaining
  OBVIOUS
<1>2. lease \in Nat /\ lease <= Remaining
  BY <1>1, MinOfTwo, TimeAssumption
<1>3. SubmitLimits = [lease |-> lease, result |-> wait]
  BY DEF SubmitLimits
<1> HIDE DEF lease
<1>4. Remaining - lease \in Nat
  BY <1>2
<1>5. ASSUME NEW left \in Nat
      PROVE  Min({ResultWait, left}) \in Nat /\ Min({ResultWait, left}) <= left
  BY MinOfTwo, TimeAssumption
<1>6. wait \in Nat /\ wait <= Remaining - lease
  BY <1>4, <1>5
<1> HIDE DEF wait
<1> QED
  BY <1>2, <1>3, <1>6

\* A policy has at least one entry, and only its own are tried.
LEMMA PlanFits ==
  ASSUME NEW p \in Policies
  PROVE  /\ Len(p) \in Nat /\ DOMAIN p = 1..Len(p)
         /\ PlanLength(p) \in 1..Len(p)
         /\ \A i \in 1..Len(p) : p[i].id \in FetcherIds
<1>1. p \in Seq(PolicyEntry) /\ Len(p) > 0
  BY PolicyAssumption DEF ValidPolicy
<1>2. Len(p) \in Nat /\ DOMAIN p = 1..Len(p)
  BY <1>1
<1>3. PlanLength(p) \in 1..Len(p)
  BY <1>1, <1>2, CountAssumption DEF PlanLength
<1>4. \A i \in 1..Len(p) : p[i].id \in FetcherIds
  <2> TAKE i \in 1..Len(p)
  <2>1. p[i] \in PolicyEntry
    BY <1>1, <1>2, ElementOfSeq
  <2> QED
    BY <2>1 DEF PolicyEntry
<1> QED
  BY <1>2, <1>3, <1>4

\* Failures have a class of their own, and so has every page that is read.
LEMMA Outcomes ==
  ASSUME NEW s
  PROVE  /\ \A class \in Classes \ {"success"} : IsOutcome(Failure(class, s))
         /\ \A class : Failure(class, s).class = class /\ ~Failure(class, s).ok
         /\ \A u : IsOutcome(Success(s, u)) /\ Success(s, u).class = "success"
BY DEF IsOutcome, Failure, Success, Classes

\* What a site answers is an outcome, but never that an executor is absent.
FromSite(out) == IsOutcome(out) /\ out.class # "executor_unavailable"

LEMMA TerminalOutcomes ==
  ASSUME NEW resp, NEW url
  PROVE  FromSite(Terminal(resp, url))
BY Outcomes DEF FromSite, Terminal, Classes, NeverProceedable, DefaultProceedable

LEMMA PayloadOutcomes ==
  ASSUME NEW payload, NEW allowed, payload.kind \in {"error", "response"}
  PROVE  FromSite(FromPayload(payload, allowed))
BY TerminalOutcomes, Outcomes
   DEF FromSite, FromPayload, Classes, NeverProceedable, DefaultProceedable

\* The end of a target is no pending one.
LEMMA AnswerIsOutcome ==
  ASSUME NEW out, IsOutcome(out)
  PROVE  /\ IsOutcome(Answer(out)) /\ Answer(out) # Pending
         /\ kind = "check" => Answer(out) = out
         /\ kind = "rpc" /\ Answer(out).ok => Answer(out).url \in Guard
<1>1. Failure("ssrf_blocked", NoStatus).ok = FALSE
  BY DEF Failure
<1>2. IsOutcome(Failure("ssrf_blocked", NoStatus))
  BY Outcomes DEF Classes, NeverProceedable
<1>3. IsOutcome(Answer(out))
  BY <1>2 DEF Answer
<1>4. "pending" \notin Classes
  BY DEF Classes, NeverProceedable, DefaultProceedable
<1>5. Answer(out) # Pending
  BY <1>3, <1>4 DEF IsOutcome, Pending, Failure
<1>6. kind = "check" => Answer(out) = out
  BY DEF Answer
<1>7. kind = "rpc" /\ Answer(out).ok => Answer(out).url \in Guard
  BY <1>1 DEF Answer
<1> QED
  BY <1>3, <1>5, <1>6, <1>7

\* One more attempt is counted for its entry, and for no other.
LEMMA TriesFinite ==
  ASSUME NEW s \in Seq(Attempts), NEW p
  PROVE  /\ IsFiniteSet({i \in DOMAIN s : s[i].pos = p})
         /\ TriesOf(p, s) \in Nat
<1>1. DOMAIN s = 1..Len(s) /\ Len(s) \in Nat
  OBVIOUS
<1>2. IsFiniteSet(1..Len(s))
  BY <1>1, FS_Interval
<1> DEFINE T == {i \in DOMAIN s : s[i].pos = p}
<1>3. T \in SUBSET (1..Len(s))
  BY <1>1
<1> HIDE DEF T
<1>4. IsFiniteSet(T) /\ Cardinality(T) \in Nat
  BY <1>2, <1>3, FS_Subset, FS_CardinalityType
<1> QED
  BY <1>4 DEF T, TriesOf

LEMMA TriesCounted ==
  ASSUME NEW s \in Seq(Attempts), NEW a \in Attempts, NEW p
  PROVE  TriesOf(p, Append(s, a)) = IF a.pos = p THEN TriesOf(p, s) + 1 ELSE TriesOf(p, s)
<1> DEFINE T == {i \in DOMAIN s : s[i].pos = p}
           U == {i \in DOMAIN Append(s, a) : Append(s, a)[i].pos = p}
<1>1. Len(s) \in Nat /\ DOMAIN s = 1..Len(s) /\ DOMAIN Append(s, a) = 1..(Len(s) + 1)
  BY AppendProperties
<1>2. U = IF a.pos = p THEN T \cup {Len(s) + 1} ELSE T
  BY <1>1, AppendProperties
<1>3. Len(s) + 1 \notin T
  BY <1>1
<1>4. IsFiniteSet(T)
  BY TriesFinite
<1> HIDE DEF T, U
<1>5. Cardinality(U) = IF a.pos = p THEN Cardinality(T) + 1 ELSE Cardinality(T)
  BY <1>2, <1>3, <1>4, FS_AddElement
<1> QED
  BY <1>5 DEF T, U, TriesOf

\* An entry that was not reached has not been tried.
LEMMA NoTries ==
  ASSUME NEW s, NEW p, \A i \in DOMAIN s : s[i].pos # p
  PROVE  TriesOf(p, s) = 0
<1>1. {i \in DOMAIN s : s[i].pos = p} = {}
  OBVIOUS
<1> QED
  BY <1>1, FS_EmptySet DEF TriesOf

-----------------------------------------------------------------------------
(* The end of an attempt *)

\* The entry being tried is one of the policy's.
LEMMA EntryTried ==
  ASSUME Typed
  PROVE  /\ pos \in Nat /\ pos \in DOMAIN policy /\ Fetcher \in FetcherIds
         /\ PlanLength(policy) \in Nat /\ DOMAIN policy \subseteq Nat
BY PlanFits DEF Typed, TypeOK, Fetcher

\* Record keeps the invariant, whatever the outcome, as long as the attempt
\* has not waited beyond the budget, only home-http can be absent, and it was
\* asked only if it was not found absent before.
LEMMA RecordStep ==
  ASSUME IInv, result = Pending,
         NEW out, IsOutcome(out), NEW waited \in Nat, NEW asked \in BOOLEAN,
         kind = "check" /\ IsPull(Fetcher) => pullUsed + waited <= PullBudget + DohTimeout,
         out.class = "executor_unavailable" => IsPull(Fetcher),
         asked /\ kind = "check" => Fetcher \notin unavailable,
         Record(out, waited, asked)
  PROVE  IInv'
<1> DEFINE a == [pos |-> pos, class |-> out.class]
<1>1. /\ log' = Append(log, a) /\ req' = NoReq
      /\ kind' = kind /\ policy' = policy /\ target' = target
      /\ PlanLength(policy)' = PlanLength(policy)
  BY DEF Record, PlanLength
<1>2. /\ a \in Attempts /\ a.pos = pos /\ a.class = out.class
      /\ log \in Seq(Attempts) /\ pos \in Nat /\ pos \in 1..PlanLength(policy)
      /\ PlanLength(policy) \in Nat
  BY EntryTried DEF IInv, Typed, TypeOK, Attempts, IsOutcome
<1> HIDE DEF a
<1>3. /\ Len(log) \in Nat /\ Len(log') = Len(log) + 1 /\ log' \in Seq(Attempts)
      /\ DOMAIN log = 1..Len(log) /\ DOMAIN log' = 1..(Len(log) + 1)
      /\ \A i \in 1..Len(log) : log'[i] = log[i]
      /\ log'[Len(log) + 1] = a /\ Last(log') = a /\ log' # <<>>
  BY <1>1, <1>2, AppendProperties DEF Last
<1>4. \A p : TriesOf(p, log') = IF pos = p THEN TriesOf(p, log) + 1 ELSE TriesOf(p, log)
  BY <1>1, <1>2, TriesCounted
<1>5. \A p : TriesOf(p, log) \in Nat
  BY <1>2, TriesFinite
<1>6. Retries \in Nat
  BY CountAssumption
<1>7. \/ MayRetry(out) /\ pos' = pos /\ result' = Pending
      \/ /\ ~MayRetry(out) /\ ~out.ok /\ MayProceed(policy[pos], out)
         /\ pos < PlanLength(policy) /\ pos' = pos + 1 /\ result' = Pending
      \/ /\ ~MayRetry(out) /\ ~(~out.ok /\ MayProceed(policy[pos], out) /\ pos < PlanLength(policy))
         /\ pos' = pos /\ result' = Answer(out)
  BY DEF Record
<1>8. pos' \in 1..PlanLength(policy) /\ pos' \in {pos, pos + 1}
  BY <1>2, <1>7
<1>9. Typed'
  <2>1. req' \in Requests /\ req'.pc = "idle" /\ req'.redirects = 0
    BY <1>1 DEF NoReq, Requests, Steps
  <2>2. \A i \in DOMAIN log' : log'[i] \in [pos : 1..PlanLength(policy), class : Classes]
    <3>1. a \in [pos : 1..PlanLength(policy), class : Classes]
      BY <1>2 DEF a, Attempts, IsOutcome
    <3>2. \A i \in 1..Len(log) : log[i] \in [pos : 1..PlanLength(policy), class : Classes]
      BY <1>3 DEF IInv, Typed, TypeOK
    <3> QED
      BY <1>3, <3>1, <3>2
  <2>3. unavailable' \subseteq {"home-http"}
    BY DEF Record, IInv, Typed, TypeOK, IsPull
  <2>4. pullUsed' \in Nat /\ outages' \in Nat
    BY DEF Record, IInv, Typed, TypeOK
  <2>5. TypeOK'
    BY <1>1, <1>8, <2>1, <2>2, <2>3, <2>4, CountAssumption DEF TypeOK, IInv, Typed
  <2>6. result' = Pending \/ IsOutcome(result')
    BY <1>7, AnswerIsOutcome
  <2> QED
    BY <1>3, <2>1, <2>5, <2>6 DEF Typed, IsOutcome, Pending, Failure, Classes
<1>10. Ordered'
  <2>1. \A i \in DOMAIN log' : log'[i].pos <= pos'
    <3>1. \A i \in 1..Len(log) : log[i].pos \in Nat /\ log[i].pos <= pos
      <4>1. \A i \in 1..Len(log) : log[i] \in Attempts
        BY <1>2, ElementOfSeq
      <4> QED
        BY <4>1, <1>3 DEF IInv, Ordered, Attempts
    <3> QED
      BY <1>2, <1>3, <1>8, <3>1
  <2>2. \A i \in 1..(Len(log') - 1) : Legal(i)'
    <3> TAKE i \in 1..(Len(log') - 1)
    <3>1. CASE i < Len(log)
      <4>1. Legal(i) /\ log'[i] = log[i] /\ log'[i + 1] = log[i + 1]
        BY <3>1, <1>3 DEF IInv, Ordered
      <4> QED
        BY <4>1, <1>1 DEF Legal
    <3>2. CASE i = Len(log)
      <4>1. log # <<>> /\ log'[i] = Last(log) /\ log'[i + 1] = a
        BY <3>2, <1>2, <1>3 DEF Last
      <4>2. \/ Last(log).pos = pos - 1 /\ Last(log).class \notin NeverProceedable \cup {"success"}
            \/ Last(log).pos = pos /\ Last(log).class \in Transient /\ kind = "check"
        BY <4>1 DEF IInv, Ordered, Underway
      <4> QED
        BY <4>1, <4>2, <1>1, <1>2 DEF Legal, Transient, NeverProceedable
    <3>3. Len(log) \in Nat /\ i \in 1..Len(log)
      BY <1>3
    <3> QED
      BY <3>1, <3>2, <3>3
  <2>3. \A q \in DOMAIN policy' : TriesOf(q, log')  <= Retries + 1
    BY <1>1, <1>4, <1>5, <1>6 DEF IInv, Ordered, Underway
  <2>4. CASE MayRetry(out) /\ pos' = pos /\ result' = Pending
    <3>1. TriesOf(pos, log') <= Retries
      BY <2>4, <1>4, <1>5, <1>6 DEF MayRetry
    <3>2. Underway'
      BY <2>4, <3>1, <1>1, <1>2, <1>3 DEF Underway, MayRetry
    <3> QED
      BY <2>1, <2>2, <2>3, <2>4, <3>2 DEF Ordered, Pending
  <2>5. CASE /\ ~out.ok /\ MayProceed(policy[pos], out)
             /\ pos' = pos + 1 /\ result' = Pending
    <3>1. out.class \notin NeverProceedable \cup {"success"}
      BY <2>5 DEF MayProceed, ShouldProceedToNext, ShouldContinue, IsOutcome
    <3>2. \A i \in DOMAIN log : log[i].pos # pos + 1
      BY <1>2, <1>3 DEF IInv, Ordered, Attempts
    <3>3. TriesOf(pos + 1, log') = 0
      BY <3>2, <1>2, <1>4, NoTries
    <3>4. Underway'
      BY <2>5, <3>1, <3>3, <1>1, <1>2, <1>3, <1>6 DEF Underway
    <3> QED
      BY <2>1, <2>2, <2>3, <2>5, <3>4 DEF Ordered, Pending
  <2>6. CASE /\ ~MayRetry(out)
             /\ ~(~out.ok /\ MayProceed(policy[pos], out) /\ pos < PlanLength(policy))
             /\ pos' = pos /\ result' = Answer(out)
    <3>1. result' # Pending /\ (kind = "check" => result' = out)
      BY <2>6, AnswerIsOutcome
    <3>2. ASSUME kind = "check", out.class \in Transient, ~IsPull(Fetcher)
          PROVE  TriesOf(pos, log') = Retries + 1
      BY <2>6, <3>2, <1>4, <1>5, <1>6 DEF MayRetry, IInv, Ordered, Underway
    <3>3. ASSUME kind = "check", ~out.ok
          PROVE  \/ out.class \in NeverProceedable
                 \/ out.class \notin policy[pos].proceedOn
                 \/ pos = PlanLength(policy)
      BY <2>6, <3>3, <1>2 DEF MayProceed, ShouldProceedToNext
    <3>4. Fetcher' = Fetcher
      BY <2>6, <1>1 DEF Fetcher
    <3>5. GivenUp'
      BY <2>6, <3>1, <3>2, <3>3, <3>4, <1>1, <1>2, <1>3 DEF GivenUp
    <3> QED
      BY <2>1, <2>2, <2>3, <3>1, <3>5 DEF Ordered, Pending
  <2> QED
    BY <2>4, <2>5, <2>6, <1>7
<1>11. Vetted'
  <2>1. req'.pc = "idle"
    BY <1>1 DEF NoReq
  <2>2. kind = "rpc" /\ result'.ok => result'.url \in CallerUrls
    <3>1. CASE result' = Pending
      BY <3>1 DEF Pending, Failure
    <3>2. CASE result' = Answer(out)
      BY <3>2, AnswerIsOutcome DEF Guard
    <3> QED
      BY <3>1, <3>2, <1>7
  <2> QED
    BY <1>1, <2>1, <2>2 DEF Vetted
<1>12. Timed'
  <2>1. req'.pc = "idle" /\ req'.waited = 0
    BY <1>1 DEF NoReq
  <2>2. pullUsed' <= PullBudget + DohTimeout
    BY DEF Record, IInv, Timed
  <2> QED
    BY <2>1, <2>2, TimeAssumption DEF Timed
<1>13. Remembered'
  <2>1. SUFFICES ASSUME kind = "check"
                 PROVE  outages' <= 1 /\ (outages' = 1 => "home-http" \in unavailable')
    BY <1>1 DEF Remembered
  <2>2. outages \in Nat /\ outages <= 1 /\ (outages = 1 => "home-http" \in unavailable)
    BY <2>1 DEF IInv, Typed, TypeOK, Remembered
  <2>3. CASE asked /\ out.class = "executor_unavailable"
    <3>1. Fetcher = "home-http" /\ Fetcher \notin unavailable
      BY <2>1, <2>3 DEF IsPull
    <3>2. outages = 0
      BY <2>2, <3>1
    <3> QED
      BY <2>1, <2>3, <3>1, <3>2 DEF Record
  <2>4. CASE ~(asked /\ out.class = "executor_unavailable")
    BY <2>2, <2>4 DEF Record
  <2> QED
    BY <2>3, <2>4
<1> QED
  BY <1>9, <1>10, <1>11, <1>12, <1>13 DEF IInv

\* An attempt in flight has time left, and waits no longer than that.
LEMMA WaitsFit ==
  ASSUME IInv, req.pc # "idle", NEW w \in Waits
  PROVE  /\ w \in Nat
         /\ kind = "check" /\ IsPull(Fetcher) => pullUsed + w <= PullBudget + DohTimeout
<1>1. /\ pullUsed \in Nat /\ req.waited \in Nat /\ req.waited <= DohTimeout
      /\ kind \in {"check", "rpc"}
  BY KindAssumption DEF IInv, Typed, TypeOK, Timed, Requests
<1>2. CASE ~IsPull(Fetcher)
  BY <1>2 DEF Waits
<1>3. CASE IsPull(Fetcher) /\ kind = "rpc"
  <2>1. SubmitLimits = [lease |-> LeaseWait, result |-> ResultWait]
    BY <1>3 DEF SubmitLimits
  <2> QED
    BY <1>1, <1>3, <2>1, TimeAssumption DEF Waits
<1>4. CASE IsPull(Fetcher) /\ kind = "check"
  <2>1. Remaining >= MinPullWait /\ Remaining = PullBudget - pullUsed
    BY <1>4 DEF IInv, Timed, Remaining
  <2>2. Remaining \in Nat
    BY <1>1, <2>1, TimeAssumption
  <2>3. /\ SubmitLimits.lease \in Nat /\ SubmitLimits.result \in Nat
        /\ SubmitLimits.lease + SubmitLimits.result <= Remaining
    BY <1>4, <2>2, LimitsFit
  <2>4. w \in {req.waited, req.waited + SubmitLimits.lease,
               req.waited + (SubmitLimits.lease + SubmitLimits.result)}
    BY <1>1, <1>4, <2>3 DEF Waits
  <2>5. w \in Nat /\ w <= req.waited + Remaining
    BY <1>1, <2>2, <2>3, <2>4
  <2> QED
    BY <1>1, <2>1, <2>5, TimeAssumption
<1> QED
  BY <1>1, <1>2, <1>3, <1>4

\* An attempt in flight ends: with an outcome, or with the executor's payload.
LEMMA FinishStep ==
  ASSUME IInv, req.pc # "idle", NEW out, IsOutcome(out),
         out.class = "executor_unavailable" => IsPull(Fetcher), Finish(out)
  PROVE  IInv'
<1>1. result = Pending /\ (kind = "check" => Fetcher \notin unavailable)
  BY DEF IInv, Typed
<1>2. PICK w \in Waits : Record(out, w, TRUE)
  BY DEF Finish
<1> QED
  BY <1>1, <1>2, WaitsFit, RecordStep

LEMMA PayloadStep ==
  ASSUME IInv, req.pc # "idle", NEW payload, payload.kind \in {"error", "response"},
         FinishPayload(payload)
  PROVE  IInv'
BY PayloadOutcomes, FinishStep DEF FinishPayload, FromSite

\* An attempt goes on.
LEMMA GotoStep ==
  ASSUME IInv, result = Pending, NEW r \in Requests, Goto(r),
         r.redirects <= MaxRedirects, r.waited <= DohTimeout,
         kind = "check" => /\ Fetcher \notin unavailable
                           /\ IsPull(Fetcher) => Remaining >= MinPullWait,
         r.pc = "vet" => Fetcher # "cf-http",
         r.pc \in {"send", "reply"} =>
           IF Fetcher = "cf-http" THEN r.url \in Guard
           ELSE r.url \in ExecutorUrls /\ r.addr \notin BlockedAddrs
  PROVE  IInv'
<1>1. /\ req' = r
      /\ UNCHANGED <<kind, policy, target, pos, log, result, unavailable, pullUsed, outages>>
  BY DEF Goto
<1>2. /\ Fetcher' = Fetcher /\ Guard' = Guard /\ PlanLength(policy)' = PlanLength(policy)
      /\ Remaining' = Remaining
  BY <1>1 DEF Fetcher, Guard, PlanLength, Remaining
<1>3. r.pc \in Steps /\ r.redirects \in 0..MaxRedirects
  BY CountAssumption DEF Requests
<1>4. Typed'
  BY <1>1, <1>2, <1>3 DEF IInv, Typed, TypeOK, Steps
<1>5. Ordered'
  BY <1>1, <1>2 DEF IInv, Ordered, Legal, Underway, GivenUp
<1>6. Vetted'
  BY <1>1, <1>2 DEF IInv, Vetted
<1>7. Timed'
  BY <1>1, <1>2 DEF IInv, Timed
<1>8. Remembered'
  BY <1>1 DEF IInv, Remembered
<1> QED
  BY <1>4, <1>5, <1>6, <1>7, <1>8 DEF IInv

-----------------------------------------------------------------------------
(* The invariant holds *)

LEMMA Initially == Init => IInv
<1> SUFFICES ASSUME Init PROVE IInv
  OBVIOUS
<1>1. PlanLength(policy) \in Nat /\ 1 \in 1..PlanLength(policy)
  BY PlanFits DEF Init
<1>2. Typed
  BY <1>1, CountAssumption
     DEF Init, Typed, TypeOK, NoReq, Requests, Steps, Attempts
<1>3. TriesOf(1, log) = 0 /\ \A p : TriesOf(p, log) = 0
  BY NoTries DEF Init
<1>4. Ordered
  BY <1>3, CountAssumption DEF Init, Ordered, Underway
<1>5. Vetted /\ Timed /\ Remembered
  BY TimeAssumption DEF Init, Vetted, Timed, Remembered, NoReq, Pending, Failure
<1> QED
  BY <1>2, <1>4, <1>5 DEF IInv

\* Failures of the classes that fetchers report themselves
LEMMA OwnFailures ==
  /\ \A class \in {"ssrf_blocked", "network_error", "timeout", "internal_error"} :
       \A s : FromSite(Failure(class, s))
  /\ \A s : IsOutcome(Failure("executor_unavailable", s))
BY Outcomes DEF FromSite, Classes, NeverProceedable, DefaultProceedable

\* The fetcher is not asked.
LEMMA SkipKeeps == ASSUME IInv, Skip PROVE IInv'
<1> DEFINE out == Failure("executor_unavailable", NoStatus)
<1>1. IsOutcome(out) /\ out.class = "executor_unavailable"
  BY OwnFailures, Outcomes
<1>2. result = Pending /\ Record(out, 0, FALSE) /\ IsPull(Fetcher)
  BY DEF Skip, IInv, Typed, TypeOK, IsPull
<1>3. pullUsed + 0 <= PullBudget + DohTimeout
  BY DEF IInv, Typed, TypeOK, Timed
<1> QED
  BY <1>1, <1>2, <1>3, RecordStep

\* The first URL is checked by the Worker.
LEMMA AskKeeps ==
  ASSUME IInv, NEW f \in {"cf-http", "gcp-http", "home-http"}, MayAsk(f),
         NEW waited \in {0, DohTimeout},
         \/ Refused(waited)
         \/ StartUrl \in Guard /\ f = "cf-http" /\ Started("send", waited)
         \/ f # "cf-http" /\ Started("vet", waited)
  PROVE  IInv'
<1>1. /\ result = Pending /\ Fetcher = f /\ waited \in Nat /\ waited <= DohTimeout
      /\ kind = "check" => /\ Fetcher \notin unavailable
                           /\ IsPull(Fetcher) => Remaining >= MinPullWait
  BY TimeAssumption DEF MayAsk
<1>2. CASE Refused(waited)
  <2> DEFINE out == Failure("ssrf_blocked", NoStatus)
  <2>1. IsOutcome(out) /\ out.class # "executor_unavailable" /\ Record(out, waited, TRUE)
    BY <1>2, OwnFailures DEF FromSite, Refused
  <2> HIDE DEF out
  <2>2. kind = "check" /\ IsPull(Fetcher) => pullUsed + waited <= PullBudget + DohTimeout
    BY <1>1, TimeAssumption DEF IInv, Typed, TypeOK, Remaining
  <2> QED
    BY <1>1, <2>1, <2>2, RecordStep
<1>3. ASSUME NEW pc \in {"send", "vet"}, Started(pc, waited),
             pc = "send" => StartUrl \in Guard /\ f = "cf-http",
             pc = "vet" => f # "cf-http"
      PROVE  IInv'
  <2> DEFINE r == [NoReq EXCEPT !.pc = pc, !.url = StartUrl, !.waited = waited]
  <2>1. /\ r.pc = pc /\ r.url = StartUrl /\ r.redirects = 0 /\ r.waited = waited
        /\ r \in Requests /\ Goto(r)
    BY <1>1, <1>3, UrlAssumption DEF NoReq, Requests, Steps, Started
  <2> HIDE DEF r
  <2> QED
    BY <1>1, <1>3, <2>1, GotoStep, CountAssumption
<1> QED
  BY <1>2, <1>3

\* What is known of an attempt in flight
LEMMA InFlight ==
  ASSUME IInv, req.pc # "idle"
  PROVE  /\ req \in Requests /\ result = Pending
         /\ req.redirects \in Nat /\ req.redirects <= MaxRedirects
         /\ req.waited <= DohTimeout
         /\ kind = "check" => /\ Fetcher \notin unavailable
                              /\ IsPull(Fetcher) => Remaining >= MinPullWait
<1>1. req.redirects \in 0..MaxRedirects /\ req \in Requests
  BY DEF IInv, Typed, TypeOK
<1>2. result = Pending /\ (kind = "check" => Fetcher \notin unavailable)
  BY DEF IInv, Typed
<1>3. /\ req.waited <= DohTimeout
      /\ kind = "check" /\ IsPull(Fetcher) => Remaining >= MinPullWait
  BY DEF IInv, Timed
<1> QED
  BY <1>1, <1>2, <1>3, CountAssumption

\* The executor checks the URL and the addresses of its name.
LEMMA VetKeeps == ASSUME IInv, Vet PROVE IInv'
<1>1. req.pc = "vet" /\ req.pc # "idle" /\ req \in Requests
  BY InFlight DEF Vet
<1>2. \A class : ExecutorError(class).kind = "error"
  BY DEF ExecutorError
<1>3. CASE \E class : FinishPayload(ExecutorError(class))
  BY <1>1, <1>2, <1>3, PayloadStep
<1>4. ASSUME req.url \in ExecutorUrls, NEW a \in Addrs \ BlockedAddrs,
             Goto([req EXCEPT !.pc = "send", !.addr = a])
      PROVE  IInv'
  <2> DEFINE r == [req EXCEPT !.pc = "send", !.addr = a]
  <2>1. /\ r \in Requests /\ r.url = req.url /\ r.addr = a
        /\ r.redirects = req.redirects /\ r.waited = req.waited
    BY <1>1 DEF Requests, Steps
  <2>2. Goto(r)
    BY <1>4
  <2> HIDE DEF r
  <2> QED
    BY <1>1, <1>4, <2>1, <2>2, InFlight, GotoStep DEF IInv, Vetted
<1> QED
  BY <1>1, <1>3, <1>4 DEF Vet

\* The request is sent, to the address that was checked.
LEMMA SendKeeps == ASSUME IInv, Send PROVE IInv'
<1>1. req.pc = "send" /\ req.pc # "idle" /\ req \in Requests
  BY InFlight DEF Send
<1>2. PICK a \in Contact : Goto([req EXCEPT !.pc = "reply", !.addr = a])
  BY DEF Send
<1> DEFINE r == [req EXCEPT !.pc = "reply", !.addr = a]
<1>3. a \in Addrs \cup {"none"} /\ (Fetcher # "cf-http" => a = req.addr)
  BY <1>1 DEF Contact, Requests
<1>4. /\ r \in Requests /\ r.pc = "reply" /\ r.url = req.url /\ r.addr = a
      /\ r.redirects = req.redirects /\ r.waited = req.waited /\ Goto(r)
  BY <1>1, <1>2, <1>3 DEF Requests, Steps
<1> HIDE DEF r
<1> QED
  BY <1>1, <1>3, <1>4, InFlight, GotoStep DEF IInv, Vetted

LEMMA RequestFailsKeeps == ASSUME IInv, RequestFails PROVE IInv'
<1>1. req.pc # "idle"
  BY DEF RequestFails
<1>2. \A class : ExecutorError(class).kind = "error"
  BY DEF ExecutorError
<1> QED
  BY <1>1, <1>2, OwnFailures, FinishStep, PayloadStep DEF RequestFails, FromSite

\* The executor, or the way to it, fails.
LEMMA ExecutorKeeps ==
  ASSUME IInv, ExecutorRefuses \/ ExecutorLost \/ HomeUnavailable PROVE IInv'
<1>1. req.pc # "idle"
  BY DEF ExecutorRefuses, ExecutorLost, HomeUnavailable, AtExecutor
<1>2. CASE \E class \in {"network_error", "timeout", "internal_error"} :
              Finish(Failure(class, NoStatus))
  BY <1>1, <1>2, OwnFailures, FinishStep DEF FromSite
<1>3. CASE HomeUnavailable
  BY <1>1, <1>3, OwnFailures, FinishStep DEF HomeUnavailable, AtExecutor, IsPull
<1> QED
  BY <1>2, <1>3 DEF ExecutorRefuses, ExecutorLost

\* A redirect is followed: the next hop is to be checked, or has been.
LEMMA FollowKeeps ==
  ASSUME IInv, NEW url \in Urls, req.pc = "reply", req.redirects < MaxRedirects, FollowTo(url)
  PROVE  IInv'
<1> DEFINE pc == IF Fetcher = "cf-http" THEN "send" ELSE "vet"
           r == [req EXCEPT !.url = url, !.redirects = @ + 1, !.addr = "none", !.pc = pc]
<1>1. /\ req \in Requests /\ req.redirects \in Nat /\ req.pc # "idle"
      /\ req.redirects + 1 <= MaxRedirects
  BY InFlight, CountAssumption
<1>2. CASE Finish(Failure("ssrf_blocked", NoStatus))
  BY <1>1, <1>2, OwnFailures, FinishStep DEF FromSite
<1>3. CASE Goto(r) /\ (Fetcher = "cf-http" => url \in Guard)
  <2>1. pc \in Steps /\ pc \in {"send", "vet"} /\ (pc = "send" <=> Fetcher = "cf-http")
    BY DEF Steps
  <2> HIDE DEF pc
  <2>2. req.redirects + 1 \in Nat
    BY <1>1
  <2>3. /\ r \in Requests /\ r.pc = pc /\ r.url = url /\ r.waited = req.waited
        /\ r.redirects = req.redirects + 1
    BY <1>1, <2>1, <2>2 DEF Requests
  <2> HIDE DEF r
  <2> QED
    BY <1>1, <1>3, <2>1, <2>3, InFlight, GotoStep
<1> QED
  BY <1>2, <1>3 DEF FollowTo

\* The site answers.
LEMMA ReplyKeeps == ASSUME IInv, NEW resp, Reply(resp) PROVE IInv'
<1>1. req.pc = "reply" /\ req.pc # "idle"
  BY DEF Reply
<1>2. \A class : ExecutorError(class).kind = "error"
  BY DEF ExecutorError
<1>3. ExecutorPayload(resp, req.url).kind = "response"
  BY DEF ExecutorPayload
<1>4. CASE \/ Finish(Failure("network_error", resp.status))
           \/ FinishPayload(ExecutorError("network_error"))
           \/ Finish(Terminal(resp, req.url))
           \/ FinishPayload(ExecutorPayload(resp, req.url))
  BY <1>1, <1>2, <1>3, <1>4, OwnFailures, TerminalOutcomes, FinishStep, PayloadStep
     DEF FromSite
<1>5. CASE /\ resp.location \in Urls /\ ~(req.redirects >= MaxRedirects)
           /\ FollowTo(resp.location)
  <2>1. req.redirects < MaxRedirects
    BY <1>1, <1>5, InFlight, CountAssumption
  <2> QED
    BY <1>1, <1>5, <2>1, FollowKeeps
<1> QED
  BY <1>4, <1>5 DEF Reply

\* The body of the answer is lost.
LEMMA BodyBreaksKeeps == ASSUME IInv, NEW resp, BodyBreaks(resp) PROVE IInv'
<1>1. req.pc # "idle" /\ Finish(Failure("internal_error", NoStatus))
  BY DEF BodyBreaks
<1> QED
  BY <1>1, OwnFailures, FinishStep DEF FromSite

\* The next target starts at the first entry, without attempts.
LEMMA NextTargetKeeps == ASSUME IInv, NextTarget PROVE IInv'
<1>1. /\ pos' = 1 /\ log' = <<>> /\ result' = Pending /\ target' = target + 1
      /\ UNCHANGED <<kind, policy, req, unavailable, pullUsed, outages>>
      /\ target < Targets /\ result # Pending
  BY DEF NextTarget
<1>2. PlanLength(policy)' = PlanLength(policy) /\ PlanLength(policy) \in Nat
      /\ 1 \in 1..PlanLength(policy) /\ Guard' = Guard /\ req.pc = "idle"
  BY <1>1, PlanFits DEF IInv, Typed, TypeOK, PlanLength, Guard
<1>3. target' \in 1..Targets
  BY <1>1, CountAssumption DEF IInv, Typed, TypeOK
<1>4. Typed'
  BY <1>1, <1>2, <1>3 DEF IInv, Typed, TypeOK
<1>5. \A p : TriesOf(p, <<>>) = 0
  BY NoTries
<1>6. Ordered'
  BY <1>1, <1>5, CountAssumption DEF Ordered, Underway
<1>7. Vetted' /\ Timed' /\ Remembered'
  BY <1>1, <1>2 DEF IInv, Vetted, Timed, Remembered, Pending, Failure
<1> QED
  BY <1>4, <1>6, <1>7 DEF IInv

LEMMA StutterKeeps == ASSUME IInv, UNCHANGED vars PROVE IInv'
<1>1. UNCHANGED <<kind, policy, target, pos, req, log, result, unavailable, pullUsed, outages>>
  BY DEF vars
<1>2. /\ Fetcher' = Fetcher /\ Guard' = Guard /\ PlanLength(policy)' = PlanLength(policy)
      /\ Remaining' = Remaining
  BY <1>1 DEF Fetcher, Guard, PlanLength, Remaining
<1>3. Typed'
  BY <1>1, <1>2 DEF IInv, Typed, TypeOK
<1>4. Ordered'
  BY <1>1, <1>2 DEF IInv, Ordered, Legal, Underway, GivenUp
<1>5. Vetted' /\ Timed' /\ Remembered'
  BY <1>1, <1>2 DEF IInv, Vetted, Timed, Remembered
<1> QED
  BY <1>3, <1>4, <1>5 DEF IInv

THEOREM FetchInductive == Spec => []IInv
<1>1. IInv /\ [Next]_vars => IInv'
  <2> SUFFICES ASSUME IInv, [Next]_vars PROVE IInv'
    OBVIOUS
  <2>1. CASE Skip
    BY <2>1, SkipKeeps
  <2>2. CASE AskCf
    BY <2>2, AskKeeps DEF AskCf
  <2>3. CASE AskGcp
    BY <2>3, AskKeeps DEF AskGcp
  <2>4. CASE AskHome
    BY <2>4, AskKeeps DEF AskHome
  <2>5. CASE Vet
    BY <2>5, VetKeeps
  <2>6. CASE Send
    BY <2>6, SendKeeps
  <2>7. CASE RequestFails
    BY <2>7, RequestFailsKeeps
  <2>8. CASE ExecutorRefuses \/ ExecutorLost \/ HomeUnavailable
    BY <2>8, ExecutorKeeps
  <2>9. CASE NextTarget
    BY <2>9, NextTargetKeeps
  <2>10. CASE \E resp \in Responses : Reply(resp) \/ BodyBreaks(resp)
    BY <2>10, ReplyKeeps, BodyBreaksKeeps
  <2>11. CASE UNCHANGED vars
    BY <2>11, StutterKeeps
  <2> QED
    BY <2>1, <2>2, <2>3, <2>4, <2>5, <2>6, <2>7, <2>8, <2>9, <2>10, <2>11 DEF Next
<1> QED
  BY <1>1, Initially, PTL DEF Spec

-----------------------------------------------------------------------------
(* What it implies *)

\* The target and the entry are those of the check and its policy, redirects
\* stay within MAX_REDIRECTS, and only a Runner is ever found unavailable.
THEOREM FetchTypeOK == Spec => []TypeOK
<1>1. IInv => TypeOK
  BY DEF IInv, Typed
<1> QED
  BY <1>1, FetchInductive, PTL

\* runFetchSequence, over the whole history of a target: refusals are final,
\* entries are tried in order, and a failure is the outcome only where the
\* retries and the fetchers that may follow are used up.
THEOREM FetchAttemptsFollowPolicy == Spec => []AttemptsFollowPolicy
<1>1. IInv => AttemptsFollowPolicy
  <2> SUFFICES ASSUME IInv PROVE AttemptsFollowPolicy
    OBVIOUS
  <2>1. /\ \A i \in 1..(Len(log) - 1) : Legal(i)
        /\ \A p \in DOMAIN policy : TriesOf(p, log) <= Retries + 1
    BY DEF IInv, Ordered
  <2>2. ASSUME result # Pending, kind = "check", ~result.ok
        PROVE  LET last == log[Len(log)] IN
               /\ (last.class \in Transient /\ ~IsPull(policy[last.pos].id))
                     => TriesOf(last.pos, log) = Retries + 1
               /\ \/ last.class \in NeverProceedable
                  \/ last.class \notin policy[last.pos].proceedOn
                  \/ last.pos = PlanLength(policy)
    BY <2>2 DEF IInv, Ordered, GivenUp, Last, Fetcher
  <2> QED
    BY <2>1, <2>2 DEF AttemptsFollowPolicy
<1> QED
  BY <1>1, FetchInductive, PTL

\* The URL guard, the executors' checks and the check of the final URL: sites
\* are contacted, and pages given to callers, only where they may be, whatever
\* the redirects and the answers of the DNS.
THEOREM FetchAllowedUrlsOnly == Spec => []AllowedUrlsOnly
<1>1. IInv => AllowedUrlsOnly
  BY DEF IInv, Vetted, AllowedUrlsOnly
<1> QED
  BY <1>1, FetchInductive, PTL

\* PULL_WAIT_BUDGET_MS and the timeout of the DNS check against the lease: 55 and
\* 5 seconds within 60 in the code.
THEOREM FetchPullWaitFitsLease ==
  ASSUME PullBudget + DohTimeout <= LeaseTtl
  PROVE  Spec => []PullWaitFitsLease
<1>1. IInv => PullWaitFitsLease
  BY TimeAssumption DEF IInv, Typed, TypeOK, Timed, PullWaitFitsLease
<1> QED
  BY <1>1, FetchInductive, PTL

\* ctx.unavailableFetchers: one submission at most is left unanswered, whatever
\* the number of targets.
THEOREM FetchOneOutagePerCheck == Spec => []OneOutagePerCheck
<1>1. IInv => OneOutagePerCheck
  BY DEF IInv, Remembered, OneOutagePerCheck
<1> QED
  BY <1>1, FetchInductive, PTL
=============================================================================
