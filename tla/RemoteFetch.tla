---------------------------- MODULE RemoteFetch ----------------------------
(***************************************************************************)
(* What the CrawlerObject promises to the checks that use it and to the    *)
(* sites they read (ADR-0023): a check that asks for a page gets exactly   *)
(* one answer, the page is given to at most one runner and at most once,   *)
(* and only what a runner has been given can be answered with a result.    *)
(***************************************************************************)
EXTENDS Naturals

CONSTANT Job

VARIABLES
  asked,     \* the jobs a check has asked for
  given,     \* how often each job has been handed to a runner
  answer     \* what the check got

vars == <<asked, given, answer>>

Init ==
  /\ asked = {}
  /\ given = [j \in Job |-> 0]
  /\ answer = [j \in Job |-> "none"]

Ask(j) ==
  /\ j \notin asked
  /\ asked' = asked \cup {j}
  /\ UNCHANGED <<given, answer>>

\* One lease response carries several jobs.
Give(S) ==
  /\ S \subseteq asked
  /\ \A j \in S : given[j] = 0
  /\ given' = [j \in Job |-> IF j \in S THEN 1 ELSE given[j]]
  /\ UNCHANGED <<asked, answer>>

AnswerResult(j) ==
  /\ j \in asked
  /\ answer[j] = "none"
  /\ given[j] = 1
  /\ answer' = [answer EXCEPT ![j] = "result"]
  /\ UNCHANGED <<asked, given>>

\* One reset or one alarm may end the wait of several checks.
AnswerUnavailable(S) ==
  /\ S \subseteq asked
  /\ \A j \in S : answer[j] = "none"
  /\ answer' = [j \in Job |-> IF j \in S THEN "unavailable" ELSE answer[j]]
  /\ UNCHANGED <<asked, given>>

Next ==
  \/ \E j \in Job : Ask(j) \/ AnswerResult(j)
  \/ \E S \in SUBSET Job : Give(S) \/ AnswerUnavailable(S)

Spec == Init /\ [][Next]_vars
=============================================================================
