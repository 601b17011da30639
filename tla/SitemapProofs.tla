--------------------------- MODULE SitemapProofs ---------------------------
(***************************************************************************)
(* Proofs about SitemapTraversal, for every tree of sitemaps and all       *)
(* values of the limits.                                                   *)
(*                                                                         *)
(* What is cut off anywhere must hold back all sitemaps above it.  The     *)
(* code compares a count before and after the recursion; the invariant     *)
(* says why that is enough: of a sitemap that is still to be visited,      *)
(* nothing has been cut off, and what had been cut off when an index was   *)
(* entered does not belong to it.                                          *)
(***************************************************************************)
EXTENDS SitemapTraversal, NaturalsInduction, WellFoundedInduction, SequenceTheorems, TLAPS

-----------------------------------------------------------------------------
(* The tree *)

\* A set of numbers has a least one.
LEMMA LeastExists ==
  ASSUME NEW S \in SUBSET Nat, S # {}
  PROVE  \E m \in S : \A n \in S : m <= n
<1> DEFINE R == OpToRel(<, Nat)
<1>1. PICK m \in S : \A n \in S : <<n, m>> \notin R
  BY NatLessThanWellFounded, WFMin
<1>2. \A n \in S : ~(n < m)
  BY <1>1 DEF OpToRel
<1> QED
  BY <1>2

LEMMA Tree ==
  /\ Node \subseteq Nat \ {0}
  /\ \A n \in Node : Parent[n] \in Node \cup {0} /\ Parent[n] < n /\ Parent[n] \in Nat
<1>1. Parent \in [Node -> Index \cup {0}] /\ Index \subseteq Node
  BY TreeAssumption
<1>2. \A n \in Node : Parent[n] \in Node \cup {0}
  BY <1>1
<1>3. Node \subseteq Nat \ {0} /\ \A n \in Node : Parent[n] < n
  BY TreeAssumption
<1>4. \A n \in Node : Parent[n] \in Nat
  <2>1. Node \cup {0} \subseteq Nat
    BY TreeAssumption
  <2> QED
    BY <1>2, <2>1
<1> QED
  BY <1>2, <1>3, <1>4

\* Above obeys the equation that defines it: the sitemaps above n are those
\* every set that is closed under the listing carries down to n.
LEMMA AboveIs ==
  \A n \in Node \cup {0} : Above[n] = IF n = 0 THEN {} ELSE {n} \cup Above[Parent[n]]
<1> DEFINE Closed(S) == \A c \in Node : Parent[c] \in S => c \in S
           Up == [x \in Node \cup {0} |->
                    {a \in Node : \A S \in SUBSET Node : a \in S /\ Closed(S) => x \in S}]
<1>1. Up[0] = {}
  <2>1. 0 \notin Node /\ Closed(Node)
    BY Tree
  <2> QED
    BY <2>1
<1>2. ASSUME NEW n \in Node  PROVE Up[n] = {n} \cup Up[Parent[n]]
  <2>1. Parent[n] \in Node \cup {0}
    BY Tree
  <2>2. \A x \in Node \cup {0} : \A a :
          a \in Up[x] <=> a \in Node /\ \A S \in SUBSET Node : a \in S /\ Closed(S) => x \in S
    OBVIOUS
  <2> HIDE DEF Up
  <2>3. n \in Up[n]
    BY <2>2
  <2>4. ASSUME NEW a \in Up[Parent[n]]  PROVE a \in Up[n]
    BY <2>1, <2>2, <2>4
  <2>5. ASSUME NEW a \in Up[n], a # n  PROVE a \in Up[Parent[n]]
    <3>1. a \in Node
      BY <2>2, <2>5
    <3>2. ASSUME NEW S \in SUBSET Node, a \in S, Closed(S), Parent[n] \notin S  PROVE FALSE
      <4> DEFINE T == S \ {n}
      <4>1. T \in SUBSET Node /\ a \in T
        BY <2>5, <3>2
      <4>2. Closed(T)
        BY <3>2
      <4>3. n \notin T
        OBVIOUS
      <4> HIDE DEF T, Closed
      <4>4. \A R \in SUBSET Node : a \in R /\ Closed(R) => n \in R
        BY <2>2, <2>5
      <4> QED
        BY <4>1, <4>2, <4>3, <4>4
    <3> QED
      BY <2>1, <2>2, <3>1, <3>2
  <2> QED
    BY <2>3, <2>4, <2>5
<1>3. Up = [n \in Node \cup {0} |-> IF n = 0 THEN {} ELSE {n} \cup Up[Parent[n]]]
  <2>1. \A n \in Node \cup {0} : Up[n] = IF n = 0 THEN {} ELSE {n} \cup Up[Parent[n]]
    BY <1>1, <1>2
  <2>2. Up = [n \in Node \cup {0} |-> Up[n]]
    OBVIOUS
  <2> HIDE DEF Up
  <2> QED
    BY <2>1, <2>2
<1> HIDE DEF Up
<1>4. Above = [n \in Node \cup {0} |-> IF n = 0 THEN {} ELSE {n} \cup Above[Parent[n]]]
  BY <1>3 DEF Above
<1> QED
  BY <1>4

\* The same, where the prover needs no case of it
LEMMA AboveSteps ==
  /\ Above[0] = {}
  /\ \A n \in Node : Above[n] = {n} \cup Above[Parent[n]] /\ n \in Above[n]
<1>1. \A n \in Node : n # 0
  BY Tree
<1> QED
  BY <1>1, AboveIs

\* What is above a sitemap comes before it.
LEMMA AboveComesFirst ==
  \A n \in Node : \A a \in Above[n] : a \in Node /\ a <= n
<1> DEFINE Good(n) == \A a \in Above[n] : a \in Node /\ a <= n
           Bad == {n \in Node : ~Good(n)}
<1> SUFFICES ASSUME Bad # {}  PROVE FALSE
  OBVIOUS
<1>1. Bad \in SUBSET Nat
  BY Tree
<1>2. PICK m \in Bad : \A n \in Bad : m <= n
  BY <1>1, LeastExists
<1>3. m \in Node /\ m \in Nat /\ Parent[m] < m /\ Parent[m] \in Node \cup {0} /\ Parent[m] \in Nat
  BY <1>2, Tree
<1>4. ~(m <= Parent[m])
  BY <1>3
<1>5. Parent[m] \notin Bad
  BY <1>2, <1>4
<1>6. \A a \in Above[Parent[m]] : a \in Node /\ a <= Parent[m]
  <2>1. CASE Parent[m] = 0
    BY <2>1, AboveSteps
  <2>2. CASE Parent[m] \in Node
    BY <2>2, <1>5
  <2> QED
    BY <1>3, <2>1, <2>2
<1>7. \A a \in Above[m] : a = m \/ a \in Above[Parent[m]]
  BY <1>3, AboveSteps
<1>8. \A a \in Above[m] : a \in Node /\ a <= m
  <2> SUFFICES ASSUME NEW a \in Above[m]  PROVE a \in Node /\ a <= m
    OBVIOUS
  <2>1. CASE a = m
    BY <2>1, <1>3
  <2>2. CASE a \in Above[Parent[m]]
    <3>1. a \in Node /\ a <= Parent[m] /\ a \in Nat
      BY <2>2, <1>6, Tree
    <3> QED
      BY <3>1, <1>3
  <2> QED
    BY <1>7, <2>1, <2>2
<1> QED
  BY <1>2, <1>8

LEMMA AboveIsTransitive ==
  ASSUME NEW a, NEW b \in Node, a \in Above[b]
  PROVE  \A n \in Node : b \in Above[n] => a \in Above[n]
<1> DEFINE Bad == {n \in Node : b \in Above[n] /\ a \notin Above[n]}
<1> SUFFICES ASSUME Bad # {}  PROVE FALSE
  OBVIOUS
<1>1. Bad \in SUBSET Nat
  BY Tree
<1>2. PICK m \in Bad : \A n \in Bad : m <= n
  BY <1>1, LeastExists
<1>3. m \in Node /\ m \in Nat /\ Parent[m] < m /\ Parent[m] \in Node \cup {0} /\ Parent[m] \in Nat
  BY <1>2, Tree
<1>4. ~(m <= Parent[m])
  BY <1>3
<1>5. Parent[m] \notin Bad
  BY <1>2, <1>4
<1>6. b # m /\ b \in Above[Parent[m]]
  BY <1>2, <1>3, AboveSteps
<1>7. Parent[m] \in Node
  BY <1>3, <1>6, AboveSteps
<1>8. a \in Above[Parent[m]]
  BY <1>5, <1>6, <1>7
<1> QED
  BY <1>2, <1>3, <1>8, AboveSteps

\* No sitemap is below two that one index lists.
LEMMA SiblingsApart ==
  ASSUME NEW a \in Node, NEW b \in Node, a # b, Parent[a] = Parent[b]
  PROVE  \A n \in Node : a \in Above[n] => b \notin Above[n]
<1> DEFINE Bad == {n \in Node : a \in Above[n] /\ b \in Above[n]}
<1> SUFFICES ASSUME Bad # {}  PROVE FALSE
  OBVIOUS
<1>1. Bad \in SUBSET Nat
  BY Tree
<1>2. PICK m \in Bad : \A n \in Bad : m <= n
  BY <1>1, LeastExists
<1>3. m \in Node /\ m \in Nat /\ Parent[m] < m /\ Parent[m] \in Node \cup {0} /\ Parent[m] \in Nat
  BY <1>2, Tree
<1>4. ~(m <= Parent[m])
  BY <1>3
<1>5. Parent[m] \notin Bad
  BY <1>2, <1>4
<1>6. /\ Parent[a] < a /\ Parent[b] < b /\ a \in Nat /\ b \in Nat
      /\ Parent[a] \in Nat /\ Parent[b] \in Nat
  BY Tree
<1>7. \A c \in Above[Parent[m]] : Parent[m] \in Node /\ c <= Parent[m]
  <2>1. Parent[m] = 0 => Above[Parent[m]] = {}
    BY AboveSteps
  <2> QED
    BY <2>1, <1>3, AboveComesFirst
<1>8. CASE a = m
  <2>1. b \in Above[Parent[m]]
    BY <1>2, <1>3, <1>8, AboveSteps
  <2> QED
    BY <2>1, <1>6, <1>7, <1>8
<1>9. CASE b = m
  <2>1. a \in Above[Parent[m]]
    BY <1>2, <1>3, <1>9, AboveSteps
  <2> QED
    BY <2>1, <1>6, <1>7, <1>9
<1>10. CASE a # m /\ b # m
  <2>1. a \in Above[Parent[m]] /\ b \in Above[Parent[m]]
    BY <1>2, <1>3, <1>10, AboveSteps
  <2> QED
    BY <2>1, <1>5, <1>7
<1> QED
  BY <1>8, <1>9, <1>10

-----------------------------------------------------------------------------
(* The entries of an index *)

Entries == [n : Node, lastmod : 0 .. MaxPublished + 1]

\* Each sitemap once
Single(E) == \A d, e \in E : d.n = e.n => d = e

\* There is a newest entry, the first of them in the order of the document.
LEMMA FirstIsOne ==
  ASSUME NEW E \in SUBSET Entries, E # {}, Single(E)
  PROVE  First(E) \in E
<1> DEFINE Older(e) == (MaxPublished + 1) - e.lastmod
<1>1. \A e \in E : e.n \in Nat /\ e.lastmod \in Nat /\ Older(e) \in Nat
  <2>1. MaxPublished \in Nat
    BY LimitAssumption
  <2>2. \A e \in E : e.n \in Node /\ e.lastmod \in 0 .. MaxPublished + 1
    BY DEF Entries
  <2>3. Node \subseteq Nat
    BY Tree
  <2>4. \A l \in 0 .. MaxPublished + 1 : l \in Nat /\ (MaxPublished + 1) - l \in Nat
    BY <2>1
  <2> QED
    BY <2>2, <2>3, <2>4
<1>2. PICK newest \in E : \A e \in E : Older(newest) <= Older(e)
  <2> DEFINE A == {Older(e) : e \in E}
  <2>1. A \in SUBSET Nat /\ A # {}
    BY <1>1
  <2>2. PICK m \in A : \A n \in A : m <= n
    BY <2>1, LeastExists
  <2> QED
    BY <2>2
<1>3. \A e \in E : e.lastmod <= newest.lastmod
  <2>1. MaxPublished \in Nat
    BY LimitAssumption
  <2> QED
    BY <1>1, <1>2, <2>1
<1> DEFINE N == {e \in E : e.lastmod = newest.lastmod}
<1>4. PICK f \in N : \A e \in N : f.n <= e.n
  <2> DEFINE A == {e.n : e \in N}
  <2>1. A \in SUBSET Nat /\ A # {}
    BY <1>1
  <2>2. PICK m \in A : \A n \in A : m <= n
    BY <2>1, LeastExists
  <2> QED
    BY <2>2
<1>5. \A d \in E \ {f} : Before(f, d)
  <2> SUFFICES ASSUME NEW d \in E, d # f  PROVE Before(f, d)
    OBVIOUS
  <2>1. f \in E /\ f.lastmod = newest.lastmod /\ d.n # f.n
    BY DEF Single
  <2>2. CASE d.lastmod = newest.lastmod
    <3>1. f.n <= d.n
      BY <1>4, <2>2
    <3> QED
      BY <1>1, <2>1, <2>2, <3>1 DEF Before
  <2>3. CASE d.lastmod # newest.lastmod
    BY <1>1, <1>3, <2>1, <2>3 DEF Before
  <2> QED
    BY <2>2, <2>3
<1> QED
  BY <1>5 DEF First

\* What selectChildEntries yields are children of the index, each of them once.
LEMMA SelectedAre ==
  ASSUME NEW i, NEW since, listed \subseteq Node, shown \in [Node -> 0 .. MaxPublished + 1]
  PROVE  LET E == Selected(i, since)
         IN  /\ E \in SUBSET Entries /\ Single(E)
             /\ \A e \in E : Parent[e.n] = i
BY DEF Selected, Entries, Single

-----------------------------------------------------------------------------
(* The invariant *)

Frames == [of : Node \cup {0}, todo : SUBSET Entries, before : SUBSET Node]

Checks == [pc : {"register", "fetch", "process", "advance"}, first : BOOLEAN, since : Nat,
           stack : Seq(Frames), used : Nat, cut : SUBSET Node, body : SUBSET Nat]

Typed ==
  /\ listed \subseteq Node
  /\ shown \in [Node -> 0 .. MaxPublished + 1]
  /\ urls \in [Urlset -> SUBSET Nat]
  /\ cutoff \in Nat
  /\ watermark \in [Node -> Int]
  /\ lastChecked \in BOOLEAN
  /\ published \in 0 .. MaxPublished
  /\ check = Idle \/ check \in Checks

\* Nothing that is cut off is below n.
Clear(n, cut) == \A m \in cut : n \notin Above[m]

\* The entries of the frame at i that are still to be visited.  The first one
\* is under way below the frame at "under".
Waiting(stack, i, under) ==
  IF i = under THEN stack[i].todo ELSE stack[i].todo \ {First(stack[i].todo)}

Nested(stack, cut, under) ==
  \A i \in 1 .. Len(stack) :
    /\ \A e \in stack[i].todo : Parent[e.n] = stack[i].of
    /\ Single(stack[i].todo)
    /\ stack[i].of # 0 => Clear(stack[i].of, stack[i].before)
    /\ \A e \in Waiting(stack, i, under) : Clear(e.n, cut)
    /\ i = Len(stack) => stack[i].of = 0
    /\ i > 1 => stack[i].todo # {} /\ stack[i - 1].of = First(stack[i].todo).n
    /\ \A k \in 1 .. i : \A e \in stack[k].todo : stack[i].of # 0 => stack[i].of \in Above[e.n]

IInv == Typed /\ (check # Idle => Nested(check.stack, check.cut, 1))

-----------------------------------------------------------------------------
(* The stack *)

LEMMA WithoutIs ==
  ASSUME NEW stack \in Seq(Frames), stack # <<>>
  PROVE  /\ Without(stack) \in Seq(Frames) /\ Len(Without(stack)) = Len(stack)
         /\ Len(stack) \in Nat /\ Len(stack) >= 1
         /\ Without(stack)[1].todo = stack[1].todo \ {First(stack[1].todo)}
         /\ Without(stack)[1].of = stack[1].of
         /\ Without(stack)[1].before = stack[1].before
         /\ \A i \in 2 .. Len(stack) : Without(stack)[i] = stack[i]
<1> DEFINE top == [stack[1] EXCEPT !.todo = @ \ {First(@)}]
<1>1. Len(stack) \in Nat /\ Len(stack) >= 1 /\ Head(stack) = stack[1] /\ stack[1] \in Frames
  BY HeadTailProperties, LenProperties, ElementOfSeq
<1>2. Tail(stack) \in Seq(Frames) /\ Len(Tail(stack)) = Len(stack) - 1
      /\ \A i \in 1 .. Len(Tail(stack)) : Tail(stack)[i] = stack[i + 1]
  BY HeadTailProperties
<1>3. top \in Frames /\ top.of = stack[1].of /\ top.before = stack[1].before
      /\ top.todo = stack[1].todo \ {First(stack[1].todo)}
  BY <1>1 DEF Frames
<1>4. Without(stack) = <<top>> \o Tail(stack)
  BY <1>1 DEF Without
<1> HIDE DEF top
<1>5. <<top>> \in Seq(Frames) /\ Len(<<top>>) = 1 /\ <<top>>[1] = top
  BY <1>3
<1>6. /\ Without(stack) \in Seq(Frames) /\ Len(Without(stack)) = 1 + Len(Tail(stack))
      /\ \A i \in 1 .. 1 + Len(Tail(stack)) :
           Without(stack)[i] = IF i <= 1 THEN <<top>>[i] ELSE Tail(stack)[i - 1]
  BY <1>2, <1>4, <1>5, ConcatProperties
<1>7. Without(stack)[1] = top
  BY <1>1, <1>2, <1>5, <1>6
<1>8. \A i \in 2 .. Len(stack) : Without(stack)[i] = stack[i]
  <2> SUFFICES ASSUME NEW i \in 2 .. Len(stack)  PROVE Without(stack)[i] = stack[i]
    OBVIOUS
  <2>1. /\ i \in 1 .. 1 + Len(Tail(stack)) /\ ~(i <= 1) /\ i - 1 \in 1 .. Len(Tail(stack))
        /\ (i - 1) + 1 = i
    BY <1>1, <1>2
  <2> QED
    BY <1>2, <1>6, <2>1
<1> QED
  BY <1>1, <1>2, <1>3, <1>6, <1>7, <1>8

LEMMA PushedIs ==
  ASSUME NEW stack \in Seq(Frames), NEW f \in Frames
  PROVE  /\ <<f>> \o stack \in Seq(Frames) /\ Len(<<f>> \o stack) = Len(stack) + 1
         /\ Len(stack) \in Nat
         /\ (<<f>> \o stack)[1] = f
         /\ \A i \in 2 .. Len(stack) + 1 : (<<f>> \o stack)[i] = stack[i - 1]
<1>1. <<f>> \in Seq(Frames) /\ Len(<<f>>) = 1 /\ <<f>>[1] = f /\ Len(stack) \in Nat
  BY LenProperties
<1> DEFINE s == <<f>> \o stack
<1>2. /\ s \in Seq(Frames) /\ Len(s) = 1 + Len(stack)
      /\ \A i \in 1 .. 1 + Len(stack) : s[i] = IF i <= 1 THEN <<f>>[i] ELSE stack[i - 1]
  BY <1>1, ConcatProperties
<1> HIDE DEF s
<1>3. s[1] = f
  BY <1>1, <1>2
<1>4. \A i \in 2 .. Len(stack) + 1 : s[i] = stack[i - 1]
  BY <1>1, <1>2
<1>5. Len(s) = Len(stack) + 1
  BY <1>1, <1>2
<1> QED
  BY <1>1, <1>2, <1>3, <1>4, <1>5 DEF s

\* The loop goes on with the next entry, whatever became of the first.
LEMMA SkipChild ==
  ASSUME NEW stack \in Seq(Frames), stack # <<>>, NEW cut \in SUBSET Node,
         Nested(stack, cut, 0)
  PROVE  Nested(Without(stack), cut, 1)
<1> DEFINE s == Without(stack)
<1>1. /\ s \in Seq(Frames) /\ Len(s) = Len(stack) /\ Len(stack) \in Nat /\ Len(stack) >= 1
      /\ s[1].todo = stack[1].todo \ {First(stack[1].todo)}
      /\ s[1].of = stack[1].of /\ s[1].before = stack[1].before
      /\ \A i \in 2 .. Len(stack) : s[i] = stack[i]
  BY WithoutIs
<1> HIDE DEF s
<1>2. \A i \in 1 .. Len(stack) : s[i].todo \subseteq stack[i].todo /\ s[i].of = stack[i].of
                                 /\ s[i].before = stack[i].before
  BY <1>1
<1>3. \A i \in 1 .. Len(stack) : Waiting(s, i, 1) \subseteq Waiting(stack, i, 0)
  BY <1>1 DEF Waiting
<1>4. ASSUME NEW i \in 1 .. Len(s)
      PROVE  /\ \A e \in s[i].todo : Parent[e.n] = s[i].of
             /\ Single(s[i].todo)
             /\ s[i].of # 0 => Clear(s[i].of, s[i].before)
             /\ \A e \in Waiting(s, i, 1) : Clear(e.n, cut)
             /\ i = Len(s) => s[i].of = 0
             /\ i > 1 => s[i].todo # {} /\ s[i - 1].of = First(s[i].todo).n
             /\ \A k \in 1 .. i : \A e \in s[k].todo : s[i].of # 0 => s[i].of \in Above[e.n]
  <2>1. i \in 1 .. Len(stack)
    BY <1>1, <1>4
  <2>2. /\ \A e \in stack[i].todo : Parent[e.n] = stack[i].of
        /\ Single(stack[i].todo)
        /\ stack[i].of # 0 => Clear(stack[i].of, stack[i].before)
        /\ \A e \in Waiting(stack, i, 0) : Clear(e.n, cut)
        /\ i = Len(stack) => stack[i].of = 0
        /\ i > 1 => stack[i].todo # {} /\ stack[i - 1].of = First(stack[i].todo).n
        /\ \A k \in 1 .. i : \A e \in stack[k].todo : stack[i].of # 0 => stack[i].of \in Above[e.n]
    BY <2>1 DEF Nested
  <2>3. Single(s[i].todo)
    BY <1>2, <2>1, <2>2 DEF Single
  <2>4. i > 1 => s[i].todo # {} /\ s[i - 1].of = First(s[i].todo).n
    <3> SUFFICES ASSUME i > 1  PROVE s[i].todo # {} /\ s[i - 1].of = First(s[i].todo).n
      OBVIOUS
    <3>1. s[i] = stack[i] /\ i - 1 \in 1 .. Len(stack)
      BY <1>1, <2>1
    <3> QED
      BY <1>2, <2>2, <3>1
  <2>5. \A k \in 1 .. i : \A e \in s[k].todo : s[i].of # 0 => s[i].of \in Above[e.n]
    <3>1. \A k \in 1 .. i : s[k].todo \subseteq stack[k].todo
      BY <1>1, <1>2, <2>1
    <3> QED
      BY <1>2, <2>1, <2>2, <3>1
  <2> QED
    BY <1>1, <1>2, <1>3, <2>1, <2>2, <2>3, <2>4, <2>5
<1>5. Nested(s, cut, 1)
  BY <1>4 DEF Nested
<1> QED
  BY <1>5 DEF s

\* The first entry of the top comes under way, or is left.
LEMMA FirstUnderWay ==
  ASSUME NEW stack, NEW cut, Nested(stack, cut, 1)
  PROVE  Nested(stack, cut, 0)
BY DEF Nested, Waiting

\* What is cut off at or below the first entry of the top concerns none that waits.
LEMMA CutBelow ==
  ASSUME NEW stack \in Seq(Frames), stack # <<>>, stack[1].todo # {},
         NEW cut \in SUBSET Node, NEW more \in SUBSET Node,
         \A x \in more : First(stack[1].todo).n \in Above[x],
         Nested(stack, cut, 0)
  PROVE  Nested(stack, cut \cup more, 0)
<1> DEFINE child == First(stack[1].todo).n
<1>1. Len(stack) \in Nat /\ Len(stack) >= 1 /\ \A i \in 1 .. Len(stack) : stack[i] \in Frames
  BY HeadTailProperties, LenProperties, ElementOfSeq
<1>2. \A i \in 1 .. Len(stack) : First(stack[i].todo) \in stack[i].todo /\ stack[i].todo \subseteq Entries
  <2> SUFFICES ASSUME NEW i \in 1 .. Len(stack)
               PROVE  First(stack[i].todo) \in stack[i].todo /\ stack[i].todo \subseteq Entries
    OBVIOUS
  <2>1. stack[i].todo \in SUBSET Entries
    BY <1>1 DEF Frames
  <2>2. stack[i].todo # {} /\ Single(stack[i].todo)
    BY DEF Nested
  <2> QED
    BY <2>1, <2>2, FirstIsOne
<1>3. \A i \in 1 .. Len(stack) : First(stack[i].todo).n \in Above[child]
  <2> SUFFICES ASSUME NEW i \in 1 .. Len(stack)  PROVE First(stack[i].todo).n \in Above[child]
    OBVIOUS
  <2>1. CASE i = 1
    BY <1>2, <2>1, AboveSteps DEF Entries
  <2>2. CASE i > 1
    <3>1. stack[i - 1].of = First(stack[i].todo).n
      BY <2>2 DEF Nested
    <3>2. i - 1 \in 1 .. Len(stack) /\ 1 \in 1 .. i - 1
      BY <1>1, <2>2
    <3>3. stack[i - 1].of # 0
      BY <1>2, <3>1, Tree DEF Entries
    <3>4. First(stack[1].todo) \in stack[1].todo
      BY <1>1, <1>2
    <3>5. stack[i - 1].of \in Above[child]
      BY <3>2, <3>3, <3>4 DEF Nested
    <3> QED
      BY <3>1, <3>5
  <2> QED
    BY <2>1, <2>2
<1>4. ASSUME NEW i \in 1 .. Len(stack), NEW e \in Waiting(stack, i, 0)
      PROVE  Clear(e.n, cut \cup more)
  <2>1. e \in stack[i].todo /\ e # First(stack[i].todo)
    BY DEF Waiting
  <2>2. /\ e.n \in Node /\ First(stack[i].todo).n \in Node /\ child \in Node
        /\ Parent[e.n] = Parent[First(stack[i].todo).n] /\ e.n # First(stack[i].todo).n
    BY <1>1, <1>2, <2>1 DEF Nested, Single, Entries
  <2>3. \A x \in more : First(stack[i].todo).n \in Above[x]
    BY <1>3, <2>2, AboveIsTransitive
  <2>4. \A x \in more : e.n \notin Above[x]
    BY <2>2, <2>3, SiblingsApart
  <2>5. Clear(e.n, cut)
    BY DEF Nested
  <2> QED
    BY <2>4, <2>5 DEF Clear
<1> QED
  BY <1>4 DEF Nested

\* An index is entered: nothing of it has been cut off before.
LEMMA EnterIndex ==
  ASSUME NEW stack \in Seq(Frames), stack # <<>>, stack[1].todo # {},
         NEW cut \in SUBSET Node, Nested(stack, cut, 1),
         NEW E \in SUBSET Entries, Single(E),
         \A e \in E : Parent[e.n] = First(stack[1].todo).n
  PROVE  LET f == Frame(First(stack[1].todo).n, E, cut)
         IN  f \in Frames /\ Nested(<<f>> \o stack, cut \cup CutOff(E), 1)
<1> DEFINE c == First(stack[1].todo).n
           f == Frame(c, E, cut)
           s == <<f>> \o stack
           all == cut \cup CutOff(E)
<1>1. Len(stack) \in Nat /\ Len(stack) >= 1 /\ stack[1] \in Frames
  BY HeadTailProperties, LenProperties, ElementOfSeq
<1>2. First(stack[1].todo) \in stack[1].todo /\ c \in Node
  <2>1. stack[1].todo \in SUBSET Entries
    BY <1>1 DEF Frames
  <2>2. Single(stack[1].todo)
    BY <1>1 DEF Nested
  <2>3. First(stack[1].todo) \in stack[1].todo
    BY <2>1, <2>2, FirstIsOne
  <2> QED
    BY <2>1, <2>3 DEF Entries
<1>3. f \in Frames /\ f.of = c /\ f.todo = Kept(E) /\ f.before = cut /\ Kept(E) \subseteq E
  BY <1>2 DEF Frame, Frames, Kept
<1>4. \A e \in E : e.n \in Node /\ e.n \in Above[e.n] /\ c \in Above[e.n] /\ Above[e.n] = {e.n} \cup Above[c]
  <2>1. \A e \in E : e.n \in Node /\ Parent[e.n] = c
    BY DEF Entries
  <2> HIDE DEF c
  <2> QED
    BY <1>2, <2>1, AboveSteps
<1>5. CutOff(E) \subseteq Node /\ \A x \in CutOff(E) : c \in Above[x]
  BY <1>4 DEF CutOff
<1>6. Clear(c, cut)
  <2>1. First(stack[1].todo) \in Waiting(stack, 1, 1)
    BY <1>2 DEF Waiting
  <2> QED
    BY <1>1, <2>1 DEF Nested
<1>7. Nested(stack, all, 0)
  <2>1. Nested(stack, cut, 0)
    BY FirstUnderWay
  <2> QED
    BY <1>5, <2>1, CutBelow
<1>8. \A e \in Kept(E) : Clear(e.n, all)
  <2> SUFFICES ASSUME NEW e \in Kept(E), NEW m \in all  PROVE e.n \notin Above[m]
    BY DEF Clear
  <2>1. e \in E /\ e.n \in Node /\ c \in Above[e.n] /\ Parent[e.n] = c
    BY <1>3, <1>4
  <2>2. CASE m \in cut
    <3>1. c \notin Above[m] /\ m \in Node
      BY <1>6, <2>2 DEF Clear
    <3> QED
      BY <2>1, <3>1, AboveIsTransitive
  <2>3. CASE m \in CutOff(E)
    <3>1. PICK d \in E \ Kept(E) : m = d.n
      BY <2>3 DEF CutOff
    <3>2. d.n # e.n /\ Parent[d.n] = c /\ d.n \in Node /\ d.n \in Above[d.n]
      BY <1>4, <2>1, <3>1 DEF Single
    <3> QED
      BY <2>1, <3>1, <3>2, SiblingsApart
  <2> QED
    BY <2>2, <2>3
<1> HIDE DEF c, f, all
<1>9. /\ s \in Seq(Frames) /\ Len(s) = Len(stack) + 1 /\ s[1] = f
      /\ \A i \in 2 .. Len(stack) + 1 : s[i] = stack[i - 1]
  BY <1>3, PushedIs
<1> HIDE DEF s
<1>10. ASSUME NEW i \in 1 .. Len(s)
       PROVE  /\ \A e \in s[i].todo : Parent[e.n] = s[i].of
              /\ Single(s[i].todo)
              /\ s[i].of # 0 => Clear(s[i].of, s[i].before)
              /\ \A e \in Waiting(s, i, 1) : Clear(e.n, all)
              /\ i = Len(s) => s[i].of = 0
              /\ i > 1 => s[i].todo # {} /\ s[i - 1].of = First(s[i].todo).n
              /\ \A k \in 1 .. i : \A e \in s[k].todo : s[i].of # 0 => s[i].of \in Above[e.n]
  <2>1. CASE i = 1
    <3>1. s[i] = f /\ f.todo \subseteq E
      BY <1>3, <1>9, <2>1
    <3>2. \A e \in f.todo : Parent[e.n] = f.of
      BY <1>3 DEF c
    <3>3. Single(f.todo)
      BY <3>1 DEF Single
    <3>4. Clear(f.of, f.before)
      BY <1>3, <1>6
    <3>5. \A e \in Waiting(s, i, 1) : Clear(e.n, all)
      BY <1>3, <1>8, <2>1, <3>1 DEF Waiting
    <3>6. \A k \in 1 .. i : \A e \in s[k].todo : s[i].of # 0 => s[i].of \in Above[e.n]
      <4>1. \A k \in 1 .. i : k = 1
        BY <2>1
      <4> QED
        BY <1>3, <1>4, <1>9, <3>1, <4>1
    <3>7. i # Len(s)
      BY <1>1, <1>9, <2>1
    <3> QED
      BY <2>1, <3>1, <3>2, <3>3, <3>4, <3>5, <3>6, <3>7
  <2>2. CASE i # 1
    <3> DEFINE j == i - 1
    <3>1. j \in 1 .. Len(stack) /\ s[i] = stack[j] /\ i \in Nat /\ i > 1
      BY <1>1, <1>9, <2>2
    <3> HIDE DEF j
    <3>2. /\ \A e \in stack[j].todo : Parent[e.n] = stack[j].of
          /\ Single(stack[j].todo)
          /\ stack[j].of # 0 => Clear(stack[j].of, stack[j].before)
          /\ \A e \in Waiting(stack, j, 0) : Clear(e.n, all)
          /\ j = Len(stack) => stack[j].of = 0
          /\ j > 1 => stack[j].todo # {} /\ stack[j - 1].of = First(stack[j].todo).n
          /\ \A k \in 1 .. j : \A e \in stack[k].todo : stack[j].of # 0 => stack[j].of \in Above[e.n]
      BY <1>7, <3>1 DEF Nested
    <3>3. \A e \in Waiting(s, i, 1) : Clear(e.n, all)
      <4>1. Waiting(s, i, 1) = Waiting(stack, j, 0)
        BY <1>1, <2>2, <3>1 DEF Waiting
      <4> QED
        BY <3>2, <4>1
    <3>4. s[i].todo # {} /\ s[i - 1].of = First(s[i].todo).n
      <4>1. CASE j = 1
        BY <1>2, <1>3, <1>9, <3>1, <4>1 DEF c, j
      <4>2. CASE j > 1
        <5>1. i - 1 = j /\ s[j] = stack[j - 1]
          BY <1>1, <1>9, <3>1, <4>2 DEF j
        <5> QED
          BY <3>1, <3>2, <4>2, <5>1
      <4> QED
        BY <1>1, <3>1, <4>1, <4>2
    <3>5. \A k \in 1 .. i : \A e \in s[k].todo : s[i].of # 0 => s[i].of \in Above[e.n]
      <4> SUFFICES ASSUME NEW k \in 1 .. i, NEW e \in s[k].todo, stack[j].of # 0
                   PROVE  stack[j].of \in Above[e.n]
        BY <3>1
      <4>1. CASE k = 1
        <5>1. e \in E
          BY <1>3, <1>9, <4>1
        <5>2. stack[j].of \in Above[c]
          <6>1. 1 \in 1 .. j
            BY <1>1, <3>1
          <6> QED
            BY <1>2, <3>2, <6>1 DEF c
        <5> QED
          BY <1>4, <5>1, <5>2
      <4>2. CASE k # 1
        <5>1. k \in 2 .. Len(stack) + 1 /\ k - 1 \in 1 .. j
          BY <1>1, <3>1, <4>2 DEF j
        <5>2. s[k] = stack[k - 1]
          BY <1>9, <5>1
        <5> QED
          BY <3>2, <5>1, <5>2
      <4> QED
        BY <4>1, <4>2
    <3>6. i = Len(s) => j = Len(stack)
      BY <1>1, <1>9 DEF j
    <3> QED
      BY <3>1, <3>2, <3>3, <3>4, <3>5, <3>6
  <2> QED
    BY <2>1, <2>2
<1>11. Nested(s, all, 1)
  BY <1>10 DEF Nested
<1> QED
  BY <1>3, <1>11 DEF s, all, f, c

\* An index is left.  If nothing was cut off since it was entered, nothing of
\* it has been cut off.
LEMMA LeaveIndex ==
  ASSUME NEW stack \in Seq(Frames), stack # <<>>, NEW cut \in SUBSET Node,
         Nested(stack, cut, 1), stack[1].of # 0
  PROVE  LET below == Tail(stack)
         IN  /\ below \in Seq(Frames) /\ Nested(below, cut, 0)
             /\ cut = stack[1].before => Nested(below, cut, 1)
<1> DEFINE s == Tail(stack)
<1>1. /\ s \in Seq(Frames) /\ Len(s) = Len(stack) - 1
      /\ Len(stack) \in Nat /\ Len(stack) >= 1
      /\ \A i \in 1 .. Len(s) : s[i] = stack[i + 1]
  BY HeadTailProperties, LenProperties
<1> HIDE DEF s
<1>2. ASSUME NEW i \in 1 .. Len(s)
      PROVE  /\ \A e \in s[i].todo : Parent[e.n] = s[i].of
             /\ Single(s[i].todo)
             /\ s[i].of # 0 => Clear(s[i].of, s[i].before)
             /\ \A e \in Waiting(s, i, 0) : Clear(e.n, cut)
             /\ cut = stack[1].before => \A e \in Waiting(s, i, 1) : Clear(e.n, cut)
             /\ i = Len(s) => s[i].of = 0
             /\ i > 1 => s[i].todo # {} /\ s[i - 1].of = First(s[i].todo).n
             /\ \A k \in 1 .. i : \A e \in s[k].todo : s[i].of # 0 => s[i].of \in Above[e.n]
  <2> DEFINE j == i + 1
  <2>1. /\ j \in 1 .. Len(stack) /\ j > 1 /\ s[i] = stack[j] /\ j - 1 = i /\ i \in 1 .. Len(stack)
        /\ j # 1 /\ j # 0 /\ i # 0 /\ i \in Nat
    BY <1>1
  <2> HIDE DEF j
  <2>2. /\ \A e \in stack[j].todo : Parent[e.n] = stack[j].of
        /\ Single(stack[j].todo)
        /\ stack[j].of # 0 => Clear(stack[j].of, stack[j].before)
        /\ \A e \in Waiting(stack, j, 1) : Clear(e.n, cut)
        /\ j = Len(stack) => stack[j].of = 0
        /\ stack[j].todo # {} /\ stack[i].of = First(stack[j].todo).n
        /\ \A k \in 1 .. j : \A e \in stack[k].todo : stack[j].of # 0 => stack[j].of \in Above[e.n]
    BY <2>1 DEF Nested
  <2>3. \A e \in stack[j].todo \ {First(stack[j].todo)} : Clear(e.n, cut)
    BY <2>1, <2>2 DEF Waiting
  <2>4. \A e \in Waiting(s, i, 0) : Clear(e.n, cut)
    BY <2>1, <2>3 DEF Waiting
  <2>5. ASSUME cut = stack[1].before  PROVE \A e \in Waiting(s, i, 1) : Clear(e.n, cut)
    <3>1. CASE i = 1
      <4>1. Clear(stack[1].of, cut)
        <5>1. 1 \in 1 .. Len(stack)
          BY <1>1
        <5> QED
          BY <2>5, <5>1 DEF Nested
      <4>2. Clear(First(stack[j].todo).n, cut)
        BY <2>2, <3>1, <4>1
      <4>3. \A e \in stack[j].todo : Clear(e.n, cut)
        BY <2>3, <4>2
      <4> QED
        BY <2>1, <3>1, <4>3 DEF Waiting
    <3>2. CASE i # 1
      BY <2>1, <2>3, <3>2 DEF Waiting
    <3> QED
      BY <3>1, <3>2
  <2>6. i > 1 => s[i - 1].of = First(s[i].todo).n
    <3>1. i > 1 => i - 1 \in 1 .. Len(s) /\ (i - 1) + 1 = i
      BY <1>1, <2>1
    <3> QED
      BY <1>1, <2>1, <2>2, <3>1
  <2>7. \A k \in 1 .. i : \A e \in s[k].todo : s[i].of # 0 => s[i].of \in Above[e.n]
    <3>1. \A k \in 1 .. i : k \in 1 .. Len(s) /\ k + 1 \in 1 .. j
      BY <1>1, <2>1
    <3> QED
      BY <1>1, <2>1, <2>2, <3>1
  <2>8. i = Len(s) => j = Len(stack)
    BY <1>1, <2>1
  <2> QED
    BY <2>1, <2>2, <2>4, <2>5, <2>6, <2>7, <2>8
<1>3. Nested(s, cut, 0)
  BY <1>2 DEF Nested
<1>4. cut = stack[1].before => Nested(s, cut, 1)
  BY <1>2 DEF Nested
<1> QED
  BY <1>1, <1>3, <1>4 DEF s

-----------------------------------------------------------------------------
(* Steps *)

LEMMA Begins == Init => IInv
<1> SUFFICES ASSUME Init PROVE IInv
  OBVIOUS
<1>1. MaxPublished \in Nat /\ 1 \in 0 .. MaxPublished + 1 /\ 0 \in 0 .. MaxPublished
  BY LimitAssumption
<1>2. shown \in [Node -> 0 .. MaxPublished + 1]
  BY <1>1 DEF Init
<1>3. urls \in [Urlset -> SUBSET Nat] /\ watermark \in [Node -> Int]
  BY DEF Init, NoRow
<1>4. check = Idle /\ listed \subseteq Node /\ cutoff \in Nat /\ lastChecked \in BOOLEAN
  BY DEF Init
<1>5. published \in 0 .. MaxPublished
  BY <1>1 DEF Init
<1> QED
  BY <1>2, <1>3, <1>4, <1>5 DEF IInv, Typed

\* The entry under way, in a check that visits a child
LEMMA UnderWay ==
  ASSUME IInv, check # Idle, check.stack # <<>>, Top.todo # {}
  PROVE  /\ check \in Checks /\ check.stack \in Seq(Frames) /\ check.cut \in SUBSET Node
         /\ Top = check.stack[1] /\ Child = First(check.stack[1].todo).n
         /\ Child \in Node /\ Lastmod \in 0 .. MaxPublished + 1
         /\ Nested(check.stack, check.cut, 1)
<1>1. check \in Checks /\ Nested(check.stack, check.cut, 1)
  BY DEF IInv, Typed
<1>2. check.stack \in Seq(Frames) /\ check.cut \in SUBSET Node
  BY <1>1 DEF Checks
<1>3. Top = check.stack[1] /\ Top \in Frames /\ Len(check.stack) \in Nat /\ Len(check.stack) >= 1
  BY <1>2, HeadTailProperties, LenProperties, ElementOfSeq DEF Top
<1>4. Top.todo \in SUBSET Entries /\ Single(Top.todo)
  BY <1>1, <1>3 DEF Frames, Nested
<1>5. First(Top.todo) \in Entries
  BY <1>4, FirstIsOne
<1>6. Child = First(Top.todo).n /\ Lastmod = First(Top.todo).lastmod
  BY DEF Child, Lastmod
<1> HIDE DEF Top, Child, Lastmod
<1> QED
  BY <1>1, <1>2, <1>3, <1>5, <1>6 DEF Entries

\* The next child is visited, after the first was left or cut off.
LEMMA GoesOn ==
  ASSUME IInv, check # Idle, check.stack # <<>>, Top.todo # {},
         NEW used \in Nat, NEW body \in SUBSET Nat, NEW more \in SUBSET {Child},
         check' = [check EXCEPT !.pc = "register", !.stack = Without(@), !.used = used,
                                !.body = body, !.cut = @ \cup more],
         UNCHANGED site, watermark' \in [Node -> Int], lastChecked' \in BOOLEAN
  PROVE  IInv'
<1>1. /\ check \in Checks /\ check.stack \in Seq(Frames) /\ check.cut \in SUBSET Node
      /\ Top = check.stack[1] /\ Child = First(check.stack[1].todo).n /\ Child \in Node
      /\ Nested(check.stack, check.cut, 1)
  BY UnderWay
<1>2. more \in SUBSET Node /\ \A x \in more : Child \in Above[x]
  BY <1>1, AboveSteps
<1>3. Nested(check.stack, check.cut \cup more, 0)
  <2>1. Nested(check.stack, check.cut, 0)
    BY <1>1, FirstUnderWay
  <2>2. check.stack[1].todo # {}
    BY <1>1
  <2> QED
    BY <1>1, <1>2, <2>1, <2>2, CutBelow
<1>4. Nested(Without(check.stack), check.cut \cup more, 1)
  BY <1>1, <1>2, <1>3, SkipChild
<1>5. Without(check.stack) \in Seq(Frames)
  BY <1>1, WithoutIs
<1>6. /\ check' \in Checks /\ check'.stack = Without(check.stack)
      /\ check'.cut = check.cut \cup more
  BY <1>1, <1>2, <1>5 DEF Checks
<1>7. Nested(check.stack, check.cut, 1)'
  BY <1>4, <1>6 DEF Nested, Waiting, Clear, Single
<1>8. Typed'
  BY <1>6 DEF IInv, Typed, site
<1> QED
  BY <1>7, <1>8 DEF IInv

\* The check stays where it is in the tree.
LEMMA Stays ==
  ASSUME IInv, check # Idle, check' \in Checks, check'.stack = check.stack, check'.cut = check.cut,
         UNCHANGED site, watermark' \in [Node -> Int], lastChecked' \in BOOLEAN
  PROVE  IInv'
<1>1. Nested(check.stack, check.cut, 1)'
  BY DEF IInv, Nested, Waiting, Clear, Single
<1>2. Typed'
  BY DEF IInv, Typed, site
<1> QED
  BY <1>1, <1>2 DEF IInv

LEMMA FetchRootKeeps ==
  ASSUME IInv, FetchRoot
  PROVE  IInv'
<1> DEFINE E == Selected(0, cutoff)
           f == Frame(0, E, {})
<1>1. E \in SUBSET Entries /\ Single(E) /\ \A e \in E : Parent[e.n] = 0
  BY SelectedAre DEF IInv, Typed
<1>2. check' = [pc |-> "register", first |-> ~lastChecked, since |-> cutoff,
                stack |-> <<f>>, used |-> 0, cut |-> CutOff(E), body |-> {}]
  BY DEF FetchRoot
<1>3. UNCHANGED <<listed, shown, urls, cutoff, published, watermark, lastChecked>>
  BY DEF FetchRoot, site
<1> HIDE DEF E
<1>4. f \in Frames /\ f.of = 0 /\ f.todo = Kept(E) /\ f.before = {} /\ Kept(E) \subseteq E
  BY <1>1 DEF Frame, Frames, Kept
<1>5. CutOff(E) \subseteq Node
  BY <1>1 DEF CutOff, Entries
<1> HIDE DEF f
<1>6. <<f>> \in Seq(Frames) /\ Len(<<f>>) = 1 /\ <<f>>[1] = f
  BY <1>4
<1>7. check' \in Checks /\ check'.stack = <<f>> /\ check'.cut = CutOff(E)
  BY <1>2, <1>5, <1>6 DEF Checks, IInv, Typed
<1>8. \A e \in Kept(E) : Clear(e.n, CutOff(E))
  <2> SUFFICES ASSUME NEW e \in Kept(E), NEW d \in E \ Kept(E)  PROVE e.n \notin Above[d.n]
    BY DEF Clear, CutOff
  <2>1. /\ e.n # d.n /\ e.n \in Node /\ d.n \in Node /\ Parent[e.n] = Parent[d.n]
        /\ d.n \in Above[d.n]
    BY <1>1, <1>4, AboveSteps DEF Single, Entries
  <2> QED
    BY <2>1, SiblingsApart
<1>9. Nested(<<f>>, CutOff(E), 1)
  <2> SUFFICES ASSUME NEW i \in 1 .. Len(<<f>>)
               PROVE  /\ i = 1
                      /\ \A e \in f.todo : Parent[e.n] = f.of
                      /\ Single(f.todo)
                      /\ f.of = 0
                      /\ \A e \in f.todo : Clear(e.n, CutOff(E))
    BY <1>6 DEF Nested, Waiting
  <2> QED
    BY <1>1, <1>4, <1>6, <1>8 DEF Single
<1>10. Nested(check.stack, check.cut, 1)'
  BY <1>7, <1>9 DEF Nested, Waiting, Clear, Single
<1>11. Typed'
  BY <1>3, <1>7 DEF IInv, Typed
<1> QED
  BY <1>10, <1>11 DEF IInv

LEMMA RegisterKeeps ==
  ASSUME IInv, Register
  PROVE  IInv' /\ \A n \in Node : watermark'[n] >= watermark[n]
<1>1. check # Idle /\ check.stack # <<>> /\ Top.todo # {}
  BY DEF Register, At
<1>2. /\ check \in Checks /\ Child \in Node /\ Lastmod \in 0 .. MaxPublished + 1
  BY <1>1, UnderWay
<1>3. check.used \in Nat /\ check.body \in SUBSET Nat
  BY <1>2 DEF Checks
<1>4. /\ UNCHANGED <<site, lastChecked>>
      /\ \/ NextChild
         \/ Goto("fetch")
      /\ watermark' \in {watermark, [watermark EXCEPT ![Child] = Upserted(@)]}
  BY DEF Register
<1>5. watermark \in [Node -> Int] /\ lastChecked \in BOOLEAN /\ MaxPublished \in Nat
  BY LimitAssumption DEF IInv, Typed
<1>6. watermark' \in [Node -> Int] /\ \A n \in Node : watermark'[n] >= watermark[n]
  <2>1. Lastmod \in Int /\ Lastmod >= 0
    BY <1>2, <1>5
  <2>2. \A w \in Int : Upserted(w) \in Int /\ Upserted(w) >= w
    BY <2>1 DEF Upserted, NoRow
  <2> HIDE DEF Upserted
  <2>3. CASE watermark' = watermark
    BY <1>5, <2>3
  <2>4. CASE watermark' = [watermark EXCEPT ![Child] = Upserted(watermark[Child])]
    <3>1. \A n \in Node : watermark'[n] = IF n = Child THEN Upserted(watermark[n]) ELSE watermark[n]
      BY <1>2, <1>5, <2>4
    <3>2. watermark' \in [Node -> Int]
      BY <1>2, <1>5, <2>2, <2>4
    <3> QED
      BY <1>5, <2>2, <3>1, <3>2
  <2> QED
    BY <1>4, <2>3, <2>4
<1>7. CASE NextChild
  <2>1. check' = [check EXCEPT !.pc = "register", !.stack = Without(@), !.used = check.used,
                                !.body = check.body, !.cut = @ \cup {}]
    BY <1>2, <1>7 DEF NextChild, Checks
  <2>2. \E more \in SUBSET {Child}, used \in Nat, body \in SUBSET Nat :
          check' = [check EXCEPT !.pc = "register", !.stack = Without(@), !.used = used,
                                 !.body = body, !.cut = @ \cup more]
    BY <1>3, <2>1
  <2>3. UNCHANGED site /\ lastChecked' \in BOOLEAN
    BY <1>4, <1>5
  <2> QED
    BY <1>1, <1>6, <2>2, <2>3, GoesOn
<1>8. CASE Goto("fetch")
  <2>1. check' \in Checks /\ check'.stack = check.stack /\ check'.cut = check.cut
    BY <1>2, <1>8 DEF Goto, Checks
  <2> QED
    BY <1>1, <1>4, <1>5, <1>6, <2>1, Stays
<1> QED
  BY <1>4, <1>6, <1>7, <1>8

\* A child is left or cut off, with no watermark moved.
LEMMA PassesBy ==
  ASSUME IInv, \/ FetchRefused
               \/ \E n \in Node : Disallowed(n) \/ FetchFails(n)
  PROVE  IInv' /\ UNCHANGED watermark
<1>1. /\ check # Idle /\ check.stack # <<>> /\ Top.todo # {}
      /\ UNCHANGED <<site, watermark, lastChecked>>
  BY DEF FetchRefused, Disallowed, FetchFails, At
<1>2. check \in Checks /\ Child \in Node
  BY <1>1, UnderWay
<1>3. check.used \in Nat /\ check.used + 1 \in Nat /\ check.body \in SUBSET Nat
  BY <1>2 DEF Checks
<1>4. watermark \in [Node -> Int] /\ lastChecked \in BOOLEAN
  BY DEF IInv, Typed
<1>5. \E more \in SUBSET {Child}, used \in Nat :
        check' = [check EXCEPT !.pc = "register", !.stack = Without(@), !.used = used,
                               !.body = check.body, !.cut = @ \cup more]
  <2>1. CASE FetchRefused
    <3>1. check' = [check EXCEPT !.pc = "register", !.stack = Without(@), !.used = check.used,
                                 !.body = check.body, !.cut = @ \cup {Child}]
      BY <1>2, <2>1 DEF FetchRefused, CutChild, Checks
    <3> QED
      BY <1>3, <3>1
  <2>2. CASE \E n \in Node : Disallowed(n)
    <3>1. check' = [check EXCEPT !.pc = "register", !.stack = Without(@), !.used = check.used,
                                 !.body = check.body, !.cut = @ \cup {}]
      BY <1>2, <2>2 DEF Disallowed, NextChild, Checks
    <3> QED
      BY <1>3, <3>1
  <2>3. CASE \E n \in Node : FetchFails(n)
    <3>1. check' = [check EXCEPT !.pc = "register", !.stack = Without(@), !.used = check.used + 1,
                                 !.body = check.body, !.cut = @ \cup {}]
      BY <1>2, <2>3 DEF FetchFails, Checks
    <3> QED
      BY <1>3, <3>1
  <2> QED
    BY <2>1, <2>2, <2>3
<1> QED
  BY <1>1, <1>3, <1>4, <1>5, GoesOn

LEMMA FetchUrlsetKeeps ==
  ASSUME IInv, NEW n \in Node, FetchUrlset(n)
  PROVE  IInv' /\ UNCHANGED watermark
<1>1. /\ check # Idle /\ check.stack # <<>> /\ Top.todo # {} /\ n \in Urlset
      /\ UNCHANGED <<site, watermark, lastChecked>>
  BY DEF FetchUrlset, At
<1>2. check \in Checks
  BY <1>1, UnderWay
<1> DEFINE body == {d \in urls[n] : d >= check.since}
<1>3. body \in SUBSET Nat /\ check.used + 1 \in Nat
  BY <1>1, <1>2 DEF IInv, Typed, Checks
<1>4. check' \in Checks /\ check'.stack = check.stack /\ check'.cut = check.cut
  <2>1. check' = [check EXCEPT !.pc = "process", !.used = check.used + 1, !.body = body]
    BY DEF FetchUrlset
  <2> HIDE DEF body
  <2> QED
    BY <1>2, <1>3, <2>1 DEF Checks
<1>5. watermark \in [Node -> Int] /\ lastChecked \in BOOLEAN
  BY DEF IInv, Typed
<1> QED
  BY <1>1, <1>4, <1>5, Stays

LEMMA FetchIndexKeeps ==
  ASSUME IInv, NEW n \in Node, FetchIndex(n)
  PROVE  IInv' /\ UNCHANGED watermark
<1> DEFINE E == Selected(n, check.since)
           f == Frame(n, E, check.cut)
<1>1. /\ check # Idle /\ check.stack # <<>> /\ Top.todo # {} /\ n = Child
      /\ UNCHANGED <<site, watermark, lastChecked>>
  BY DEF FetchIndex, At
<1>2. /\ check \in Checks /\ check.stack \in Seq(Frames) /\ check.cut \in SUBSET Node
      /\ Top = check.stack[1] /\ Child = First(check.stack[1].todo).n
      /\ Nested(check.stack, check.cut, 1)
  BY <1>1, UnderWay
<1>3. watermark \in [Node -> Int] /\ lastChecked \in BOOLEAN
  BY DEF IInv, Typed
<1>4. CASE Len(check.stack) < MaxDepth
  <2>1. check' = [check EXCEPT !.pc = "register", !.used = @ + 1, !.stack = <<f>> \o @,
                               !.cut = @ \cup CutOff(E)]
    BY <1>4 DEF FetchIndex
  <2>2. E \in SUBSET Entries /\ Single(E) /\ \A e \in E : Parent[e.n] = n
    BY SelectedAre DEF IInv, Typed
  <2> HIDE DEF E
  <2>3. f \in Frames /\ Nested(<<f>> \o check.stack, check.cut \cup CutOff(E), 1)
    <3>1. check.stack[1].todo # {}
      BY <1>1, <1>2
    <3>2. \A e \in E : Parent[e.n] = First(check.stack[1].todo).n
      BY <1>1, <1>2, <2>2
    <3>3. f = Frame(First(check.stack[1].todo).n, E, check.cut)
      BY <1>1, <1>2
    <3> HIDE DEF f
    <3>4. LET g == Frame(First(check.stack[1].todo).n, E, check.cut)
          IN  g \in Frames /\ Nested(<<g>> \o check.stack, check.cut \cup CutOff(E), 1)
      BY <1>1, <1>2, <2>2, <3>1, <3>2, EnterIndex
    <3> QED
      BY <3>3, <3>4
  <2> HIDE DEF f
  <2> DEFINE s == <<f>> \o check.stack
             all == check.cut \cup CutOff(E)
  <2>4. s \in Seq(Frames)
    BY <1>2, <2>3, PushedIs
  <2>5. all \in SUBSET Node /\ check.used + 1 \in Nat
    BY <1>2, <2>2 DEF CutOff, Entries, Checks
  <2>6. check' = [check EXCEPT !.pc = "register", !.used = check.used + 1, !.stack = s, !.cut = all]
    BY <2>1
  <2>7. Nested(s, all, 1)
    BY <2>3
  <2> HIDE DEF s, all
  <2>8. check' \in Checks /\ check'.stack = s /\ check'.cut = all
    BY <1>2, <2>4, <2>5, <2>6 DEF Checks
  <2>9. Nested(check.stack, check.cut, 1)'
    BY <2>7, <2>8 DEF Nested, Waiting, Clear, Single
  <2>10. Typed'
    BY <1>1, <2>8 DEF IInv, Typed, site
  <2> QED
    BY <1>1, <2>9, <2>10 DEF IInv
<1>5. CASE ~(Len(check.stack) < MaxDepth)
  <2>1. check' = [check EXCEPT !.pc = "register", !.stack = Without(@), !.used = check.used + 1,
                               !.body = check.body, !.cut = @ \cup {Child}]
    BY <1>1, <1>2, <1>5 DEF FetchIndex, Checks
  <2>2. \E more \in SUBSET {Child}, used \in Nat, body \in SUBSET Nat :
          check' = [check EXCEPT !.pc = "register", !.stack = Without(@), !.used = used,
                                 !.body = body, !.cut = @ \cup more]
    <3>1. check.used + 1 \in Nat /\ check.body \in SUBSET Nat
      BY <1>2 DEF Checks
    <3> QED
      BY <2>1, <3>1
  <2> QED
    BY <1>1, <1>3, <2>2, GoesOn
<1> QED
  BY <1>4, <1>5

LEMMA ProcessKeeps ==
  ASSUME IInv, Process
  PROVE  IInv' /\ UNCHANGED watermark
<1>1. /\ check # Idle /\ check.stack # <<>> /\ Top.todo # {}
      /\ UNCHANGED <<site, watermark, lastChecked>>
  BY DEF Process, At
<1>2. check \in Checks
  BY <1>1, UnderWay
<1>3. watermark \in [Node -> Int] /\ lastChecked \in BOOLEAN
  BY DEF IInv, Typed
<1>4. \/ check' = [check EXCEPT !.pc = "register", !.stack = Without(@), !.body = {},
                                !.cut = @ \cup {Child}]
      \/ check' = [check EXCEPT !.pc = "advance", !.body = {}]
  BY DEF Process
<1>5. CASE check' = [check EXCEPT !.pc = "register", !.stack = Without(@), !.body = {},
                                  !.cut = @ \cup {Child}]
  <2>1. check' = [check EXCEPT !.pc = "register", !.stack = Without(@), !.used = check.used,
                               !.body = {}, !.cut = @ \cup {Child}]
    BY <1>2, <1>5 DEF Checks
  <2>2. \E more \in SUBSET {Child}, used \in Nat, body \in SUBSET Nat :
          check' = [check EXCEPT !.pc = "register", !.stack = Without(@), !.used = used,
                                 !.body = body, !.cut = @ \cup more]
    <3>1. check.used \in Nat
      BY <1>2 DEF Checks
    <3> QED
      BY <2>1, <3>1
  <2> QED
    BY <1>1, <1>3, <2>2, GoesOn
<1>6. CASE check' = [check EXCEPT !.pc = "advance", !.body = {}]
  <2>1. check' \in Checks /\ check'.stack = check.stack /\ check'.cut = check.cut
    BY <1>2, <1>6 DEF Checks
  <2> QED
    BY <1>1, <1>3, <2>1, Stays
<1> QED
  BY <1>4, <1>5, <1>6

\* The one step that moves the watermark of a sitemap that has one.
LEMMA AdvanceKeeps ==
  ASSUME IInv, Advance
  PROVE  /\ IInv' /\ Child \in Node /\ Clear(Child, check.cut)
         /\ \A n \in Node : watermark'[n] >= watermark[n] /\ (n # Child => watermark'[n] = watermark[n])
<1>1. /\ check # Idle /\ check.stack # <<>> /\ Top.todo # {}
      /\ UNCHANGED <<site, lastChecked>>
  BY DEF Advance, At
<1>2. /\ check \in Checks /\ check.stack \in Seq(Frames) /\ check.cut \in SUBSET Node
      /\ Top = check.stack[1] /\ Child = First(check.stack[1].todo).n /\ Child \in Node
      /\ Lastmod \in 0 .. MaxPublished + 1
      /\ Nested(check.stack, check.cut, 1)
  BY <1>1, UnderWay
<1>3. watermark \in [Node -> Int] /\ lastChecked \in BOOLEAN /\ Lastmod \in Int
  BY <1>2 DEF IInv, Typed
<1>4. watermark' = [watermark EXCEPT ![Child] =
                      IF watermark[Child] < Lastmod THEN Lastmod ELSE watermark[Child]]
  BY DEF Advance
<1>5. \A n \in Node : watermark'[n] >= watermark[n] /\ (n # Child => watermark'[n] = watermark[n])
  BY <1>2, <1>3, <1>4
<1>6. watermark' \in [Node -> Int]
  BY <1>2, <1>3, <1>4
<1>7. Clear(Child, check.cut)
  <2>1. Len(check.stack) \in Nat /\ Len(check.stack) >= 1 /\ check.stack[1] \in Frames
    BY <1>1, <1>2, HeadTailProperties, LenProperties, ElementOfSeq
  <2>2. 1 \in 1 .. Len(check.stack)
    BY <2>1
  <2>3. check.stack[1].todo \in SUBSET Entries /\ Single(check.stack[1].todo)
    BY <1>2, <2>1, <2>2 DEF Frames, Nested
  <2>4. First(check.stack[1].todo) \in check.stack[1].todo
    BY <1>1, <1>2, <2>3, FirstIsOne
  <2>5. First(check.stack[1].todo) \in Waiting(check.stack, 1, 1)
    BY <2>4 DEF Waiting
  <2> QED
    BY <1>2, <2>2, <2>5 DEF Nested
<1>8. \E more \in SUBSET {Child}, used \in Nat, body \in SUBSET Nat :
        check' = [check EXCEPT !.pc = "register", !.stack = Without(@), !.used = used,
                               !.body = body, !.cut = @ \cup more]
  <2>1. check' = [check EXCEPT !.pc = "register", !.stack = Without(@), !.used = check.used,
                               !.body = check.body, !.cut = @ \cup {}]
    BY <1>2 DEF Advance, NextChild, Checks
  <2>2. check.used \in Nat /\ check.body \in SUBSET Nat
    BY <1>2 DEF Checks
  <2> QED
    BY <2>1, <2>2
<1>9. UNCHANGED site /\ lastChecked' \in BOOLEAN
  BY <1>1, <1>3
<1>10. IInv'
  BY <1>1, <1>6, <1>8, <1>9, GoesOn
<1> QED
  BY <1>2, <1>5, <1>7, <1>10

LEMMA ReturnKeeps ==
  ASSUME IInv, Return
  PROVE  IInv' /\ UNCHANGED watermark
<1> DEFINE below == Tail(check.stack)
           top == check.stack[1]
<1>1. /\ check # Idle /\ check.stack # <<>> /\ UNCHANGED <<site, watermark, lastChecked>>
      /\ Top.of # 0
  BY DEF Return
<1>2. /\ check \in Checks /\ check.stack \in Seq(Frames) /\ check.cut \in SUBSET Node
      /\ Nested(check.stack, check.cut, 1)
  BY <1>1 DEF IInv, Typed, Checks
<1>3. Top = top
  BY <1>1, <1>2, HeadTailProperties DEF Top
<1>4. /\ below \in Seq(Frames) /\ Nested(below, check.cut, 0)
      /\ check.cut = top.before => Nested(below, check.cut, 1)
  BY <1>1, <1>2, <1>3, LeaveIndex
<1>5. below # <<>>
  <2>1. Len(check.stack) \in Nat /\ Len(check.stack) >= 1 /\ Len(below) = Len(check.stack) - 1
    BY <1>1, <1>2, HeadTailProperties, LenProperties
  <2>2. 1 = Len(check.stack) => top.of = 0
    BY <1>2, <2>1 DEF Nested
  <2>3. Len(below) # 0
    BY <1>1, <1>3, <2>1, <2>2
  <2>4. Len(<<>>) = 0
    OBVIOUS
  <2> HIDE DEF below
  <2> QED
    BY <2>3, <2>4
<1>6. watermark \in [Node -> Int] /\ lastChecked \in BOOLEAN
  BY DEF IInv, Typed
<1>7. \/ /\ check.cut = top.before
         /\ check' = [check EXCEPT !.pc = "advance", !.stack = below]
      \/ check' = [check EXCEPT !.stack = Without(below)]
  BY <1>3 DEF Return, Complete
<1> HIDE DEF below, top
<1>8. PICK s : /\ s \in Seq(Frames) /\ Nested(s, check.cut, 1)
               /\ \/ check' = [check EXCEPT !.pc = "advance", !.stack = s]
                  \/ check' = [check EXCEPT !.stack = s]
  <2>1. Without(below) \in Seq(Frames) /\ Nested(Without(below), check.cut, 1)
    BY <1>2, <1>4, <1>5, WithoutIs, SkipChild
  <2> QED
    BY <1>4, <1>7, <2>1
<1>9. check' \in Checks /\ check'.stack = s /\ check'.cut = check.cut
  BY <1>2, <1>8 DEF Checks
<1>10. Nested(check.stack, check.cut, 1)'
  BY <1>8, <1>9 DEF Nested, Waiting, Clear, Single
<1>11. Typed'
  BY <1>1, <1>6, <1>9 DEF IInv, Typed, site
<1> QED
  BY <1>1, <1>10, <1>11 DEF IInv

\* The check ends, or none begins.
LEMMA EndKeeps ==
  ASSUME IInv, Finish \/ Crash \/ Throw \/ FetchNothing
  PROVE  IInv' /\ UNCHANGED watermark
<1>1. UNCHANGED <<site, watermark>> /\ lastChecked' \in {TRUE, lastChecked}
      /\ check' \in {Idle, check}
  BY DEF Finish, Crash, Throw, FetchNothing
<1>2. CASE check' = Idle
  BY <1>1, <1>2 DEF IInv, Typed, site
<1>3. CASE check' = check
  BY <1>1, <1>3 DEF IInv, Typed, site, Nested, Waiting, Clear, Single
<1> QED
  BY <1>1, <1>2, <1>3

\* What the site does leaves the check and the watermarks alone.
LEMMA SiteKeeps ==
  ASSUME IInv, \/ \E n \in Node : Withdraw(n) \/ Wobble(n)
               \/ \E n \in Urlset : Publish(n)
               \/ Age
  PROVE  IInv' /\ UNCHANGED watermark
<1>1. UNCHANGED <<watermark, lastChecked, check>>
  BY DEF Withdraw, Wobble, Publish, Change, Age
<1>2. MaxPublished \in Nat /\ published \in 0 .. MaxPublished
  BY LimitAssumption DEF IInv, Typed
<1>3. Typed'
  <2>1. CASE \E n \in Node : Withdraw(n)
    BY <1>1, <1>2, <2>1 DEF Withdraw, Change, IInv, Typed
  <2>2. CASE \E n \in Node : Wobble(n)
    <3>1. PICK n \in Node : Wobble(n)
      BY <2>2
    <3>2. PICK d \in 0 .. shown[n] - 1 : shown' = [shown EXCEPT ![n] = d]
      BY <3>1 DEF Wobble
    <3>3. d \in 0 .. MaxPublished + 1
      <4>1. shown[n] \in 0 .. MaxPublished + 1
        BY DEF IInv, Typed
      <4> QED
        BY <1>2, <4>1
    <3>4. shown' \in [Node -> 0 .. MaxPublished + 1]
      BY <3>2, <3>3 DEF IInv, Typed
    <3>5. published' \in 0 .. MaxPublished
      BY <1>2, <3>1 DEF Wobble, Change
    <3> QED
      BY <1>1, <3>1, <3>4, <3>5 DEF Wobble, Change, IInv, Typed
  <2>3. CASE \E n \in Urlset : Publish(n)
    <3>1. PICK n \in Urlset : Publish(n)
      BY <2>3
    <3>2. n \in Node /\ Above[n] \subseteq Node
      BY AboveComesFirst DEF Urlset
    <3>3. published + 2 \in 0 .. MaxPublished + 1 /\ published + 2 \in Nat /\ published' \in 0 .. MaxPublished
      BY <1>2, <3>1 DEF Publish, Change
    <3>4. listed' \subseteq Node
      BY <3>1, <3>2 DEF Publish, IInv, Typed
    <3>5. shown' \in [Node -> 0 .. MaxPublished + 1]
      BY <3>1, <3>3 DEF Publish, IInv, Typed
    <3>6. urls' \in [Urlset -> SUBSET Nat]
      BY <3>1, <3>3 DEF Publish, IInv, Typed
    <3>7. UNCHANGED cutoff
      BY <3>1 DEF Publish, Change
    <3> QED
      BY <1>1, <3>3, <3>4, <3>5, <3>6, <3>7 DEF IInv, Typed
  <2>4. CASE Age
    <3>1. cutoff' \in Nat /\ UNCHANGED <<listed, shown, urls, published>>
      BY <2>4 DEF Age, IInv, Typed
    <3> QED
      BY <1>1, <3>1 DEF IInv, Typed
  <2> QED
    BY <2>1, <2>2, <2>3, <2>4
<1>4. check # Idle => Nested(check.stack, check.cut, 1)'
  BY <1>1 DEF IInv, Nested, Waiting, Clear, Single
<1> QED
  BY <1>1, <1>3, <1>4 DEF IInv

\* A step that moves a watermark is the first registration of a sitemap or its
\* Advance, with nothing below it cut off.
LEMMA StepOf ==
  ASSUME IInv, [Next]_vars
  PROVE  /\ IInv'
         /\ \A n \in Node : watermark'[n] >= watermark[n]
         /\ check # Idle /\ check.pc = "advance" =>
              \A n \in Node : watermark'[n] # watermark[n] => Clear(n, check.cut)
<1>1. \A n \in Node : watermark[n] \in Int
  BY DEF IInv, Typed
<1>2. CASE Register
  <2>1. check.pc = "register"
    BY <1>2 DEF Register, At
  <2> QED
    BY <1>2, <2>1, RegisterKeeps
<1>3. CASE Advance
  BY <1>3, AdvanceKeeps
<1>4. ASSUME IInv' /\ UNCHANGED watermark
      PROVE  /\ IInv'
             /\ \A n \in Node : watermark'[n] >= watermark[n]
             /\ check # Idle /\ check.pc = "advance" =>
                  \A n \in Node : watermark'[n] # watermark[n] => Clear(n, check.cut)
  BY <1>1, <1>4
<1>5. CASE FetchRoot
  <2>1. UNCHANGED watermark
    BY <1>5 DEF FetchRoot
  <2> QED
    BY <1>4, <1>5, <2>1, FetchRootKeeps
<1>6. CASE FetchNothing \/ Finish \/ Crash \/ Throw
  BY <1>4, <1>6, EndKeeps
<1>7. CASE FetchRefused \/ \E n \in Node : Disallowed(n) \/ FetchFails(n)
  BY <1>4, <1>7, PassesBy
<1>8. CASE Process
  BY <1>4, <1>8, ProcessKeeps
<1>9. CASE Return
  BY <1>4, <1>9, ReturnKeeps
<1>10. CASE \E n \in Node : FetchChild(n)
  BY <1>4, <1>10, FetchUrlsetKeeps, FetchIndexKeeps DEF FetchChild
<1>11. CASE \/ \E n \in Node : Withdraw(n) \/ Wobble(n)
            \/ \E n \in Urlset : Publish(n)
            \/ Age
  BY <1>4, <1>11, SiteKeeps
<1>12. CASE UNCHANGED vars
  <2>1. IInv'
    BY <1>12 DEF vars, IInv, Typed, Nested, Waiting, Clear, Single
  <2> QED
    BY <1>4, <1>12, <2>1 DEF vars
<1> QED
  BY <1>2, <1>3, <1>5, <1>6, <1>7, <1>8, <1>9, <1>10, <1>11, <1>12 DEF Next, Processor

-----------------------------------------------------------------------------
(* Theorems *)

LEMMA Invariance == Spec => []IInv
<1>1. IInv /\ [Next]_vars => IInv'
  BY StepOf
<1> QED
  BY Begins, <1>1, PTL DEF Spec

\* What is cut off by any limit, however deep, keeps back the watermark of every
\* sitemap above it in this check (the comparison with truncatedBefore in
\* traverseChild), for every tree and all values of the limits.
THEOREM CutOffIsHeldBack == Spec => CutOffHoldsBack
<1>1. ASSUME IInv, [Next]_vars
      PROVE  [\A n \in Node :
                (check # Idle /\ check.pc = "advance" /\ watermark'[n] # watermark[n])
                  => Below(n) \cap check.cut = {}]_vars
  <2> SUFFICES ASSUME NEW n \in Node, check # Idle, check.pc = "advance",
                      watermark'[n] # watermark[n]
               PROVE  Below(n) \cap check.cut = {}
    OBVIOUS
  <2>1. Clear(n, check.cut)
    BY <1>1, StepOf
  <2> QED
    BY <2>1 DEF Clear, Below
<1> QED
  BY Invariance, <1>1, PTL DEF Spec, CutOffHoldsBack

\* The watermark of a sitemap never moves backward, although the lastmod an
\* index shows does (the gate of traverseChild and setTargetLastKnownUpdatedAt).
THEOREM WatermarksMoveForward == Spec => WatermarkOnlyForward
<1>1. ASSUME IInv, [Next]_vars
      PROVE  [\A n \in Node : watermark'[n] >= watermark[n]]_vars
  BY <1>1, StepOf
<1> QED
  BY Invariance, <1>1, PTL DEF Spec, WatermarkOnlyForward
=============================================================================
