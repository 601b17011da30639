------------------------- MODULE SitemapTraversal --------------------------
(***************************************************************************)
(* The recipe "traverse" of a sitemap index (ADR-0010 mode B): a check     *)
(* reads the index, fetches the child sitemaps whose lastmod is newer than *)
(* their watermark, descends into nested indexes, and announces the urls   *)
(* of the urlsets.  Limits on children, depth, fetches and urls cut work   *)
(* off; what is cut off is left to a later check by leaving watermarks     *)
(* where they are.                                                         *)
(*                                                                         *)
(* The recursion of traverseChild and traverseSitemapIndex is the stack in *)
(* check.stack.  A urlset is the set of the dates of its urls.  What       *)
(* processFeedItems does with them is one step here and the subject of     *)
(* ContentPipeline.  Child sitemaps have no snapshot, so only the request  *)
(* for the root is conditional.                                            *)
(***************************************************************************)
EXTENDS Integers, Sequences, FiniteSets

CONSTANTS
  Node,         \* sitemaps below the root, numbered in the order of documents
  Parent,       \* the index that lists each of them, 0 for the root
  Index,        \* those that are indexes themselves
  Foreign,      \* those outside the origin of the site
  Failing,      \* those whose fetch may fail
  Conditional,  \* TRUE if the site answers 304 to an unchanged root
  MaxChildren,  \* MAX_CHILD_SITEMAPS
  MaxFetches,   \* MAX_TRAVERSAL_FETCHES_PER_CHECK
  MaxDepth,     \* source.config.maxDepth
  MaxItems,     \* MAX_FEED_ITEMS_PER_CHECK
  MaxPublished, \* bound: changes of the site
  MaxLosses     \* bound: checks that end in a crash or an exception

ASSUME TreeAssumption ==
  /\ Node \subseteq Nat \ {0} /\ IsFiniteSet(Node)
  /\ Parent \in [Node -> Index \cup {0}]
  /\ \A n \in Node : Parent[n] < n
  /\ {Index, Foreign, Failing} \subseteq SUBSET Node
ASSUME LimitAssumption ==
  /\ {MaxChildren, MaxFetches, MaxDepth, MaxItems} \subseteq Nat \ {0}
  /\ {MaxPublished, MaxLosses} \subseteq Nat
  /\ Conditional \in BOOLEAN

VARIABLES
  listed,      \* the sitemaps their index lists
  shown,       \* the lastmod their index shows, 0 for none
  urls,        \* the dates of the urls of each urlset
  cutoff,      \* now - lastmodMaxAgeDays
  watermark,   \* targets.last_known_updated_at, -1 without a row
  root,        \* the root document of the latest snapshot, if any
  lastChecked, \* monitors.last_checked_at is not null
  announced,   \* changes made and fanned out for the urls of each urlset
  check,       \* the check in flight
  published, losses

site == <<listed, shown, urls, cutoff, published>>
vars == <<listed, shown, urls, cutoff, watermark, root, lastChecked, announced,
          check, published, losses>>

Urlset == Node \ Index
Date == 1..MaxPublished + 1
NoRow == -1
Idle == [pc |-> "idle"]

\* The sitemaps above n, and n
Above[n \in Node \cup {0}] == IF n = 0 THEN {} ELSE {n} \cup Above[Parent[n]]

\* What a fetch of the root yields
RootDocument == [n \in {c \in listed : Parent[c] = 0} |-> shown[n]]

Init ==
  /\ listed = Node
  /\ shown = [n \in Node |-> 1]
  /\ urls = [n \in Urlset |-> {1}]
  /\ cutoff = 1
  /\ watermark = [n \in Node |-> NoRow]
  /\ root = {}
  /\ lastChecked = FALSE
  /\ announced = [n \in Urlset |-> {}]
  /\ check = Idle
  /\ published = 0 /\ losses = 0

-----------------------------------------------------------------------------
(* traverseSitemapIndex *)

\* Mutant of Recent: a lastmod on the cutoff is too old
RecentOffByOne(lastmod, since) == lastmod > since
Recent(lastmod, since) == lastmod # 0 /\ lastmod >= since

\* selectChildEntries: within the cutoff, and the order they are sorted in: the newest first
Selected(index, since) ==
  {[n |-> c, lastmod |-> shown[c]] :
     c \in {d \in listed : Parent[d] = index /\ Recent(shown[d], since)}}
Before(a, b) == a.lastmod > b.lastmod \/ (a.lastmod = b.lastmod /\ a.n < b.n)
First(entries) == CHOOSE e \in entries : \A d \in entries \ {e} : Before(e, d)

\* The first MaxChildren of them, and those that are cut off
Kept(entries) == {e \in entries : Cardinality({d \in entries : Before(d, e)}) < MaxChildren}
CutOff(entries) == {e.n : e \in entries \ Kept(entries)}

\* The call for one index.  cut are the sitemaps cut off so far, whose number
\* is the truncationTotal of the code.
Frame(index, entries, cut) == [of |-> index, todo |-> Kept(entries), before |-> cut]

\* processSitemapTraversal: createSnapshot of the root, then its children
FetchRoot ==
  /\ check = Idle
  /\ ~(Conditional /\ RootDocument \in root)
  /\ root' = {RootDocument}
  /\ LET entries == Selected(0, cutoff)
     IN  check' = [pc |-> "register", first |-> ~lastChecked, since |-> cutoff,
                   stack |-> <<Frame(0, entries, {})>>, used |-> 0,
                   cut |-> CutOff(entries), body |-> {}]
  /\ UNCHANGED <<site, watermark, lastChecked, announced, losses>>

\* 304, a failure, or a body that is no sitemap: finishJob only
FetchNothing ==
  /\ check = Idle
  /\ lastChecked' = TRUE
  /\ UNCHANGED <<site, watermark, root, announced, check, losses>>

-----------------------------------------------------------------------------
(* traverseChild *)

Top == Head(check.stack)
Child == First(Top.todo).n
Lastmod == First(Top.todo).lastmod

At(pc) == check # Idle /\ check.pc = pc /\ check.stack # <<>> /\ Top.todo # {}
Goto(pc) == check' = [check EXCEPT !.pc = pc]

\* The loop goes on with the next child of stack's top.
Without(stack) == <<[Head(stack) EXCEPT !.todo = @ \ {First(@)}]>> \o Tail(stack)
NextChild == check' = [check EXCEPT !.pc = "register", !.stack = Without(@)]
CutChild == check' = [check EXCEPT !.pc = "register", !.stack = Without(@),
                                   !.cut = @ \cup {Child}]

\* The gate: an existing child is fetched only if its lastmod is newer.
Gated == watermark[Child] # NoRow /\ Lastmod <= watermark[Child]

\* upsertTarget: a new row starts with the lastmod as its watermark.
\* Mutant of Upserted: an existing row is brought up to date as well
UpsertedAlways(w) == Lastmod
Upserted(w) == IF w = NoRow THEN Lastmod ELSE w

Register ==
  /\ At("register")
  /\ IF Child \in Foreign
     THEN NextChild /\ UNCHANGED watermark
     ELSE /\ IF check.first \/ Gated THEN NextChild ELSE Goto("fetch")
          /\ watermark' = [watermark EXCEPT ![Child] = Upserted(@)]
  /\ UNCHANGED <<site, root, lastChecked, announced, losses>>

\* Mutant of BudgetLeft: one request too many
BudgetLeftOffByOne == check.used <= MaxFetches
BudgetLeft == check.used < MaxFetches

\* Refused by the address check or by robots.txt: the child is left as it is.
Disallowed(n) ==
  /\ At("fetch") /\ Child = n
  /\ n \in Failing
  /\ NextChild
  /\ UNCHANGED <<site, watermark, root, lastChecked, announced, losses>>

FetchRefused ==
  /\ At("fetch")
  /\ ~BudgetLeft
  /\ CutChild
  /\ UNCHANGED <<site, watermark, root, lastChecked, announced, losses>>

\* Failed, without a body or not to be parsed: the child is left as it is.
FetchFails(n) ==
  /\ At("fetch") /\ Child = n
  /\ BudgetLeft
  /\ n \in Failing
  /\ check' = [check EXCEPT !.pc = "register", !.stack = Without(@), !.used = @ + 1]
  /\ UNCHANGED <<site, watermark, root, lastChecked, announced, losses>>

\* A urlset: filterItemsForTraversal, then processFeedItems
FetchUrlset(n) ==
  /\ At("fetch") /\ Child = n
  /\ BudgetLeft
  /\ n \in Urlset
  /\ check' = [check EXCEPT !.pc = "process", !.used = @ + 1,
                            !.body = {d \in urls[n] : d >= check.since}]
  /\ UNCHANGED <<site, watermark, root, lastChecked, announced, losses>>

\* A nested index: the call of traverseSitemapIndex, unless it is too deep
FetchIndex(n) ==
  /\ At("fetch") /\ Child = n
  /\ BudgetLeft
  /\ n \in Index
  /\ LET entries == Selected(n, check.since)
     IN  check' =
           IF Len(check.stack) < MaxDepth
           THEN [check EXCEPT !.pc = "register", !.used = @ + 1,
                              !.stack = <<Frame(n, entries, check.cut)>> \o @,
                              !.cut = @ \cup CutOff(entries)]
           ELSE [check EXCEPT !.pc = "register", !.used = @ + 1,
                              !.stack = Without(@), !.cut = @ \cup {n}]
  /\ UNCHANGED <<site, watermark, root, lastChecked, announced, losses>>

\* processFeedItems takes the first MaxItems urls; the oldest come first here.
Process ==
  /\ At("process")
  /\ LET taken == {d \in check.body : Cardinality({e \in check.body : e < d}) < MaxItems}
     IN  /\ announced' = [announced EXCEPT ![Child] = @ \cup taken]
         /\ check' = IF taken # check.body
                     THEN [check EXCEPT !.pc = "register", !.stack = Without(@), !.body = {},
                                        !.cut = @ \cup {Child}]
                     ELSE [check EXCEPT !.pc = "advance", !.body = {}]
  /\ UNCHANGED <<site, watermark, root, lastChecked, losses>>

\* setTargetLastKnownUpdatedAt, which only moves a watermark forward
Advance ==
  /\ At("advance")
  /\ watermark' = [watermark EXCEPT ![Child] = IF @ < Lastmod THEN Lastmod ELSE @]
  /\ NextChild
  /\ UNCHANGED <<site, root, lastChecked, announced, losses>>

\* traverseSitemapIndex returns to the traverseChild that called it, which
\* advances only if nothing was cut off in between.
\* Mutant of Complete: what the budget of fetches cuts off does not count
CompleteButBudget(frame) == check.cut = frame.before \/ check.used = MaxFetches
Complete(frame) == check.cut = frame.before

Return ==
  /\ check # Idle /\ check.stack # <<>>
  /\ Top.todo = {} /\ Top.of # 0
  /\ LET below == Tail(check.stack)
     IN  check' = IF Complete(Top)
                  THEN [check EXCEPT !.pc = "advance", !.stack = below]
                  ELSE [check EXCEPT !.stack = Without(below)]
  /\ UNCHANGED <<site, watermark, root, lastChecked, announced, losses>>

\* finishJob
Finish ==
  /\ check # Idle
  /\ Top.todo = {} /\ Top.of = 0
  /\ check' = Idle
  /\ lastChecked' = TRUE
  /\ UNCHANGED <<site, watermark, root, announced, losses>>

-----------------------------------------------------------------------------
(* Failures and the site *)

\* The isolate dies.
Crash ==
  /\ check # Idle
  /\ losses < MaxLosses
  /\ check' = Idle
  /\ losses' = losses + 1
  /\ UNCHANGED <<site, watermark, root, lastChecked, announced>>

\* A call throws: runMonitorCheck settles the job with finishJob and rethrows.
Throw ==
  /\ check # Idle
  /\ losses < MaxLosses
  /\ check' = Idle
  /\ lastChecked' = TRUE
  /\ losses' = losses + 1
  /\ UNCHANGED <<site, watermark, root, announced>>

Change ==
  /\ published < MaxPublished
  /\ published' = published + 1
  /\ UNCHANGED <<cutoff, watermark, root, lastChecked, announced, check, losses>>

\* A url appears in a urlset, and the lastmod of all above it says so.
Publish(n) ==
  /\ Change
  /\ urls' = [urls EXCEPT ![n] = @ \cup {published + 2}]
  /\ shown' = [m \in Node |-> IF m \in Above[n] THEN published + 2 ELSE shown[m]]
  /\ listed' = listed \cup Above[n]

\* A sitemap is withdrawn from its index.
Withdraw(n) ==
  /\ Change
  /\ n \in listed
  /\ listed' = listed \ {n}
  /\ UNCHANGED <<urls, shown>>

\* An index shows an older lastmod again, or none.
Wobble(n) ==
  /\ Change
  /\ \E d \in 0..shown[n] - 1 : shown' = [shown EXCEPT ![n] = d]
  /\ UNCHANGED <<urls, listed>>

\* Days pass.
Age ==
  /\ cutoff <= published
  /\ cutoff' = cutoff + 1
  /\ UNCHANGED <<listed, shown, urls, watermark, root, lastChecked, announced, check,
                 published, losses>>

Processor ==
  \/ Register \/ FetchRefused \/ Process \/ Advance \/ Return \/ Finish

FetchChild(n) == FetchUrlset(n) \/ FetchIndex(n)

Next ==
  \/ FetchRoot \/ FetchNothing
  \/ Processor
  \/ \E n \in Node : Disallowed(n) \/ FetchFails(n) \/ FetchChild(n) \/ Withdraw(n) \/ Wobble(n)
  \/ \E n \in Urlset : Publish(n)
  \/ Crash \/ Throw
  \/ Age

Spec == Init /\ [][Next]_vars

\* A check that has started goes on, the monitor is checked again and again
\* (MonitorScheduler!ActiveIsChecked), and no sitemap is out of reach for good.
Fairness ==
  /\ WF_vars(Processor) /\ SF_vars(FetchRoot)
  /\ WF_vars(\E n \in Node : Disallowed(n) \/ FetchFails(n) \/ FetchChild(n))
  /\ \A n \in Failing : SF_vars(FetchChild(n))

FairSpec == Spec /\ Fairness

-----------------------------------------------------------------------------
(* Properties *)

\* All variables stay in their ranges: a check never makes more requests than
\* its budget, and never descends deeper than maxDepth.
TypeOK ==
  /\ listed \subseteq Node
  /\ shown \in [Node -> Date \cup {0}]
  /\ urls \in [Urlset -> SUBSET Date]
  /\ cutoff \in Date
  /\ watermark \in [Node -> Date \cup {NoRow}]
  /\ lastChecked \in BOOLEAN
  /\ announced \in [Urlset -> SUBSET Date]
  /\ published \in 0..MaxPublished
  /\ losses \in 0..MaxLosses
  /\ check = Idle \/
       /\ check.pc \in {"register", "fetch", "process", "advance"}
       /\ check.first \in BOOLEAN
       /\ check.since \in Date
       /\ check.used \in 0..MaxFetches
       /\ check.cut \subseteq Node
       /\ check.body \subseteq Date
       /\ Len(check.stack) \in 1..MaxDepth
       /\ \A i \in DOMAIN check.stack :
            LET f == check.stack[i]
            IN  /\ f.of \in Index \cup {0}
                /\ Cardinality(f.todo) <= MaxChildren
                /\ f.before \subseteq check.cut

\* The watermark of a sitemap never moves backward, although the lastmod a site
\* shows does (comment on the gate).
WatermarkOnlyForward == [][\A n \in Node : watermark'[n] >= watermark[n]]_vars

Below(n) == {m \in Node : n \in Above[m]}

\* What was cut off in a check, by whichever limit and however deep, is left to
\* a later check: none of the sitemaps above it advances in this one.
CutOffHoldsBack ==
  [][\A n \in Node :
       (check # Idle /\ check.pc = "advance" /\ watermark'[n] # watermark[n])
          => Below(n) \cap check.cut = {}]_vars

\* A url that appears in a sitemap that is known already is announced, unless
\* the sitemap disappears, the site shows an older lastmod or the url falls
\* behind the cutoff first.
Reachable(n, d) == \A m \in Above[n] : m \in listed /\ shown[m] >= d
Owed(n, d) == /\ Reachable(n, d) /\ d \in urls[n] /\ d >= cutoff
              /\ \A m \in Above[n] : watermark[m] # NoRow /\ watermark[m] < d
UrlsAreAnnounced ==
  \A n \in Urlset, d \in Date \ {1} :
    Owed(n, d) ~> (d \in announced[n] \/ ~Reachable(n, d) \/ d < cutoff)

\* Comments on the fetch (lines 325-329 and 342): a child that could not be
\* fetched, or only in part, is fetched again by the next check.
DueIsRead ==
  \A n \in Urlset, d \in Date \ {1} :
    (At("fetch") /\ Child = n /\ d \in urls[n] /\ Reachable(n, d))
       ~> (d \in announced[n] \/ ~Reachable(n, d) \/ d < cutoff)
=============================================================================
