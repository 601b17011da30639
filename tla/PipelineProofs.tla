--------------------------- MODULE PipelineProofs ---------------------------
(***************************************************************************)
(* Proofs about ContentPipeline, for every number of entries, urls, dates, *)
(* changes of the site, lost checks and changes of the configuration.      *)
(*                                                                         *)
(* The invariant follows an entry through a check: it is still to do, or   *)
(* it is registered and its news are found (Taken), what is found is in    *)
(* the table of changes (Found), and what no lost check has swallowed is   *)
(* announced, part of the baseline, or on its way (Accounted, Told).       *)
(***************************************************************************)
EXTENDS ContentPipeline, NaturalsInduction, WellFoundedInduction, SequenceTheorems, TLAPS

-----------------------------------------------------------------------------
(* The invariant *)

Steps == {"snapshot", "detect", "new", "updated", "diff", "notify", "advance", "finish"}
Recipes == {"feed", "extract", "content", "direct"}
OfEntries == {"feed", "extract"}

News == [key : Key, advance : {None} \cup [url : Urls, date : 1..Versions]]
Snapshot == [body : Document(kind), text : Texts \cup {None}]
Check == [pc : Steps, recipe : Recipes, first : BOOLEAN, prev : Snapshot \cup {None},
          body : Document(kind), todo : SUBSET Entry, found : Seq(News)]

Checking == check # Idle

\* What the variables hold
Typed ==
  /\ TypeOK
  /\ target \in [Urls -> Row \cup {None}]
  /\ snapshot \in Snapshot \cup {None}
  /\ Checking => check \in Check

\* A row of changes is the news of an entry, one of its dates, or a text.
Shape(c) ==
  \/ /\ c.kind = "new" /\ c.of \in StableKeys /\ c.date = 0
     /\ c.key = <<"entry", c.of>>
  \/ /\ c.kind = "updated" /\ c.date \in 1..Versions /\ c.of \in StableKeys
     /\ c.key = <<"entry", c.of, c.date>>
  \/ /\ c.kind = "updated" /\ c.url = None /\ c.date = 0
     /\ c.key = <<"text", c.of>>

Shaped == \A c \in changes : Shape(c)

\* Where a check is, by its recipe
Located ==
  Checking =>
    /\ check.first = ~lastChecked
    /\ check.recipe \notin OfEntries =>
         check.todo = {} /\ check.pc \in {"snapshot", "diff", "notify", "finish"}
    /\ check.recipe \in OfEntries => check.pc # "diff"
    /\ check.pc \in {"notify", "advance"} => check.todo = {}
    /\ check.pc = "finish" => check.todo = {} /\ check.found = <<>>
    /\ check.pc = "snapshot" /\ check.recipe # "feed" => check.todo = {}
    /\ check.pc \in {"snapshot", "diff"} => check.found = <<>>
    /\ check.pc = "advance" => /\ Head(check.found).advance # None
                              /\ Head(check.found).key \in fanned
    /\ check.pc \in {"new", "updated"} =>
         /\ ~check.first /\ target[ItemUrl] # None
         /\ check.pc = "new" =>
              /\ target[ItemUrl].from = StableKey(Current, ItemUrl)
              /\ Dated => target[ItemUrl].watermark >= check.body[Current].date
         /\ check.pc = "updated" => Dated

\* What notifyDetectedChanges has before it is in the table of changes, and the
\* dates it is to advance are those of the document.
Found ==
  Checking =>
    \A f \in Range(check.found) :
      /\ HasChange(f.key)
      /\ f.advance # None =>
           /\ target[f.advance.url] # None
           /\ \E e \in Entry :
                /\ check.body[e] = f.advance
                /\ f.key = UpdatedKey(e, f.advance.url, f.advance.date)

\* An entry that was taken has its row, and its date is known or on its way.
Taken ==
  (Checking /\ check.recipe \in OfEntries) =>
    \A e \in Processed(check.body) \ check.todo :
      LET x == check.body[e] IN
      /\ target[x.url] # None
      /\ (Dated /\ ~check.first) =>
           \/ target[x.url].watermark >= x.date
           \/ \E f \in Range(check.found) : f.advance = [url |-> x.url, date |-> x.date]

\* The registration of u has not been announced yet, but will be.
OnItsWay(u) ==
  Checking /\ \/ check.pc = "new" /\ ItemUrl = u
              \/ \E f \in Range(check.found) : f.key = <<"entry", target[u].from>>

\* Unless a check was lost, every registered url is part of the baseline of the
\* first check, or has been announced, or will be.
Accounted ==
  losses = 0 =>
    \A u \in Urls :
      target[u] # None =>
        IF lastChecked
        THEN u \in baselined \/ AnnouncedNew(target[u].from) \/ OnItsWay(u)
        ELSE Checking /\ check.recipe \in OfEntries /\ u \in EntryUrls(check.body)

\* A text that differs is found, or has been announced.
Told ==
  (Checking /\ check.recipe \notin OfEntries) =>
    /\ check.pc = "diff" => check.prev # None
    /\ check.pc = "notify" => check.found = <<[key |-> TextKey(check.body), advance |-> None]>>
    /\ (/\ check.pc = "finish" /\ check.prev # None
        /\ check.recipe = "content" \/ ~check.first
        /\ TextChanged) => AnnouncedText(Text(check.body))

IInv == Typed /\ Shaped /\ Located /\ Found /\ Taken /\ Accounted /\ Told

-----------------------------------------------------------------------------
(* Lemmas about the operators of the model *)

\* A set of numbers has a least one.
LEMMA LeastExists ==
  ASSUME NEW S \in SUBSET Nat, S # {}
  PROVE  \E m \in S : \A n \in S : m <= n
<1> DEFINE R == OpToRel(<, Nat)
<1>1. PICK m \in S : \A n \in S : <<n, m>> \notin R
  BY NatLessThanWellFounded, WFMin
<1>2. \A n \in S : ~(n < m)
  BY <1>1 DEF OpToRel
<1> QED
  BY <1>2

\* The entry that is taken is one of those left to do.
LEMMA CurrentIsLeft ==
  ASSUME check.todo \subseteq Entry, check.todo # {}
  PROVE  Current \in check.todo
<1> DEFINE todo == check.todo
<1>1. todo \in SUBSET Nat
  BY LimitAssumption DEF Entry
<1>2. \E m \in todo : \A n \in todo : m <= n
  BY <1>1, LeastExists
<1> QED
  BY <1>2 DEF Current, Min

\* Documents hold items of known urls and dates.
LEMMA ItemsKnown ==
  ASSUME NEW d \in Document(kind), NEW e \in Processed(d)
  PROVE  /\ e \in Entry /\ d[e].url \in Urls /\ d[e].date \in 1..Versions
         /\ d[e] = [url |-> d[e].url, date |-> d[e].date]
<1>1. e \in Entry /\ d[e] # None
  BY DEF Processed, Listed
<1>2. d[e] \in Item(kind)
  BY <1>1 DEF Document
<1>3. Item(kind) \subseteq [url : Urls, date : 1..Versions]
  BY LimitAssumption DEF Item
<1> QED
  BY <1>1, <1>2, <1>3

\* The three kinds of dedupe keys are apart, and each determines what it is of.
LEMMA KeysDiffer ==
  ASSUME NEW a, NEW b, NEW v, NEW w
  PROVE  /\ <<"entry", a>> # <<"text", b>>
         /\ <<"entry", a>> # <<"entry", b, v>>
         /\ <<"text", a>> # <<"entry", b, v>>
         /\ <<"entry", a>> = <<"entry", b>> => a = b
         /\ <<"text", a>> = <<"text", b>> => a = b
         /\ <<"entry", a, v>> = <<"entry", b, w>> => a = b /\ v = w
OBVIOUS

\* What a row of changes is can be told from its key.
LEMMA KeyTells ==
  ASSUME NEW c, Shape(c), NEW k, NEW v
  PROVE  /\ c.key = <<"entry", k>> => c.kind = "new" /\ c.of = k
         /\ c.key = <<"entry", k, v>> => c.kind = "updated" /\ c.of = k /\ c.date = v
         /\ c.key = <<"text", k>> => c.url = None /\ c.of = k
BY KeysDiffer DEF Shape

\* insertChangeIfNew leaves the table with the key, once.
LEMMA InsertKeeps ==
  ASSUME Shaped, \A c, d \in changes : c.key = d.key => c = d,
         {c.key : c \in changes} \subseteq Key,
         NEW x, Shape(x), x.key \in Key, Insert(x), kind' = kind
  PROVE  /\ Shaped' /\ changes \subseteq changes' /\ HasChange(x.key)'
         /\ \A c, d \in changes' : c.key = d.key => c = d
         /\ {c.key : c \in changes'} \subseteq Key
<1>1. CASE HasChange(x.key)
  BY <1>1 DEF Insert, HasChange, Shaped, Shape, StableKeys, StableKey
<1>2. CASE ~HasChange(x.key)
  <2>1. changes' = changes \cup {x}
    BY <1>2 DEF Insert
  <2> QED
    BY <1>2, <2>1 DEF HasChange, Shaped, Shape, StableKeys, StableKey
<1> QED
  BY <1>1, <1>2

\* The sets of values depend on the kind of source only.
LEMMA KindDecides ==
  ASSUME kind' = kind
  PROVE  /\ Key' = Key /\ StableKeys' = StableKeys /\ Texts' = Texts /\ Row' = Row
         /\ Document(kind)' = Document(kind) /\ Snapshot' = Snapshot /\ News' = News
         /\ Check' = Check /\ Dated' = Dated
BY DEF Key, StableKeys, StableKey, Texts, Text, Row, Document, Item, Snapshot, News, Check,
       Dated

-----------------------------------------------------------------------------
(* The steps that are no steps of a processor *)

\* What neither the tables nor the check see keeps the invariant.
LEMMA OutsideKeeps ==
  ASSUME IInv, TypeOK',
         UNCHANGED <<kind, target, snapshot, changes, fanned, lastChecked, check,
                     baselined, losses>>
  PROVE  IInv'
<1>1. Typed'
  BY KindDecides DEF IInv, Typed, Checking
<1>2. Shaped'
  BY KindDecides DEF IInv, Shaped, Shape
<1>3. Located'
  BY DEF IInv, Located, Checking, ItemUrl, Current, StableKey, Dated
<1>4. Found'
  BY DEF IInv, Found, Checking, HasChange, UpdatedKey, StableKey
<1>5. Taken'
  BY DEF IInv, Taken, Checking, Dated
<1>6. Accounted'
  BY DEF IInv, Accounted, Checking, OnItsWay, ItemUrl, Current, AnnouncedNew, Announced
<1>7. Told'
  BY DEF IInv, Told, Checking, TextKey, Text, TextChanged, AnnouncedText, Announced
<1> QED
  BY <1>1, <1>2, <1>3, <1>4, <1>5, <1>6, <1>7 DEF IInv

LEMMA PublishKeeps == ASSUME IInv, Publish PROVE IInv'
<1>1. UNCHANGED <<kind, target, snapshot, changes, fanned, lastChecked, check, baselined, losses>>
  BY DEF Publish, store
<1>2. /\ published' \in 0..MaxPublished /\ doc' \in Document(kind)
      /\ UNCHANGED <<mode, etags, patches>>
  BY LimitAssumption DEF Publish, IInv, Typed, TypeOK
<1>3. TypeOK'
  BY <1>1, <1>2, KindDecides DEF IInv, Typed, TypeOK, At
<1> QED
  BY <1>1, <1>3, OutsideKeeps

LEMMA PatchModeKeeps == ASSUME IInv, PatchMode PROVE IInv'
<1>1. UNCHANGED <<kind, target, snapshot, changes, fanned, lastChecked, check, baselined, losses>>
  BY DEF PatchMode, store, site
<1>2. /\ patches' \in 0..MaxPatches /\ mode' \in {"content", "extract"}
      /\ UNCHANGED <<doc, etags, published>>
  BY LimitAssumption DEF PatchMode, site, IInv, Typed, TypeOK
<1>3. TypeOK'
  BY <1>1, <1>2, KindDecides DEF IInv, Typed, TypeOK
<1> QED
  BY <1>1, <1>3, OutsideKeeps

LEMMA StutterKeeps == ASSUME IInv, UNCHANGED vars PROVE IInv'
<1>1. /\ UNCHANGED <<kind, target, snapshot, changes, fanned, lastChecked, check, baselined, losses>>
      /\ UNCHANGED <<mode, etags, doc, published, patches>>
  BY DEF vars
<1>2. TypeOK'
  BY <1>1, KindDecides DEF IInv, Typed, TypeOK
<1> QED
  BY <1>1, <1>2, OutsideKeeps

\* After the end of a check only the tables are left to look at.
LEMMA EndKeeps ==
  ASSUME IInv, TypeOK', Accounted', check' = Idle,
         UNCHANGED <<kind, target, snapshot, changes>>
  PROVE  IInv'
<1>1. Typed'
  BY KindDecides DEF IInv, Typed, Checking, Idle
<1>2. Shaped'
  BY KindDecides DEF IInv, Shaped, Shape
<1>3. Located' /\ Found' /\ Taken' /\ Told'
  BY DEF Located, Found, Taken, Told, Checking, Idle
<1> QED
  BY <1>1, <1>2, <1>3 DEF IInv

\* A check that is lost is counted, and nothing is claimed of it.
LEMMA LostKeeps == ASSUME IInv, Crash \/ Throw PROVE IInv'
<1>1. /\ check' = Idle /\ losses < MaxLosses /\ losses' = losses + 1
      /\ lastChecked' \in {lastChecked, TRUE}
      /\ UNCHANGED <<kind, mode, etags, doc, target, snapshot, changes, fanned, baselined,
                     published, patches>>
  BY DEF Crash, Throw, site, store
<1>2. losses \in Nat /\ losses' \in 0..MaxLosses /\ losses' # 0
  BY <1>1, LimitAssumption DEF IInv, Typed, TypeOK
<1>3. TypeOK'
  BY <1>1, <1>2, KindDecides DEF IInv, Typed, TypeOK
<1>4. Accounted'
  BY <1>2 DEF Accounted
<1> QED
  BY <1>1, <1>3, <1>4, EndKeeps

\* A check that fetches no body leaves the tables as they are.
LEMMA FetchNothingKeeps == ASSUME IInv, FetchNothing PROVE IInv'
<1>1. /\ check' = Idle /\ check = Idle /\ lastChecked' = TRUE
      /\ UNCHANGED <<kind, mode, etags, doc, target, snapshot, changes, fanned, baselined,
                     published, losses, patches>>
  BY DEF FetchNothing, site
<1>2. TypeOK'
  BY <1>1, KindDecides DEF IInv, Typed, TypeOK
<1>3. Accounted'
  <2> SUFFICES ASSUME losses = 0, NEW u \in Urls, target[u] # None
               PROVE  u \in baselined \/ AnnouncedNew(target[u].from)'
    BY <1>1 DEF Accounted
  <2>1. lastChecked /\ (u \in baselined \/ AnnouncedNew(target[u].from))
    BY <1>1 DEF IInv, Accounted, Checking, OnItsWay
  <2> QED
    BY <2>1, <1>1 DEF AnnouncedNew, Announced
<1> QED
  BY <1>1, <1>2, <1>3, EndKeeps

\* The first check that ends makes what it has registered the baseline.
LEMMA FinishKeeps == ASSUME IInv, Finish PROVE IInv'
<1>1. /\ check' = Idle /\ lastChecked' = TRUE /\ check.pc = "finish"
      /\ baselined' = IF ~lastChecked /\ check.recipe \in OfEntries
                      THEN EntryUrls(check.body) ELSE baselined
      /\ UNCHANGED <<kind, mode, etags, doc, target, snapshot, changes, fanned,
                     published, losses, patches>>
  BY DEF Finish, At, OfEntries, site
<1>2. Checking /\ check \in Check /\ check.found = <<>>
  BY <1>1 DEF IInv, Typed, Located, Checking, Idle
<1>3. EntryUrls(check.body) \subseteq Urls
  BY <1>2, ItemsKnown DEF EntryUrls, Check
<1>4. TypeOK'
  BY <1>1, <1>3, KindDecides DEF IInv, Typed, TypeOK
<1>5. Accounted'
  <2> SUFFICES ASSUME losses = 0, NEW u \in Urls, target[u] # None
               PROVE  u \in baselined' \/ AnnouncedNew(target[u].from)'
    BY <1>1 DEF Accounted
  <2>1. AnnouncedNew(target[u].from) => AnnouncedNew(target[u].from)'
    BY <1>1 DEF AnnouncedNew, Announced
  <2>2. ~OnItsWay(u)
    BY <1>1, <1>2 DEF OnItsWay, Range
  <2> QED
    BY <1>1, <2>1, <2>2 DEF IInv, Accounted
<1> QED
  BY <1>1, <1>4, <1>5, EndKeeps

-----------------------------------------------------------------------------
(* The start of a processor, and its snapshot *)

LEMMA NothingFound == Range(<<>>) = {}
BY DEF Range

LEMMA FetchBodyKeeps == ASSUME IInv, FetchBody PROVE IInv'
<1> DEFINE r == Recipe(kind, mode)
           entries == IF r \in OfEntries THEN Processed(doc) ELSE {}
<1>1. /\ check = Idle
      /\ check' = [pc |-> IF r # "extract" \/ entries = {} THEN "snapshot" ELSE "detect",
                   recipe |-> r, first |-> FirstCheck, prev |-> snapshot,
                   body |-> doc, todo |-> entries, found |-> <<>>]
      /\ UNCHANGED <<kind, mode, etags, doc, target, snapshot, changes, fanned, lastChecked,
                     baselined, published, losses, patches>>
  BY DEF FetchBody, OfEntries, site, store
<1>2. /\ check'.pc \in {"snapshot", "detect"} /\ check'.recipe = r /\ check'.body = doc
      /\ check'.first = ~lastChecked /\ check'.prev = snapshot
      /\ check'.todo = entries /\ check'.found = <<>>
      /\ check'.pc = "detect" => r = "extract" /\ entries # {}
  BY <1>1 DEF FirstCheck
<1>3. r \in Recipes
  BY KindAssumption DEF Recipe, Recipes, IInv, Typed, TypeOK
<1>4. doc \in Document(kind) /\ entries \subseteq Processed(doc) /\ Processed(doc) \subseteq Entry
  BY DEF IInv, Typed, TypeOK, Processed, Listed
<1>5. check' \in Check
  <2>1. <<>> \in Seq(News) /\ lastChecked \in BOOLEAN /\ snapshot \in Snapshot \cup {None}
    BY DEF IInv, Typed, TypeOK
  <2> QED
    BY <1>1, <1>3, <1>4, <2>1 DEF Check, Steps, FirstCheck
<1> HIDE DEF r
<1>6. Typed'
  <2>1. TypeOK'
    BY <1>1, <1>2, <1>3, <1>4, KindDecides DEF IInv, Typed, TypeOK, Recipes
  <2> QED
    BY <1>1, <1>5, <2>1, KindDecides DEF IInv, Typed
<1>7. Shaped'
  BY <1>1, KindDecides DEF IInv, Shaped, Shape
<1>8. Located'
  BY <1>1, <1>2 DEF Located, OfEntries
<1>9. Found'
  BY <1>2, NothingFound DEF Found
<1>10. Taken'
  BY <1>2 DEF Taken
<1>11. Accounted'
  <2> SUFFICES ASSUME losses = 0, NEW u \in Urls, target[u] # None
               PROVE  lastChecked /\ (u \in baselined \/ AnnouncedNew(target[u].from)')
    BY <1>1 DEF Accounted
  <2>1. lastChecked /\ (u \in baselined \/ AnnouncedNew(target[u].from))
    BY <1>1 DEF IInv, Accounted, Checking, OnItsWay
  <2> QED
    BY <2>1, <1>1 DEF AnnouncedNew, Announced
<1>12. Told'
  BY <1>2 DEF Told
<1> QED
  BY <1>6, <1>7, <1>8, <1>9, <1>10, <1>11, <1>12 DEF IInv

\* What a step of a processor can rely on
LEMMA Running ==
  ASSUME IInv, NEW pc \in Steps, At(pc)
  PROVE  /\ Checking /\ check \in Check /\ check.pc = pc
         /\ check.body \in Document(kind) /\ check.todo \subseteq Entry
         /\ check.recipe \in Recipes /\ check.found \in Seq(News)
         /\ check.todo \subseteq Processed(check.body)
         /\ check.first = ~lastChecked
<1>1. Checking
  BY DEF At, Checking, Idle, Steps
<1>2. check \in Check /\ check.todo \subseteq Processed(check.body)
  BY <1>1 DEF IInv, Typed, TypeOK, Checking
<1>3. check.first = ~lastChecked
  BY <1>1 DEF IInv, Located
<1> QED
  BY <1>1, <1>2, <1>3 DEF At, Check

LEMMA WriteSnapshotKeeps == ASSUME IInv, WriteSnapshot PROVE IInv'
<1>1. /\ At("snapshot")
      /\ snapshot' = [body |-> check.body,
                      text |-> IF check.recipe \in {"content", "direct"}
                               THEN Text(check.body) ELSE None]
      /\ UNCHANGED <<kind, mode, etags, doc, target, changes, fanned, lastChecked,
                     baselined, published, losses, patches>>
  BY DEF WriteSnapshot, site
<1>2. /\ Checking /\ check \in Check /\ check.pc = "snapshot" /\ check.found = <<>>
      /\ check.recipe \in Recipes /\ check.body \in Document(kind)
      /\ check.todo \subseteq Processed(check.body)
      /\ check.recipe # "feed" => check.todo = {}
  BY <1>1, Running DEF Steps, IInv, Located
<1>3. PICK pc : check' = [check EXCEPT !.pc = pc]
  BY DEF WriteSnapshot, Goto
<1>4. /\ pc \in {"finish", "detect", "diff"}
      /\ pc = "detect" => check.todo # {}
      /\ pc = "finish" => check.todo = {}
      /\ pc = "detect" => check.recipe = "feed"
      /\ pc = "diff" => /\ check.recipe \in {"content", "direct"} /\ check.prev # None
                        /\ check.recipe = "content" \/ ~check.first
      /\ (pc = "finish" /\ check.recipe \notin OfEntries) =>
           check.prev = None \/ (check.recipe # "content" /\ check.first)
  <2>1. check'.pc = CASE check.recipe = "feed" -> IF check.todo = {} THEN "finish" ELSE "detect"
            [] check.recipe = "extract" -> "finish"
            [] check.recipe = "content" -> IF check.prev = None THEN "finish" ELSE "diff"
            [] check.recipe = "direct" ->
                 IF check.prev = None \/ check.first THEN "finish" ELSE "diff"
    BY <1>2 DEF WriteSnapshot, Goto, Check
  <2>2. check'.pc = pc
    BY <1>2, <1>3 DEF Check
  <2> QED
    BY <1>2, <2>1, <2>2 DEF Recipes, OfEntries
<1>5. /\ check' \in Check /\ check'.pc = pc /\ check'.recipe = check.recipe
      /\ check'.body = check.body /\ check'.first = check.first /\ check'.prev = check.prev
      /\ check'.todo = check.todo /\ check'.found = <<>>
  BY <1>2, <1>3, <1>4 DEF Check, Steps
<1>6. Checking'
  BY <1>4, <1>5 DEF Checking, Idle
<1>7. Typed'
  <2>1. snapshot' \in Snapshot
    BY <1>1, <1>2 DEF Snapshot, Texts
  <2>2. TypeOK'
    BY <1>1, <1>2, <1>4, <1>5, <2>1, KindDecides DEF IInv, Typed, TypeOK, Snapshot, Recipes
  <2> QED
    BY <1>1, <1>5, <2>1, <2>2, KindDecides DEF IInv, Typed
<1>8. Shaped'
  BY <1>1, KindDecides DEF IInv, Shaped, Shape
<1>9. Located'
  BY <1>1, <1>2, <1>4, <1>5 DEF IInv, Located, OfEntries
<1>10. Found'
  BY <1>5, NothingFound DEF Found
<1>11. Taken'
  BY <1>1, <1>2, <1>5, NothingFound DEF IInv, Taken, Dated
<1>12. Accounted'
  <2>1. \A u : ~OnItsWay(u)
    BY <1>2, NothingFound DEF OnItsWay
  <2> QED
    BY <1>1, <1>2, <1>5, <1>6, <2>1 DEF IInv, Accounted, AnnouncedNew, Announced
<1>13. Told'
  BY <1>2, <1>4, <1>5 DEF Told, OfEntries, Recipes
<1> QED
  BY <1>7, <1>8, <1>9, <1>10, <1>11, <1>12, <1>13 DEF IInv

-----------------------------------------------------------------------------
(* The loop of detectFeedChanges *)

\* The entry the loop is at, in any of its three steps
LEMMA AtEntry ==
  ASSUME IInv, NEW pc \in {"detect", "new", "updated"}, At(pc)
  PROVE  /\ Checking /\ check \in Check /\ check.pc = pc /\ check.todo # {}
         /\ check.recipe \in OfEntries /\ check.first = ~lastChecked
         /\ Current \in check.todo /\ Current \in Processed(check.body) /\ Current \in Entry
         /\ ItemUrl \in Urls /\ ItemUrl \in EntryUrls(check.body)
         /\ check.body[Current] = [url |-> ItemUrl, date |-> check.body[Current].date]
         /\ check.body[Current].date \in 1..Versions
         /\ UpdatedAt = IF Dated THEN check.body[Current].date ELSE 0
         /\ UpdatedAt \in 0..Versions
         /\ StableKey(Current, ItemUrl) \in StableKeys
<1>1. /\ Checking /\ check \in Check /\ check.pc = pc
      /\ check.body \in Document(kind) /\ check.recipe \in Recipes
      /\ check.todo \subseteq Entry /\ check.todo \subseteq Processed(check.body)
      /\ check.first = ~lastChecked
  BY Running DEF Steps
<1>2. check.todo # {} /\ check.recipe \in OfEntries
  BY <1>1 DEF IInv, Typed, TypeOK, Located, Checking
<1>3. Current \in check.todo /\ Current \in Processed(check.body) /\ Current \in Entry
  BY <1>1, <1>2, CurrentIsLeft
<1>4. /\ ItemUrl \in Urls /\ check.body[Current].date \in 1..Versions
      /\ check.body[Current] = [url |-> ItemUrl, date |-> check.body[Current].date]
  BY <1>1, <1>3, ItemsKnown DEF ItemUrl
<1>5. ItemUrl \in EntryUrls(check.body)
  BY <1>3 DEF EntryUrls, ItemUrl
<1>6. UpdatedAt \in 0..Versions /\ UpdatedAt = IF Dated THEN check.body[Current].date ELSE 0
  BY <1>4, LimitAssumption DEF UpdatedAt
<1>7. StableKey(Current, ItemUrl) \in StableKeys
  BY <1>3, <1>4 DEF StableKeys
<1> QED
  BY <1>1, <1>2, <1>3, <1>4, <1>5, <1>6, <1>7

\* The rest of the loop follows, or the fan-out, or what comes after it.
LEMMA DetectedGoesOn ==
  ASSUME check \in Check, check.recipe \in OfEntries, NEW s \in Seq(News), Detected(s)
  PROVE  /\ check' \in Check /\ check'.recipe = check.recipe /\ check'.body = check.body
         /\ check'.first = check.first /\ check'.prev = check.prev
         /\ check'.todo = check.todo \ {Current} /\ check'.found \in Seq(News)
         /\ Range(check'.found) = Range(check.found) \cup Range(s)
         /\ check'.pc \in {"detect", "notify", "snapshot", "finish"}
         /\ check'.pc = "detect" <=> check'.todo # {}
         /\ check'.pc = "notify" => check'.found # <<>>
         /\ check'.pc \in {"snapshot", "finish"} => check'.found = <<>>
         /\ check'.pc = "snapshot" => check'.recipe # "feed"
<1> DEFINE todo == check.todo \ {Current}
           found == check.found \o s
           pc == IF todo # {} THEN "detect"
                 ELSE IF found # <<>> THEN "notify" ELSE Notified(check.recipe)
<1>1. check' = [check EXCEPT !.todo = todo, !.found = found, !.pc = pc]
  BY DEF Detected
<1>2. /\ check.found \in Seq(News) /\ check.todo \in SUBSET Entry
  BY DEF Check
<1>3. found \in Seq(News) /\ Range(found) = Range(check.found) \cup Range(s)
  BY <1>2, ConcatProperties, RangeConcatenation
<1>4. pc \in Steps /\ pc \in {"detect", "notify", "snapshot", "finish"}
  BY DEF Notified, Steps
<1>5. /\ pc = "detect" <=> todo # {}
      /\ pc = "notify" => found # <<>>
      /\ pc \in {"snapshot", "finish"} => found = <<>>
      /\ pc = "snapshot" => check.recipe # "feed"
  BY DEF Notified
<1> HIDE DEF pc, found
<1>6. todo \in SUBSET Entry
  BY <1>2
<1> HIDE DEF todo
<1>7. /\ check' \in Check /\ check'.recipe = check.recipe /\ check'.body = check.body
      /\ check'.first = check.first /\ check'.prev = check.prev
      /\ check'.todo = todo /\ check'.found = found /\ check'.pc = pc
  BY <1>1, <1>3, <1>4, <1>6 DEF Check
<1> QED
  BY <1>3, <1>4, <1>5, <1>7 DEF todo

\* upsertTarget gives the entry a row, and changes no other.
LEMMA UpsertRegisters ==
  ASSUME target \in [Urls -> Row \cup {None}], NEW u \in Urls,
         StableKey(Current, u) \in StableKeys, UpdatedAt \in 0..Versions, Upsert(u)
  PROVE  /\ target' \in [Urls -> Row \cup {None}] /\ target'[u] # None
         /\ \A w \in Urls : target[w] # None => target'[w] = target[w]
         /\ \A w \in Urls \ {u} : target'[w] = target[w]
         /\ target[u] = None =>
              target'[u] = [from |-> StableKey(Current, u), watermark |-> UpdatedAt]
<1> DEFINE row == [from |-> StableKey(Current, u), watermark |-> UpdatedAt]
<1>1. target' = [target EXCEPT ![u] = IF target[u] = None THEN row ELSE target[u]]
  BY DEF Upsert
<1>2. row \in Row
  BY DEF Row
<1>3. \A x \in Row : x # None
  BY NoneAssumption DEF Row, StableKeys, StableKey, Entry
<1> HIDE DEF row
<1>4. row # None
  BY <1>2, <1>3
<1> QED
  BY <1>1, <1>2, <1>4 DEF row

\* The dates that are to follow are dates of known urls.
LEMMA FoundIsNews ==
  ASSUME check \in Check, NEW f \in Range(check.found)
  PROVE  f.advance # None => f.advance \in [url : Urls, date : 1..Versions]
                             /\ f.advance.url \in Urls
<1>1. check.found \in Seq(News)
  BY DEF Check
<1>2. f \in News
  BY <1>1, RangeOfSeq
<1> QED
  BY <1>2 DEF News

\* The end of one round of the loop keeps the invariant, if the entry has its
\* row, its news are in the table, and its date is known or among them.
LEMMA RoundKeeps ==
  ASSUME IInv, NEW pc \in {"detect", "new", "updated"}, At(pc),
         NEW s \in Seq(News), Detected(s),
         UNCHANGED <<kind, mode, etags, doc, snapshot, fanned, lastChecked, baselined,
                     published, losses, patches>>,
         Shaped', changes \subseteq changes', {c.key : c \in changes'} \subseteq Key,
         \A c, d \in changes' : c.key = d.key => c = d,
         target' \in [Urls -> Row \cup {None}], target'[ItemUrl] # None,
         \A u \in Urls : target[u] # None => target'[u] = target[u],
         \A u \in Urls \ {ItemUrl} : target'[u] = target[u],
         lastChecked => target[ItemUrl] # None,
         \A f \in Range(s) :
            /\ HasChange(f.key)'
            /\ f.advance # None => /\ check.body[Current] = f.advance
                                   /\ f.key = UpdatedKey(Current, ItemUrl, f.advance.date),
         (Dated /\ ~check.first) =>
            \/ target'[ItemUrl].watermark >= check.body[Current].date
            \/ \E f \in Range(s) : f.advance = check.body[Current],
         pc = "new" => \E f \in Range(s) : f.key = <<"entry", target[ItemUrl].from>>
  PROVE  IInv'
<1>1. /\ Checking /\ check \in Check /\ check.pc = pc
      /\ check.recipe \in OfEntries /\ check.first = ~lastChecked
      /\ Current \in check.todo /\ Current \in Processed(check.body) /\ Current \in Entry
      /\ ItemUrl \in Urls /\ ItemUrl \in EntryUrls(check.body)
      /\ check.body[Current] = [url |-> ItemUrl, date |-> check.body[Current].date]
  BY AtEntry
<1>2. /\ check' \in Check /\ check'.recipe = check.recipe /\ check'.body = check.body
      /\ check'.first = check.first /\ check'.prev = check.prev
      /\ check'.todo = check.todo \ {Current} /\ check'.found \in Seq(News)
      /\ Range(check'.found) = Range(check.found) \cup Range(s)
      /\ check'.pc \in {"detect", "notify", "snapshot", "finish"}
      /\ check'.pc = "detect" <=> check'.todo # {}
      /\ check'.pc = "notify" => check'.found # <<>>
      /\ check'.pc \in {"snapshot", "finish"} => check'.found = <<>>
      /\ check'.pc = "snapshot" => check'.recipe # "feed"
  BY <1>1, DetectedGoesOn
<1>3. Checking'
  BY <1>2 DEF Checking, Idle
<1>4. check.body \in Document(kind) /\ check.todo \subseteq Processed(check.body)
  BY <1>1 DEF IInv, Typed, TypeOK, Check, Checking
<1>5. Typed'
  <2>1. fanned \subseteq {c.key : c \in changes'}
    BY DEF IInv, Typed, TypeOK
  <2>2. \A u \in Urls : target'[u] = None \/ target'[u] \in Row
    OBVIOUS
  <2>3. /\ check'.recipe \in {"feed", "extract", "content", "direct"}
        /\ check'.todo \subseteq Processed(check'.body)
    BY <1>2, <1>4 DEF Check, Recipes
  <2>4. check'.pc \in {"detect", "new", "updated"} => check'.todo # {}
    BY <1>2
  <2>5. TypeOK'
    BY <1>2, <2>1, <2>2, <2>3, <2>4, KindDecides DEF IInv, Typed, TypeOK
  <2> QED
    BY <1>2, <2>5, KindDecides DEF IInv, Typed
<1>6. Located'
  BY <1>1, <1>2 DEF Located, OfEntries
<1>7. Found'
  <2>1. SUFFICES ASSUME NEW f, f \in Range(check'.found)
                 PROVE  /\ HasChange(f.key)'
                        /\ f.advance # None =>
                             /\ target'[f.advance.url] # None
                             /\ \E e \in Entry :
                                  /\ check.body[e] = f.advance
                                  /\ f.key = UpdatedKey(e, f.advance.url, f.advance.date)
    BY <1>2 DEF Found, UpdatedKey, StableKey
  <2>2. CASE f \in Range(check.found)
    <3>2. f.advance # None => f.advance.url \in Urls
      BY <1>1, <2>2, FoundIsNews
    <3>3. HasChange(f.key)'
      BY <1>1, <2>2 DEF IInv, Found, HasChange
    <3> QED
      BY <1>1, <2>2, <3>2, <3>3 DEF IInv, Found
  <2>3. CASE f \in Range(s)
    <3>1. f.advance # None => f.advance.url = ItemUrl
      BY <1>1, <2>3
    <3> QED
      BY <1>1, <2>3, <3>1
  <2> QED
    BY <1>2, <2>1, <2>2, <2>3
<1>8. Taken'
  <2> SUFFICES ASSUME NEW e \in Processed(check.body) \ (check.todo \ {Current})
               PROVE  LET x == check.body[e] IN
                      /\ target'[x.url] # None
                      /\ (Dated /\ ~check.first) =>
                           \/ target'[x.url].watermark >= x.date
                           \/ \E f \in Range(check'.found) : f.advance = [url |-> x.url, date |-> x.date]
    BY <1>2, KindDecides DEF Taken
  <2>1. CASE e = Current
    BY <1>1, <1>2, <2>1
  <2>2. CASE e # Current
    <3>1. check.body[e].url \in Urls
      BY <1>4, ItemsKnown
    <3>2. e \in Processed(check.body) \ check.todo
      BY <2>2
    <3> QED
      BY <1>1, <1>2, <3>1, <3>2 DEF IInv, Taken
  <2> QED
    BY <2>1, <2>2
<1>9. Accounted'
  <2>0. EntryUrls(check.body)' = EntryUrls(check.body)
    BY <1>2 DEF EntryUrls, Processed, Listed
  <2> SUFFICES ASSUME losses = 0, NEW u \in Urls, target'[u] # None
               PROVE  IF lastChecked
                      THEN u \in baselined \/ AnnouncedNew(target[u].from)' \/ OnItsWay(u)'
                      ELSE u \in EntryUrls(check.body)
    BY <1>1, <1>2, <1>3, <2>0 DEF Accounted
  <2>1. CASE lastChecked
    <3>1. target[u] # None /\ target'[u] = target[u]
      BY <2>1
    <3>2. u \in baselined \/ AnnouncedNew(target[u].from) \/ OnItsWay(u)
      BY <2>1, <3>1 DEF IInv, Accounted
    <3>3. AnnouncedNew(target[u].from) => AnnouncedNew(target[u].from)'
      BY <3>1 DEF AnnouncedNew, Announced
    <3>4. OnItsWay(u) => \E f \in Range(check'.found) : f.key = <<"entry", target[u].from>>
      BY <1>1, <1>2 DEF OnItsWay
    <3> QED
      BY <1>3, <2>1, <3>1, <3>2, <3>3, <3>4 DEF OnItsWay
  <2>2. CASE ~lastChecked
    BY <1>1, <2>2 DEF IInv, Accounted
  <2> QED
    BY <2>1, <2>2
<1>10. Told'
  BY <1>1, <1>2 DEF Told
<1> QED
  BY <1>5, <1>6, <1>7, <1>8, <1>9, <1>10 DEF IInv

\* insertChangeIfNew of what is said of the current entry, and on with the loop
LEMMA RegisterKeeps == ASSUME IInv, Register PROVE IInv'
<1>1. /\ At("detect") /\ Upsert(ItemUrl)
      /\ UNCHANGED <<kind, mode, etags, doc, snapshot, changes, fanned, lastChecked, baselined,
                     published, losses, patches>>
  BY DEF Register, site
<1>2. /\ Checking /\ check \in Check /\ check.pc = "detect" /\ check.todo # {}
      /\ check.recipe \in OfEntries /\ check.first = ~lastChecked
      /\ Current \in check.todo /\ Current \in Processed(check.body) /\ Current \in Entry
      /\ ItemUrl \in Urls /\ ItemUrl \in EntryUrls(check.body)
      /\ check.body[Current] = [url |-> ItemUrl, date |-> check.body[Current].date]
      /\ check.body[Current].date \in 1..Versions
      /\ UpdatedAt = IF Dated THEN check.body[Current].date ELSE 0
      /\ UpdatedAt \in 0..Versions
      /\ StableKey(Current, ItemUrl) \in StableKeys
  BY <1>1, AtEntry
<1>3. /\ target' \in [Urls -> Row \cup {None}] /\ target'[ItemUrl] # None
      /\ \A u \in Urls : target[u] # None => target'[u] = target[u]
      /\ \A u \in Urls \ {ItemUrl} : target'[u] = target[u]
      /\ target[ItemUrl] = None =>
           target'[ItemUrl] = [from |-> StableKey(Current, ItemUrl), watermark |-> UpdatedAt]
  BY <1>1, <1>2, UpsertRegisters DEF IInv, Typed
<1>4. /\ Shaped' /\ {c.key : c \in changes'} \subseteq Key
      /\ \A c, d \in changes' : c.key = d.key => c = d
      /\ changes \subseteq changes'
  BY <1>1, KindDecides DEF IInv, Typed, TypeOK, Shaped, Shape
<1>5. ASSUME Detected(<<>>), lastChecked => target[ItemUrl] # None,
             (Dated /\ ~check.first) => target[ItemUrl].watermark >= check.body[Current].date
      PROVE  IInv'
  <2>1. <<>> \in Seq(News) /\ Range(<<>>) = {}
    BY NothingFound
  <2>2. (Dated /\ ~check.first) => target'[ItemUrl].watermark >= check.body[Current].date
    BY <1>2, <1>3, <1>5
  <2> QED
    BY <1>1, <1>2, <1>3, <1>4, <1>5, <2>1, <2>2, RoundKeeps
<1>6. ASSUME NEW pc \in {"new", "updated"}, Goto(pc), ~check.first,
             pc = "new" => target[ItemUrl] = None,
             pc = "updated" => target[ItemUrl] # None /\ Dated
      PROVE  IInv'
  <2>1. check' = [check EXCEPT !.pc = pc]
    BY <1>6 DEF Goto
  <2>2. /\ check' \in Check /\ check'.pc = pc /\ check'.recipe = check.recipe
        /\ check'.body = check.body /\ check'.first = check.first /\ check'.prev = check.prev
        /\ check'.todo = check.todo /\ check'.found = check.found
    BY <1>2, <2>1 DEF Check, Steps
  <2>3. Checking' /\ Current' = Current /\ ItemUrl' = ItemUrl
    BY <2>2 DEF Checking, Idle, Current, ItemUrl
  <2>4. Typed'
    <3>1. TypeOK'
      BY <1>1, <1>2, <1>3, <1>4, <2>2, KindDecides DEF IInv, Typed, TypeOK, Checking
    <3> QED
      BY <1>1, <1>3, <2>2, <3>1, KindDecides DEF IInv, Typed
  <2>5. Located'
    <3>1. StableKey(Current, ItemUrl)' = StableKey(Current, ItemUrl)
      BY <1>1, <2>3 DEF StableKey
    <3>2. pc = "new" =>
            /\ target'[ItemUrl].from = StableKey(Current, ItemUrl)
            /\ Dated => target'[ItemUrl].watermark >= check.body[Current].date
      BY <1>2, <1>3, <1>6
    <3> QED
      BY <1>1, <1>2, <1>3, <1>6, <2>2, <2>3, <3>1, <3>2, KindDecides DEF Located, OfEntries
  <2>6. Found'
    <3>1. \A f \in Range(check.found) : f.advance # None => f.advance.url \in Urls
      BY <1>2, FoundIsNews
    <3> QED
      BY <1>1, <1>2, <1>3, <2>2, <3>1 DEF IInv, Found, HasChange, UpdatedKey, StableKey
  <2>7. Taken'
    <3>1. \A e \in Processed(check.body) : check.body[e].url \in Urls
      BY <1>2, ItemsKnown DEF Check
    <3> QED
      BY <1>1, <1>2, <1>3, <2>2, <3>1, KindDecides DEF IInv, Taken
  <2>8. Accounted'
    <3> SUFFICES ASSUME losses = 0, NEW u \in Urls, target'[u] # None
                 PROVE  u \in baselined \/ AnnouncedNew(target[u].from)' \/ OnItsWay(u)'
      BY <1>1, <1>2, <1>6 DEF Accounted
    <3>1. CASE target[u] = None
      <4>1. pc = "new" /\ u = ItemUrl
        BY <1>3, <1>6, <3>1
      <4> QED
        BY <2>2, <2>3, <4>1 DEF OnItsWay
    <3>2. CASE target[u] # None
      <4>1. u \in baselined \/ AnnouncedNew(target[u].from) \/ OnItsWay(u)
        BY <1>2, <1>6, <3>2 DEF IInv, Accounted
      <4>2. target'[u] = target[u]
        BY <1>3, <3>2
      <4> QED
        BY <1>1, <1>2, <2>2, <2>3, <4>1, <4>2 DEF OnItsWay, AnnouncedNew, Announced
    <3> QED
      BY <3>1, <3>2
  <2>9. Told'
    BY <1>2, <2>2 DEF Told
  <2> QED
    BY <1>4, <2>4, <2>5, <2>6, <2>7, <2>8, <2>9 DEF IInv
<1>7. target[ItemUrl] # None => target[ItemUrl] \in Row
  BY <1>2 DEF IInv, Typed
<1>8. CASE check.first
  BY <1>2, <1>5, <1>8 DEF Register
<1>9. CASE ~check.first /\ target[ItemUrl] = None
  BY <1>6, <1>9 DEF Register
<1>10. CASE /\ ~check.first /\ target[ItemUrl] # None
            /\ UpdatedAt # 0 /\ UpdatedAt # target[ItemUrl].watermark
  BY <1>2, <1>6, <1>10 DEF Register
<1>11. CASE /\ ~check.first /\ target[ItemUrl] # None
            /\ ~(UpdatedAt # 0 /\ UpdatedAt # target[ItemUrl].watermark)
  <2>1. Dated => target[ItemUrl].watermark >= check.body[Current].date
    BY <1>2, <1>7, <1>11 DEF Row
  <2> QED
    BY <1>5, <1>11, <2>1 DEF Register
<1> QED
  BY <1>8, <1>9, <1>10, <1>11

LEMMA InsertNewKeeps == ASSUME IInv, InsertNew PROVE IInv'
<1>1. PICK key, x, f :
        /\ key = NewKey(Current, ItemUrl)
        /\ x = [key |-> key, kind |-> "new", of |-> StableKey(Current, ItemUrl),
                url |-> ItemUrl, date |-> 0]
        /\ f = [key |-> key, advance |-> None]
        /\ Insert(x) /\ Detected(<<f>>)
  BY DEF InsertNew
<1>2. /\ At("new")
      /\ UNCHANGED <<kind, mode, etags, doc, target, snapshot, fanned, lastChecked, baselined,
                     published, losses, patches>>
  BY DEF InsertNew, site
<1>3. /\ Checking /\ check.pc = "new" /\ ItemUrl \in Urls
      /\ check.first = ~lastChecked
      /\ StableKey(Current, ItemUrl) \in StableKeys
  BY <1>2, AtEntry
<1>4. /\ target[ItemUrl] # None /\ target[ItemUrl].from = StableKey(Current, ItemUrl)
      /\ Dated => target[ItemUrl].watermark >= check.body[Current].date
  BY <1>3 DEF IInv, Located
<1>5. Shape(x) /\ key \in Key /\ key = <<"entry", StableKey(Current, ItemUrl)>>
  BY <1>1, <1>3 DEF Shape, Key, NewKey
<1>6. f \in News /\ f.advance = None /\ f.key = key /\ x.key = key
  BY <1>1, <1>5 DEF News
<1>7. <<f>> \in Seq(News) /\ Range(<<f>>) = {f}
  BY <1>6 DEF Range
<1>8. /\ Shaped' /\ changes \subseteq changes' /\ HasChange(x.key)'
      /\ \A c, d \in changes' : c.key = d.key => c = d
      /\ {c.key : c \in changes'} \subseteq Key
  BY <1>1, <1>2, <1>5, <1>6, InsertKeeps DEF IInv, Typed, TypeOK
<1>9. HasChange(f.key)'
  BY <1>6, <1>8
<1>10. target \in [Urls -> Row \cup {None}]
  BY DEF IInv, Typed
<1> QED
  BY <1>1, <1>2, <1>3, <1>4, <1>5, <1>6, <1>7, <1>8, <1>9, <1>10, RoundKeeps

LEMMA InsertUpdatedKeeps == ASSUME IInv, InsertUpdated PROVE IInv'
<1>1. PICK key, x, item, f :
        /\ key = UpdatedKey(Current, ItemUrl, UpdatedAt)
        /\ x = [key |-> key, kind |-> "updated", of |-> StableKey(Current, ItemUrl),
                url |-> ItemUrl, date |-> UpdatedAt]
        /\ item = [url |-> ItemUrl, date |-> UpdatedAt]
        /\ f = [key |-> key, advance |-> item]
        /\ Insert(x) /\ Detected(<<f>>)
  BY DEF InsertUpdated
<1>2. /\ At("updated")
      /\ UNCHANGED <<kind, mode, etags, doc, target, snapshot, fanned, lastChecked, baselined,
                     published, losses, patches>>
  BY DEF InsertUpdated, site
<1>3. /\ Checking /\ check.pc = "updated" /\ ItemUrl \in Urls
      /\ check.first = ~lastChecked
      /\ StableKey(Current, ItemUrl) \in StableKeys
      /\ check.body[Current] = [url |-> ItemUrl, date |-> check.body[Current].date]
      /\ check.body[Current].date \in 1..Versions
      /\ UpdatedAt = IF Dated THEN check.body[Current].date ELSE 0
  BY <1>2, AtEntry
<1>4. target[ItemUrl] # None /\ Dated
  BY <1>3 DEF IInv, Located
<1>5. UpdatedAt \in 1..Versions /\ item = check.body[Current]
  BY <1>1, <1>3, <1>4
<1>6. Shape(x) /\ key \in Key /\ key = <<"entry", StableKey(Current, ItemUrl), UpdatedAt>>
  BY <1>1, <1>3, <1>5 DEF Shape, Key, UpdatedKey
<1>7. item \in [url : Urls, date : 1..Versions] /\ item.date = UpdatedAt
  BY <1>1, <1>3, <1>5
<1>8. f \in News /\ f.advance = item /\ f.key = key /\ x.key = key
  BY <1>1, <1>6, <1>7 DEF News
<1>9. <<f>> \in Seq(News) /\ Range(<<f>>) = {f}
  BY <1>8 DEF Range
<1>10. /\ Shaped' /\ changes \subseteq changes' /\ HasChange(x.key)'
       /\ \A c, d \in changes' : c.key = d.key => c = d
       /\ {c.key : c \in changes'} \subseteq Key
  BY <1>1, <1>2, <1>6, <1>8, InsertKeeps DEF IInv, Typed, TypeOK
<1>11. HasChange(f.key)' /\ f.key = UpdatedKey(Current, ItemUrl, f.advance.date)
  BY <1>1, <1>7, <1>8, <1>10
<1>12. target \in [Urls -> Row \cup {None}]
  BY DEF IInv, Typed
<1> QED
  BY <1>1, <1>2, <1>3, <1>4, <1>5, <1>8, <1>9, <1>10, <1>11, <1>12, RoundKeeps

-----------------------------------------------------------------------------
(* The change of the whole document *)

LEMMA InsertTextKeeps == ASSUME IInv, InsertText PROVE IInv'
<1>1. /\ At("diff")
      /\ UNCHANGED <<kind, mode, etags, doc, target, snapshot, fanned, lastChecked, baselined,
                     published, losses, patches>>
  BY DEF InsertText, site
<1>2. /\ Checking /\ check \in Check /\ check.pc = "diff" /\ check.body \in Document(kind)
      /\ check.recipe \in Recipes /\ check.recipe \notin OfEntries
      /\ check.todo = {} /\ check.found = <<>> /\ check.first = ~lastChecked
  BY <1>1, Running DEF IInv, Located, Steps
<1>3. \A u : ~OnItsWay(u)
  BY <1>2, NothingFound DEF OnItsWay
<1>4. ASSUME changes \subseteq changes', Checking', check'.recipe = check.recipe
      PROVE  Accounted'
  BY <1>1, <1>2, <1>3, <1>4 DEF IInv, Accounted, AnnouncedNew, Announced
<1>5. CASE TextChanged
  <2>1. PICK key, x, f :
          /\ key = TextKey(check.body)
          /\ x = [key |-> key, kind |-> "updated", of |-> Text(check.body),
                  url |-> None, date |-> 0]
          /\ f = [key |-> key, advance |-> None]
          /\ Insert(x) /\ check' = [check EXCEPT !.pc = "notify", !.found = <<f>>]
    BY <1>5 DEF InsertText
  <2>2. Shape(x) /\ key \in Key /\ x.key = key /\ f.key = key /\ f.advance = None
    BY <1>2, <2>1 DEF Shape, Key, TextKey, Texts
  <2>3. f \in News /\ <<f>> \in Seq(News) /\ Range(<<f>>) = {f}
    BY <2>1, <2>2 DEF News, Range
  <2>4. /\ Shaped' /\ changes \subseteq changes' /\ HasChange(x.key)'
        /\ \A c, d \in changes' : c.key = d.key => c = d
        /\ {c.key : c \in changes'} \subseteq Key
    BY <1>1, <2>1, <2>2, InsertKeeps DEF IInv, Typed, TypeOK
  <2>5. /\ check' \in Check /\ check'.pc = "notify" /\ check'.recipe = check.recipe
        /\ check'.body = check.body /\ check'.first = check.first /\ check'.prev = check.prev
        /\ check'.todo = {} /\ check'.found = <<f>>
    BY <1>2, <2>1, <2>3 DEF Check, Steps
  <2>6. Checking' /\ check'.found # <<>>
    BY <2>5 DEF Checking, Idle
  <2>7. Typed'
    <3>1. fanned \subseteq {c.key : c \in changes'}
      BY <2>4 DEF IInv, Typed, TypeOK
    <3>2. /\ check'.recipe \in {"feed", "extract", "content", "direct"}
          /\ check'.todo \subseteq Processed(check'.body)
      BY <1>2, <2>5 DEF Recipes
    <3>3. TypeOK'
      BY <1>1, <2>4, <2>5, <2>6, <3>1, <3>2, KindDecides DEF IInv, Typed, TypeOK
    <3> QED
      BY <1>1, <2>5, <3>3, KindDecides DEF IInv, Typed
  <2>8. Located'
    BY <1>1, <1>2, <2>5 DEF Located
  <2>9. Found'
    <3>1. HasChange(f.key)'
      BY <2>1, <2>2, <2>4
    <3> QED
      BY <2>2, <2>3, <2>5, <3>1 DEF Found
  <2>10. Taken'
    BY <1>2, <2>5 DEF Taken
  <2>11. Told'
    <3>1. TextKey(check.body)' = TextKey(check.body)
      BY <1>1, <2>5 DEF TextKey, Text
    <3> QED
      BY <2>1, <2>5, <3>1 DEF Told
  <2> QED
    BY <1>4, <2>4, <2>5, <2>6, <2>7, <2>8, <2>9, <2>10, <2>11 DEF IInv
<1>6. CASE ~TextChanged
  <2>1. check' = [check EXCEPT !.pc = "finish"] /\ changes' = changes
    BY <1>6 DEF InsertText, Goto
  <2>2. /\ check' \in Check /\ check'.pc = "finish" /\ check'.recipe = check.recipe
        /\ check'.body = check.body /\ check'.first = check.first /\ check'.prev = check.prev
        /\ check'.todo = {} /\ check'.found = <<>>
    BY <1>2, <2>1 DEF Check, Steps
  <2>3. Checking'
    BY <2>2 DEF Checking, Idle
  <2>4. Typed'
    <3>1. TypeOK'
      BY <1>1, <1>2, <2>1, <2>2, KindDecides DEF IInv, Typed, TypeOK, Recipes
    <3> QED
      BY <1>1, <2>2, <3>1, KindDecides DEF IInv, Typed
  <2>5. Shaped'
    BY <1>1, <2>1, KindDecides DEF IInv, Shaped, Shape
  <2>6. Located'
    BY <1>1, <1>2, <2>2 DEF Located
  <2>7. Found' /\ Taken'
    BY <1>2, <2>2, NothingFound DEF Found, Taken
  <2>8. Told'
    BY <1>1, <1>6, <2>2 DEF Told, TextChanged, Text
  <2> QED
    BY <1>4, <2>1, <2>2, <2>3, <2>4, <2>5, <2>6, <2>7, <2>8 DEF IInv
<1> QED
  BY <1>5, <1>6

-----------------------------------------------------------------------------
(* notifyDetectedChanges *)

\* What a list holds is its head and the rest.
LEMMA RangeHeadTail ==
  ASSUME NEW S, NEW s \in Seq(S), s # <<>>
  PROVE  Range(s) = {Head(s)} \cup Range(Tail(s))
<1>1. /\ Len(s) \in Nat /\ Len(s) # 0 /\ Head(s) = s[1]
      /\ Tail(s) \in Seq(S) /\ Len(Tail(s)) = Len(s) - 1
      /\ \A i \in 1..Len(Tail(s)) : Tail(s)[i] = s[i + 1]
  BY HeadTailProperties, EmptySeq
<1>2. /\ Range(s) = {s[i] : i \in 1..Len(s)}
      /\ Range(Tail(s)) = {Tail(s)[i] : i \in 1..Len(Tail(s))}
  BY <1>1, RangeEquality
<1>3. \A i \in 1..Len(s) : i = 1 \/ (i - 1 \in 1..Len(Tail(s)) /\ s[i] = Tail(s)[i - 1])
  BY <1>1
<1>4. \A i \in 1..Len(Tail(s)) : i + 1 \in 1..Len(s) /\ Tail(s)[i] = s[i + 1]
  BY <1>1
<1>5. Range(s) \subseteq {Head(s)} \cup Range(Tail(s))
  BY <1>1, <1>2, <1>3
<1>6. Head(s) \in Range(s) /\ Range(Tail(s)) \subseteq Range(s)
  BY <1>1, <1>2, <1>4
<1> QED
  BY <1>5, <1>6

\* A step of the fan-out has a change before it.
LEMMA AtChange ==
  ASSUME IInv, NEW pc \in {"notify", "advance"}, At(pc)
  PROVE  /\ Checking /\ check \in Check /\ check.pc = pc /\ check.first = ~lastChecked
         /\ check.found \in Seq(News) /\ check.found # <<>> /\ check.todo = {}
         /\ check.body \in Document(kind) /\ check.recipe \in Recipes
         /\ Head(check.found) \in Range(check.found)
         /\ Range(check.found) = {Head(check.found)} \cup Range(Tail(check.found))
         /\ Tail(check.found) \in Seq(News)
         /\ HasChange(Head(check.found).key)
         /\ Head(check.found).advance # None =>
              Head(check.found).advance \in [url : Urls, date : 1..Versions]
<1> DEFINE found == check.found
<1>1. /\ Checking /\ check \in Check /\ check.pc = pc /\ found \in Seq(News)
      /\ check.body \in Document(kind) /\ check.recipe \in Recipes
      /\ check.first = ~lastChecked
  BY Running DEF Steps
<1>2. found # <<>> /\ check.todo = {}
  BY <1>1 DEF IInv, Typed, TypeOK, Located, Checking
<1> HIDE DEF found
<1>3. Tail(found) \in Seq(News) /\ Range(found) = {Head(found)} \cup Range(Tail(found))
  BY <1>1, <1>2, HeadTailProperties, RangeHeadTail
<1>4. Head(found) \in Range(found)
  BY <1>3
<1>5. HasChange(Head(found).key)
  BY <1>1, <1>4 DEF IInv, Found, found
<1>6. Head(found).advance # None => Head(found).advance \in [url : Urls, date : 1..Versions]
  BY <1>1, <1>4, FoundIsNews DEF found
<1> QED
  BY <1>1, <1>2, <1>3, <1>4, <1>5, <1>6 DEF found

LEMMA NextChangeGoesOn ==
  ASSUME check \in Check, check.recipe \in Recipes, Tail(check.found) \in Seq(News), NextChange
  PROVE  /\ check' \in Check /\ check'.recipe = check.recipe /\ check'.body = check.body
         /\ check'.first = check.first /\ check'.prev = check.prev
         /\ check'.todo = check.todo /\ check'.found = Tail(check.found)
         /\ check'.pc \in {"notify", "snapshot", "finish"}
         /\ check'.pc = "notify" <=> check'.found # <<>>
         /\ check'.pc = "snapshot" => check'.recipe = "extract"
<1> DEFINE found == Tail(check.found)
           pc == IF found # <<>> THEN "notify" ELSE Notified(check.recipe)
<1>1. check' = [check EXCEPT !.found = found, !.pc = pc]
  BY DEF NextChange
<1>2. /\ pc \in {"notify", "snapshot", "finish"} /\ (pc = "notify" <=> found # <<>>)
      /\ pc = "snapshot" => check.recipe = "extract"
  BY DEF Notified
<1> HIDE DEF pc, found
<1>3. found \in Seq(News) /\ pc \in Steps
  BY <1>2 DEF found, Steps
<1>4. /\ check' \in Check /\ check'.recipe = check.recipe /\ check'.body = check.body
      /\ check'.first = check.first /\ check'.prev = check.prev
      /\ check'.todo = check.todo /\ check'.found = found /\ check'.pc = pc
  BY <1>1, <1>3 DEF Check
<1> QED
  BY <1>2, <1>4 DEF found

\* A change is done with: fanned out, and its date written.
LEMMA ChangeDone ==
  ASSUME IInv, NEW pc \in {"notify", "advance"}, At(pc), NextChange,
         UNCHANGED <<kind, mode, etags, doc, snapshot, changes, lastChecked, baselined,
                     published, losses, patches>>,
         fanned \subseteq fanned', fanned' \subseteq {c.key : c \in changes},
         Head(check.found).key \in fanned',
         target' \in [Urls -> Row \cup {None}],
         \A u \in Urls : target'[u] # None <=> target[u] # None,
         \A u \in Urls : target[u] # None =>
            /\ target'[u].from = target[u].from
            /\ target'[u].watermark >= target[u].watermark,
         Head(check.found).advance # None =>
            target'[Head(check.found).advance.url].watermark >= Head(check.found).advance.date
  PROVE  IInv'
<1>1. /\ Checking /\ check \in Check /\ check.pc = pc /\ check.first = ~lastChecked
      /\ check.found \in Seq(News) /\ check.found # <<>> /\ check.todo = {}
      /\ check.body \in Document(kind) /\ check.recipe \in Recipes
      /\ Range(check.found) = {Head(check.found)} \cup Range(Tail(check.found))
      /\ Tail(check.found) \in Seq(News)
      /\ HasChange(Head(check.found).key)
      /\ Head(check.found).advance # None =>
           Head(check.found).advance \in [url : Urls, date : 1..Versions]
  BY AtChange
<1>2. /\ check' \in Check /\ check'.recipe = check.recipe /\ check'.body = check.body
      /\ check'.first = check.first /\ check'.prev = check.prev
      /\ check'.todo = check.todo /\ check'.found = Tail(check.found)
      /\ check'.pc \in {"notify", "snapshot", "finish"}
      /\ check'.pc = "notify" <=> check'.found # <<>>
      /\ check'.pc = "snapshot" => check'.recipe = "extract"
  BY <1>1, NextChangeGoesOn
<1>3. Checking'
  BY <1>2 DEF Checking, Idle
<1>4. \A f \in Range(check'.found) : f \in Range(check.found)
  BY <1>1, <1>2
<1>5. Typed'
  <2>1. /\ check'.recipe \in {"feed", "extract", "content", "direct"}
        /\ check'.todo \subseteq Processed(check'.body)
    BY <1>1, <1>2 DEF Recipes
  <2>2. \A u \in Urls : target'[u] = None \/ target'[u] \in Row
    OBVIOUS
  <2>3. TypeOK'
    BY <1>2, <2>1, <2>2, KindDecides DEF IInv, Typed, TypeOK
  <2> QED
    BY <1>2, <2>3, KindDecides DEF IInv, Typed
<1>6. Shaped'
  BY KindDecides DEF IInv, Shaped, Shape
<1>7. Located'
  BY <1>1, <1>2 DEF IInv, Located, OfEntries
<1>8. Found'
  <2>1. \A f \in Range(check.found) : f.advance # None => f.advance.url \in Urls
    BY <1>1, FoundIsNews
  <2> QED
    BY <1>1, <1>2, <1>4, <2>1 DEF IInv, Found, HasChange, UpdatedKey, StableKey
<1>9. Taken'
  <2> SUFFICES ASSUME check.recipe \in OfEntries, NEW e \in Processed(check.body)
               PROVE  LET x == check.body[e] IN
                      /\ target'[x.url] # None
                      /\ (Dated /\ ~check.first) =>
                           \/ target'[x.url].watermark >= x.date
                           \/ \E f \in Range(Tail(check.found)) : f.advance = [url |-> x.url, date |-> x.date]
    BY <1>1, <1>2, KindDecides DEF Taken
  <2> DEFINE x == check.body[e]
             item == [url |-> x.url, date |-> x.date]
  <2>1. x.url \in Urls /\ x.date \in 1..Versions /\ item \in [url : Urls, date : 1..Versions]
    BY <1>1, ItemsKnown
  <2>2. /\ target[x.url] # None
        /\ (Dated /\ ~check.first) =>
             \/ target[x.url].watermark >= x.date
             \/ \E f \in Range(check.found) : f.advance = item
    BY <1>1 DEF IInv, Taken
  <2>3. target'[x.url] # None /\ target'[x.url] \in Row /\ target[x.url] \in Row
    BY <2>1, <2>2 DEF IInv, Typed
  <2>4. target[x.url].watermark >= x.date => target'[x.url].watermark >= x.date
    <3>1. target'[x.url].watermark >= target[x.url].watermark
      BY <2>1, <2>2
    <3>2. target'[x.url].watermark \in Int /\ target[x.url].watermark \in Int /\ x.date \in Int
      BY <2>1, <2>3 DEF Row
    <3> QED
      BY <3>1, <3>2
  <2>5. Head(check.found).advance = item => target'[x.url].watermark >= x.date
    <3>1. item # None
      BY <2>1, NoneAssumption
    <3>2. item.url = x.url /\ item.date = x.date
      OBVIOUS
    <3> HIDE DEF item, x
    <3> QED
      BY <3>1, <3>2
  <2> QED
    BY <1>1, <2>2, <2>3, <2>4, <2>5
<1>10. Accounted'
  <2>1. EntryUrls(check.body)' = EntryUrls(check.body)
    BY <1>2 DEF EntryUrls, Processed, Listed
  <2> SUFFICES ASSUME losses = 0, NEW u \in Urls, target'[u] # None
               PROVE  IF lastChecked
                      THEN u \in baselined \/ AnnouncedNew(target[u].from)' \/ OnItsWay(u)'
                      ELSE check.recipe \in OfEntries /\ u \in EntryUrls(check.body)
    BY <1>2, <1>3, <2>1 DEF Accounted
  <2>2. target[u] # None /\ target'[u].from = target[u].from
    OBVIOUS
  <2>3. CASE lastChecked
    <3>1. u \in baselined \/ AnnouncedNew(target[u].from) \/ OnItsWay(u)
      BY <2>2, <2>3 DEF IInv, Accounted
    <3>2. AnnouncedNew(target[u].from) => AnnouncedNew(target[u].from)'
      BY <2>2 DEF AnnouncedNew, Announced
    <3>3. ASSUME Head(check.found).key = <<"entry", target[u].from>>
          PROVE  AnnouncedNew(target[u].from)'
      <4>1. PICK c \in changes : c.key = <<"entry", target[u].from>>
        BY <1>1, <3>3 DEF HasChange
      <4>2. c.kind = "new" /\ c.of = target[u].from
        BY <4>1, KeyTells DEF IInv, Shaped
      <4> QED
        BY <2>2, <3>3, <4>1, <4>2 DEF AnnouncedNew, Announced
    <3>4. OnItsWay(u) => Head(check.found).key = <<"entry", target[u].from>> \/ OnItsWay(u)'
      BY <1>1, <1>2, <1>3, <2>2 DEF OnItsWay
    <3> QED
      BY <2>3, <3>1, <3>2, <3>3, <3>4
  <2>4. CASE ~lastChecked
    BY <1>1, <2>2, <2>4 DEF IInv, Accounted
  <2> QED
    BY <2>3, <2>4
<1>11. Told'
  <2> SUFFICES ASSUME check.recipe \notin OfEntries
               PROVE  /\ check'.pc = "finish"
                      /\ AnnouncedText(Text(check.body))'
    BY <1>2 DEF Told
  <2>1. pc = "notify" /\ check.found = <<[key |-> TextKey(check.body), advance |-> None]>>
    BY <1>1 DEF IInv, Located, Told
  <2>2. Head(check.found).key = TextKey(check.body) /\ Tail(check.found) = <<>>
    BY <2>1
  <2>3. check'.pc = "finish"
    BY <1>2, <2>2 DEF OfEntries
  <2>4. PICK c \in changes : c.key = TextKey(check.body)
    BY <1>1, <2>2 DEF HasChange
  <2>5. c.url = None /\ c.of = Text(check.body)
    BY <2>4, KeyTells DEF IInv, Shaped, TextKey
  <2>6. Text(check.body)' = Text(check.body)
    BY <1>2 DEF Text
  <2> QED
    BY <2>2, <2>3, <2>4, <2>5, <2>6 DEF AnnouncedText, Announced
<1> QED
  BY <1>5, <1>6, <1>7, <1>8, <1>9, <1>10, <1>11 DEF IInv

LEMMA FanoutKeeps == ASSUME IInv, Fanout PROVE IInv'
<1>1. /\ At("notify") /\ fanned' = fanned \cup {Head(check.found).key}
      /\ UNCHANGED <<kind, mode, etags, doc, target, snapshot, changes, lastChecked, baselined,
                     published, losses, patches>>
  BY DEF Fanout, site
<1>2. /\ Checking /\ check \in Check /\ check.pc = "notify" /\ check.first = ~lastChecked
      /\ check.found # <<>> /\ check.todo = {} /\ check.recipe \in Recipes
      /\ check.found \in Seq(News) /\ check.body \in Document(kind)
      /\ HasChange(Head(check.found).key)
  BY <1>1, AtChange
<1>3. /\ fanned \subseteq fanned' /\ fanned' \subseteq {c.key : c \in changes}
      /\ Head(check.found).key \in fanned'
  BY <1>1, <1>2 DEF IInv, Typed, TypeOK, HasChange
<1>4. target \in [Urls -> Row \cup {None}]
  BY DEF IInv, Typed
<1>5. CASE Head(check.found).advance = None
  <2>1. NextChange
    BY <1>5 DEF Fanout
  <2>2. \A u \in Urls : target[u] # None => target[u].watermark >= target[u].watermark
    BY <1>4, LimitAssumption DEF Row
  <2> QED
    BY <1>1, <1>3, <1>4, <1>5, <2>1, <2>2, ChangeDone
<1>6. CASE Head(check.found).advance # None
  <2>1. check' = [check EXCEPT !.pc = "advance"]
    BY <1>6 DEF Fanout, Goto
  <2>2. /\ check' \in Check /\ check'.pc = "advance" /\ check'.recipe = check.recipe
        /\ check'.body = check.body /\ check'.first = check.first /\ check'.prev = check.prev
        /\ check'.todo = {} /\ check'.found = check.found
    BY <1>2, <2>1 DEF Check, Steps
  <2>3. Checking'
    BY <2>2 DEF Checking, Idle
  <2>4. Typed'
    <3>1. TypeOK'
      BY <1>1, <1>2, <1>3, <2>2, KindDecides DEF IInv, Typed, TypeOK, Recipes
    <3> QED
      BY <1>1, <2>2, <3>1, KindDecides DEF IInv, Typed
  <2>5. Shaped'
    BY <1>1, KindDecides DEF IInv, Shaped, Shape
  <2>6. check.recipe \in OfEntries
    <3>1. ASSUME check.recipe \notin OfEntries PROVE FALSE
      <4>1. check.found = <<[key |-> TextKey(check.body), advance |-> None]>>
        BY <1>2, <3>1 DEF IInv, Told
      <4> QED
        BY <1>6, <4>1
    <3> QED
      BY <3>1
  <2>7. Located'
    BY <1>1, <1>2, <1>3, <1>6, <2>2, <2>6 DEF Located
  <2>8. Found'
    BY <1>1, <1>2, <2>2 DEF IInv, Found, HasChange, UpdatedKey, StableKey
  <2>9. Taken'
    BY <1>1, <1>2, <2>2, KindDecides DEF IInv, Taken
  <2>10. Accounted'
    <3>1. EntryUrls(check.body)' = EntryUrls(check.body)
      BY <2>2 DEF EntryUrls, Processed, Listed
    <3> SUFFICES ASSUME losses = 0, NEW u \in Urls, target[u] # None
                 PROVE  IF lastChecked
                        THEN u \in baselined \/ AnnouncedNew(target[u].from)' \/ OnItsWay(u)'
                        ELSE check.recipe \in OfEntries /\ u \in EntryUrls(check.body)
      BY <1>1, <2>2, <2>3, <3>1 DEF Accounted
    <3>2. AnnouncedNew(target[u].from) => AnnouncedNew(target[u].from)'
      BY <1>1 DEF AnnouncedNew, Announced
    <3>3. OnItsWay(u) => OnItsWay(u)'
      BY <1>1, <1>2, <2>2, <2>3 DEF OnItsWay
    <3> QED
      BY <1>2, <3>2, <3>3 DEF IInv, Accounted
  <2>11. Told'
    BY <2>2, <2>6 DEF Told
  <2> QED
    BY <2>4, <2>5, <2>7, <2>8, <2>9, <2>10, <2>11 DEF IInv
<1> QED
  BY <1>5, <1>6

\* setTargetLastKnownUpdatedAt moves one watermark, and only forward.
LEMMA AdvanceMoves ==
  ASSUME IInv, Advance
  PROVE  /\ target' \in [Urls -> Row \cup {None}]
         /\ \A u \in Urls : target'[u] # None <=> target[u] # None
         /\ \A u \in Urls : target[u] # None =>
              /\ target'[u].from = target[u].from
              /\ target'[u].watermark >= target[u].watermark
         /\ LET a == Head(check.found).advance IN
            /\ a \in [url : Urls, date : 1..Versions] /\ target[a.url] # None
            /\ target'[a.url].watermark >= a.date
            /\ \A u \in Urls : target'[u] # target[u] =>
                 /\ u = a.url /\ target'[u].watermark = a.date
                 /\ target'[u].watermark > target[u].watermark
<1> DEFINE a == Head(check.found).advance
<1>1. /\ Checking /\ check.pc = "advance" /\ Head(check.found) \in Range(check.found)
      /\ a # None => a \in [url : Urls, date : 1..Versions]
  BY AtChange DEF Advance
<1>2. a # None /\ a.url \in Urls /\ a.date \in 1..Versions
  BY <1>1 DEF IInv, Located
<1>3. target[a.url] # None
  BY <1>1, <1>2 DEF IInv, Found
<1>4. target \in [Urls -> Row \cup {None}] /\ target[a.url] \in Row
  BY <1>2, <1>3 DEF IInv, Typed
<1>5. target' = [target EXCEPT ![a.url].watermark = IF Later(a.date, @) THEN a.date ELSE @]
  BY DEF Advance
<1> HIDE DEF a
<1> DEFINE row == target[a.url]
           new == [row EXCEPT !.watermark = IF row.watermark < a.date THEN a.date ELSE row.watermark]
<1>6. target' = [target EXCEPT ![a.url] = new]
  BY <1>4, <1>5 DEF Later
<1>7. row.watermark \in 0..Versions /\ row.from \in StableKeys
  BY <1>4 DEF Row
<1>8. /\ new \in Row /\ new.from = row.from /\ new.watermark >= row.watermark
      /\ new.watermark >= a.date
      /\ new # row => new.watermark = a.date /\ new.watermark > row.watermark
  BY <1>2, <1>4, <1>7, LimitAssumption DEF Row
<1>9. \A x \in Row : x # None /\ x.watermark >= x.watermark
  BY NoneAssumption, LimitAssumption DEF Row, StableKeys, StableKey, Entry
<1> HIDE DEF new
<1>10. /\ target' \in [Urls -> Row \cup {None}] /\ target'[a.url] = new
       /\ \A u \in Urls \ {a.url} : target'[u] = target[u]
  BY <1>2, <1>4, <1>6, <1>8
<1>11. \A u \in Urls : target[u] # None => target[u] \in Row
  BY <1>4
<1>12. \A u \in Urls : target'[u] # None <=> target[u] # None
  BY <1>2, <1>3, <1>8, <1>9, <1>10
<1>13. \A u \in Urls : target[u] # None =>
         /\ target'[u].from = target[u].from
         /\ target'[u].watermark >= target[u].watermark
  BY <1>2, <1>3, <1>8, <1>9, <1>10, <1>11
<1> QED
  BY <1>1, <1>2, <1>3, <1>8, <1>10, <1>12, <1>13 DEF a

LEMMA AdvanceKeeps == ASSUME IInv, Advance PROVE IInv'
<1>1. /\ At("advance") /\ NextChange
      /\ UNCHANGED <<kind, mode, etags, doc, snapshot, changes, fanned, lastChecked, baselined,
                     published, losses, patches>>
  BY DEF Advance, site
<1>2. Checking /\ check.pc = "advance"
  BY <1>1, AtChange
<1>3. Head(check.found).key \in fanned /\ fanned \subseteq {c.key : c \in changes}
  BY <1>2 DEF IInv, Typed, TypeOK, Located
<1> QED
  BY <1>1, <1>3, AdvanceMoves, ChangeDone

-----------------------------------------------------------------------------
(* The invariant holds *)

LEMMA Initially == Init => IInv
<1> SUFFICES ASSUME Init PROVE IInv
  OBVIOUS
<1>1. TypeOK
  <2>1. /\ kind \in Kinds /\ mode \in {"content", "extract"} /\ etags \in BOOLEAN
        /\ doc \in Document(kind)
    BY ConditionalAssumption DEF Init
  <2>2. \A u \in Urls : target[u] = None
    BY DEF Init
  <2>3. changes = {} /\ fanned = {} /\ {c.key : c \in changes} = {}
    BY DEF Init
  <2>4. published \in 0..MaxPublished /\ losses \in 0..MaxLosses /\ patches \in 0..MaxPatches
    BY LimitAssumption DEF Init
  <2>5. snapshot = None /\ lastChecked \in BOOLEAN /\ check = Idle /\ baselined = {}
    BY DEF Init
  <2> QED
    BY <2>1, <2>2, <2>3, <2>4, <2>5 DEF TypeOK
<1>2. Typed
  BY <1>1 DEF Init, Typed, Checking
<1>3. \A u \in Urls : target[u] = None
  BY DEF Init
<1> QED
  BY <1>2, <1>3
     DEF Init, IInv, Shaped, Located, Found, Taken, Accounted, Told, Checking

THEOREM PipelineInductive == Spec => []IInv
<1>1. IInv /\ [Next]_vars => IInv'
  BY FetchBodyKeeps, FetchNothingKeeps, WriteSnapshotKeeps, RegisterKeeps, InsertNewKeeps,
     InsertUpdatedKeeps, InsertTextKeeps, FanoutKeeps, AdvanceKeeps, FinishKeeps, LostKeeps,
     PublishKeeps, PatchModeKeeps, StutterKeeps DEF Next, Processor
<1> QED
  BY <1>1, Initially, PTL DEF Spec

-----------------------------------------------------------------------------
(* What it implies *)

\* Dedupe keys are unique, what was fanned out is in the table of changes, and a
\* processor works on entries of its own document.
THEOREM PipelineTypeOK == Spec => []TypeOK
<1>1. IInv => TypeOK
  BY DEF IInv, Typed
<1> QED
  BY <1>1, PipelineInductive, PTL

\* insertChangeIfNew and the dedupe keys of detectFeedChanges: however often a
\* check is repeated, an entry is new once, and each of its dates is news once.
THEOREM PipelineEntryAnnouncedOnce == Spec => []EntryAnnouncedOnce
<1>1. IInv => EntryAnnouncedOnce
  <2> SUFFICES ASSUME IInv, NEW c \in Announced, NEW d \in Announced,
                      c.kind = d.kind, c.of = d.of, c.date = d.date
               PROVE  c = d
    BY DEF EntryAnnouncedOnce
  <2>1. c \in changes /\ d \in changes /\ Shape(c) /\ Shape(d)
    BY DEF Announced, IInv, Shaped
  <2>2. c.key = d.key
    BY <2>1 DEF Shape
  <2> QED
    BY <2>1, <2>2 DEF IInv, Typed, TypeOK
<1> QED
  BY <1>1, PipelineInductive, PTL

\* A processor that gets to its end has left no entry of its document without a
\* row, no date behind, and no news unannounced, whatever came before it.
THEOREM PipelineFinishedCheckIsComplete == Spec => []FinishedCheckIsComplete
<1>1. IInv => FinishedCheckIsComplete
  <2> SUFFICES ASSUME IInv, At("finish") PROVE FinishedCheckIsComplete
    BY DEF FinishedCheckIsComplete
  <2>1. /\ Checking /\ check \in Check /\ check.pc = "finish" /\ check.recipe \in Recipes
        /\ check.first = ~lastChecked /\ check.todo = {} /\ check.found = <<>>
    BY Running DEF Steps, IInv, Located
  <2>2. ASSUME check.recipe \in OfEntries, NEW e \in Processed(check.body)
        PROVE  LET x == check.body[e]
               IN  /\ target[x.url] # None
                   /\ (Dated /\ ~check.first) => target[x.url].watermark >= x.date
    BY <2>1, <2>2, NothingFound DEF IInv, Taken
  <2>3. ASSUME losses = 0, ~check.first, NEW u \in Urls
        PROVE  target[u] = None \/ u \in baselined \/ AnnouncedNew(target[u].from)
    BY <2>1, <2>3, NothingFound DEF IInv, Accounted, OnItsWay
  <2>4. ASSUME check.recipe \in {"content", "direct"}, check.prev # None,
               check.recipe = "content" \/ ~check.first,
               check.body # check.prev.body /\ Text(check.body) # check.prev.text
        PROVE  AnnouncedText(Text(check.body))
    BY <2>1, <2>4 DEF IInv, Told, OfEntries, TextChanged
  <2> QED
    BY <2>2, <2>3, <2>4 DEF FinishedCheckIsComplete, OfEntries
<1> QED
  BY <1>1, PipelineInductive, PTL

\* notifyDetectedChanges writes a date to the row of a target after the change
\* that tells of it was fanned out, and never an older one than is there.
THEOREM PipelineWatermarkFollowsFanout == Spec => WatermarkFollowsFanout
<1> DEFINE Follows(u) ==
      (target[u] # None /\ target'[u] # target[u]) =>
          /\ target'[u].watermark > target[u].watermark
          /\ \E c \in Announced : /\ c.kind = "updated"
                                  /\ \E e \in Entry :
                                       /\ check.body[e] = [url |-> u, date |-> target'[u].watermark]
                                       /\ c.of = StableKey(e, u) /\ c.date = check.body[e].date
<1>1. IInv /\ [Next]_vars => [\A u \in Urls : Follows(u)]_vars
  <2> SUFFICES ASSUME IInv, Next, NEW u \in Urls, target[u] # None, target'[u] # target[u]
               PROVE  Follows(u)
    OBVIOUS
  <2>1. CASE Register
    <3>1. At("detect") /\ Upsert(ItemUrl)
      BY <2>1 DEF Register
    <3>2. ItemUrl \in Urls /\ StableKey(Current, ItemUrl) \in StableKeys /\ UpdatedAt \in 0..Versions
      BY <3>1, AtEntry
    <3> QED
      BY <3>1, <3>2, UpsertRegisters DEF IInv, Typed
  <2>2. CASE Advance
    <3> DEFINE h == Head(check.found)
    <3>1. /\ h.advance.url = u /\ h.advance.date = target'[u].watermark
          /\ h.advance \in [url : Urls, date : 1..Versions]
          /\ target'[u].watermark > target[u].watermark
      BY <2>2, AdvanceMoves
    <3>2. Checking /\ check.pc = "advance" /\ h \in Range(check.found)
      BY <2>2, AtChange DEF Advance
    <3>3. h.advance # None /\ h.key \in fanned
      BY <3>2 DEF IInv, Located
    <3>4. PICK e \in Entry :
            check.body[e] = h.advance /\ h.key = UpdatedKey(e, h.advance.url, h.advance.date)
      BY <3>2, <3>3 DEF IInv, Found
    <3>5. PICK c \in changes : c.key = h.key
      BY <3>2 DEF IInv, Found, HasChange
    <3>6. c.kind = "updated" /\ c.of = StableKey(e, u) /\ c.date = h.advance.date
      BY <3>1, <3>4, <3>5, KeyTells DEF IInv, Shaped, UpdatedKey
    <3>7. c \in Announced
      BY <3>3, <3>5 DEF Announced
    <3>8. check.body[e] = [url |-> u, date |-> target'[u].watermark]
      BY <3>1, <3>4
    <3> HIDE DEF h
    <3> QED
      BY <3>1, <3>4, <3>6, <3>7, <3>8
  <2>3. CASE ~(Register \/ Advance)
    <3>1. target' = target
      BY <2>3 DEF Next, Processor, FetchBody, FetchNothing, WriteSnapshot, InsertNew,
         InsertUpdated, InsertText, Fanout, Finish, Crash, Throw, Publish, PatchMode, store
    <3> QED
      BY <3>1
  <2> QED
    BY <2>1, <2>2, <2>3
<1> QED
  BY <1>1, PipelineInductive, PTL DEF Spec, WatermarkFollowsFanout

\* The urls of the baseline have their rows, and until there is a baseline
\* nothing is new.
Quiet ==
  /\ BaselineSilent
  /\ \A u \in baselined : u \in Urls /\ target[u] # None
  /\ ~lastChecked => baselined = {} /\ \A c \in changes : c.kind # "new"
  /\ check.pc = "new" => ItemUrl \notin baselined

\* detectFeedChanges: what the first check that ends has registered is never
\* announced as new, even if checks before it were lost half way.
THEOREM PipelineBaselineSilent == Spec => []BaselineSilent
<1>1. Init => Quiet
  BY DEF Init, Quiet, BaselineSilent, Idle
<1>2. IInv /\ Quiet /\ [Next]_vars => Quiet'
  <2> SUFFICES ASSUME IInv, Quiet, [Next]_vars PROVE Quiet'
    OBVIOUS
  <2>1. CASE Register
    <3>1. /\ At("detect") /\ Upsert(ItemUrl)
          /\ UNCHANGED <<changes, lastChecked, baselined>>
      BY <2>1 DEF Register
    <3>2. /\ ItemUrl \in Urls /\ StableKey(Current, ItemUrl) \in StableKeys
          /\ UpdatedAt \in 0..Versions /\ check \in Check /\ check.recipe \in OfEntries
      BY <3>1, AtEntry
    <3>3. /\ \A u \in baselined : u \in Urls /\ target'[u] # None
          /\ ~lastChecked => baselined = {} /\ \A c \in changes : c.kind # "new"
      BY <3>1, <3>2, UpsertRegisters DEF IInv, Typed, Quiet
    <3>4. ASSUME check'.pc = "new" PROVE ItemUrl' \notin baselined
      <4>1. target[ItemUrl] = None /\ Goto("new")
        <5>1. ASSUME Detected(<<>>) PROVE FALSE
          BY <3>2, <3>4, <5>1, DetectedGoesOn, EmptySeq
        <5>2. ASSUME Goto("updated") PROVE FALSE
          BY <3>2, <3>4, <5>2 DEF Goto, Check
        <5> QED
          BY <2>1, <5>1, <5>2 DEF Register
      <4>2. check'.todo = check.todo /\ check'.body = check.body
        BY <3>2, <4>1 DEF Goto, Check
      <4>3. ItemUrl' = ItemUrl
        BY <4>2 DEF ItemUrl, Current
      <4> QED
        BY <4>1, <4>3 DEF Quiet
    <3> QED
      BY <3>1, <3>3, <3>4 DEF Quiet, BaselineSilent
  <2>2. CASE InsertNew
    <3>1. PICK s, x : /\ Insert(x) /\ x.url = ItemUrl /\ Detected(s)
                      /\ s = <<[key |-> NewKey(Current, ItemUrl), advance |-> None]>>
      BY <2>2 DEF InsertNew
    <3>2. At("new") /\ UNCHANGED <<target, lastChecked, baselined>>
      BY <2>2 DEF InsertNew
    <3>3. check.pc = "new" /\ lastChecked /\ check \in Check /\ check.recipe \in OfEntries
          /\ StableKey(Current, ItemUrl) \in StableKeys
      BY <3>2, AtEntry DEF IInv, Located, Typed, TypeOK
    <3>4. s \in Seq(News)
      BY <3>1, <3>3 DEF News, Key, NewKey
    <3>5. check'.pc # "new"
      BY <3>1, <3>3, <3>4, DetectedGoesOn
    <3>6. \A c \in changes' : c \in changes \/ c.url \notin baselined
      BY <3>1, <3>3 DEF Insert, Quiet
    <3> QED
      BY <3>2, <3>3, <3>5, <3>6 DEF Quiet, BaselineSilent
  <2>3. CASE Finish
    <3>1. /\ check' = Idle /\ lastChecked' = TRUE /\ At("finish")
          /\ UNCHANGED <<kind, target, changes>>
          /\ baselined' = IF ~lastChecked /\ check.recipe \in OfEntries
                          THEN EntryUrls(check.body) ELSE baselined
      BY <2>3 DEF Finish, OfEntries, site
    <3>2. Checking /\ check.todo = {} /\ check.body \in Document(kind)
      BY <3>1, Running DEF Steps, IInv, Located
    <3>3. ASSUME check.recipe \in OfEntries, NEW u \in EntryUrls(check.body)
          PROVE  u \in Urls /\ target[u] # None
      <4>1. PICK e \in Processed(check.body) : u = check.body[e].url
        BY <3>3 DEF EntryUrls
      <4> QED
        BY <3>2, <3>3, <4>1, ItemsKnown DEF IInv, Taken
    <3> QED
      BY <3>1, <3>3 DEF Quiet, BaselineSilent, Idle
  <2>4. CASE Advance
    <3>1. /\ NextChange /\ At("advance") /\ UNCHANGED <<changes, lastChecked, baselined>>
      BY <2>4 DEF Advance
    <3>2. /\ check \in Check /\ check.recipe \in Recipes /\ Tail(check.found) \in Seq(News)
      BY <3>1, AtChange
    <3>3. check'.pc # "new"
      BY <3>1, <3>2, NextChangeGoesOn
    <3> QED
      BY <2>4, <3>1, <3>3, AdvanceMoves DEF Quiet, BaselineSilent
  <2>5. CASE Fanout
    <3>1. /\ At("notify") /\ UNCHANGED <<target, changes, lastChecked, baselined>>
          /\ NextChange \/ Goto("advance")
      BY <2>5 DEF Fanout
    <3>2. /\ check \in Check /\ check.recipe \in Recipes /\ Tail(check.found) \in Seq(News)
      BY <3>1, AtChange
    <3>3. check'.pc # "new"
      BY <3>1, <3>2, NextChangeGoesOn DEF Goto, Check
    <3> QED
      BY <3>1, <3>3 DEF Quiet, BaselineSilent
  <2>6. CASE InsertUpdated
    <3>1. PICK s, x : /\ Insert(x) /\ x.kind = "updated" /\ Detected(s)
                      /\ s = <<[key |-> UpdatedKey(Current, ItemUrl, UpdatedAt),
                               advance |-> [url |-> ItemUrl, date |-> UpdatedAt]]>>
      BY <2>6 DEF InsertUpdated
    <3>2. At("updated") /\ UNCHANGED <<target, lastChecked, baselined>>
      BY <2>6 DEF InsertUpdated
    <3>3. /\ check.pc = "updated" /\ check \in Check /\ check.recipe \in OfEntries
          /\ StableKey(Current, ItemUrl) \in StableKeys /\ ItemUrl \in Urls
          /\ UpdatedAt \in 1..Versions
      BY <3>2, AtEntry DEF IInv, Located
    <3>4. s \in Seq(News)
      BY <3>1, <3>3 DEF News, Key, UpdatedKey
    <3>5. check'.pc # "new"
      BY <3>1, <3>3, <3>4, DetectedGoesOn
    <3>6. \A c \in changes' : c \in changes \/ c.kind # "new"
      BY <3>1 DEF Insert
    <3> QED
      BY <3>2, <3>5, <3>6 DEF Quiet, BaselineSilent
  <2>7. CASE InsertText
    <3>1. At("diff") /\ UNCHANGED <<target, lastChecked, baselined>>
      BY <2>7 DEF InsertText
    <3>2. check \in Check
      BY <3>1, Running DEF Steps
    <3>3. CASE ~TextChanged
      <4>1. Goto("finish") /\ UNCHANGED changes
        BY <2>7, <3>3 DEF InsertText
      <4> QED
        BY <3>1, <3>2, <4>1 DEF Goto, Check, Quiet, BaselineSilent
    <3>4. CASE TextChanged
      <4>1. /\ Insert([key |-> TextKey(check.body), kind |-> "updated",
                       of |-> Text(check.body), url |-> None, date |-> 0])
            /\ check' = [check EXCEPT !.pc = "notify",
                  !.found = <<[key |-> TextKey(check.body), advance |-> None]>>]
        BY <2>7, <3>4 DEF InsertText
      <4>2. check'.pc = "notify"
        BY <3>2, <4>1 DEF Check
      <4>3. \A c \in changes' : c \in changes \/ c.kind # "new"
        BY <4>1 DEF Insert
      <4> QED
        BY <3>1, <4>2, <4>3 DEF Quiet, BaselineSilent
    <3> QED
      BY <3>3, <3>4
  <2>8. CASE WriteSnapshot
    <3>1. /\ At("snapshot") /\ UNCHANGED <<target, changes, lastChecked, baselined>>
      BY <2>8 DEF WriteSnapshot
    <3>2. check \in Check /\ check.recipe \in Recipes
      BY <3>1, Running DEF Steps
    <3>3. check'.pc # "new"
      BY <2>8, <3>2 DEF WriteSnapshot, Goto, Check, Recipes
    <3> QED
      BY <3>1, <3>3 DEF Quiet, BaselineSilent
  <2>9. CASE FetchBody \/ FetchNothing \/ Crash \/ Throw
    <3>1. /\ UNCHANGED <<target, changes, baselined>>
          /\ check'.pc # "new" /\ (lastChecked' \/ lastChecked' = lastChecked)
      BY <2>9 DEF FetchBody, FetchNothing, Crash, Throw, Idle, store
    <3> QED
      BY <3>1 DEF Quiet, BaselineSilent
  <2>10. CASE Publish \/ PatchMode \/ UNCHANGED vars
    <3>1. UNCHANGED <<target, changes, lastChecked, check, baselined>>
      BY <2>10 DEF Publish, PatchMode, vars, store
    <3> QED
      BY <3>1 DEF Quiet, BaselineSilent, ItemUrl, Current
  <2> QED
    BY <2>1, <2>2, <2>3, <2>4, <2>5, <2>6, <2>7, <2>8, <2>9, <2>10 DEF Next, Processor
<1>3. Quiet => BaselineSilent
  BY DEF Quiet
<1> QED
  BY <1>1, <1>2, <1>3, PipelineInductive, PTL DEF Spec
=============================================================================
