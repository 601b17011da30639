-------------------------- MODULE ContentPipeline --------------------------
(***************************************************************************)
(* What a check does with the body it has fetched, and what that leaves    *)
(* for the next check: targets and their watermarks, the latest snapshot,  *)
(* changes, and the changes that were fanned out.                          *)
(*                                                                         *)
(* The recipes are those of contentProcessor.ts without the traversal of   *)
(* sitemap indexes.  "feed" and "extract" announce entries of the document *)
(* (feed.ts, pageItems.ts), "content" and "direct" the document as a whole *)
(* (pageContent.ts, sitemapDirect.ts).  They differ in when the snapshot   *)
(* is written, and only the snapshot's etag makes the next fetch           *)
(* conditional.                                                            *)
(*                                                                         *)
(* A step is one write to D1 with the reads it acts on.  MonitorObject     *)
(* runs one check of a monitor at a time, so only the site and the         *)
(* administrator act in between; an isolate that dies or a call that       *)
(* throws ends the check between any two steps.                            *)
(***************************************************************************)
EXTENDS Integers, Sequences, FiniteSets, FiniteSetsExt

CONSTANTS
  Entries,      \* a document has entries 1..Entries, in this order
  Urls,         \* urls of entries
  Versions,     \* an entry's updated date is one of 1..Versions
  MaxItems,     \* MAX_FEED_ITEMS_PER_CHECK
  Kinds,        \* the kinds of source a behaviour may start with
  Conditional,  \* whether the site may honour If-None-Match
  None,         \* null
  MaxPublished, \* bound: changes of the document
  MaxLosses,    \* bound: checks that end in a crash or an exception
  MaxPatches    \* bound: changes of source.config.pageMode

ASSUME LimitAssumption ==
  /\ {Entries, Versions, MaxItems} \subseteq Nat \ {0}
  /\ {MaxPublished, MaxLosses, MaxPatches} \subseteq Nat
ASSUME NoneAssumption ==
  /\ None \notin [from : Urls \cup 1..Entries, watermark : 0..Versions]
  /\ None \notin [url : Urls, date : 1..Versions]
ASSUME KindAssumption == Kinds \subseteq {"rss", "atom", "page", "sitemap"}
ASSUME ConditionalAssumption == Conditional \subseteq BOOLEAN /\ Conditional # {}

VARIABLES
  kind,        \* source.type
  mode,        \* source.config.pageMode, "content" unless "extract"
  etags,       \* whether the site answers 304 to an unchanged document
  doc,         \* what the site publishes
  target,      \* targets: the row of an entry's url
  snapshot,    \* the latest row of snapshots for the source's own target
  changes,     \* rows of changes
  fanned,      \* dedupe keys of the changes whose deliveries have been made
  lastChecked, \* monitors.last_checked_at is not null
  check,       \* the check in flight
  baselined,   \* history: urls registered while there was no last check
  published, losses, patches

store == <<target, snapshot, changes, fanned, lastChecked>>
site  == <<kind, etags, doc, published>>
vars  == <<kind, mode, etags, doc, target, snapshot, changes, fanned,
           lastChecked, check, baselined, published, losses, patches>>

Entry == 1..Entries

\* What may stand for an entry; only some kinds of source date their entries
Item(k) == [url : Urls, date : IF k \in {"atom", "sitemap"} THEN 1..Versions ELSE {1}]

\* A page and a sitemap are taken as lists of different urls (extractItems,
\* buildSitemapDocument).
Document(k) ==
  {d \in [Entry -> Item(k) \cup {None}] :
     k \in {"page", "sitemap"} =>
       \A e, f \in Entry : (e # f /\ d[e] # None /\ d[f] # None) => d[e].url # d[f].url}

Idle == [pc |-> "idle"]

\* resolveRecipeKey
Recipe(k, m) == IF k = "page" THEN m
                ELSE IF k = "sitemap" THEN "direct" ELSE "feed"

-----------------------------------------------------------------------------
(* Entries of a document, and the dedupe keys of changes *)

\* FeedItem.updatedAt: only atom entries carry one here
Dated == kind = "atom"

\* detectFeedChanges: the items it processes, the first MaxItems of the document
Listed(d) == {e \in Entry : d[e] # None}
Processed(d) == {e \in Listed(d) : Cardinality({f \in Listed(d) : f < e}) < MaxItems}

\* FeedItem.stableKey: the guid or id of a feed's entry (here its number), the
\* url of an extracted item
StableKey(e, u) == IF kind = "page" THEN u ELSE e

\* The text that content and direct compare: the text of the page, the set of
\* urls with their dates (buildSitemapDocument)
Text(d) == IF kind = "sitemap" THEN {d[e] : e \in Entry} \ {None} ELSE d

\* dedupeKey: stableKey, stableKey:updatedAt, or the hash of the text
\* Mutant of NewKey: the url takes the place of the stable key
NewKeyByUrl(e, u) == <<"url", u>>
NewKey(e, u) == <<"entry", StableKey(e, u)>>
UpdatedKey(e, u, date) == <<"entry", StableKey(e, u), date>>
TextKey(d) == <<"text", Text(d)>>

HasChange(key) == \E c \in changes : c.key = key

\* insertChangeIfNew, UNIQUE(monitor_id, dedupe_key)
\* Mutant of Insert: the conflict is not looked for
InsertAlways(c) == changes' = changes \cup {c}
Insert(c) == changes' = IF HasChange(c.key) THEN changes ELSE changes \cup {c}

Init ==
  /\ kind \in Kinds
  /\ mode \in IF kind = "page" THEN {"content", "extract"} ELSE {"content"}
  /\ etags \in Conditional
  /\ doc \in {d \in Document(kind) : \A e \in Entry : d[e] = None \/ d[e].date = 1}
  /\ target = [u \in Urls |-> None]
  /\ snapshot = None
  /\ changes = {} /\ fanned = {}
  /\ lastChecked = FALSE
  /\ check = Idle
  /\ baselined = {}
  /\ published = 0 /\ losses = 0 /\ patches = 0

-----------------------------------------------------------------------------
(* Fetch *)

\* runMonitorCheck, up to the content processor.  What it has read of the
\* monitor, the source and the latest snapshot is used to the end of the check.

\* ctx.monitor.lastCheckedAt === null
\* Mutant of FirstCheck: a check is the first one if there is no snapshot
FirstCheckBySnapshot == snapshot = None
FirstCheck == ~lastChecked

\* Where a check goes when notifyDetectedChanges is done: processPageItems still
\* has to write its snapshot
Notified(recipe) == IF recipe = "extract" THEN "snapshot" ELSE "finish"

NotModified == etags /\ snapshot # None /\ snapshot.body = doc

\* A body: the processor of the recipe starts.
FetchBody ==
  /\ check = Idle
  /\ ~NotModified
  /\ LET r == Recipe(kind, mode)
         entries == IF r \in {"feed", "extract"} THEN Processed(doc) ELSE {}
     IN  check' = [pc |-> IF r # "extract" \/ entries = {} THEN "snapshot" ELSE "detect",
                   recipe |-> r, first |-> FirstCheck, prev |-> snapshot,
                   body |-> doc, todo |-> entries, found |-> <<>>]
  /\ UNCHANGED <<site, mode, store, baselined, losses, patches>>

\* 304, a failure, or a body that is no feed (AdapterParseError): finishJob only
FetchNothing ==
  /\ check = Idle
  /\ lastChecked' = TRUE
  /\ UNCHANGED <<site, mode, target, snapshot, changes, fanned, check,
                 baselined, losses, patches>>

-----------------------------------------------------------------------------
(* The steps of a processor *)

At(pc) == check.pc = pc
Goto(pc) == check' = [check EXCEPT !.pc = pc]

\* createSnapshot.  Only "content" and "direct" record a hash of the text.
WriteSnapshot ==
  /\ At("snapshot")
  /\ snapshot' = [body |-> check.body,
                  text |-> IF check.recipe \in {"content", "direct"}
                           THEN Text(check.body) ELSE None]
  /\ Goto(CASE check.recipe = "feed" -> IF check.todo = {} THEN "finish" ELSE "detect"
            [] check.recipe = "extract" -> "finish"
            [] check.recipe = "content" -> IF check.prev = None THEN "finish" ELSE "diff"
            [] check.recipe = "direct" ->
                 IF check.prev = None \/ check.first THEN "finish" ELSE "diff")
  /\ UNCHANGED <<site, mode, target, changes, fanned, lastChecked, baselined,
                 losses, patches>>

\* The entry detectFeedChanges is at, the first that is left, and what it knows
\* of its target
Current == Min(check.todo)
ItemUrl == check.body[Current].url
UpdatedAt == IF Dated THEN check.body[Current].date ELSE 0

\* The rest of the loop, with what this entry has added to detected
Detected(f) ==
  LET todo == check.todo \ {Current}
      found == check.found \o f
  IN  check' = [check EXCEPT !.todo = todo, !.found = found,
                             !.pc = IF todo # {} THEN "detect"
                                    ELSE IF found # <<>> THEN "notify"
                                    ELSE Notified(check.recipe)]

\* upsertTarget: the watermark is written with a new row only
\* Mutant of Upsert: an existing row's watermark is brought up to date as well
UpsertAlways(u) ==
  target' = [target EXCEPT ![u] = IF @ = None THEN [from |-> StableKey(Current, u), watermark |-> UpdatedAt]
                                  ELSE [@ EXCEPT !.watermark = UpdatedAt]]
Upsert(u) ==
  target' = [target EXCEPT ![u] = IF @ = None THEN [from |-> StableKey(Current, u), watermark |-> UpdatedAt]
                                  ELSE @]

\* getExistingTargetWatermark and upsertTarget
Register ==
  /\ At("detect")
  /\ LET row == target[ItemUrl]
     IN  IF check.first THEN Detected(<<>>)
         ELSE IF row = None THEN Goto("new")
         ELSE IF UpdatedAt # 0 /\ UpdatedAt # row.watermark THEN Goto("updated")
         ELSE Detected(<<>>)
  /\ Upsert(ItemUrl)
  /\ UNCHANGED <<site, mode, snapshot, changes, fanned, lastChecked, baselined,
                 losses, patches>>

\* insertChangeIfNew of kind 'new'
InsertNew ==
  /\ At("new")
  /\ LET key == NewKey(Current, ItemUrl)
     IN  /\ Insert([key |-> key, kind |-> "new", of |-> StableKey(Current, ItemUrl), url |-> ItemUrl, date |-> 0])
         /\ Detected(<<[key |-> key, advance |-> None]>>)
  /\ UNCHANGED <<site, mode, target, snapshot, fanned, lastChecked, baselined,
                 losses, patches>>

\* insertChangeIfNew of kind 'updated'; the watermark is to follow the fan-out
InsertUpdated ==
  /\ At("updated")
  /\ LET key == UpdatedKey(Current, ItemUrl, UpdatedAt)
     IN  /\ Insert([key |-> key, kind |-> "updated", of |-> StableKey(Current, ItemUrl), url |-> ItemUrl,
                    date |-> UpdatedAt])
         /\ Detected(<<[key |-> key, advance |-> [url |-> ItemUrl, date |-> UpdatedAt]]>>)
  /\ UNCHANGED <<site, mode, target, snapshot, fanned, lastChecked, baselined,
                 losses, patches>>

\* The change of the document as a whole: compareSnapshots, then
\* insertChangeIfNew.  A snapshot without a text hash differs from any text.
\* Mutant of TextChanged: a document that was empty or has no hash is no change
TextChangedIfHashed ==
  check.prev.body # check.body /\ check.prev.text # None /\ check.prev.text # Text(check.body)
TextChanged == check.prev.body # check.body /\ check.prev.text # Text(check.body)

InsertText ==
  /\ At("diff")
  /\ IF TextChanged
     THEN LET key == TextKey(check.body)
          IN  /\ Insert([key |-> key, kind |-> "updated", of |-> Text(check.body),
                         url |-> None, date |-> 0])
              /\ check' = [check EXCEPT !.pc = "notify",
                                        !.found = <<[key |-> key, advance |-> None]>>]
     ELSE Goto("finish") /\ UNCHANGED changes
  /\ UNCHANGED <<site, mode, target, snapshot, fanned, lastChecked, baselined,
                 losses, patches>>

\* notifyDetectedChanges is done with the first change that is left.
NextChange ==
  LET found == Tail(check.found)
  IN  check' = [check EXCEPT !.found = found,
                             !.pc = IF found # <<>> THEN "notify" ELSE Notified(check.recipe)]

\* fanoutChange of the first change that is left
Fanout ==
  /\ At("notify")
  /\ fanned' = fanned \cup {Head(check.found).key}
  /\ IF Head(check.found).advance = None THEN NextChange ELSE Goto("advance")
  /\ UNCHANGED <<site, mode, target, snapshot, changes, lastChecked, baselined,
                 losses, patches>>

\* setTargetLastKnownUpdatedAt: the watermark only moves forward
\* Mutant of Later: the watermark is not moved to the newest date
LaterButLast(date, watermark) == watermark < date /\ date < Versions
Later(date, watermark) == watermark < date

Advance ==
  /\ At("advance")
  /\ LET a == Head(check.found).advance
     IN  target' = [target EXCEPT ![a.url].watermark = IF Later(a.date, @) THEN a.date ELSE @]
  /\ NextChange
  /\ UNCHANGED <<site, mode, snapshot, changes, fanned, lastChecked, baselined,
                 losses, patches>>

EntryUrls(d) == {d[e].url : e \in Processed(d)}

\* finishJob
Finish ==
  /\ At("finish")
  /\ check' = Idle
  /\ lastChecked' = TRUE
  /\ baselined' = IF ~lastChecked /\ check.recipe \in {"feed", "extract"}
                  THEN EntryUrls(check.body) ELSE baselined
  /\ UNCHANGED <<site, mode, target, snapshot, changes, fanned, losses, patches>>

-----------------------------------------------------------------------------
(* Failures, the site and the administrator *)

\* The isolate dies.
Crash ==
  /\ check # Idle
  /\ losses < MaxLosses
  /\ check' = Idle
  /\ losses' = losses + 1
  /\ UNCHANGED <<site, mode, store, baselined, patches>>

\* A call throws: runMonitorCheck settles the job with finishJob and rethrows.
Throw ==
  /\ check # Idle
  /\ losses < MaxLosses
  /\ check' = Idle
  /\ lastChecked' = TRUE
  /\ losses' = losses + 1
  /\ UNCHANGED <<site, mode, target, snapshot, changes, fanned, baselined, patches>>

\* The site publishes, moves, dates anew or withdraws an entry.
Publish ==
  /\ published < MaxPublished
  /\ \E e \in Entry : \E x \in Item(kind) \cup {None} :
       /\ x # doc[e]
       /\ doc' = [doc EXCEPT ![e] = x]
       /\ doc' \in Document(kind)
  /\ published' = published + 1
  /\ UNCHANGED <<kind, etags, mode, store, check, baselined, losses, patches>>

\* PATCH /sources/:id
PatchMode ==
  /\ kind = "page"
  /\ patches < MaxPatches
  /\ mode' = IF mode = "content" THEN "extract" ELSE "content"
  /\ patches' = patches + 1
  /\ UNCHANGED <<site, store, check, baselined, losses>>

Processor ==
  \/ WriteSnapshot \/ Register \/ InsertNew \/ InsertUpdated \/ InsertText
  \/ Fanout \/ Advance \/ Finish

Next ==
  \/ FetchBody \/ FetchNothing
  \/ Processor
  \/ Crash \/ Throw
  \/ Publish \/ PatchMode

Spec == Init /\ [][Next]_vars

\* A check that has started goes on, and the monitor is checked again and again
\* (MonitorScheduler!ActiveIsChecked); the site answers some of those checks.
Fairness == WF_vars(Processor) /\ SF_vars(FetchBody)

FairSpec == Spec /\ Fairness

-----------------------------------------------------------------------------
(* Properties *)

StableKeys == {StableKey(e, u) : e \in Entry, u \in Urls}
Texts == {Text(d) : d \in Document(kind)}
Row == [from : StableKeys, watermark : 0..Versions]
Key == {<<"entry", k>> : k \in StableKeys}
       \cup {<<"entry", k, v>> : k \in StableKeys, v \in 1..Versions}
       \cup {<<"text", t>> : t \in Texts}

TypeOK ==
  /\ kind \in Kinds /\ mode \in {"content", "extract"} /\ etags \in BOOLEAN
  /\ doc \in Document(kind)
  /\ \A u \in Urls : target[u] = None \/ target[u] \in Row
  /\ snapshot # None => snapshot.body \in Document(kind) /\ snapshot.text \in Texts \cup {None}
  /\ {c.key : c \in changes} \subseteq Key
  /\ \A c, d \in changes : c.key = d.key => c = d
  /\ fanned \subseteq {c.key : c \in changes}
  /\ lastChecked \in BOOLEAN
  /\ check = Idle
       \/ /\ check.pc \in {"snapshot", "detect", "new", "updated", "diff", "notify",
                           "advance", "finish"}
          /\ check.recipe \in {"feed", "extract", "content", "direct"}
          /\ check.todo \subseteq Processed(check.body)
          /\ check.pc \in {"detect", "new", "updated"} => check.todo # {}
          /\ check.pc \in {"notify", "advance"} => check.found # <<>>
  /\ baselined \subseteq Urls
  /\ published \in 0..MaxPublished /\ losses \in 0..MaxLosses /\ patches \in 0..MaxPatches

\* The changes that were announced: subscriptions have been matched and the
\* deliveries made
Announced == {c \in changes : c.key \in fanned}
AnnouncedNew(k) == \E c \in Announced : c.kind = "new" /\ c.of = k
AnnouncedText(t) == \E c \in Announced : c.url = None /\ c.of = t

\* What the first completed check of a monitor finds in the document is its
\* baseline and is never announced as new (detectFeedChanges), even if earlier
\* attempts at the first check got as far as their snapshot.
BaselineSilent == \A c \in changes : c.kind = "new" => c.url \notin baselined

\* An entry is announced as new at most once, wherever it moves and however
\* often its check is repeated, and each of its dates at most once
\* (insertChangeIfNew; acceptance condition 8 of docs/SPEC.md).
EntryAnnouncedOnce ==
  \A c, d \in Announced :
    (c.kind = d.kind /\ c.of = d.of /\ c.date = d.date) => c = d

\* The watermark of a registered url moves only forward, and only to a date
\* that has been announced (notifyDetectedChanges).
WatermarkFollowsFanout ==
  [][\A u \in Urls :
       (target[u] # None /\ target'[u] # target[u]) =>
          /\ target'[u].watermark > target[u].watermark
          /\ \E c \in Announced : /\ c.kind = "updated"
                                  /\ \E e \in Entry :
                                       /\ check.body[e] = [url |-> u, date |-> target'[u].watermark]
                                       /\ c.of = StableKey(e, u) /\ c.date = check.body[e].date]_vars

\* A check that gets to its end has taken in the whole document: every entry
\* has a target, whose watermark is not behind (the first check leaves this to the
\* second if two entries have one url), whatever is newly registered was
\* announced unless it belongs to the baseline or an earlier check was lost, and
\* a text that differs from the previous one was announced.
FinishedCheckIsComplete ==
  At("finish") =>
    /\ check.recipe \in {"feed", "extract"} =>
         /\ \A e \in Processed(check.body) :
              LET x == check.body[e]
              IN  /\ target[x.url] # None
                  /\ (Dated /\ ~check.first) => target[x.url].watermark >= x.date
         /\ (losses = 0 /\ ~check.first) =>
              \A u \in Urls : \/ target[u] = None \/ u \in baselined
                              \/ AnnouncedNew(target[u].from)
    /\ (/\ check.recipe \in {"content", "direct"} /\ check.prev # None
        /\ check.recipe = "content" \/ ~check.first
        /\ check.body # check.prev.body /\ Text(check.body) # check.prev.text) =>
         AnnouncedText(Text(check.body))

\* While the document shows a newer date for a registered url, the date is
\* announced and the watermark follows in the end, although checks crash and
\* throw between any two writes (the order of notifyDetectedChanges) - provided
\* the site does not answer 304 to the check that would make up for it.
Shows(u, v) == \E e \in Entry : doc[e] = [url |-> u, date |-> v]
Behind(u, v) == lastChecked /\ target[u] # None /\ target[u].watermark < v

UpdatesSurvive ==
  \A u \in Urls : \A v \in 1..Versions :
    (Dated /\ ~etags /\ Shows(u, v) /\ Behind(u, v)) ~> ~(Shows(u, v) /\ Behind(u, v))

-----------------------------------------------------------------------------
(* What comments of the code say and it does not do: see the README *)

\* The same for every answer of the site.
UpdatesSurvive304 ==
  \A u \in Urls : \A v \in 1..Versions :
    (Dated /\ Shows(u, v) /\ Behind(u, v)) ~> ~(Shows(u, v) /\ Behind(u, v))

\* A change whose row was inserted is fanned out in the end: fanoutChange can be
\* called again after a crash between the insert of the change and the delivery
\* (comment of fanoutChange).
InsertedIsAnnounced ==
  \A e \in Entry :
    (Recipe(kind, mode) = "feed" /\ HasChange(<<"entry", e>>)) ~> <<"entry", e>> \in fanned

\* A change of the text is fanned out in the end, as the at-least-once order of
\* processPageContent and processSitemapDirect has it.
TextIsAnnounced ==
  \A d \in Document("sitemap") :
    (kind = "sitemap" /\ At("diff") /\ TextChanged /\ check.body = d) ~> AnnouncedText(Text(d))

\* Entries beyond MAX_FEED_ITEMS_PER_CHECK are carried over to a later check.
CarriedOver ==
  \A e \in Entry : \A x \in Item("atom") :
    (Recipe(kind, mode) = "feed" /\ doc[e] = x) ~> (doc[e] # x \/ target[x.url] # None)
=============================================================================
