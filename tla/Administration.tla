--------------------------- MODULE Administration --------------------------
(***************************************************************************)
(* The administration API and the rows of D1 it creates, changes and       *)
(* deletes, while a check writes rows of its own.                          *)
(*                                                                         *)
(* The database is a set of rows.  Every statement enforces foreign keys   *)
(* and unique constraints at once, and a batch is one transaction.  Of a   *)
(* row only its references matter and one value: whether a destination is  *)
(* archived, the mode of a robots policy, the place of a policy entry.     *)
(* Identifiers are never used twice.                                       *)
(*                                                                         *)
(* A request awaits D1 between its reads, its write, the read of the row it*)
(* has written and its audit event, and other requests and the check run in*)
(* between.  What running, pausing, resuming and rescheduling do to a      *)
(* monitor is in MonitorScheduler.                                         *)
(***************************************************************************)
EXTENDS Naturals, FiniteSets, Sequences, SequencesExt

CONSTANTS
  Client,        \* callers of the API, one request at a time each
  Ops,           \* the operations they use
  Order,         \* the order lists of the fetcher policies they send
  Quota,         \* bound: identifiers of each table
  MaxRequests,   \* bound: requests in all
  MaxDeaths      \* bound: isolates that die within a request

Fetchers == UNION {{o[i] : i \in 1..Len(o)} : o \in Order}

\* The migrations insert three fetchers; an order list holds each once at most.
ASSUME OrderAssumption ==
  /\ Order \subseteq Seq(Fetchers)
  /\ \A o \in Order : Len(o) \in 1..3
  /\ \E o \in Order : Len(o) = 1

\* The operations of the API that write; a creation of a site or a destination names no parent.
Operations ==
  {"site.create", "site.rename", "site.delete", "source.create", "source.update_config",
   "source.delete", "monitor.create", "monitor.delete", "destination.create",
   "destination.update", "destination.archive", "destination.delete", "subscription.create",
   "subscription.delete", "policy.put", "robots.put", "robots.delete"}

ASSUME OpsAssumption == Ops \subseteq Operations

VARIABLES
  db,            \* the rows of D1
  made,          \* identifiers given out, by table
  req,           \* the request of each client
  run,           \* the check in progress
  audit,         \* audit_events: <<operation, subject>>
  died,          \* history: requests whose isolate died
  broken,        \* history: operations a constraint made fail
  requests

vars == <<db, made, req, run, audit, died, broken, requests>>

Tables == {"sites", "sources", "monitors", "destinations", "subscriptions",
           "fetcher_policies", "fetcher_policy_entries", "robots_policies", "fetchers",
           "check_jobs", "targets", "check_attempts", "snapshots", "changes", "deliveries"}

Row(id, refs, v) == [id |-> id, refs |-> refs, v |-> v]
Ids(D) == {r.id : r \in D}
Table(D, t) == {r \in D : r.id[1] = t}
Referring(D, t, id) == {r \in Table(D, t) : id \in r.refs}
Fresh(t) == <<t, made[t] + 1>>
Fetcher(f) == <<"fetchers", f>>
Place(i) == <<"first", "second", "third">>[i]
Archived(D) == {r.id : r \in {d \in Table(D, "destinations") : d.v = "archived"}}

-----------------------------------------------------------------------------
(* Statements and transactions of D1 *)

Insert(row) == [do |-> "insert", table |-> row.id[1], by |-> "id", id |-> row.id, row |-> row]
Delete(t, by, id) == [do |-> "delete", table |-> t, by |-> by, id |-> id, row |-> {}]
Set(id, v) == [do |-> "set", table |-> id[1], by |-> "id", id |-> id, row |-> v]
Unlink(t, id) == [do |-> "unlink", table |-> t, by |-> "refs", id |-> id, row |-> {}]

\* The rows a statement is about: with this id, with a reference to it, or
\* with a reference to a row of the table "by" that refers to it.
Hit(D, st) ==
  {r \in Table(D, st.table) :
     \/ st.by = "id" /\ r.id = st.id
     \/ st.by = "refs" /\ st.id \in r.refs
     \/ \E p \in Referring(D, st.by, st.id) : p.id \in r.refs}

After(D, st) ==
  LET rest == D \ Hit(D, st) IN
  CASE st.do = "insert" -> D \cup {st.row}
    [] st.do = "delete" -> rest
    [] st.do = "set"    -> rest \cup {[r EXCEPT !.v = st.row] : r \in Hit(D, st)}
    [] st.do = "unlink" -> rest \cup {[r EXCEPT !.refs =
                                 {i \in @ : i[1] # "check_attempts"}] : r \in Hit(D, st)}

Unique == {"fetcher_policies", "fetcher_policy_entries", "robots_policies", "targets",
           "deliveries"}

Constraints(D) ==
  LET ids == Ids(D) IN
  /\ \A r \in D : r.refs \subseteq ids
  /\ \A t \in Unique : \A r, q \in Table(D, t) : r # q => r.refs # q.refs
  /\ \A p \in Table(D, "fetcher_policies") :
       \A r, q \in Referring(D, "fetcher_policy_entries", p.id) : r # q => r.v # q.v

\* The rows after each statement of a transaction, and what it leaves
RowsAfter(D, sts) ==
  LET rows[i \in 0..Len(sts)] == IF i = 0 THEN D ELSE After(rows[i - 1], sts[i])
  IN  rows

Batch(D, sts) ==
  LET rows == RowsAfter(D, sts)
      ok == \A i \in 1..Len(sts) : Constraints(rows[i])
  IN  [ok |-> ok, rows |-> IF ok THEN rows[Len(sts)] ELSE D]

-----------------------------------------------------------------------------
(* The transactions of the handlers *)

\* Mutant of DeleteMonitorCascade: snapshots and attempts refer to each other.
DeleteMonitorCascadeCyclic(m) ==
  << Delete("deliveries", "changes", m), Delete("check_attempts", "check_jobs", m),
     Delete("changes", "refs", m), Delete("check_jobs", "refs", m),
     Delete("snapshots", "refs", m), Delete("targets", "refs", m),
     Delete("subscriptions", "refs", m), Delete("monitors", "id", m) >>

DeleteMonitorCascade(m) ==
  << Unlink("snapshots", m),
     Delete("deliveries", "changes", m), Delete("check_attempts", "check_jobs", m),
     Delete("changes", "refs", m), Delete("check_jobs", "refs", m),
     Delete("snapshots", "refs", m), Delete("targets", "refs", m),
     Delete("subscriptions", "refs", m), Delete("monitors", "id", m) >>

DeleteSiteCascade(s) ==
  << Delete("fetcher_policy_entries", "fetcher_policies", s),
     Delete("fetcher_policies", "refs", s), Delete("robots_policies", "refs", s),
     Delete("subscriptions", "refs", s), Delete("sites", "id", s) >>

\* Mutant of DeleteDestinationById: the history is removed as well.
DeleteDestinationAndHistory(d) ==
  << Delete("subscriptions", "refs", d), Delete("deliveries", "refs", d),
     Delete("destinations", "id", d) >>

DeleteDestinationById(d) ==
  << Delete("subscriptions", "refs", d), Delete("destinations", "id", d) >>

ArchiveDestination(d) == << Delete("subscriptions", "refs", d), Set(d, "archived") >>

Entries(p, order) ==
  [i \in 1..Len(order) |->
     Insert(Row(<<"fetcher_policy_entries", made["fetcher_policy_entries"] + i>>,
                {p, Fetcher(order[i])}, Place(i)))]

\* Mutant of PutFetcherPolicy: each new entry takes the place of the old one there.
PutFetcherPolicyByPlace(s, existing, order) ==
  IF existing = {}
  THEN << Insert(Row(Fresh("fetcher_policies"), {s}, "")) >>
         \o Entries(Fresh("fetcher_policies"), order)
  ELSE LET p == CHOOSE x \in existing : TRUE
           old == {e \in Referring(db, "fetcher_policy_entries", p) :
                     \E i \in 1..Len(order) : e.v = Place(i) \/ Fetcher(order[i]) \in e.refs}
       IN  SetToSeq({Delete("fetcher_policy_entries", "id", e.id) : e \in old})
             \o Entries(p, order)

PutFetcherPolicy(s, existing, order) ==
  IF existing = {}
  THEN << Insert(Row(Fresh("fetcher_policies"), {s}, "")) >>
         \o Entries(Fresh("fetcher_policies"), order)
  ELSE LET p == CHOOSE x \in existing : TRUE
       IN  << Delete("fetcher_policy_entries", "refs", p) >> \o Entries(p, order)

UpsertRobotsPolicy(s, mode) ==
  LET old == Referring(db, "robots_policies", s) IN
  IF old = {} THEN << Insert(Row(Fresh("robots_policies"), {s}, mode)) >>
              ELSE << Set((CHOOSE r \in old : TRUE).id, mode) >>

\* The tables a transaction takes identifiers from
Taken(sts) ==
  [t \in Tables |-> Cardinality({i \in 1..Len(sts) : sts[i].do = "insert" /\ sts[i].table = t})]

-----------------------------------------------------------------------------
(* Requests *)

\* The table the subject of an operation is in; a creation names its parent.
SubjectTable(op) ==
  CASE op \in {"site.rename", "site.delete", "source.create", "policy.put", "robots.put",
               "robots.delete"} -> "sites"
    [] op \in {"source.update_config", "source.delete", "monitor.create"} -> "sources"
    [] op = "monitor.delete" -> "monitors"
    [] op \in {"destination.update", "destination.delete", "destination.archive",
               "subscription.create"} -> "destinations"
    [] op = "subscription.delete" -> "subscriptions"

Creations == {"site.create", "destination.create"}   \* nothing is read first

\* What an operation creates
Created(op) ==
  CASE op = "site.create" -> "sites"
    [] op = "source.create" -> "sources"
    [] op = "monitor.create" -> "monitors"
    [] op = "destination.create" -> "destinations"
    [] op = "subscription.create" -> "subscriptions"
    [] OTHER -> "none"

\* Further arguments: the scope of a subscription, an order list, a mode.
Arguments(op) ==
  CASE op = "subscription.create" -> {<<>>} \cup {<<i>> : i \in Ids(Table(db, "sites") \cup Table(db, "monitors"))}
    [] op = "policy.put" -> Order
    [] op = "robots.put" -> {<<"ignore">>, <<"enforce">>}
    [] OTHER -> {<<>>}

NoRequest == [op |-> "none", id |-> <<>>, arg |-> <<>>, pc |-> "idle", seen |-> {}]
NoRun == [pc |-> "idle", mon |-> <<>>, site |-> <<>>, order |-> <<>>, rows |-> <<>>,
          archived |-> {}, todo |-> {}]

\* A deployment in use: the fetchers that the migrations insert, a site with a
\* policy, a source and a monitor, and a destination that subscribes to all.
Init ==
  LET f1 == (CHOOSE o \in Order : Len(o) = 1)[1]
      first(t) == <<t, 1>>
  IN
  /\ db = {Row(Fetcher(f), {}, "") : f \in Fetchers}
          \cup {Row(first("sites"), {}, ""), Row(first("sources"), {first("sites")}, ""),
                Row(first("monitors"), {first("sites"), first("sources")}, ""),
                Row(first("fetcher_policies"), {first("sites")}, ""),
                Row(first("fetcher_policy_entries"),
                    {first("fetcher_policies"), Fetcher(f1)}, Place(1)),
                Row(first("destinations"), {}, "live"),
                Row(first("subscriptions"), {first("destinations")}, "")}
  /\ made = [t \in Tables |->
               IF t \in {"sites", "sources", "monitors", "fetcher_policies",
                         "fetcher_policy_entries", "destinations", "subscriptions"}
               THEN 1 ELSE 0]
  /\ req = [c \in Client |-> NoRequest]
  /\ run = NoRun
  /\ audit = {} /\ died = {} /\ broken = {} /\ requests = 0

\* One of the identifiers ever given out; its row may be gone by now.
Receive(c) ==
  /\ req[c].pc = "idle" /\ requests < MaxRequests
  /\ requests' = requests + 1
  /\ \E op \in Ops :
       /\ IF Created(op) = "none" THEN TRUE ELSE made[Created(op)] < Quota[Created(op)]
       /\ \E id \in IF op \in Creations THEN {<<>>}
                    ELSE {<<SubjectTable(op), n>> : n \in 1..made[SubjectTable(op)]} :
          \E arg \in Arguments(op) :
            req' = [req EXCEPT ![c] = [NoRequest EXCEPT
                      !.op = op, !.id = id, !.arg = arg,
                      !.pc = IF op \in Creations THEN "write" ELSE "read"]]
  /\ UNCHANGED <<db, made, run, audit, died, broken>>

\* Operations that look at something else before they write
LooksTwice == {"site.delete", "source.delete", "subscription.create", "policy.put",
               "robots.delete"}

\* What the handler remembers of the row it has read: the site of a source,
\* and whether the destination to archive was archived already.
Remembered(q) ==
  CASE q.op = "monitor.create" -> UNION {r.refs : r \in {s \in db : s.id = q.id}}
    [] q.op = "destination.archive" -> {q.id} \cap Archived(db)
    [] OTHER -> {}

\* The first read: 404 without the subject, 400 if it is archived.
Read(c) ==
  LET q == req[c]
      refused == \/ q.id \notin Ids(db)
                 \/ /\ q.op \in {"destination.update", "subscription.create"}
                    /\ q.id \in Archived(db)
  IN /\ q.pc = "read"
     /\ req' = [req EXCEPT ![c] =
                  IF refused THEN NoRequest
                  ELSE [q EXCEPT !.pc = IF q.op \in LooksTwice THEN "look" ELSE "write",
                                 !.seen = Remembered(q)]]
     /\ UNCHANGED <<db, made, run, audit, died, broken, requests>>

\* 409: a site with sources, a source with monitors.  404: no override to
\* revert, no site or monitor to subscribe to.
SiteHasSources(q) == q.op = "site.delete" /\ Referring(db, "sources", q.id) # {}
SourceHasMonitors(q) == q.op = "source.delete" /\ Referring(db, "monitors", q.id) # {}
NoOverride(q) == q.op = "robots.delete" /\ Referring(db, "robots_policies", q.id) = {}
NoScope(q) ==
  q.op = "subscription.create" /\ \E i \in 1..Len(q.arg) : q.arg[i] \notin Ids(db)

\* The second read.  A PUT of a policy keeps the row whose entries it will replace.
Look(c) ==
  LET q == req[c]
      refused == SiteHasSources(q) \/ SourceHasMonitors(q) \/ NoOverride(q) \/ NoScope(q)
  IN /\ q.pc = "look"
     /\ req' = [req EXCEPT ![c] =
                  IF refused THEN NoRequest
                  ELSE [q EXCEPT !.pc = "write",
                                 !.seen = IF q.op = "policy.put"
                                          THEN Ids(Referring(db, "fetcher_policies", q.id))
                                          ELSE {}]]
     /\ UNCHANGED <<db, made, run, audit, died, broken, requests>>

NewSite == << Insert(Row(Fresh("sites"), {}, "")) >>
NewSource(q) == << Insert(Row(Fresh("sources"), {q.id}, "")) >>
NewMonitor(q) == << Insert(Row(Fresh("monitors"), {q.id} \cup q.seen, "")) >>
NewDestination == << Insert(Row(Fresh("destinations"), {}, "live")) >>
NewSubscription(q) ==
  << Insert(Row(Fresh("subscriptions"), {q.id} \cup {q.arg[i] : i \in 1..Len(q.arg)}, "")) >>
RobotsOverride(q) == UpsertRobotsPolicy(q.id, q.arg[1])
RobotsRevert(q) == UpsertRobotsPolicy(q.id, "enforce")

Transaction(q) ==
  CASE q.op = "site.create" -> NewSite
    [] q.op = "source.create" -> NewSource(q)
    [] q.op = "monitor.create" -> NewMonitor(q)
    [] q.op = "destination.create" -> NewDestination
    [] q.op = "subscription.create" -> NewSubscription(q)
    [] q.op = "site.delete" -> DeleteSiteCascade(q.id)
    [] q.op = "source.delete" -> << Delete("sources", "id", q.id) >>
    [] q.op = "subscription.delete" -> << Delete("subscriptions", "id", q.id) >>
    [] q.op = "monitor.delete" -> DeleteMonitorCascade(q.id)
    [] q.op = "destination.delete" -> DeleteDestinationById(q.id)
    [] q.op = "destination.archive" -> ArchiveDestination(q.id)
    [] q.op = "policy.put" -> PutFetcherPolicy(q.id, q.seen, q.arg)
    [] q.op = "robots.put" -> RobotsOverride(q)
    [] q.op = "robots.delete" -> RobotsRevert(q)
    [] OTHER -> <<>>   \* names, configurations and thread ids are left out

\* Mutant of AuditDue: whether it was archived is read after the write.
AuditDueReread(q, D) ==
  \/ q.op \in {"site.delete", "source.delete", "monitor.delete", "robots.put", "robots.delete"}
  \/ q.op \in {"site.rename", "source.update_config"} /\ q.id \in Ids(D)
  \/ q.op = "destination.update" /\ q.id \in Ids(D) \ Archived(D)
  \/ q.op = "destination.archive" /\ q.id \notin Archived(D)

\* Whether the handler may record an event after the write that left the rows
\* D.  An update of a row that is gone is a 404; of an archive only the row read
\* at first counts.
AuditDue(q, D) ==
  \/ q.op \in {"site.delete", "source.delete", "monitor.delete", "robots.put", "robots.delete"}
  \/ q.op \in {"site.rename", "source.update_config"} /\ q.id \in Ids(D)
  \/ q.op = "destination.update" /\ q.id \in Ids(D) \ Archived(D)
  \/ q.op = "destination.archive" /\ q.seen = {}

\* Operations whose db function reads the row it has written once more
Rereads == {"site.rename", "source.update_config", "destination.update",
            "destination.archive", "robots.put", "robots.delete"}

\* The row that is read then
WrittenRow(q) ==
  IF q.op \in {"robots.put", "robots.delete"} THEN Referring(db, "robots_policies", q.id)
  ELSE {r \in db : r.id = q.id}

\* A violated constraint is a 500, or the 409 of a destination with history.
Write(c) ==
  LET q == req[c]
      sts == Transaction(q)
      result == Batch(db, sts)
  IN /\ q.pc = "write"
     /\ db' = result.rows
     /\ IF result.ok
        THEN /\ made' = [t \in Tables |-> made[t] + Taken(sts)[t]]
             /\ req' = [req EXCEPT ![c] =
                          IF AuditDue(q, db')
                          THEN [q EXCEPT !.pc = IF q.op \in Rereads THEN "reread" ELSE "audit"]
                          ELSE NoRequest]
             /\ UNCHANGED broken
        ELSE /\ req' = [req EXCEPT ![c] = NoRequest]
             /\ broken' = IF q.op = "destination.delete" THEN broken ELSE broken \cup {q.op}
             /\ UNCHANGED made
     /\ UNCHANGED <<run, audit, died, requests>>

\* A row that was deleted in between is a 404, or the 500 of upsertRobotsPolicy,
\* and leaves no event.
Reread(c) ==
  /\ req[c].pc = "reread"
  /\ req' = [req EXCEPT ![c] = IF WrittenRow(req[c]) = {} THEN NoRequest
                               ELSE [@ EXCEPT !.pc = "audit"]]
  /\ UNCHANGED <<db, made, run, audit, died, broken, requests>>

\* recordAuditEvent
Audit(c) ==
  /\ req[c].pc = "audit"
  /\ audit' = audit \cup {<<req[c].op, req[c].id>>}
  /\ req' = [req EXCEPT ![c] = NoRequest]
  /\ UNCHANGED <<db, made, run, died, broken, requests>>

\* The isolate dies, or D1 does not answer.  Before the write this leaves no
\* trace, and the request may as well go on for ever.
Die(c) ==
  /\ req[c].pc \in {"reread", "audit"} /\ Cardinality(died) < MaxDeaths
  /\ died' = died \cup {<<req[c].op, req[c].id>>}
  /\ req' = [req EXCEPT ![c] = NoRequest]
  /\ UNCHANGED <<db, made, run, audit, broken, requests>>

-----------------------------------------------------------------------------
(* A check, from its first read to the last delivery it creates *)

CheckUnchanged == UNCHANGED <<req, audit, died, requests>>

\* The monitor, its site and the row of the site's policy; an error without one.
CheckStarts ==
  /\ run.pc = "idle" /\ made["check_jobs"] < Quota["check_jobs"]
  /\ \E m \in Table(db, "monitors") : \E s \in m.refs \cap Ids(Table(db, "sites")) :
       /\ Referring(db, "fetcher_policies", s) # {}
       /\ run' = [NoRun EXCEPT !.pc = "policy", !.mon = m.id, !.site = s]
  /\ UNCHANGED <<db, made, broken>> /\ CheckUnchanged

\* The order list of a set of entries
OrderOf(E) ==
  [i \in 1..Cardinality(E) |->
     LET e == CHOOSE x \in E : x.v = Place(i) IN (CHOOSE f \in e.refs : f[1] = "fetchers")[2]]

\* getFetcherPolicy: the entries of the policy, by order_index.
CheckReadsPolicy ==
  LET entries == {e \in Table(db, "fetcher_policy_entries") :
                    \E p \in Referring(db, "fetcher_policies", run.site) : p.id \in e.refs}
  IN /\ run.pc = "policy"
     /\ run' = [run EXCEPT !.pc = "check_jobs", !.order = OrderOf(entries)]
     /\ UNCHANGED <<db, made, broken>> /\ CheckUnchanged

\* The rows a check creates, each after what it refers to; run.rows are those
\* it has created or found.
NextTable(t) ==
  CASE t = "check_jobs" -> "targets" [] t = "targets" -> "check_attempts"
    [] t = "check_attempts" -> "snapshots" [] t = "snapshots" -> "changes"
    [] t = "changes" -> "match"

AttemptReferences == {run.rows[1], run.rows[2], Fetcher(run.order[1])}
SnapshotReferences == {run.mon, run.rows[2], run.rows[3]}
ChangeReferences == {run.mon, run.rows[2], run.rows[4]}

References(t) ==
  CASE t \in {"check_jobs", "targets"} -> {run.mon}
    [] t = "check_attempts" -> AttemptReferences
    [] t = "snapshots" -> SnapshotReferences
    [] t = "changes" -> ChangeReferences

\* upsertTarget: the target of the monitor there is already
FoundTarget(t) == IF t = "targets" THEN Ids(Referring(db, t, run.mon)) ELSE {}

\* A reference to a row that is gone throws, and the check is over.
CheckInserts ==
  LET t == run.pc
      found == FoundTarget(t)
      id == IF found = {} THEN Fresh(t) ELSE CHOOSE x \in found : TRUE
      result == IF found # {} THEN [ok |-> TRUE, rows |-> db]
                ELSE Batch(db, << Insert(Row(id, References(t), "")) >>)
  IN /\ t \in {"check_jobs", "targets", "check_attempts", "snapshots", "changes"}
     /\ t = "check_attempts" => run.order # <<>>
     /\ db' = result.rows
     /\ made' = IF result.ok /\ found = {} THEN [made EXCEPT ![t] = @ + 1] ELSE made
     /\ run' = IF ~result.ok THEN NoRun
               ELSE [run EXCEPT !.pc = NextTable(t), !.rows = Append(@, id),
                                !.archived = IF t = "changes" THEN Archived(db) ELSE @]
     /\ UNCHANGED broken /\ CheckUnchanged

\* Mutant of MatchingSubscriptions: the state of the destination is not looked at.
MatchingOfAny ==
  {s \in Table(db, "subscriptions") :
     \A i \in s.refs : i[1] \in {"sites", "monitors"} => i \in {run.site, run.mon}}

\* listMatchingSubscriptions: the scope is empty or fits.
MatchingSubscriptions ==
  {s \in Table(db, "subscriptions") :
     /\ \A i \in s.refs : i[1] \in {"sites", "monitors"} => i \in {run.site, run.mon}
     /\ \A i \in s.refs : i[1] = "destinations" => i \notin Archived(db)}

CheckMatches ==
  /\ run.pc = "match"
  /\ run' = [run EXCEPT !.pc = "deliver",
               !.todo = {i \in UNION {s.refs : s \in MatchingSubscriptions} : i[1] = "destinations"}]
  /\ UNCHANGED <<db, made, broken>> /\ CheckUnchanged

\* createDeliveryIfNew for one subscription after the other.  A destination
\* that is gone by now ends the fan-out for those that follow.
CheckDelivers ==
  /\ run.pc = "deliver"
  /\ \E d \in run.todo :
       LET result == Batch(db, << Insert(Row(Fresh("deliveries"), {run.rows[5], d}, "")) >>)
       IN /\ db' = result.rows
          /\ made' = IF result.ok THEN [made EXCEPT !["deliveries"] = @ + 1] ELSE made
          /\ run' = IF result.ok THEN [run EXCEPT !.todo = @ \ {d}] ELSE NoRun
          /\ broken' = IF ~result.ok /\ run.rows[5] \in Ids(db)
                          /\ (run.todo \ {d}) \cap Ids(db) # {}
                       THEN broken \cup {"fanout"} ELSE broken
  /\ CheckUnchanged

\* The check is over at any point: nothing was fetched, nothing has changed,
\* everything is delivered, or its isolate dies.
CheckEnds ==
  /\ run.pc # "idle" /\ run' = NoRun
  /\ UNCHANGED <<db, made, broken>> /\ CheckUnchanged

Next ==
  \/ \E c \in Client : Receive(c) \/ Read(c) \/ Look(c) \/ Write(c) \/ Reread(c) \/ Audit(c)
                     \/ Die(c)
  \/ CheckStarts \/ CheckReadsPolicy \/ CheckInserts \/ CheckMatches \/ CheckDelivers
  \/ CheckEnds

Spec == Init /\ [][Next]_vars

-----------------------------------------------------------------------------
(* Properties *)

\* The deletion of a monitor (deleteMonitorCascade), the archive of a
\* destination and the deletion of a subscription never end in a violated
\* constraint, whatever rows a check has created before or creates meanwhile.
DeletionsSucceed ==
  broken \cap {"monitor.delete", "destination.archive", "subscription.delete"} = {}

\* The entries stored for a site are those of one PUT (putFetcherPolicy), in its
\* order, and a check that reads the policy row and its entries one after the
\* other (getFetcherPolicy) has such a list too, or an empty one if the site is gone.
PolicyIsWhole ==
  /\ \A p \in Table(db, "fetcher_policies") :
       OrderOf(Referring(db, "fetcher_policy_entries", p.id)) \in Order
  /\ run.pc \notin {"idle", "policy"} =>
       \/ run.order \in Order
       \/ run.order = <<>> /\ run.site \notin Ids(db)

\* A delivery, the history of what was sent, disappears only together with the
\* monitor whose change it delivers: no deletion or archive of a destination,
\* subscription, site or source removes one (rawQueries.ts, ADR-0012).
HistoryKept ==
  [][\A d \in Table(db, "deliveries") : d.id \notin Ids(db') =>
       \E m \in Table(db, "monitors") :
         /\ m.id \notin Ids(db')
         /\ \E c \in Referring(db, "changes", m.id) : c.id \in d.refs]_vars

\* A destination that was archived before a change was recorded gets no
\* delivery of it, even if a subscription was stored after the archive had
\* deleted those it found (the JOIN of listMatchingSubscriptions).
ArchivedReceivesNothing ==
  [][\A d \in Table(db', "deliveries") : d.id \notin Ids(db) =>
       d.refs \cap run.archived = {}]_vars

Deleted(id) == id[2] <= made[id[1]] /\ id \notin Ids(db)
Events ==
  UNION { {"site.delete"} \X {<<"sites", n>> : n \in 1..made["sites"]},
          {"source.delete"} \X {<<"sources", n>> : n \in 1..made["sources"]},
          {"monitor.delete"} \X {<<"monitors", n>> : n \in 1..made["monitors"]} }

\* The audit log agrees with the data: every deletion of a site, a source or a
\* monitor, and the archive of every destination that is still there, has its
\* event, or a request that is about to record it, or one that died; and no event
\* tells of a deletion that failed.  (A destination that is deleted before its
\* archive has read it back leaves no event of the archive: Reread.)
AuditMatchesData ==
  LET recorded == audit \cup died \cup
                    {<<req[c].op, req[c].id>> : c \in {x \in Client : req[x].pc \in {"reread", "audit"}}}
  IN /\ \A e \in Events : Deleted(e[2]) => e \in recorded
     /\ \A e \in Events : e \in audit => Deleted(e[2])
     /\ \A d \in Archived(db) : <<"destination.archive", d>> \in recorded

\* What rawQueries.ts and destinations.ts say of a destination that is gone or
\* archived: no subscription of it is left.
NoOrphanSubscription ==
  \A s \in Table(db, "subscriptions") : s.refs \cap Archived(db) = {}

\* A destination deleted between the match and the insert of its delivery does
\* not keep the change from the destinations that follow (fanoutChange).
FanoutSurvivesDeletion == "fanout" \notin broken
=============================================================================
