------------------------ MODULE AdministrationProofs ------------------------
(***************************************************************************)
(* Proofs about Administration, for every set of callers, order lists,     *)
(* quotas and numbers of requests.                                         *)
(*                                                                         *)
(* The invariant is the schema of the rows and their kinship: whatever a   *)
(* check writes for a monitor refers to rows of the same monitor, so the   *)
(* statements of deleteMonitorCascade leave no reference behind.           *)
(***************************************************************************)
EXTENDS Administration, FiniteSetTheorems, SequenceTheorems, NaturalsInduction,
        WellFoundedInduction, TLAPS

-----------------------------------------------------------------------------
(* The invariant *)

\* The tables only checks write to, and those of them that hold no delivery
CheckTables == {"check_jobs", "targets", "check_attempts", "snapshots", "changes"}

\* The tables rows refer to
Edges ==
  { <<"sources", "sites">>, <<"monitors", "sites">>, <<"monitors", "sources">>,
    <<"fetcher_policies", "sites">>, <<"robots_policies", "sites">>,
    <<"fetcher_policy_entries", "fetcher_policies">>, <<"fetcher_policy_entries", "fetchers">>,
    <<"subscriptions", "destinations">>, <<"subscriptions", "sites">>,
    <<"subscriptions", "monitors">>, <<"check_jobs", "monitors">>, <<"targets", "monitors">>,
    <<"check_attempts", "check_jobs">>, <<"check_attempts", "targets">>,
    <<"check_attempts", "fetchers">>, <<"snapshots", "monitors">>, <<"snapshots", "targets">>,
    <<"snapshots", "check_attempts">>, <<"changes", "monitors">>, <<"changes", "targets">>,
    <<"changes", "snapshots">>, <<"deliveries", "changes">>, <<"deliveries", "destinations">> }

\* An identifier that has been given out, or the name of a fetcher
Known(i, given) ==
  /\ i = <<i[1], i[2]>> /\ i[1] \in Tables
  /\ i[1] # "fetchers" => i[2] \in Nat /\ i[2] <= given[i[1]]

\* The rows that refer to one row of a table only
Single == {"fetcher_policies", "check_jobs", "targets"}

Shape(r) ==
  /\ r = Row(r.id, r.refs, r.v)
  /\ r.id[1] \in Tables
  /\ \A i \in r.refs : <<r.id[1], i[1]>> \in Edges
  /\ r.id[1] \in Single => \E i : r.refs = {i}
  /\ r.id[1] = "check_attempts" => \E i \in r.refs : i[1] = "check_jobs"
  /\ r.id[1] = "fetcher_policy_entries" =>
       \A i, k \in r.refs : i[1] = "fetcher_policies" /\ k[1] = "fetcher_policies" => i = k

Distinct(D) == \A r, q \in D : r.id = q.id => r = q

Schema(D, given) == \A r \in D : Shape(r) /\ Known(r.id, given)

MonitorsOf(r) == {i \in r.refs : i[1] = "monitors"}

\* What a check writes belongs to one monitor.
Kin(D) ==
  /\ \A a \in Table(D, "check_attempts"), j \in Table(D, "check_jobs"), t \in Table(D, "targets") :
       j.id \in a.refs /\ t.id \in a.refs => j.refs = t.refs
  /\ \A s \in Table(D, "snapshots"), a \in Table(D, "check_attempts"), j \in Table(D, "check_jobs") :
       a.id \in s.refs /\ j.id \in a.refs => j.refs \subseteq s.refs
  /\ \A x \in Table(D, "snapshots") \cup Table(D, "changes"), t \in Table(D, "targets") :
       t.id \in x.refs => t.refs \subseteq x.refs
  /\ \A c \in Table(D, "changes"), s \in Table(D, "snapshots") :
       s.id \in c.refs => MonitorsOf(s) \subseteq c.refs

\* A row of the check in progress belongs to its monitor.
Own(D, r, m) ==
  /\ r.id[1] \in {"check_jobs", "targets"} => r.refs = {m}
  /\ r.id[1] = "check_attempts" =>
       \A j \in Table(D, "check_jobs") : j.id \in r.refs => j.refs = {m}
  /\ r.id[1] = "snapshots" => MonitorsOf(r) \subseteq {m}

Written(pc) ==
  CASE pc = "targets" -> 1 [] pc = "check_attempts" -> 2 [] pc = "snapshots" -> 3
    [] pc = "changes" -> 4 [] pc \in {"match", "deliver"} -> 5 [] OTHER -> 0

WrittenTable(k) == <<"check_jobs", "targets", "check_attempts", "snapshots", "changes">>[k]

Checking(pc, mon, site, order, rows, archived, todo) ==
  [pc |-> pc, mon |-> mon, site |-> site, order |-> order, rows |-> rows,
   archived |-> archived, todo |-> todo]

\* The check in progress
Running(D, given) ==
  /\ run = Checking(run.pc, run.mon, run.site, run.order, run.rows, run.archived, run.todo)
  /\ run.pc # "idle" =>
    /\ run.pc \in {"policy", "match", "deliver"} \cup CheckTables
    /\ Known(run.mon, given) /\ run.mon[1] = "monitors"
    /\ Known(run.site, given) /\ run.site[1] = "sites"
    /\ DOMAIN run.rows = 1..Written(run.pc) /\ run.rows \in Seq({run.rows[k] : k \in DOMAIN run.rows})
    /\ \A k \in 1..Written(run.pc) :
         /\ Known(run.rows[k], given) /\ run.rows[k][1] = WrittenTable(k)
         /\ \A r \in D : r.id = run.rows[k] => Own(D, r, run.mon)

\* A request names rows there have been, and keeps what it has read.
Request(q, given) ==
  /\ q = [op |-> q.op, id |-> q.id, arg |-> q.arg, pc |-> q.pc, seen |-> q.seen]
  /\ q.pc \in {"idle", "read", "look", "write", "reread", "audit"}
  /\ q.pc # "idle" =>
       /\ q.op \in Operations
       /\ q.op \in Creations \/ (Known(q.id, given) /\ q.id[1] = SubjectTable(q.op))
       /\ q.op = "subscription.create" => \A i \in 1..Len(q.arg) : q.arg[i][1] \in {"sites", "monitors"}
       /\ q.op = "policy.put" => q.arg \in Order
  /\ q.pc = "reread" => q.op \in Rereads
  /\ q.pc = "write" =>
       /\ q.op = "monitor.create" => \A i \in q.seen : i[1] = "sites"
       /\ q.op = "policy.put" => \A i \in q.seen : i[1] = "fetcher_policies"

Sound ==
  /\ made \in [Tables -> Nat]
  /\ Constraints(db) /\ Distinct(db) /\ Schema(db, made) /\ Kin(db) /\ Running(db, made)
  /\ DOMAIN req = Client /\ \A c \in Client : Request(req[c], made)

\* The entries of a policy are those of one PUT.
EntriesOf(p, order, first) ==
  {Row(<<"fetcher_policy_entries", first + i>>, {p, Fetcher(order[i])}, Place(i)) : i \in 1..Len(order)}

Whole(D) ==
  \A p \in Table(D, "fetcher_policies") :
    \E o \in Order, n \in Nat : Referring(D, "fetcher_policy_entries", p.id) = EntriesOf(p.id, o, n)

\* The site of a check keeps its policy.
Governed(D) ==
  run.pc # "idle" /\ run.site \in Ids(D) => Referring(D, "fetcher_policies", run.site) # {}

OrderRead ==
  run.pc \notin {"idle", "policy"} =>
    run.order \in Order \/ (run.order = <<>> /\ run.site \notin Ids(db))

\* What is archived stays so while it exists, and a check does not deliver to
\* what was archived when it recorded the change.
Kept(D, given) ==
  /\ \A i \in run.archived : Known(i, given) /\ i[1] = "destinations"
  /\ run.archived \cap Ids(D) \subseteq Archived(D)
  /\ run.pc = "deliver" =>
       run.todo \cap run.archived = {} /\ \A d \in run.todo : d[1] = "destinations"

\* The steps between the write of a request and its event
Recording == {"reread", "audit"}

Recorded ==
  audit \cup died \cup {<<req[c].op, req[c].id>> : c \in {x \in Client : req[x].pc \in Recording}}

Deletions == {"site.delete", "source.delete", "monitor.delete"}

\* The audit log, the requests that still have to record, and the data
Logged ==
  /\ \A i : /\ Known(i, made) /\ i[2] # 0 /\ i \notin Ids(db)
            /\ i[1] \in {"sites", "sources", "monitors"}
            => \E op \in Deletions : SubjectTable(op) = i[1] /\ <<op, i>> \in Recorded
  /\ \A op \in Deletions : \A i : <<op, i>> \in Recorded => Known(i, made) /\ i \notin Ids(db)
  /\ \A i \in Archived(db) : <<"destination.archive", i>> \in Recorded
  /\ \A c \in Client : /\ req[c].op = "destination.archive" /\ req[c].seen # {}
                       /\ req[c].pc = "write" /\ req[c].id \in Ids(db)
                       => <<"destination.archive", req[c].id>> \in Recorded

IInv ==
  /\ Sound /\ Whole(db) /\ Governed(db) /\ OrderRead /\ Kept(db, made) /\ Logged
  /\ DeletionsSucceed

-----------------------------------------------------------------------------
(* Statements and transactions *)

\* A set of numbers has a least one.
LEMMA LeastExists ==
  ASSUME NEW S \in SUBSET Nat, S # {}
  PROVE  \E m \in S : \A n \in S : m <= n
<1> DEFINE R == OpToRel(<, Nat)
<1>1. PICK m \in S : \A n \in S : <<n, m>> \notin R
  BY NatLessThanWellFounded, WFMin
<1>2. \A n \in S : ~(n < m)
  BY <1>1 DEF OpToRel
<1> QED
  BY <1>2

\* The rows after each statement obey the equation that defines them.
LEMMA RowsAfterStatements ==
  ASSUME NEW D, NEW sts, Len(sts) \in Nat
  PROVE  /\ RowsAfter(D, sts)[0] = D
         /\ \A i \in 1..Len(sts) : RowsAfter(D, sts)[i] = After(RowsAfter(D, sts)[i - 1], sts[i])
<1> DEFINE Next_(f, n) == [i \in 0..n |-> IF i = 0 THEN D ELSE After(f[i - 1], sts[i])]
           Defined == {n \in Nat : \E f : f = Next_(f, n)}
           Bad == Nat \ Defined
<1>1. 0 \in Defined
  <2> DEFINE f == [i \in 0..0 |-> D]
  <2>1. f = Next_(f, 0)
    OBVIOUS
  <2> QED
    BY <2>1
<1>2. ASSUME NEW n \in Nat, n \in Defined  PROVE n + 1 \in Defined
  <2>1. PICK f : f = Next_(f, n)
    BY <1>2
  <2> DEFINE g == [i \in 0..n + 1 |-> IF i = n + 1 THEN After(f[n], sts[n + 1]) ELSE f[i]]
  <2>2. \A i \in 0..n : g[i] = f[i]
    OBVIOUS
  <2>3. \A i \in 0..n + 1 : g[i] = IF i = 0 THEN D ELSE After(g[i - 1], sts[i])
    <3> SUFFICES ASSUME NEW i \in 0..n + 1
                 PROVE  g[i] = IF i = 0 THEN D ELSE After(g[i - 1], sts[i])
      OBVIOUS
    <3>1. CASE i = n + 1
      BY <3>1, <2>2
    <3>2. CASE i \in 0..n
      <4>1. f[i] = IF i = 0 THEN D ELSE After(f[i - 1], sts[i])
        BY <2>1, <3>2
      <4>2. i # 0 => g[i - 1] = f[i - 1]
        BY <2>2, <3>2
      <4> QED
        BY <4>1, <4>2, <2>2, <3>2
    <3> QED
      BY <3>1, <3>2
  <2>4. g = Next_(g, n + 1)
    BY <2>3
  <2> HIDE DEF g
  <2> QED
    BY <2>4
<1>3. Bad = {}
  <2> SUFFICES ASSUME Bad # {}  PROVE FALSE
    OBVIOUS
  <2>1. PICK m \in Bad : \A n \in Bad : m <= n
    BY LeastExists
  <2> HIDE DEF Defined
  <2>2. m \in Nat /\ m # 0
    BY <1>1
  <2>3. m - 1 \in Nat /\ (m - 1) + 1 = m /\ ~(m <= m - 1)
    BY <2>2
  <2>4. m - 1 \in Defined
    BY <2>1, <2>3
  <2> QED
    BY <2>3, <2>4, <1>2
<1>4. PICK f : f = Next_(f, Len(sts))
  BY <1>3
<1>5. RowsAfter(D, sts) = Next_(RowsAfter(D, sts), Len(sts))
  BY <1>4 DEF RowsAfter
<1> QED
  <2>1. \A i \in 0..Len(sts) :
          RowsAfter(D, sts)[i] = Next_(RowsAfter(D, sts), Len(sts))[i]
    BY <1>5
  <2> QED
    BY <2>1

\* A transaction takes effect as a whole, if no statement meets a constraint.
LEMMA BatchRows ==
  ASSUME NEW D, NEW sts, Len(sts) \in Nat
  PROVE  \E rows :
           /\ rows[0] = D
           /\ \A i \in 1..Len(sts) : rows[i] = After(rows[i - 1], sts[i])
           /\ Batch(D, sts).ok <=> \A i \in 1..Len(sts) : Constraints(rows[i])
           /\ Batch(D, sts).ok => Batch(D, sts).rows = rows[Len(sts)]
           /\ ~Batch(D, sts).ok => Batch(D, sts).rows = D
<1> DEFINE rows == RowsAfter(D, sts)
<1>1. rows[0] = D /\ \A i \in 1..Len(sts) : rows[i] = After(rows[i - 1], sts[i])
  BY RowsAfterStatements
<1>2. /\ Batch(D, sts).ok <=> \A i \in 1..Len(sts) : Constraints(rows[i])
      /\ Batch(D, sts).rows = IF \A i \in 1..Len(sts) : Constraints(rows[i]) THEN rows[Len(sts)] ELSE D
  BY Zenon DEF Batch
<1> HIDE DEF rows
<1> QED
  BY <1>1, <1>2, Zenon

LEMMA BatchIsWhole ==
  ASSUME NEW D, NEW sts, NEW n \in Nat, Len(sts) = n
  PROVE  \E rows :
           /\ rows[0] = D
           /\ \A i \in 1..n : rows[i] = After(rows[i - 1], sts[i])
           /\ Batch(D, sts).ok <=> \A i \in 1..n : Constraints(rows[i])
           /\ Batch(D, sts).ok => Batch(D, sts).rows = rows[n]
           /\ ~Batch(D, sts).ok => Batch(D, sts).rows = D
<1>1. Len(sts) \in Nat
  OBVIOUS
<1>2. PICK rows :
           /\ rows[0] = D
           /\ \A i \in 1..Len(sts) : rows[i] = After(rows[i - 1], sts[i])
           /\ Batch(D, sts).ok <=> \A i \in 1..Len(sts) : Constraints(rows[i])
           /\ Batch(D, sts).ok => Batch(D, sts).rows = rows[Len(sts)]
           /\ ~Batch(D, sts).ok => Batch(D, sts).rows = D
  BY <1>1, BatchRows, Zenon
<1>3. /\ \A i \in 1..n : rows[i] = After(rows[i - 1], sts[i])
      /\ (\A i \in 1..Len(sts) : Constraints(rows[i])) <=> \A i \in 1..n : Constraints(rows[i])
      /\ rows[Len(sts)] = rows[n]
  BY <1>2
<1> QED
  BY <1>2, <1>3, Zenon

\* What the statements do, to rows that are in the tables of the schema
InTables(D) == \A r \in D : r.id[1] \in Tables

LEMMA AfterInsert ==
  ASSUME NEW D, NEW row
  PROVE  After(D, Insert(row)) = D \cup {row}
BY DEF After, Insert

WithoutId(D, t, id) == {r \in D : ~(r.id[1] = t /\ r.id = id)}
WithoutReference(D, t, id) == {r \in D : ~(r.id[1] = t /\ id \in r.refs)}
WithoutThrough(D, t, by, id) ==
  {r \in D : ~(r.id[1] = t /\ \E p \in D : p.id[1] = by /\ id \in p.refs /\ p.id \in r.refs)}

LEMMA AfterDelete ==
  ASSUME NEW D, InTables(D), NEW t, NEW id
  PROVE  /\ After(D, Delete(t, "id", id)) = WithoutId(D, t, id)
         /\ After(D, Delete(t, "refs", id)) = WithoutReference(D, t, id)
         /\ InTables(WithoutId(D, t, id)) /\ InTables(WithoutReference(D, t, id))
<1>1. \A by : After(D, Delete(t, by, id)) = D \ Hit(D, Delete(t, by, id))
  BY DEF After, Delete
<1>2. "id" \notin Tables /\ "refs" \notin Tables
  BY DEF Tables
<1>3. Hit(D, Delete(t, "id", id)) = {r \in D : r.id[1] = t /\ r.id = id}
  BY <1>2 DEF Hit, Delete, Table, Referring, InTables
<1>4. Hit(D, Delete(t, "refs", id)) = {r \in D : r.id[1] = t /\ id \in r.refs}
  BY <1>2 DEF Hit, Delete, Table, Referring, InTables
<1>5. After(D, Delete(t, "id", id)) = WithoutId(D, t, id)
  BY <1>1, <1>3 DEF WithoutId
<1>6. After(D, Delete(t, "refs", id)) = WithoutReference(D, t, id)
  BY <1>1, <1>4 DEF WithoutReference
<1>7. InTables(WithoutId(D, t, id)) /\ InTables(WithoutReference(D, t, id))
  BY DEF InTables, WithoutId, WithoutReference
<1> QED
  BY <1>5, <1>6, <1>7

LEMMA AfterDeleteThrough ==
  ASSUME NEW D, InTables(D), NEW t, NEW by, by \in Tables, NEW id
  PROVE  /\ After(D, Delete(t, by, id)) = WithoutThrough(D, t, by, id)
         /\ InTables(WithoutThrough(D, t, by, id))
<1>1. After(D, Delete(t, by, id)) = D \ Hit(D, Delete(t, by, id))
  BY DEF After, Delete
<1>2. by # "id" /\ by # "refs"
  BY DEF Tables
<1>3. Hit(D, Delete(t, by, id)) =
        {r \in D : r.id[1] = t /\ \E p \in D : p.id[1] = by /\ id \in p.refs /\ p.id \in r.refs}
  BY <1>2 DEF Hit, Delete, Table, Referring
<1> QED
  BY <1>1, <1>3 DEF WithoutThrough, InTables

\* A row with one of its fields changed
LEMMA ChangedRow ==
  ASSUME NEW x, x = Row(x.id, x.refs, x.v), NEW new
  PROVE  /\ [x EXCEPT !.refs = new] = Row(x.id, new, x.v)
         /\ [x EXCEPT !.v = new] = Row(x.id, x.refs, new)
<1> DEFINE i == x.id
           s == x.refs
           v == x.v
<1> HIDE DEF i, s, v
<1>1. x = [id |-> i, refs |-> s, v |-> v]
  BY DEF Row, i, s, v
<1>2. /\ [x EXCEPT !.refs = new] = [id |-> i, refs |-> new, v |-> v]
      /\ [x EXCEPT !.v = new] = [id |-> i, refs |-> s, v |-> new]
  BY <1>1
<1> QED
  BY <1>2 DEF Row, i, s, v

LEMMA AfterSet ==
  ASSUME NEW D, InTables(D), NEW id, NEW v
  PROVE  \A r : r \in After(D, Set(id, v)) <=>
                  \/ r \in D /\ r.id # id
                  \/ \E x \in D : x.id = id /\ r = [x EXCEPT !.v = v]
<1>1. "id" \notin Tables
  BY DEF Tables
<1>2. Hit(D, Set(id, v)) = {r \in D : r.id = id}
  BY <1>1 DEF Hit, Set, Table, Referring, InTables
<1>3. After(D, Set(id, v)) =
        (D \ Hit(D, Set(id, v))) \cup {[r EXCEPT !.v = v] : r \in Hit(D, Set(id, v))}
  BY DEF After, Set
<1> QED
  BY <1>2, <1>3

LEMMA AfterUnlink ==
  ASSUME NEW D, InTables(D), NEW t, NEW id
  PROVE  \A r : r \in After(D, Unlink(t, id)) <=>
           \/ r \in D /\ ~(r.id[1] = t /\ id \in r.refs)
           \/ \E x \in D : /\ x.id[1] = t /\ id \in x.refs
                           /\ r = [x EXCEPT !.refs = {i \in @ : i[1] # "check_attempts"}]
<1>1. "refs" \notin Tables
  BY DEF Tables
<1>2. Hit(D, Unlink(t, id)) = {r \in D : r.id[1] = t /\ id \in r.refs}
  BY <1>1 DEF Hit, Unlink, Table, Referring, InTables
<1>3. After(D, Unlink(t, id)) =
        (D \ Hit(D, Unlink(t, id)))
          \cup {[r EXCEPT !.refs = {i \in @ : i[1] # "check_attempts"}] : r \in Hit(D, Unlink(t, id))}
  BY DEF After, Unlink
<1> QED
  BY <1>2, <1>3

\* Rows that are fewer, or changed where nothing is unique, meet no constraint
\* as long as they refer to each other.
LEMMA FewerRows ==
  ASSUME NEW D, Constraints(D), NEW E,
         \A r \in E : r.id[1] \in Unique => r \in D,
         \A r \in E : r.refs \subseteq Ids(E)
  PROVE  Constraints(E)
<1>1. \A t \in Unique : \A r, q \in Table(E, t) : r # q => r.refs # q.refs
  BY DEF Constraints, Table
<1>2. ASSUME NEW p \in Table(E, "fetcher_policies"),
             NEW r \in Referring(E, "fetcher_policy_entries", p.id),
             NEW q \in Referring(E, "fetcher_policy_entries", p.id), r # q
      PROVE  r.v # q.v
  BY <1>2 DEF Constraints, Table, Referring, Unique
<1> QED
  BY <1>1, <1>2 DEF Constraints

-----------------------------------------------------------------------------
(* What the transaction of a request leaves of the rows *)

Main == {"sites", "sources", "monitors"}

\* E and g are what a transaction for q makes of db and made.
Effect(q, E, g) ==
  /\ g \in [Tables -> Nat] /\ \A t \in Tables : made[t] <= g[t]
  /\ Schema(E, g) /\ Constraints(E) /\ Distinct(E) /\ Whole(E)
  /\ \A r \in E : r.id[1] \in CheckTables \cup {"deliveries"} => r \in db
  /\ \A i \in Ids(E) : i \in Ids(db) \/ ~Known(i, made)
  /\ \A i : Known(i, g) /\ ~Known(i, made) /\ i[1] \in Main => i \in Ids(E)
  /\ \A i \in Ids(db) : i \notin Ids(E) /\ i[1] \in Main => i = q.id /\ q.op \in Deletions
  /\ q.op \in Deletions => q.id \notin Ids(E)
  /\ \A i \in Archived(E) : i \in Archived(db) \/ (q.op = "destination.archive" /\ i = q.id)
  /\ Archived(db) \cap Ids(E) \subseteq Archived(E)
  /\ \A s \in Ids(E) : Referring(db, "fetcher_policies", s) # {} =>
                         Referring(E, "fetcher_policies", s) # {}
  /\ \A d \in Table(db, "deliveries") : d.id \notin Ids(E) =>
       \E m \in Table(db, "monitors") :
         /\ m.id \notin Ids(E)
         /\ \E c \in Referring(db, "changes", m.id) : c.id \in d.refs

\* A fresh identifier is no identifier of a row.
LEMMA FreshIsNew ==
  ASSUME Sound, NEW t \in Tables \ {"fetchers"}, NEW g, g[t] \in Nat, g[t] > made[t], NEW k,
         k \in Nat, k > made[t], k <= g[t]
  PROVE  /\ <<t, k>> \notin Ids(db) /\ ~Known(<<t, k>>, made) /\ Known(<<t, k>>, g)
         /\ \A r \in db : <<t, k>> \notin r.refs
<1>1. made[t] \in Nat
  BY DEF Sound
<1>2. ~Known(<<t, k>>, made) /\ Known(<<t, k>>, g)
  BY <1>1 DEF Known
<1>3. <<t, k>> \notin Ids(db)
  BY <1>2 DEF Sound, Schema, Ids
<1> QED
  BY <1>2, <1>3 DEF Sound, Constraints

\* A row more in a table that only requests write to
LEMMA InsertEffect ==
  ASSUME Sound, Whole(db), NEW q, q.op \notin Deletions,
         NEW t \in {"sites", "sources", "monitors", "destinations", "subscriptions", "robots_policies"},
         NEW row, row.id = Fresh(t), Shape(row), t = "destinations" => row.v # "archived",
         Constraints(db \cup {row})
  PROVE  Effect(q, db \cup {row}, [made EXCEPT ![t] = @ + 1])
<1> DEFINE E == db \cup {row}
           g == [made EXCEPT ![t] = @ + 1]
<1>1. t \in Tables \ {"fetchers"}
  BY DEF Tables
<1>2. /\ g \in [Tables -> Nat] /\ \A u \in Tables : made[u] <= g[u]
      /\ made[t] \in Nat /\ g[t] = made[t] + 1 /\ \A u \in Tables : u # t => g[u] = made[u]
  BY <1>1 DEF Sound
<1>3. row.id = <<t, made[t] + 1>> /\ row.id[1] = t
  BY DEF Fresh
<1> HIDE DEF g
<1>4. /\ row.id \notin Ids(db) /\ ~Known(row.id, made) /\ Known(row.id, g)
      /\ \A r \in db : row.id \notin r.refs
  BY <1>1, <1>2, <1>3, FreshIsNew
<1>5. \A i : Known(i, made) => Known(i, g)
  BY <1>2 DEF Known, Sound
<1>6. Schema(E, g)
  BY <1>4, <1>5 DEF Schema, Sound
<1>7. /\ \A u : u # t => Table(E, u) = Table(db, u)
      /\ \A u, i : u # t => Referring(E, u, i) = Referring(db, u, i)
  BY <1>3 DEF Table, Referring
<1>8. Whole(E)
  BY <1>7 DEF Whole
<1>9. \A r \in E : r.id[1] \in CheckTables \cup {"deliveries"} => r \in db
  BY <1>3 DEF CheckTables
<1>10. Ids(E) = Ids(db) \cup {row.id}
  BY DEF Ids
<1>11. ASSUME NEW i, Known(i, g), ~Known(i, made)
       PROVE  i = row.id
  <2>1. i = <<i[1], i[2]>> /\ i[1] \in Tables /\ i[1] # "fetchers" /\ i[2] \in Nat
        /\ i[2] <= g[i[1]] /\ ~(i[2] <= made[i[1]])
    BY <1>11 DEF Known
  <2>2. i[1] = t
    BY <2>1, <1>2
  <2>3. i[2] = made[t] + 1
    BY <2>1, <2>2, <1>2
  <2> QED
    BY <2>1, <2>2, <2>3, <1>3
<1>12. Archived(E) = Archived(db)
  BY <1>3 DEF Archived, Table
<1>13. \A s : Referring(E, "fetcher_policies", s) = Referring(db, "fetcher_policies", s)
  BY <1>7
<1> HIDE DEF E
<1>14. \A d \in Table(db, "deliveries") : d.id \in Ids(E)
  BY <1>10 DEF Table, Ids
<1>15. Constraints(E)
  BY DEF E
<1>16. Distinct(E)
  BY <1>4 DEF E, Distinct, Sound, Ids
<1> QED
  BY <1>2, <1>6, <1>8, <1>9, <1>10, <1>11, <1>12, <1>13, <1>14, <1>15, <1>16, <1>4
  DEF Effect, E, g

\* Fewer rows
LEMMA DeleteEffect ==
  ASSUME Sound, Whole(db), NEW q, NEW E, E \subseteq db, Constraints(E),
         \A r \in db \ E : r.id[1] \in Main => r.id = q.id /\ q.op \in Deletions,
         q.op \in Deletions => q.id \notin Ids(E),
         \A p \in db \ E : p.id[1] = "fetcher_policies" => p.refs \cap Ids(E) = {},
         \A e \in db \ E : e.id[1] = "fetcher_policy_entries" =>
            \A p \in Table(E, "fetcher_policies") : p.id \notin e.refs,
         \A d \in db \ E : d.id[1] = "deliveries" =>
            \E m \in Table(db, "monitors") :
              /\ m.id \notin Ids(E)
              /\ \E c \in Referring(db, "changes", m.id) : c.id \in d.refs
  PROVE  Effect(q, E, made)
<1>1. /\ made \in [Tables -> Nat] /\ \A t \in Tables : made[t] <= made[t]
      /\ Schema(E, made)
  BY DEF Sound, Schema
<1>2. Whole(E)
  <2> SUFFICES ASSUME NEW p \in Table(E, "fetcher_policies")
               PROVE  \E o \in Order, n \in Nat :
                        Referring(E, "fetcher_policy_entries", p.id) = EntriesOf(p.id, o, n)
    BY DEF Whole
  <2>1. p \in Table(db, "fetcher_policies")
    BY DEF Table
  <2>2. Referring(E, "fetcher_policy_entries", p.id) = Referring(db, "fetcher_policy_entries", p.id)
    BY DEF Referring, Table
  <2> QED
    BY <2>1, <2>2 DEF Whole
<1>3. Ids(E) \subseteq Ids(db)
  BY DEF Ids
<1>4. \A i \in Ids(db) : i \notin Ids(E) /\ i[1] \in Main => i = q.id /\ q.op \in Deletions
  BY DEF Ids
<1>5. Archived(E) \subseteq Archived(db)
  BY DEF Archived, Table
<1>6. Archived(db) \cap Ids(E) \subseteq Archived(E)
  BY DEF Archived, Table, Ids, Sound, Distinct
<1>7. \A s \in Ids(E) : Referring(db, "fetcher_policies", s) # {} =>
                          Referring(E, "fetcher_policies", s) # {}
  BY DEF Referring, Table
<1>8. \A d \in Table(db, "deliveries") : d.id \notin Ids(E) =>
       \E m \in Table(db, "monitors") :
         /\ m.id \notin Ids(E)
         /\ \E c \in Referring(db, "changes", m.id) : c.id \in d.refs
  BY DEF Table, Ids
<1>9. Distinct(E)
  BY DEF Sound, Distinct
<1> QED
  BY <1>1, <1>2, <1>3, <1>4, <1>5, <1>6, <1>7, <1>8, <1>9 DEF Effect

LEMMA NothingWritten ==
  ASSUME Sound, Whole(db), NEW q, q.op \notin Deletions
  PROVE  Effect(q, db, made)
<1>1. Constraints(db)
  BY DEF Sound
<1> QED
  BY <1>1, DeleteEffect

\* The identifiers a transaction takes
LEMMA NoneTaken ==
  ASSUME Sound, NEW sts, \A i \in 1..Len(sts) : sts[i].do # "insert"
  PROVE  [t \in Tables |-> made[t] + Taken(sts)[t]] = made
<1>1. \A t \in Tables : Taken(sts)[t] = 0
  <2>1. \A t \in Tables :
          {i \in 1..Len(sts) : sts[i].do = "insert" /\ sts[i].table = t} = {}
    OBVIOUS
  <2> QED
    BY <2>1, FS_EmptySet DEF Taken
<1> QED
  BY <1>1 DEF Sound

LEMMA OneTaken ==
  ASSUME Sound, NEW row, row.id[1] \in Tables
  PROVE  [t \in Tables |-> made[t] + Taken(<<Insert(row)>>)[t]] = [made EXCEPT ![row.id[1]] = @ + 1]
<1> DEFINE sts == <<Insert(row)>>
           S(t) == {i \in 1..Len(sts) : sts[i].do = "insert" /\ sts[i].table = t}
<1>1. Len(sts) = 1 /\ sts[1].do = "insert" /\ sts[1].table = row.id[1]
  BY DEF Insert
<1>2. S(row.id[1]) = {1} /\ \A t \in Tables : t # row.id[1] => S(t) = {}
  BY <1>1
<1>3. Cardinality({1}) = 1 /\ Cardinality({}) = 0
  BY FS_Singleton, FS_EmptySet
<1>4. \A t \in Tables : Taken(sts)[t] = IF t = row.id[1] THEN 1 ELSE 0
  BY <1>2, <1>3 DEF Taken
<1>5. made \in [Tables -> Nat]
  BY DEF Sound
<1> HIDE DEF sts
<1>6. \A t \in Tables : made[t] + Taken(sts)[t] = [made EXCEPT ![row.id[1]] = @ + 1][t]
  BY <1>4, <1>5
<1>7. [t \in Tables |-> made[t] + Taken(sts)[t]] = [made EXCEPT ![row.id[1]] = @ + 1]
  BY <1>6, <1>5
<1> QED
  BY <1>7 DEF sts

LEMMA BatchOfOne ==
  ASSUME NEW D, NEW st
  PROVE  /\ Batch(D, <<st>>).ok <=> Constraints(After(D, st))
         /\ Batch(D, <<st>>).ok => Batch(D, <<st>>).rows = After(D, st)
         /\ ~Batch(D, <<st>>).ok => Batch(D, <<st>>).rows = D
<1>1. Len(<<st>>) = 1 /\ 1 \in Nat
  OBVIOUS
<1>2. PICK rows :
           /\ rows[0] = D
           /\ \A i \in 1..1 : rows[i] = After(rows[i - 1], <<st>>[i])
           /\ Batch(D, <<st>>).ok <=> \A i \in 1..1 : Constraints(rows[i])
           /\ Batch(D, <<st>>).ok => Batch(D, <<st>>).rows = rows[1]
           /\ ~Batch(D, <<st>>).ok => Batch(D, <<st>>).rows = D
  BY <1>1, BatchIsWhole, Zenon
<1>3. rows[1] = After(D, st)
  BY <1>2
<1>4. (\A i \in 1..1 : Constraints(rows[i])) <=> Constraints(rows[1])
  OBVIOUS
<1> QED
  BY <1>2, <1>3, <1>4, Zenon

\* What a transaction leaves meets no constraint.
LEMMA BatchKeepsConstraints ==
  ASSUME NEW D, Constraints(D), NEW sts, Len(sts) \in Nat
  PROVE  Constraints(Batch(D, sts).rows)
<1>1. PICK rows :
           /\ rows[0] = D
           /\ Batch(D, sts).ok <=> \A i \in 1..Len(sts) : Constraints(rows[i])
           /\ Batch(D, sts).ok => Batch(D, sts).rows = rows[Len(sts)]
           /\ ~Batch(D, sts).ok => Batch(D, sts).rows = D
  BY BatchRows
<1>2. Len(sts) = 0 => rows[Len(sts)] = D
  BY <1>1
<1>3. (\A i \in 1..Len(sts) : Constraints(rows[i])) => Constraints(rows[Len(sts)])
  <2>1. Len(sts) = 0 \/ Len(sts) \in 1..Len(sts)
    OBVIOUS
  <2> QED
    BY <2>1, <1>2
<1>4. CASE Batch(D, sts).ok
  BY <1>1, <1>3, <1>4, Zenon
<1>5. CASE ~Batch(D, sts).ok
  BY <1>1, <1>5, Zenon
<1> QED
  BY <1>4, <1>5, Zenon

-----------------------------------------------------------------------------
(* The deletions *)

LEMMA TablesOfRows ==
  ASSUME Sound
  PROVE  InTables(db)
BY DEF Sound, Schema, Shape, InTables

\* The deletion of one row by its identifier
LEMMA RowDeletion ==
  ASSUME Sound, Whole(db), NEW q, NEW t, q.id[1] = t,
         \/ t = "sources" /\ q.op = "source.delete"
         \/ t = "subscriptions" /\ q.op \notin Deletions,
         Batch(db, <<Delete(t, "id", q.id)>>).ok
  PROVE  Effect(q, Batch(db, <<Delete(t, "id", q.id)>>).rows, made)
<1> DEFINE E == {r \in db : ~(r.id[1] = t /\ r.id = q.id)}
<1>1. After(db, Delete(t, "id", q.id)) = E
  <2>1. InTables(db)
    BY TablesOfRows
  <2>2. After(db, Delete(t, "id", q.id)) = WithoutId(db, t, q.id)
    BY <2>1, AfterDelete
  <2> QED
    BY <2>2 DEF WithoutId
<1>2. E \subseteq db /\ \A r \in db \ E : r.id[1] = t /\ r.id = q.id
  OBVIOUS
<1>3. q.id \notin Ids(E)
  BY DEF Ids
<1> HIDE DEF E
<1>4. Batch(db, <<Delete(t, "id", q.id)>>).rows = E /\ Constraints(E)
  BY <1>1, BatchOfOne, Zenon
<1>5. \A r \in db \ E : r.id[1] \in Main => r.id = q.id /\ q.op \in Deletions
  BY <1>2 DEF Main, Deletions
<1>6. Effect(q, E, made)
  BY <1>2, <1>3, <1>4, <1>5, DeleteEffect
<1> QED
  BY <1>4, <1>6

\* deleteSiteCascade
LEMMA SiteDeletion ==
  ASSUME Sound, Whole(db), NEW q, q.op = "site.delete", q.id[1] = "sites",
         Batch(db, DeleteSiteCascade(q.id)).ok
  PROVE  Effect(q, Batch(db, DeleteSiteCascade(q.id)).rows, made)
<1> DEFINE s == q.id
           sts == DeleteSiteCascade(s)
<1>1. /\ Len(sts) = 5 /\ 5 \in Nat
      /\ sts[1] = Delete("fetcher_policy_entries", "fetcher_policies", s)
      /\ sts[2] = Delete("fetcher_policies", "refs", s)
      /\ sts[3] = Delete("robots_policies", "refs", s)
      /\ sts[4] = Delete("subscriptions", "refs", s)
      /\ sts[5] = Delete("sites", "id", s)
  BY DEF DeleteSiteCascade
<1> HIDE DEF sts
<1>2. PICK rows :
           /\ rows[0] = db
           /\ \A i \in 1..5 : rows[i] = After(rows[i - 1], sts[i])
           /\ Batch(db, sts).ok <=> \A i \in 1..5 : Constraints(rows[i])
           /\ Batch(db, sts).ok => Batch(db, sts).rows = rows[5]
           /\ ~Batch(db, sts).ok => Batch(db, sts).rows = db
  BY <1>1, BatchIsWhole, Zenon
<1>3. /\ rows[1] = After(db, Delete("fetcher_policy_entries", "fetcher_policies", s))
      /\ rows[2] = After(rows[1], Delete("fetcher_policies", "refs", s))
      /\ rows[3] = After(rows[2], Delete("robots_policies", "refs", s))
      /\ rows[4] = After(rows[3], Delete("subscriptions", "refs", s))
      /\ rows[5] = After(rows[4], Delete("sites", "id", s))
  BY <1>1, <1>2
<1> DEFINE Entry(r) == /\ r.id[1] = "fetcher_policy_entries"
                       /\ \E p \in db : p.id[1] = "fetcher_policies" /\ s \in p.refs /\ p.id \in r.refs
           D5 == rows[5]
<1>4. "fetcher_policies" \in Tables /\ InTables(db)
  BY TablesOfRows DEF Tables
<1>5. InTables(rows[1]) /\ rows[1] = WithoutThrough(db, "fetcher_policy_entries", "fetcher_policies", s)
  BY <1>3, <1>4, AfterDeleteThrough
<1>6. InTables(rows[2]) /\ rows[2] = WithoutReference(rows[1], "fetcher_policies", s)
  BY <1>3, <1>5, AfterDelete
<1>7. InTables(rows[3]) /\ rows[3] = WithoutReference(rows[2], "robots_policies", s)
  BY <1>3, <1>6, AfterDelete
<1>8. InTables(rows[4]) /\ rows[4] = WithoutReference(rows[3], "subscriptions", s)
  BY <1>3, <1>7, AfterDelete
<1>9. D5 = WithoutId(rows[4], "sites", s)
  BY <1>3, <1>8, AfterDelete
<1> HIDE DEF D5
<1>10. \A r : r \in D5 <=>
         /\ r \in db /\ ~Entry(r)
         /\ ~(r.id[1] \in {"fetcher_policies", "robots_policies", "subscriptions"} /\ s \in r.refs)
         /\ ~(r.id[1] = "sites" /\ r.id = s)
  BY <1>5, <1>6, <1>7, <1>8, <1>9 DEF WithoutThrough, WithoutReference, WithoutId
<1> HIDE DEF Entry
<1>11. \A r \in db \ D5 :
         \/ Entry(r)
         \/ r.id[1] \in {"fetcher_policies", "robots_policies", "subscriptions"} /\ s \in r.refs
         \/ r.id = s
  BY <1>10
<1>12. s \notin Ids(D5) /\ \A p \in D5 : p.id[1] = "fetcher_policies" => s \notin p.refs
  BY <1>10 DEF Ids
<1>13. Batch(db, sts).rows = D5 /\ Constraints(D5)
  <2>1. 5 \in 1..5
    OBVIOUS
  <2> QED
    BY <2>1, <1>2, Zenon DEF sts, D5
<1>14. \A p \in db \ D5 : p.id[1] = "fetcher_policies" => p.refs \cap Ids(D5) = {}
  BY <1>11, <1>12 DEF Entry, Sound, Schema, Shape, Single
<1>15. \A e \in db \ D5 : e.id[1] = "fetcher_policy_entries" =>
            \A p \in Table(D5, "fetcher_policies") : p.id \notin e.refs
  <2> SUFFICES ASSUME NEW e \in db, Entry(e),
                      NEW p \in D5, p.id[1] = "fetcher_policies", p.id \in e.refs
               PROVE  FALSE
    BY <1>11 DEF Table
  <2>1. PICK x \in db : x.id[1] = "fetcher_policies" /\ s \in x.refs /\ x.id \in e.refs
    BY DEF Entry
  <2>2. x.id = p.id
    BY <2>1 DEF Sound, Schema, Shape, Entry
  <2>3. x = p
    BY <2>2, <1>10 DEF Sound, Distinct
  <2> QED
    BY <2>1, <2>3, <1>12
<1>16. Effect(q, D5, made)
  BY <1>10, <1>11, <1>12, <1>13, <1>14, <1>15, DeleteEffect DEF Entry, Main, Deletions
<1> QED
  BY <1>13, <1>16 DEF sts

\* deleteDestinationById
LEMMA DestinationDeletion ==
  ASSUME Sound, Whole(db), NEW q, q.op = "destination.delete",
         Batch(db, DeleteDestinationById(q.id)).ok
  PROVE  Effect(q, Batch(db, DeleteDestinationById(q.id)).rows, made)
<1> DEFINE d == q.id
           sts == DeleteDestinationById(d)
<1>1. /\ Len(sts) = 2 /\ 2 \in Nat
      /\ sts[1] = Delete("subscriptions", "refs", d)
      /\ sts[2] = Delete("destinations", "id", d)
  BY DEF DeleteDestinationById
<1> HIDE DEF sts
<1>2. PICK rows :
           /\ rows[0] = db
           /\ \A i \in 1..2 : rows[i] = After(rows[i - 1], sts[i])
           /\ Batch(db, sts).ok <=> \A i \in 1..2 : Constraints(rows[i])
           /\ Batch(db, sts).ok => Batch(db, sts).rows = rows[2]
           /\ ~Batch(db, sts).ok => Batch(db, sts).rows = db
  BY <1>1, BatchIsWhole, Zenon
<1>3. /\ rows[1] = After(db, Delete("subscriptions", "refs", d))
      /\ rows[2] = After(rows[1], Delete("destinations", "id", d))
  BY <1>1, <1>2
<1>4. InTables(db)
  BY TablesOfRows
<1>5. InTables(rows[1]) /\ rows[1] = WithoutReference(db, "subscriptions", d)
  BY <1>3, <1>4, AfterDelete
<1>6. rows[2] = WithoutId(rows[1], "destinations", d)
  BY <1>3, <1>5, AfterDelete
<1>7. rows[2] \subseteq db /\ \A r \in db \ rows[2] : r.id[1] \in {"subscriptions", "destinations"}
  BY <1>5, <1>6 DEF WithoutReference, WithoutId
<1>8. Batch(db, sts).rows = rows[2] /\ Constraints(rows[2])
  <2>1. 2 \in 1..2
    OBVIOUS
  <2> QED
    BY <2>1, <1>2, Zenon DEF sts
<1>9. Effect(q, rows[2], made)
  <2>1. q.op \notin Deletions
    BY DEF Deletions
  <2> QED
    BY <1>7, <1>8, <2>1, DeleteEffect DEF Main
<1> QED
  BY <1>8, <1>9 DEF sts

\* A value is set in the row of a destination or a robots policy, after
\* subscriptions were deleted or not.
LEMMA SetEffect ==
  ASSUME Sound, Whole(db), NEW q, q.op \notin Deletions,
         NEW D, D \subseteq db, \A r \in db \ D : r.id[1] = "subscriptions",
         NEW id, NEW v,
         \/ id[1] = "robots_policies"
         \/ id[1] = "destinations" /\ v = "archived" /\ q.op = "destination.archive" /\ id = q.id,
         NEW E, Constraints(E), E = After(D, Set(id, v))
  PROVE  Effect(q, E, made)
<1>1. InTables(D)
  BY TablesOfRows DEF InTables
<1>2. \A r : r \in E <=> \/ r \in D /\ r.id # id
                         \/ \E x \in D : x.id = id /\ r = Row(x.id, x.refs, v)
  <2> DEFINE Changed(x) == [x EXCEPT !.v = v]
  <2>1. \A x \in D : Changed(x) = Row(x.id, x.refs, v)
    <3> SUFFICES ASSUME NEW x \in D  PROVE [x EXCEPT !.v = v] = Row(x.id, x.refs, v)
      OBVIOUS
    <3>1. x = Row(x.id, x.refs, x.v)
      BY DEF Sound, Schema, Shape
    <3> QED
      BY <3>1, ChangedRow
  <2>2. \A r : r \in E <=> \/ r \in D /\ r.id # id
                           \/ \E x \in D : x.id = id /\ r = Changed(x)
    BY <1>1, AfterSet
  <2> HIDE DEF Changed
  <2> QED
    BY <2>1, <2>2
<1>3. \A i, refs : /\ Row(i, refs, v).id = i /\ Row(i, refs, v).refs = refs
                   /\ Row(i, refs, v).v = v
  BY DEF Row
<1>4. \A r \in E : \E x \in D : /\ r.id = x.id /\ r.refs = x.refs
                                /\ \/ r = x /\ x.id # id
                                   \/ x.id = id /\ r = Row(x.id, x.refs, v) /\ r.v = v
  BY <1>2, <1>3
<1>5. \A x \in D : \E r \in E : r.id = x.id /\ r.refs = x.refs
  BY <1>2, <1>3
<1>6. \A t : t # id[1] => Table(E, t) = Table(D, t)
  BY <1>2, <1>3 DEF Table
<1>7. \A t : t # id[1] /\ t # "subscriptions" => Table(E, t) = Table(db, t)
  BY <1>6 DEF Table
<1>8. Ids(E) = Ids(D) /\ \A i \in Ids(db) \ Ids(D) : i[1] = "subscriptions"
  BY <1>4, <1>5 DEF Ids
<1>9. Distinct(E)
  <2> SUFFICES ASSUME NEW r \in E, NEW s \in E, r.id = s.id  PROVE r = s
    BY DEF Distinct
  <2>1. PICK x \in D : /\ r.id = x.id
                       /\ \/ r = x /\ x.id # id
                          \/ x.id = id /\ r = Row(x.id, x.refs, v)
    BY <1>4
  <2>2. PICK y \in D : /\ s.id = y.id
                       /\ \/ s = y /\ y.id # id
                          \/ y.id = id /\ s = Row(y.id, y.refs, v)
    BY <1>4
  <2>3. x = y
    BY <2>1, <2>2 DEF Sound, Distinct
  <2> QED
    BY <2>1, <2>2, <2>3
<1>10. Schema(E, made)
  <2> SUFFICES ASSUME NEW r \in E  PROVE Shape(r) /\ Known(r.id, made)
    BY DEF Schema
  <2>1. PICK x \in D : /\ r.id = x.id /\ r.refs = x.refs
                       /\ \/ r = x /\ x.id # id
                          \/ x.id = id /\ r = Row(x.id, x.refs, v) /\ r.v = v
    BY <1>4
  <2>2. Shape(x) /\ Known(x.id, made)
    BY DEF Sound, Schema
  <2>3. r = Row(r.id, r.refs, r.v)
    BY <2>1, <2>2 DEF Shape
  <2> QED
    BY <2>1, <2>2, <2>3 DEF Shape
<1>11. Whole(E)
  BY <1>7 DEF Whole, Referring
<1>12. \A r \in E : r.id[1] \in CheckTables \cup {"deliveries"} => r \in db
  BY <1>2, <1>3 DEF CheckTables
<1>13. \A s : Referring(E, "fetcher_policies", s) = Referring(db, "fetcher_policies", s)
  BY <1>7 DEF Referring
<1>14. \A i \in Archived(E) : i \in Archived(db) \/ (q.op = "destination.archive" /\ i = q.id)
  BY <1>4, <1>3 DEF Archived, Table
<1>15. Archived(db) \cap Ids(E) \subseteq Archived(E)
  <2> SUFFICES ASSUME NEW x \in db, x.id[1] = "destinations", x.v = "archived"
               PROVE  x.id \in Archived(E)
    BY DEF Archived, Table
  <2>1. x \in D
    OBVIOUS
  <2>2. CASE x.id # id
    BY <2>1, <2>2, <1>2 DEF Archived, Table
  <2>3. CASE x.id = id
    BY <2>1, <2>3, <1>2, <1>3 DEF Archived, Table
  <2> QED
    BY <2>2, <2>3
<1>16. \A d \in Table(db, "deliveries") : d.id \in Ids(E)
  BY <1>8 DEF Table, Ids
<1>17. \A i \in Ids(db) : i \notin Ids(E) => i[1] \notin Main
  BY <1>8 DEF Main
<1>18. Ids(E) \subseteq Ids(db)
  BY <1>8 DEF Ids
<1>19. made \in [Tables -> Nat] /\ \A t \in Tables : made[t] <= made[t]
  BY DEF Sound
<1> QED
  BY <1>9, <1>10, <1>11, <1>12, <1>13, <1>14, <1>15, <1>16, <1>17, <1>18, <1>19 DEF Effect

\* A statement that deletes what nothing refers to meets no constraint.
LEMMA NothingRefers ==
  ASSUME NEW D, Constraints(D), NEW E, E \subseteq D,
         \A x \in D \ E : \A r \in E : x.id \notin r.refs
  PROVE  Constraints(E)
<1>1. \A r \in E : r.refs \subseteq Ids(D)
  BY DEF Constraints
<1>2. \A r \in E : r.refs \subseteq Ids(E)
  BY <1>1 DEF Ids
<1> QED
  BY <1>2, FewerRows

\* deleteMonitorCascade: no statement of it meets a constraint.
LEMMA MonitorDeletion ==
  ASSUME Sound, Whole(db), NEW q, q.op = "monitor.delete", q.id[1] = "monitors"
  PROVE  /\ Batch(db, DeleteMonitorCascade(q.id)).ok
         /\ Effect(q, Batch(db, DeleteMonitorCascade(q.id)).rows, made)
<1> DEFINE m == q.id
           sts == DeleteMonitorCascade(m)
<1>1. /\ Len(sts) = 9 /\ 9 \in Nat
      /\ sts[1] = Unlink("snapshots", m)
      /\ sts[2] = Delete("deliveries", "changes", m)
      /\ sts[3] = Delete("check_attempts", "check_jobs", m)
      /\ sts[4] = Delete("changes", "refs", m)
      /\ sts[5] = Delete("check_jobs", "refs", m)
      /\ sts[6] = Delete("snapshots", "refs", m)
      /\ sts[7] = Delete("targets", "refs", m)
      /\ sts[8] = Delete("subscriptions", "refs", m)
      /\ sts[9] = Delete("monitors", "id", m)
  BY DEF DeleteMonitorCascade
<1> HIDE DEF sts
<1>2. PICK rows :
           /\ rows[0] = db
           /\ \A i \in 1..9 : rows[i] = After(rows[i - 1], sts[i])
           /\ Batch(db, sts).ok <=> \A i \in 1..9 : Constraints(rows[i])
           /\ Batch(db, sts).ok => Batch(db, sts).rows = rows[9]
           /\ ~Batch(db, sts).ok => Batch(db, sts).rows = db
  BY <1>1, BatchIsWhole, Zenon
<1>3. /\ rows[1] = After(db, Unlink("snapshots", m))
      /\ rows[2] = After(rows[1], Delete("deliveries", "changes", m))
      /\ rows[3] = After(rows[2], Delete("check_attempts", "check_jobs", m))
      /\ rows[4] = After(rows[3], Delete("changes", "refs", m))
      /\ rows[5] = After(rows[4], Delete("check_jobs", "refs", m))
      /\ rows[6] = After(rows[5], Delete("snapshots", "refs", m))
      /\ rows[7] = After(rows[6], Delete("targets", "refs", m))
      /\ rows[8] = After(rows[7], Delete("subscriptions", "refs", m))
      /\ rows[9] = After(rows[8], Delete("monitors", "id", m))
  BY <1>1, <1>2
<1>4. /\ InTables(db) /\ "changes" \in Tables /\ "check_jobs" \in Tables
      /\ Constraints(db) /\ Kin(db) /\ \A r \in db : Shape(r)
  BY TablesOfRows DEF Tables, Sound, Schema
\* The snapshots of the monitor lose their attempts.
<1> DEFINE Left(x) == {i \in x.refs : i[1] # "check_attempts"}
<1>5. \A r : r \in rows[1] <=>
        \/ r \in db /\ ~(r.id[1] = "snapshots" /\ m \in r.refs)
        \/ \E x \in db : x.id[1] = "snapshots" /\ m \in x.refs /\ r = Row(x.id, Left(x), x.v)
  <2> DEFINE Changed(x) == [x EXCEPT !.refs = {i \in @ : i[1] # "check_attempts"}]
  <2>1. \A x \in db : Changed(x) = Row(x.id, Left(x), x.v)
    BY <1>4, ChangedRow DEF Shape
  <2>2. \A r : r \in rows[1] <=>
          \/ r \in db /\ ~(r.id[1] = "snapshots" /\ m \in r.refs)
          \/ \E x \in db : x.id[1] = "snapshots" /\ m \in x.refs /\ r = Changed(x)
    BY <1>3, <1>4, AfterUnlink
  <2> HIDE DEF Changed, Left
  <2> QED
    BY <2>1, <2>2
<1>6. \A i, refs, v : Row(i, refs, v).id = i /\ Row(i, refs, v).refs = refs
  BY DEF Row
<1>7. /\ \A r \in rows[1] : r.id[1] # "snapshots" \/ m \notin r.refs => r \in db
      /\ \A r \in db : r.id[1] # "snapshots" \/ m \notin r.refs => r \in rows[1]
      /\ \A r \in rows[1] : r.id[1] = "snapshots" /\ m \in r.refs =>
           \A i \in r.refs : i[1] # "check_attempts"
      /\ \A r \in rows[1] : \E x \in db : r.id = x.id /\ r.refs \subseteq x.refs
      /\ \A x \in db : \E r \in rows[1] : r.id = x.id
  <2>1. m[1] # "check_attempts"
    OBVIOUS
  <2>2. \A x : /\ Left(x) \subseteq x.refs /\ \A i \in Left(x) : i[1] # "check_attempts"
               /\ m \in x.refs => m \in Left(x)
    BY <2>1
  <2> HIDE DEF Left
  <2>3. \A r \in rows[1] : r \notin db =>
          \E x \in db : /\ x.id[1] = "snapshots" /\ m \in x.refs
                        /\ r.id = x.id /\ r.refs = Left(x)
    BY <1>5, <1>6
  <2>4. \A r \in db : r.id[1] # "snapshots" \/ m \notin r.refs => r \in rows[1]
    BY <1>5
  <2>5. \A x \in db : x.id[1] = "snapshots" /\ m \in x.refs => Row(x.id, Left(x), x.v) \in rows[1]
    BY <1>5
  <2>6. \A x \in db : \E r \in rows[1] : r.id = x.id
    BY <2>4, <2>5, <1>6
  <2> QED
    BY <1>5, <1>6, <2>2, <2>3, <2>4, <2>6
<1>8. InTables(rows[1]) /\ \A r \in rows[1] : \A i \in r.refs : <<r.id[1], i[1]>> \in Edges
  BY <1>4, <1>7 DEF InTables, Shape
<1>9. Ids(rows[1]) = Ids(db)
  BY <1>7 DEF Ids
<1>10. Constraints(rows[1])
  <2> DEFINE E == rows[1]
  <2>1. \A r \in E : r.id[1] \in Unique => r \in db
    BY <1>7 DEF Unique
  <2>2. \A r \in E : r.refs \subseteq Ids(E)
    BY <1>4, <1>7, <1>9 DEF Constraints
  <2> HIDE DEF E
  <2>3. Constraints(E)
    BY <2>1, <2>2, <1>4, FewerRows
  <2> QED
    BY <2>3 DEF E

\* The other statements delete rows.
<1>11. /\ InTables(rows[2]) /\ rows[2] = WithoutThrough(rows[1], "deliveries", "changes", m)
  BY <1>3, <1>4, <1>8, AfterDeleteThrough
<1>12. /\ InTables(rows[3]) /\ rows[3] = WithoutThrough(rows[2], "check_attempts", "check_jobs", m)
  BY <1>3, <1>4, <1>11, AfterDeleteThrough
<1>13. InTables(rows[4]) /\ rows[4] = WithoutReference(rows[3], "changes", m)
  BY <1>3, <1>12, AfterDelete
<1>14. InTables(rows[5]) /\ rows[5] = WithoutReference(rows[4], "check_jobs", m)
  BY <1>3, <1>13, AfterDelete
<1>15. InTables(rows[6]) /\ rows[6] = WithoutReference(rows[5], "snapshots", m)
  BY <1>3, <1>14, AfterDelete
<1>16. InTables(rows[7]) /\ rows[7] = WithoutReference(rows[6], "targets", m)
  BY <1>3, <1>15, AfterDelete
<1>17. InTables(rows[8]) /\ rows[8] = WithoutReference(rows[7], "subscriptions", m)
  BY <1>3, <1>16, AfterDelete
<1>18. rows[9] = WithoutId(rows[8], "monitors", m)
  BY <1>3, <1>17, AfterDelete
<1> DEFINE Delivered(r) == r.id[1] = "deliveries" /\ \E p \in db : p.id[1] = "changes" /\ m \in p.refs /\ p.id \in r.refs
           Attempted(r) == r.id[1] = "check_attempts" /\ \E p \in db : p.id[1] = "check_jobs" /\ m \in p.refs /\ p.id \in r.refs
           Of(r, t) == r.id[1] = t /\ m \in r.refs
<1>19. \A r : r \in rows[2] <=> r \in rows[1] /\ ~Delivered(r)
  BY <1>7, <1>11 DEF WithoutThrough
<1>20. \A r : r \in rows[3] <=> r \in rows[2] /\ ~Attempted(r)
  <2>1. \A r : r \in rows[3] <=>
          r \in rows[2] /\ ~(r.id[1] = "check_attempts" /\ \E p \in rows[2] : p.id[1] = "check_jobs" /\ m \in p.refs /\ p.id \in r.refs)
    BY <1>12 DEF WithoutThrough
  <2>2. \A p : p.id[1] = "check_jobs" => (p \in rows[2] <=> p \in db)
    BY <1>7, <1>19
  <2> QED
    BY <2>1, <2>2
<1>21. /\ \A r : r \in rows[4] <=> r \in rows[3] /\ ~Of(r, "changes")
       /\ \A r : r \in rows[5] <=> r \in rows[4] /\ ~Of(r, "check_jobs")
       /\ \A r : r \in rows[6] <=> r \in rows[5] /\ ~Of(r, "snapshots")
       /\ \A r : r \in rows[7] <=> r \in rows[6] /\ ~Of(r, "targets")
       /\ \A r : r \in rows[8] <=> r \in rows[7] /\ ~Of(r, "subscriptions")
       /\ \A r : r \in rows[9] <=> r \in rows[8] /\ ~(r.id[1] = "monitors" /\ r.id = m)
  BY <1>13, <1>14, <1>15, <1>16, <1>17, <1>18 DEF WithoutReference, WithoutId
\* What is deleted is referred to by nothing that is left.
<1>22. Constraints(rows[2])
  <2>1. \A x \in rows[1] \ rows[2] : \A r \in rows[2] : x.id \notin r.refs
    BY <1>8, <1>19 DEF Edges
  <2> HIDE DEF Delivered
  <2> QED
    BY <1>10, <1>19, <2>1, NothingRefers
<1>23. Constraints(rows[3])
  <2>1. ASSUME NEW x \in rows[2], Attempted(x), NEW r \in rows[3], x.id \in r.refs
        PROVE  FALSE
    <3>1. r \in rows[1] /\ r.id[1] = "snapshots" /\ x.id[1] = "check_attempts"
      BY <1>8, <1>19, <1>20, <2>1 DEF Edges
    <3>2. m \notin r.refs /\ r \in db /\ x \in db
      BY <1>7, <1>19, <2>1, <3>1
    <3>3. PICK j \in db : j.id[1] = "check_jobs" /\ m \in j.refs /\ j.id \in x.refs
      BY <2>1
    <3> QED
      BY <1>4, <2>1, <3>1, <3>2, <3>3 DEF Kin, Table
  <2> HIDE DEF Attempted
  <2>2. \A x \in rows[2] \ rows[3] : \A r \in rows[3] : x.id \notin r.refs
    BY <1>20, <2>1
  <2> QED
    BY <1>20, <1>22, <2>2, NothingRefers
<1>24. Constraints(rows[4])
  <2>1. ASSUME NEW x \in rows[3], Of(x, "changes"), NEW r \in rows[4], x.id \in r.refs
        PROVE  FALSE
    <3>1. r \in rows[1] /\ ~Delivered(r) /\ x \in db
      BY <1>7, <1>19, <1>20, <1>21, <2>1
    <3>2. r.id[1] = "deliveries"
      BY <1>8, <2>1, <3>1 DEF Edges
    <3> QED
      BY <2>1, <3>1, <3>2
  <2>2. \A x \in rows[3] \ rows[4] : \A r \in rows[4] : x.id \notin r.refs
    BY <1>21, <2>1
  <2> QED
    BY <1>21, <1>23, <2>2, NothingRefers
<1>25. Constraints(rows[5])
  <2>1. ASSUME NEW x \in rows[4], Of(x, "check_jobs"), NEW r \in rows[5], x.id \in r.refs
        PROVE  FALSE
    <3>1. r \in rows[1] /\ ~Attempted(r) /\ x \in db
      BY <1>7, <1>19, <1>20, <1>21, <2>1
    <3>2. r.id[1] = "check_attempts"
      BY <1>8, <2>1, <3>1 DEF Edges
    <3> QED
      BY <2>1, <3>1, <3>2
  <2>2. \A x \in rows[4] \ rows[5] : \A r \in rows[5] : x.id \notin r.refs
    BY <1>21, <2>1
  <2> QED
    BY <1>21, <1>24, <2>2, NothingRefers
<1>26. Constraints(rows[6])
  <2>1. ASSUME NEW x \in rows[5], Of(x, "snapshots"), NEW r \in rows[6], x.id \in r.refs
        PROVE  FALSE
    <3>1. r \in rows[1] /\ ~Of(r, "changes") /\ x \in rows[1]
      BY <1>19, <1>20, <1>21, <2>1
    <3>2. r.id[1] = "changes"
      BY <1>8, <2>1, <3>1 DEF Edges
    <3>3. r \in db
      BY <1>7, <3>1, <3>2
    <3>4. PICK y \in db : x.id = y.id /\ x.refs \subseteq y.refs
      BY <1>7, <3>1
    <3>5. m \in MonitorsOf(y)
      BY <2>1, <3>4 DEF MonitorsOf
    <3> QED
      BY <1>4, <2>1, <3>1, <3>2, <3>3, <3>4, <3>5 DEF Kin, Table
  <2>2. \A x \in rows[5] \ rows[6] : \A r \in rows[6] : x.id \notin r.refs
    BY <1>21, <2>1
  <2> QED
    BY <1>21, <1>25, <2>2, NothingRefers
<1>27. Constraints(rows[7])
  <2>1. ASSUME NEW x \in rows[6], Of(x, "targets"), NEW r \in rows[7], x.id \in r.refs
        PROVE  FALSE
    <3>1. /\ r \in rows[1] /\ ~Of(r, "changes") /\ ~Of(r, "snapshots") /\ ~Attempted(r)
          /\ x \in db
      BY <1>7, <1>19, <1>20, <1>21, <2>1
    <3>2. r.id[1] \in {"check_attempts", "snapshots", "changes"}
      BY <1>8, <2>1, <3>1 DEF Edges
    <3>3. r \in db
      BY <1>7, <3>1, <3>2
    <3>4. r.id[1] = "check_attempts"
      BY <1>4, <2>1, <3>1, <3>2, <3>3 DEF Kin, Table
    <3>5. PICK i \in r.refs : i[1] = "check_jobs"
      BY <1>4, <3>3, <3>4 DEF Shape
    <3>6. PICK j \in db : j.id = i
      BY <1>4, <3>3, <3>5 DEF Constraints, Ids
    <3>7. j.refs = x.refs
      BY <1>4, <2>1, <3>1, <3>3, <3>4, <3>5, <3>6 DEF Kin, Table
    <3> QED
      BY <2>1, <3>1, <3>4, <3>5, <3>6, <3>7
  <2>2. \A x \in rows[6] \ rows[7] : \A r \in rows[7] : x.id \notin r.refs
    BY <1>21, <2>1
  <2> QED
    BY <1>21, <1>26, <2>2, NothingRefers
<1>28. Constraints(rows[8])
  <2>1. \A x \in rows[7] \ rows[8] : \A r \in rows[8] : x.id \notin r.refs
    <3>1. \A r \in rows[8] : r \in rows[1]
      BY <1>19, <1>20, <1>21
    <3>2. \A x \in rows[7] \ rows[8] : x.id[1] = "subscriptions"
      BY <1>21
    <3> QED
      BY <1>8, <3>1, <3>2 DEF Edges
  <2> QED
    BY <1>21, <1>27, <2>1, NothingRefers
<1>29. Constraints(rows[9])
  <2>1. ASSUME NEW r \in rows[9], m \in r.refs
        PROVE  FALSE
    <3>1. /\ r \in rows[1]
          /\ \A t \in {"changes", "check_jobs", "snapshots", "targets", "subscriptions"} : ~Of(r, t)
      BY <1>19, <1>20, <1>21, <2>1
    <3>2. r.id[1] \in {"changes", "check_jobs", "snapshots", "targets", "subscriptions"}
      BY <1>8, <2>1, <3>1 DEF Edges
    <3> QED
      BY <2>1, <3>1, <3>2
  <2>2. \A x \in rows[8] \ rows[9] : x.id = m
    BY <1>21
  <2> QED
    BY <1>21, <1>28, <2>1, <2>2, NothingRefers
<1>30. Batch(db, sts).ok /\ Batch(db, sts).rows = rows[9]
  <2>1. \A i \in 1..9 : i = 1 \/ i = 2 \/ i = 3 \/ i = 4 \/ i = 5 \/ i = 6 \/ i = 7 \/ i = 8 \/ i = 9
    OBVIOUS
  <2>2. \A i \in 1..9 : Constraints(rows[i])
    BY <2>1, <1>10, <1>22, <1>23, <1>24, <1>25, <1>26, <1>27, <1>28, <1>29
  <2>3. Batch(db, sts).ok
    BY <2>2, <1>2, Zenon
  <2> QED
    BY <2>3, <1>2, Zenon
<1>31. rows[9] \subseteq db
  <2> SUFFICES ASSUME NEW r \in rows[9]  PROVE r \in db
    OBVIOUS
  <2>1. r \in rows[1] /\ ~Of(r, "snapshots")
    BY <1>19, <1>20, <1>21
  <2> QED
    BY <2>1, <1>7
<1>32. \A r \in db \ rows[9] :
         \/ r.id[1] \in {"snapshots", "check_attempts", "changes", "check_jobs", "targets", "subscriptions"}
         \/ Delivered(r)
         \/ r.id = m
  <2> HIDE DEF Delivered
  <2> QED
    BY <1>7, <1>19, <1>20, <1>21
<1>33. m \notin Ids(rows[9])
  BY <1>21 DEF Ids
<1>34. \A d \in db \ rows[9] : d.id[1] = "deliveries" =>
         \E x \in Table(db, "monitors") :
           /\ x.id \notin Ids(rows[9])
           /\ \E c \in Referring(db, "changes", x.id) : c.id \in d.refs
  <2> SUFFICES ASSUME NEW d \in db \ rows[9], Delivered(d)
               PROVE  \E x \in Table(db, "monitors") :
                        /\ x.id \notin Ids(rows[9])
                        /\ \E c \in Referring(db, "changes", x.id) : c.id \in d.refs
    BY <1>32
  <2>1. PICK c \in db : c.id[1] = "changes" /\ m \in c.refs /\ c.id \in d.refs
    OBVIOUS
  <2>2. PICK x \in db : x.id = m
    BY <2>1, <1>4 DEF Constraints, Ids
  <2>3. x \in Table(db, "monitors") /\ c \in Referring(db, "changes", x.id)
    BY <2>1, <2>2 DEF Table, Referring
  <2> QED
    BY <2>1, <2>2, <2>3, <1>33
<1>35. Effect(q, rows[9], made)
  <2> DEFINE E == rows[9]
  <2> HIDE DEF E
  <2>1. /\ E \subseteq db /\ Constraints(E)
        /\ \A r \in db \ E : r.id[1] \in Main => r.id = q.id /\ q.op \in Deletions
        /\ q.op \in Deletions => q.id \notin Ids(E)
        /\ \A p \in db \ E : p.id[1] = "fetcher_policies" => p.refs \cap Ids(E) = {}
        /\ \A e \in db \ E : e.id[1] = "fetcher_policy_entries" =>
             \A p \in Table(E, "fetcher_policies") : p.id \notin e.refs
        /\ \A d \in db \ E : d.id[1] = "deliveries" =>
             \E x \in Table(db, "monitors") :
               /\ x.id \notin Ids(E)
               /\ \E c \in Referring(db, "changes", x.id) : c.id \in d.refs
    BY <1>29, <1>31, <1>32, <1>33, <1>34 DEF E, Main, Deletions
  <2> QED
    BY <2>1, DeleteEffect DEF E
<1> QED
  BY <1>30, <1>35, Zenon DEF sts

\* Nothing refers to a subscription, so its deletion succeeds.
LEMMA SubscriptionGoes ==
  ASSUME Sound, NEW E, E \subseteq db, \A r \in db \ E : r.id[1] = "subscriptions"
  PROVE  Constraints(E)
<1>1. \A x \in db \ E : \A r \in E : x.id \notin r.refs
  BY DEF Sound, Schema, Shape, Edges
<1>2. Constraints(db)
  BY DEF Sound
<1> QED
  BY <1>1, <1>2, NothingRefers

LEMMA SubscriptionDeletion ==
  ASSUME Sound, NEW id
  PROVE  Batch(db, <<Delete("subscriptions", "id", id)>>).ok
<1>1. InTables(db)
  BY TablesOfRows
<1>2. After(db, Delete("subscriptions", "id", id)) = WithoutId(db, "subscriptions", id)
  BY <1>1, AfterDelete
<1>3. Constraints(WithoutId(db, "subscriptions", id))
  <2> DEFINE E == WithoutId(db, "subscriptions", id)
  <2>1. E \subseteq db /\ \A r \in db \ E : r.id[1] = "subscriptions"
    BY DEF WithoutId
  <2> HIDE DEF E
  <2>2. Constraints(E)
    BY <2>1, SubscriptionGoes
  <2> QED
    BY <2>2 DEF E
<1>4. Constraints(After(db, Delete("subscriptions", "id", id)))
  BY <1>2, <1>3
<1> QED
  BY <1>4, BatchOfOne, Zenon

\* archiveDestination: neither statement meets a constraint.
LEMMA DestinationArchive ==
  ASSUME Sound, Whole(db), NEW q, q.op = "destination.archive", q.id[1] = "destinations"
  PROVE  /\ Batch(db, ArchiveDestination(q.id)).ok
         /\ Effect(q, Batch(db, ArchiveDestination(q.id)).rows, made)
<1> DEFINE d == q.id
           sts == ArchiveDestination(d)
<1>1. /\ Len(sts) = 2 /\ 2 \in Nat
      /\ sts[1] = Delete("subscriptions", "refs", d)
      /\ sts[2] = Set(d, "archived")
  BY DEF ArchiveDestination
<1> HIDE DEF sts
<1>2. PICK rows :
           /\ rows[0] = db
           /\ \A i \in 1..2 : rows[i] = After(rows[i - 1], sts[i])
           /\ Batch(db, sts).ok <=> \A i \in 1..2 : Constraints(rows[i])
           /\ Batch(db, sts).ok => Batch(db, sts).rows = rows[2]
           /\ ~Batch(db, sts).ok => Batch(db, sts).rows = db
  BY <1>1, BatchIsWhole, Zenon
<1> DEFINE D == rows[1]
           E == rows[2]
<1>3. D = After(db, Delete("subscriptions", "refs", d)) /\ E = After(D, Set(d, "archived"))
  BY <1>1, <1>2
<1> HIDE DEF D, E
<1>4. InTables(db)
  BY TablesOfRows
<1>5. InTables(D) /\ D = WithoutReference(db, "subscriptions", d)
  BY <1>3, <1>4, AfterDelete
<1>6. D \subseteq db /\ \A r \in db \ D : r.id[1] = "subscriptions"
  BY <1>5 DEF WithoutReference
<1>7. Constraints(D)
  BY <1>6, SubscriptionGoes
<1>8. Constraints(E)
  <2>1. \A r : r \in E <=> \/ r \in D /\ r.id # d
                           \/ \E x \in D : x.id = d /\ r = [x EXCEPT !.v = "archived"]
    BY <1>3, <1>5, AfterSet
  <2>2. \A x \in D : [x EXCEPT !.v = "archived"] = Row(x.id, x.refs, "archived")
    <3> SUFFICES ASSUME NEW x \in D  PROVE [x EXCEPT !.v = "archived"] = Row(x.id, x.refs, "archived")
      OBVIOUS
    <3>1. x = Row(x.id, x.refs, x.v)
      BY <1>6 DEF Sound, Schema, Shape
    <3> QED
      BY <3>1, ChangedRow
  <2>3. \A i, refs, v : Row(i, refs, v).id = i /\ Row(i, refs, v).refs = refs
    BY DEF Row
  <2> DEFINE Changed(x) == [x EXCEPT !.v = "archived"]
  <2>4. \A x \in D : Changed(x).id = x.id /\ Changed(x).refs = x.refs
    BY <2>2, <2>3
  <2>5. \A r : r \in E <=> \/ r \in D /\ r.id # d
                           \/ \E x \in D : x.id = d /\ r = Changed(x)
    BY <2>1
  <2> HIDE DEF Changed
  <2>6. \A r \in E : r.id[1] \in Unique => r \in D
    BY <2>4, <2>5 DEF Unique
  <2>7. Ids(E) = Ids(D)
    <3>1. \A x \in D : \E r \in E : r.id = x.id
      BY <2>4, <2>5
    <3>2. \A r \in E : \E x \in D : r.id = x.id
      BY <2>4, <2>5
    <3> QED
      BY <3>1, <3>2 DEF Ids
  <2>8. \A r \in E : r.refs \subseteq Ids(E)
    BY <1>7, <2>4, <2>5, <2>7 DEF Constraints
  <2> QED
    BY <1>7, <2>6, <2>8, FewerRows
<1>9. q.op \notin Deletions
  BY DEF Deletions
<1>10. Effect(q, E, made)
  BY <1>3, <1>6, <1>8, <1>9, SetEffect
<1>11. Batch(db, sts).ok /\ Batch(db, sts).rows = E
  <2>1. \A i \in 1..2 : Constraints(rows[i])
    BY <1>7, <1>8 DEF D, E
  <2>2. Batch(db, sts).ok
    BY <2>1, <1>2, Zenon
  <2> QED
    BY <2>2, <1>2, Zenon DEF E
<1> QED
  BY <1>10, <1>11, Zenon DEF sts

-----------------------------------------------------------------------------
(* The insertions *)

Given(sts) == [t \in Tables |-> made[t] + Taken(sts)[t]]

\* One row, with references of the right kind
LEMMA InsertRequest ==
  ASSUME Sound, Whole(db), NEW q, q.op \notin Deletions,
         NEW t \in {"sites", "sources", "monitors", "destinations", "subscriptions", "robots_policies"},
         NEW refs, \A i \in refs : <<t, i[1]>> \in Edges,
         NEW v, t = "destinations" => v # "archived",
         Batch(db, <<Insert(Row(Fresh(t), refs, v))>>).ok
  PROVE  Effect(q, Batch(db, <<Insert(Row(Fresh(t), refs, v))>>).rows,
                Given(<<Insert(Row(Fresh(t), refs, v))>>))
<1> DEFINE row == Row(Fresh(t), refs, v)
<1>1. /\ row.id = Fresh(t) /\ row.id[1] = t /\ row.refs = refs /\ row.v = v
      /\ row = Row(row.id, row.refs, row.v)
  BY DEF Row, Fresh
<1>2. t \in Tables
  BY DEF Tables
<1> HIDE DEF row
<1>3. Shape(row)
  BY <1>1, <1>2 DEF Shape, Single
<1>4. Given(<<Insert(row)>>) = [made EXCEPT ![t] = @ + 1]
  BY <1>1, <1>2, OneTaken DEF Given
<1>5. After(db, Insert(row)) = db \cup {row}
  BY AfterInsert
<1>6. Batch(db, <<Insert(row)>>).rows = After(db, Insert(row)) /\ Constraints(After(db, Insert(row)))
  BY BatchOfOne, Zenon DEF row
<1>7. Batch(db, <<Insert(row)>>).rows = db \cup {row} /\ Constraints(db \cup {row})
  BY <1>5, <1>6
<1>8. Effect(q, db \cup {row}, [made EXCEPT ![t] = @ + 1])
  BY <1>1, <1>3, <1>7, InsertEffect
<1>9. Effect(q, Batch(db, <<Insert(row)>>).rows, Given(<<Insert(row)>>))
  BY <1>4, <1>7, <1>8
<1> QED
  BY <1>9 DEF row

\* upsertRobotsPolicy
LEMMA RobotsPolicyStored ==
  ASSUME Sound, Whole(db), NEW q, q.op \notin Deletions, q.id[1] = "sites", NEW mode,
         Batch(db, UpsertRobotsPolicy(q.id, mode)).ok
  PROVE  Effect(q, Batch(db, UpsertRobotsPolicy(q.id, mode)).rows, Given(UpsertRobotsPolicy(q.id, mode)))
<1> DEFINE old == Referring(db, "robots_policies", q.id)
           sts == UpsertRobotsPolicy(q.id, mode)
<1>1. CASE old = {}
  <2>1. sts = << Insert(Row(Fresh("robots_policies"), {q.id}, mode)) >>
    BY <1>1 DEF UpsertRobotsPolicy
  <2>2. \A i \in {q.id} : <<"robots_policies", i[1]>> \in Edges
    BY DEF Edges
  <2>3. Batch(db, << Insert(Row(Fresh("robots_policies"), {q.id}, mode)) >>).ok
    BY <2>1, Zenon
  <2>4. Effect(q, Batch(db, << Insert(Row(Fresh("robots_policies"), {q.id}, mode)) >>).rows,
               Given(<< Insert(Row(Fresh("robots_policies"), {q.id}, mode)) >>))
    BY <2>2, <2>3, InsertRequest
  <2> QED
    BY <2>1, <2>4
<1>2. CASE old # {}
  <2> DEFINE id == (CHOOSE r \in old : TRUE).id
  <2>1. id[1] = "robots_policies"
    BY <1>2 DEF Referring, Table
  <2>2. sts = << Set(id, mode) >>
    BY <1>2 DEF UpsertRobotsPolicy
  <2> HIDE DEF id
  <2>3. Batch(db, << Set(id, mode) >>).ok
    BY <2>2, Zenon
  <2>4. Batch(db, << Set(id, mode) >>).rows = After(db, Set(id, mode))
        /\ Constraints(After(db, Set(id, mode)))
    BY <2>3, BatchOfOne, Zenon
  <2>5. Effect(q, After(db, Set(id, mode)), made)
    <3> DEFINE E == After(db, Set(id, mode))
    <3>1. Constraints(E) /\ E = After(db, Set(id, mode))
      BY <2>4
    <3> HIDE DEF E
    <3>2. db \subseteq db /\ \A r \in db \ db : r.id[1] = "subscriptions"
      OBVIOUS
    <3>3. Effect(q, E, made)
      BY <2>1, <3>1, <3>2, SetEffect
    <3> QED
      BY <3>1, <3>3
  <2>6. Given(<< Set(id, mode) >>) = made
    <3>1. \A i \in 1..Len(<< Set(id, mode) >>) : << Set(id, mode) >>[i].do # "insert"
      BY DEF Set
    <3> QED
      BY <3>1, NoneTaken DEF Given
  <2> QED
    BY <2>2, <2>4, <2>5, <2>6
<1> QED
  BY <1>1, <1>2

\* A statement before others
LEMMA Prefixed ==
  ASSUME NEW S, NEW first \in S, NEW e \in Seq(S), NEW n \in Nat, Len(e) = n
  PROVE  /\ Len(<<first>> \o e) = n + 1 /\ (<<first>> \o e)[1] = first
         /\ \A i \in 1..n : (<<first>> \o e)[i + 1] = e[i]
OBVIOUS

\* What putFetcherPolicy leaves: the rows without the entries of the policy,
\* and with its own.
LEMMA PolicyRows ==
  ASSUME Sound, NEW first, NEW p, NEW order \in Order, Batch(db, <<first>> \o Entries(p, order)).ok
  PROVE  /\ Batch(db, <<first>> \o Entries(p, order)).rows
              = After(db, first) \cup EntriesOf(p, order, made["fetcher_policy_entries"])
         /\ Constraints(Batch(db, <<first>> \o Entries(p, order)).rows)
<1> DEFINE n == Len(order)
           k == made["fetcher_policy_entries"]
           B == After(db, first)
           row(i) == Row(<<"fetcher_policy_entries", k + i>>, {p, Fetcher(order[i])}, Place(i))
           sts == <<first>> \o Entries(p, order)
<1>1. n \in 1..3 /\ n \in Nat /\ n + 1 \in Nat
  BY OrderAssumption
<1>2. /\ Len(sts) = n + 1 /\ sts[1] = first
      /\ \A i \in 1..n : sts[i + 1] = Insert(row(i))
  <2>1. Entries(p, order) = [i \in 1..n |-> Insert(row(i))]
    BY DEF Entries
  <2> DEFINE e == Entries(p, order)
             S == {first} \cup {Insert(row(i)) : i \in 1..n}
  <2> HIDE DEF row
  <2>2. e \in Seq(S) /\ Len(e) = n /\ \A i \in 1..n : e[i] = Insert(row(i))
    <3>1. \A i \in 1..n : Insert(row(i)) \in S
      OBVIOUS
    <3> HIDE DEF S
    <3> QED
      BY <1>1, <2>1, <3>1
  <2>3. first \in S
    OBVIOUS
  <2> HIDE DEF S, e
  <2>4. /\ Len(<<first>> \o e) = n + 1 /\ (<<first>> \o e)[1] = first
        /\ \A i \in 1..n : (<<first>> \o e)[i + 1] = e[i]
    BY <1>1, <2>2, <2>3, Prefixed
  <2> QED
    BY <2>2, <2>4 DEF e
<1> HIDE DEF sts, row
<1>10. Len(sts) \in Nat
  BY <1>1, <1>2
<1>3. PICK rows :
           /\ rows[0] = db
           /\ \A i \in 1..Len(sts) : rows[i] = After(rows[i - 1], sts[i])
           /\ Batch(db, sts).ok <=> \A i \in 1..Len(sts) : Constraints(rows[i])
           /\ Batch(db, sts).ok => Batch(db, sts).rows = rows[Len(sts)]
           /\ ~Batch(db, sts).ok => Batch(db, sts).rows = db
  BY <1>10, BatchRows, Zenon
<1>4. rows[1] = B
  BY <1>1, <1>2, <1>3
<1>5. \A i \in 1..n : rows[i + 1] = rows[i] \cup {row(i)}
  <2> SUFFICES ASSUME NEW i \in 1..n  PROVE rows[i + 1] = rows[i] \cup {row(i)}
    OBVIOUS
  <2>1. i + 1 \in 1..n + 1 /\ (i + 1) - 1 = i
    BY <1>1
  <2>2. rows[i + 1] = After(rows[i], sts[i + 1]) /\ sts[i + 1] = Insert(row(i))
    BY <2>1, <1>3, <1>2
  <2> QED
    BY <2>2, AfterInsert
<1> HIDE DEF B
<1>6. rows[n + 1] = B \cup {row(i) : i \in 1..n}
  <2>1. CASE n = 1
    BY <2>1, <1>4, <1>5
  <2>2. CASE n = 2
    <3>1. rows[2] = B \cup {row(1)} /\ rows[3] = rows[2] \cup {row(2)}
      BY <2>2, <1>4, <1>5
    <3> QED
      BY <2>2, <3>1
  <2>3. CASE n = 3
    <3>1. rows[2] = B \cup {row(1)} /\ rows[3] = rows[2] \cup {row(2)} /\ rows[4] = rows[3] \cup {row(3)}
      BY <2>3, <1>4, <1>5
    <3> QED
      BY <2>3, <3>1
  <2> QED
    BY <1>1, <2>1, <2>2, <2>3
<1>7. Batch(db, sts).rows = rows[n + 1] /\ Constraints(rows[n + 1])
  <2>1. Len(sts) \in 1..Len(sts)
    BY <1>1, <1>2
  <2>2. Batch(db, sts).rows = rows[Len(sts)] /\ Constraints(rows[Len(sts)])
    BY <2>1, <1>3, Zenon DEF sts
  <2> QED
    BY <2>2, <1>2
<1>8. {row(i) : i \in 1..n} = EntriesOf(p, order, k)
  BY DEF row, EntriesOf
<1> QED
  BY <1>6, <1>7, <1>8 DEF B, sts

\* The identifiers it takes
LEMMA PolicyTaken ==
  ASSUME Sound, NEW first, NEW p, NEW order \in Order,
         NEW new \in {0, 1}, new = 1 => first.do = "insert" /\ first.table = "fetcher_policies",
         new = 0 => first.do # "insert",
         NEW g, g = Given(<<first>> \o Entries(p, order))
  PROVE  /\ g \in [Tables -> Nat]
         /\ g["fetcher_policy_entries"] = made["fetcher_policy_entries"] + Len(order)
         /\ g["fetcher_policies"] = made["fetcher_policies"] + new
         /\ \A t \in Tables \ {"fetcher_policies", "fetcher_policy_entries"} : g[t] = made[t]
<1> DEFINE n == Len(order)
           sts == <<first>> \o Entries(p, order)
           S(t) == {i \in 1..Len(sts) : sts[i].do = "insert" /\ sts[i].table = t}
<1>1. n \in Nat /\ n \in 1..3
  BY OrderAssumption
<1>2. /\ Len(sts) = n + 1 /\ sts[1] = first
      /\ \A i \in 1..n : sts[i + 1].do = "insert" /\ sts[i + 1].table = "fetcher_policy_entries"
  <2> DEFINE st(i) == Insert(Row(<<"fetcher_policy_entries", made["fetcher_policy_entries"] + i>>,
                                 {p, Fetcher(order[i])}, Place(i)))
             e == Entries(p, order)
             T == {first} \cup {st(i) : i \in 1..n}
  <2>1. \A i \in 1..n : st(i).do = "insert" /\ st(i).table = "fetcher_policy_entries"
    BY DEF Insert, Row
  <2>2. e = [i \in 1..n |-> st(i)]
    BY DEF Entries
  <2>3. first \in T /\ \A i \in 1..n : st(i) \in T
    OBVIOUS
  <2> HIDE DEF st, e, T
  <2>4. e \in Seq(T) /\ Len(e) = n /\ \A i \in 1..n : e[i] = st(i)
    BY <1>1, <2>2, <2>3
  <2>5. /\ Len(<<first>> \o e) = n + 1 /\ (<<first>> \o e)[1] = first
        /\ \A i \in 1..n : (<<first>> \o e)[i + 1] = e[i]
    BY <1>1, <2>3, <2>4, Prefixed
  <2> QED
    BY <2>1, <2>4, <2>5 DEF e
<1> HIDE DEF sts
<1>3. \A j \in 1..n + 1 :
         j = 1 \/ (sts[j].do = "insert" /\ sts[j].table = "fetcher_policy_entries")
  <2> SUFFICES ASSUME NEW j \in 1..n + 1, j # 1
               PROVE  sts[j].do = "insert" /\ sts[j].table = "fetcher_policy_entries"
    OBVIOUS
  <2> DEFINE i == j - 1
  <2>1. i \in 1..n /\ i + 1 = j
    BY <1>1
  <2> HIDE DEF i
  <2>2. sts[i + 1].do = "insert" /\ sts[i + 1].table = "fetcher_policy_entries"
    BY <1>2, <2>1
  <2> QED
    BY <2>1, <2>2
<1>4. S("fetcher_policy_entries") = 2..n + 1
  <2>1. sts[1].do = "insert" => sts[1].table # "fetcher_policy_entries"
    BY <1>2
  <2>2. \A j \in 1..n + 1 : j \in S("fetcher_policy_entries") <=> j # 1
    BY <1>2, <1>3, <2>1
  <2> QED
    BY <1>1, <1>2, <2>2
<1>5. S("fetcher_policies") = IF new = 1 THEN {1} ELSE {}
  <2>1. \A j \in 1..n + 1 : j \in S("fetcher_policies") <=> j = 1 /\ new = 1
    BY <1>2, <1>3
  <2>2. 1 \in 1..n + 1
    BY <1>1
  <2> QED
    BY <1>2, <2>1, <2>2
<1>6. \A t : t # "fetcher_policies" /\ t # "fetcher_policy_entries" => S(t) = {}
  BY <1>2, <1>3
<1>7. /\ Cardinality(2..n + 1) = n /\ Cardinality({}) = 0 /\ Cardinality({1}) = 1
  <2>1. Cardinality(2..n + 1) = IF 2 > n + 1 THEN 0 ELSE n + 1 - 2 + 1
    BY <1>1, FS_Interval
  <2>2. (n + 1) - 2 + 1 = n /\ ~(2 > n + 1)
    BY <1>1
  <2>3. Cardinality(2..n + 1) = n
    BY <2>1, <2>2
  <2>4. Cardinality({}) = 0 /\ Cardinality({1}) = 1
    BY FS_EmptySet, FS_Singleton
  <2> QED
    BY <2>3, <2>4
<1>8. g = [t \in Tables |-> made[t] + Cardinality(S(t))]
  BY DEF Given, Taken, sts
<1> HIDE DEF S
<1>9. made \in [Tables -> Nat] /\ {"fetcher_policies", "fetcher_policy_entries"} \subseteq Tables
  BY DEF Sound, Tables
<1>10. /\ \A t \in Tables \ {"fetcher_policies", "fetcher_policy_entries"} : Cardinality(S(t)) = 0
       /\ Cardinality(S("fetcher_policy_entries")) = n /\ Cardinality(S("fetcher_policies")) = new
  BY <1>4, <1>5, <1>6, <1>7
<1>11. \A t \in Tables : Cardinality(S(t)) \in Nat
  BY <1>1, <1>10
<1> QED
  BY <1>1, <1>8, <1>9, <1>10, <1>11

\* putFetcherPolicy
LEMMA PolicyStored ==
  ASSUME Sound, Whole(db), NEW q, q.op = "policy.put", q.id[1] = "sites", q.arg \in Order,
         \A i \in q.seen : i[1] = "fetcher_policies",
         Batch(db, PutFetcherPolicy(q.id, q.seen, q.arg)).ok
  PROVE  Effect(q, Batch(db, PutFetcherPolicy(q.id, q.seen, q.arg)).rows,
                Given(PutFetcherPolicy(q.id, q.seen, q.arg)))
<1> DEFINE s == q.id
           order == q.arg
           n == Len(order)
           k == made["fetcher_policy_entries"]
           new == IF q.seen = {} THEN 1 ELSE 0
           p == IF q.seen = {} THEN Fresh("fetcher_policies") ELSE CHOOSE x \in q.seen : TRUE
           policy == Row(Fresh("fetcher_policies"), {s}, "")
           first == IF q.seen = {} THEN Insert(policy)
                    ELSE Delete("fetcher_policy_entries", "refs", p)
           B == After(db, first)
           N == EntriesOf(p, order, k)
           sts == <<first>> \o Entries(p, order)
           E == B \cup N
           g == Given(sts)
<1>1. PutFetcherPolicy(s, q.seen, order) = sts
  BY DEF PutFetcherPolicy
<1>2. p[1] = "fetcher_policies"
  BY DEF Fresh
<1>3. n \in 1..3 /\ n \in Nat
  BY OrderAssumption
<1>4. /\ new \in {0, 1} /\ (new = 1 => first.do = "insert" /\ first.table = "fetcher_policies")
      /\ new = 0 => first.do # "insert"
  BY DEF Insert, Delete, policy, Row, Fresh
<1>5. /\ q.seen = {} => B = db \cup {policy} /\ p = policy.id /\ policy.refs = {s}
                        /\ policy = Row(policy.id, policy.refs, policy.v)
                        /\ policy.id = <<"fetcher_policies", made["fetcher_policies"] + 1>>
      /\ q.seen # {} => B = WithoutReference(db, "fetcher_policy_entries", p)
  <2>1. CASE q.seen = {}
    BY <2>1, AfterInsert DEF Row, Fresh
  <2>2. CASE q.seen # {}
    <3>1. InTables(db)
      BY TablesOfRows
    <3>2. first = Delete("fetcher_policy_entries", "refs", p)
      BY <2>2
    <3> HIDE DEF p, first
    <3> QED
      BY <2>2, <3>1, <3>2, AfterDelete
  <2> QED
    BY <2>1, <2>2
<1> HIDE DEF p, first, new, policy
<1>6. Batch(db, sts).rows = E /\ Constraints(E)
  <2>1. Batch(db, <<first>> \o Entries(p, order)).ok
    BY <1>1, Zenon
  <2> HIDE DEF B, sts, E
  <2>2. /\ Batch(db, <<first>> \o Entries(p, order)).rows = After(db, first) \cup EntriesOf(p, order, k)
        /\ Constraints(Batch(db, <<first>> \o Entries(p, order)).rows)
    BY <2>1, PolicyRows
  <2> QED
    BY <2>2 DEF B, sts, E
<1>7. /\ g \in [Tables -> Nat] /\ g["fetcher_policy_entries"] = k + n
      /\ g["fetcher_policies"] = made["fetcher_policies"] + new
      /\ \A t \in Tables \ {"fetcher_policies", "fetcher_policy_entries"} : g[t] = made[t]
  BY <1>4, PolicyTaken
<1>8. made \in [Tables -> Nat] /\ {"fetcher_policies", "fetcher_policy_entries"} \subseteq Tables \ {"fetchers"}
  BY DEF Sound, Tables
<1> HIDE DEF B, g, sts
<1>9. \A t \in Tables : made[t] <= g[t]
  BY <1>3, <1>4, <1>7, <1>8
<1>10. \A i : Known(i, made) => Known(i, g)
  BY <1>7, <1>8, <1>9 DEF Known
\* The new rows
<1>11. \A r \in N : \E i \in 1..n :
         /\ r.id = <<"fetcher_policy_entries", k + i>> /\ r.refs = {p, Fetcher(order[i])}
         /\ r = Row(<<"fetcher_policy_entries", k + i>>, {p, Fetcher(order[i])}, Place(i))
         /\ r = Row(r.id, r.refs, r.v)
  BY DEF EntriesOf, Row
<1>12. \A r \in N : /\ r.id[1] = "fetcher_policy_entries" /\ r.id \notin Ids(db)
                    /\ ~Known(r.id, made) /\ Known(r.id, g) /\ Shape(r)
                    /\ \A i \in r.refs : i = p \/ i[1] = "fetchers"
  <2> SUFFICES ASSUME NEW r \in N
               PROVE  /\ r.id[1] = "fetcher_policy_entries" /\ r.id \notin Ids(db)
                      /\ ~Known(r.id, made) /\ Known(r.id, g) /\ Shape(r)
                      /\ \A i \in r.refs : i = p \/ i[1] = "fetchers"
    OBVIOUS
  <2>1. PICK i \in 1..n :
         /\ r.id = <<"fetcher_policy_entries", k + i>> /\ r.refs = {p, Fetcher(order[i])}
         /\ r = Row(r.id, r.refs, r.v)
    BY <1>11
  <2>2. k \in Nat /\ k + i \in Nat /\ k + i > k /\ k + i <= k + n
    BY <1>3, <1>8
  <2>3. r.id \notin Ids(db) /\ ~Known(r.id, made) /\ Known(r.id, g)
    BY <1>7, <1>8, <2>1, <2>2, FreshIsNew
  <2>4. Fetcher(order[i])[1] = "fetchers"
    BY DEF Fetcher
  <2>5. Shape(r)
    BY <1>2, <1>8, <2>1, <2>4 DEF Shape, Edges, Single
  <2> QED
    BY <2>1, <2>3, <2>4, <2>5
<1>13. q.seen = {} => /\ p \notin Ids(db) /\ ~Known(p, made) /\ Known(p, g)
                      /\ \A r \in db : p \notin r.refs
                      /\ Shape(policy)
  <2> SUFFICES ASSUME q.seen = {}
               PROVE  /\ p \notin Ids(db) /\ ~Known(p, made) /\ Known(p, g)
                      /\ \A r \in db : p \notin r.refs
                      /\ Shape(policy)
    OBVIOUS
  <2>1. new = 1
    BY DEF new
  <2>2. p = <<"fetcher_policies", made["fetcher_policies"] + 1>>
    BY <1>5
  <2>3. /\ made["fetcher_policies"] + 1 \in Nat
        /\ made["fetcher_policies"] + 1 > made["fetcher_policies"]
        /\ made["fetcher_policies"] + 1 <= g["fetcher_policies"]
    BY <1>7, <1>8, <2>1
  <2>4. Shape(policy)
    <3>1. policy.id[1] = "fetcher_policies" /\ policy.refs = {s} /\ s[1] = "sites"
      BY <1>5
    <3>2. policy = Row(policy.id, policy.refs, policy.v) /\ "fetcher_policies" \in Tables
      BY <1>5, <1>8
    <3> QED
      BY <3>1, <3>2 DEF Shape, Edges
  <2>5. /\ <<"fetcher_policies", made["fetcher_policies"] + 1>> \notin Ids(db)
        /\ ~Known(<<"fetcher_policies", made["fetcher_policies"] + 1>>, made)
        /\ Known(<<"fetcher_policies", made["fetcher_policies"] + 1>>, g)
        /\ \A r \in db : <<"fetcher_policies", made["fetcher_policies"] + 1>> \notin r.refs
    <3> DEFINE t == "fetcher_policies"
    <3>1. t \in Tables \ {"fetchers"} /\ g[t] \in Nat /\ g[t] > made[t]
      BY <1>7, <1>8, <2>1
    <3> QED
      BY <2>3, <3>1, FreshIsNew
  <2> QED
    BY <2>2, <2>4, <2>5
<1> HIDE DEF N
\* The rows there were before
<1>14. /\ \A r \in B : r \in db \/ (q.seen = {} /\ r = policy)
       /\ \A r \in db : r \in B \/ (r.id[1] = "fetcher_policy_entries" /\ p \in r.refs)
       /\ \A r \in B : r.id[1] = "fetcher_policy_entries" => p \notin r.refs
       /\ q.seen = {} => db \subseteq B /\ policy \in B
  <2>1. CASE q.seen = {}
    BY <1>5, <1>13, <2>1
  <2>2. CASE q.seen # {}
    BY <1>5, <2>2 DEF WithoutReference
  <2> QED
    BY <2>1, <2>2
<1>15. \A r \in E : r.id[1] \notin {"fetcher_policies", "fetcher_policy_entries"} <=>
                    r \in db /\ r.id[1] \notin {"fetcher_policies", "fetcher_policy_entries"}
  BY <1>2, <1>5, <1>12, <1>14
<1>16. \A r \in E : r \in db \/ r \in N \/ (q.seen = {} /\ r = policy)
  BY <1>14
<1>17. Schema(E, g)
  <2>1. \A r \in db : Shape(r) /\ Known(r.id, g)
    BY <1>10 DEF Sound, Schema
  <2>2. q.seen = {} => Shape(policy) /\ Known(policy.id, g)
    BY <1>5, <1>13
  <2> QED
    BY <1>12, <1>16, <2>1, <2>2 DEF Schema
<1>18. Distinct(E)
  <2> SUFFICES ASSUME NEW r \in E, NEW x \in E, r.id = x.id  PROVE r = x
    BY DEF Distinct
  <2>1. CASE r \in db /\ x \in db
    BY <2>1 DEF Sound, Distinct
  <2>2. CASE r \in N /\ x \in N
    <3>1. PICK i \in 1..n :
            /\ r.id = <<"fetcher_policy_entries", k + i>>
            /\ r = Row(<<"fetcher_policy_entries", k + i>>, {p, Fetcher(order[i])}, Place(i))
      BY <1>11, <2>2
    <3>2. PICK j \in 1..n :
            /\ x.id = <<"fetcher_policy_entries", k + j>>
            /\ x = Row(<<"fetcher_policy_entries", k + j>>, {p, Fetcher(order[j])}, Place(j))
      BY <1>11, <2>2
    <3> DEFINE a == k + i
               b == k + j
    <3>5. <<"fetcher_policy_entries", a>> = <<"fetcher_policy_entries", b>>
      BY <3>1, <3>2
    <3> HIDE DEF a, b
    <3>6. a = b
      BY <3>5
    <3>3. k + i = k + j
      BY <3>6 DEF a, b
    <3>4. i = j
      BY <3>3, <1>3, <1>8
    <3> QED
      BY <3>1, <3>2, <3>4
  <2>3. CASE q.seen = {} /\ r = policy /\ x = policy
    BY <2>3
  <2>4. \A y \in N : y.id \notin Ids(db) /\ y.id[1] = "fetcher_policy_entries"
    BY <1>12
  <2>5. q.seen = {} => policy.id \notin Ids(db) /\ policy.id[1] = "fetcher_policies"
    BY <1>5, <1>13
  <2>6. \A y \in db : y.id \in Ids(db)
    BY DEF Ids
  <2>7. "fetcher_policies" # "fetcher_policy_entries"
    OBVIOUS
  <2> QED
    BY <1>16, <2>1, <2>2, <2>3, <2>4, <2>5, <2>6, <2>7
<1>19. \A i \in Ids(E) : i \in Ids(db) \/ ~Known(i, made)
  BY <1>5, <1>12, <1>13, <1>16 DEF Ids
<1>20. \A i : Known(i, g) /\ ~Known(i, made) => i[1] \notin Main
  BY <1>7, <1>8 DEF Known, Main
<1>21. \A i \in Ids(db) : i \notin Ids(E) => i[1] = "fetcher_policy_entries"
  BY <1>14 DEF Ids
<1>22. Archived(E) = Archived(db)
  <2>1. \A r : r.id[1] = "destinations" => (r \in E <=> r \in db)
    BY <1>14, <1>15
  <2> QED
    BY <2>1 DEF Archived, Table
<1>23. \A x : Referring(db, "fetcher_policies", x) \subseteq Referring(E, "fetcher_policies", x)
  BY <1>14 DEF Referring, Table
<1>24. Whole(E)
  <2> SUFFICES ASSUME NEW x \in E, x.id[1] = "fetcher_policies"
               PROVE  \E o \in Order, m \in Nat :
                        Referring(E, "fetcher_policy_entries", x.id) = EntriesOf(x.id, o, m)
    BY DEF Whole, Table
  <2>1. CASE x.id = p
    <3>1. \A r \in N : r.id[1] = "fetcher_policy_entries" /\ p \in r.refs
      BY <1>11, <1>12
    <3>2. Referring(E, "fetcher_policy_entries", p) = N
      BY <1>14, <3>1 DEF Referring, Table
    <3> QED
      BY <1>8, <2>1, <3>2 DEF N
  <2>2. CASE x.id # p
    <3>1. x \in db
      BY <1>5, <1>12, <1>16, <2>2
    <3>2. \A r \in N : x.id \notin r.refs
      BY <1>12, <2>2
    <3>3. \A r \in db : r.id[1] = "fetcher_policy_entries" /\ x.id \in r.refs => p \notin r.refs
      BY <1>2, <2>2 DEF Sound, Schema, Shape
    <3>4. q.seen = {} => policy.id[1] = "fetcher_policies"
      BY <1>5
    <3>5. \A r : r.id[1] = "fetcher_policy_entries" /\ x.id \in r.refs => (r \in E <=> r \in db)
      BY <1>14, <1>16, <3>2, <3>3, <3>4
    <3>6. Referring(E, "fetcher_policy_entries", x.id) = Referring(db, "fetcher_policy_entries", x.id)
      BY <3>5 DEF Referring, Table
    <3> QED
      BY <3>1, <3>6 DEF Sound, Whole, Table
  <2> QED
    BY <2>1, <2>2
<1>25. q.op \notin Deletions
  BY DEF Deletions
<1>26. \A r \in E : r.id[1] \in CheckTables \cup {"deliveries"} => r \in db
  BY <1>15 DEF CheckTables
<1>27. \A i \in Ids(db) : i \notin Ids(E) => i[1] \notin Main
  BY <1>21 DEF Main
<1>28. \A x : Referring(db, "fetcher_policies", x) # {} => Referring(E, "fetcher_policies", x) # {}
  BY <1>23
<1>29. \A d \in Table(db, "deliveries") : d.id \in Ids(E)
  BY <1>14 DEF Table, Ids
<1> HIDE DEF E
<1>30. Effect(q, E, g)
  BY <1>6, <1>7, <1>9, <1>17, <1>18, <1>19, <1>20, <1>22, <1>24, <1>25, <1>26, <1>27, <1>28, <1>29
  DEF Effect
<1> QED
  BY <1>1, <1>6, <1>30 DEF g

-----------------------------------------------------------------------------
(* The transaction of every request *)

\* A transaction of an operation whose rows are left out changes nothing.
LEMMA EmptyBatch ==
  ASSUME NEW D
  PROVE  Batch(D, <<>>).rows = D
<1>1. Len(<<>>) = 0 /\ 0 \in Nat
  OBVIOUS
<1>2. PICK rows :
           /\ rows[0] = D
           /\ \A i \in 1..0 : rows[i] = After(rows[i - 1], <<>>[i])
           /\ Batch(D, <<>>).ok <=> \A i \in 1..0 : Constraints(rows[i])
           /\ Batch(D, <<>>).ok => Batch(D, <<>>).rows = rows[0]
           /\ ~Batch(D, <<>>).ok => Batch(D, <<>>).rows = D
  BY <1>1, BatchIsWhole, Zenon
<1> QED
  BY <1>2, Zenon

\* What the subject of a request is
LEMMA Subjects ==
  ASSUME NEW q, Request(q, made), q.pc = "write"
  PROVE  /\ q.op \in {"site.delete", "source.create", "policy.put", "robots.put", "robots.delete"}
              => q.id[1] = "sites"
         /\ q.op \in {"source.delete", "monitor.create"} => q.id[1] = "sources"
         /\ q.op = "monitor.delete" => q.id[1] = "monitors"
         /\ q.op \in {"destination.delete", "destination.archive", "subscription.create"}
              => q.id[1] = "destinations"
         /\ q.op = "subscription.delete" => q.id[1] = "subscriptions"
<1>1. q.op \in Creations \/ q.id[1] = SubjectTable(q.op)
  BY DEF Request
<1> QED
  BY <1>1 DEF Creations, SubjectTable

LEMMA TransactionEffect ==
  ASSUME Sound, Whole(db), NEW q, Request(q, made), q.pc = "write",
         Batch(db, Transaction(q)).ok
  PROVE  Effect(q, Batch(db, Transaction(q)).rows, Given(Transaction(q)))
<1>1. CASE q.op \in {"site.create", "source.create", "monitor.create", "destination.create",
                     "subscription.create"}
  <2> DEFINE Fits(t, refs, v) ==
               /\ t \in {"sites", "sources", "monitors", "destinations", "subscriptions", "robots_policies"}
               /\ \A i \in refs : <<t, i[1]>> \in Edges
               /\ t = "destinations" => v # "archived"
               /\ Transaction(q) = <<Insert(Row(Fresh(t), refs, v))>>
  <2>4. \E t, refs, v : Fits(t, refs, v)
    <3>1. CASE q.op = "site.create"
      <4>1. Fits("sites", {}, "")
        BY <3>1 DEF Transaction, NewSite
      <4> HIDE DEF Fits
      <4> QED
        BY <4>1
    <3>2. CASE q.op = "source.create"
      <4>1. Fits("sources", {q.id}, "")
        BY <3>2, Subjects DEF Transaction, NewSource, Edges
      <4> HIDE DEF Fits
      <4> QED
        BY <4>1
    <3>3. CASE q.op = "monitor.create"
      <4>1. Fits("monitors", {q.id} \cup q.seen, "")
        BY <3>3, Subjects DEF Transaction, NewMonitor, Edges, Request
      <4> HIDE DEF Fits
      <4> QED
        BY <4>1
    <3>4. CASE q.op = "destination.create"
      <4>1. Fits("destinations", {}, "live")
        BY <3>4 DEF Transaction, NewDestination
      <4> HIDE DEF Fits
      <4> QED
        BY <4>1
    <3>5. CASE q.op = "subscription.create"
      <4> DEFINE refs == {q.id} \cup {q.arg[i] : i \in 1..Len(q.arg)}
      <4>2. q.id[1] = "destinations" /\ \A i \in 1..Len(q.arg) : q.arg[i][1] \in {"sites", "monitors"}
        BY <3>5, Subjects DEF Request
      <4>3. \A i \in refs : i[1] \in {"destinations", "sites", "monitors"}
        BY <4>2
      <4>4. Transaction(q) = <<Insert(Row(Fresh("subscriptions"), refs, ""))>>
        BY <3>5 DEF Transaction, NewSubscription
      <4> HIDE DEF refs
      <4>1. Fits("subscriptions", refs, "")
        BY <4>3, <4>4 DEF Edges
      <4> HIDE DEF Fits
      <4> QED
        BY <4>1
    <3> QED
      BY <1>1, <3>1, <3>2, <3>3, <3>4, <3>5
  <2>5. PICK t, refs, v : Fits(t, refs, v)
    BY <2>4
  <2>1. Batch(db, <<Insert(Row(Fresh(t), refs, v))>>).ok
    BY <2>5, Zenon
  <2>2. q.op \notin Deletions
    BY <1>1 DEF Deletions
  <2>3. Effect(q, Batch(db, <<Insert(Row(Fresh(t), refs, v))>>).rows,
               Given(<<Insert(Row(Fresh(t), refs, v))>>))
    BY <2>1, <2>2, <2>5, InsertRequest
  <2> QED
    BY <2>3, <2>5
<1>2. CASE q.op = "site.delete"
  <2>1. Transaction(q) = DeleteSiteCascade(q.id) /\ q.id[1] = "sites"
    BY <1>2, Subjects DEF Transaction
  <2>2. Batch(db, DeleteSiteCascade(q.id)).ok
    BY <2>1, Zenon
  <2>3. Effect(q, Batch(db, DeleteSiteCascade(q.id)).rows, made)
    BY <1>2, <2>1, <2>2, SiteDeletion
  <2>4. Given(DeleteSiteCascade(q.id)) = made
    <3>1. \A i \in 1..Len(DeleteSiteCascade(q.id)) : DeleteSiteCascade(q.id)[i].do # "insert"
      BY DEF DeleteSiteCascade, Delete
    <3> QED
      BY <3>1, NoneTaken DEF Given
  <2> QED
    BY <2>1, <2>3, <2>4
<1>3. CASE q.op \in {"source.delete", "subscription.delete"}
  <2> DEFINE t == q.id[1]
             sts == <<Delete(t, "id", q.id)>>
  <2>1. /\ \/ t = "sources" /\ q.op = "source.delete"
           \/ t = "subscriptions" /\ q.op \notin Deletions
        /\ Transaction(q) = sts
    BY <1>3, Subjects DEF Transaction, Deletions
  <2>2. Batch(db, sts).ok
    BY <2>1, Zenon
  <2>3. Effect(q, Batch(db, sts).rows, made)
    BY <2>1, <2>2, RowDeletion
  <2>4. Given(sts) = made
    <3>1. \A i \in 1..Len(sts) : sts[i].do # "insert"
      BY DEF Delete
    <3> QED
      BY <3>1, NoneTaken DEF Given
  <2> QED
    BY <2>1, <2>3, <2>4
<1>4. CASE q.op = "monitor.delete"
  <2>1. Transaction(q) = DeleteMonitorCascade(q.id) /\ q.id[1] = "monitors"
    BY <1>4, Subjects DEF Transaction
  <2>2. Effect(q, Batch(db, DeleteMonitorCascade(q.id)).rows, made)
    BY <1>4, <2>1, MonitorDeletion
  <2>3. Given(DeleteMonitorCascade(q.id)) = made
    <3>1. \A i \in 1..Len(DeleteMonitorCascade(q.id)) : DeleteMonitorCascade(q.id)[i].do # "insert"
      BY DEF DeleteMonitorCascade, Delete, Unlink
    <3> QED
      BY <3>1, NoneTaken DEF Given
  <2> QED
    BY <2>1, <2>2, <2>3
<1>5. CASE q.op = "destination.delete"
  <2>1. Transaction(q) = DeleteDestinationById(q.id)
    BY <1>5 DEF Transaction
  <2>2. Batch(db, DeleteDestinationById(q.id)).ok
    BY <2>1, Zenon
  <2>3. Effect(q, Batch(db, DeleteDestinationById(q.id)).rows, made)
    BY <1>5, <2>2, DestinationDeletion
  <2>4. Given(DeleteDestinationById(q.id)) = made
    <3>1. \A i \in 1..Len(DeleteDestinationById(q.id)) : DeleteDestinationById(q.id)[i].do # "insert"
      BY DEF DeleteDestinationById, Delete
    <3> QED
      BY <3>1, NoneTaken DEF Given
  <2> QED
    BY <2>1, <2>3, <2>4
<1>6. CASE q.op = "destination.archive"
  <2>1. Transaction(q) = ArchiveDestination(q.id) /\ q.id[1] = "destinations"
    BY <1>6, Subjects DEF Transaction
  <2>2. Effect(q, Batch(db, ArchiveDestination(q.id)).rows, made)
    BY <1>6, <2>1, DestinationArchive
  <2>3. Given(ArchiveDestination(q.id)) = made
    <3>1. \A i \in 1..Len(ArchiveDestination(q.id)) : ArchiveDestination(q.id)[i].do # "insert"
      BY DEF ArchiveDestination, Delete, Set
    <3> QED
      BY <3>1, NoneTaken DEF Given
  <2> QED
    BY <2>1, <2>2, <2>3
<1>7. CASE q.op = "policy.put"
  <2>1. /\ Transaction(q) = PutFetcherPolicy(q.id, q.seen, q.arg) /\ q.id[1] = "sites"
        /\ q.arg \in Order /\ \A i \in q.seen : i[1] = "fetcher_policies"
    BY <1>7, Subjects DEF Transaction, Request
  <2>2. Batch(db, PutFetcherPolicy(q.id, q.seen, q.arg)).ok
    BY <2>1, Zenon
  <2>3. Effect(q, Batch(db, PutFetcherPolicy(q.id, q.seen, q.arg)).rows,
               Given(PutFetcherPolicy(q.id, q.seen, q.arg)))
    BY <1>7, <2>1, <2>2, PolicyStored
  <2> QED
    BY <2>1, <2>3
<1>8. CASE q.op \in {"robots.put", "robots.delete"}
  <2> DEFINE mode == IF q.op = "robots.put" THEN q.arg[1] ELSE "enforce"
             sts == UpsertRobotsPolicy(q.id, mode)
  <2>1. Transaction(q) = sts /\ q.id[1] = "sites" /\ q.op \notin Deletions
    BY <1>8, Subjects DEF Transaction, RobotsOverride, RobotsRevert, Deletions
  <2> HIDE DEF mode
  <2>2. Batch(db, sts).ok
    BY <2>1, Zenon
  <2>3. Effect(q, Batch(db, sts).rows, Given(sts))
    BY <2>1, <2>2, RobotsPolicyStored
  <2> QED
    BY <2>1, <2>3
<1>9. CASE q.op \in {"site.rename", "source.update_config", "destination.update"}
  <2>1. Transaction(q) = <<>> /\ q.op \notin Deletions
    BY <1>9 DEF Transaction, Deletions
  <2>2. Batch(db, <<>>).rows = db
    BY EmptyBatch
  <2>3. Given(<<>>) = made
    BY NoneTaken DEF Given
  <2>4. Effect(q, db, made)
    BY <2>1, NothingWritten
  <2> QED
    BY <2>1, <2>2, <2>3, <2>4
<1> QED
  BY <1>1, <1>2, <1>3, <1>4, <1>5, <1>6, <1>7, <1>8, <1>9 DEF Request, Operations

LEMMA TransactionSucceeds ==
  ASSUME Sound, Whole(db), NEW q, Request(q, made), q.pc = "write",
         q.op \in {"monitor.delete", "destination.archive", "subscription.delete"}
  PROVE  Batch(db, Transaction(q)).ok
<1>1. CASE q.op = "monitor.delete"
  <2>1. Transaction(q) = DeleteMonitorCascade(q.id) /\ q.id[1] = "monitors"
    BY <1>1, Subjects DEF Transaction
  <2>2. Batch(db, DeleteMonitorCascade(q.id)).ok
    BY <1>1, <2>1, MonitorDeletion
  <2> QED
    BY <2>1, <2>2, Zenon
<1>2. CASE q.op = "destination.archive"
  <2>1. Transaction(q) = ArchiveDestination(q.id) /\ q.id[1] = "destinations"
    BY <1>2, Subjects DEF Transaction
  <2>2. Batch(db, ArchiveDestination(q.id)).ok
    BY <1>2, <2>1, DestinationArchive
  <2> QED
    BY <2>1, <2>2, Zenon
<1>3. CASE q.op = "subscription.delete"
  <2>1. Transaction(q) = <<Delete("subscriptions", "id", q.id)>>
    BY <1>3 DEF Transaction
  <2>2. Batch(db, <<Delete("subscriptions", "id", q.id)>>).ok
    BY SubscriptionDeletion
  <2> QED
    BY <2>1, <2>2, Zenon
<1> QED
  BY <1>1, <1>2, <1>3

-----------------------------------------------------------------------------
(* The invariant is kept by requests *)

LEMMA KnownGrows ==
  ASSUME NEW g \in [Tables -> Nat], NEW h \in [Tables -> Nat], \A t \in Tables : g[t] <= h[t],
         NEW i, Known(i, g)
  PROVE  Known(i, h)
BY DEF Known

LEMMA RequestKept ==
  ASSUME NEW g \in [Tables -> Nat], NEW h \in [Tables -> Nat], \A t \in Tables : g[t] <= h[t],
         NEW q, Request(q, g)
  PROVE  Request(q, h)
BY KnownGrows DEF Request

\* What holds of the rows a check has written holds of fewer of them.
LEMMA KinKept ==
  ASSUME NEW D, Kin(D), NEW E, \A r \in E : r.id[1] \in CheckTables => r \in D
  PROVE  Kin(E)
<1>1. \A t \in CheckTables : Table(E, t) \subseteq Table(D, t)
  BY DEF Table
<1> QED
  BY <1>1 DEF Kin, CheckTables

LEMMA RunningKept ==
  ASSUME NEW g \in [Tables -> Nat], NEW h \in [Tables -> Nat], \A t \in Tables : g[t] <= h[t],
         NEW D, Running(D, g), NEW E, \A r \in E : r.id[1] \in CheckTables => r \in D
  PROVE  Running(E, h)
<1> SUFFICES ASSUME run.pc # "idle"
             PROVE  /\ run.pc \in {"policy", "match", "deliver"} \cup CheckTables
                    /\ Known(run.mon, h) /\ run.mon[1] = "monitors"
                    /\ Known(run.site, h) /\ run.site[1] = "sites"
                    /\ DOMAIN run.rows = 1..Written(run.pc)
                    /\ run.rows \in Seq({run.rows[k] : k \in DOMAIN run.rows})
                    /\ \A k \in 1..Written(run.pc) :
                         /\ Known(run.rows[k], h) /\ run.rows[k][1] = WrittenTable(k)
                         /\ \A r \in E : r.id = run.rows[k] => Own(E, r, run.mon)
  BY DEF Running
<1>1. \A k \in 1..Written(run.pc) :
        /\ Known(run.rows[k], h) /\ run.rows[k][1] = WrittenTable(k)
        /\ \A r \in D : r.id = run.rows[k] => Own(D, r, run.mon)
  BY KnownGrows DEF Running
<1>2. \A k \in 1..Written(run.pc) : WrittenTable(k) \in CheckTables
  <2>1. Written(run.pc) \in 0..5
    BY DEF Written
  <2> QED
    BY <2>1 DEF WrittenTable, CheckTables
<1>3. ASSUME NEW k \in 1..Written(run.pc), NEW r \in E, r.id = run.rows[k]
      PROVE  Own(E, r, run.mon)
  <2>1. r \in D
    BY <1>1, <1>2, <1>3
  <2>2. Own(D, r, run.mon)
    BY <1>1, <1>3, <2>1
  <2>3. Table(E, "check_jobs") \subseteq Table(D, "check_jobs")
    BY DEF Table, CheckTables
  <2> QED
    BY <2>2, <2>3 DEF Own
<1> QED
  BY <1>1, <1>3, KnownGrows DEF Running

LEMMA ChangedRequest ==
  ASSUME NEW q, q = [op |-> q.op, id |-> q.id, arg |-> q.arg, pc |-> q.pc, seen |-> q.seen],
         NEW pc, NEW seen
  PROVE  /\ [q EXCEPT !.pc = pc] = [op |-> q.op, id |-> q.id, arg |-> q.arg, pc |-> pc, seen |-> q.seen]
         /\ [q EXCEPT !.pc = pc, !.seen = seen]
              = [op |-> q.op, id |-> q.id, arg |-> q.arg, pc |-> pc, seen |-> seen]
<1> DEFINE op == q.op
           id == q.id
           arg == q.arg
           p == q.pc
           s == q.seen
<1> HIDE DEF op, id, arg, p, s
<1>1. q = [op |-> op, id |-> id, arg |-> arg, pc |-> p, seen |-> s]
  BY DEF op, id, arg, p, s
<1>3. [q EXCEPT !.pc = pc] = [op |-> op, id |-> id, arg |-> arg, pc |-> pc, seen |-> s]
  BY <1>1
<1>4. [[op |-> op, id |-> id, arg |-> arg, pc |-> pc, seen |-> s] EXCEPT !.seen = seen]
        = [op |-> op, id |-> id, arg |-> arg, pc |-> pc, seen |-> seen]
  OBVIOUS
<1>2. /\ [q EXCEPT !.pc = pc] = [op |-> op, id |-> id, arg |-> arg, pc |-> pc, seen |-> s]
      /\ [q EXCEPT !.pc = pc, !.seen = seen]
              = [op |-> op, id |-> id, arg |-> arg, pc |-> pc, seen |-> seen]
  BY <1>3, <1>4, Zenon
<1> QED
  BY <1>2 DEF op, id, arg, s

\* A transaction that took effect, with the request over or due to record
LEMMA EffectKeeps ==
  ASSUME IInv, NEW c \in Client, req[c].pc = "write", Effect(req[c], db', made'),
         NEW next \in Recording,
         NEW q, q = (IF AuditDue(req[c], db') THEN [req[c] EXCEPT !.pc = next] ELSE NoRequest),
         req' = [req EXCEPT ![c] = q], UNCHANGED <<run, audit, died, broken>>,
         Request(q, made')
  PROVE  IInv'
<1> DEFINE x == req[c]
<1>1. /\ made \in [Tables -> Nat] /\ made' \in [Tables -> Nat] /\ \A t \in Tables : made[t] <= made'[t]
      /\ Sound
  BY DEF Effect, IInv, Sound
<1>2. Request(x, made) /\ DOMAIN req = Client /\ DOMAIN req' = Client
  BY DEF IInv, Sound
<1>3. Running(db', made')
  BY <1>1, RunningKept DEF Effect, Sound
<1>4. Running(db, made)'
  BY <1>3 DEF Running
<1>5. \A y \in Client : Request(req[y], made)'
  <2> SUFFICES ASSUME NEW y \in Client  PROVE Request(req'[y], made')
    BY DEF Request
  <2>1. CASE y = c
    BY <1>2, <2>1
  <2>2. CASE y # c
    <3>1. req'[y] = req[y] /\ Request(req[y], made)
      BY <1>2, <2>2 DEF IInv, Sound
    <3>2. Request(req[y], made')
      BY <1>1, <3>1, RequestKept
    <3> QED
      BY <3>1, <3>2
  <2> QED
    BY <2>1, <2>2
<1>6. Sound'
  <2>1. Kin(db')
    BY <1>1, KinKept DEF Effect, Sound
  <2> QED
    BY <1>1, <1>2, <1>4, <1>5, <2>1
    DEF Effect, Sound, Constraints, Distinct, Schema, Kin, Own, Known, Shape, Table, Ids, Referring, MonitorsOf
<1>7. Whole(db)'
  BY DEF Effect, Whole, Table, Referring, EntriesOf
<1>8. run.pc # "idle" => Known(run.site, made) /\ (run.site \in Ids(db') => run.site \in Ids(db))
  BY <1>1 DEF Sound, Running, Effect
<1>9. Governed(db)' /\ OrderRead'
  BY <1>8 DEF IInv, Governed, OrderRead, Effect, Referring, Table, Ids
<1>10. Kept(db, made)'
  <2>1. \A i \in run.archived : Known(i, made') /\ i[1] = "destinations"
    BY <1>1, KnownGrows DEF IInv, Kept
  <2>2. run.archived \cap Ids(db') \subseteq Archived(db')
    BY DEF IInv, Kept, Effect
  <2> QED
    BY <2>1, <2>2 DEF IInv, Kept, Known, Ids, Archived, Table
\* The requests due to record are those that were, and perhaps this one.
<1>11. /\ Recorded \subseteq Recorded' /\ Recorded' \subseteq Recorded \cup {<<x.op, x.id>>}
       /\ AuditDue(x, db') => <<x.op, x.id>> \in Recorded'
       /\ ~AuditDue(x, db') => Recorded' \subseteq Recorded
  <2>1. \A y \in Client \ {c} : req'[y] = req[y]
    BY <1>2
  <2>2. req'[c] = q
    BY <1>2
  <2>3. AuditDue(x, db') => q.pc \in Recording /\ q.op = x.op /\ q.id = x.id
    <3> SUFFICES ASSUME AuditDue(x, db')  PROVE q.pc \in Recording /\ q.op = x.op /\ q.id = x.id
      OBVIOUS
    <3>1. [x EXCEPT !.pc = next]
            = [op |-> x.op, id |-> x.id, arg |-> x.arg, pc |-> next, seen |-> x.seen]
      BY <1>2, ChangedRequest DEF Request
    <3>2. q = [op |-> x.op, id |-> x.id, arg |-> x.arg, pc |-> next, seen |-> x.seen]
      BY <3>1
    <3> QED
      BY <3>2
  <2>4. ~AuditDue(x, db') => q.pc \notin Recording
    BY DEF NoRequest, Recording
  <2>5. \A e : e \in Recorded <=>
          e \in audit \cup died \/ \E y \in Client : req[y].pc \in Recording /\ e = <<req[y].op, req[y].id>>
    BY DEF Recorded
  <2>6. \A e : e \in Recorded' <=>
          e \in audit \cup died \/ \E y \in Client : req'[y].pc \in Recording /\ e = <<req'[y].op, req'[y].id>>
    BY DEF Recorded
  <2>7. x.pc \notin Recording /\ x = req[c]
    BY DEF Recording
  <2>8. ASSUME NEW e \in Recorded  PROVE e \in Recorded'
    <3>1. CASE e \in audit \cup died
      BY <3>1, <2>6
    <3>2. CASE e \notin audit \cup died
      <4>1. PICK y \in Client : req[y].pc \in Recording /\ e = <<req[y].op, req[y].id>>
        BY <3>2, <2>5
      <4>2. req'[y] = req[y]
        BY <2>1, <2>7, <4>1
      <4> QED
        BY <2>6, <4>1, <4>2
    <3> QED
      BY <3>1, <3>2
  <2>9. ASSUME NEW e \in Recorded'
        PROVE  e \in Recorded \/ (AuditDue(x, db') /\ e = <<x.op, x.id>>)
    <3>1. CASE e \in audit \cup died
      BY <3>1, <2>5
    <3>2. CASE e \notin audit \cup died
      <4>1. PICK y \in Client : req'[y].pc \in Recording /\ e = <<req'[y].op, req'[y].id>>
        BY <3>2, <2>6
      <4>2. CASE y = c
        <5>1. AuditDue(x, db')
          BY <2>2, <2>4, <4>1, <4>2
        <5> QED
          BY <2>2, <2>3, <4>1, <4>2, <5>1
      <4>3. CASE y # c
        <5>1. req[y].pc \in Recording /\ e = <<req[y].op, req[y].id>>
          BY <2>1, <4>1, <4>3
        <5> QED
          BY <2>5, <5>1
      <4> QED
        BY <4>2, <4>3
    <3> QED
      BY <3>1, <3>2
  <2>10. AuditDue(x, db') => <<x.op, x.id>> \in Recorded'
    <3> SUFFICES ASSUME AuditDue(x, db')  PROVE <<x.op, x.id>> \in Recorded'
      OBVIOUS
    <3>1. req'[c].pc \in Recording /\ <<x.op, x.id>> = <<req'[c].op, req'[c].id>>
      BY <2>2, <2>3
    <3> QED
      BY <2>6, <3>1
  <2> QED
    BY <2>8, <2>9, <2>10
<1>12. Logged'
  <2>1. ASSUME NEW i, Known(i, made'), i[2] # 0, i \notin Ids(db'), i[1] \in Main
        PROVE  \E op \in Deletions : SubjectTable(op) = i[1] /\ <<op, i>> \in Recorded'
    <3>1. CASE Known(i, made) /\ i \notin Ids(db)
      BY <1>11, <2>1, <3>1 DEF IInv, Logged, Main
    <3>2. CASE Known(i, made) /\ i \in Ids(db)
      <4>1. i = x.id /\ x.op \in Deletions
        BY <2>1, <3>2 DEF Effect
      <4>2. AuditDue(x, db') /\ x.op \notin Creations
        BY <4>1 DEF AuditDue, Deletions, Creations
      <4>3. SubjectTable(x.op) = i[1]
        BY <1>2, <4>1, <4>2 DEF Request
      <4> QED
        BY <1>11, <4>1, <4>2, <4>3
    <3>3. CASE ~Known(i, made)
      BY <2>1, <3>3 DEF Effect
    <3> QED
      BY <3>1, <3>2, <3>3
  <2>2. ASSUME NEW op \in Deletions, NEW i, <<op, i>> \in Recorded'
        PROVE  Known(i, made') /\ i \notin Ids(db')
    <3>1. CASE <<op, i>> \in Recorded
      <4>1. Known(i, made) /\ i \notin Ids(db)
        BY <3>1 DEF IInv, Logged
      <4> QED
        BY <1>1, <4>1, KnownGrows DEF Effect
    <3>2. CASE <<op, i>> = <<x.op, x.id>>
      <4>1. op = x.op /\ i = x.id
        BY <3>2
      <4>2. Known(x.id, made)
        BY <1>2, <4>1 DEF Request, Deletions, Creations
      <4> QED
        BY <1>1, <4>1, <4>2, KnownGrows DEF Effect
    <3> QED
      BY <1>11, <2>2, <3>1, <3>2
  <2>3. ASSUME NEW i \in Archived(db')
        PROVE  <<"destination.archive", i>> \in Recorded'
    <3>1. CASE i \in Archived(db)
      BY <1>11, <3>1 DEF IInv, Logged
    <3>2. CASE x.op = "destination.archive" /\ i = x.id
      <4>1. i \in Ids(db')
        BY DEF Archived, Table, Ids
      <4>2. CASE x.seen = {}
        <5>1. AuditDue(x, db')
          BY <3>2, <4>1, <4>2 DEF AuditDue
        <5> QED
          BY <1>11, <3>2, <5>1
      <4>3. CASE x.seen # {}
        <5>1. Known(x.id, made)
          BY <1>2, <3>2 DEF Request, Creations
        <5>2. x.id \in Ids(db)
          BY <3>2, <4>1, <5>1 DEF Effect
        <5> QED
          BY <1>11, <3>2, <4>3, <5>2 DEF IInv, Logged
      <4> QED
        BY <4>2, <4>3
    <3> QED
      BY <3>1, <3>2 DEF Effect
  <2>4. ASSUME NEW y \in Client, req'[y].op = "destination.archive", req'[y].seen # {},
               req'[y].pc = "write", req'[y].id \in Ids(db')
        PROVE  <<"destination.archive", req'[y].id>> \in Recorded'
    <3>1. q.pc # "write"
      <4>1. [x EXCEPT !.pc = next]
              = [op |-> x.op, id |-> x.id, arg |-> x.arg, pc |-> next, seen |-> x.seen]
        BY <1>2, ChangedRequest DEF Request
      <4> QED
        BY <4>1 DEF NoRequest, Recording
    <3>2. y # c /\ req'[y] = req[y]
      BY <1>2, <2>4, <3>1
    <3>3. Request(req[y], made)
      BY DEF IInv, Sound
    <3>4. req[y].id \in Ids(db)
      BY <2>4, <3>2, <3>3 DEF Request, Creations, Effect
    <3> QED
      BY <1>11, <2>4, <3>2, <3>4 DEF IInv, Logged
  <2>5. /\ \A i : /\ Known(i, made') /\ i[2] # 0 /\ i \notin Ids(db')
                  /\ i[1] \in {"sites", "sources", "monitors"}
                  => \E op \in Deletions : SubjectTable(op) = i[1] /\ <<op, i>> \in Recorded'
        /\ \A op \in Deletions : \A i : <<op, i>> \in Recorded' => Known(i, made') /\ i \notin Ids(db')
        /\ \A i \in Archived(db') : <<"destination.archive", i>> \in Recorded'
        /\ \A y \in Client : /\ req'[y].op = "destination.archive" /\ req'[y].seen # {}
                             /\ req'[y].pc = "write" /\ req'[y].id \in Ids(db')
                             => <<"destination.archive", req'[y].id>> \in Recorded'
    BY <2>1, <2>2, <2>3, <2>4 DEF Main
  <2> QED
    BY <2>5 DEF Logged, Known, Ids, Archived, Table
<1>13. DeletionsSucceed'
  BY DEF IInv, DeletionsSucceed
<1> QED
  BY <1>6, <1>7, <1>9, <1>10, <1>12, <1>13 DEF IInv

\* The events the data calls for are recorded as before, and no other.
LogKept ==
  /\ Recorded' \subseteq Recorded
  /\ \A op \in Deletions : \A i : <<op, i>> \in Recorded => <<op, i>> \in Recorded'
  /\ \A i \in Ids(db) : <<"destination.archive", i>> \in Recorded
                        => <<"destination.archive", i>> \in Recorded'

\* A step of one request that writes no row
LEMMA RequestStep ==
  ASSUME IInv, NEW c \in Client, NEW q, req' = [req EXCEPT ![c] = q], Request(q, made),
         UNCHANGED <<db, made, run>>,
         LogKept,
         q.op = "destination.archive" /\ q.seen # {} /\ q.pc = "write"
           => <<"destination.archive", q.id>> \in Recorded,
         DeletionsSucceed'
  PROVE  IInv'
<1>1. DOMAIN req = Client /\ \A y \in Client : Request(req[y], made)
  BY DEF IInv, Sound
<1>2. DOMAIN req' = Client /\ req'[c] = q /\ \A y \in Client \ {c} : req'[y] = req[y]
  BY <1>1
<1>3. \A y \in Client : Request(req[y], made)'
  <2>1. \A y \in Client : Request(req'[y], made)
    BY <1>1, <1>2
  <2> QED
    BY <2>1 DEF Request, Known
<1>7. db' = db /\ made' = made /\ run' = run
  OBVIOUS
<1>4. Sound'
  <2>1. made' \in [Tables -> Nat]
    BY <1>7 DEF IInv, Sound
  <2>2. Constraints(db)' /\ Distinct(db)'
    BY <1>7 DEF IInv, Sound, Constraints, Distinct, Table, Ids, Referring
  <2>3. Schema(db, made)'
    BY <1>7 DEF IInv, Sound, Schema, Shape, Known
  <2>4. Kin(db)'
    BY <1>7 DEF IInv, Sound, Kin, Table, MonitorsOf
  <2>5. Running(db, made)'
    BY <1>7 DEF IInv, Sound, Running, Known, Own, Table, MonitorsOf
  <2> QED
    BY <1>2, <1>3, <2>1, <2>2, <2>3, <2>4, <2>5 DEF Sound
<1>5. Whole(db)' /\ Governed(db)' /\ OrderRead' /\ Kept(db, made)'
  <2>1. Whole(db)'
    BY <1>7 DEF IInv, Whole, Table, Referring
  <2>2. Governed(db)'
    BY <1>7 DEF IInv, Governed, Ids, Table, Referring
  <2>3. OrderRead'
    BY <1>7 DEF IInv, OrderRead, Ids
  <2>4. Kept(db, made)'
    BY <1>7 DEF IInv, Kept, Known, Ids, Archived, Table
  <2> QED
    BY <2>1, <2>2, <2>3, <2>4
<1>6. Logged'
  <2>1. \A y \in Client : /\ req'[y].op = "destination.archive" /\ req'[y].seen # {}
                          /\ req'[y].pc = "write" /\ req'[y].id \in Ids(db)
                          => <<"destination.archive", req'[y].id>> \in Recorded'
    BY <1>2 DEF IInv, Logged, LogKept
  <2>2. /\ \A i : /\ Known(i, made) /\ i[2] # 0 /\ i \notin Ids(db)
                  /\ i[1] \in {"sites", "sources", "monitors"}
                  => \E op \in Deletions : SubjectTable(op) = i[1] /\ <<op, i>> \in Recorded'
        /\ \A op \in Deletions : \A i : <<op, i>> \in Recorded' => Known(i, made) /\ i \notin Ids(db)
        /\ \A i \in Archived(db) : <<"destination.archive", i>> \in Recorded'
    <3>1. Archived(db) \subseteq Ids(db)
      BY DEF Archived, Ids, Table
    <3> QED
      BY <3>1 DEF IInv, Logged, LogKept
  <2> QED
    BY <2>1, <2>2 DEF Logged, Known, Ids, Archived, Table
<1> QED
  BY <1>4, <1>5, <1>6 DEF IInv

\* No request is due to record when it starts, ends or goes on before its write.
LEMMA NothingRecorded ==
  ASSUME DOMAIN req = Client, NEW c \in Client, req[c].pc \notin Recording, NEW q, q.pc \notin Recording,
         req' = [req EXCEPT ![c] = q], UNCHANGED <<audit, died>>
  PROVE  Recorded' = Recorded /\ LogKept
<1>1. req'[c] = q /\ \A y \in Client \ {c} : req'[y] = req[y]
  OBVIOUS
<1>2. {y \in Client : req'[y].pc \in Recording} = {y \in Client : req[y].pc \in Recording}
  BY <1>1
<1>3. \A y \in {y \in Client : req[y].pc \in Recording} : req'[y] = req[y]
  BY <1>1
<1> QED
  BY <1>2, <1>3 DEF Recorded, LogKept

LEMMA Idle ==
  Request(NoRequest, made) /\ NoRequest.pc \notin Recording /\ NoRequest.pc # "write"
BY DEF Request, NoRequest, Recording

LEMMA WriteKeeps ==
  ASSUME IInv, NEW c \in Client, Write(c)
  PROVE  IInv' /\ (Batch(db, Transaction(req[c])).ok => Effect(req[c], db', made'))
               /\ (~Batch(db, Transaction(req[c])).ok => db' = db)
<1> DEFINE q == req[c]
           sts == Transaction(q)
           ok == Batch(db, sts).ok
           next == IF q.op \in Rereads THEN "reread" ELSE "audit"
<1>1. /\ q.pc = "write" /\ db' = Batch(db, sts).rows
      /\ ok => /\ made' = [t \in Tables |-> made[t] + Taken(sts)[t]]
               /\ req' = [req EXCEPT ![c] = IF AuditDue(q, db') THEN [q EXCEPT !.pc = next] ELSE NoRequest]
               /\ UNCHANGED broken
      /\ ~ok => /\ req' = [req EXCEPT ![c] = NoRequest]
                /\ broken' = IF q.op = "destination.delete" THEN broken ELSE broken \cup {q.op}
                /\ UNCHANGED made
      /\ UNCHANGED <<run, audit, died>>
  BY Zenon DEF Write
<1>2. Sound /\ Whole(db) /\ Request(q, made) /\ DOMAIN req = Client
  BY DEF IInv, Sound
<1>3. ok => Effect(q, db', made')
  <2> SUFFICES ASSUME ok  PROVE Effect(q, db', made')
    BY Zenon
  <2>1. Effect(q, Batch(db, sts).rows, Given(sts))
    BY <1>1, <1>2, TransactionEffect, Zenon
  <2>2. made' = [t \in Tables |-> made[t] + Taken(sts)[t]] /\ db' = Batch(db, sts).rows
    BY <1>1, Zenon
  <2> HIDE DEF sts
  <2>3. made' = Given(sts)
    BY <2>2 DEF Given
  <2> QED
    BY <2>1, <2>2, <2>3, Zenon
<1>4. ~ok => db' = db
  <2> SUFFICES ASSUME ~ok  PROVE db' = db
    BY Zenon
  <2>1. Batch(db, sts).rows = db
    BY Zenon DEF Batch
  <2> QED
    BY <2>1, <1>1, Zenon
<1>5. ok => IInv'
  <2> SUFFICES ASSUME ok  PROVE IInv'
    BY Zenon
  <2> DEFINE x == IF AuditDue(req[c], db') THEN [req[c] EXCEPT !.pc = next] ELSE NoRequest
  <2>1. Effect(req[c], db', made') /\ req' = [req EXCEPT ![c] = x] /\ UNCHANGED <<run, audit, died, broken>>
    BY <1>1, <1>3, Zenon
  <2>2. Request(x, made')
    <3>1. Request(NoRequest, made')
      BY DEF Request, NoRequest
    <3>2. Request(q, made')
      BY <1>2, <2>1, RequestKept DEF Effect, Sound
    <3>3. Request([q EXCEPT !.pc = next], made')
      <4> DEFINE y == [q EXCEPT !.pc = next]
      <4>2. y = [op |-> q.op, id |-> q.id, arg |-> q.arg, pc |-> next, seen |-> q.seen]
        <5>1. q = [op |-> q.op, id |-> q.id, arg |-> q.arg, pc |-> q.pc, seen |-> q.seen]
          BY <1>2 DEF Request
        <5> HIDE DEF q, next
        <5> QED
          BY <5>1, ChangedRequest, Zenon
      <4>1. /\ y.pc = next /\ y.op = q.op /\ y.id = q.id /\ y.arg = q.arg
            /\ y = [op |-> y.op, id |-> y.id, arg |-> y.arg, pc |-> y.pc, seen |-> y.seen]
        BY <4>2
      <4>3. next \in Recording /\ (next = "reread" => q.op \in Rereads)
        BY DEF Recording
      <4> HIDE DEF y, next
      <4> QED
        BY <4>1, <4>3, <3>2, <1>1 DEF Request, Recording
    <3> QED
      BY <3>1, <3>3
  <2>3. next \in Recording
    BY DEF Recording
  <2> HIDE DEF x, ok, next
  <2> QED
    BY <1>1, <2>1, <2>2, <2>3, EffectKeeps DEF x
<1>6. ~ok => IInv'
  <2> SUFFICES ASSUME ~ok  PROVE IInv'
    BY Zenon
  <2>1. /\ req' = [req EXCEPT ![c] = NoRequest] /\ UNCHANGED <<db, made, run, audit, died>>
        /\ broken' = IF q.op = "destination.delete" THEN broken ELSE broken \cup {q.op}
    BY <1>1, <1>4, Zenon
  <2>2. q.op \notin {"monitor.delete", "destination.archive", "subscription.delete"}
    BY <1>1, <1>2, TransactionSucceeds, Zenon
  <2>3. DeletionsSucceed'
    BY <2>1, <2>2 DEF IInv, DeletionsSucceed
  <2>4. LogKept
    BY <1>1, <1>2, <2>1, Idle, NothingRecorded DEF Recording
  <2> HIDE DEF ok
  <2> QED
    BY <2>1, <2>3, <2>4, Idle, RequestStep
<1> QED
  BY <1>3, <1>4, <1>5, <1>6, Zenon

Asking(op, id, arg, pc, seen) == [op |-> op, id |-> id, arg |-> arg, pc |-> pc, seen |-> seen]

LEMMA NewRequest ==
  ASSUME NEW op, NEW id, NEW arg, NEW pc
  PROVE  [NoRequest EXCEPT !.op = op, !.id = id, !.arg = arg, !.pc = pc] = Asking(op, id, arg, pc, {})
<1> DEFINE e == <<>>
<1>1. NoRequest = Asking("none", e, e, "idle", {})
  BY DEF NoRequest, Asking
<1> HIDE DEF e
<1> DEFINE r1 == [NoRequest EXCEPT !.op = op]
           r2 == [r1 EXCEPT !.id = id]
           r3 == [r2 EXCEPT !.arg = arg]
           r4 == [r3 EXCEPT !.pc = pc]
<1>2. r1 = Asking(op, e, e, "idle", {})
  <2>1. [Asking("none", e, e, "idle", {}) EXCEPT !.op = op] = Asking(op, e, e, "idle", {})
    BY DEF Asking
  <2> QED
    BY <1>1, <2>1, Zenon
<1> HIDE DEF r1
<1>3. r2 = Asking(op, id, e, "idle", {})
  <2>1. [Asking(op, e, e, "idle", {}) EXCEPT !.id = id] = Asking(op, id, e, "idle", {})
    BY DEF Asking
  <2> QED
    BY <1>2, <2>1, Zenon
<1> HIDE DEF r2
<1>4. r3 = Asking(op, id, arg, "idle", {})
  <2>1. [Asking(op, id, e, "idle", {}) EXCEPT !.arg = arg] = Asking(op, id, arg, "idle", {})
    BY DEF Asking
  <2> QED
    BY <1>3, <2>1, Zenon
<1> HIDE DEF r3
<1>5. r4 = Asking(op, id, arg, pc, {})
  <2>1. [Asking(op, id, arg, "idle", {}) EXCEPT !.pc = pc] = Asking(op, id, arg, pc, {})
    BY DEF Asking
  <2> QED
    BY <1>4, <2>1, Zenon
<1> QED
  BY <1>5 DEF r1, r2, r3

LEMMA ReceiveKeeps ==
  ASSUME IInv, NEW c \in Client, Receive(c)
  PROVE  IInv'
<1>1. PICK op \in Ops :
        \E id \in IF op \in Creations THEN {<<>>}
                  ELSE {<<SubjectTable(op), n>> : n \in 1..made[SubjectTable(op)]} :
        \E arg \in Arguments(op) :
          req' = [req EXCEPT ![c] = [NoRequest EXCEPT
                    !.op = op, !.id = id, !.arg = arg,
                    !.pc = IF op \in Creations THEN "write" ELSE "read"]]
  BY DEF Receive
<1>2. PICK id \in IF op \in Creations THEN {<<>>}
                  ELSE {<<SubjectTable(op), n>> : n \in 1..made[SubjectTable(op)]},
           arg \in Arguments(op) :
        req' = [req EXCEPT ![c] = [NoRequest EXCEPT
                  !.op = op, !.id = id, !.arg = arg,
                  !.pc = IF op \in Creations THEN "write" ELSE "read"]]
  BY <1>1
<1> DEFINE pc == IF op \in Creations THEN "write" ELSE "read"
           q == [NoRequest EXCEPT !.op = op, !.id = id, !.arg = arg, !.pc = pc]
<1>0. q = [op |-> op, id |-> id, arg |-> arg, pc |-> pc, seen |-> {}]
  <2> HIDE DEF pc
  <2>1. q = Asking(op, id, arg, pc, {})
    BY NewRequest
  <2> QED
    BY <2>1 DEF Asking
<1>3. /\ req' = [req EXCEPT ![c] = q] /\ UNCHANGED <<db, made, run, audit, died, broken>>
      /\ req[c].pc = "idle"
      /\ q.op = op /\ q.id = id /\ q.arg = arg /\ q.seen = {}
      /\ q.pc = IF op \in Creations THEN "write" ELSE "read"
      /\ q = [op |-> q.op, id |-> q.id, arg |-> q.arg, pc |-> q.pc, seen |-> q.seen]
  <2>1. req' = [req EXCEPT ![c] = q]
    BY <1>2
  <2> HIDE DEF q
  <2> QED
    BY <1>0, <2>1 DEF Receive
<1> HIDE DEF q
<1>4. op \in Operations
  BY OpsAssumption
<1>5. op \notin Creations => Known(id, made) /\ id[1] = SubjectTable(op)
  <2> SUFFICES ASSUME op \notin Creations  PROVE Known(id, made) /\ id[1] = SubjectTable(op)
    OBVIOUS
  <2>1. SubjectTable(op) \in Tables \ {"fetchers"}
    BY <1>4 DEF SubjectTable, Operations, Creations, Tables
  <2>2. PICK n \in 1..made[SubjectTable(op)] : id = <<SubjectTable(op), n>>
    BY <1>2
  <2>3. made[SubjectTable(op)] \in Nat
    BY <2>1 DEF IInv, Sound
  <2> QED
    BY <2>1, <2>2, <2>3 DEF Known
<1>6. op = "subscription.create" => \A i \in 1..Len(arg) : arg[i][1] \in {"sites", "monitors"}
  <2> SUFFICES ASSUME op = "subscription.create", NEW i \in 1..Len(arg)
               PROVE  arg[i][1] \in {"sites", "monitors"}
    OBVIOUS
  <2>1. arg \in {<<>>} \cup {<<j>> : j \in Ids(Table(db, "sites") \cup Table(db, "monitors"))}
    BY <1>2 DEF Arguments
  <2>2. arg # <<>>
    OBVIOUS
  <2>3. PICK j \in Ids(Table(db, "sites") \cup Table(db, "monitors")) : arg = <<j>>
    BY <2>1, <2>2
  <2>4. arg[i] = j
    BY <2>3
  <2> QED
    BY <2>3, <2>4 DEF Ids, Table
<1>7. op = "policy.put" => arg \in Order
  BY <1>2 DEF Arguments
<1>8. op \notin {"monitor.create", "policy.put", "destination.archive"} \/ op \notin Creations
  BY DEF Creations
<1>9. Request(q, made)
  BY <1>3, <1>4, <1>5, <1>6, <1>7, <1>8 DEF Request
<1>10. LogKept
  BY <1>3, NothingRecorded DEF IInv, Sound, Recording
<1>11. DeletionsSucceed'
  BY <1>3 DEF IInv, DeletionsSucceed
<1> QED
  BY <1>3, <1>9, <1>10, <1>11, RequestStep

LEMMA ReadKeeps ==
  ASSUME IInv, NEW c \in Client, Read(c)
  PROVE  IInv'
<1> DEFINE q == req[c]
           later == IF q.op \in LooksTwice THEN "look" ELSE "write"
           x == [q EXCEPT !.pc = later, !.seen = Remembered(q)]
<1>1. /\ q.pc = "read" /\ (req' = [req EXCEPT ![c] = NoRequest] \/ req' = [req EXCEPT ![c] = x])
      /\ UNCHANGED <<db, made, run, audit, died, broken>>
  BY DEF Read
<1>2. Request(q, made) /\ DOMAIN req = Client
  BY DEF IInv, Sound
<1>3. DeletionsSucceed'
  BY <1>1 DEF IInv, DeletionsSucceed
<1>4. CASE req' = [req EXCEPT ![c] = NoRequest]
  <2>1. LogKept
    BY <1>1, <1>2, <1>4, Idle, NothingRecorded DEF Recording
  <2> QED
    BY <1>1, <1>3, <1>4, <2>1, Idle, RequestStep
<1>5. CASE req' = [req EXCEPT ![c] = x]
  <2>1. /\ x.op = q.op /\ x.id = q.id /\ x.arg = q.arg
        /\ x.pc = later /\ x.seen = Remembered(q) /\ x.pc \notin Recording
        /\ x = [op |-> x.op, id |-> x.id, arg |-> x.arg, pc |-> x.pc, seen |-> x.seen]
    <3> DEFINE seen == Remembered(q)
    <3> HIDE DEF seen
    <3>1. x = [op |-> q.op, id |-> q.id, arg |-> q.arg, pc |-> later, seen |-> seen]
      <4>1. q = [op |-> q.op, id |-> q.id, arg |-> q.arg, pc |-> q.pc, seen |-> q.seen]
        BY <1>2 DEF Request
      <4> HIDE DEF later, q
      <4> QED
        BY <4>1, ChangedRequest, Zenon DEF seen
    <3> HIDE DEF x
    <3>2. /\ x.op = q.op /\ x.id = q.id /\ x.arg = q.arg /\ x.pc = later /\ x.seen = seen
          /\ x = [op |-> x.op, id |-> x.id, arg |-> x.arg, pc |-> x.pc, seen |-> x.seen]
      BY <3>1
    <3> QED
      BY <3>2 DEF seen, Recording
  <2>2. later = "write" => q.op # "policy.put"
    BY DEF LooksTwice
  <2>3. q.op = "monitor.create" => \A i \in Remembered(q) : i[1] = "sites"
    <3> SUFFICES ASSUME q.op = "monitor.create", NEW i \in Remembered(q)  PROVE i[1] = "sites"
      OBVIOUS
    <3>1. PICK r \in db : r.id = q.id /\ i \in r.refs
      BY DEF Remembered
    <3>2. r.id[1] = "sources"
      BY <1>1, <1>2, <3>1 DEF Request, Creations, SubjectTable
    <3> QED
      BY <3>1, <3>2 DEF IInv, Sound, Schema, Shape, Edges
  <2>4. Request(x, made)
    BY <1>1, <1>2, <2>1, <2>2, <2>3 DEF Request
  <2>5. x.op = "destination.archive" /\ x.seen # {} => <<"destination.archive", x.id>> \in Recorded
    <3>1. x.op = "destination.archive" /\ x.seen # {} => x.id \in Archived(db)
      BY <2>1 DEF Remembered
    <3> QED
      BY <3>1 DEF IInv, Logged
  <2> HIDE DEF x
  <2>6. LogKept
    BY <1>1, <1>2, <1>5, <2>1, NothingRecorded DEF Recording
  <2> QED
    BY <1>1, <1>3, <1>5, <2>4, <2>5, <2>6, RequestStep
<1> QED
  BY <1>1, <1>4, <1>5

LEMMA LookKeeps ==
  ASSUME IInv, NEW c \in Client, Look(c)
  PROVE  IInv'
<1> DEFINE q == req[c]
           found == IF q.op = "policy.put" THEN Ids(Referring(db, "fetcher_policies", q.id)) ELSE {}
           x == [q EXCEPT !.pc = "write", !.seen = found]
<1>1. /\ q.pc = "look" /\ (req' = [req EXCEPT ![c] = NoRequest] \/ req' = [req EXCEPT ![c] = x])
      /\ UNCHANGED <<db, made, run, audit, died, broken>>
  BY DEF Look
<1>2. Request(q, made) /\ DOMAIN req = Client
  BY DEF IInv, Sound
<1>3. DeletionsSucceed'
  BY <1>1 DEF IInv, DeletionsSucceed
<1>4. CASE req' = [req EXCEPT ![c] = NoRequest]
  <2>1. LogKept
    BY <1>1, <1>2, <1>4, Idle, NothingRecorded DEF Recording
  <2> QED
    BY <1>1, <1>3, <1>4, <2>1, Idle, RequestStep
<1>5. CASE req' = [req EXCEPT ![c] = x]
  <2>0. \A i \in found : i[1] = "fetcher_policies" /\ q.op = "policy.put"
    BY DEF Ids, Referring, Table
  <2>1. /\ x.op = q.op /\ x.id = q.id /\ x.arg = q.arg /\ x.pc = "write" /\ x.seen = found
        /\ x = [op |-> x.op, id |-> x.id, arg |-> x.arg, pc |-> x.pc, seen |-> x.seen]
    <3> HIDE DEF found
    <3>1. x = [op |-> q.op, id |-> q.id, arg |-> q.arg, pc |-> "write", seen |-> found]
      <4>1. q = [op |-> q.op, id |-> q.id, arg |-> q.arg, pc |-> q.pc, seen |-> q.seen]
        BY <1>2 DEF Request
      <4> HIDE DEF q
      <4> QED
        BY <4>1, ChangedRequest, Zenon
    <3> HIDE DEF x
    <3> QED
      BY <3>1
  <2> HIDE DEF x, found
  <2>2. Request(x, made)
    <3>1. x.op = "monitor.create" => x.seen = {}
      BY <2>0, <2>1
    <3>2. \A i \in x.seen : i[1] = "fetcher_policies"
      BY <2>0, <2>1
    <3> QED
      BY <1>1, <1>2, <2>1, <3>1, <3>2 DEF Request
  <2>3. LogKept
    BY <1>1, <1>2, <1>5, <2>1, NothingRecorded DEF Recording
  <2>4. x.op = "destination.archive" => x.seen = {}
    BY <2>0, <2>1
  <2> QED
    BY <1>1, <1>3, <1>5, <2>2, <2>3, <2>4, RequestStep
<1> QED
  BY <1>1, <1>4, <1>5

\* recordAuditEvent, or the isolate dies instead
LEMMA AuditKeeps ==
  ASSUME IInv, NEW c \in Client, Audit(c) \/ Die(c)
  PROVE  IInv'
<1> DEFINE e == <<req[c].op, req[c].id>>
<1>1. /\ req[c].pc \in Recording /\ req' = [req EXCEPT ![c] = NoRequest]
      /\ UNCHANGED <<db, made, run, broken>> /\ audit' \cup died' = audit \cup died \cup {e}
  BY DEF Audit, Die, Recording
<1>2. DOMAIN req = Client
  BY DEF IInv, Sound
<1>3. req'[c].pc \notin Recording /\ \A y \in Client \ {c} : req'[y] = req[y]
  BY <1>1, <1>2, Idle
<1>4. Recorded' = Recorded
  <2>1. \A x : x \in Recorded <=>
          x \in audit \cup died \/ \E y \in Client : req[y].pc \in Recording /\ x = <<req[y].op, req[y].id>>
    BY DEF Recorded
  <2>2. \A x : x \in Recorded' <=>
          x \in audit' \cup died' \/ \E y \in Client : req'[y].pc \in Recording /\ x = <<req'[y].op, req'[y].id>>
    BY DEF Recorded
  <2> HIDE DEF e
  <2>3. e \in Recorded
    BY <1>1, <2>1 DEF e
  <2>4. ASSUME NEW x \in Recorded  PROVE x \in Recorded'
    <3>1. CASE x \in audit \cup died \cup {e}
      BY <1>1, <2>2, <3>1
    <3>2. CASE x \notin audit \cup died \cup {e}
      <4>1. PICK y \in Client : req[y].pc \in Recording /\ x = <<req[y].op, req[y].id>>
        BY <2>1, <3>2
      <4>2. y # c
        BY <3>2, <4>1 DEF e
      <4> QED
        BY <1>3, <2>2, <4>1, <4>2
    <3> QED
      BY <3>1, <3>2
  <2>5. ASSUME NEW x \in Recorded'  PROVE x \in Recorded
    <3>1. CASE x \in audit' \cup died'
      BY <1>1, <2>1, <2>3, <3>1
    <3>2. CASE x \notin audit' \cup died'
      <4>1. PICK y \in Client : req'[y].pc \in Recording /\ x = <<req'[y].op, req'[y].id>>
        BY <2>2, <3>2
      <4>2. y # c
        BY <1>3, <4>1
      <4> QED
        BY <1>3, <2>1, <4>1, <4>2
    <3> QED
      BY <3>1, <3>2
  <2> QED
    BY <2>4, <2>5
<1>5. DeletionsSucceed'
  BY <1>1 DEF IInv, DeletionsSucceed
<1> HIDE DEF e
<1> QED
  BY <1>1, <1>4, <1>5, Idle, RequestStep DEF LogKept

\* A request that goes on to its event is due to record it as before.
LEMMA RecordStays ==
  ASSUME DOMAIN req = Client, NEW c \in Client, req[c].pc \in Recording,
         NEW q, q.pc \in Recording, q.op = req[c].op, q.id = req[c].id,
         req' = [req EXCEPT ![c] = q], UNCHANGED <<audit, died>>
  PROVE  LogKept
<1>1. req'[c] = q /\ \A y \in Client \ {c} : req'[y] = req[y]
  OBVIOUS
<1>2. {y \in Client : req'[y].pc \in Recording} = {y \in Client : req[y].pc \in Recording}
  BY <1>1
<1>3. \A y \in Client : req'[y].op = req[y].op /\ req'[y].id = req[y].id
  BY <1>1
<1>4. Recorded' = Recorded
  BY <1>2, <1>3 DEF Recorded
<1> QED
  BY <1>4 DEF LogKept

\* A request ends without its event: only its own is missing.
LEMMA RecordDropped ==
  ASSUME DOMAIN req = Client, NEW c \in Client, NEW q, q.pc \notin Recording,
         req[c].op \notin Deletions,
         req[c].op = "destination.archive" => req[c].id \notin Ids(db),
         req' = [req EXCEPT ![c] = q], UNCHANGED <<audit, died>>
  PROVE  LogKept
<1>1. req'[c] = q /\ \A y \in Client \ {c} : req'[y] = req[y]
  OBVIOUS
<1>2. Recorded' \subseteq Recorded
  BY <1>1 DEF Recorded
<1>3. ASSUME NEW e \in Recorded, e # <<req[c].op, req[c].id>>  PROVE e \in Recorded'
  BY <1>1, <1>3 DEF Recorded
<1>4. ASSUME NEW op \in Deletions, NEW i, <<op, i>> \in Recorded  PROVE <<op, i>> \in Recorded'
  <2>1. <<op, i>> # <<req[c].op, req[c].id>>
    OBVIOUS
  <2> QED
    BY <1>3, <1>4, <2>1
<1>5. ASSUME NEW i \in Ids(db), <<"destination.archive", i>> \in Recorded
      PROVE  <<"destination.archive", i>> \in Recorded'
  <2>1. <<"destination.archive", i>> # <<req[c].op, req[c].id>>
    OBVIOUS
  <2> QED
    BY <1>3, <1>5, <2>1
<1> QED
  BY <1>2, <1>4, <1>5 DEF LogKept

\* The row that was written is read again; without it nothing will be recorded.
LEMMA RereadKeeps ==
  ASSUME IInv, NEW c \in Client, Reread(c)
  PROVE  IInv'
<1> DEFINE q == req[c]
           x == IF WrittenRow(q) = {} THEN NoRequest ELSE [q EXCEPT !.pc = "audit"]
<1>1. /\ q.pc = "reread" /\ req' = [req EXCEPT ![c] = x]
      /\ UNCHANGED <<db, made, run, audit, died, broken>>
  BY DEF Reread
<1>2. Request(q, made) /\ DOMAIN req = Client
  BY DEF IInv, Sound
<1>3. DeletionsSucceed'
  BY <1>1 DEF IInv, DeletionsSucceed
<1>4. q.op \in Rereads \ Deletions
  BY <1>1, <1>2 DEF Request, Rereads, Deletions
<1>5. CASE WrittenRow(q) = {}
  <2>1. x = NoRequest
    BY <1>5
  <2>2. q.op = "destination.archive" => q.id \notin Ids(db)
    BY <1>5 DEF WrittenRow, Ids
  <2>3. LogKept
    BY <1>1, <1>2, <1>4, <2>1, <2>2, RecordDropped, Idle
  <2> QED
    BY <1>1, <1>3, <2>1, <2>3, Idle, RequestStep
<1>6. CASE WrittenRow(q) # {}
  <2>1. x = [op |-> q.op, id |-> q.id, arg |-> q.arg, pc |-> "audit", seen |-> q.seen]
    BY <1>2, <1>6, ChangedRequest DEF Request
  <2> HIDE DEF x
  <2>2. /\ x.op = q.op /\ x.id = q.id /\ x.arg = q.arg /\ x.pc = "audit"
        /\ x = [op |-> x.op, id |-> x.id, arg |-> x.arg, pc |-> x.pc, seen |-> x.seen]
    BY <2>1
  <2>3. Request(x, made)
    BY <1>1, <1>2, <2>2 DEF Request
  <2>4. LogKept
    <3>1. req[c].pc \in Recording /\ x.pc \in Recording
      BY <1>1, <2>2 DEF Recording
    <3>2. x.op = req[c].op /\ x.id = req[c].id /\ req' = [req EXCEPT ![c] = x]
      BY <1>1, <2>2
    <3>3. UNCHANGED <<audit, died>>
      BY <1>1
    <3> QED
      BY <1>2, <3>1, <3>2, <3>3, RecordStays
  <2> QED
    BY <1>1, <1>3, <2>2, <2>3, <2>4, RequestStep
<1> QED
  BY <1>5, <1>6

-----------------------------------------------------------------------------
(* The invariant is kept by the check *)

LEMMA NewCheck ==
  ASSUME NEW m, NEW s
  PROVE  [NoRun EXCEPT !.pc = "policy", !.mon = m, !.site = s]
           = Checking("policy", m, s, <<>>, <<>>, {}, {})
<1> DEFINE e == <<>>
<1>1. NoRun = Checking("idle", e, e, e, e, {}, {})
  BY DEF NoRun, Checking
<1> HIDE DEF e
<1> DEFINE r1 == [NoRun EXCEPT !.pc = "policy"]
           r2 == [r1 EXCEPT !.mon = m]
           r3 == [r2 EXCEPT !.site = s]
<1>2. r1 = Checking("policy", e, e, e, e, {}, {})
  <2>1. [Checking("idle", e, e, e, e, {}, {}) EXCEPT !.pc = "policy"]
          = Checking("policy", e, e, e, e, {}, {})
    BY DEF Checking
  <2> QED
    BY <1>1, <2>1, Zenon
<1> HIDE DEF r1
<1>3. r2 = Checking("policy", m, e, e, e, {}, {})
  <2>1. [Checking("policy", e, e, e, e, {}, {}) EXCEPT !.mon = m]
          = Checking("policy", m, e, e, e, {}, {})
    BY DEF Checking
  <2> QED
    BY <1>2, <2>1, Zenon
<1> HIDE DEF r2
<1>4. r3 = Checking("policy", m, s, e, e, {}, {})
  <2>1. [Checking("policy", m, e, e, e, {}, {}) EXCEPT !.site = s]
          = Checking("policy", m, s, e, e, {}, {})
    BY DEF Checking
  <2> QED
    BY <1>3, <2>1, Zenon
<1> QED
  BY <1>4 DEF r1, r2, e

\* A check goes on with a new state, and some of its fields changed.
LEMMA CheckGoesOn ==
  ASSUME run = Checking(run.pc, run.mon, run.site, run.order, run.rows, run.archived, run.todo),
         NEW pc, NEW x, NEW y
  PROVE  /\ [run EXCEPT !.pc = pc, !.order = x]
              = Checking(pc, run.mon, run.site, x, run.rows, run.archived, run.todo)
         /\ [run EXCEPT !.pc = pc, !.todo = x]
              = Checking(pc, run.mon, run.site, run.order, run.rows, run.archived, x)
         /\ [run EXCEPT !.todo = x]
              = Checking(run.pc, run.mon, run.site, run.order, run.rows, run.archived, x)
         /\ [run EXCEPT !.pc = pc, !.rows = x, !.archived = y]
              = Checking(pc, run.mon, run.site, run.order, x, y, run.todo)
<1> DEFINE p == run.pc
           m == run.mon
           s == run.site
           o == run.order
           r == run.rows
           a == run.archived
           t == run.todo
<1>1. run = Checking(p, m, s, o, r, a, t)
  OBVIOUS
<1> HIDE DEF p, m, s, o, r, a, t
<1>2. [Checking(p, m, s, o, r, a, t) EXCEPT !.pc = pc] = Checking(pc, m, s, o, r, a, t)
  BY DEF Checking
<1>3. [Checking(pc, m, s, o, r, a, t) EXCEPT !.order = x] = Checking(pc, m, s, x, r, a, t)
  BY DEF Checking
<1>4. [Checking(pc, m, s, o, r, a, t) EXCEPT !.todo = x] = Checking(pc, m, s, o, r, a, x)
  BY DEF Checking
<1>5. [Checking(p, m, s, o, r, a, t) EXCEPT !.todo = x] = Checking(p, m, s, o, r, a, x)
  BY DEF Checking
<1>6. [Checking(pc, m, s, o, r, a, t) EXCEPT !.rows = x] = Checking(pc, m, s, o, x, a, t)
  BY DEF Checking
<1>7. [Checking(pc, m, s, o, x, a, t) EXCEPT !.archived = y] = Checking(pc, m, s, o, x, y, t)
  BY DEF Checking
<1>8. [run EXCEPT !.pc = pc] = Checking(pc, m, s, o, r, a, t)
  BY <1>1, <1>2, Zenon
<1>9. [run EXCEPT !.pc = pc, !.rows = x] = Checking(pc, m, s, o, x, a, t)
  BY <1>6, <1>8, Zenon
<1>10. /\ [run EXCEPT !.pc = pc, !.order = x] = Checking(pc, m, s, x, r, a, t)
       /\ [run EXCEPT !.pc = pc, !.todo = x] = Checking(pc, m, s, o, r, a, x)
       /\ [run EXCEPT !.todo = x] = Checking(p, m, s, o, r, a, x)
       /\ [run EXCEPT !.pc = pc, !.rows = x, !.archived = y] = Checking(pc, m, s, o, x, y, t)
  BY <1>1, <1>3, <1>4, <1>5, <1>7, <1>8, <1>9, Zenon
<1> QED
  BY <1>10 DEF p, m, s, o, r, a, t

LEMMA CheckingFields ==
  ASSUME NEW p, NEW m, NEW s, NEW o, NEW r, NEW a, NEW t, NEW c, c = Checking(p, m, s, o, r, a, t)
  PROVE  /\ c.pc = p /\ c.mon = m /\ c.site = s /\ c.order = o /\ c.rows = r
         /\ c.archived = a /\ c.todo = t
         /\ c = Checking(c.pc, c.mon, c.site, c.order, c.rows, c.archived, c.todo)
BY DEF Checking

\* A step of the check that writes no row
LEMMA RunStep ==
  ASSUME IInv, UNCHANGED <<db, made, req, audit, died>>, DeletionsSucceed',
         Running(db, made)', Governed(db)', OrderRead', Kept(db, made)'
  PROVE  IInv'
<1>1. db' = db /\ made' = made /\ req' = req /\ audit' = audit /\ died' = died
  OBVIOUS
<1>2. Sound'
  <2>1. made' \in [Tables -> Nat]
    BY <1>1 DEF IInv, Sound
  <2>2. Constraints(db)' /\ Distinct(db)'
    BY <1>1 DEF IInv, Sound, Constraints, Distinct, Table, Ids, Referring
  <2>3. Schema(db, made)'
    BY <1>1 DEF IInv, Sound, Schema, Shape, Known
  <2>4. Kin(db)'
    BY <1>1 DEF IInv, Sound, Kin, Table, MonitorsOf
  <2>5. DOMAIN req' = Client /\ \A c \in Client : Request(req[c], made)'
    <3>1. \A c \in Client : Request(req[c], made)
      BY DEF IInv, Sound
    <3>2. \A c \in Client : Request(req'[c], made')
      BY <1>1, <3>1
    <3> QED
      BY <1>1, <3>2 DEF IInv, Sound, Request, Known
  <2> QED
    BY <2>1, <2>2, <2>3, <2>4, <2>5 DEF Sound
<1>3. Whole(db)'
  BY <1>1 DEF IInv, Whole, Table, Referring
<1>4. Logged'
  <2>1. Recorded' = Recorded
    BY <1>1 DEF Recorded
  <2> QED
    BY <1>1, <2>1 DEF IInv, Logged, Known, Ids, Archived, Table
<1> QED
  BY <1>2, <1>3, <1>4 DEF IInv

\* The end of a check
LEMMA NoRunIsSound ==
  ASSUME run' = NoRun
  PROVE  Running(db, made)' /\ Governed(db)' /\ OrderRead' /\ Kept(db, made)'
<1>1. /\ run'.pc = "idle" /\ run'.archived = {}
      /\ run' = Checking(run'.pc, run'.mon, run'.site, run'.order, run'.rows, run'.archived, run'.todo)
  BY DEF NoRun, Checking
<1> QED
  BY <1>1 DEF Running, Governed, OrderRead, Kept

LEMMA EndKeeps ==
  ASSUME IInv, CheckEnds
  PROVE  IInv'
<1>1. DeletionsSucceed' /\ run' = NoRun /\ UNCHANGED <<db, made, req, audit, died>>
  BY DEF CheckEnds, CheckUnchanged, IInv, DeletionsSucceed
<1> QED
  BY <1>1, NoRunIsSound, RunStep

\* The order list of the entries of one PUT is the list that was sent.
LEMMA OrderOfEntries ==
  ASSUME NEW o \in Order, NEW p, p[1] # "fetchers", NEW n \in Nat
  PROVE  OrderOf(EntriesOf(p, o, n)) = o
<1> DEFINE l == Len(o)
           E == EntriesOf(p, o, n)
           row(i) == Row(<<"fetcher_policy_entries", n + i>>, {p, Fetcher(o[i])}, Place(i))
<1>1. l \in 1..3 /\ o \in Seq(Fetchers)
  BY OrderAssumption
<1>2. \A i \in 1..l : /\ row(i).id = <<"fetcher_policy_entries", n + i>>
                      /\ row(i).refs = {p, Fetcher(o[i])} /\ row(i).v = Place(i)
  BY DEF Row
<1>3. E = {row(i) : i \in 1..l}
  BY DEF EntriesOf
<1> HIDE DEF l
<1>4. \A i, j \in 1..l : Place(i) = Place(j) => i = j
  <2>1. Place(1) = "first" /\ Place(2) = "second" /\ Place(3) = "third"
    BY DEF Place
  <2>2. \A i \in 1..l : i = 1 \/ i = 2 \/ i = 3
    BY <1>1
  <2> QED
    BY <2>1, <2>2
<1> HIDE DEF row, E
<1>5. \A i, j \in 1..l : row(i) = row(j) => i = j
  BY <1>2, <1>4
<1>6. Cardinality(E) = l
  <2> DEFINE f == [i \in 1..l |-> row(i)]
  <2>1. f \in Bijection(1..l, E)
    BY <1>3, <1>5 DEF Bijection, Injection, Surjection, IsInjective
  <2>2. IsFiniteSet(1..l) /\ Cardinality(1..l) = l
    <3>1. Cardinality(1..l) = IF 1 > l THEN 0 ELSE l - 1 + 1
      BY <1>1, FS_Interval
    <3>2. ~(1 > l) /\ l - 1 + 1 = l
      BY <1>1
    <3> QED
      BY <1>1, <3>1, <3>2, FS_Interval
  <2> QED
    BY <2>1, <2>2, FS_Bijection DEF ExistsBijection
<1>7. ASSUME NEW i \in 1..l
      PROVE  (CHOOSE f \in (CHOOSE x \in E : x.v = Place(i)).refs : f[1] = "fetchers")[2] = o[i]
  <2> DEFINE e == CHOOSE x \in E : x.v = Place(i)
  <2>1. row(i) \in E /\ row(i).v = Place(i)
    BY <1>2, <1>3
  <2>2. \A x \in E : x.v = Place(i) => x = row(i)
    BY <1>2, <1>3, <1>4
  <2>3. e \in E /\ e.v = Place(i)
    BY <2>1
  <2> HIDE DEF e
  <2>4. e.refs = {p, Fetcher(o[i])}
    BY <1>2, <2>2, <2>3
  <2>5. Fetcher(o[i])[1] = "fetchers" /\ Fetcher(o[i])[2] = o[i]
    BY DEF Fetcher
  <2> DEFINE g == CHOOSE f \in e.refs : f[1] = "fetchers"
  <2>6. g \in e.refs /\ g[1] = "fetchers"
    BY <2>4, <2>5
  <2> HIDE DEF g
  <2>7. g[2] = o[i]
    BY <2>4, <2>5, <2>6
  <2> QED
    BY <2>7 DEF g, e
<1>8. OrderOf(E) = [i \in 1..l |-> o[i]]
  BY <1>6, <1>7 DEF OrderOf
<1>9. o = [i \in 1..l |-> o[i]]
  BY <1>1 DEF l
<1> QED
  BY <1>8, <1>9 DEF E

LEMMA OrderOfNone ==
  OrderOf({}) = <<>>
<1>1. Cardinality({}) = 0
  BY FS_EmptySet
<1>2. OrderOf({}) = [i \in 1..0 |-> (CHOOSE f \in (CHOOSE x \in {} : x.v = Place(i)).refs : f[1] = "fetchers")[2]]
  BY <1>1 DEF OrderOf
<1> QED
  BY <1>2

LEMMA StartsKeeps ==
  ASSUME IInv, CheckStarts
  PROVE  IInv'
<1>1. PICK m \in Table(db, "monitors"), s \in Ids(Table(db, "sites")) :
         /\ Referring(db, "fetcher_policies", s) # {}
         /\ run' = [NoRun EXCEPT !.pc = "policy", !.mon = m.id, !.site = s]
  BY DEF CheckStarts
<1>2. UNCHANGED <<db, made, req, audit, died>> /\ DeletionsSucceed'
  BY DEF CheckStarts, CheckUnchanged, IInv, DeletionsSucceed
<1>3. run' = Checking("policy", m.id, s, <<>>, <<>>, {}, {})
  BY <1>1, NewCheck
<1>4. /\ run'.pc = "policy" /\ run'.mon = m.id /\ run'.site = s /\ run'.rows = <<>>
      /\ run'.archived = {}
      /\ run' = Checking(run'.pc, run'.mon, run'.site, run'.order, run'.rows, run'.archived, run'.todo)
  BY <1>3, CheckingFields
<1>5. Known(m.id, made) /\ m.id[1] = "monitors" /\ Known(s, made) /\ s[1] = "sites"
  BY DEF Table, Ids, IInv, Sound, Schema
<1>6. Running(db, made)'
  <2>1. Written("policy") = 0
    BY DEF Written
  <2>2. DOMAIN <<>> = 1..0 /\ <<>> \in Seq({<<>>[k] : k \in DOMAIN <<>>})
    OBVIOUS
  <2>3. 1..0 = {}
    OBVIOUS
  <2> QED
    BY <1>2, <1>4, <1>5, <2>1, <2>2, <2>3 DEF Running, Known
<1>7. Governed(db)' /\ OrderRead' /\ Kept(db, made)'
  BY <1>1, <1>2, <1>4 DEF Governed, OrderRead, Kept, Referring, Table
<1> QED
  BY <1>2, <1>6, <1>7, RunStep

\* The state of the check goes on, with what it has written unchanged.
LEMMA RunningGoesOn ==
  ASSUME Running(db, made), run.pc # "idle", UNCHANGED <<db, made>>,
         run' = Checking(run'.pc, run'.mon, run'.site, run'.order, run'.rows, run'.archived, run'.todo),
         run'.pc \in {"policy", "match", "deliver"} \cup CheckTables,
         Written(run'.pc) = Written(run.pc),
         run'.mon = run.mon, run'.site = run.site, run'.rows = run.rows
  PROVE  Running(db, made)'
BY DEF Running, Known, Own, Table, MonitorsOf

LEMMA ReadsPolicyKeeps ==
  ASSUME IInv, CheckReadsPolicy
  PROVE  IInv'
<1> DEFINE entries == {e \in Table(db, "fetcher_policy_entries") :
                         \E p \in Referring(db, "fetcher_policies", run.site) : p.id \in e.refs}
<1>1. /\ run.pc = "policy" /\ run' = [run EXCEPT !.pc = "check_jobs", !.order = OrderOf(entries)]
      /\ UNCHANGED <<db, made, req, audit, died>> /\ DeletionsSucceed'
  BY DEF CheckReadsPolicy, CheckUnchanged, IInv, DeletionsSucceed
<1>2. Running(db, made) /\ Constraints(db) /\ \A r \in db : Shape(r)
  BY DEF IInv, Sound, Schema
<1> DEFINE o == OrderOf(entries)
<1> HIDE DEF o
<1>3. run' = Checking("check_jobs", run.mon, run.site, o, run.rows, run.archived, run.todo)
  <2>1. run = Checking(run.pc, run.mon, run.site, run.order, run.rows, run.archived, run.todo)
    BY <1>2 DEF Running
  <2>2. run' = [run EXCEPT !.pc = "check_jobs", !.order = o]
    BY <1>1 DEF o
  <2>3. [run EXCEPT !.pc = "check_jobs", !.order = o]
          = Checking("check_jobs", run.mon, run.site, o, run.rows, run.archived, run.todo)
    BY <2>1, CheckGoesOn
  <2> QED
    BY <2>2, <2>3
<1>4. /\ run'.pc = "check_jobs" /\ run'.mon = run.mon /\ run'.site = run.site /\ run'.order = o
      /\ run'.rows = run.rows /\ run'.archived = run.archived
      /\ run' = Checking(run'.pc, run'.mon, run'.site, run'.order, run'.rows, run'.archived, run'.todo)
  BY <1>3, CheckingFields
<1>5. Running(db, made)'
  <2>1. Written("check_jobs") = Written("policy")
    BY DEF Written
  <2> QED
    BY <1>1, <1>2, <1>4, <2>1, RunningGoesOn DEF CheckTables
<1>6. run.site \in Ids(db) => o \in Order
  <2> SUFFICES ASSUME run.site \in Ids(db)  PROVE o \in Order
    OBVIOUS
  <2>1. PICK p \in db : p.id[1] = "fetcher_policies" /\ run.site \in p.refs
    BY <1>1 DEF IInv, Governed, Referring, Table
  <2>2. \A x \in Referring(db, "fetcher_policies", run.site) : x = p
    <3> SUFFICES ASSUME NEW x \in db, x.id[1] = "fetcher_policies", run.site \in x.refs
                 PROVE  x = p
      BY DEF Referring, Table
    <3>1. x.refs = {run.site} /\ p.refs = {run.site}
      BY <1>2, <2>1 DEF Shape, Single
    <3>2. x \in Table(db, "fetcher_policies") /\ p \in Table(db, "fetcher_policies")
      BY <2>1 DEF Table
    <3> QED
      BY <1>2, <3>1, <3>2 DEF Constraints, Unique
  <2>3. p \in Referring(db, "fetcher_policies", run.site)
    BY <2>1 DEF Referring, Table
  <2>4. entries = Referring(db, "fetcher_policy_entries", p.id)
    BY <2>2, <2>3 DEF Referring
  <2>5. PICK l \in Order, n \in Nat : entries = EntriesOf(p.id, l, n)
    BY <2>1, <2>4 DEF IInv, Whole, Table
  <2> HIDE DEF entries
  <2>6. OrderOf(entries) = l
    BY <2>1, <2>5, OrderOfEntries
  <2> QED
    BY <2>6 DEF o
<1>7. run.site \notin Ids(db) => o = <<>>
  <2> SUFFICES ASSUME run.site \notin Ids(db)  PROVE o = <<>>
    OBVIOUS
  <2>1. entries = {}
    BY <1>2 DEF Constraints, Referring, Table
  <2> HIDE DEF entries
  <2> QED
    BY <2>1, OrderOfNone DEF o
<1>8. Governed(db)' /\ OrderRead' /\ Kept(db, made)'
  BY <1>1, <1>4, <1>6, <1>7
  DEF IInv, Governed, OrderRead, Kept, Referring, Table, Ids, Known, Archived
<1> QED
  BY <1>1, <1>5, <1>8, RunStep

LEMMA MatchesKeeps ==
  ASSUME IInv, CheckMatches
  PROVE  IInv'
<1> DEFINE todo == {i \in UNION {s.refs : s \in MatchingSubscriptions} : i[1] = "destinations"}
<1>1. /\ run.pc = "match" /\ run' = [run EXCEPT !.pc = "deliver", !.todo = todo]
      /\ UNCHANGED <<db, made, req, audit, died>> /\ DeletionsSucceed'
  BY DEF CheckMatches, CheckUnchanged, IInv, DeletionsSucceed
<1>2. Running(db, made) /\ Constraints(db)
  BY DEF IInv, Sound
<1>3. \A d \in todo : d[1] = "destinations" /\ d \in Ids(db) /\ d \notin Archived(db)
  BY <1>2 DEF MatchingSubscriptions, Table, Constraints
<1> HIDE DEF todo
<1>4. run' = Checking("deliver", run.mon, run.site, run.order, run.rows, run.archived, todo)
  <2>1. run = Checking(run.pc, run.mon, run.site, run.order, run.rows, run.archived, run.todo)
    BY <1>2 DEF Running
  <2>2. [run EXCEPT !.pc = "deliver", !.todo = todo]
          = Checking("deliver", run.mon, run.site, run.order, run.rows, run.archived, todo)
    BY <2>1, CheckGoesOn
  <2> QED
    BY <1>1, <2>2
<1>5. /\ run'.pc = "deliver" /\ run'.mon = run.mon /\ run'.site = run.site
      /\ run'.order = run.order /\ run'.rows = run.rows /\ run'.archived = run.archived
      /\ run'.todo = todo
      /\ run' = Checking(run'.pc, run'.mon, run'.site, run'.order, run'.rows, run'.archived, run'.todo)
  BY <1>4, CheckingFields
<1>6. Running(db, made)'
  <2>1. Written("deliver") = Written("match")
    BY DEF Written
  <2> QED
    BY <1>1, <1>2, <1>5, <2>1, RunningGoesOn
<1>7. Governed(db)' /\ OrderRead'
  BY <1>1, <1>5 DEF IInv, Governed, OrderRead, Referring, Table, Ids
<1>8. Kept(db, made)'
  BY <1>1, <1>3, <1>5 DEF IInv, Kept, Ids, Known, Archived, Table
<1> QED
  BY <1>1, <1>6, <1>7, <1>8, RunStep

\* A row more in a table that only the check writes to
LEMMA NewRow ==
  ASSUME Sound, NEW t \in CheckTables \cup {"deliveries"}, NEW row, row.id = Fresh(t),
         db' = db \cup {row}, made' = [made EXCEPT ![t] = @ + 1]
  PROVE  /\ row.id[1] = t /\ row.id \notin Ids(db) /\ ~Known(row.id, made) /\ Known(row.id, made')
         /\ \A r \in db : row.id \notin r.refs
         /\ made' \in [Tables -> Nat] /\ \A u \in Tables : made[u] <= made'[u]
         /\ \A u \in Tables \ {t} : made'[u] = made[u]
         /\ \A i : Known(i, made) => Known(i, made')
         /\ \A i : Known(i, made') /\ i[1] # t => Known(i, made)
         /\ Ids(db') = Ids(db) \cup {row.id}
         /\ \A u : u # t => Table(db', u) = Table(db, u)
         /\ \A u, i : u # t => Referring(db', u, i) = Referring(db, u, i)
<1>1. t \in Tables \ {"fetchers"}
  BY DEF Tables, CheckTables
<1>2. /\ made \in [Tables -> Nat] /\ made' \in [Tables -> Nat] /\ \A u \in Tables : made[u] <= made'[u]
      /\ made[t] \in Nat /\ made'[t] = made[t] + 1 /\ \A u \in Tables \ {t} : made'[u] = made[u]
  BY <1>1 DEF Sound
<1>3. row.id = <<t, made[t] + 1>> /\ row.id[1] = t
  BY DEF Fresh
<1>4. /\ row.id \notin Ids(db) /\ ~Known(row.id, made) /\ Known(row.id, made')
      /\ \A r \in db : row.id \notin r.refs
  <2> DEFINE g == made'
             k == made[t] + 1
  <2>1. g[t] \in Nat /\ g[t] > made[t] /\ k \in Nat /\ k > made[t] /\ k <= g[t]
    BY <1>2
  <2> HIDE DEF g, k
  <2>2. /\ <<t, k>> \notin Ids(db) /\ ~Known(<<t, k>>, made) /\ Known(<<t, k>>, g)
        /\ \A r \in db : <<t, k>> \notin r.refs
    BY <1>1, <2>1, FreshIsNew
  <2> QED
    BY <1>3, <2>2 DEF g, k
<1>5. \A i : Known(i, made) => Known(i, made')
  BY <1>2, KnownGrows
<1>6. \A i : Known(i, made') /\ i[1] # t => Known(i, made)
  BY <1>2 DEF Known
<1>7. Ids(db') = Ids(db) \cup {row.id}
  BY DEF Ids
<1>8. /\ \A u : u # t => Table(db', u) = Table(db, u)
      /\ \A u, i : u # t => Referring(db', u, i) = Referring(db, u, i)
  BY <1>3 DEF Table, Referring
<1> QED
  BY <1>2, <1>3, <1>4, <1>5, <1>6, <1>7, <1>8

LEMMA InsertStep ==
  ASSUME IInv, NEW t \in CheckTables \cup {"deliveries"}, NEW row, row.id = Fresh(t), Shape(row),
         Constraints(db \cup {row}), db' = db \cup {row}, made' = [made EXCEPT ![t] = @ + 1],
         UNCHANGED <<req, audit, died>>, DeletionsSucceed',
         Kin(db'), Running(db, made)', Kept(db, made)',
         run'.pc # "idle" => run.pc # "idle" /\ run'.site = run.site,
         run'.pc \notin {"idle", "policy"} =>
           run'.order = run.order /\ run.pc \notin {"idle", "policy"}
  PROVE  IInv'
<1> DEFINE E == db \cup {row}
<1>1. Sound
  BY DEF IInv
<1>2. /\ row.id[1] = t /\ row.id \notin Ids(db) /\ ~Known(row.id, made) /\ Known(row.id, made')
      /\ made' \in [Tables -> Nat] /\ \A u \in Tables : made[u] <= made'[u]
      /\ \A i : Known(i, made) => Known(i, made')
      /\ \A i : Known(i, made') /\ i[1] # t => Known(i, made)
      /\ Ids(db') = Ids(db) \cup {row.id}
      /\ \A u : u # t => Table(db', u) = Table(db, u)
      /\ \A u, i : u # t => Referring(db', u, i) = Referring(db, u, i)
  BY <1>1, NewRow
<1>3. /\ t \notin Main /\ t # "destinations" /\ t # "fetcher_policies"
      /\ t # "fetcher_policy_entries"
  BY DEF CheckTables, Main
<1>4. Sound'
  <2>1. Distinct(db') /\ Schema(db', made')
    BY <1>1, <1>2 DEF Sound, Distinct, Schema, Ids
  <2>2. \A c \in Client : Request(req[c], made')
    BY <1>1, <1>2, RequestKept DEF Sound
  <2>3. DOMAIN req' = Client /\ \A c \in Client : Request(req[c], made)'
    BY <1>1, <2>2 DEF Sound, Request, Known
  <2>4. Constraints(db)'
    BY DEF Constraints, Table, Ids, Referring
  <2>5. Distinct(db)' /\ Schema(db, made)' /\ Kin(db)'
    BY <2>1 DEF Distinct, Schema, Kin, Shape, Known, Table, MonitorsOf
  <2> QED
    BY <1>2, <2>3, <2>4, <2>5 DEF Sound
<1>5. Whole(db)'
  <2>1. /\ Table(db', "fetcher_policies") = Table(db, "fetcher_policies")
        /\ \A i : Referring(db', "fetcher_policy_entries", i) = Referring(db, "fetcher_policy_entries", i)
    BY <1>2, <1>3
  <2>2. Whole(db')
    BY <2>1 DEF IInv, Whole
  <2> QED
    BY <2>2 DEF Whole, Table, Referring
<1>6. run'.pc # "idle" => run.site # row.id
  BY <1>1, <1>2 DEF Sound, Running
<1>7. Governed(db)'
  BY <1>2, <1>3, <1>6 DEF IInv, Governed
<1>8. OrderRead'
  BY <1>2, <1>6 DEF IInv, OrderRead
<1>9. Archived(db') = Archived(db)
  BY <1>2, <1>3 DEF Archived
<1>10. Recorded' = Recorded
  BY DEF Recorded
<1>11. Logged'
  <2>1. \A i : i[1] \in Main => (Known(i, made') <=> Known(i, made)) /\ (i \in Ids(db') <=> i \in Ids(db))
    BY <1>2, <1>3
  <2>2. \A op \in Deletions : \A i : <<op, i>> \in Recorded => Known(i, made) /\ i \notin Ids(db)
    BY DEF IInv, Logged
  <2>3. \A op \in Deletions : \A i : <<op, i>> \in Recorded => Known(i, made') /\ i \notin Ids(db')
    BY <1>2, <2>2
  <2>4. \A i : /\ Known(i, made') /\ i[2] # 0 /\ i \notin Ids(db') /\ i[1] \in {"sites", "sources", "monitors"}
               => \E op \in Deletions : SubjectTable(op) = i[1] /\ <<op, i>> \in Recorded
    <3> SUFFICES ASSUME NEW i, Known(i, made'), i[2] # 0, i \notin Ids(db'),
                        i[1] \in {"sites", "sources", "monitors"}
                 PROVE  \E op \in Deletions : SubjectTable(op) = i[1] /\ <<op, i>> \in Recorded
      OBVIOUS
    <3>2. i[1] \in Main
      BY DEF Main
    <3>1. Known(i, made) /\ i \notin Ids(db)
      BY <2>1, <3>2
    <3> QED
      BY <3>1 DEF IInv, Logged
  <2>5. /\ \A i \in Archived(db') : <<"destination.archive", i>> \in Recorded
        /\ \A c \in Client : /\ req[c].op = "destination.archive" /\ req[c].seen # {}
                             /\ req[c].pc = "write" /\ req[c].id \in Ids(db')
                             => <<"destination.archive", req[c].id>> \in Recorded
    <3>1. ASSUME NEW c \in Client, req[c].op = "destination.archive", req[c].seen # {},
                 req[c].pc = "write", req[c].id \in Ids(db')
          PROVE  <<"destination.archive", req[c].id>> \in Recorded
      <4>1. Request(req[c], made)
        BY <1>1 DEF Sound
      <4>2. req[c].id[1] = "destinations"
        BY <3>1, <4>1 DEF Request, Creations, SubjectTable
      <4>3. req[c].id \in Ids(db)
        BY <1>2, <1>3, <3>1, <4>2
      <4> QED
        BY <3>1, <4>3 DEF IInv, Logged
    <3> QED
      BY <1>9, <3>1 DEF IInv, Logged
  <2> QED
    BY <1>10, <2>3, <2>4, <2>5 DEF Logged, Known, Ids, Archived, Table
<1> QED
  BY <1>4, <1>5, <1>7, <1>8, <1>11 DEF IInv

\* The state of the check goes on, with the rows of another database.
LEMMA RunningMoves ==
  ASSUME Running(db', made'), run.pc # "idle",
         run' = Checking(run'.pc, run'.mon, run'.site, run'.order, run'.rows, run'.archived, run'.todo),
         run'.pc \in {"policy", "match", "deliver"} \cup CheckTables,
         Written(run'.pc) = Written(run.pc),
         run'.mon = run.mon, run'.site = run.site, run'.rows = run.rows
  PROVE  Running(db, made)'
BY DEF Running, Known, Own, Table, MonitorsOf

LEMMA DeliversKeeps ==
  ASSUME IInv, CheckDelivers
  PROVE  /\ IInv'
         /\ \/ db' = db
            \/ \E d \in run.todo : db' = db \cup {Row(Fresh("deliveries"), {run.rows[5], d}, "")}
<1>1. PICK d \in run.todo :
         LET result == Batch(db, << Insert(Row(Fresh("deliveries"), {run.rows[5], d}, "")) >>)
         IN /\ db' = result.rows
            /\ made' = IF result.ok THEN [made EXCEPT !["deliveries"] = @ + 1] ELSE made
            /\ run' = IF result.ok THEN [run EXCEPT !.todo = @ \ {d}] ELSE NoRun
            /\ broken' = IF ~result.ok /\ run.rows[5] \in Ids(db)
                            /\ (run.todo \ {d}) \cap Ids(db) # {}
                         THEN broken \cup {"fanout"} ELSE broken
  BY Zenon DEF CheckDelivers
<1> DEFINE row == Row(Fresh("deliveries"), {run.rows[5], d}, "")
           result == Batch(db, << Insert(row) >>)
           todo == run.todo \ {d}
<1>2. /\ row.id = Fresh("deliveries") /\ row.refs = {run.rows[5], d} /\ row.id[1] = "deliveries"
      /\ row = Row(row.id, row.refs, row.v)
  BY DEF Row, Fresh
<1> HIDE DEF row
<1>3. run.pc = "deliver" /\ UNCHANGED <<req, audit, died>>
  BY DEF CheckDelivers, CheckUnchanged
<1>4. Sound /\ Running(db, made) /\ Kin(db)
  BY DEF IInv, Sound
<1>5. run.rows[5][1] = "changes" /\ d[1] = "destinations"
  <2>1. Written("deliver") = 5 /\ WrittenTable(5) = "changes"
    BY DEF Written, WrittenTable
  <2>2. 5 \in 1..5
    OBVIOUS
  <2> QED
    BY <1>1, <1>3, <1>4, <2>1, <2>2 DEF IInv, Kept, Running
<1>6. Shape(row)
  BY <1>2, <1>5 DEF Shape, Edges, Single, Tables
<1>7. broken' = broken \/ broken' = broken \cup {"fanout"}
  BY <1>1, Zenon
<1>8. DeletionsSucceed'
  BY <1>7 DEF IInv, DeletionsSucceed
<1>9. CASE result.ok
  <2>1. /\ db' = result.rows /\ made' = [made EXCEPT !["deliveries"] = @ + 1]
        /\ run' = [run EXCEPT !.todo = todo]
    BY <1>1, <1>9, Zenon DEF row
  <2>2. result.rows = After(db, Insert(row)) /\ Constraints(After(db, Insert(row)))
    BY <1>9, BatchOfOne, Zenon
  <2>3. After(db, Insert(row)) = db \cup {row}
    BY AfterInsert
  <2>4. db' = db \cup {row} /\ Constraints(db \cup {row})
    BY <2>1, <2>2, <2>3
  <2>5. /\ made' \in [Tables -> Nat] /\ \A u \in Tables : made[u] <= made'[u]
        /\ \A i : Known(i, made) => Known(i, made')
        /\ Ids(db') = Ids(db) \cup {row.id} /\ Table(db', "destinations") = Table(db, "destinations")
    BY <1>2, <1>4, <2>1, <2>4, NewRow
  <2>6. run' = Checking(run.pc, run.mon, run.site, run.order, run.rows, run.archived, todo)
    <3>1. run = Checking(run.pc, run.mon, run.site, run.order, run.rows, run.archived, run.todo)
      BY <1>4 DEF Running
    <3> HIDE DEF todo
    <3>2. [run EXCEPT !.todo = todo]
            = Checking(run.pc, run.mon, run.site, run.order, run.rows, run.archived, todo)
      BY <3>1, CheckGoesOn
    <3> QED
      BY <2>1, <3>2
  <2>7. /\ run'.pc = run.pc /\ run'.mon = run.mon /\ run'.site = run.site
        /\ run'.order = run.order /\ run'.rows = run.rows /\ run'.archived = run.archived
        /\ run'.todo = todo
        /\ run' = Checking(run'.pc, run'.mon, run'.site, run'.order, run'.rows, run'.archived, run'.todo)
    BY <2>6, CheckingFields
  <2>8. \A r \in db' : r.id[1] \in CheckTables => r \in db
    BY <1>2, <2>4 DEF CheckTables
  <2>9. Kin(db') /\ Running(db', made')
    BY <1>4, <2>5, <2>8, KinKept, RunningKept DEF Sound
  <2>10. Running(db, made)'
    BY <1>3, <2>7, <2>9, RunningMoves
  <2>11. Kept(db, made)'
    <3>1. \A i \in run.archived : Known(i, made') /\ i[1] = "destinations"
      BY <2>5 DEF IInv, Kept
    <3>2. run.archived \cap Ids(db') \subseteq Archived(db')
      BY <1>2, <2>5, <3>1 DEF IInv, Kept, Archived
    <3>3. todo \cap run.archived = {} /\ \A x \in todo : x[1] = "destinations"
      BY <1>3 DEF IInv, Kept
    <3> QED
      BY <2>7, <3>1, <3>2, <3>3 DEF Kept, Known, Ids, Archived, Table
  <2>12. IInv'
    <3> DEFINE t == "deliveries"
    <3>1. t \in CheckTables \cup {"deliveries"} /\ row.id = Fresh(t) /\ made' = [made EXCEPT ![t] = @ + 1]
      BY <1>2, <2>1
    <3> HIDE DEF t, result, todo
    <3> QED
      BY <1>3, <1>6, <1>8, <2>4, <2>7, <2>9, <2>10, <2>11, <3>1, InsertStep
  <2> QED
    BY <2>4, <2>12 DEF row
<1>10. CASE ~result.ok
  <2>1. db' = result.rows /\ made' = made /\ run' = NoRun
    BY <1>1, <1>10, Zenon DEF row
  <2>2. db' = db
    BY <1>10, <2>1, BatchOfOne, Zenon
  <2> HIDE DEF result
  <2>3. IInv'
    BY <1>3, <1>8, <2>1, <2>2, NoRunIsSound, RunStep
  <2> QED
    BY <2>2, <2>3
<1> QED
  BY <1>9, <1>10, Zenon

\* What the references of a new row of a check are, and to whom they lead
LEMMA ReferencesOwn ==
  ASSUME Sound, run.pc \in CheckTables, NEW t, t = run.pc, NEW row, row.id = Fresh(t),
         row.refs = References(t), row = Row(row.id, row.refs, row.v), db' = db \cup {row},
         made' = [made EXCEPT ![t] = @ + 1]
  PROVE  /\ Shape(row) /\ Kin(db') /\ Own(db', row, run.mon)
         /\ \A k \in 1..Written(t), r \in db' : r.id = run.rows[k] => Own(db', r, run.mon)
<1> DEFINE m == run.mon
           E == db'
<1>1. /\ row.id[1] = t /\ row.id \notin Ids(db) /\ ~Known(row.id, made)
      /\ \A r \in db : row.id \notin r.refs
      /\ \A u : u # t => Table(E, u) = Table(db, u)
  BY NewRow
<1>2. /\ m[1] = "monitors" /\ Kin(db)
      /\ \A k \in 1..Written(t) :
           /\ Known(run.rows[k], made) /\ run.rows[k][1] = WrittenTable(k)
           /\ \A r \in db : r.id = run.rows[k] => Own(db, r, m)
  BY DEF Sound, Running, CheckTables
<1>3. /\ t = "targets" => Written(t) = 1
      /\ t = "check_attempts" => Written(t) = 2
      /\ t = "snapshots" => Written(t) = 3
      /\ t = "changes" => Written(t) = 4
      /\ t = "check_jobs" => Written(t) = 0
  BY DEF Written
<1>4. /\ WrittenTable(1) = "check_jobs" /\ WrittenTable(2) = "targets"
      /\ WrittenTable(3) = "check_attempts" /\ WrittenTable(4) = "snapshots"
  BY DEF WrittenTable
<1>5. /\ t \in {"check_jobs", "targets"} => row.refs = {m}
      /\ t = "check_attempts" => row.refs = {run.rows[1], run.rows[2], Fetcher(run.order[1])}
      /\ t = "snapshots" => row.refs = {m, run.rows[2], run.rows[3]}
      /\ t = "changes" => row.refs = {m, run.rows[2], run.rows[4]}
  BY DEF References, AttemptReferences, SnapshotReferences, ChangeReferences, CheckTables
<1>6. Fetcher(run.order[1])[1] = "fetchers"
  BY DEF Fetcher
<1>7. /\ t \in {"check_attempts", "snapshots", "changes"} => run.rows[2][1] = "targets"
      /\ t = "check_attempts" => run.rows[1][1] = "check_jobs"
      /\ t = "snapshots" => run.rows[3][1] = "check_attempts"
      /\ t = "changes" => run.rows[4][1] = "snapshots"
  <2>1. 1 \in 1..2 /\ 2 \in 1..2 /\ 2 \in 1..3 /\ 3 \in 1..3 /\ 2 \in 1..4 /\ 4 \in 1..4
    OBVIOUS
  <2> QED
    BY <1>2, <1>3, <1>4, <2>1
\* The rows it refers to belong to the monitor.
<1>8. /\ t \in {"check_attempts", "snapshots", "changes"} =>
           \A r \in db : r.id = run.rows[2] => r.refs = {m}
      /\ t = "check_attempts" => \A r \in db : r.id = run.rows[1] => r.refs = {m}
      /\ t = "snapshots" => \A r \in db : r.id = run.rows[3] =>
           \A j \in Table(db, "check_jobs") : j.id \in r.refs => j.refs = {m}
      /\ t = "changes" => \A r \in db : r.id = run.rows[4] => MonitorsOf(r) \subseteq {m}
  <2>1. 1 \in 1..2 /\ 2 \in 1..2 /\ 2 \in 1..3 /\ 3 \in 1..3 /\ 2 \in 1..4 /\ 4 \in 1..4
    OBVIOUS
  <2>2. t \in {"check_attempts", "snapshots", "changes"} =>
          \A r \in db : r.id = run.rows[2] => Own(db, r, m)
    BY <1>2, <1>3, <2>1
  <2>3. t = "check_attempts" => \A r \in db : r.id = run.rows[1] => Own(db, r, m)
    BY <1>2, <1>3, <2>1
  <2>4. t = "snapshots" => \A r \in db : r.id = run.rows[3] => Own(db, r, m)
    BY <1>2, <1>3, <2>1
  <2>5. t = "changes" => \A r \in db : r.id = run.rows[4] => Own(db, r, m)
    BY <1>2, <1>3, <2>1
  <2> QED
    BY <1>7, <2>2, <2>3, <2>4, <2>5 DEF Own
<1>9. Shape(row)
  <2>1. row.id[1] \in Tables
    BY <1>1 DEF Tables, CheckTables
  <2>2. CASE t \in {"check_jobs", "targets"}
    <3>1. row.refs = {m} /\ m[1] = "monitors"
      BY <1>2, <1>5, <2>2
    <3> QED
      BY <1>1, <2>1, <2>2, <3>1 DEF Shape, Edges
  <2>3. CASE t = "check_attempts"
    <3>1. run.rows[1] \in row.refs
      BY <1>5, <2>3
    <3>2. \A i \in row.refs : i[1] \in {"check_jobs", "targets", "fetchers"}
      BY <1>5, <1>6, <1>7, <2>3
    <3> QED
      BY <1>1, <1>7, <2>1, <2>3, <3>1, <3>2 DEF Shape, Edges, Single
  <2>4. CASE t = "snapshots"
    <3>1. \A i \in row.refs : i[1] \in {"monitors", "targets", "check_attempts"}
      BY <1>2, <1>5, <1>7, <2>4
    <3> QED
      BY <1>1, <2>1, <2>4, <3>1 DEF Shape, Edges, Single
  <2>5. CASE t = "changes"
    <3>1. \A i \in row.refs : i[1] \in {"monitors", "targets", "snapshots"}
      BY <1>2, <1>5, <1>7, <2>5
    <3> QED
      BY <1>1, <2>1, <2>5, <3>1 DEF Shape, Edges, Single
  <2> QED
    BY <2>2, <2>3, <2>4, <2>5 DEF CheckTables
<1>10. \A u : \A x \in Table(E, u) : (x \in Table(db, u) /\ x \in db) \/ (x = row /\ u = t)
  BY <1>1 DEF Table
<1>11. \A x \in db : row.id \notin x.refs
  BY <1>1
<1>12. Kin(E)
  <2>1. ASSUME NEW a \in Table(E, "check_attempts"), NEW j \in Table(E, "check_jobs"),
               NEW x \in Table(E, "targets"), j.id \in a.refs, x.id \in a.refs
        PROVE  j.refs = x.refs
    <3>1. CASE a = row
      <4>1. t = "check_attempts" /\ j \in db /\ x \in db
        BY <1>1, <1>10, <3>1 DEF Table
      <4>2. j.id = run.rows[1] /\ x.id = run.rows[2]
        BY <1>5, <1>6, <1>7, <2>1, <3>1, <4>1 DEF Table
      <4> QED
        BY <1>8, <4>1, <4>2
    <3>2. CASE a # row
      <4>1. /\ a \in Table(db, "check_attempts") /\ j \in Table(db, "check_jobs")
            /\ x \in Table(db, "targets")
        BY <1>10, <1>11, <2>1, <3>2
      <4> QED
        BY <1>2, <2>1, <4>1 DEF Kin
    <3> QED
      BY <3>1, <3>2
  <2>2. ASSUME NEW s \in Table(E, "snapshots"), NEW a \in Table(E, "check_attempts"),
               NEW j \in Table(E, "check_jobs"), a.id \in s.refs, j.id \in a.refs
        PROVE  j.refs \subseteq s.refs
    <3>1. CASE s = row
      <4>1. t = "snapshots" /\ a \in db /\ j \in Table(db, "check_jobs")
        BY <1>1, <1>10, <3>1 DEF Table
      <4>2. a.id = run.rows[3] /\ m \in s.refs
        BY <1>2, <1>5, <1>7, <2>2, <3>1, <4>1 DEF Table
      <4>3. j.refs = {m}
        BY <1>8, <2>2, <4>1, <4>2
      <4> QED
        BY <4>2, <4>3
    <3>2. CASE s # row
      <4>1. s \in Table(db, "snapshots") /\ a \in Table(db, "check_attempts") /\ a \in db
        BY <1>10, <1>11, <2>2, <3>2
      <4>2. j \in Table(db, "check_jobs")
        BY <1>10, <1>11, <2>2, <4>1
      <4> QED
        BY <1>2, <2>2, <4>1, <4>2 DEF Kin
    <3> QED
      BY <3>1, <3>2
  <2>3. ASSUME NEW x \in Table(E, "snapshots") \cup Table(E, "changes"), NEW y \in Table(E, "targets"),
               y.id \in x.refs
        PROVE  y.refs \subseteq x.refs
    <3>1. CASE x = row
      <4>1. t \in {"snapshots", "changes"} /\ y \in db /\ y.id[1] = "targets"
        BY <1>1, <1>10, <3>1 DEF Table
      <4>2. y.id = run.rows[2] /\ m \in x.refs
        BY <1>2, <1>5, <1>7, <2>3, <3>1, <4>1
      <4> QED
        BY <1>8, <4>1, <4>2
    <3>2. CASE x # row
      <4>1. x \in Table(db, "snapshots") \cup Table(db, "changes") /\ y \in Table(db, "targets")
        BY <1>10, <1>11, <2>3, <3>2
      <4> QED
        BY <1>2, <2>3, <4>1 DEF Kin
    <3> QED
      BY <3>1, <3>2
  <2>4. ASSUME NEW c \in Table(E, "changes"), NEW s \in Table(E, "snapshots"), s.id \in c.refs
        PROVE  MonitorsOf(s) \subseteq c.refs
    <3>1. CASE c = row
      <4>1. t = "changes" /\ s \in db /\ s.id[1] = "snapshots"
        BY <1>1, <1>10, <3>1 DEF Table
      <4>2. s.id = run.rows[4] /\ m \in c.refs
        BY <1>2, <1>5, <1>7, <2>4, <3>1, <4>1
      <4> QED
        BY <1>8, <4>1, <4>2
    <3>2. CASE c # row
      <4>1. c \in Table(db, "changes") /\ s \in Table(db, "snapshots")
        BY <1>10, <1>11, <2>4, <3>2
      <4> QED
        BY <1>2, <2>4, <4>1 DEF Kin
    <3> QED
      BY <3>1, <3>2
  <2>5. \A a \in Table(E, "check_attempts"), j \in Table(E, "check_jobs"), x \in Table(E, "targets") :
          j.id \in a.refs /\ x.id \in a.refs => j.refs = x.refs
    <3> HIDE DEF E
    <3> QED
      BY <2>1, Zenon
  <2>6. \A s \in Table(E, "snapshots"), a \in Table(E, "check_attempts"), j \in Table(E, "check_jobs") :
          a.id \in s.refs /\ j.id \in a.refs => j.refs \subseteq s.refs
    BY <2>2
  <2>7. \A x \in Table(E, "snapshots") \cup Table(E, "changes"), y \in Table(E, "targets") :
          y.id \in x.refs => y.refs \subseteq x.refs
    BY <2>3
  <2>8. \A c \in Table(E, "changes"), s \in Table(E, "snapshots") :
          s.id \in c.refs => MonitorsOf(s) \subseteq c.refs
    BY <2>4
  <2> QED
    BY <2>5, <2>6, <2>7, <2>8, Zenon DEF Kin
<1>13. Own(E, row, m)
  <2>1. CASE t \in {"check_jobs", "targets"}
    BY <1>1, <1>5, <2>1 DEF Own
  <2>2. CASE t = "check_attempts"
    <3>1. \A j \in Table(E, "check_jobs") : j.id \in row.refs => j.refs = {m}
      <4> SUFFICES ASSUME NEW j \in Table(E, "check_jobs"), j.id \in row.refs  PROVE j.refs = {m}
        OBVIOUS
      <4>1. j \in db /\ j.id[1] = "check_jobs"
        BY <1>10, <2>2 DEF Table
      <4>2. j.id = run.rows[1]
        BY <1>5, <1>6, <1>7, <2>2, <4>1
      <4> QED
        BY <1>8, <2>2, <4>1, <4>2
    <3> QED
      BY <1>1, <2>2, <3>1 DEF Own
  <2>3. CASE t = "snapshots"
    <3>1. MonitorsOf(row) \subseteq {m}
      BY <1>5, <1>7, <2>3 DEF MonitorsOf
    <3> QED
      BY <1>1, <2>3, <3>1 DEF Own
  <2>4. CASE t = "changes"
    BY <1>1, <2>4 DEF Own
  <2> QED
    BY <2>1, <2>2, <2>3, <2>4 DEF CheckTables
<1>14. ASSUME NEW k \in 1..Written(t), NEW r \in E, r.id = run.rows[k]
       PROVE  Own(E, r, m)
  <2>1. r \in db
    BY <1>1, <1>2, <1>14
  <2>2. Own(db, r, m)
    BY <1>2, <1>14, <2>1
  <2>3. \A j \in Table(E, "check_jobs") : j.id \in r.refs => j \in Table(db, "check_jobs")
    BY <1>10, <1>11, <2>1
  <2> QED
    BY <2>2, <2>3 DEF Own
<1> QED
  BY <1>9, <1>12, <1>13, <1>14

\* The next table of a check
LEMMA NextTables ==
  ASSUME NEW t \in CheckTables
  PROVE  /\ NextTable(t) \in {"match"} \cup CheckTables
         /\ Written(t) \in 0..4 /\ Written(NextTable(t)) = Written(t) + 1
         /\ WrittenTable(Written(t) + 1) = t
BY DEF CheckTables, NextTable, Written, WrittenTable

\* The state of the check after it has created or found a row
LEMMA RunningAppends ==
  ASSUME NEW t \in CheckTables, run.pc = t, run.mon[1] = "monitors", run.site[1] = "sites",
         Known(run.mon, made'), Known(run.site, made'),
         DOMAIN run.rows = 1..Written(t), run.rows \in Seq({run.rows[k] : k \in DOMAIN run.rows}),
         NEW id, Known(id, made'), id[1] = t,
         \A k \in 1..Written(t) : /\ Known(run.rows[k], made') /\ run.rows[k][1] = WrittenTable(k)
                                  /\ \A r \in db' : r.id = run.rows[k] => Own(db', r, run.mon),
         \A r \in db' : r.id = id => Own(db', r, run.mon),
         run'.pc = NextTable(t), run'.mon = run.mon, run'.site = run.site,
         run'.rows = Append(run.rows, id),
         run' = Checking(run'.pc, run'.mon, run'.site, run'.order, run'.rows, run'.archived, run'.todo)
  PROVE  Running(db, made)'
<1> DEFINE n == Written(t)
           S == {run.rows[k] : k \in DOMAIN run.rows}
           rows == Append(run.rows, id)
<1>1. n \in 0..4 /\ Written(NextTable(t)) = n + 1 /\ WrittenTable(n + 1) = t
  BY NextTables
<1>2. run.rows \in Seq(S \cup {id}) /\ Len(run.rows) = n
  BY <1>1
<1>3. /\ DOMAIN rows = 1..n + 1 /\ rows[n + 1] = id /\ \A k \in 1..n : rows[k] = run.rows[k]
      /\ rows \in Seq(S \cup {id})
  <2> DEFINE T == S \cup {id}
             q == run.rows
  <2>1. q \in Seq(T) /\ id \in T /\ Len(q) = n /\ n \in Nat
    BY <1>1, <1>2
  <2> HIDE DEF T, q, n
  <2>2. /\ Append(q, id) \in Seq(T) /\ DOMAIN Append(q, id) = 1..n + 1 /\ Append(q, id)[n + 1] = id
        /\ \A k \in 1..n : Append(q, id)[k] = q[k]
    BY <2>1
  <2> QED
    BY <2>2 DEF T, q
<1> HIDE DEF n, rows, S
<1>4. rows \in Seq({rows[k] : k \in DOMAIN rows})
  <2> DEFINE R == {rows[k] : k \in DOMAIN rows}
  <2>1. rows = [k \in 1..n + 1 |-> rows[k]] /\ \A k \in 1..n + 1 : rows[k] \in R
    BY <1>3
  <2> HIDE DEF R
  <2>2. rows \in [1..n + 1 -> R] /\ n + 1 \in Nat
    BY <1>1, <2>1
  <2>3. rows \in Seq(R)
    BY <2>2, SeqDef
  <2> QED
    BY <2>3 DEF R
<1>5. \A k \in 1..n + 1 :
         /\ Known(rows[k], made') /\ rows[k][1] = WrittenTable(k)
         /\ \A r \in db' : r.id = rows[k] => Own(db', r, run.mon)
  <2>1. \A k \in 1..n + 1 : k = n + 1 \/ k \in 1..n
    BY <1>1
  <2> QED
    BY <1>1, <1>3, <2>1 DEF n
<1>6. /\ run'.rows = rows /\ Written(run'.pc) = n + 1 /\ DOMAIN run'.rows = 1..Written(run'.pc)
      /\ run'.pc \in {"policy", "match", "deliver"} \cup CheckTables
  BY <1>1, <1>3, NextTables DEF rows
<1>7. \A k \in 1..Written(run'.pc) :
         /\ Known(run'.rows[k], made') /\ run'.rows[k][1] = WrittenTable(k)
         /\ \A r \in db' : r.id = run'.rows[k] => Own(db', r, run'.mon)
  BY <1>5, <1>6
<1> QED
  BY <1>4, <1>6, <1>7 DEF Running, Known, Own, Table, MonitorsOf

LEMMA InsertsKeeps ==
  ASSUME IInv, CheckInserts
  PROVE  /\ IInv'
         /\ \A r \in db' : r \in db \/ r.id[1] \in CheckTables
         /\ db \subseteq db'
<1> DEFINE t == run.pc
           found == FoundTarget(t)
           id == IF found = {} THEN Fresh(t) ELSE CHOOSE x \in found : TRUE
           row == Row(id, References(t), "")
           one == Batch(db, << Insert(row) >>)
           result == IF found # {} THEN [ok |-> TRUE, rows |-> db] ELSE one
           rows == Append(run.rows, id)
           arch == IF t = "changes" THEN Archived(db) ELSE run.archived
<1>1. /\ t \in CheckTables
      /\ db' = result.rows
      /\ made' = IF result.ok /\ found = {} THEN [made EXCEPT ![t] = @ + 1] ELSE made
      /\ run' = IF ~result.ok THEN NoRun
                ELSE [run EXCEPT !.pc = NextTable(t), !.rows = rows, !.archived = arch]
      /\ UNCHANGED broken /\ UNCHANGED <<req, audit, died, requests>>
  BY Zenon DEF CheckInserts, CheckUnchanged, CheckTables
<1>2. DeletionsSucceed'
  BY <1>1 DEF IInv, DeletionsSucceed
<1>3. Sound /\ Running(db, made) /\ run.pc # "idle"
  BY <1>1 DEF IInv, Sound, CheckTables
<1>4. /\ run = Checking(run.pc, run.mon, run.site, run.order, run.rows, run.archived, run.todo)
      /\ run.mon[1] = "monitors" /\ run.site[1] = "sites"
      /\ Known(run.mon, made) /\ Known(run.site, made)
      /\ DOMAIN run.rows = 1..Written(t) /\ run.rows \in Seq({run.rows[k] : k \in DOMAIN run.rows})
      /\ \A k \in 1..Written(t) :
           /\ Known(run.rows[k], made) /\ run.rows[k][1] = WrittenTable(k)
           /\ \A r \in db : r.id = run.rows[k] => Own(db, r, run.mon)
  BY <1>3 DEF Running
\* The state of the check after a success
<1>5. ASSUME run' = [run EXCEPT !.pc = NextTable(t), !.rows = rows, !.archived = arch]
      PROVE  /\ run'.pc = NextTable(t) /\ run'.mon = run.mon /\ run'.site = run.site
             /\ run'.order = run.order /\ run'.rows = rows /\ run'.archived = arch
             /\ run' = Checking(run'.pc, run'.mon, run'.site, run'.order, run'.rows, run'.archived, run'.todo)
  <2> DEFINE pc == NextTable(t)
  <2> HIDE DEF pc, rows, arch
  <2>1. run' = Checking(pc, run.mon, run.site, run.order, rows, arch, run.todo)
    BY <1>4, <1>5, CheckGoesOn DEF pc
  <2> QED
    BY <2>1, CheckingFields DEF pc
<1>6. NextTable(t) \notin {"idle", "policy", "deliver"}
  BY <1>1 DEF CheckTables, NextTable
<1>7. /\ \A i \in arch : Known(i, made) /\ i[1] = "destinations"
      /\ arch \cap Ids(db) \subseteq Archived(db)
  <2>1. \A i \in Archived(db) : Known(i, made) /\ i[1] = "destinations"
    BY <1>3 DEF Archived, Table, Sound, Schema
  <2> QED
    BY <2>1 DEF IInv, Kept
<1>8. CASE found # {}
  <2>1. /\ db' = db /\ made' = made
        /\ run' = [run EXCEPT !.pc = NextTable(t), !.rows = rows, !.archived = arch]
    <3>1. result = [ok |-> TRUE, rows |-> db]
      BY <1>8
    <3> HIDE DEF result, found
    <3>2. result.ok = TRUE /\ result.rows = db
      BY <3>1
    <3> QED
      BY <1>1, <1>8, <3>2
  <2>2. id \in found
    BY <1>8
  <2>3. PICK r \in db : r.id = id /\ r.id[1] = "targets" /\ run.mon \in r.refs /\ t = "targets"
    BY <1>8, <2>2 DEF FoundTarget, Ids, Referring, Table
  <2> HIDE DEF id, found
  <2>4. r.refs = {run.mon} /\ Known(id, made) /\ id[1] = t
    BY <1>3, <2>3 DEF Sound, Schema, Shape, Single
  <2>5. \A x \in db : x.id = id => Own(db, x, run.mon)
    BY <1>3, <2>3, <2>4 DEF Sound, Distinct, Own
  <2>6. Running(db, made)'
    <3>1. \A k \in 1..Written(t) :
            /\ Known(run.rows[k], made') /\ run.rows[k][1] = WrittenTable(k)
            /\ \A x \in db' : x.id = run.rows[k] => Own(db', x, run.mon)
      BY <1>4, <2>1
    <3>2. Known(id, made') /\ Known(run.mon, made') /\ Known(run.site, made')
          /\ \A x \in db' : x.id = id => Own(db', x, run.mon)
      BY <1>4, <2>1, <2>4, <2>5
    <3> QED
      BY <1>1, <1>4, <1>5, <2>1, <2>4, <3>1, <3>2, RunningAppends
  <2>7. Governed(db)' /\ OrderRead' /\ Kept(db, made)'
    <3>1. Governed(db)'
      BY <1>3, <1>5, <2>1 DEF IInv, Governed, Referring, Table, Ids
    <3>2. OrderRead'
      BY <1>1, <1>5, <2>1 DEF IInv, OrderRead, Ids, CheckTables
    <3>3. Kept(db, made)'
      BY <1>5, <1>6, <1>7, <2>1 DEF Kept, Known, Ids, Archived, Table
    <3> QED
      BY <3>1, <3>2, <3>3
  <2> HIDE DEF row, one, result, rows, arch
  <2>8. IInv'
    BY <1>1, <1>2, <2>1, <2>6, <2>7, RunStep
  <2> QED
    BY <2>1, <2>8
<1>9. CASE found = {} /\ one.ok
  <2>1. /\ db' = one.rows /\ made' = [made EXCEPT ![t] = @ + 1]
        /\ run' = [run EXCEPT !.pc = NextTable(t), !.rows = rows, !.archived = arch]
    BY <1>1, <1>9, Zenon
  <2>2. id = Fresh(t)
    BY <1>9
  <2>3. row.id = Fresh(t) /\ row.refs = References(t) /\ row = Row(row.id, row.refs, row.v)
    BY <2>2 DEF Row
  <2> HIDE DEF row, id, found
  <2>4. one.rows = After(db, Insert(row)) /\ Constraints(After(db, Insert(row)))
    BY <1>9, BatchOfOne, Zenon
  <2>5. After(db, Insert(row)) = db \cup {row}
    BY AfterInsert
  <2>6. db' = db \cup {row} /\ Constraints(db \cup {row})
    BY <2>1, <2>4, <2>5
  <2> HIDE DEF one, result
  <2>7. /\ row.id[1] = t /\ row.id \notin Ids(db) /\ Known(row.id, made')
        /\ \A i : Known(i, made) => Known(i, made')
        /\ Ids(db') = Ids(db) \cup {row.id} /\ \A u : u # t => Table(db', u) = Table(db, u)
    BY <1>1, <1>3, <2>1, <2>3, <2>6, NewRow
  <2>8. /\ Shape(row) /\ Kin(db') /\ Own(db', row, run.mon)
        /\ \A k \in 1..Written(t), r \in db' : r.id = run.rows[k] => Own(db', r, run.mon)
    BY <1>1, <1>3, <2>1, <2>3, <2>6, ReferencesOwn
  <2>9. Running(db, made)'
    <3>1. \A k \in 1..Written(t) :
            /\ Known(run.rows[k], made') /\ run.rows[k][1] = WrittenTable(k)
            /\ \A x \in db' : x.id = run.rows[k] => Own(db', x, run.mon)
      BY <1>4, <2>7, <2>8
    <3>2. \A x \in db' : x.id = id => Own(db', x, run.mon)
      BY <2>2, <2>3, <2>6, <2>7, <2>8 DEF Ids
    <3>3. Known(id, made') /\ id[1] = t /\ Known(run.mon, made') /\ Known(run.site, made')
      BY <1>4, <2>2, <2>3, <2>7
    <3> QED
      BY <1>1, <1>4, <1>5, <2>1, <3>1, <3>2, <3>3, RunningAppends
  <2>10. Kept(db, made)'
    <3>1. t # "destinations"
      BY <1>1 DEF CheckTables
    <3>2. Archived(db') = Archived(db)
      BY <2>7, <3>1 DEF Archived
    <3>3. arch \cap Ids(db') \subseteq Archived(db')
      BY <1>7, <2>7, <3>1, <3>2
    <3>4. \A i \in arch : Known(i, made') /\ i[1] = "destinations"
      BY <1>7, <2>7
    <3> HIDE DEF arch
    <3> QED
      BY <1>5, <1>6, <2>1, <3>3, <3>4 DEF Kept, Known, Ids, Archived, Table
  <2>11. IInv'
    <3>1. /\ run'.pc # "idle" => run.pc # "idle" /\ run'.site = run.site
          /\ run'.order = run.order /\ run.pc \notin {"idle", "policy"}
      BY <1>1, <1>3, <1>5, <2>1 DEF CheckTables
    <3>2. t \in CheckTables \cup {"deliveries"}
      BY <1>1
    <3> HIDE DEF t, rows, arch
    <3> QED
      BY <1>1, <1>2, <2>1, <2>3, <2>6, <2>8, <2>9, <2>10, <3>1, <3>2, InsertStep
  <2> QED
    BY <1>1, <2>6, <2>7, <2>11
<1>10. CASE found = {} /\ ~one.ok
  <2>1. db' = one.rows /\ made' = made /\ run' = NoRun
    BY <1>1, <1>10, Zenon
  <2>2. db' = db
    BY <1>10, <2>1, BatchOfOne, Zenon
  <2> HIDE DEF one, result, row, id, found, rows, arch
  <2>3. IInv'
    BY <1>1, <1>2, <2>1, <2>2, NoRunIsSound, RunStep
  <2> QED
    BY <2>2, <2>3
<1> QED
  BY <1>8, <1>9, <1>10, Zenon

-----------------------------------------------------------------------------
(* The theorems *)

\* The first rows satisfy the invariant.
LEMMA InitIsSound ==
  ASSUME Init
  PROVE  IInv
<1> DEFINE o == CHOOSE x \in Order : Len(x) = 1
           f == o[1]
           site == Row(<<"sites", 1>>, {}, "")
           source == Row(<<"sources", 1>>, {<<"sites", 1>>}, "")
           monitor == Row(<<"monitors", 1>>, {<<"sites", 1>>, <<"sources", 1>>}, "")
           policy == Row(<<"fetcher_policies", 1>>, {<<"sites", 1>>}, "")
           entry == Row(<<"fetcher_policy_entries", 1>>, {<<"fetcher_policies", 1>>, Fetcher(f)}, Place(1))
           dest == Row(<<"destinations", 1>>, {}, "live")
           sub == Row(<<"subscriptions", 1>>, {<<"destinations", 1>>}, "")
           known == {"sites", "sources", "monitors", "fetcher_policies",
                     "fetcher_policy_entries", "destinations", "subscriptions"}
<1>1. o \in Order /\ Len(o) = 1 /\ f \in Fetchers
  <2>1. o \in Order /\ Len(o) = 1
    BY OrderAssumption
  <2>2. o[1] \in {o[i] : i \in 1..Len(o)}
    BY <2>1
  <2> HIDE DEF o
  <2> QED
    BY <2>1, <2>2 DEF Fetchers
<1>2. db = {Row(Fetcher(x), {}, "") : x \in Fetchers}
           \cup {site, source, monitor, policy, entry, dest, sub}
  BY DEF Init
<1>3. made = [t \in Tables |-> IF t \in known THEN 1 ELSE 0]
  BY DEF Init
<1>4. /\ req = [c \in Client |-> NoRequest] /\ run = NoRun
      /\ audit = {} /\ died = {} /\ broken = {}
  BY DEF Init
<1>5. /\ site.id = <<"sites", 1>> /\ site.refs = {} /\ site = Row(site.id, site.refs, site.v)
      /\ source.id = <<"sources", 1>> /\ source.refs = {<<"sites", 1>>}
      /\ source = Row(source.id, source.refs, source.v)
      /\ monitor.id = <<"monitors", 1>> /\ monitor.refs = {<<"sites", 1>>, <<"sources", 1>>}
      /\ monitor = Row(monitor.id, monitor.refs, monitor.v)
      /\ policy.id = <<"fetcher_policies", 1>> /\ policy.refs = {<<"sites", 1>>}
      /\ policy = Row(policy.id, policy.refs, policy.v)
      /\ entry.id = <<"fetcher_policy_entries", 1>>
      /\ entry.refs = {<<"fetcher_policies", 1>>, Fetcher(f)}
      /\ entry = Row(entry.id, entry.refs, entry.v)
      /\ dest.id = <<"destinations", 1>> /\ dest.refs = {} /\ dest.v = "live"
      /\ dest = Row(dest.id, dest.refs, dest.v)
      /\ sub.id = <<"subscriptions", 1>> /\ sub.refs = {<<"destinations", 1>>}
      /\ sub = Row(sub.id, sub.refs, sub.v)
  BY DEF Row
<1>6. \A x : /\ Row(Fetcher(x), {}, "").id = Fetcher(x) /\ Row(Fetcher(x), {}, "").refs = {}
             /\ Row(Fetcher(x), {}, "")
                  = Row(Row(Fetcher(x), {}, "").id, Row(Fetcher(x), {}, "").refs, Row(Fetcher(x), {}, "").v)
  BY DEF Row
<1>7. \A x : Fetcher(x)[1] = "fetchers" /\ Fetcher(x) = <<Fetcher(x)[1], Fetcher(x)[2]>>
  BY DEF Fetcher
<1>8. entry = Row(<<"fetcher_policy_entries", 0 + 1>>, {policy.id, Fetcher(o[1])}, Place(1))
  <2>1. 0 + 1 = 1
    OBVIOUS
  <2>2. entry = Row(<<"fetcher_policy_entries", 1>>, {<<"fetcher_policies", 1>>, Fetcher(o[1])}, Place(1))
    OBVIOUS
  <2>3. policy.id = <<"fetcher_policies", 1>>
    BY <1>5
  <2> HIDE DEF entry, policy, o
  <2> QED
    BY <2>1, <2>2, <2>3
<1> HIDE DEF o, f, site, source, monitor, policy, entry, dest, sub
<1> DEFINE Other == {site, source, monitor, policy, entry, dest, sub}
<1>9. \A r \in db : \/ r \in Other
                    \/ /\ r.id[1] = "fetchers" /\ r.refs = {} /\ r = Row(r.id, r.refs, r.v)
                       /\ r.id = <<r.id[1], r.id[2]>>
                       /\ \E x \in Fetchers : r = Row(Fetcher(x), {}, "") /\ r.id = Fetcher(x)
  BY <1>2, <1>6, <1>7
<1>10. Other \subseteq db /\ Fetcher(f) \in Ids(db)
  BY <1>1, <1>2, <1>6 DEF Ids
<1>11. {site.id, source.id, monitor.id, policy.id, entry.id, dest.id, sub.id} \subseteq Ids(db)
  BY <1>10 DEF Ids
<1>12. \A t : t # "fetchers" => \A r \in Table(db, t) : r \in Other /\ r.id[1] = t
  BY <1>9 DEF Table
<1>13. made \in [Tables -> Nat] /\ known \subseteq Tables /\ \A t \in known : made[t] = 1
  BY <1>3 DEF Tables
<1>14. Constraints(db)
  <2>1. \A r \in db : r.refs \subseteq Ids(db)
    <3> SUFFICES ASSUME NEW r \in Other  PROVE r.refs \subseteq Ids(db)
      BY <1>9
    <3> QED
      BY <1>5, <1>10, <1>11
  <2>2. \A t \in Unique : \A r, q \in Table(db, t) : r = q
    BY <1>5, <1>12 DEF Unique
  <2>3. \A p \in Table(db, "fetcher_policies") :
          \A r, q \in Referring(db, "fetcher_policy_entries", p.id) : r = q
    BY <2>2 DEF Referring, Unique
  <2> QED
    BY <2>1, <2>2, <2>3 DEF Constraints
<1>15. Distinct(db)
  <2> SUFFICES ASSUME NEW r \in db, NEW q \in db, r.id = q.id  PROVE r = q
    BY DEF Distinct
  <2>1. CASE r \notin Other
    <3>1. q \notin Other
      <4>1. r.id[1] = "fetchers"
        BY <1>9, <2>1
      <4>2. \A k \in Other : k.id[1] # "fetchers"
        BY <1>5
      <4> QED
        BY <4>1, <4>2
    <3>2. PICK x \in Fetchers : r = Row(Fetcher(x), {}, "") /\ r.id = Fetcher(x)
      BY <1>9, <2>1
    <3>3. PICK y \in Fetchers : q = Row(Fetcher(y), {}, "") /\ q.id = Fetcher(y)
      BY <1>9, <3>1
    <3>4. Fetcher(x) = Fetcher(y)
      BY <3>2, <3>3
    <3> QED
      BY <3>2, <3>3, <3>4
  <2>2. CASE r \in Other
    <3>1. r.id[1] # "fetchers"
      BY <1>5, <2>2
    <3>2. q \in Other
      BY <1>9, <3>1
    <3>3. r.id[1] = q.id[1]
      OBVIOUS
    <3>4. /\ site.id[1] = "sites" /\ source.id[1] = "sources" /\ monitor.id[1] = "monitors"
          /\ policy.id[1] = "fetcher_policies" /\ entry.id[1] = "fetcher_policy_entries"
          /\ dest.id[1] = "destinations" /\ sub.id[1] = "subscriptions"
      BY <1>5
    <3> QED
      BY <2>2, <3>2, <3>3, <3>4
  <2> QED
    BY <2>1, <2>2
<1>16. Schema(db, made)
  <2> SUFFICES ASSUME NEW r \in db  PROVE Shape(r) /\ Known(r.id, made)
    BY DEF Schema
  <2>1. CASE r \notin Other
    BY <1>9, <2>1 DEF Shape, Known, Tables, Single
  <2>2. CASE r \in Other
    <3>1. Known(r.id, made)
      BY <1>5, <1>13, <2>2 DEF Known
    <3>2. Shape(site) /\ Shape(source) /\ Shape(dest) /\ Shape(sub)
      <4>1. Shape(site)
        <5>1. site.id[1] \in Tables /\ site.id[1] \notin Single
              /\ site.id[1] # "check_attempts" /\ site.id[1] # "fetcher_policy_entries"
          BY <1>5 DEF Tables, Single
        <5>2. \A i \in site.refs : <<site.id[1], i[1]>> \in Edges
          BY <1>5 DEF Edges
        <5>3. site = Row(site.id, site.refs, site.v)
          BY <1>5
        <5> QED
          BY <5>1, <5>2, <5>3 DEF Shape
      <4>2. Shape(source)
        <5>1. source.id[1] \in Tables /\ source.id[1] \notin Single
              /\ source.id[1] # "check_attempts" /\ source.id[1] # "fetcher_policy_entries"
          BY <1>5 DEF Tables, Single
        <5>2. \A i \in source.refs : <<source.id[1], i[1]>> \in Edges
          BY <1>5 DEF Edges
        <5>3. source = Row(source.id, source.refs, source.v)
          BY <1>5
        <5> QED
          BY <5>1, <5>2, <5>3 DEF Shape
      <4>3. Shape(dest)
        <5>1. dest.id[1] \in Tables /\ dest.id[1] \notin Single
              /\ dest.id[1] # "check_attempts" /\ dest.id[1] # "fetcher_policy_entries"
          BY <1>5 DEF Tables, Single
        <5>2. \A i \in dest.refs : <<dest.id[1], i[1]>> \in Edges
          BY <1>5 DEF Edges
        <5>3. dest = Row(dest.id, dest.refs, dest.v)
          BY <1>5
        <5> QED
          BY <5>1, <5>2, <5>3 DEF Shape
      <4>4. Shape(sub)
        <5>1. sub.id[1] \in Tables /\ sub.id[1] \notin Single
              /\ sub.id[1] # "check_attempts" /\ sub.id[1] # "fetcher_policy_entries"
          BY <1>5 DEF Tables, Single
        <5>2. \A i \in sub.refs : <<sub.id[1], i[1]>> \in Edges
          BY <1>5 DEF Edges
        <5>3. sub = Row(sub.id, sub.refs, sub.v)
          BY <1>5
        <5> QED
          BY <5>1, <5>2, <5>3 DEF Shape
      <4> QED
        BY <4>1, <4>2, <4>3, <4>4
    <3>3. Shape(monitor)
      <4>1. monitor.id[1] \in Tables /\ monitor.id[1] \notin Single
            /\ monitor.id[1] # "check_attempts" /\ monitor.id[1] # "fetcher_policy_entries"
        BY <1>5 DEF Tables, Single
      <4>2. \A i \in monitor.refs : <<monitor.id[1], i[1]>> \in Edges
        BY <1>5 DEF Edges
      <4>3. monitor = Row(monitor.id, monitor.refs, monitor.v)
        BY <1>5
      <4> QED
        BY <4>1, <4>2, <4>3 DEF Shape
    <3>4. Shape(policy)
      <4>1. policy.id[1] \in Tables
            /\ policy.id[1] # "check_attempts" /\ policy.id[1] # "fetcher_policy_entries"
        BY <1>5 DEF Tables
      <4>2. \A i \in policy.refs : <<policy.id[1], i[1]>> \in Edges
        BY <1>5 DEF Edges
      <4>3. policy = Row(policy.id, policy.refs, policy.v) /\ policy.refs = {<<"sites", 1>>}
        BY <1>5
      <4> QED
        BY <4>1, <4>2, <4>3 DEF Shape
    <3>5. Shape(entry)
      <4>1. entry.id[1] = "fetcher_policy_entries" /\ "fetcher_policy_entries" \in Tables
            /\ entry.id[1] \notin Single /\ entry.id[1] # "check_attempts"
        BY <1>5 DEF Tables, Single
      <4>2. \A i \in entry.refs : \/ i = <<"fetcher_policies", 1>>
                                  \/ i[1] = "fetchers"
        BY <1>5, <1>7
      <4>3. \A i \in entry.refs : <<entry.id[1], i[1]>> \in Edges
        BY <4>1, <4>2 DEF Edges
      <4>4. entry = Row(entry.id, entry.refs, entry.v)
        BY <1>5
      <4>5. \A i, k \in entry.refs : i[1] = "fetcher_policies" /\ k[1] = "fetcher_policies" => i = k
        BY <4>2
      <4> QED
        BY <4>1, <4>3, <4>4, <4>5 DEF Shape
    <3> QED
      BY <2>2, <3>1, <3>2, <3>3, <3>4, <3>5
  <2> QED
    BY <2>1, <2>2
<1>17. \A t \in CheckTables : Table(db, t) = {}
  BY <1>5, <1>12 DEF CheckTables
<1>18. Kin(db)
  BY <1>17 DEF Kin, CheckTables
<1>19. /\ run.pc = "idle" /\ run.archived = {}
       /\ run = Checking(run.pc, run.mon, run.site, run.order, run.rows, run.archived, run.todo)
  BY <1>4 DEF NoRun, Checking
<1>20. Sound
  <2>1. Running(db, made)
    BY <1>19 DEF Running
  <2>2. DOMAIN req = Client /\ \A c \in Client : Request(req[c], made)
    BY <1>4, Idle
  <2> QED
    BY <1>13, <1>14, <1>15, <1>16, <1>18, <2>1, <2>2 DEF Sound
<1>21. Whole(db)
  <2> SUFFICES ASSUME NEW p \in Table(db, "fetcher_policies")
               PROVE  Referring(db, "fetcher_policy_entries", p.id) = EntriesOf(p.id, o, 0)
    BY <1>1 DEF Whole
  <2>1. p = policy
    BY <1>5, <1>12
  <2>2. Referring(db, "fetcher_policy_entries", policy.id) = {entry}
    BY <1>5, <1>10, <1>12 DEF Referring, Table
  <2>3. EntriesOf(policy.id, o, 0) = {entry}
    <3>1. 1..Len(o) = {1}
      BY <1>1
    <3> QED
      BY <1>8, <3>1 DEF EntriesOf
  <2> QED
    BY <2>1, <2>2, <2>3
<1>22. Archived(db) = {}
  BY <1>5, <1>12 DEF Archived, Table
<1>23. Recorded = {}
  BY <1>4 DEF Recorded, Recording, NoRequest
<1>24. Logged
  <2>1. ASSUME NEW i, Known(i, made), i[2] # 0, i[1] \in {"sites", "sources", "monitors"}
        PROVE  i \in Ids(db)
    <3>1. made[i[1]] = 1
      BY <1>13, <2>1
    <3>2. i = <<i[1], 1>>
      BY <2>1, <3>1 DEF Known
    <3> QED
      BY <1>5, <1>11, <2>1, <3>2
  <2>2. \A c \in Client : req[c].pc # "write"
    BY <1>4 DEF NoRequest
  <2> QED
    BY <1>22, <1>23, <2>1, <2>2 DEF Logged
<1>25. Governed(db) /\ OrderRead /\ Kept(db, made) /\ DeletionsSucceed
  BY <1>4, <1>19 DEF Governed, OrderRead, Kept, DeletionsSucceed
<1> QED
  BY <1>20, <1>21, <1>24, <1>25 DEF IInv

\* Nothing the invariant speaks about changes.
LEMMA StutterKeeps ==
  ASSUME IInv, UNCHANGED vars
  PROVE  IInv'
<1>1. UNCHANGED <<db, made, run, req, audit, died, broken>>
  BY DEF vars
<1>2. Running(db, made)' /\ Governed(db)' /\ OrderRead' /\ Kept(db, made)' /\ DeletionsSucceed'
  BY <1>1 DEF IInv, Sound, Running, Known, Own, Table, MonitorsOf, Governed, OrderRead, Kept, Ids,
              Referring, Archived, DeletionsSucceed
<1> QED
  BY <1>1, <1>2, RunStep

LEMMA Inductive ==
  ASSUME IInv, [Next]_vars
  PROVE  IInv'
<1>1. ASSUME NEW c \in Client,
             Receive(c) \/ Read(c) \/ Look(c) \/ Write(c) \/ Reread(c) \/ Audit(c) \/ Die(c)
      PROVE  IInv'
  BY <1>1, ReceiveKeeps, ReadKeeps, LookKeeps, WriteKeeps, RereadKeeps, AuditKeeps
<1>2. CASE CheckStarts \/ CheckReadsPolicy \/ CheckInserts \/ CheckMatches \/ CheckDelivers \/ CheckEnds
  BY <1>2, StartsKeeps, ReadsPolicyKeeps, InsertsKeeps, MatchesKeeps, DeliversKeeps, EndKeeps
<1>3. CASE UNCHANGED vars
  BY <1>3, StutterKeeps
<1> QED
  BY <1>1, <1>2, <1>3 DEF Next

LEMMA Invariance ==
  Spec => []IInv
<1>1. Init => IInv
  BY InitIsSound
<1>2. IInv /\ [Next]_vars => IInv'
  BY Inductive
<1> QED
  BY <1>1, <1>2, PTL DEF Spec

\* Every row refers to rows there are, of the tables of the schema, whatever a
\* check has written belongs to one monitor, and no statement of any request
\* leaves a dangling reference (the foreign keys of the migrations).
THEOREM RowsAreSound ==
  Spec => []Sound
<1>1. IInv => Sound
  BY DEF IInv
<1> QED
  BY <1>1, Invariance, PTL

\* deleteMonitorCascade, the archive of a destination and the deletion of a
\* subscription never fail on a constraint, whatever a check writes meanwhile.
THEOREM DeletionsNeverFail ==
  Spec => []DeletionsSucceed
<1>1. IInv => DeletionsSucceed
  BY DEF IInv
<1> QED
  BY <1>1, Invariance, PTL

\* The entries stored for a site are one list that was sent (putFetcherPolicy),
\* and so is what a check reads of them (getFetcherPolicy).
THEOREM PolicyStaysWhole ==
  Spec => []PolicyIsWhole
<1>1. ASSUME IInv  PROVE PolicyIsWhole
  <2>1. ASSUME NEW p \in Table(db, "fetcher_policies")
        PROVE  OrderOf(Referring(db, "fetcher_policy_entries", p.id)) \in Order
    <3>1. PICK o \in Order, n \in Nat :
            Referring(db, "fetcher_policy_entries", p.id) = EntriesOf(p.id, o, n)
      BY <1>1 DEF IInv, Whole
    <3>2. p.id[1] # "fetchers"
      BY DEF Table
    <3> QED
      BY <3>1, <3>2, OrderOfEntries
  <2> QED
    BY <1>1, <2>1 DEF IInv, OrderRead, PolicyIsWhole
<1> QED
  BY <1>1, Invariance, PTL

\* Every deletion of a site, a source or a monitor, and the archive of every
\* destination that is still there, has its event, or a request that is about to
\* record it, or one whose isolate died; and no event tells of a deletion that
\* failed (recordAuditEvent).
THEOREM AuditAgrees ==
  Spec => []AuditMatchesData
<1>1. ASSUME IInv  PROVE AuditMatchesData
  <2>1. made \in [Tables -> Nat] /\ Main \subseteq Tables
    BY <1>1 DEF IInv, Sound, Main, Tables
  <2>2. ASSUME NEW e \in Events
        PROVE  \E op \in Deletions, t \in Main : \E n \in 1..made[t] :
                 e = <<op, <<t, n>>>> /\ t = SubjectTable(op)
    <3>1. CASE e \in {"site.delete"} \X {<<"sites", n>> : n \in 1..made["sites"]}
      <4>1. PICK n \in 1..made["sites"] : e = <<"site.delete", <<"sites", n>>>>
        BY <3>1
      <4> QED
        BY <4>1 DEF Deletions, Main, SubjectTable
    <3>2. CASE e \in {"source.delete"} \X {<<"sources", n>> : n \in 1..made["sources"]}
      <4>1. PICK n \in 1..made["sources"] : e = <<"source.delete", <<"sources", n>>>>
        BY <3>2
      <4> QED
        BY <4>1 DEF Deletions, Main, SubjectTable
    <3>3. CASE e \in {"monitor.delete"} \X {<<"monitors", n>> : n \in 1..made["monitors"]}
      <4>1. PICK n \in 1..made["monitors"] : e = <<"monitor.delete", <<"monitors", n>>>>
        BY <3>3
      <4> QED
        BY <4>1 DEF Deletions, Main, SubjectTable
    <3> QED
      BY <3>1, <3>2, <3>3 DEF Events
  <2>3. \A op1, op2 \in Deletions : SubjectTable(op1) = SubjectTable(op2) => op1 = op2
    BY DEF Deletions, SubjectTable
  <2>4. ASSUME NEW e \in Events
        PROVE  (Deleted(e[2]) => e \in Recorded) /\ (e \in Recorded => Deleted(e[2]))
    <3>1. PICK op \in Deletions, t \in Main : \E n \in 1..made[t] :
                 e = <<op, <<t, n>>>> /\ t = SubjectTable(op)
      BY <2>2
    <3>2. PICK n \in 1..made[t] : e = <<op, <<t, n>>>>
      BY <3>1
    <3> DEFINE i == <<t, n>>
    <3>3. /\ i[1] = t /\ i[2] = n /\ i = <<i[1], i[2]>> /\ e = <<op, i>> /\ e[2] = i
          /\ made[t] \in Nat /\ n \in Nat /\ n # 0 /\ n <= made[t]
      BY <2>1, <3>2
    <3> HIDE DEF i
    <3>4. Known(i, made)
      BY <2>1, <3>3 DEF Known
    <3>5. Deleted(e[2]) <=> i \notin Ids(db)
      BY <3>3 DEF Deleted
    <3>6. i \notin Ids(db) => e \in Recorded
      <4> SUFFICES ASSUME i \notin Ids(db)  PROVE e \in Recorded
        OBVIOUS
      <4>1. PICK op2 \in Deletions : SubjectTable(op2) = i[1] /\ <<op2, i>> \in Recorded
        BY <1>1, <3>3, <3>4 DEF IInv, Logged, Main
      <4>2. op2 = op
        BY <2>3, <3>1, <3>3, <4>1
      <4> QED
        BY <3>3, <4>1, <4>2
    <3>7. e \in Recorded => i \notin Ids(db)
      BY <1>1, <3>3 DEF IInv, Logged
    <3> QED
      BY <3>5, <3>6, <3>7
  <2>5. audit \subseteq Recorded
    BY DEF Recorded
  <2>6. \A d \in Archived(db) : <<"destination.archive", d>> \in Recorded
    BY <1>1 DEF IInv, Logged
  <2>7. /\ \A e \in Events : Deleted(e[2]) => e \in Recorded
        /\ \A e \in Events : e \in audit => Deleted(e[2])
    BY <2>4, <2>5
  <2> QED
    BY <2>6, <2>7 DEF AuditMatchesData, Recorded, Recording
<1> QED
  BY <1>1, Invariance, PTL

\* What every step does to the deliveries: none is lost without its monitor,
\* and none is made for a destination archived before its change.
LEMMA Deliveries ==
  ASSUME IInv, [Next]_vars
  PROVE  /\ \A d \in Table(db, "deliveries") : d.id \notin Ids(db') =>
              \E m \in Table(db, "monitors") :
                /\ m.id \notin Ids(db')
                /\ \E c \in Referring(db, "changes", m.id) : c.id \in d.refs
         /\ \A d \in Table(db', "deliveries") : d.id \notin Ids(db) => d.refs \cap run.archived = {}
<1> DEFINE Lost(d) == \E m \in Table(db, "monitors") :
                        /\ m.id \notin Ids(db')
                        /\ \E c \in Referring(db, "changes", m.id) : c.id \in d.refs
           Goal == /\ \A d \in Table(db, "deliveries") : d.id \notin Ids(db') => Lost(d)
                   /\ \A d \in Table(db', "deliveries") : d.id \notin Ids(db) => d.refs \cap run.archived = {}
<1>1. ASSUME db' = db  PROVE Goal
  BY <1>1 DEF Table, Ids
<1>2. ASSUME NEW c \in Client, Write(c)  PROVE Goal
  <2>1. CASE Batch(db, Transaction(req[c])).ok
    <3>1. Effect(req[c], db', made')
      BY <1>2, <2>1, WriteKeeps, Zenon
    <3>2. \A d \in Table(db, "deliveries") : d.id \notin Ids(db') => Lost(d)
      BY <3>1 DEF Effect
    <3>3. \A d \in Table(db', "deliveries") : d.id \in Ids(db)
      BY <3>1 DEF Effect, Table, Ids
    <3> QED
      BY <3>2, <3>3
  <2>2. CASE ~Batch(db, Transaction(req[c])).ok
    <3>1. db' = db
      BY <1>2, <2>2, WriteKeeps, Zenon
    <3> QED
      BY <1>1, <3>1
  <2> QED
    BY <2>1, <2>2, Zenon
<1>3. ASSUME CheckInserts  PROVE Goal
  BY <1>3, InsertsKeeps DEF Table, Ids, CheckTables
<1>4. ASSUME CheckDelivers  PROVE Goal
  <2>1. PICK d \in run.todo : db' = db \/ db' = db \cup {Row(Fresh("deliveries"), {run.rows[5], d}, "")}
    BY <1>4, DeliversKeeps DEF CheckDelivers
  <2>2. run.pc = "deliver"
    BY <1>4 DEF CheckDelivers
  <2>3. run.rows[5][1] = "changes"
    <3>1. Written("deliver") = 5 /\ WrittenTable(5) = "changes" /\ 5 \in 1..5
      BY DEF Written, WrittenTable
    <3> QED
      BY <2>2, <3>1 DEF IInv, Sound, Running
  <2>4. {run.rows[5], d} \cap run.archived = {}
    BY <2>1, <2>2, <2>3 DEF IInv, Kept
  <2>5. Row(Fresh("deliveries"), {run.rows[5], d}, "").refs = {run.rows[5], d}
    BY DEF Row
  <2>6. db \subseteq db'
    BY <2>1
  <2>7. \A x \in db' : x \in db \/ x.refs \cap run.archived = {}
    BY <2>1, <2>4, <2>5
  <2> QED
    BY <2>6, <2>7 DEF Table, Ids
<1>5. Goal
  <2>1. CASE \E c \in Client :
                 Receive(c) \/ Read(c) \/ Look(c) \/ Reread(c) \/ Audit(c) \/ Die(c)
    BY <1>1, <2>1 DEF Receive, Read, Look, Reread, Audit, Die
  <2>2. CASE CheckStarts \/ CheckReadsPolicy \/ CheckMatches \/ CheckEnds
    BY <1>1, <2>2 DEF CheckStarts, CheckReadsPolicy, CheckMatches, CheckEnds
  <2>3. CASE UNCHANGED vars
    BY <1>1, <2>3 DEF vars
  <2> HIDE DEF Goal
  <2> QED
    BY <1>2, <1>3, <1>4, <2>1, <2>2, <2>3 DEF Next
<1> QED
  BY <1>5

\* A delivery disappears only together with the monitor whose change it
\* delivers (deleteMonitorCascade, and no other transaction).
THEOREM HistoryIsKept ==
  Spec => HistoryKept
<1>1. IInv /\ [Next]_vars =>
        [\A d \in Table(db, "deliveries") : d.id \notin Ids(db') =>
           \E m \in Table(db, "monitors") :
             /\ m.id \notin Ids(db')
             /\ \E c \in Referring(db, "changes", m.id) : c.id \in d.refs]_vars
  BY Deliveries
<1> QED
  BY <1>1, Invariance, PTL DEF Spec, HistoryKept

\* A destination that was archived before a change was recorded gets no
\* delivery of it (listMatchingSubscriptions).
THEOREM ArchivedGetsNothing ==
  Spec => ArchivedReceivesNothing
<1>1. IInv /\ [Next]_vars =>
        [\A d \in Table(db', "deliveries") : d.id \notin Ids(db) =>
           d.refs \cap run.archived = {}]_vars
  BY Deliveries
<1> QED
  BY <1>1, Invariance, PTL DEF Spec, ArchivedReceivesNothing
=============================================================================
