-------------------------- MODULE MigrationsProofs --------------------------
(***************************************************************************)
(* The safety of Migrations, for any number of processes, crashes and      *)
(* downgrades: what the file holds whoever migrates it, what the server    *)
(* serves on, and what its health check sees of the migrations of others.  *)
(***************************************************************************)
EXTENDS Migrations, SequenceTheorems, TLAPS

-----------------------------------------------------------------------------
(* Objects, and which of them is a part of which.                          *)

LEMMA PartsOfTable ==
    ASSUME NEW t, NEW u, NEW c
    PROVE  /\ IsPrefix(TableOf(t), TableOf(u)) <=> t = u
           /\ IsPrefix(TableOf(t), ColumnOf(u, c)) <=> t = u
           /\ IsPrefix(TableOf(t), IndexOf(u, c)) <=> t = u
BY DEF IsPrefix, TableOf, ColumnOf, IndexOf

LEMMA PartsOfColumn ==
    ASSUME NEW t, NEW e, NEW u, NEW c
    PROVE  /\ ~IsPrefix(ColumnOf(t, e), TableOf(u))
           /\ IsPrefix(ColumnOf(t, e), ColumnOf(u, c)) <=> t = u /\ e = c
           /\ IsPrefix(ColumnOf(t, e), IndexOf(u, c)) <=> t = u /\ e = c
BY DEF IsPrefix, TableOf, ColumnOf, IndexOf

LEMMA PartsOfIndex ==
    ASSUME NEW t, NEW e, NEW u, NEW c
    PROVE  /\ ~IsPrefix(IndexOf(t, e), TableOf(u))
           /\ ~IsPrefix(IndexOf(t, e), ColumnOf(u, c))
           /\ IsPrefix(IndexOf(t, e), IndexOf(u, c)) <=> t = u /\ e = c
BY DEF IsPrefix, TableOf, ColumnOf, IndexOf

\* CREATE needs the parent of what it creates; a column may have an index.
LEMMA ObjectsAre ==
    /\ \A t : Len(TableOf(t)) = 1
    /\ \A t, c : Len(ColumnOf(t, c)) = 2
    /\ \A t, c : Len(IndexOf(t, c)) = 3
    /\ \A t, c : Front(ColumnOf(t, c)) = TableOf(t)
    /\ \A t, c : Append(ColumnOf(t, c), "ix") = IndexOf(t, c)
<1> SUFFICES ASSUME NEW t, NEW c
             PROVE  /\ Len(TableOf(t)) = 1 /\ Len(ColumnOf(t, c)) = 2
                    /\ Len(IndexOf(t, c)) = 3
                    /\ Front(ColumnOf(t, c)) = TableOf(t)
                    /\ Append(ColumnOf(t, c), "ix") = IndexOf(t, c)
  OBVIOUS
<1>1. /\ Len(TableOf(t)) = 1 /\ Len(ColumnOf(t, c)) = 2 /\ Len(IndexOf(t, c)) = 3
  BY DEF TableOf, ColumnOf, IndexOf
<1> DEFINE S == {t, c, "ix"}
           front == Front(ColumnOf(t, c))
           index == Append(ColumnOf(t, c), "ix")
<1>2. /\ ColumnOf(t, c) \in Seq(S) /\ TableOf(t) \in Seq(S) /\ IndexOf(t, c) \in Seq(S)
      /\ ColumnOf(t, c)[1] = t /\ ColumnOf(t, c)[2] = c /\ TableOf(t)[1] = t
      /\ IndexOf(t, c)[1] = t /\ IndexOf(t, c)[2] = c /\ IndexOf(t, c)[3] = "ix"
      /\ "ix" \in S
  BY DEF TableOf, ColumnOf, IndexOf
<1> HIDE DEF S
<1>3. front \in Seq(S) /\ Len(front) = 1 /\ front[1] = t
  BY <1>1, <1>2 DEF Front
<1>4. /\ index \in Seq(S) /\ Len(index) = 3
      /\ index[1] = t /\ index[2] = c /\ index[3] = "ix"
  <2> DEFINE column == ColumnOf(t, c)
  <2>1. column \in Seq(S) /\ Len(column) = 2 /\ "ix" \in S
    BY <1>1, <1>2
  <2> HIDE DEF column
  <2>2. Append(column, "ix") \in Seq(S) /\ Len(Append(column, "ix")) = 3
    BY <2>1
  <2>3. /\ Append(column, "ix") \in Seq(S) /\ Len(Append(column, "ix")) = 3
        /\ Append(column, "ix")[1] = column[1] /\ Append(column, "ix")[2] = column[2]
        /\ Append(column, "ix")[3] = "ix"
    BY <2>1, <2>2
  <2> QED
    BY <1>2, <2>3 DEF column
<1> HIDE DEF front, index
<1>5. \A i \in 1 .. 1 : front[i] = TableOf(t)[i]
  BY <1>2, <1>3
<1>6. \A i \in 1 .. 3 : index[i] = IndexOf(t, c)[i]
  BY <1>2, <1>4
<1>7. front = TableOf(t) /\ index = IndexOf(t, c)
  BY <1>1, <1>2, <1>3, <1>4, <1>5, <1>6, SeqEqual
<1> QED
  BY <1>1, <1>7 DEF front, index

LEMMA StatementIs ==
    /\ \A objects : Create(objects).create = objects /\ Create(objects).drop = {}
    /\ \A t : DropTable(t).create = {} /\ DropTable(t).drop = {TableOf(t)}
    /\ \A t, c :
          /\ CreateColumn(t, c).create = {ColumnOf(t, c)} /\ CreateColumn(t, c).drop = {}
          /\ CreateIndex(t, c).create = {IndexOf(t, c)} /\ CreateIndex(t, c).drop = {}
          /\ DropColumn(t, c).create = {} /\ DropColumn(t, c).drop = {ColumnOf(t, c)}
          /\ DropIndex(t, c).create = {} /\ DropIndex(t, c).drop = {IndexOf(t, c)}
BY DEF Create, CreateColumn, CreateIndex, Drop, DropTable, DropColumn, DropIndex

-----------------------------------------------------------------------------
(* Statements one after the other: Applied is what Execute, which is Apply, *)
(* does step by step.                                                      *)

LEMMA AppliedNone ==
    ASSUME NEW db, NEW statements
    PROVE  Applied(db, statements, 0) = db
<1>1. \A o : ~DropsOne(o, statements, 1, 0)
  BY DEF DropsOne
<1> QED
  BY <1>1 DEF Applied

LEMMA AppliedOneMore ==
    ASSUME NEW db, NEW statements, NEW k \in Nat
    PROVE  Applied(db, statements, k + 1) =
              Apply(Applied(db, statements, k), statements[k + 1])
<1> DEFINE last == statements[k + 1]
           old == Applied(db, statements, k)
           new == Applied(db, statements, k + 1)
           Keeps(o) == \A d \in last.drop : ~IsPrefix(d, o)
<1>1. \A o, i : i \in 1 .. k + 1 =>
         (DropsOne(o, statements, i, k + 1) <=>
             DropsOne(o, statements, i, k) \/ ~Keeps(o))
  BY DEF DropsOne
<1>2. \A o : ~DropsOne(o, statements, k + 1 + 1, k + 1)
  BY DEF DropsOne
<1>3. \A o : o \in old <=>
         \/ o \in db /\ ~DropsOne(o, statements, 1, k)
         \/ \E i \in 1 .. k : /\ o \in statements[i].create
                              /\ ~DropsOne(o, statements, i + 1, k)
  BY DEF Applied
<1>4. \A o : o \in new <=>
         \/ o \in db /\ ~DropsOne(o, statements, 1, k + 1)
         \/ \E i \in 1 .. k + 1 : /\ o \in statements[i].create
                                  /\ ~DropsOne(o, statements, i + 1, k + 1)
  BY DEF Applied
<1>5. \A o : o \in Apply(old, last) <=> (o \in old /\ Keeps(o)) \/ o \in last.create
  BY DEF Apply
<1> HIDE DEF old, new, Keeps, last
<1>6. ASSUME NEW o PROVE o \in new <=> o \in Apply(old, last)
  <2>1. ASSUME o \in new PROVE o \in Apply(old, last)
    <3>1. CASE o \in db /\ ~DropsOne(o, statements, 1, k + 1)
      BY <1>1, <1>3, <1>5, <3>1
    <3>2. CASE \E i \in 1 .. k + 1 : /\ o \in statements[i].create
                                     /\ ~DropsOne(o, statements, i + 1, k + 1)
      <4>1. PICK i \in 1 .. k + 1 : /\ o \in statements[i].create
                                    /\ ~DropsOne(o, statements, i + 1, k + 1)
        BY <3>2
      <4>2. CASE i = k + 1
        BY <1>5, <4>1, <4>2 DEF last
      <4>3. CASE i # k + 1
        <5>1. i \in 1 .. k /\ i + 1 \in 1 .. k + 1
          BY <4>3
        <5>2. Keeps(o) /\ ~DropsOne(o, statements, i + 1, k)
          BY <1>1, <4>1, <5>1
        <5> QED
          BY <1>3, <1>5, <4>1, <5>1, <5>2
      <4> QED
        BY <4>2, <4>3
    <3> QED
      BY <1>4, <2>1, <3>1, <3>2
  <2>2. ASSUME o \in Apply(old, last) PROVE o \in new
    <3>1. CASE o \in last.create
      <4>1. k + 1 \in 1 .. k + 1
        OBVIOUS
      <4> QED
        BY <1>2, <1>4, <3>1, <4>1 DEF last
    <3>2. CASE o \in old /\ Keeps(o)
      <4>1. CASE o \in db /\ ~DropsOne(o, statements, 1, k)
        BY <1>1, <1>4, <3>2, <4>1
      <4>2. CASE \E i \in 1 .. k : /\ o \in statements[i].create
                                   /\ ~DropsOne(o, statements, i + 1, k)
        <5>1. PICK i \in 1 .. k : /\ o \in statements[i].create
                                  /\ ~DropsOne(o, statements, i + 1, k)
          BY <4>2
        <5>2. i \in 1 .. k + 1 /\ i + 1 \in 1 .. k + 1
          OBVIOUS
        <5>3. ~DropsOne(o, statements, i + 1, k + 1)
          BY <1>1, <3>2, <5>1, <5>2
        <5> QED
          BY <1>4, <5>1, <5>2, <5>3
      <4> QED
        BY <1>3, <3>2, <4>1, <4>2
    <3> QED
      BY <1>5, <2>2, <3>1, <3>2
  <2> QED
    BY <2>1, <2>2
<1> QED
  BY <1>6 DEF new, old, last

\* Statements that drop nothing, and statements that create nothing.
LEMMA AppliedCreates ==
    ASSUME NEW db, NEW statements, NEW k \in Nat,
           \A i \in 1 .. k : statements[i].drop = {}
    PROVE  \A o : o \in Applied(db, statements, k) <=>
              o \in db \/ \E i \in 1 .. k : o \in statements[i].create
<1>1. \A o : \A i \in 1 .. k + 1 : ~DropsOne(o, statements, i, k)
  BY DEF DropsOne
<1> QED
  BY <1>1 DEF Applied

LEMMA AppliedDrops ==
    ASSUME NEW db, NEW statements, NEW k \in Nat,
           \A i \in 1 .. k : statements[i].create = {}
    PROVE  \A o : o \in Applied(db, statements, k) <=>
              /\ o \in db
              /\ \A i \in 1 .. k : \A d \in statements[i].drop : ~IsPrefix(d, o)
BY DEF Applied, DropsOne

-----------------------------------------------------------------------------
(* The releases.                                                           *)

LEMMA HeadIsSix == HeadRevision = 6
BY DEF HeadRevision, Upgrade

LEMMA SchemaAtIs ==
    /\ SchemaAt[0] = {}
    /\ \A r \in 1 .. 6 :
          SchemaAt[r] = Applied(SchemaAt[r - 1], Upgrade[r], Len(Upgrade[r]))
<1> DEFINE g(db, r) == Applied(db, Upgrade[r], Len(Upgrade[r]))
           f1 == g({}, 1)
           f2 == g(f1, 2)
           f3 == g(f2, 3)
           f4 == g(f3, 4)
           f5 == g(f4, 5)
           f6 == g(f5, 6)
           f == [r \in 0 .. HeadRevision |->
                   CASE r = 0 -> {} [] r = 1 -> f1 [] r = 2 -> f2 [] r = 3 -> f3
                     [] r = 4 -> f4 [] r = 5 -> f5 [] OTHER -> f6]
           IsChain(h) == h = [r \in 0 .. HeadRevision |->
                                IF r = 0 THEN {} ELSE g(h[r - 1], r)]
<1>1. SchemaAt = CHOOSE h : IsChain(h)
  BY DEF SchemaAt
<1> HIDE DEF g
<1>2. IsChain(f)
  <2>1. \A r \in 0 .. 6 : f[r] = IF r = 0 THEN {} ELSE g(f[r - 1], r)
    <3> HIDE DEF f1, f2, f3, f4, f5, f6
    <3>1. /\ f[0] = {} /\ f[1] = f1 /\ f[2] = f2 /\ f[3] = f3 /\ f[4] = f4
          /\ f[5] = f5 /\ f[6] = f6
      BY HeadIsSix
    <3>2. f1 = g({}, 1) /\ f2 = g(f1, 2) /\ f3 = g(f2, 3) /\ f4 = g(f3, 4)
          /\ f5 = g(f4, 5) /\ f6 = g(f5, 6)
      BY DEF f1, f2, f3, f4, f5, f6
    <3> HIDE DEF f
    <3> QED
      BY <3>1, <3>2
  <2>2. f = [r \in 0 .. 6 |-> f[r]]
    BY HeadIsSix
  <2> HIDE DEF f
  <2> QED
    BY <2>1, <2>2, HeadIsSix
<1> HIDE DEF f
<1>3. IsChain(SchemaAt)
  <2> HIDE DEF IsChain
  <2> QED
    BY <1>1, <1>2
<1>4. \A r \in 0 .. 6 : SchemaAt[r] = IF r = 0 THEN {} ELSE g(SchemaAt[r - 1], r)
  BY <1>3, HeadIsSix
<1>5. SchemaAt[0] = {} /\ \A r \in 1 .. 6 : SchemaAt[r] = g(SchemaAt[r - 1], r)
  BY <1>4
<1> QED
  BY <1>5 DEF g

LEMMA UpgradesAre ==
    /\ Upgrade[1] = CreateInstallation /\ Len(CreateInstallation) = 6
    /\ Upgrade[2] = AddMessageVersion /\ Len(AddMessageVersion) = 1
    /\ Upgrade[3] = CreatePruned /\ Len(CreatePruned) = 2
    /\ Upgrade[4] = DropEventCounts /\ Len(DropEventCounts) = 2
    /\ Upgrade[5] = CreateActivity /\ Len(CreateActivity) = 3
    /\ Upgrade[6] = AddActivityVersion /\ Len(AddActivityVersion) = 2
BY DEF Upgrade, CreateInstallation, AddMessageVersion, CreatePruned,
       DropEventCounts, CreateActivity, AddActivityVersion

LEMMA DowngradesAre ==
    /\ Downgrade[1] = DropInstallation /\ Len(DropInstallation) = 6
    /\ Downgrade[2] = DropMessageVersion /\ Len(DropMessageVersion) = 1
    /\ Downgrade[3] = DropPruned /\ Len(DropPruned) = 2
    /\ Downgrade[4] = AddEventCounts /\ Len(AddEventCounts) = 2
    /\ Downgrade[5] = DropActivity /\ Len(DropActivity) = 3
    /\ Downgrade[6] = DropActivityVersion /\ Len(DropActivityVersion) = 2
BY DEF Downgrade, DropInstallation, DropMessageVersion, DropPruned,
       AddEventCounts, DropActivity, DropActivityVersion

LEMMA ReleasesApply ==
    /\ SchemaAt[1] = Applied({}, CreateInstallation, 6)
    /\ SchemaAt[2] = Applied(SchemaAt[1], AddMessageVersion, 1)
    /\ SchemaAt[3] = Applied(SchemaAt[2], CreatePruned, 2)
    /\ SchemaAt[4] = Applied(SchemaAt[3], DropEventCounts, 2)
    /\ SchemaAt[5] = Applied(SchemaAt[4], CreateActivity, 3)
    /\ SchemaAt[6] = Applied(SchemaAt[5], AddActivityVersion, 2)
<1>1. 1 - 1 = 0 /\ 2 - 1 = 1 /\ 3 - 1 = 2 /\ 4 - 1 = 3 /\ 5 - 1 = 4 /\ 6 - 1 = 5
  OBVIOUS
<1>2. {1, 2, 3, 4, 5, 6} \subseteq 1 .. 6
  OBVIOUS
<1> QED
  BY <1>1, <1>2, SchemaAtIs, UpgradesAre

\* What each of them makes of a file, written out.
Columns == {"installation_id", "version", "os", "architecture", "runtime",
            "first_seen_at", "last_seen_at"}
Installation(columns) ==
    Table("installation", columns)
    \cup Index("installation", {"version", "os", "architecture",
        "first_seen_at", "last_seen_at"})
Pruned(columns) ==
    Table("pruned_installation", columns)
    \cup Index("pruned_installation", {"pruned_at"})
EventCounts ==
    {ColumnOf("installation", "event_count"),
     ColumnOf("pruned_installation", "event_count")}

Release1 == Installation(Columns \cup {"event_count"})
Release2 == Installation(Columns \cup {"event_count", "message_version"})
Release3 ==
    Release2 \cup Pruned({"installation_id", "event_count", "pruned_at"})
Release4 ==
    Installation(Columns \cup {"message_version"})
    \cup Pruned({"installation_id", "pruned_at"})
Release5 ==
    Release4
    \cup Table("daily_activity", {"installation_id", "activity_date"})
    \cup Index("daily_activity", {"installation_id", "activity_date"})
Release6 == Models

LEMMA FirstRelease == SchemaAt[1] = Release1
<1> DEFINE u == CreateInstallation
<1>1. /\ \A i \in 1 .. 6 : u[i].drop = {}
      /\ u[1].create = Table("installation", {"installation_id", "version", "os",
                        "architecture", "runtime", "event_count", "first_seen_at",
                        "last_seen_at"})
      /\ u[2].create = {IndexOf("installation", "architecture")}
      /\ u[3].create = {IndexOf("installation", "first_seen_at")}
      /\ u[4].create = {IndexOf("installation", "last_seen_at")}
      /\ u[5].create = {IndexOf("installation", "os")}
      /\ u[6].create = {IndexOf("installation", "version")}
  <2>1. /\ u[1] = Create(Table("installation", {"installation_id", "version", "os",
                        "architecture", "runtime", "event_count", "first_seen_at",
                        "last_seen_at"}))
        /\ u[2] = CreateIndex("installation", "architecture")
        /\ u[3] = CreateIndex("installation", "first_seen_at")
        /\ u[4] = CreateIndex("installation", "last_seen_at")
        /\ u[5] = CreateIndex("installation", "os")
        /\ u[6] = CreateIndex("installation", "version")
    BY DEF CreateInstallation
  <2> HIDE DEF u
  <2> QED
    BY <2>1, StatementIs
<1> HIDE DEF u
<1>2. \A o : o \in SchemaAt[1] <=> \E i \in 1 .. 6 : o \in u[i].create
  BY <1>1, ReleasesApply, AppliedCreates DEF u
<1>3. \A o : o \in SchemaAt[1] <=> o \in Release1
  BY <1>1, <1>2 DEF Release1, Installation, Columns, Table, Index
<1> QED
  BY <1>3

LEMMA SecondRelease == SchemaAt[2] = Release2
<1> DEFINE u == AddMessageVersion
<1>1. u[1].drop = {} /\ u[1].create = {ColumnOf("installation", "message_version")}
  BY StatementIs DEF AddMessageVersion
<1> HIDE DEF u
<1>2. \A o : o \in SchemaAt[2] <=>
         o \in Release1 \/ o = ColumnOf("installation", "message_version")
  BY <1>1, FirstRelease, ReleasesApply, AppliedCreates DEF u
<1>3. \A o : o \in SchemaAt[2] <=> o \in Release2
  BY <1>2 DEF Release1, Release2, Installation, Table
<1> QED
  BY <1>3

LEMMA ThirdRelease == SchemaAt[3] = Release3
<1> DEFINE u == CreatePruned
<1>1. /\ \A i \in 1 .. 2 : u[i].drop = {}
      /\ u[1].create = Table("pruned_installation",
                             {"installation_id", "event_count", "pruned_at"})
      /\ u[2].create = {IndexOf("pruned_installation", "pruned_at")}
  <2>1. /\ u[1] = Create(Table("pruned_installation",
                              {"installation_id", "event_count", "pruned_at"}))
        /\ u[2] = CreateIndex("pruned_installation", "pruned_at")
    BY DEF CreatePruned
  <2> HIDE DEF u
  <2> QED
    BY <2>1, StatementIs
<1> HIDE DEF u
<1>2. \A o : o \in SchemaAt[3] <=> o \in Release2 \/ \E i \in 1 .. 2 : o \in u[i].create
  BY <1>1, SecondRelease, ReleasesApply, AppliedCreates DEF u
<1>3. \A o : o \in SchemaAt[3] <=> o \in Release3
  BY <1>1, <1>2 DEF Release3, Pruned, Index
<1> QED
  BY <1>3

\* The two columns are all that release 4 lost, and nothing is a part of them.
LEMMA EventCountsLost ==
    /\ Release3 = Release4 \cup EventCounts
    /\ \A o \in Release4 : \A d \in EventCounts : ~IsPrefix(d, o)
    /\ \A d \in EventCounts : IsPrefix(d, d)
<1>1. Release3 = Release4 \cup EventCounts
  BY DEF Release2, Release3, Release4, Installation, Pruned, Table, EventCounts
<1>2. \A o \in Release4 : \A t : ~IsPrefix(ColumnOf(t, "event_count"), o)
  BY PartsOfColumn DEF Release4, Installation, Pruned, Columns, Table, Index
<1> QED
  BY <1>1, <1>2, PartsOfColumn DEF EventCounts

LEMMA FourthRelease == SchemaAt[4] = Release4
<1> DEFINE u == DropEventCounts
<1>1. /\ \A i \in 1 .. 2 : u[i].create = {}
      /\ u[1].drop = {ColumnOf("installation", "event_count")}
      /\ u[2].drop = {ColumnOf("pruned_installation", "event_count")}
  <2>1. /\ u[1] = DropColumn("installation", "event_count")
        /\ u[2] = DropColumn("pruned_installation", "event_count")
    BY DEF DropEventCounts
  <2> HIDE DEF u
  <2> QED
    BY <2>1, StatementIs
<1> HIDE DEF u
<1>2. \A o : o \in SchemaAt[4] <=>
         o \in Release3 /\ \A d \in EventCounts : ~IsPrefix(d, o)
  BY <1>1, ThirdRelease, ReleasesApply, AppliedDrops DEF u, EventCounts
<1>3. \A o : o \in SchemaAt[4] <=> o \in Release4
  BY <1>2, EventCountsLost
<1> QED
  BY <1>3

LEMMA FifthRelease == SchemaAt[5] = Release5
<1> DEFINE u == CreateActivity
<1>1. /\ \A i \in 1 .. 3 : u[i].drop = {}
      /\ u[1].create = Table("daily_activity", {"installation_id", "activity_date"})
      /\ u[2].create = {IndexOf("daily_activity", "activity_date")}
      /\ u[3].create = {IndexOf("daily_activity", "installation_id")}
  <2>1. /\ u[1] = Create(Table("daily_activity", {"installation_id", "activity_date"}))
        /\ u[2] = CreateIndex("daily_activity", "activity_date")
        /\ u[3] = CreateIndex("daily_activity", "installation_id")
    BY DEF CreateActivity
  <2> HIDE DEF u
  <2> QED
    BY <2>1, StatementIs
<1> HIDE DEF u
<1>2. \A o : o \in SchemaAt[5] <=> o \in Release4 \/ \E i \in 1 .. 3 : o \in u[i].create
  BY <1>1, FourthRelease, ReleasesApply, AppliedCreates DEF u
<1>3. \A o : o \in SchemaAt[5] <=> o \in Release5
  BY <1>1, <1>2 DEF Release5, Index
<1> QED
  BY <1>3

LEMMA SixthRelease == SchemaAt[6] = Release6
<1> DEFINE u == AddActivityVersion
<1>1. /\ \A i \in 1 .. 2 : u[i].drop = {}
      /\ u[1].create = {ColumnOf("daily_activity", "version")}
      /\ u[2].create = {IndexOf("daily_activity", "version")}
  BY StatementIs DEF AddActivityVersion
<1> HIDE DEF u
<1>2. \A o : o \in SchemaAt[6] <=>
         \/ o \in Release5
         \/ o = ColumnOf("daily_activity", "version")
         \/ o = IndexOf("daily_activity", "version")
  BY <1>1, FifthRelease, ReleasesApply, AppliedCreates DEF u
<1>3. \A o : o \in SchemaAt[6] <=> o \in Release6
  BY <1>2 DEF Release4, Release5, Release6, Models, Installation, Columns,
              Pruned, Table, Index
<1> QED
  BY <1>3

-----------------------------------------------------------------------------
(* Downgrades: each statement can be executed where it stands, and together *)
(* they undo their revision.                                               *)

Undoes(statements, n, db, old) ==
    /\ Applied(db, statements, n) = old
    /\ \A k \in 0 .. n - 1 : Executable(statements[k + 1], Applied(db, statements, k))

\* Drops of the objects d, parts before wholes.
LEMMA DropsUndo ==
    ASSUME NEW db, NEW old, NEW statements, NEW n \in Nat, NEW d,
           \A i \in 1 .. n : /\ statements[i].create = {} /\ statements[i].drop = {d[i]}
                             /\ d[i] \in db,
           \A i, j \in 1 .. n : i < j => ~IsPrefix(d[i], d[j]),
           \A j \in 1 .. n : Len(d[j]) = 2 =>
              \/ Append(d[j], "ix") \notin db
              \/ \E i \in 1 .. n : i < j /\ IsPrefix(d[i], Append(d[j], "ix")),
           \A o : o \in old <=> o \in db /\ \A i \in 1 .. n : ~IsPrefix(d[i], o)
    PROVE  Undoes(statements, n, db, old)
<1>1. \A k \in 0 .. n : \A o : o \in Applied(db, statements, k) <=>
         o \in db /\ \A i \in 1 .. k : ~IsPrefix(d[i], o)
  <2> TAKE k \in 0 .. n
  <2>1. \A i \in 1 .. k : statements[i].create = {} /\ statements[i].drop = {d[i]}
    OBVIOUS
  <2> QED
    BY <2>1, AppliedDrops
<1>2. ASSUME NEW k \in 0 .. n - 1
      PROVE  Executable(statements[k + 1], Applied(db, statements, k))
  <2>1. /\ k + 1 \in 1 .. n /\ k \in 0 .. n
        /\ \A i \in 1 .. n : i < k + 1 <=> i \in 1 .. k
    OBVIOUS
  <2>2. /\ statements[k + 1].create = {} /\ statements[k + 1].drop = {d[k + 1]}
    BY <2>1
  <2>3. d[k + 1] \in Applied(db, statements, k)
    BY <1>1, <2>1
  <2>4. Len(d[k + 1]) = 2 => Append(d[k + 1], "ix") \notin Applied(db, statements, k)
    BY <1>1, <2>1
  <2> QED
    BY <2>2, <2>3, <2>4 DEF Executable
<1>3. \A o : o \in Applied(db, statements, n) <=> o \in old
  BY <1>1
<1> QED
  BY <1>2, <1>3 DEF Undoes

LEMMA FirstUndone == Undoes(DropInstallation, 6, Release1, {})
<1> DEFINE s == DropInstallation
           d == <<IndexOf("installation", "version"), IndexOf("installation", "os"),
                  IndexOf("installation", "last_seen_at"),
                  IndexOf("installation", "first_seen_at"),
                  IndexOf("installation", "architecture"), TableOf("installation")>>
<1>1. /\ s[1] = DropIndex("installation", "version")
      /\ s[2] = DropIndex("installation", "os")
      /\ s[3] = DropIndex("installation", "last_seen_at")
      /\ s[4] = DropIndex("installation", "first_seen_at")
      /\ s[5] = DropIndex("installation", "architecture")
      /\ s[6] = DropTable("installation")
  BY DEF DropInstallation
<1>2. /\ d[1] = IndexOf("installation", "version") /\ d[2] = IndexOf("installation", "os")
      /\ d[3] = IndexOf("installation", "last_seen_at")
      /\ d[4] = IndexOf("installation", "first_seen_at")
      /\ d[5] = IndexOf("installation", "architecture")
      /\ d[6] = TableOf("installation")
  OBVIOUS
<1> HIDE DEF s, d
<1>3. \A i \in 1 .. 6 : /\ s[i].create = {} /\ s[i].drop = {d[i]}
                        /\ d[i] \in Release1
  BY <1>1, <1>2, StatementIs DEF Release1, Installation, Table, Index
<1>4. \A i, j \in 1 .. 6 : i < j => ~IsPrefix(d[i], d[j])
  BY <1>2, PartsOfIndex
<1>5. \A j \in 1 .. 6 : Len(d[j]) # 2
  <2>1. /\ Len(d[1]) = 3 /\ Len(d[2]) = 3 /\ Len(d[3]) = 3 /\ Len(d[4]) = 3
        /\ Len(d[5]) = 3 /\ Len(d[6]) = 1
    BY <1>2, ObjectsAre
  <2> QED
    BY <2>1
<1>6. \A o \in Release1 : IsPrefix(d[6], o)
  BY <1>2, PartsOfTable DEF Release1, Installation, Table, Index
<1>7. \A o : o \in {} <=> o \in Release1 /\ \A i \in 1 .. 6 : ~IsPrefix(d[i], o)
  BY <1>6
<1>8. Undoes(s, 6, Release1, {})
  BY <1>3, <1>4, <1>5, <1>7, DropsUndo
<1> QED
  BY <1>8 DEF s

LEMMA SecondUndone == Undoes(DropMessageVersion, 1, Release2, Release1)
<1> DEFINE s == DropMessageVersion
           d == <<ColumnOf("installation", "message_version")>>
<1>1. s[1] = DropColumn("installation", "message_version")
  BY DEF DropMessageVersion
<1>2. d[1] = ColumnOf("installation", "message_version")
  OBVIOUS
<1> HIDE DEF s, d
<1>3. \A i \in 1 .. 1 : /\ s[i].create = {} /\ s[i].drop = {d[i]}
                        /\ d[i] \in Release2
  BY <1>1, <1>2, StatementIs DEF Release2, Installation, Table
<1>4. \A o \in Release1 : ~IsPrefix(d[1], o)
  BY <1>2, PartsOfColumn DEF Release1, Installation, Columns, Table, Index
<1>5. /\ IsPrefix(d[1], Append(d[1], "ix")) /\ IsPrefix(d[1], d[1])
      /\ Append(d[1], "ix") # d[1]
  <2>1. Append(d[1], "ix") = IndexOf("installation", "message_version")
    BY <1>2, ObjectsAre
  <2>2. Len(d[1]) = 2 /\ Len(Append(d[1], "ix")) = 3
    BY <1>2, <2>1, ObjectsAre
  <2> QED
    <3>1. /\ IsPrefix(d[1], IndexOf("installation", "message_version"))
          /\ IsPrefix(d[1], d[1])
      BY <1>2, PartsOfColumn
    <3>2. Append(d[1], "ix") # d[1]
      BY <2>2
    <3> QED
      BY ONLY <2>1, <3>1, <3>2, Zenon
<1>6. \A o : o \in Release2 <=> o \in Release1 \/ o = d[1]
  BY <1>2 DEF Release1, Release2, Installation, Table
<1>7. /\ \A o : o \in Release1 <=> o \in Release2 /\ \A i \in 1 .. 1 : ~IsPrefix(d[i], o)
      /\ \A j \in 1 .. 1 : Append(d[j], "ix") \notin Release2
  <2>1. \A i \in 1 .. 1 : i = 1
    OBVIOUS
  <2>2. Append(d[1], "ix") \notin Release2
    BY <1>4, <1>5, <1>6
  <2>3. \A o : o \in Release1 <=> o \in Release2 /\ ~IsPrefix(d[1], o)
    BY <1>4, <1>5, <1>6
  <2> QED
    BY <2>1, <2>2, <2>3
<1>8. Undoes(s, 1, Release2, Release1)
  BY <1>3, <1>7, DropsUndo
<1> QED
  BY <1>8 DEF s

LEMMA ThirdUndone == Undoes(DropPruned, 2, Release3, Release2)
<1> DEFINE s == DropPruned
           d == <<IndexOf("pruned_installation", "pruned_at"),
                  TableOf("pruned_installation")>>
<1>1. /\ s[1] = DropIndex("pruned_installation", "pruned_at")
      /\ s[2] = DropTable("pruned_installation")
  BY DEF DropPruned
<1>2. /\ d[1] = IndexOf("pruned_installation", "pruned_at")
      /\ d[2] = TableOf("pruned_installation")
  OBVIOUS
<1> HIDE DEF s, d
<1>3. \A i \in 1 .. 2 : /\ s[i].create = {} /\ s[i].drop = {d[i]}
                        /\ d[i] \in Release3
  BY <1>1, <1>2, StatementIs DEF Release3, Pruned, Table, Index
<1>4. \A i, j \in 1 .. 2 : i < j => ~IsPrefix(d[i], d[j])
  BY <1>2, PartsOfIndex
<1>5. \A j \in 1 .. 2 : Len(d[j]) # 2
  BY <1>2, ObjectsAre
<1>6. \A o \in Release2 : ~IsPrefix(d[1], o) /\ ~IsPrefix(d[2], o)
  BY <1>2, PartsOfIndex, PartsOfTable DEF Release2, Installation, Table, Index
<1>7. \A o \in Release3 : o \in Release2 \/ IsPrefix(d[2], o)
  BY <1>2, PartsOfTable DEF Release3, Pruned, Table, Index
<1>8. \A o : o \in Release2 <=> o \in Release3 /\ \A i \in 1 .. 2 : ~IsPrefix(d[i], o)
  BY <1>6, <1>7 DEF Release3
<1>9. Undoes(s, 2, Release3, Release2)
  BY <1>3, <1>4, <1>5, <1>8, DropsUndo
<1> QED
  BY <1>9 DEF s

LEMMA FourthUndone == Undoes(AddEventCounts, 2, Release4, Release3)
<1> DEFINE s == AddEventCounts
           first == ColumnOf("pruned_installation", "event_count")
           second == ColumnOf("installation", "event_count")
<1>1. /\ s[1] = CreateColumn("pruned_installation", "event_count")
      /\ s[2] = CreateColumn("installation", "event_count")
  BY DEF AddEventCounts
<1>2. /\ Front(first) = TableOf("pruned_installation")
      /\ Front(second) = TableOf("installation")
      /\ ~IsPrefix(first, second)
  BY ObjectsAre, PartsOfColumn
<1>3. EventCounts = {second, first}
  BY DEF EventCounts
<1>4. TableOf("pruned_installation") \in Release4 /\ TableOf("installation") \in Release4
  BY DEF Release4, Installation, Pruned, Table
<1>5. /\ first \notin Release4 /\ second \notin Release4
      /\ \A o : o \in Release3 <=> o \in Release4 \/ o = first \/ o = second
      /\ first # second
  BY <1>2, <1>3, EventCountsLost
<1> HIDE DEF first, second
<1>6. /\ \A i \in 1 .. 2 : s[i].drop = {}
      /\ s[1].create = {first} /\ s[2].create = {second}
  <2> HIDE DEF s
  <2> QED
    BY <1>1, StatementIs DEF first, second
<1> HIDE DEF s
<1>7. /\ Applied(Release4, s, 0) = Release4
      /\ \A o : o \in Applied(Release4, s, 1) <=> o \in Release4 \/ o = first
      /\ \A o : o \in Applied(Release4, s, 2) <=> o \in Release3
  <2>1. Applied(Release4, s, 0) = Release4
    BY AppliedNone
  <2>2. \A o : o \in Applied(Release4, s, 1) <=>
           o \in Release4 \/ \E i \in 1 .. 1 : o \in s[i].create
    BY <1>6, AppliedCreates
  <2>3. \A o : o \in Applied(Release4, s, 2) <=>
           o \in Release4 \/ \E i \in 1 .. 2 : o \in s[i].create
    BY <1>6, AppliedCreates
  <2> QED
    BY <1>5, <1>6, <2>1, <2>2, <2>3
<1>8. Executable(s[1], Applied(Release4, s, 0))
  BY <1>2, <1>4, <1>5, <1>6, <1>7 DEF Executable
<1>9. Executable(s[2], Applied(Release4, s, 1))
  BY <1>2, <1>4, <1>5, <1>6, <1>7 DEF Executable
<1>10. \A k \in 0 .. 1 : Executable(s[k + 1], Applied(Release4, s, k))
  BY <1>8, <1>9
<1>11. Applied(Release4, s, 2) = Release3
  BY <1>7
<1>12. Undoes(s, 2, Release4, Release3)
  BY <1>10, <1>11 DEF Undoes
<1> QED
  BY <1>12 DEF s

LEMMA FifthUndone == Undoes(DropActivity, 3, Release5, Release4)
<1> DEFINE s == DropActivity
           d == <<IndexOf("daily_activity", "installation_id"),
                  IndexOf("daily_activity", "activity_date"),
                  TableOf("daily_activity")>>
<1>1. /\ s[1] = DropIndex("daily_activity", "installation_id")
      /\ s[2] = DropIndex("daily_activity", "activity_date")
      /\ s[3] = DropTable("daily_activity")
  BY DEF DropActivity
<1>2. /\ d[1] = IndexOf("daily_activity", "installation_id")
      /\ d[2] = IndexOf("daily_activity", "activity_date")
      /\ d[3] = TableOf("daily_activity")
  OBVIOUS
<1> HIDE DEF s, d
<1>3. \A i \in 1 .. 3 : /\ s[i].create = {} /\ s[i].drop = {d[i]}
                        /\ d[i] \in Release5
  BY <1>1, <1>2, StatementIs DEF Release5, Table, Index
<1>4. \A i, j \in 1 .. 3 : i < j => ~IsPrefix(d[i], d[j])
  BY <1>2, PartsOfIndex
<1>5. \A j \in 1 .. 3 : Len(d[j]) # 2
  <2>1. Len(d[1]) = 3 /\ Len(d[2]) = 3 /\ Len(d[3]) = 1
    BY <1>2, ObjectsAre
  <2> QED
    BY <2>1
<1>6. \A o \in Release4 : \A i \in 1 .. 3 : ~IsPrefix(d[i], o)
  BY <1>2, PartsOfIndex, PartsOfTable
  DEF Release4, Installation, Pruned, Table, Index
<1>7. \A o \in Release5 : o \in Release4 \/ IsPrefix(d[3], o)
  BY <1>2, PartsOfTable DEF Release5, Table, Index
<1>8. \A o : o \in Release4 <=> o \in Release5 /\ \A i \in 1 .. 3 : ~IsPrefix(d[i], o)
  BY <1>6, <1>7 DEF Release5
<1>9. Undoes(s, 3, Release5, Release4)
  BY <1>3, <1>4, <1>5, <1>8, DropsUndo
<1> QED
  BY <1>9 DEF s

LEMMA SixthUndone == Undoes(DropActivityVersion, 2, Release6, Release5)
<1> DEFINE s == DropActivityVersion
           d == <<IndexOf("daily_activity", "version"),
                  ColumnOf("daily_activity", "version")>>
<1>1. /\ s[1] = DropIndex("daily_activity", "version")
      /\ s[2] = DropColumn("daily_activity", "version")
  BY DEF DropActivityVersion
<1>2. /\ d[1] = IndexOf("daily_activity", "version")
      /\ d[2] = ColumnOf("daily_activity", "version")
  OBVIOUS
<1> HIDE DEF s, d
<1>3. \A i \in 1 .. 2 : /\ s[i].create = {} /\ s[i].drop = {d[i]}
                        /\ d[i] \in Release6
  BY <1>1, <1>2, StatementIs DEF Release6, Models, Table, Index
<1>4. \A i, j \in 1 .. 2 : i < j => ~IsPrefix(d[i], d[j])
  BY <1>2, PartsOfIndex
<1>5. /\ Len(d[1]) # 2 /\ Append(d[2], "ix") = d[1]
      /\ IsPrefix(d[1], d[1]) /\ IsPrefix(d[2], d[2])
  BY <1>2, ObjectsAre, PartsOfIndex, PartsOfColumn
<1>6. \A o \in Release5 : ~IsPrefix(d[1], o) /\ ~IsPrefix(d[2], o)
  BY <1>2, PartsOfIndex, PartsOfColumn
  DEF Release5, Release4, Installation, Pruned, Table, Index
<1>7. \A o : o \in Release6 <=> o \in Release5 \/ o = d[1] \/ o = d[2]
  BY <1>2 DEF Release4, Release5, Release6, Models, Installation, Columns,
              Pruned, Table, Index
<1>8. \A o : o \in Release5 <=> o \in Release6 /\ \A i \in 1 .. 2 : ~IsPrefix(d[i], o)
  BY <1>5, <1>6, <1>7
<1>9. \A j \in 1 .. 2 : Len(d[j]) = 2 =>
         \E i \in 1 .. 2 : i < j /\ IsPrefix(d[i], Append(d[j], "ix"))
  <2> SUFFICES ASSUME NEW j \in 1 .. 2, Len(d[j]) = 2
               PROVE  \E i \in 1 .. 2 : i < j /\ IsPrefix(d[i], Append(d[j], "ix"))
    OBVIOUS
  <2>1. j = 2 /\ 1 \in 1 .. 2 /\ 1 < 2
    BY <1>5
  <2>2. IsPrefix(d[1], Append(d[2], "ix"))
    BY <1>5
  <2> QED
    BY <2>1, <2>2
<1>10. Undoes(s, 2, Release6, Release5)
  BY <1>3, <1>4, <1>8, <1>9, DropsUndo
<1> QED
  BY <1>10 DEF s

\* Whatever revision a file is at, a downgrade runs through and leaves the
\* release before.
LEMMA DowngradeUndoes ==
    \A r \in 1 .. 6 :
       Undoes(Downgrade[r], Len(Downgrade[r]), SchemaAt[r], SchemaAt[r - 1])
<1>1. 1 - 1 = 0 /\ 2 - 1 = 1 /\ 3 - 1 = 2 /\ 4 - 1 = 3 /\ 5 - 1 = 4 /\ 6 - 1 = 5
  OBVIOUS
<1> TAKE r \in 1 .. 6
<1>2. r = 1 \/ r = 2 \/ r = 3 \/ r = 4 \/ r = 5 \/ r = 6
  OBVIOUS
<1>3. CASE r = 1
  BY <1>1, <1>3, DowngradesAre, SchemaAtIs, FirstRelease, FirstUndone
<1>4. CASE r = 2
  BY <1>1, <1>4, DowngradesAre, FirstRelease, SecondRelease, SecondUndone
<1>5. CASE r = 3
  BY <1>1, <1>5, DowngradesAre, SecondRelease, ThirdRelease, ThirdUndone
<1>6. CASE r = 4
  BY <1>1, <1>6, DowngradesAre, ThirdRelease, FourthRelease, FourthUndone
<1>7. CASE r = 5
  BY <1>1, <1>7, DowngradesAre, FourthRelease, FifthRelease, FifthUndone
<1>8. CASE r = 6
  BY <1>1, <1>8, DowngradesAre, FifthRelease, SixthRelease, SixthUndone
<1> QED
  BY <1>2, <1>3, <1>4, <1>5, <1>6, <1>7, <1>8

-----------------------------------------------------------------------------
(* Upgrades: a statement that was executed is refused ever after.          *)

\* No upgrade drops more than the two columns, so this is never dropped.
Lasts(o) == \A d \in EventCounts : ~IsPrefix(d, o)

Creates(s) == s.drop = {} /\ \E o \in s.create : Lasts(o)
CreatesNew(s) == Creates(s) /\ s.create \cap EventCounts = {}
DropsCounts(s) == s.create = {} /\ s.drop # {} /\ s.drop \subseteq EventCounts

LEMMA PartsLast ==
    /\ \A t : Lasts(TableOf(t))
    /\ \A t, c : c # "event_count" => Lasts(ColumnOf(t, c))
    /\ \A t, c : c # "event_count" => Lasts(IndexOf(t, c))
BY PartsOfColumn DEF Lasts, EventCounts

\* Tables, other columns and indexes are none of the two columns.
LEMMA NotCounts ==
    /\ \A t : TableOf(t) \notin EventCounts
    /\ \A t, c : c # "event_count" => ColumnOf(t, c) \notin EventCounts
    /\ \A t, c : IndexOf(t, c) \notin EventCounts
<1>1. \A d \in EventCounts : Len(d) = 2 /\ ~Lasts(d)
  BY ObjectsAre, EventCountsLost DEF EventCounts, Lasts
<1> QED
  BY <1>1, PartsLast, ObjectsAre

LEMMA FirstCreates == \A i \in 1 .. 6 : Creates(CreateInstallation[i])
<1> DEFINE u == CreateInstallation
<1>1. /\ u[1] = Create(Table("installation", {"installation_id", "version", "os",
                      "architecture", "runtime", "event_count", "first_seen_at",
                      "last_seen_at"}))
      /\ u[2] = CreateIndex("installation", "architecture")
      /\ u[3] = CreateIndex("installation", "first_seen_at")
      /\ u[4] = CreateIndex("installation", "last_seen_at")
      /\ u[5] = CreateIndex("installation", "os")
      /\ u[6] = CreateIndex("installation", "version")
  BY DEF CreateInstallation
<1> HIDE DEF u
<1>2. Creates(u[1])
  <2>1. TableOf("installation") \in u[1].create /\ u[1].drop = {}
    BY <1>1, StatementIs DEF Table
  <2> QED
    BY <2>1, PartsLast DEF Creates
<1>3. \A t, c : c # "event_count" => Creates(CreateIndex(t, c))
  BY StatementIs, PartsLast DEF Creates
<1>4. Creates(u[2]) /\ Creates(u[3]) /\ Creates(u[4]) /\ Creates(u[5]) /\ Creates(u[6])
  BY <1>1, <1>3
<1>5. \A i \in 1 .. 6 : Creates(u[i])
  BY <1>2, <1>4
<1> QED
  BY <1>5 DEF u

LEMMA SecondCreates == Creates(AddMessageVersion[1])
<1>1. AddMessageVersion[1] = CreateColumn("installation", "message_version")
  BY DEF AddMessageVersion
<1>2. Creates(CreateColumn("installation", "message_version"))
  BY StatementIs, PartsLast DEF Creates
<1> QED
  BY <1>1, <1>2

LEMMA ThirdCreates == \A i \in 1 .. 2 : Creates(CreatePruned[i])
<1> DEFINE u == CreatePruned
<1>1. /\ u[1] = Create(Table("pruned_installation",
                            {"installation_id", "event_count", "pruned_at"}))
      /\ u[2] = CreateIndex("pruned_installation", "pruned_at")
  BY DEF CreatePruned
<1> HIDE DEF u
<1>2. TableOf("pruned_installation") \in u[1].create /\ u[1].drop = {}
  BY <1>1, StatementIs DEF Table
<1>3. Creates(u[1])
  BY <1>2, PartsLast DEF Creates
<1>4. Creates(CreateIndex("pruned_installation", "pruned_at"))
  BY StatementIs, PartsLast DEF Creates
<1>5. \A i \in 1 .. 2 : Creates(u[i])
  BY <1>1, <1>3, <1>4
<1> QED
  BY <1>5 DEF u

LEMMA FourthDrops == \A i \in 1 .. 2 : DropsCounts(DropEventCounts[i])
<1> DEFINE u == DropEventCounts
<1>1. /\ u[1] = DropColumn("installation", "event_count")
      /\ u[2] = DropColumn("pruned_installation", "event_count")
  BY DEF DropEventCounts
<1> HIDE DEF u
<1>2. \A t, c : ColumnOf(t, c) \in EventCounts => DropsCounts(DropColumn(t, c))
  BY StatementIs DEF DropsCounts
<1>3. /\ ColumnOf("installation", "event_count") \in EventCounts
      /\ ColumnOf("pruned_installation", "event_count") \in EventCounts
  BY DEF EventCounts
<1>4. \A i \in 1 .. 2 : DropsCounts(u[i])
  BY <1>1, <1>2, <1>3
<1> QED
  BY <1>4 DEF u

LEMMA FifthCreates == \A i \in 1 .. 3 : CreatesNew(CreateActivity[i])
<1> DEFINE u == CreateActivity
<1>1. /\ u[1] = Create(Table("daily_activity", {"installation_id", "activity_date"}))
      /\ u[2] = CreateIndex("daily_activity", "activity_date")
      /\ u[3] = CreateIndex("daily_activity", "installation_id")
  BY DEF CreateActivity
<1> HIDE DEF u
<1>2. CreatesNew(u[1])
  <2>1. u[1].drop = {} /\ TableOf("daily_activity") \in u[1].create
    BY <1>1, StatementIs DEF Table
  <2>2. \A o \in u[1].create : o \notin EventCounts
    BY <1>1, StatementIs, NotCounts DEF Table
  <2> QED
    BY <2>1, <2>2, PartsLast DEF CreatesNew, Creates
<1>3. \A t, c : c # "event_count" => CreatesNew(CreateIndex(t, c))
  BY StatementIs, PartsLast, NotCounts DEF CreatesNew, Creates
<1>4. CreatesNew(u[2]) /\ CreatesNew(u[3])
  BY <1>1, <1>3
<1>5. \A i \in 1 .. 3 : CreatesNew(u[i])
  BY <1>2, <1>4
<1> QED
  BY <1>5 DEF u

LEMMA SixthCreates == \A i \in 1 .. 2 : CreatesNew(AddActivityVersion[i])
<1> DEFINE u == AddActivityVersion
<1>1. /\ u[1] = CreateColumn("daily_activity", "version")
      /\ u[2] = CreateIndex("daily_activity", "version")
  BY DEF AddActivityVersion
<1> HIDE DEF u
<1>2. CreatesNew(CreateColumn("daily_activity", "version"))
  BY StatementIs, PartsLast, NotCounts DEF CreatesNew, Creates
<1>3. CreatesNew(CreateIndex("daily_activity", "version"))
  BY StatementIs, PartsLast, NotCounts DEF CreatesNew, Creates
<1>4. \A i \in 1 .. 2 : CreatesNew(u[i])
  BY <1>1, <1>2, <1>3
<1> QED
  BY <1>4 DEF u

\* All of it in one: only the fourth revision drops, and it creates nothing.
LEMMA StatementsDo ==
    \A r \in 1 .. 6 :
       /\ Len(Upgrade[r]) \in 1 .. 6
       /\ \A i \in 1 .. Len(Upgrade[r]) :
             /\ r < 4 => Creates(Upgrade[r][i])
             /\ r = 4 => DropsCounts(Upgrade[r][i])
             /\ r > 4 => CreatesNew(Upgrade[r][i])
<1> TAKE r \in 1 .. 6
<1>1. CASE r = 1
  BY <1>1, UpgradesAre, FirstCreates
<1>2. CASE r = 2
  <2>1. \A i \in 1 .. 1 : i = 1
    OBVIOUS
  <2> QED
    BY <1>2, <2>1, UpgradesAre, SecondCreates
<1>3. CASE r = 3
  BY <1>3, UpgradesAre, ThirdCreates
<1>4. CASE r = 4
  BY <1>4, UpgradesAre, FourthDrops
<1>5. CASE r = 5
  BY <1>5, UpgradesAre, FifthCreates
<1>6. CASE r = 6
  BY <1>6, UpgradesAre, SixthCreates
<1> QED
  BY <1>1, <1>2, <1>3, <1>4, <1>5, <1>6

\* Where an upgrade stands: release r and the first k statements of the next.
Steps(r) == IF r = HeadRevision THEN 0 ELSE Len(Upgrade[r + 1])
Stage(r, k) ==
    IF r = HeadRevision THEN SchemaAt[r] ELSE Applied(SchemaAt[r], Upgrade[r + 1], k)

\* What a statement leaves behind for good.
Seen(s, db) ==
    \/ \E o \in s.create \cap db : Lasts(o)
    \/ /\ s.drop # {} /\ s.drop \subseteq EventCounts
       /\ s.drop \cap db = {}

LEMMA SeenRefused ==
    ASSUME NEW s, NEW db, Seen(s, db)
    PROVE  ~Executable(s, db)
BY DEF Seen, Executable

\* It is seen from its execution on, for the rest of its revision ...
LEMMA SeenWithin ==
    ASSUME NEW db, NEW r \in 1 .. 6, NEW k \in 0 .. Len(Upgrade[r]), NEW i \in 1 .. k
    PROVE  Seen(Upgrade[r][i], Applied(db, Upgrade[r], k))
<1> DEFINE u == Upgrade[r]
           new == Applied(db, u, k)
<1>1. /\ Len(u) \in 1 .. 6 /\ i \in 1 .. Len(u)
      /\ \A j \in 1 .. k : j \in 1 .. Len(u)
  BY StatementsDo
<1>2. CASE r # 4
  <2>1. /\ \A j \in 1 .. k : u[j].drop = {}
        /\ \E o \in u[i].create : Lasts(o)
    <3>1. \A j \in 1 .. Len(u) : Creates(u[j])
      <4>1. CASE r < 4
        BY <4>1, StatementsDo
      <4>2. CASE r > 4
        BY <4>2, StatementsDo DEF CreatesNew
      <4> QED
        BY <1>2, <4>1, <4>2
    <3> QED
      BY <1>1, <3>1 DEF Creates
  <2>2. \A o : o \in u[i].create => o \in new
    BY <2>1, AppliedCreates
  <2> QED
    BY <2>1, <2>2 DEF Seen
<1>3. CASE r = 4
  <2>1. /\ \A j \in 1 .. k : u[j].create = {}
        /\ u[i].drop # {} /\ u[i].drop \subseteq EventCounts
    BY <1>1, <1>3, StatementsDo DEF DropsCounts
  <2>2. \A o : o \in new =>
           \A j \in 1 .. k : \A d \in u[j].drop : ~IsPrefix(d, o)
    BY <2>1, AppliedDrops
  <2>3. \A d \in u[i].drop : d \notin new
    BY <2>1, <2>2, EventCountsLost
  <2> QED
    BY <2>1, <2>3 DEF Seen
<1> QED
  BY <1>2, <1>3

\* ... and through every revision after it.
LEMMA SeenAfter ==
    ASSUME NEW a \in 1 .. 5, NEW i \in 1 .. Len(Upgrade[a]), NEW db,
           NEW r \in a + 1 .. 6, NEW k \in 0 .. Len(Upgrade[r]),
           Seen(Upgrade[a][i], db)
    PROVE  Seen(Upgrade[a][i], Applied(db, Upgrade[r], k))
<1> DEFINE s == Upgrade[a][i]
           u == Upgrade[r]
           new == Applied(db, u, k)
<1>1. /\ a \in 1 .. 6 /\ r \in 1 .. 6 /\ Len(u) \in 1 .. 6
      /\ \A j \in 1 .. k : j \in 1 .. Len(u)
  BY StatementsDo
<1>2. \A j \in 1 .. k : u[j].drop \subseteq EventCounts
  BY <1>1, StatementsDo DEF Creates, CreatesNew, DropsCounts
<1>3. \A o : o \in db /\ Lasts(o) => o \in new
  BY <1>2 DEF Applied, DropsOne, Lasts
<1>4. CASE \E o \in s.create \cap db : Lasts(o)
  BY <1>3, <1>4 DEF Seen
<1>5. CASE /\ s.drop # {} /\ s.drop \subseteq EventCounts
           /\ s.drop \cap db = {}
  <2>1. a = 4 \/ s.drop = {}
    BY <1>1, StatementsDo DEF Creates, CreatesNew
  <2>2. r > 4
    BY <1>5, <2>1
  <2>3. \A j \in 1 .. k : u[j].drop = {} /\ u[j].create \cap EventCounts = {}
    BY <1>1, <2>2, StatementsDo DEF CreatesNew, Creates
  <2>4. \A o : o \in new => o \in db \/ \E j \in 1 .. k : o \in u[j].create
    BY <2>3, AppliedCreates
  <2>5. \A d \in s.drop : d \notin new
    BY <1>5, <2>3, <2>4
  <2> QED
    BY <1>5, <2>5 DEF Seen
<1> QED
  BY <1>4, <1>5 DEF Seen

LEMMA SeenInReleases ==
    \A r \in 0 .. 6 : \A a \in 1 .. r : \A i \in 1 .. Len(Upgrade[a]) :
       Seen(Upgrade[a][i], SchemaAt[r])
<1> DEFINE P(r) == \A a \in 1 .. r : \A i \in 1 .. Len(Upgrade[a]) :
                     Seen(Upgrade[a][i], SchemaAt[r])
<1>1. P(0)
  OBVIOUS
<1>2. ASSUME NEW r \in 1 .. 6, P(r - 1) PROVE P(r)
  <2> TAKE a \in 1 .. r
  <2> TAKE i \in 1 .. Len(Upgrade[a])
  <2>1. /\ SchemaAt[r] = Applied(SchemaAt[r - 1], Upgrade[r], Len(Upgrade[r]))
        /\ Len(Upgrade[r]) \in 0 .. Len(Upgrade[r]) /\ Len(Upgrade[r]) \in Nat
    BY SchemaAtIs, StatementsDo
  <2>2. CASE a = r
    BY <2>1, <2>2, SeenWithin
  <2>3. CASE a # r
    <3>1. a \in 1 .. r - 1 /\ a \in 1 .. 5 /\ r \in a + 1 .. 6
      BY <2>3
    <3>2. Seen(Upgrade[a][i], SchemaAt[r - 1])
      BY <1>2, <3>1
    <3> QED
      BY <2>1, <3>1, <3>2, SeenAfter
  <2> QED
    BY <2>2, <2>3
<1> HIDE DEF P
<1>3. P(1)
  BY <1>1, <1>2
<1>4. P(2)
  BY <1>2, <1>3
<1>5. P(3)
  BY <1>2, <1>4
<1>6. P(4)
  BY <1>2, <1>5
<1>7. P(5)
  BY <1>2, <1>6
<1>8. P(6)
  BY <1>2, <1>7
<1>9. \A r \in 0 .. 6 : P(r)
  BY <1>1, <1>3, <1>4, <1>5, <1>6, <1>7, <1>8
<1> QED
  BY <1>9 DEF P

\* Who is behind what the file holds cannot execute his next statement.
LEMMA BehindIsRefused ==
    ASSUME NEW r \in 0 .. 6, NEW k \in 0 .. Steps(r),
           NEW a \in 0 .. 5, NEW i \in 0 .. Steps(a), i < Steps(a),
           a < r \/ (a = r /\ i < k)
    PROVE  ~Executable(Upgrade[a + 1][i + 1], Stage(r, k))
<1>1. Steps(a) = Len(Upgrade[a + 1]) /\ Steps(a) \in 1 .. 6
  BY HeadIsSix, StatementsDo DEF Steps
<1>2. a + 1 \in 1 .. 6 /\ i + 1 \in 1 .. Len(Upgrade[a + 1])
  BY <1>1
<1>3. CASE a = r
  <2>1. /\ Stage(r, k) = Applied(SchemaAt[r], Upgrade[a + 1], k)
        /\ k \in 0 .. Len(Upgrade[a + 1]) /\ i + 1 \in 1 .. k
    BY <1>1, <1>3, HeadIsSix DEF Stage
  <2> QED
    BY <1>2, <2>1, SeenWithin, SeenRefused
<1>4. CASE a < r
  <2>1. a + 1 \in 1 .. r
    BY <1>4
  <2>2. Seen(Upgrade[a + 1][i + 1], SchemaAt[r])
    BY <1>2, <2>1, SeenInReleases
  <2>3. CASE r = 6
    BY <2>2, <2>3, SeenRefused, HeadIsSix DEF Stage
  <2>4. CASE r # 6
    <3>1. /\ Stage(r, k) = Applied(SchemaAt[r], Upgrade[r + 1], k)
          /\ k \in 0 .. Len(Upgrade[r + 1])
      BY <2>4, HeadIsSix DEF Stage, Steps
    <3>2. a + 1 \in 1 .. 5 /\ r + 1 \in (a + 1) + 1 .. 6
      BY <2>1, <2>4
    <3> QED
      BY <1>2, <2>2, <3>1, <3>2, SeenAfter, SeenRefused
  <2> QED
    BY <2>3, <2>4
<1> QED
  BY <1>3, <1>4

\* From stage to stage.
LEMMA StepsAre ==
    /\ Steps(6) = 0
    /\ \A r \in 0 .. 5 : Steps(r) = Len(Upgrade[r + 1]) /\ Steps(r) \in 1 .. 6
BY HeadIsSix, StatementsDo DEF Steps

LEMMA StageStarts == \A r \in 0 .. 6 : Stage(r, 0) = SchemaAt[r]
BY AppliedNone DEF Stage

LEMMA StageGoesOn ==
    ASSUME NEW r \in 0 .. 5, NEW k \in Nat
    PROVE  Stage(r, k + 1) = Apply(Stage(r, k), Upgrade[r + 1][k + 1])
BY HeadIsSix, AppliedOneMore DEF Stage

LEMMA StageEnds == \A r \in 0 .. 5 : Stage(r, Steps(r)) = SchemaAt[r + 1]
<1> TAKE r \in 0 .. 5
<1>1. r + 1 \in 1 .. 6 /\ (r + 1) - 1 = r
  OBVIOUS
<1>2. SchemaAt[r + 1] = Applied(SchemaAt[r], Upgrade[r + 1], Len(Upgrade[r + 1]))
  BY <1>1, SchemaAtIs
<1> QED
  BY <1>2, HeadIsSix DEF Stage, Steps

-----------------------------------------------------------------------------
(* No stage, up or down, holds an object that no release has.              *)

Objects == UNION {SchemaAt[r] : r \in 0 .. HeadRevision}

LEMMA ReleasesTyped == \A r \in 0 .. 6 : SchemaAt[r] \subseteq Objects
BY HeadIsSix DEF Objects

LEMMA StagesTyped ==
    ASSUME NEW r \in 0 .. 6, NEW k \in 0 .. Steps(r)
    PROVE  Stage(r, k) \subseteq Objects
<1>1. CASE r = 6
  BY <1>1, ReleasesTyped, HeadIsSix DEF Stage
<1>2. CASE r # 6
  <2> DEFINE u == Upgrade[r + 1]
  <2>1. /\ r \in 0 .. 5 /\ r + 1 \in 1 .. 6 /\ (r + 1) - 1 = r
        /\ Len(u) \in 1 .. 6 /\ k \in 0 .. Len(u)
        /\ Stage(r, k) = Applied(SchemaAt[r], u, k)
        /\ SchemaAt[r + 1] = Applied(SchemaAt[r], u, Len(u))
    <3>1. r \in 0 .. 5 /\ r + 1 \in 1 .. 6 /\ (r + 1) - 1 = r /\ r # HeadRevision
      BY <1>2, HeadIsSix
    <3>2. Steps(r) = Len(u) /\ Len(u) \in 1 .. 6 /\ Stage(r, k) = Applied(SchemaAt[r], u, k)
      BY <3>1, StepsAre DEF Stage
    <3>3. SchemaAt[r + 1] = Applied(SchemaAt[(r + 1) - 1], u, Len(u))
      BY <3>1, SchemaAtIs
    <3> QED
      BY <3>1, <3>2, <3>3
  <2>2. CASE r = 3
    <3>1. \A i \in 1 .. k : u[i].create = {}
      BY <2>1, <2>2, StatementsDo DEF DropsCounts
    <3>2. \A o : o \in Applied(SchemaAt[r], u, k) => o \in SchemaAt[r]
      BY <2>1, <3>1, AppliedDrops
    <3> QED
      BY <2>1, <3>2, ReleasesTyped
  <2>3. CASE r # 3
    <3>1. \A i \in 1 .. Len(u) : u[i].drop = {}
      <4>1. CASE r + 1 < 4
        BY <2>1, <4>1, StatementsDo DEF Creates
      <4>2. CASE r + 1 > 4
        BY <2>1, <4>2, StatementsDo DEF CreatesNew, Creates
      <4> QED
        BY <2>1, <2>3, <4>1, <4>2
    <3>2. \A o : o \in Applied(SchemaAt[r], u, k) <=>
             o \in SchemaAt[r] \/ \E i \in 1 .. k : o \in u[i].create
      <4>1. \A i \in 1 .. k : u[i].drop = {}
        BY <2>1, <3>1
      <4> QED
        BY <2>1, <4>1, AppliedCreates
    <3>3. \A o : o \in Applied(SchemaAt[r], u, Len(u)) <=>
             o \in SchemaAt[r] \/ \E i \in 1 .. Len(u) : o \in u[i].create
      BY <2>1, <3>1, AppliedCreates
    <3>4. \A o : o \in Stage(r, k) => o \in SchemaAt[r + 1]
      BY <2>1, <3>2, <3>3
    <3> QED
      BY <2>1, <3>4, ReleasesTyped
  <2> QED
    BY <2>2, <2>3
<1> QED
  BY <1>1, <1>2

LEMMA DropsCreateNothing ==
    /\ \A t, c : DropIndex(t, c).create = {} /\ DropColumn(t, c).create = {}
    /\ \A t : DropTable(t).create = {}
BY StatementIs

\* All that a downgrade brings back is the two columns.
LEMMA DowngradesCreate ==
    \A r \in 1 .. 6 : \A i \in 1 .. Len(Downgrade[r]) :
       Downgrade[r][i].create \subseteq EventCounts
<1>1. \A i \in 1 .. 6 : DropInstallation[i].create = {}
  BY DropsCreateNothing DEF DropInstallation
<1>2. DropMessageVersion[1].create = {}
  BY DropsCreateNothing DEF DropMessageVersion
<1>3. \A i \in 1 .. 2 : DropPruned[i].create = {}
  BY DropsCreateNothing DEF DropPruned
<1>4. \A i \in 1 .. 2 : AddEventCounts[i].create \subseteq EventCounts
  <2> DEFINE s == AddEventCounts
  <2>1. /\ s[1] = CreateColumn("pruned_installation", "event_count")
        /\ s[2] = CreateColumn("installation", "event_count")
    BY DEF AddEventCounts
  <2> HIDE DEF s
  <2>2. \A t, c : ColumnOf(t, c) \in EventCounts =>
                  CreateColumn(t, c).create \subseteq EventCounts
    BY StatementIs
  <2>3. /\ ColumnOf("installation", "event_count") \in EventCounts
        /\ ColumnOf("pruned_installation", "event_count") \in EventCounts
    BY DEF EventCounts
  <2>4. \A i \in 1 .. 2 : s[i].create \subseteq EventCounts
    BY <2>1, <2>2, <2>3
  <2> QED
    BY <2>4 DEF s
<1>5. \A i \in 1 .. 3 : DropActivity[i].create = {}
  BY DropsCreateNothing DEF DropActivity
<1>6. \A i \in 1 .. 2 : DropActivityVersion[i].create = {}
  BY DropsCreateNothing DEF DropActivityVersion
<1>7. 1 .. 1 = {1}
  OBVIOUS
<1> TAKE r \in 1 .. 6
<1>8. r = 1 \/ r = 2 \/ r = 3 \/ r = 4 \/ r = 5 \/ r = 6
  OBVIOUS
<1>9. CASE r = 4
  BY <1>4, <1>9, DowngradesAre
<1>10. CASE r # 4
  <2>1. \A i \in 1 .. Len(Downgrade[r]) : Downgrade[r][i].create = {}
    <3>1. CASE r = 1
      BY <1>1, <3>1, DowngradesAre
    <3>2. CASE r = 2
      BY <1>2, <1>7, <3>2, DowngradesAre
    <3>3. CASE r = 3
      BY <1>3, <3>3, DowngradesAre
    <3>4. CASE r = 5
      BY <1>5, <3>4, DowngradesAre
    <3>5. CASE r = 6
      BY <1>6, <3>5, DowngradesAre
    <3> QED
      BY <1>8, <1>10, <3>1, <3>2, <3>3, <3>4, <3>5
  <2> QED
    BY <2>1
<1> QED
  BY <1>9, <1>10

LEMMA DowngradesTyped ==
    ASSUME NEW r \in 1 .. 6, NEW k \in 0 .. Len(Downgrade[r])
    PROVE  Applied(SchemaAt[r], Downgrade[r], k) \subseteq Objects
<1>1. EventCounts \subseteq SchemaAt[3]
  BY ThirdRelease, EventCountsLost
<1>2. Len(Downgrade[r]) \in 1 .. 6
  BY DowngradesAre
<1>3. \A o : o \in Applied(SchemaAt[r], Downgrade[r], k) =>
         o \in SchemaAt[r] \/ \E i \in 1 .. k : o \in Downgrade[r][i].create
  BY DEF Applied
<1>4. \A i \in 1 .. k : Downgrade[r][i].create \subseteq EventCounts
  BY <1>2, DowngradesCreate
<1> QED
  BY <1>1, <1>3, <1>4, ReleasesTyped

-----------------------------------------------------------------------------
(* The inductive invariant.                                                *)

\* A process that upgrades is never ahead of what the file holds: the stamp
\* and k statements more.
Behind(p, k) ==
    \/ proc[p].rev < stamped
    \/ proc[p].rev = stamped /\ proc[p].done <= k

InStep ==
    \A p \in Procs : proc[p].pc = "upgrade" => proc[p].done <= Steps(proc[p].rev)

Upgrading ==
    ~Downgrading => \E k \in 0 .. Steps(stamped) :
        /\ schema = Stage(stamped, k)
        /\ \A p \in Procs : proc[p].pc = "upgrade" => Behind(p, k)

\* Who downgrades is alone, and has done what the file lacks.
AloneDown ==
    \A p \in Procs : proc[p].pc = "downgrade" =>
        /\ \A q \in Procs \ {p} : proc[q] = Idle
        /\ proc[p].rev = stamped /\ stamped > 0
        /\ proc[p].done <= Len(Downgrade[stamped])
        /\ schema = Applied(SchemaAt[stamped], Downgrade[stamped], proc[p].done)

Served == proc[Server] = Serving => stamped = HeadRevision

States == {Idle, Serving} \cup Migrating

Inv ==
    /\ stamped \in 0 .. HeadRevision
    /\ proc \in [Procs -> States]
    /\ crashes \in 0 .. MaxCrashes
    /\ downgrades \in 0 .. MaxDowngrades
    /\ InStep /\ Upgrading /\ AloneDown /\ Served

LEMMA StatesAre ==
    /\ Idle.pc = "idle" /\ Serving.pc = "serving" /\ Idle # Serving
    /\ \A s \in Migrating :
          /\ s.pc \in {"upgrade", "downgrade"} /\ s.rev \in 0 .. 6 /\ s.done \in 0 .. 6
          /\ s # Idle /\ s # Serving
BY HeadIsSix DEF Idle, Serving, Migrating

LEMMA ProcIs ==
    ASSUME Inv, NEW p \in Procs
    PROVE  /\ proc[p] \in States
           /\ proc[p].pc \in {"upgrade", "downgrade"} =>
                 proc[p].rev \in 0 .. 6 /\ proc[p].done \in 0 .. 6
           /\ stamped \in 0 .. 6
BY StatesAre, HeadIsSix DEF Inv, States

LEMMA ServerIsProc == Server \in Procs /\ \A p \in Scripts : p \in Procs /\ p # Server
BY MigrationsAssumption DEF Procs

LEMMA InitInv == Init => Inv
<1> SUFFICES ASSUME Init PROVE Inv
  OBVIOUS
<1>1. stamped \in 0 .. 6 /\ schema = SchemaAt[stamped] /\ \A p \in Procs : proc[p] = Idle
  BY HeadIsSix DEF Init
<1>2. 0 \in 0 .. Steps(stamped) /\ schema = Stage(stamped, 0)
  <2>1. CASE stamped = 6
    BY <1>1, <2>1, StepsAre, StageStarts
  <2>2. CASE stamped # 6
    BY <1>1, <2>2, StepsAre, StageStarts
  <2> QED
    BY <2>1, <2>2
<1>3. InStep /\ Upgrading /\ AloneDown
  BY <1>1, <1>2, StatesAre DEF InStep, Upgrading, AloneDown
<1>4. Served
  BY <1>1, StatesAre, ServerIsProc DEF Served
<1>5. /\ stamped \in 0 .. HeadRevision /\ proc \in [Procs -> States]
      /\ crashes \in 0 .. MaxCrashes /\ downgrades \in 0 .. MaxDowngrades
  BY MigrationsAssumption DEF Init, States
<1> QED
  BY <1>3, <1>4, <1>5 DEF Inv

\* Beside a process that serves or upgrades nobody downgrades.
LEMMA NobodyDowngrades ==
    ASSUME Inv, NEW p \in Procs, proc[p] = Serving \/ proc[p].pc = "upgrade"
    PROVE  ~Downgrading
<1> SUFFICES ASSUME NEW q \in Procs, proc[q].pc = "downgrade" PROVE FALSE
  BY DEF Downgrading
<1>1. p # q
  BY StatesAre
<1>2. proc[p] = Idle
  BY <1>1 DEF Inv, AloneDown
<1> QED
  BY <1>2, StatesAre

\* What a process finds when nobody downgrades.
LEMMA StageHeld ==
    ASSUME Inv, ~Downgrading
    PROVE  \E k \in 0 .. Steps(stamped) :
              /\ schema = Stage(stamped, k)
              /\ \A p \in Procs : proc[p].pc = "upgrade" => Behind(p, k)
BY DEF Inv, Upgrading

LEMMA BecomeIs ==
    ASSUME Inv, NEW p \in Procs, NEW state \in States, Become(p, state)
    PROVE  /\ proc' \in [Procs -> States]
           /\ proc'[p] = state /\ \A q \in Procs \ {p} : proc'[q] = proc[q]
BY DEF Inv, Become

\* Steps that leave the file alone, with nobody on the way down.
LEMMA FileStays ==
    ASSUME Inv, ~Downgrading, NEW p \in Procs, NEW state \in States,
           Become(p, state), UNCHANGED file,
           crashes' \in 0 .. MaxCrashes, downgrades' \in 0 .. MaxDowngrades,
           state.pc # "downgrade",
           state.pc = "upgrade" => state.rev = stamped /\ state.done = 0,
           p = Server /\ state = Serving => stamped = HeadRevision
    PROVE  Inv'
<1>1. /\ proc' \in [Procs -> States]
      /\ proc'[p] = state /\ \A q \in Procs \ {p} : proc'[q] = proc[q]
  BY BecomeIs
<1>2. stamped' = stamped /\ schema' = schema /\ stamped \in 0 .. 6
  BY HeadIsSix DEF file, Inv
<1>3. \A q \in Procs : proc[q].pc # "downgrade" /\ proc'[q].pc # "downgrade"
  BY <1>1 DEF Downgrading
<1>4. AloneDown'
  BY <1>3 DEF AloneDown
<1>5. InStep'
  <2>1. 0 <= Steps(stamped)
    BY <1>2, StepsAre
  <2>2. \A q \in Procs : proc'[q].pc = "upgrade" => proc'[q].done <= Steps(proc'[q].rev)
    BY <1>1, <2>1 DEF Inv, InStep
  <2> QED
    BY <2>2 DEF InStep
<1>6. Upgrading'
  <2>1. PICK k \in 0 .. Steps(stamped) :
           /\ schema = Stage(stamped, k)
           /\ \A q \in Procs : proc[q].pc = "upgrade" => Behind(q, k)
    BY StageHeld
  <2>2. \A q \in Procs : proc'[q].pc = "upgrade" => Behind(q, k)'
    BY <1>1, <1>2, <2>1, StepsAre DEF Behind
  <2>3. k \in 0 .. Steps(stamped)' /\ (schema = Stage(stamped, k))'
    BY <1>2, <2>1
  <2> QED
    BY <2>2, <2>3 DEF Upgrading
<1>7. Served'
  BY <1>1, <1>2, ServerIsProc DEF Inv, Served
<1> QED
  BY <1>1, <1>2, <1>4, <1>5, <1>6, <1>7, HeadIsSix DEF Inv

\* A downgrade begins on the stamped release, entire.
LEMMA StartDowngradeInv ==
    ASSUME Inv, NEW p \in Procs, StartDowngrade(p)
    PROVE  Inv'
<1> DEFINE state == [pc |-> "downgrade", rev |-> stamped, done |-> 0]
<1>1. /\ stamped \in 1 .. 6 /\ stamped' = stamped /\ schema' = schema
      /\ downgrades' = downgrades + 1 /\ downgrades < MaxDowngrades
      /\ crashes' = crashes /\ Become(p, state)
      /\ \A q \in Procs : proc[q] = Idle
  BY HeadIsSix DEF Inv, StartDowngrade, file
<1>2. state \in States /\ state.pc = "downgrade" /\ state.rev = stamped /\ state.done = 0
  BY <1>1, HeadIsSix DEF States, Migrating
<1> HIDE DEF state
<1>3. schema = SchemaAt[stamped]
  BY <1>1, StatesAre DEF StartDowngrade, Torn, AtWork
<1>4. /\ proc' \in [Procs -> States]
      /\ proc'[p] = state /\ \A q \in Procs \ {p} : proc'[q] = Idle
  BY <1>1, <1>2, BecomeIs
<1>5. schema = Applied(SchemaAt[stamped], Downgrade[stamped], 0)
  BY <1>3, AppliedNone
<1>6. 0 <= Len(Downgrade[stamped])
  BY <1>1, DowngradesAre
<1>7. AloneDown'
  BY <1>1, <1>2, <1>4, <1>5, <1>6, StatesAre DEF AloneDown
<1>8. Downgrading'
  BY <1>2, <1>4 DEF Downgrading
<1>9. \A q \in Procs : proc'[q].pc # "upgrade" /\ proc'[q] # Serving
  BY <1>2, <1>4, StatesAre
<1>10. InStep' /\ Upgrading' /\ Served'
  BY <1>8, <1>9, ServerIsProc DEF InStep, Upgrading, Served
<1>11. downgrades' \in 0 .. MaxDowngrades
  BY <1>1, MigrationsAssumption DEF Inv
<1> QED
  BY <1>1, <1>4, <1>7, <1>10, <1>11, HeadIsSix DEF Inv

\* The statement of an upgrade that can be executed is the next one of the
\* file, whoever executes it.
LEMMA ExecuteUpInv ==
    ASSUME Inv, NEW p \in Procs, Execute(p), proc[p].pc = "upgrade"
    PROVE  Inv'
<1> DEFINE a == proc[p].rev
           i == proc[p].done
           state == [proc[p] EXCEPT !.done = @ + 1]
<1>1. ~Downgrading
  BY NobodyDowngrades
<1>2. PICK k \in 0 .. Steps(stamped) :
         /\ schema = Stage(stamped, k)
         /\ \A q \in Procs : proc[q].pc = "upgrade" => Behind(q, k)
  BY <1>1, StageHeld
<1>3. /\ a \in 0 .. 5 /\ i \in 0 .. 6 /\ stamped \in 0 .. 6
      /\ Statements(p) = Upgrade[a + 1] /\ i < Steps(a) /\ Steps(a) \in 1 .. 6
      /\ proc[p] \in Migrating
  <2>1. a \in 0 .. 6 /\ i \in 0 .. 6 /\ a < 6 /\ stamped \in 0 .. 6
    BY ProcIs, HeadIsSix DEF Execute, AtWork
  <2>2. Statements(p) = Upgrade[a + 1] /\ i < Len(Statements(p))
    BY DEF Statements, Execute
  <2>3. proc[p] \in Migrating
    BY ProcIs, StatesAre DEF States
  <2> HIDE DEF a, i
  <2>4. a \in 0 .. 5
    BY <2>1
  <2>5. Steps(a) = Len(Upgrade[a + 1]) /\ Steps(a) \in 1 .. 6
    BY <2>4, StepsAre
  <2> QED
    BY <2>1, <2>2, <2>3, <2>4, <2>5
<1>4. /\ Executable(Upgrade[a + 1][i + 1], schema)
      /\ schema' = Apply(schema, Upgrade[a + 1][i + 1])
      /\ Become(p, state)
      /\ stamped' = stamped /\ crashes' = crashes /\ downgrades' = downgrades
  BY <1>3 DEF Execute, Refused, NextStatement
<1>5. a = stamped /\ i = k
  <2>1. a < stamped \/ (a = stamped /\ i <= k)
    BY <1>2 DEF Behind
  <2>2. ~(a < stamped \/ (a = stamped /\ i < k))
    <3> SUFFICES ASSUME a < stamped \/ (a = stamped /\ i < k) PROVE FALSE
      OBVIOUS
    <3>1. i \in 0 .. Steps(a)
      BY <1>3
    <3> HIDE DEF a, i
    <3>2. ~Executable(Upgrade[a + 1][i + 1], Stage(stamped, k))
      BY <1>2, <1>3, <3>1, BehindIsRefused
    <3> QED
      BY <1>2, <1>4, <3>2
  <2>3. k \in Nat
    BY <1>2, <1>3, StepsAre
  <2> QED
    BY <1>3, <2>1, <2>2, <2>3
<1>6. k + 1 \in 0 .. Steps(stamped) /\ schema' = Stage(stamped, k + 1)
  <2>1. k \in Nat /\ k < Steps(stamped) /\ Steps(stamped) \in 1 .. 6 /\ stamped \in 0 .. 5
    BY <1>2, <1>3, <1>5, StepsAre
  <2>2. Stage(stamped, k + 1) = Apply(Stage(stamped, k), Upgrade[stamped + 1][k + 1])
    BY <2>1, StageGoesOn
  <2> QED
    BY <1>2, <1>4, <1>5, <2>1, <2>2
<1>7. state \in States /\ state.pc = "upgrade" /\ state.rev = a /\ state.done = i + 1
  BY <1>3 DEF States, Migrating
<1> HIDE DEF state, a, i
<1>8. /\ proc' \in [Procs -> States]
      /\ proc'[p] = state /\ \A q \in Procs \ {p} : proc'[q] = proc[q]
  BY <1>4, <1>7, BecomeIs
<1>9. \A q \in Procs : proc'[q].pc # "downgrade"
  BY <1>1, <1>7, <1>8 DEF Downgrading
<1>10. InStep'
  <2>1. i + 1 <= Steps(a)
    BY <1>3
  <2>2. \A q \in Procs : proc'[q].pc = "upgrade" => proc'[q].done <= Steps(proc'[q].rev)
    BY <1>7, <1>8, <2>1 DEF Inv, InStep
  <2> QED
    BY <2>2 DEF InStep
<1>11. Upgrading'
  <2>1. \A q \in Procs : proc'[q].pc = "upgrade" => Behind(q, k + 1)'
    <3> SUFFICES ASSUME NEW q \in Procs, proc'[q].pc = "upgrade"
                 PROVE  Behind(q, k + 1)'
      OBVIOUS
    <3>1. CASE q = p
      BY <1>3, <1>4, <1>5, <1>7, <1>8, <3>1 DEF Behind
    <3>2. CASE q # p
      <4>1. Behind(q, k) /\ proc'[q] = proc[q] /\ proc[q].done \in 0 .. 6
        BY <1>2, <1>8, <3>2, ProcIs
      <4>2. k \in Nat
        BY <1>2, <1>3, StepsAre
      <4> QED
        BY <1>4, <4>1, <4>2 DEF Behind
    <3> QED
      BY <3>1, <3>2
  <2> QED
    BY <1>4, <1>6, <2>1 DEF Upgrading
<1>12. AloneDown'
  BY <1>9 DEF AloneDown
<1>13. Served'
  BY <1>4, <1>7, <1>8, StatesAre, ServerIsProc DEF Inv, Served
<1> QED
  BY <1>3, <1>4, <1>8, <1>10, <1>11, <1>12, <1>13 DEF Inv

\* A downgrade goes on where it is, and it can.
LEMMA DownHolds ==
    ASSUME Inv, NEW p \in Procs, proc[p].pc = "downgrade"
    PROVE  /\ stamped \in 1 .. 6 /\ proc[p].rev = stamped
           /\ proc[p] \in Migrating
           /\ proc[p].done \in 0 .. Len(Downgrade[stamped])
           /\ Len(Downgrade[stamped]) \in 1 .. 6
           /\ schema = Applied(SchemaAt[stamped], Downgrade[stamped], proc[p].done)
           /\ \A q \in Procs \ {p} : proc[q] = Idle
           /\ ~Refused(p)
<1>1. /\ stamped \in 1 .. 6 /\ proc[p].rev = stamped
      /\ proc[p].done \in 0 .. 6 /\ proc[p].done <= Len(Downgrade[stamped])
      /\ schema = Applied(SchemaAt[stamped], Downgrade[stamped], proc[p].done)
      /\ \A q \in Procs \ {p} : proc[q] = Idle
  BY ProcIs DEF Inv, AloneDown
<1>2. Len(Downgrade[stamped]) \in 1 .. 6
  BY <1>1, DowngradesAre
<1>3. proc[p] \in Migrating
  BY ProcIs, StatesAre DEF States
<1>4. ~Refused(p)
  <2>1. Statements(p) = Downgrade[stamped]
    BY <1>1 DEF Statements
  <2>2. CASE proc[p].done < Len(Downgrade[stamped])
    <3>1. proc[p].done \in 0 .. Len(Downgrade[stamped]) - 1
      BY <1>1, <1>2, <2>2
    <3>2. Executable(Downgrade[stamped][proc[p].done + 1], schema)
      BY <1>1, <3>1, DowngradeUndoes DEF Undoes
    <3> QED
      BY <2>1, <2>2, <3>2 DEF Refused, NextStatement
  <2>3. CASE ~(proc[p].done < Len(Downgrade[stamped]))
    BY <1>1, <2>1, <2>3 DEF Refused
  <2> QED
    BY <2>2, <2>3
<1> QED
  BY <1>1, <1>2, <1>3, <1>4

LEMMA ExecuteDownInv ==
    ASSUME Inv, NEW p \in Procs, Execute(p), proc[p].pc = "downgrade"
    PROVE  Inv'
<1> DEFINE i == proc[p].done
           d == Downgrade[stamped]
           state == [proc[p] EXCEPT !.done = @ + 1]
<1>1. /\ stamped \in 1 .. 6 /\ proc[p].rev = stamped /\ proc[p] \in Migrating
      /\ i \in 0 .. Len(d) /\ Len(d) \in 1 .. 6
      /\ schema = Applied(SchemaAt[stamped], d, i)
      /\ \A q \in Procs \ {p} : proc[q] = Idle
  BY DownHolds
<1>2. /\ i < Len(d) /\ schema' = Apply(schema, d[i + 1]) /\ Become(p, state)
      /\ stamped' = stamped /\ crashes' = crashes /\ downgrades' = downgrades
  BY <1>1 DEF Execute, Statements, NextStatement
<1>3. /\ state \in States /\ state.pc = "downgrade"
      /\ state.rev = stamped /\ state.done = i + 1
  BY <1>1, <1>2 DEF States, Migrating
<1> HIDE DEF state, i
<1>4. /\ proc' \in [Procs -> States]
      /\ proc'[p] = state /\ \A q \in Procs \ {p} : proc'[q] = Idle
  BY <1>1, <1>2, <1>3, BecomeIs
<1>5. schema' = Applied(SchemaAt[stamped], d, i + 1)
  <2>1. i \in Nat
    BY <1>1
  <2> HIDE DEF d
  <2>2. Applied(SchemaAt[stamped], d, i + 1) = Apply(Applied(SchemaAt[stamped], d, i), d[i + 1])
    BY <2>1, AppliedOneMore
  <2> QED
    BY <1>1, <1>2, <2>2
<1>6. i + 1 <= Len(d)
  BY <1>1, <1>2
<1>7. AloneDown'
  <2>1. \A q \in Procs : proc'[q].pc = "downgrade" => q = p
    BY <1>4, StatesAre
  <2> QED
    BY <1>1, <1>2, <1>3, <1>4, <1>5, <1>6, <2>1 DEF AloneDown
<1>8. Downgrading'
  BY <1>3, <1>4 DEF Downgrading
<1>9. \A q \in Procs : proc'[q].pc # "upgrade" /\ proc'[q] # Serving
  BY <1>3, <1>4, StatesAre
<1>10. InStep' /\ Upgrading' /\ Served'
  BY <1>8, <1>9, ServerIsProc DEF InStep, Upgrading, Served
<1> QED
  BY <1>1, <1>2, <1>4, <1>7, <1>10 DEF Inv

LEMMA Restamped ==
    ASSUME NEW s \in Migrating, NEW b \in 0 .. HeadRevision
    PROVE  LET t == [s EXCEPT !.rev = b, !.done = 0]
           IN  t \in Migrating /\ t.pc = s.pc /\ t.rev = b /\ t.done = 0
<1> DEFINE t == [s EXCEPT !.rev = b, !.done = 0]
<1>1. t \in Migrating
  <2> DEFINE u == [s EXCEPT !.rev = b]
  <2>1. u \in Migrating
    BY DEF Migrating
  <2>2. [u EXCEPT !.done = 0] \in Migrating
    <3> HIDE DEF u
    <3> QED
      BY <2>1 DEF Migrating
  <2>3. t = [u EXCEPT !.done = 0]
    OBVIOUS
  <2> QED
    BY <2>2, <2>3
<1>2. t.pc = s.pc
  BY DEF Migrating
<1>3. t.rev = b /\ t.done = 0
  BY DEF Migrating
<1> QED
  BY <1>1, <1>2, <1>3

\* A stamp completes the stage: the next release, or the one before.
LEMMA StampUpInv ==
    ASSUME Inv, NEW p \in Procs, Stamp(p), proc[p].pc = "upgrade"
    PROVE  Inv'
<1> DEFINE a == proc[p].rev
           state == [proc[p] EXCEPT !.rev = Target(p), !.done = 0]
<1>1. ~Downgrading
  BY NobodyDowngrades
<1>2. PICK k \in 0 .. Steps(stamped) :
         /\ schema = Stage(stamped, k)
         /\ \A q \in Procs : proc[q].pc = "upgrade" => Behind(q, k)
  BY <1>1, StageHeld
<1>3. a \in 0 .. 5 /\ proc[p] \in Migrating /\ proc[p].done = Len(Upgrade[a + 1])
  <2>1. a \in 0 .. 6 /\ a < 6
    BY ProcIs, HeadIsSix DEF Stamp, ReadyToStamp, AtWork
  <2>2. proc[p] \in Migrating
    BY ProcIs, StatesAre DEF States
  <2> QED
    BY <2>1, <2>2 DEF Stamp, ReadyToStamp, Statements
<1>4. /\ stamped = a /\ stamped' = a + 1 /\ schema' = schema /\ Become(p, state)
      /\ crashes' = crashes /\ downgrades' = downgrades /\ Target(p) = a + 1
  BY DEF Stamp, Target
<1>5. /\ state \in States /\ state.pc = "upgrade"
      /\ state.rev = a + 1 /\ state.done = 0
  <2> DEFINE b == Target(p)
  <2>1. b \in 0 .. HeadRevision /\ b = a + 1
    BY <1>3, <1>4, HeadIsSix
  <2> HIDE DEF b
  <2>2. /\ state \in Migrating /\ state.pc = "upgrade"
        /\ state.rev = b /\ state.done = 0
    BY <1>3, <2>1, Restamped DEF b
  <2> HIDE DEF state, a
  <2> QED
    BY <2>1, <2>2 DEF States
<1>6. proc[p].done <= k
  BY <1>2, <1>3, <1>4 DEF Behind
<1> HIDE DEF state, a
<1>7. /\ Steps(a) = Len(Upgrade[a + 1]) /\ Steps(a) \in 1 .. 6
      /\ a + 1 \in 0 .. 6 /\ Steps(a + 1) \in 0 .. 6
  BY <1>3, StepsAre
<1>8. k = Steps(a)
  <2>1. k \in 0 .. Steps(a) /\ Steps(a) <= k
    BY <1>2, <1>3, <1>4, <1>6, <1>7
  <2> QED
    BY <1>7, <2>1
<1>9. schema' = Stage(a + 1, 0)
  BY <1>2, <1>3, <1>4, <1>7, <1>8, StageEnds, StageStarts
<1>10. /\ proc' \in [Procs -> States]
       /\ proc'[p] = state /\ \A q \in Procs \ {p} : proc'[q] = proc[q]
  BY <1>4, <1>5, BecomeIs
<1>11. \A q \in Procs : proc'[q].pc # "downgrade"
  BY <1>1, <1>5, <1>10 DEF Downgrading
<1>12. InStep'
  <2>1. 0 <= Steps(a + 1)
    BY <1>7
  <2>2. \A q \in Procs : proc'[q].pc = "upgrade" => proc'[q].done <= Steps(proc'[q].rev)
    BY <1>5, <1>10, <2>1 DEF Inv, InStep
  <2> QED
    BY <2>2 DEF InStep
<1>13. Upgrading'
  <2>1. \A q \in Procs : proc'[q].pc = "upgrade" => Behind(q, 0)'
    <3> SUFFICES ASSUME NEW q \in Procs, proc'[q].pc = "upgrade"
                 PROVE  Behind(q, 0)'
      OBVIOUS
    <3>1. CASE q = p
      BY <1>4, <1>5, <1>10, <3>1 DEF Behind
    <3>2. CASE q # p
      <4>1. Behind(q, k) /\ proc'[q] = proc[q] /\ proc[q].rev \in 0 .. 6
        BY <1>2, <1>10, <3>2, ProcIs
      <4>2. proc'[q].rev < stamped'
        BY <1>3, <1>4, <4>1 DEF Behind
      <4> QED
        BY <4>2 DEF Behind
    <3> QED
      BY <3>1, <3>2
  <2>2. 0 \in 0 .. Steps(stamped')
    BY <1>4, <1>7
  <2> QED
    BY <1>4, <1>9, <2>1, <2>2 DEF Upgrading
<1>14. AloneDown'
  BY <1>11 DEF AloneDown
<1>15. Served'
  BY <1>3, <1>4, <1>5, <1>10, StatesAre, ServerIsProc, HeadIsSix DEF Inv, Served
<1> QED
  BY <1>4, <1>7, <1>10, <1>12, <1>13, <1>14, <1>15, HeadIsSix DEF Inv

LEMMA StampDownInv ==
    ASSUME Inv, NEW p \in Procs, Stamp(p), proc[p].pc = "downgrade"
    PROVE  Inv'
<1> DEFINE d == Downgrade[stamped]
<1>1. /\ stamped \in 1 .. 6 /\ proc[p].rev = stamped
      /\ schema = Applied(SchemaAt[stamped], d, proc[p].done)
      /\ \A q \in Procs \ {p} : proc[q] = Idle
  BY DownHolds
<1>2. /\ proc[p].done = Len(d) /\ stamped' = stamped - 1 /\ schema' = schema
      /\ Become(p, Idle) /\ crashes' = crashes /\ downgrades' = downgrades
  BY <1>1 DEF Stamp, ReadyToStamp, Statements, Target, Ends
<1>3. stamped - 1 \in 0 .. 6 /\ 0 \in 0 .. Steps(stamped - 1)
  <2>1. stamped - 1 \in 0 .. 5
    BY <1>1
  <2>2. Steps(stamped - 1) \in 1 .. 6
    BY <2>1, StepsAre
  <2> QED
    BY <2>1, <2>2
<1>4. schema' = Stage(stamped - 1, 0)
  BY <1>1, <1>2, <1>3, DowngradeUndoes, StageStarts DEF Undoes
<1>5. proc' \in [Procs -> States] /\ \A q \in Procs : proc'[q] = Idle
  BY <1>1, <1>2, BecomeIs DEF States
<1>6. InStep' /\ Upgrading' /\ AloneDown'
  BY <1>2, <1>3, <1>4, <1>5, StatesAre DEF InStep, Upgrading, AloneDown
<1>7. Served'
  BY <1>5, StatesAre, ServerIsProc DEF Served
<1> QED
  BY <1>2, <1>3, <1>5, <1>6, <1>7, HeadIsSix DEF Inv

LEMMA NextInv == Inv /\ [Next]_vars => Inv'
<1> SUFFICES ASSUME Inv, [Next]_vars PROVE Inv'
  OBVIOUS
<1>s. /\ stamped \in 0 .. HeadRevision /\ crashes \in 0 .. MaxCrashes
      /\ downgrades \in 0 .. MaxDowngrades
      /\ Idle \in States /\ Serving \in States
  BY DEF Inv, States
<1>1. ASSUME NEW p \in Procs, StartUpgrade(p) PROVE Inv'
  <2> DEFINE state == [pc |-> "upgrade", rev |-> stamped, done |-> 0]
  <2>1. state \in States /\ state.pc = "upgrade" /\ state.rev = stamped /\ state.done = 0
    BY <1>s DEF States, Migrating
  <2>2. /\ ~Downgrading /\ Become(p, state) /\ UNCHANGED file
        /\ crashes' = crashes /\ downgrades' = downgrades
    BY <1>1 DEF StartUpgrade
  <2> HIDE DEF state
  <2> QED
    BY <1>s, <2>1, <2>2, FileStays, StatesAre
<1>2. ASSUME NEW p \in Procs, StartDowngrade(p) PROVE Inv'
  BY <1>2, StartDowngradeInv
<1>3. ASSUME NEW p \in Procs, Execute(p) PROVE Inv'
  BY <1>3, ExecuteUpInv, ExecuteDownInv DEF Execute, AtWork
<1>4. ASSUME NEW p \in Procs, Stamp(p) PROVE Inv'
  BY <1>4, StampUpInv, StampDownInv DEF Stamp, ReadyToStamp, AtWork
<1>5. ASSUME NEW p \in Procs, Fails(p) PROVE Inv'
  <2>1. proc[p].pc = "upgrade"
    BY <1>5, DownHolds DEF Fails, AtWork
  <2>2. /\ ~Downgrading /\ Become(p, Idle) /\ UNCHANGED file
        /\ crashes' = crashes /\ downgrades' = downgrades
    BY <1>5, <2>1, NobodyDowngrades DEF Fails, Ends
  <2> QED
    BY <1>s, <2>2, FileStays, StatesAre
<1>6. ASSUME NEW p \in Procs, Finish(p) PROVE Inv'
  <2>1. /\ ~Downgrading /\ UNCHANGED file
        /\ crashes' = crashes /\ downgrades' = downgrades
    BY <1>6, NobodyDowngrades DEF Finish
  <2>2. stamped = HeadRevision
    <3>1. PICK k \in 0 .. Steps(stamped) :
             \A q \in Procs : proc[q].pc = "upgrade" => Behind(q, k)
      BY <2>1, StageHeld
    <3>2. proc[p].rev = HeadRevision /\ proc[p].rev <= stamped
      BY <1>s, <1>6, <3>1, HeadIsSix DEF Finish, Behind
    <3> QED
      BY <1>s, <3>2, HeadIsSix
  <2>3. Become(p, Idle) \/ Become(p, Serving)
    BY <1>6 DEF Finish
  <2> QED
    BY <1>s, <2>1, <2>2, <2>3, FileStays, StatesAre
<1>7. ASSUME NEW p \in Procs, Run(p) PROVE Inv'
  <2>1. /\ p # Server /\ ~Downgrading /\ Become(p, Serving) /\ UNCHANGED file
        /\ crashes' = crashes /\ downgrades' = downgrades
    BY <1>7, ServerIsProc DEF Run
  <2> QED
    BY <1>s, <2>1, FileStays, StatesAre
<1>8. ASSUME NEW p \in Procs, Stop(p) PROVE Inv'
  <2>1. /\ ~Downgrading /\ Become(p, Idle) /\ UNCHANGED file
        /\ crashes' = crashes /\ downgrades' = downgrades
    BY <1>8, NobodyDowngrades DEF Stop, Ends
  <2> QED
    BY <1>s, <2>1, FileStays, StatesAre
<1>9. ASSUME NEW p \in Procs, Crash(p) PROVE Inv'
  <2>1. /\ ~Downgrading /\ Become(p, Idle) /\ UNCHANGED file
        /\ downgrades' = downgrades
    BY <1>9, NobodyDowngrades DEF Crash, Ends
  <2>2. crashes' \in 0 .. MaxCrashes
    BY <1>s, <1>9, MigrationsAssumption DEF Crash
  <2> QED
    BY <1>s, <2>1, <2>2, FileStays, StatesAre
<1>10. CASE UNCHANGED vars
  <2>1. /\ UNCHANGED <<schema, stamped, proc, crashes, downgrades>>
    BY <1>10 DEF vars
  <2>2. (Upgrading <=> Upgrading') /\ (AloneDown <=> AloneDown')
    BY <2>1 DEF Upgrading, AloneDown, Downgrading, Behind
  <2>3. (InStep <=> InStep') /\ (Served <=> Served')
    BY <2>1 DEF InStep, Served
  <2> QED
    BY <2>1, <2>2, <2>3 DEF Inv
<1> QED
  BY <1>1, <1>2, <1>3, <1>4, <1>5, <1>6, <1>7, <1>8, <1>9, <1>10 DEF Next, Migrate

LEMMA Invariance == Spec => []Inv
BY InitInv, NextInv, PTL DEF Spec

-----------------------------------------------------------------------------
(* What it gives.                                                          *)

\* Every object in the file, at every moment of every upgrade and downgrade,
\* is one of some release; the stamp is that of a release.
THEOREM MigrationsTypeCorrect == Spec => []TypeOK
<1>1. Inv => TypeOK
  <2> SUFFICES ASSUME Inv PROVE TypeOK
    OBVIOUS
  <2>1. schema \subseteq Objects
    <3>1. CASE Downgrading
      <4>1. PICK p \in Procs : proc[p].pc = "downgrade"
        BY <3>1 DEF Downgrading
      <4> QED
        BY <4>1, DownHolds, DowngradesTyped
    <3>2. CASE ~Downgrading
      <4>1. stamped \in 0 .. 6 /\ \E k \in 0 .. Steps(stamped) : schema = Stage(stamped, k)
        BY <3>2, StageHeld, HeadIsSix DEF Inv
      <4> QED
        BY <4>1, StagesTyped
    <3> QED
      BY <3>1, <3>2
  <2> QED
    BY <2>1 DEF Inv, TypeOK, Objects, States
<1> QED
  BY <1>1, Invariance, PTL

\* Six revisions, run by any number of processes that each read the stamp
\* when they started and die wherever they are: the file holds its stamped
\* release and a beginning of the next, or of the way back to the one before.
\* No statement is ever executed out of order, or twice.
THEOREM StampNeverAhead == Spec => []SchemaIsPrefix
<1>1. Inv => SchemaIsPrefix
  <2> SUFFICES ASSUME Inv PROVE SchemaIsPrefix
    OBVIOUS
  <2>1. CASE Downgrading
    <3>1. PICK p \in Procs : proc[p].pc = "downgrade"
      BY <2>1 DEF Downgrading
    <3>2. /\ proc[p].done \in 0 .. Len(Downgrade[stamped])
          /\ schema = Applied(SchemaAt[stamped], Downgrade[stamped], proc[p].done)
      BY <3>1, DownHolds
    <3> QED
      BY <2>1, <3>2 DEF SchemaIsPrefix
  <2>2. CASE ~Downgrading
    <3>1. PICK k \in 0 .. Steps(stamped) : schema = Stage(stamped, k)
      BY <2>2, StageHeld
    <3>2. stamped \in 0 .. 6
      BY HeadIsSix DEF Inv
    <3>3. CASE stamped = HeadRevision
      BY <3>1, <3>3 DEF Stage, SchemaIsPrefix
    <3>4. CASE stamped # HeadRevision
      <4>1. /\ stamped < HeadRevision /\ k \in 0 .. Len(Upgrade[stamped + 1])
            /\ schema = Applied(SchemaAt[stamped], Upgrade[stamped + 1], k)
        BY <3>1, <3>2, <3>4, HeadIsSix DEF Stage, Steps
      <4> QED
        BY <4>1 DEF SchemaIsPrefix
    <3> QED
      BY <3>3, <3>4
  <2> QED
    BY <2>1, <2>2
<1> QED
  BY <1>1, Invariance, PTL

\* The container serves on the schema of models.py, column by column and
\* index by index, whatever release the file came from, whoever migrated it
\* and whatever died on the way.
THEOREM ServerHasItsModels == Spec => []ServesModels
<1>1. Inv => ServesModels
  <2> SUFFICES ASSUME Inv, proc[Server] = Serving PROVE schema = Models
    BY DEF ServesModels
  <2>1. ~Downgrading /\ stamped = HeadRevision
    BY NobodyDowngrades, ServerIsProc DEF Inv, Served
  <2>2. schema = SchemaAt[6]
    BY <2>1, StageHeld, HeadIsSix DEF Stage
  <2> QED
    BY <2>2, SixthRelease DEF Release6
<1> QED
  BY <1>1, Invariance, PTL

\* Whoever upgrades the file of a running server, wherever it dies or is
\* overtaken: no statement takes a table away that the health check asks for,
\* so the check reports a missing one only after a downgrade by hand.
THEOREM UpgradesRaiseNoAlarm == Spec => AlarmOnlyByDowngrade
<1> DEFINE Quiet == Healthy /\ ~Healthy' => Downgrading
<1>1. Inv /\ [Next]_vars => [Quiet]_vars
  <2> SUFFICES ASSUME Inv, [Next]_vars, Healthy, ~Healthy' PROVE Downgrading
    OBVIOUS
  <2>1. PICK p \in Procs : Execute(p)
    BY DEF Next, vars, file, StartUpgrade, StartDowngrade, Migrate, Stamp, Fails,
           Finish, Run, Stop, Crash, Healthy
  <2>2. proc[p].pc = "upgrade" \/ proc[p].pc = "downgrade"
    BY <2>1 DEF Execute, AtWork
  <2>3. ASSUME proc[p].pc = "upgrade" PROVE Healthy'
    <3> DEFINE r == proc[p].rev + 1
               j == proc[p].done + 1
    <3>1. r \in 1 .. 6 /\ j \in 1 .. Len(Upgrade[r])
      <4>1. /\ proc[p].rev \in 0 .. 6 /\ proc[p].rev < 6
            /\ proc[p].done \in 0 .. 6 /\ proc[p].done < Len(Upgrade[r])
        BY <2>1, <2>3, ProcIs, HeadIsSix DEF Execute, Statements, AtWork
      <4>2. Len(Upgrade[r]) \in 1 .. 6
        BY <4>1, StatementsDo
      <4> QED
        BY <4>1, <4>2
    <3>2. NextStatement(p) = Upgrade[r][j]
      BY <2>3 DEF NextStatement, Statements
    <3>3. \A d \in NextStatement(p).drop : d \in EventCounts
      <4> HIDE DEF r, j
      <4>1. CASE r < 4
        BY <3>1, <3>2, <4>1, StatementsDo DEF Creates
      <4>2. CASE r = 4
        BY <3>1, <3>2, <4>2, StatementsDo DEF DropsCounts
      <4>3. CASE r > 4
        BY <3>1, <3>2, <4>3, StatementsDo DEF CreatesNew, Creates
      <4> QED
        BY <3>1, <4>1, <4>2, <4>3
    <3>4. \A t : TableOf(t) \in schema => TableOf(t) \in schema'
      BY <2>1, <3>3, PartsLast DEF Execute, Apply, Lasts
    <3> QED
      BY <3>4 DEF Healthy
  <2> QED
    BY <2>1, <2>2, <2>3 DEF Downgrading
<1> QED
  BY <1>1, Invariance, PTL DEF Spec, AlarmOnlyByDowngrade
=============================================================================
