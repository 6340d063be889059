----------------------------- MODULE Migrations -----------------------------
(***************************************************************************)
(* `alembic upgrade head` and the processes that run it or rely on it: the *)
(* container's entrypoint (migrate, then serve; started again whenever it  *)
(* ends), `ltel migrate` and `ltel seed` (migrate), `ltel run` (serve      *)
(* without migrating).  They meet on one file when DATABASE_URL says so.   *)
(*                                                                         *)
(* A schema is a set of objects: a table is <<t>>, a column <<t, c>>, the  *)
(* index on a column <<t, c, "ix">>.  schema and stamped (the row of       *)
(* alembic_version, as a position in the chain of revisions, 0: none) are  *)
(* what the file holds; proc is the local state of each process.           *)
(*                                                                         *)
(* SQLite's DDL is not transactional for alembic: pysqlite opens no        *)
(* transaction for it, every statement is committed when it returns, and   *)
(* only the stamp at the end of a revision is a COMMIT of its own.         *)
(***************************************************************************)
EXTENDS Naturals, SequencesExt

CONSTANTS
    Server,        \* the container
    Scripts,       \* terminals in which somebody runs ltel commands
    MaxCrashes,    \* bound on processes that die while they migrate
    MaxDowngrades  \* bound on downgrades by hand

ASSUME MigrationsAssumption ==
    /\ Server \notin Scripts
    /\ MaxCrashes \in Nat
    /\ MaxDowngrades \in Nat

VARIABLES schema, stamped, proc, crashes, downgrades

vars == <<schema, stamped, proc, crashes, downgrades>>
file == <<schema, stamped>>

Procs == Scripts \cup {Server}

-----------------------------------------------------------------------------
(* Schemas and statements                                                  *)

TableOf(t) == <<t>>
ColumnOf(t, c) == <<t, c>>
IndexOf(t, c) == <<t, c, "ix">>

Table(t, columns) == {TableOf(t)} \cup {ColumnOf(t, c) : c \in columns}
Index(t, columns) == {IndexOf(t, c) : c \in columns}

Create(objects) == [create |-> objects, drop |-> {}]
CreateColumn(t, c) == Create({ColumnOf(t, c)})
CreateIndex(t, c) == Create({IndexOf(t, c)})
Drop(object) == [create |-> {}, drop |-> {object}]
DropTable(t) == Drop(TableOf(t))
DropColumn(t, c) == Drop(ColumnOf(t, c))
DropIndex(t, c) == Drop(IndexOf(t, c))

\* CREATE fails on what exists or has no parent, DROP on what does not
\* exist, and DROP COLUMN on a column with an index.
Executable(s, db) ==
    /\ s.create \cap db = {}
    /\ \A o \in s.create : Len(o) > 1 => Front(o) \in db \cup s.create
    /\ s.drop \subseteq db
    /\ \A o \in s.drop : Len(o) = 2 => Append(o, "ix") \notin db

\* DROP TABLE takes the columns and indexes along.
Apply(db, s) ==
    {o \in db : \A d \in s.drop : ~IsPrefix(d, o)} \cup s.create

DropsOne(o, statements, from, to) ==
    \E j \in from .. to : \E d \in statements[j].drop : IsPrefix(d, o)

\* The first k statements one after the other: an object is there if it was,
\* or if one of them creates it, and none after that drops it.
Applied(db, statements, k) ==
    {o \in db : ~DropsOne(o, statements, 1, k)}
    \cup UNION {{o \in statements[i].create : ~DropsOne(o, statements, i + 1, k)}
                   : i \in 1 .. k}

\* What models.py expects.
Models ==
    Table("installation", {"installation_id", "message_version", "version",
        "os", "architecture", "runtime", "first_seen_at", "last_seen_at"})
    \cup Index("installation", {"version", "os", "architecture",
        "first_seen_at", "last_seen_at"})
    \cup Table("pruned_installation", {"installation_id", "pruned_at"})
    \cup Index("pruned_installation", {"pruned_at"})
    \cup Table("daily_activity", {"installation_id", "activity_date", "version"})
    \cup Index("daily_activity", {"installation_id", "activity_date", "version"})

-----------------------------------------------------------------------------
(* The six revisions, in the order of their down_revision                  *)

CreateInstallation == <<
    Create(Table("installation", {"installation_id", "version", "os",
        "architecture", "runtime", "event_count", "first_seen_at",
        "last_seen_at"})),
    CreateIndex("installation", "architecture"),
    CreateIndex("installation", "first_seen_at"),
    CreateIndex("installation", "last_seen_at"),
    CreateIndex("installation", "os"),
    CreateIndex("installation", "version") >>

DropInstallation == <<
    DropIndex("installation", "version"),
    DropIndex("installation", "os"),
    DropIndex("installation", "last_seen_at"),
    DropIndex("installation", "first_seen_at"),
    DropIndex("installation", "architecture"),
    DropTable("installation") >>

AddMessageVersion == << CreateColumn("installation", "message_version") >>
DropMessageVersion == << DropColumn("installation", "message_version") >>

CreatePruned == <<
    Create(Table("pruned_installation",
        {"installation_id", "event_count", "pruned_at"})),
    CreateIndex("pruned_installation", "pruned_at") >>

DropPruned == <<
    DropIndex("pruned_installation", "pruned_at"),
    DropTable("pruned_installation") >>

\* Wrong: alembic's batch mode, which copies the table and drops the old one.
MutantDropEventCounts ==
    << DropTable("installation") >> \o Front(CreateInstallation) \o
    << CreateColumn("installation", "message_version"),
       DropColumn("pruned_installation", "event_count") >>

DropEventCounts == <<
    DropColumn("installation", "event_count"),
    DropColumn("pruned_installation", "event_count") >>

\* Wrong: one of the two tables is forgotten.
MutantAddEventCounts == << CreateColumn("installation", "event_count") >>

AddEventCounts == <<
    CreateColumn("pruned_installation", "event_count"),
    CreateColumn("installation", "event_count") >>

CreateActivity == <<
    Create(Table("daily_activity", {"installation_id", "activity_date"})),
    CreateIndex("daily_activity", "activity_date"),
    CreateIndex("daily_activity", "installation_id") >>

DropActivity == <<
    DropIndex("daily_activity", "installation_id"),
    DropIndex("daily_activity", "activity_date"),
    DropTable("daily_activity") >>

AddActivityVersion == <<
    CreateColumn("daily_activity", "version"),
    CreateIndex("daily_activity", "version") >>

DropActivityVersion == <<
    DropIndex("daily_activity", "version"),
    DropColumn("daily_activity", "version") >>

Upgrade == << CreateInstallation, AddMessageVersion, CreatePruned,
              DropEventCounts, CreateActivity, AddActivityVersion >>

Downgrade == << DropInstallation, DropMessageVersion, DropPruned,
                AddEventCounts, DropActivity, DropActivityVersion >>

HeadRevision == Len(Upgrade)

\* The schema a database stamped with a revision should have.
SchemaAt[r \in 0 .. HeadRevision] ==
    IF r = 0 THEN {}
    ELSE Applied(SchemaAt[r - 1], Upgrade[r], Len(Upgrade[r]))

-----------------------------------------------------------------------------
Idle == [pc |-> "idle"]
Serving == [pc |-> "serving"]

\* rev is the revision the process believes the file to be at: it reads the
\* stamp once, when it starts.  done counts the statements of the revision
\* in hand.
Migrating == [pc : {"upgrade", "downgrade"}, rev : 0 .. HeadRevision, done : 0 .. 6]

TypeOK ==
    /\ schema \subseteq UNION {SchemaAt[r] : r \in 0 .. HeadRevision}
    /\ stamped \in 0 .. HeadRevision
    /\ proc \in [Procs -> {Idle, Serving} \cup Migrating]
    /\ crashes \in 0 .. MaxCrashes
    /\ downgrades \in 0 .. MaxDowngrades

\* A file that any earlier release left behind, or none.
Init ==
    /\ stamped \in 0 .. HeadRevision
    /\ schema = SchemaAt[stamped]
    /\ proc = [p \in Procs |-> Idle]
    /\ crashes = 0
    /\ downgrades = 0

Become(p, state) == proc' = [proc EXCEPT ![p] = state]
Ends(p) == Become(p, Idle)

Downgrading == \E p \in Procs : proc[p].pc = "downgrade"

\* The statements of the revision in hand.
Statements(p) ==
    IF proc[p].pc = "upgrade" THEN Upgrade[proc[p].rev + 1]
    ELSE Downgrade[proc[p].rev]

AtWork(p) ==
    \/ proc[p].pc = "upgrade" /\ proc[p].rev < HeadRevision
    \/ proc[p].pc = "downgrade"

NextStatement(p) == Statements(p)[proc[p].done + 1]

\* The next statement cannot be executed, or the row to stamp is not there.
Refused(p) ==
    IF proc[p].done < Len(Statements(p)) THEN ~Executable(NextStatement(p), schema)
    ELSE stamped # proc[p].rev

\* The schema is not that of the stamped revision, and nobody is on the way
\* to it.
Torn ==
    /\ schema # SchemaAt[stamped]
    /\ \A p \in Procs : AtWork(p) => Refused(p)

\* `alembic upgrade head`.  (By hand nobody migrates beside a downgrade.)
StartUpgrade(p) ==
    /\ proc[p] = Idle
    /\ ~Downgrading
    /\ Become(p, [pc |-> "upgrade", rev |-> stamped, done |-> 0])
    /\ UNCHANGED <<file, crashes, downgrades>>

\* `alembic downgrade -1`, by hand, with everything else stopped and on a
\* file that no crash has left torn.
StartDowngrade(p) ==
    /\ \A q \in Procs : proc[q] = Idle
    /\ stamped > 0
    /\ ~Torn
    /\ downgrades < MaxDowngrades
    /\ downgrades' = downgrades + 1
    /\ Become(p, [pc |-> "downgrade", rev |-> stamped, done |-> 0])
    /\ UNCHANGED <<file, crashes>>

\* One DDL statement, committed at once.
Execute(p) ==
    /\ AtWork(p)
    /\ proc[p].done < Len(Statements(p))
    /\ ~Refused(p)
    /\ schema' = Apply(schema, NextStatement(p))
    /\ Become(p, [proc[p] EXCEPT !.done = @ + 1])
    /\ UNCHANGED <<stamped, crashes, downgrades>>

\* Wrong: a downgrade stamps the revision after it, not the one before.
MutantTarget(p) == proc[p].rev + 1

Target(p) ==
    IF proc[p].pc = "upgrade" THEN proc[p].rev + 1 ELSE proc[p].rev - 1

\* Wrong: the revision is stamped before its statements have run.
MutantReadyToStamp(p) == AtWork(p) /\ proc[p].done = 0

ReadyToStamp(p) == AtWork(p) /\ proc[p].done = Len(Statements(p))

\* UPDATE alembic_version ... WHERE version_num = <rev> matched its row (an
\* INSERT for the first revision, a DELETE for the downgrade of it), COMMIT.
Stamp(p) ==
    /\ ReadyToStamp(p)
    /\ stamped = proc[p].rev
    /\ stamped' = Target(p)
    /\ IF proc[p].pc = "upgrade"
       THEN Become(p, [proc[p] EXCEPT !.rev = Target(p), !.done = 0])
       ELSE Ends(p)
    /\ UNCHANGED <<schema, crashes, downgrades>>

\* Wrong: entrypoint.sh without set -e serves after a failed upgrade.
MutantFails(p) ==
    /\ AtWork(p) /\ Refused(p)
    /\ Become(p, IF p = Server THEN Serving ELSE Idle)
    /\ UNCHANGED <<file, crashes, downgrades>>

\* The statement or the stamp fails: alembic exits with an error, and with
\* it the entrypoint or the command.
Fails(p) ==
    /\ AtWork(p) /\ Refused(p)
    /\ Ends(p)
    /\ UNCHANGED <<file, crashes, downgrades>>

\* Nothing left to do: the entrypoint starts the server, a command ends.
Finish(p) ==
    /\ proc[p].pc = "upgrade" /\ proc[p].rev = HeadRevision
    /\ Become(p, IF p = Server THEN Serving ELSE Idle)
    /\ UNCHANGED <<file, crashes, downgrades>>

\* `ltel run`.
Run(p) ==
    /\ p \in Scripts
    /\ proc[p] = Idle
    /\ ~Downgrading
    /\ Become(p, Serving)
    /\ UNCHANGED <<file, crashes, downgrades>>

Stop(p) ==
    /\ proc[p] = Serving
    /\ Ends(p)
    /\ UNCHANGED <<file, crashes, downgrades>>

\* Power loss, OOM kill, docker stop, or a lock that is not free in time, in
\* an upgrade.  (Who downgrades by hand sees it through.)
Crash(p) ==
    /\ proc[p].pc = "upgrade"
    /\ crashes < MaxCrashes
    /\ crashes' = crashes + 1
    /\ Ends(p)
    /\ UNCHANGED <<file, downgrades>>

Migrate(p) == Execute(p) \/ Stamp(p) \/ Fails(p) \/ Finish(p)

Next ==
    \E p \in Procs :
        \/ StartUpgrade(p)
        \/ StartDowngrade(p)
        \/ Migrate(p)
        \/ Run(p)
        \/ Stop(p)
        \/ Crash(p)

Spec == Init /\ [][Next]_vars

\* A migration that started runs on; a container that ended is started again.
FairSpec ==
    /\ Spec
    /\ \A p \in Procs : WF_vars(Migrate(p))
    /\ WF_vars(StartUpgrade(Server))

-----------------------------------------------------------------------------
(* Safety                                                                  *)

\* The stamp never claims more than was done, and no statement is done out of
\* order or twice: the schema is that of the stamped revision and a beginning
\* of the next one, or, in a downgrade, of its removal.  (Six revisions that
\* are run by several processes, each with the stamp it read at its start.)
SchemaIsPrefix ==
    \/ /\ stamped < HeadRevision
       /\ \E k \in 0 .. Len(Upgrade[stamped + 1]) :
             schema = Applied(SchemaAt[stamped], Upgrade[stamped + 1], k)
    \/ stamped = HeadRevision /\ schema = SchemaAt[HeadRevision]
    \/ /\ Downgrading
       /\ \E k \in 0 .. Len(Downgrade[stamped]) :
             schema = Applied(SchemaAt[stamped], Downgrade[stamped], k)

\* entrypoint.sh serves only on the schema that models.py describes, columns
\* and indexes, whatever release the file is from and whoever migrated it.
ServesModels == proc[Server] = Serving => schema = Models

-----------------------------------------------------------------------------
(* The health check                                                        *)

\* GET /api/health: "healthy" when the file answers and has these tables.
Healthy ==
    {TableOf("installation"), TableOf("pruned_installation")} \subseteq schema

\* The health check of a server that runs while others migrate its file: no
\* upgrade, whoever runs it and wherever it dies, takes a table away that was
\* there, so only a downgrade by hand makes it report a missing table.
AlarmOnlyByDowngrade == [][Healthy /\ ~Healthy' => Downgrading]_vars

-----------------------------------------------------------------------------
(* Liveness                                                                *)

\* `alembic upgrade head` is idempotent, and entrypoint.sh runs it at every
\* start: the container comes to serve again, whatever happens.
ServesAgain == []<>(proc[Server] = Serving)

\* It does so, whatever else migrates the file and after every downgrade, if
\* no crash has left the file between two revisions; that damage is the only
\* one there is.
ServesUnlessTorn ==
    []<>(proc[Server] = Serving \/ (crashes > 0 /\ Torn))
=============================================================================
