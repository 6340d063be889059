---------------------------- MODULE TelemetryDb ----------------------------
(***************************************************************************)
(* The SQLite database of librislog-telemetry: its three tables, the       *)
(* engine's single write lock, and the clock every component reads.  The   *)
(* components that work on it (Ingest, Retention, Stats) extend this       *)
(* module; Backend composes them.                                          *)
(*                                                                         *)
(* Transactions.  The engine is pysqlite with its default (legacy)         *)
(* transaction control on a WAL database: a SELECT outside a transaction   *)
(* sees the state committed when it runs and pins nothing; the first       *)
(* INSERT/UPDATE/DELETE of a session takes the database's write lock; the  *)
(* other connections see all of its writes at COMMIT or none of them.  So  *)
(* the tables below are the committed state, every SELECT is a step of its *)
(* own, and writer names the connection between its first write and its    *)
(* COMMIT.                                                                 *)
(***************************************************************************)
EXTENDS Integers, FiniteSets

CONSTANTS
    Ids,           \* installation ids
    Versions,      \* values of the version column
    Blank,         \* the empty version ""
    NoRow,         \* "no such row" in the installation table
    Scripts,       \* processes running `ltel prune` beside the server
    TicksPerDay    \* instants per UTC day

ASSUME IdsAssumption == IsFiniteSet(Ids)
ASSUME VersionsAssumption == Blank \in Versions
ASSUME TicksAssumption == TicksPerDay \in Nat \ {0}

\* A row of the installation table, without its primary key and without the
\* columns treated exactly like version (os, architecture, runtime).
Row == [first : Nat, last : Nat, version : Versions]

ASSUME NoRowAssumption == NoRow \notin Row

VARIABLES
    now,                  \* utcnow()
    installation,         \* installation: id |-> row or NoRow
    pruned_installation,  \* pruned_installation: the ids of the tombstones
    daily_activity,       \* daily_activity: a set of (id, date, version) rows
    writer                \* the connection holding the write lock, or Free

tables == <<installation, pruned_installation, daily_activity>>

-----------------------------------------------------------------------------
(* Connections that write.                                                 *)

Free == "free"
EventLoop == "event loop"       \* the request being handled
Job == "retention job"          \* the server's background prune job
Pruners == Scripts \cup {Job}

ASSUME ScriptsAssumption == {Free, EventLoop, Job} \cap Scripts = {}

\* A session's first write: it waits for the lock, then holds it.
Acquire(p) == writer = Free /\ writer' = p

\* COMMIT or ROLLBACK.
Release(p) == writer = p /\ writer' = Free

-----------------------------------------------------------------------------
(* Dates and rows.                                                         *)

\* The UTC calendar day of an instant: t.date().
DayOf(t) == t \div TicksPerDay

Activity == [id : Ids, date : Nat, version : Versions]

Live == {x \in Ids : installation[x] # NoRow}

\* "table.column >= t - days" for an instant column.
SeenWithin(x, days, t) == installation[x].last + days * TicksPerDay >= t

\* "activity_date >= (t - days).date()": days are whole, so the date of
\* t - days is DayOf(t) - days.
DatedWithin(r, days, t) == r.date + days >= DayOf(t)

DbTypeOK ==
    /\ now \in Nat
    /\ installation \in [Ids -> Row \cup {NoRow}]
    /\ pruned_installation \subseteq Ids
    /\ daily_activity \subseteq Activity
    /\ writer \in Pruners \cup {EventLoop, Free}

\* The migrated, empty database.
DbInit ==
    /\ now = 0
    /\ installation = [x \in Ids |-> NoRow]
    /\ pruned_installation = {}
    /\ daily_activity = {}
    /\ writer = Free
=============================================================================
