------------------------------- MODULE Ingest -------------------------------
(***************************************************************************)
(* POST /api/telemetry.  The handler is a coroutine without an await, so   *)
(* the event loop runs one request at a time to its end; what interleaves  *)
(* with its statements are the retention job's thread and other processes. *)
(*                                                                         *)
(* request is the handler's local state: Idle, or the payload (id,         *)
(* version), now (at) and what the two lookups found (existing, pruned).   *)
(*                                                                         *)
(* Operators named Mutant... are wrong variants of the definition that     *)
(* follows them; each one breaks a property (see README.md).               *)
(***************************************************************************)
EXTENDS TelemetryDb

VARIABLES
    request,
    registered    \* history: the ids answered 200 OK at least once

ingestVars == <<request, registered>>

Idle == [pc |-> "idle"]

Request == [pc : {"lookup", "flush", "commit"}, id : Ids, version : Versions,
            at : Nat, existing : BOOLEAN, pruned : BOOLEAN]

IngestTypeOK ==
    /\ request \in Request \cup {Idle}
    /\ registered \subseteq Ids

IngestInit == request = Idle /\ registered = {}

-----------------------------------------------------------------------------
\* now = utcnow(); existing = session.get(Installation, id).
IngestLookup(x, v) ==
    /\ request = Idle
    /\ request' = [pc |-> IF x \in Live THEN "flush" ELSE "lookup",
                   id |-> x, version |-> v, at |-> now,
                   existing |-> x \in Live, pruned |-> FALSE]
    /\ UNCHANGED <<now, tables, writer, registered>>

\* pruned = session.get(PrunedInstallation, id).
IngestLookupPruned ==
    /\ request.pc = "lookup"
    /\ request' = [request EXCEPT !.pc = "flush",
                                  !.pruned = request.id \in pruned_installation]
    /\ UNCHANGED <<now, tables, writer, registered>>

\* The autoflush before the daily_activity SELECT writes the installation row.
\* The ORM's UPDATE must hit one row, its INSERT must find the key free.
Flushable == request.existing <=> request.id \in Live

\* Wrong: the row is written whatever the lookup missed.
MutantIngestFlush ==
    /\ request.pc = "flush"
    /\ Acquire(EventLoop)
    /\ request' = [request EXCEPT !.pc = "commit"]
    /\ UNCHANGED <<now, tables, registered>>

IngestFlush ==
    /\ request.pc = "flush"
    /\ Flushable
    /\ Acquire(EventLoop)
    /\ request' = [request EXCEPT !.pc = "commit"]
    /\ UNCHANGED <<now, tables, registered>>

\* Wrong: the handler tries the same write again.
MutantIngestConflict ==
    /\ request.pc = "flush"
    /\ writer = Free
    /\ ~Flushable
    /\ UNCHANGED <<now, tables, writer, registered, request>>

\* StaleDataError or IntegrityError: rolled back, answered 500.
IngestConflict ==
    /\ request.pc = "flush"
    /\ writer = Free
    /\ ~Flushable
    /\ request' = Idle
    /\ UNCHANGED <<now, tables, writer, registered>>

\* "database is locked" after the driver's busy timeout: answered 500.
IngestLocked ==
    /\ request.pc = "flush"
    /\ writer # Free
    /\ request' = Idle
    /\ UNCHANGED <<now, tables, writer, registered>>

\* The row as the handler leaves it: a heartbeat of a known installation
\* refreshes it, any other creates it.
UpsertedRow ==
    IF request.existing
    THEN [installation[request.id] EXCEPT !.last = request.at,
                                          !.version = request.version]
    ELSE [first |-> request.at, last |-> request.at, version |-> request.version]

\* Wrong: the day's first report stays, whatever an upgrade reports later.
MutantUpsertedActivity ==
    LET today == DayOf(request.at)
    IN  IF \E r \in daily_activity : r.id = request.id /\ r.date = today
        THEN daily_activity
        ELSE daily_activity \cup
                {[id |-> request.id, date |-> today, version |-> request.version]}

\* The day's snapshot, inserted or updated in place.
UpsertedActivity ==
    LET today == DayOf(request.at)
    IN  {r \in daily_activity : ~(r.id = request.id /\ r.date = today)}
        \cup {[id |-> request.id, date |-> today, version |-> request.version]}

\* Wrong: a returning installation keeps its tombstone.
MutantIngestCommit ==
    /\ request.pc = "commit"
    /\ Release(EventLoop)
    /\ installation' = [installation EXCEPT ![request.id] = UpsertedRow]
    /\ daily_activity' = UpsertedActivity
    /\ registered' = registered \cup {request.id}
    /\ request' = Idle
    /\ UNCHANGED <<now, pruned_installation>>

\* session.commit(), then 200 OK.
IngestCommit ==
    /\ request.pc = "commit"
    /\ Release(EventLoop)
    /\ installation' = [installation EXCEPT ![request.id] = UpsertedRow]
    /\ pruned_installation' = IF request.pruned
                              THEN pruned_installation \ {request.id}
                              ELSE pruned_installation
    /\ daily_activity' = UpsertedActivity
    /\ registered' = registered \cup {request.id}
    /\ request' = Idle
    /\ UNCHANGED now

IngestProgress ==
    \/ IngestLookupPruned
    \/ IngestFlush
    \/ IngestConflict
    \/ IngestCommit
=============================================================================
