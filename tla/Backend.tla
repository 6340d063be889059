------------------------------- MODULE Backend ------------------------------
(***************************************************************************)
(* The running backend: one server process (the event loop with POST       *)
(* /api/telemetry and GET /api/stats, and the retention job in its thread) *)
(* and the `ltel prune` processes, all on one SQLite database.             *)
(*                                                                         *)
(* The event loop handles one request at a time, since neither handler     *)
(* awaits.  A crash loses the local state of a process and its uncommitted *)
(* transaction; the container restarts the server at once.  faults counts  *)
(* crashes and lock timeouts, so that runs with liveness have finitely     *)
(* many of them.                                                           *)
(***************************************************************************)
EXTENDS Ingest, Retention, Stats

CONSTANTS
    MaxNow,      \* bound on the clock
    MaxFaults    \* bound on crashes and lock timeouts

ASSUME BackendAssumption ==
    /\ MaxNow \in Nat /\ MaxFaults \in Nat
    /\ KeepDays >= MonthDays   \* main.py keeps what stats.py shows: 30 and 30

VARIABLE faults

vars == <<now, tables, writer, request, registered, prune, stats, faults>>

TypeOK ==
    /\ DbTypeOK
    /\ IngestTypeOK
    /\ RetentionTypeOK
    /\ StatsTypeOK
    /\ faults \in 0 .. MaxFaults

Init ==
    /\ DbInit
    /\ IngestInit
    /\ RetentionInit
    /\ StatsInit
    /\ faults = 0

-----------------------------------------------------------------------------
(* The steps of each process; what the others own stays as it is.          *)

Receive(x, v) ==
    /\ stats = NoStats
    /\ IngestLookup(x, v)
    /\ UNCHANGED <<prune, stats, faults>>

Ingesting == IngestProgress /\ UNCHANGED <<prune, stats, faults>>

ReceiveStats ==
    /\ request = Idle
    /\ StatsStart
    /\ UNCHANGED <<request, registered, prune, faults>>

Reporting == StatsProgress /\ UNCHANGED <<request, registered, prune, faults>>

\* The job wakes up, or somebody runs `ltel prune --days`.
StartPrune(p) ==
    /\ \E days \in DaysOf(p) : PruneSelect(p, days)
    /\ UNCHANGED <<request, registered, stats, faults>>

Prune(p) == PruneProgress(p) /\ UNCHANGED <<request, registered, stats, faults>>

Purge == PurgeProgress /\ UNCHANGED <<request, registered, stats, faults>>

-----------------------------------------------------------------------------
Tick ==
    /\ now < MaxNow
    /\ now' = now + 1
    /\ UNCHANGED <<tables, writer, request, registered, prune, stats, faults>>

Fault == faults < MaxFaults /\ faults' = faults + 1

IngestTimeout == Fault /\ IngestLocked /\ UNCHANGED <<prune, stats>>

PruneTimeout(p) ==
    Fault /\ PruneLocked(p) /\ UNCHANGED <<request, registered, stats>>

\* The server dies and is restarted: its own transaction is rolled back.
ServerCrash ==
    /\ Fault
    /\ request' = Idle
    /\ stats' = NoStats
    /\ prune' = [prune EXCEPT ![Job] = Resting]
    /\ writer' = IF writer \in {EventLoop, Job} THEN Free ELSE writer
    /\ UNCHANGED <<now, tables, registered>>

ScriptCrash(p) ==
    /\ Fault
    /\ prune' = [prune EXCEPT ![p] = Resting]
    /\ writer' = IF writer = p THEN Free ELSE writer
    /\ UNCHANGED <<now, tables, request, registered, stats>>

Next ==
    \/ \E x \in Ids, v \in Versions : Receive(x, v)
    \/ Ingesting
    \/ ReceiveStats
    \/ Reporting
    \/ \E p \in Pruners : StartPrune(p) \/ Prune(p) \/ PruneTimeout(p)
    \/ Purge
    \/ Tick
    \/ IngestTimeout
    \/ ServerCrash
    \/ \E p \in Scripts : ScriptCrash(p)

Spec == Init /\ [][Next]_vars

\* A handler and a running prune are scheduled until they end; the job's
\* sleep ends.  A pruner waiting for the lock polls it: a writer holds it for
\* a moment, so a poll finds it free sooner or later (a poll that gives up
\* after five seconds is a PruneTimeout).  Nobody has to send a request, run
\* a script, or let time pass.
FairSpec ==
    /\ Spec
    /\ WF_vars(Ingesting)
    /\ WF_vars(Reporting)
    /\ \A p \in Pruners : SF_vars(Prune(p))
    /\ SF_vars(Purge)
    /\ WF_vars(StartPrune(Job))

-----------------------------------------------------------------------------
(* Safety.                                                                 *)

\* Every installation ever answered 200 is in exactly one of the installation
\* and pruned_installation tables, and nothing else is, whatever prunes,
\* resurrections, conflicts, timeouts and crashes happened: so the two row
\* counts add up to the all-time total.
CountedOnce ==
    /\ Live \cap pruned_installation = {}
    /\ Live \cup pruned_installation = registered

\* What a writer read before it took the lock still holds when it commits: a
\* row found is still there, a row missing still missing, a tombstone still
\* (or still not) there.  The flush that takes the lock rechecks the first
\* two; the rest follows from who may change these tables.  What is not
\* rechecked is last_seen_at (see PrunesOnlyUnseen).
ReadsHoldAtCommit ==
    /\ request.pc = "commit" =>
          /\ writer = EventLoop
          /\ request.existing <=> request.id \in Live
          /\ request.pruned <=> request.id \in pruned_installation
    /\ \A p \in Pruners : prune[p].pc = "commit" =>
          /\ writer = p
          /\ prune[p].stale \subseteq Live \ pruned_installation

\* As long as the dashboard window can show an installation's last day, its
\* newest daily_activity row is of that day, the only one, and carries the
\* version the installation row carries: purge, prune and resurrection never
\* drift the daily charts away from the installation table.
SnapshotCurrent ==
    \A x \in Live :
        LET day == DayOf(installation[x].last)
        IN  day + MonthDays >= DayOf(now) =>
                {r \in daily_activity : r.id = x /\ r.date >= day} =
                {[id |-> x, date |-> day, version |-> installation[x].version]}

\* No step takes away the only record that an installation reported on a day
\* the dashboard still shows; a later report of that day may replace it.
PurgeKeepsWindow ==
    [][\A r \in daily_activity :
          DatedWithin(r, MonthDays, now) =>
              \E s \in daily_activity' : s.id = r.id /\ s.date = r.date]_vars

\* A prune between the SELECTs of GET /api/stats can make the all-time total
\* too high (see ReportedTotalExact), but it is never below the number of
\* installations known, because live rows are counted before tombstones.
NeverUndercounts ==
    Answered("pruned") => TotalInstallations >= Cardinality(registered)

\* Within one response no breakdown exceeds what it breaks down: rows only
\* disappear while the response is computed.  Versions and longevity stay
\* within active_30d, and each day's version mix within that day's count.
BreakdownsWithinActive ==
    stats # NoStats =>
        /\ Number("versions") <= Number("active_30d")
        /\ Number("< 1 week") + Number("1-4 weeks") + Number("1-3 months")
             + Number("3+ months") <= Number("active_30d")
        /\ \A day \in {r.date : r \in stats.got["version_mix"]} :
              Cardinality({r \in stats.got["version_mix"] : r.date = day})
                <= Cardinality({r \in stats.got["daily"] : r.date = day})

-----------------------------------------------------------------------------
(* What the documentation says and the code does not keep.                 *)

\* Retention archives only "installations not seen for" the days asked for:
\* a row that leaves the installation table is stale when it leaves.
PrunesOnlyUnseen ==
    [][\A x \in Live : x \notin Live' =>
          \E days \in UNION {DaysOf(p) : p \in Pruners} :
              ~SeenWithin(x, days, now)]_vars

\* "The all-time total remains exact": what GET /api/stats reports is the
\* number of installations known.
ReportedTotalExact ==
    Answered("pruned") => TotalInstallations = Cardinality(registered)

-----------------------------------------------------------------------------
(* The abstract registry this implements, and liveness.                    *)

Reg == INSTANCE Registry WITH active <- Live, archived <- pruned_installation

\* Every commit is a check-in of one installation or an archival of active
\* ones; no other step changes who is active and who is archived.
ImplementsRegistry == Reg!RegistrySpec

\* A heartbeat is answered: neither the lock nor a pruner blocks the event
\* loop for ever.
RequestAnswered == request # Idle ~> request = Idle

\* The retention job gets every abandoned installation out of the
\* installation table, whatever conflicts with scripts it runs into.
StaleEventuallyPruned ==
    \A x \in Ids : []<>(x \notin StaleAt(now, PruneAfterDays))
=============================================================================
