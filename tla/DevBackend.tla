----------------------------- MODULE DevBackend -----------------------------
(***************************************************************************)
(* A development database: the server's heartbeats and retention job, and  *)
(* `ltel seed`, `ltel clean` and `ltel prune` on the same file.            *)
(***************************************************************************)
EXTENDS Ingest, Retention, DevTools

CONSTANT MaxNow   \* bound on the clock

ASSUME DevBackendAssumption == MaxNow \in Nat

vars == <<now, tables, writer, request, registered, prune, dev, wipes>>

TypeOK == DbTypeOK /\ IngestTypeOK /\ RetentionTypeOK /\ DevTypeOK

Init == DbInit /\ IngestInit /\ RetentionInit /\ DevInit

Real == Ids \ SeedIds

\* Heartbeats come from real installations only.
Heartbeat ==
    /\ \/ \E x \in Real, v \in Versions : IngestLookup(x, v)
       \/ IngestProgress
       \/ IngestLocked
    /\ UNCHANGED <<prune, devVars>>

StartPrune(p) ==
    /\ \E days \in DaysOf(p) : PruneSelect(p, days)
    /\ UNCHANGED <<request, registered, devVars>>

Prune(p) == PruneProgress(p) /\ UNCHANGED <<request, registered, devVars>>

PruneTimeout(p) == PruneLocked(p) /\ UNCHANGED <<request, registered, devVars>>

Purge == PurgeProgress /\ UNCHANGED <<request, registered, devVars>>

Develop == DevNext /\ UNCHANGED <<request, registered, prune>>

Tick ==
    /\ now < MaxNow
    /\ now' = now + 1
    /\ UNCHANGED <<tables, writer, request, registered, prune, devVars>>

Next ==
    \/ Heartbeat
    \/ \E p \in Pruners : StartPrune(p) \/ Prune(p) \/ PruneTimeout(p)
    \/ Purge
    \/ Develop
    \/ Tick

Spec == Init /\ [][Next]_vars

\* The job wakes up again and again, what it starts gets the lock in the end,
\* and a request that holds the lock commits.
FairSpec ==
    /\ Spec
    /\ WF_vars(Heartbeat /\ IngestProgress)
    /\ WF_vars(StartPrune(Job))
    /\ SF_vars(Prune(Job))
    /\ SF_vars(Purge)

-----------------------------------------------------------------------------
(* Safety.                                                                 *)

\* Whatever comes between the counts a clean shows and the answer to it, only
\* a confirmed wipe ever loses a real installation or counts one twice.
RealCountedOnce ==
    wipes = 0 =>
        \A x \in Real :
            /\ x \in registered <=> x \in Live \cup pruned_installation
            /\ ~(x \in Live /\ x \in pruned_installation)

\* clean.py empties two of the three tables.  It never leaves activity of
\* somebody whom neither the live nor the pruned table knows: the daily counts
\* would show installations that the total does not have.
ActivityOwned ==
    \A r \in daily_activity : r.id \in Live \cup pruned_installation

\* Nor do they take a real installation's activity of its last day, as long
\* as the purge keeps it.
RealSnapshotCurrent ==
    \A x \in Real \cap Live :
        LET day == DayOf(installation[x].last)
        IN  day + KeepDays >= DayOf(now) =>
                [id |-> x, date |-> day, version |-> installation[x].version]
                    \in daily_activity

-----------------------------------------------------------------------------
(* What the documentation says and the code does not keep.                 *)

\* seed.py: "re-running it never crashes on a UNIQUE constraint".
SeedNeverCrashes == dev # Crashed

\* README: the retention job moves installations not seen for
\* PRUNE_AFTER_DAYS to the pruned table.
StaleEventuallyPruned ==
    \A x \in Ids : []<>(x \notin StaleAt(now, PruneAfterDays))
=============================================================================
