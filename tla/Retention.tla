----------------------------- MODULE Retention ------------------------------
(***************************************************************************)
(* app/services/retention.py, run by the server's background job (in an    *)
(* executor thread, then also purging daily_activity) and by `ltel prune`  *)
(* processes (installations only, any number of days).                     *)
(*                                                                         *)
(* prune[p] is the local state of pruner p: Resting (the job sleeps, no    *)
(* script runs), a prune between its SELECT and its COMMIT, or the job's   *)
(* purge.  Operators named Mutant... are wrong variants, as in Ingest.     *)
(***************************************************************************)
EXTENDS TelemetryDb

CONSTANTS
    PruneAfterDays,   \* settings.prune_after_days
    ScriptDays,       \* the values of `ltel prune --days`
    KeepDays          \* keep_days of the job's purge

ASSUME RetentionAssumption ==
    PruneAfterDays \in Nat /\ ScriptDays \subseteq Nat /\ KeepDays \in Nat

VARIABLE prune

Resting == [pc |-> "resting"]

Pruning == [pc : {"flush", "commit"}, days : Nat, stale : SUBSET Ids]
Purging == [pc : {"delete"}, at : Nat]

RetentionTypeOK ==
    /\ prune \in [Pruners -> Pruning \cup Purging \cup {Resting, [pc |-> "purge"]}]
    /\ \A p \in Scripts : prune[p] \in Pruning \cup {Resting}

RetentionInit == prune = [p \in Pruners |-> Resting]

DaysOf(p) == IF p = Job THEN {PruneAfterDays} ELSE ScriptDays

-----------------------------------------------------------------------------
\* where(Installation.last_seen_at < utcnow() - days).
StaleAt(t, days) == {x \in Live : ~SeenWithin(x, days, t)}

\* Wrong: a script purges daily activity as well.
MutantPruned(p) == [pc |-> "purge"]

\* After prune_stale_installations the job goes on to the daily activity.
Pruned(p) == IF p = Job THEN [pc |-> "purge"] ELSE Resting

\* The SELECT of prune_stale_installations.  A commit of nothing opens no
\* transaction.
PruneSelect(p, days) ==
    LET stale == StaleAt(now, days)
    IN  /\ prune[p] = Resting
        /\ prune' = [prune EXCEPT ![p] =
                        IF stale = {} THEN Pruned(p)
                        ELSE [pc |-> "flush", days |-> days, stale |-> stale]]
        /\ UNCHANGED <<now, tables, writer>>

\* The flush inside session.commit(): INSERT the tombstones, DELETE the rows.
PruneFlush(p) ==
    /\ prune[p].pc = "flush"
    /\ prune[p].stale \cap pruned_installation = {}
    /\ Acquire(p)
    /\ prune' = [prune EXCEPT ![p].pc = "commit"]
    /\ UNCHANGED <<now, tables>>

\* Wrong: the same batch is tried again.
MutantPruneConflict(p) ==
    /\ prune[p].pc = "flush"
    /\ writer = Free
    /\ prune[p].stale \cap pruned_installation # {}
    /\ UNCHANGED <<now, tables, writer, prune>>

\* A tombstone exists already: IntegrityError rolls the whole batch back, and
\* the job skips the purge.
PruneConflict(p) ==
    /\ prune[p].pc = "flush"
    /\ writer = Free
    /\ prune[p].stale \cap pruned_installation # {}
    /\ prune' = [prune EXCEPT ![p] = Resting]
    /\ UNCHANGED <<now, tables, writer>>

\* "database is locked" while another connection writes.
PruneLocked(p) ==
    /\ prune[p].pc \in {"flush", "delete"}
    /\ writer # Free
    /\ prune' = [prune EXCEPT ![p] = Resting]
    /\ UNCHANGED <<now, tables, writer>>

\* Wrong: the rows are deleted and leave no tombstone.
MutantPruneCommit(p) ==
    /\ prune[p].pc = "commit"
    /\ Release(p)
    /\ installation' = [x \in Ids |-> IF x \in prune[p].stale
                                      THEN NoRow ELSE installation[x]]
    /\ prune' = [prune EXCEPT ![p] = Pruned(p)]
    /\ UNCHANGED <<now, daily_activity, pruned_installation>>

\* The COMMIT: the batch moves, whatever happened to the rows since the SELECT.
PruneCommit(p) ==
    /\ prune[p].pc = "commit"
    /\ Release(p)
    /\ installation' = [x \in Ids |-> IF x \in prune[p].stale
                                      THEN NoRow ELSE installation[x]]
    /\ pruned_installation' = pruned_installation \cup prune[p].stale
    /\ prune' = [prune EXCEPT ![p] = Pruned(p)]
    /\ UNCHANGED <<now, daily_activity>>

\* prune_stale_daily_activity computes its cutoff ...
PurgeStart ==
    /\ prune[Job].pc = "purge"
    /\ prune' = [prune EXCEPT ![Job] = [pc |-> "delete", at |-> now]]
    /\ UNCHANGED <<now, tables, writer>>

\* Wrong: where(activity_date <= cutoff).
MutantExpired(r, t) == r.date + KeepDays <= DayOf(t)

\* where(activity_date < cutoff).
Expired(r, t) == ~DatedWithin(r, KeepDays, t)

\* ... then runs one DELETE and commits it.
PurgeDelete ==
    /\ prune[Job].pc = "delete"
    /\ writer = Free
    /\ daily_activity' = {r \in daily_activity : ~Expired(r, prune[Job].at)}
    /\ prune' = [prune EXCEPT ![Job] = Resting]
    /\ UNCHANGED <<now, installation, pruned_installation, writer>>

PruneProgress(p) == PruneFlush(p) \/ PruneConflict(p) \/ PruneCommit(p)
PurgeProgress == PurgeStart \/ PurgeDelete
=============================================================================
