------------------------------ MODULE Lifespan ------------------------------
(***************************************************************************)
(* Start and shutdown of the server around its retention job (main.py).    *)
(*                                                                         *)
(* The job is an asyncio task; its database work runs in an executor       *)
(* thread, in a Session the task has opened.  At shutdown the lifespan     *)
(* cancels the task and waits for it.  The cancellation ends the task's    *)
(* await, not the thread: leaving `with ... as session` closes the session *)
(* while the thread goes on to use it.  The process ends when the thread   *)
(* has ended, or when it is killed, and the container starts another.      *)
(*                                                                         *)
(* What Session.close does to a session in use (SQLAlchemy 2): it forgets  *)
(* the pending INSERTs and DELETEs and rolls back; the session can be used *)
(* again.  While the thread is in commit(), or takes a connection from the *)
(* pool for the first statement of a transaction, it raises                *)
(* IllegalStateChangeError, and in commit() forgets them all the same, if  *)
(* the flush has not collected them yet.                                   *)
(*                                                                         *)
(* Operators named Mutant... are wrong variants, as in Ingest.             *)
(***************************************************************************)
EXTENDS FiniteSets, Naturals

CONSTANTS
    Ids,       \* installation ids
    Nobody,    \* not an id
    MaxFaults  \* bound on rounds that fail: lock timeouts

ASSUME LifespanAssumption ==
    /\ IsFiniteSet(Ids)
    /\ Nobody \notin Ids
    /\ MaxFaults \in Nat

VARIABLES
    installation,        \* ids in the installation table
    pruned_installation, \* ids in the pruned_installation table
    stale,               \* ids not seen for prune_after_days
    expired,             \* are there daily_activity rows to purge?
    server,              \* "running", "stopping" (after yield), "stopped"
    task,                \* the prune task: where it awaits, or "ended"
    cancelled,           \* a cancellation the task has not yet noticed
    worker,              \* the executor thread and the session it uses
    faults

tables == <<installation, pruned_installation, expired>>
vars == <<tables, stale, server, task, cancelled, worker, faults>>

-----------------------------------------------------------------------------
(* todo is what is left of the batch, hand the installation the loop is    *)
(* at; new (tombstones) and deleted (rows) are the session's pending       *)
(* writes; dropped: the purge's DELETE is pending; closed: the session was *)
(* closed while the thread used it.                                        *)

Quiet == [pc |-> "idle", todo |-> {}, hand |-> Nobody, new |-> {},
          deleted |-> {}, dropped |-> FALSE, closed |-> FALSE]

Working == {"select", "connect", "loop", "commit",
            "purge", "reconnect", "purged", "purge commit"}
Awaiting == {"prune", "purge"}

\* The thread is inside session.commit().
Committing == worker.pc \in {"commit", "purge commit"}

\* The thread is inside Session._connection_for_bind, which waits up to
\* thirty seconds for the pool: at the first statement, and again after the
\* prune's commit has given the connection back.
Connecting == worker.pc \in {"connect", "reconnect"}

\* The session refuses to be closed.
SessionBusy == Committing \/ Connecting

TypeOK ==
    /\ installation \subseteq Ids /\ pruned_installation \subseteq Ids
    /\ stale \subseteq installation
    /\ expired \in BOOLEAN /\ cancelled \in BOOLEAN
    /\ server \in {"running", "stopping", "stopped"}
    /\ task \in {"sleep", "ended"} \cup Awaiting
    /\ worker \in [pc : {"idle", "failed"} \cup Working, todo : SUBSET Ids,
                   hand : Ids \cup {Nobody}, new : SUBSET Ids,
                   deleted : SUBSET Ids, dropped : BOOLEAN, closed : BOOLEAN]
    /\ cancelled => server = "stopping" /\ task # "ended"
    /\ faults \in 0 .. MaxFaults

Init ==
    /\ installation = {} /\ pruned_installation = {} /\ stale = {}
    /\ expired = FALSE
    /\ server = "running" /\ task = "sleep" /\ cancelled = FALSE
    /\ worker = Quiet
    /\ faults = 0

-----------------------------------------------------------------------------
(* The task, on the event loop                                             *)

\* The sleep is over: a session is opened and the prune handed to a thread.
\* A thread of an earlier round ended long before: the sleep is hours.
Wake ==
    /\ task = "sleep" /\ ~cancelled
    /\ server # "stopped"
    /\ worker.pc = "idle"
    /\ task' = "prune"
    /\ worker' = [Quiet EXCEPT !.pc = "select"]
    /\ UNCHANGED <<tables, stale, server, cancelled, faults>>

\* Wrong: no purge after the prune.
MutantResume ==
    /\ worker.pc = "idle" /\ ~cancelled
    /\ task \in Awaiting
    /\ task' = "sleep"
    /\ UNCHANGED <<tables, stale, server, cancelled, worker, faults>>

\* The awaited result is there: after the prune comes the purge, after the
\* purge the next sleep.
Resume ==
    /\ worker.pc = "idle" /\ ~cancelled
    /\ \/ task = "prune" /\ task' = "purge"
          /\ worker' = [worker EXCEPT !.pc = "purge"]
       \/ task = "purge" /\ task' = "sleep" /\ UNCHANGED worker
    /\ UNCHANGED <<tables, stale, server, cancelled, faults>>

\* Wrong: the try is around the loop, one failed round ends the job.
MutantRoundFailed ==
    /\ worker.pc = "failed" /\ ~cancelled
    /\ task \in Awaiting
    /\ task' = "ended"
    /\ worker' = Quiet
    /\ UNCHANGED <<tables, stale, server, cancelled, faults>>

\* `except Exception`: the round is given up, the job goes on.
RoundFailed ==
    /\ worker.pc = "failed" /\ ~cancelled
    /\ task \in Awaiting
    /\ task' = "sleep"
    /\ worker' = Quiet
    /\ UNCHANGED <<tables, stale, server, cancelled, faults>>

Forgotten(w) == [w EXCEPT !.new = {}, !.deleted = {}, !.dropped = FALSE,
                          !.closed = w.pc \in Working]

\* Wrong: `except BaseException` takes the cancellation for a failed round.
MutantUnwind ==
    /\ cancelled /\ ~SessionBusy
    /\ task' = IF task \in Awaiting THEN "sleep" ELSE "ended"
    /\ cancelled' = FALSE
    /\ worker' = IF task \in Awaiting THEN Forgotten(worker) ELSE worker
    /\ UNCHANGED <<tables, stale, server, faults>>

\* CancelledError is thrown at the await.  In the round it leaves the with
\* block, which closes the session; `except Exception` does not catch it.
Unwind ==
    /\ cancelled /\ ~SessionBusy
    /\ task' = "ended"
    /\ cancelled' = FALSE
    /\ worker' = IF task \in Awaiting THEN Forgotten(worker) ELSE worker
    /\ UNCHANGED <<tables, stale, server, faults>>

\* A busy session raises IllegalStateChangeError in place of the
\* CancelledError, and `except Exception` does catch that: the task sleeps
\* again, and the cancellation is gone.  The thread goes on.
UnwindRefused ==
    /\ cancelled /\ SessionBusy
    /\ task' = "sleep"
    /\ cancelled' = FALSE
    /\ \/ UNCHANGED worker
       \/ /\ Committing
          /\ worker' = [Forgotten(worker) EXCEPT !.dropped = worker.dropped]
    /\ UNCHANGED <<tables, stale, server, faults>>

-----------------------------------------------------------------------------
(* The thread                                                              *)

\* The first statement of a transaction asks the pool for a connection.
Connect ==
    /\ \/ worker.pc = "select" /\ worker' = [worker EXCEPT !.pc = "connect"]
       \/ worker.pc = "purge" /\ worker' = [worker EXCEPT !.pc = "reconnect"]
    /\ UNCHANGED <<tables, stale, server, task, cancelled, faults>>

PruneSelect ==
    /\ worker.pc = "connect"
    /\ worker' = [worker EXCEPT !.pc = "loop", !.todo = stale]
    /\ UNCHANGED <<tables, stale, server, task, cancelled, faults>>

\* Wrong: the row is deleted first, then the tombstone added.
MutantLoopBody(w, x, first) ==
    IF first THEN [w EXCEPT !.deleted = @ \cup {x}]
    ELSE [w EXCEPT !.new = @ \cup {x}]

\* For each installation: session.add(PrunedInstallation(...)) first, then
\* session.delete(installation).
LoopBody(w, x, first) ==
    IF first THEN [w EXCEPT !.new = @ \cup {x}]
    ELSE [w EXCEPT !.deleted = @ \cup {x}]

TakeNext ==
    /\ worker.pc = "loop" /\ worker.hand = Nobody
    /\ \E x \in worker.todo :
          worker' = LoopBody([worker EXCEPT !.todo = @ \ {x}, !.hand = x], x, TRUE)
    /\ UNCHANGED <<tables, stale, server, task, cancelled, faults>>

FinishTaken ==
    /\ worker.pc = "loop" /\ worker.hand # Nobody
    /\ worker' = LoopBody([worker EXCEPT !.hand = Nobody], worker.hand, FALSE)
    /\ UNCHANGED <<tables, stale, server, task, cancelled, faults>>

PruneCommitStart ==
    /\ worker.pc = "loop" /\ worker.hand = Nobody /\ worker.todo = {}
    /\ worker' = [worker EXCEPT !.pc = "commit"]
    /\ UNCHANGED <<tables, stale, server, task, cancelled, faults>>

\* Wrong: one commit for the rows, another one for the tombstones.
MutantPruneCommit ==
    /\ worker.pc = "commit"
    /\ installation' = installation \ worker.deleted
    /\ stale' = stale \ worker.deleted
    /\ IF worker.deleted = {}
       THEN /\ pruned_installation' = pruned_installation \cup worker.new
            /\ worker' = Quiet
       ELSE /\ worker' = [worker EXCEPT !.deleted = {}]
            /\ UNCHANGED pruned_installation
    /\ UNCHANGED <<expired, server, task, cancelled, faults>>

\* Flush and COMMIT of what is pending.  (With one pruner no key is taken and
\* no row is gone; Backend has the conflicts with `ltel prune`.)
PruneCommit ==
    /\ worker.pc = "commit"
    /\ installation' = installation \ worker.deleted
    /\ pruned_installation' = pruned_installation \cup worker.new
    /\ stale' = stale \ worker.deleted
    /\ worker' = Quiet
    /\ UNCHANGED <<expired, server, task, cancelled, faults>>

PurgeDelete ==
    /\ worker.pc = "reconnect"
    /\ worker' = [worker EXCEPT !.pc = "purged", !.dropped = TRUE]
    /\ UNCHANGED <<tables, stale, server, task, cancelled, faults>>

PurgeCommitStart ==
    /\ worker.pc = "purged"
    /\ worker' = [worker EXCEPT !.pc = "purge commit"]
    /\ UNCHANGED <<tables, stale, server, task, cancelled, faults>>

PurgeCommit ==
    /\ worker.pc = "purge commit"
    /\ expired' = (expired /\ ~worker.dropped)
    /\ worker' = Quiet
    /\ UNCHANGED <<installation, pruned_installation, stale, server, task,
                   cancelled, faults>>

\* The pool stays empty or, in a DELETE or a COMMIT, "database is locked", the
\* only errors left with one pruner: the thread ends with an exception, for
\* the task if it still awaits it.
WorkerFails ==
    /\ worker.pc \in {"connect", "commit", "reconnect"}
    /\ faults < MaxFaults
    /\ faults' = faults + 1
    /\ worker' = [Quiet EXCEPT !.pc = IF task \in Awaiting THEN "failed"
                                      ELSE "idle"]
    /\ UNCHANGED <<tables, stale, server, task, cancelled>>

Work ==
    \/ Connect \/ PruneSelect \/ TakeNext \/ FinishTaken
    \/ PruneCommitStart \/ PruneCommit
    \/ PurgeDelete \/ PurgeCommitStart \/ PurgeCommit

-----------------------------------------------------------------------------
(* The lifespan and the container                                          *)

Start ==
    /\ server = "stopped"
    /\ server' = "running"
    /\ task' = "sleep"
    /\ UNCHANGED <<tables, stale, cancelled, worker, faults>>

\* prune_task.cancel(), then `await prune_task`.
Stop ==
    /\ server = "running"
    /\ server' = "stopping"
    /\ cancelled' = TRUE
    /\ UNCHANGED <<tables, stale, task, worker, faults>>

\* The task has ended: so does the lifespan, and once the thread is done
\* the process.
Exit ==
    /\ server = "stopping" /\ task = "ended"
    /\ worker.pc \notin Working
    /\ server' = "stopped"
    /\ worker' = Quiet
    /\ UNCHANGED <<tables, stale, task, cancelled, faults>>

\* Power loss, OOM, or docker stop running out of patience.
Kill ==
    /\ server # "stopped"
    /\ server' = "stopped"
    /\ task' = "ended" /\ cancelled' = FALSE /\ worker' = Quiet
    /\ UNCHANGED <<tables, stale, faults>>

-----------------------------------------------------------------------------
(* The rest of the system                                                  *)

\* POST /api/telemetry, while no commit holds the write lock.
CheckIn(x) ==
    /\ server = "running" /\ ~Committing
    /\ installation' = installation \cup {x}
    /\ pruned_installation' = pruned_installation \ {x}
    /\ stale' = stale \ {x}
    /\ UNCHANGED <<expired, server, task, cancelled, worker, faults>>

\* prune_after_days pass for an installation, thirty for some activity.
Age ==
    /\ \E x \in installation : stale' = stale \cup {x}
    /\ expired' = TRUE
    /\ UNCHANGED <<installation, pruned_installation, server, task,
                   cancelled, worker, faults>>

Next ==
    \/ Wake \/ Resume \/ RoundFailed \/ Unwind \/ UnwindRefused
    \/ Work \/ WorkerFails
    \/ Start \/ Stop \/ Exit \/ Kill
    \/ \E x \in Ids : CheckIn(x)
    \/ Age

Spec == Init /\ [][Next]_vars

\* The event loop and the thread run on, the sleep ends, the container is
\* restarted.  Nobody has to stop or kill it, or to check in.
FairSpec ==
    /\ Spec
    /\ WF_vars(Wake) /\ WF_vars(Resume) /\ WF_vars(RoundFailed)
    /\ WF_vars(Unwind \/ UnwindRefused)
    /\ WF_vars(Work)
    /\ WF_vars(Start) /\ WF_vars(Exit)

-----------------------------------------------------------------------------
(* Safety                                                                  *)

\* Whatever the session forgets when it is closed under the thread, no
\* installation ends up in both tables: that would fail every later prune.
NeverBoth == installation \cap pruned_installation = {}

\* An installation can disappear from both tables only in a commit whose
\* session was closed under it, and then only the one that was between
\* session.add and session.delete (retention.py:30-36) at that moment.
LosesOnlyInHand ==
    [][LET Gone == (installation \cup pruned_installation)
                     \ (installation' \cup pruned_installation')
       IN  Gone # {} => worker.closed /\ Cardinality(Gone) = 1]_vars

-----------------------------------------------------------------------------
(* Liveness                                                                *)

\* A shutdown ends, unless the cancellation meets a session that is busy, in
\* a commit or waiting for a connection: wherever else the round is, the
\* task, the lifespan and the process come to an end.
ShutdownEnds ==
    cancelled ~> server = "stopped" \/ (cancelled /\ SessionBusy)

\* Retention goes on after failed rounds, lost purges and hung shutdowns: a
\* stale installation or expired activity stays for ever only if the server
\* is restarted over and over before its first sleep is over.
RetentionGoesOn ==
    \/ []<>(server = "stopped")
    \/ (\A x \in Ids : []<>(x \notin stale)) /\ []<>~expired
=============================================================================
