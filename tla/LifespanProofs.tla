--------------------------- MODULE LifespanProofs ---------------------------
(***************************************************************************)
(* Theorems about Lifespan, for every finite set of ids and every number   *)
(* of faults.                                                              *)
(***************************************************************************)
EXTENDS Lifespan, TLAPS, FiniteSetTheorems

\* What the pending writes can be, though a shutdown may have made the
\* session forget them at any point: every tombstone comes with its delete,
\* but for the installation the loop is at, and at most one delete is
\* without its tombstone, which takes a session that was closed.
PendingInv ==
    /\ worker.pc # "loop" => worker.hand = Nobody
    /\ worker.new \subseteq worker.deleted \cup {worker.hand}
    /\ ~worker.closed => worker.deleted \subseteq worker.new
    /\ worker.hand = Nobody \/ worker.hand \in worker.new
         \/ (worker.closed /\ worker.deleted = {})
    /\ \E x : worker.deleted \ worker.new \subseteq {x}

\* A server that runs has its task: only a cancellation ends it.
TaskInv == server = "running" => task # "ended"

Inv == TypeOK /\ NeverBoth /\ PendingInv /\ TaskInv

WorkerType ==
    [pc : {"idle", "failed"} \cup Working, todo : SUBSET Ids,
     hand : Ids \cup {Nobody}, new : SUBSET Ids,
     deleted : SUBSET Ids, dropped : BOOLEAN, closed : BOOLEAN]

LEMMA QuietFacts ==
    /\ Quiet \in WorkerType
    /\ Quiet.pc = "idle" /\ Quiet.hand = Nobody
    /\ Quiet.new = {} /\ Quiet.deleted = {} /\ Quiet.closed = FALSE
BY DEF Quiet, WorkerType, Working

LEMMA ForgottenFacts ==
    ASSUME NEW w \in WorkerType
    PROVE  /\ Forgotten(w) \in WorkerType
           /\ Forgotten(w).pc = w.pc /\ Forgotten(w).hand = w.hand
           /\ Forgotten(w).new = {} /\ Forgotten(w).deleted = {}
           /\ Forgotten(w).closed = (w.pc \in Working)
<1> DEFINE c == w.pc \in Working
<1>1. c \in BOOLEAN
  BY SMT
<1>2. Forgotten(w) = [w EXCEPT !.new = {}, !.deleted = {}, !.dropped = FALSE,
                               !.closed = c]
  BY DEF Forgotten
<1> HIDE DEF c
<1>3. /\ Forgotten(w) \in WorkerType
      /\ Forgotten(w).pc = w.pc /\ Forgotten(w).hand = w.hand
      /\ Forgotten(w).new = {} /\ Forgotten(w).deleted = {}
      /\ Forgotten(w).closed = c
  BY <1>1, <1>2 DEF WorkerType
<1> QED
  BY <1>3 DEF c

\* A session without pending writes satisfies PendingInv.
LEMMA Empty ==
    ASSUME NEW w, worker' = w, w.new = {}, w.deleted = {},
           w.pc # "loop" => w.hand = Nobody,
           w.hand = Nobody \/ w.closed
    PROVE  PendingInv'
BY DEF PendingInv

LEMMA InitInv == Init => Inv
<1> SUFFICES ASSUME Init PROVE Inv
  OBVIOUS
<1>1. TypeOK
  <2>1. worker \in WorkerType
    BY QuietFacts DEF Init
  <2>2. expired \in BOOLEAN /\ cancelled \in BOOLEAN
    BY Zenon DEF Init
  <2> QED
    BY <2>1, <2>2, LifespanAssumption DEF Init, TypeOK, WorkerType
<1>2. NeverBoth /\ TaskInv
  BY DEF Init, NeverBoth, TaskInv
<1>3. PendingInv
  BY DEF Init, PendingInv, Quiet
<1> QED
  BY <1>1, <1>2, <1>3 DEF Inv

\* Steps of the task and the lifespan that leave the pending writes alone.
LEMMA KeepsInv ==
    ASSUME Inv, UNCHANGED <<installation, pruned_installation>>,
           worker' \in WorkerType,
           worker'.new = worker.new, worker'.deleted = worker.deleted,
           worker'.hand = worker.hand, worker'.closed = worker.closed,
           worker'.pc # "loop" => worker.pc # "loop" \/ worker.hand = Nobody
    PROVE  NeverBoth' /\ PendingInv'
BY DEF Inv, NeverBoth, PendingInv

LEMMA TaskStep ==
    ASSUME Inv, Wake \/ Resume \/ RoundFailed
    PROVE  Inv'
<1>1. CASE Wake
  <2>1. TypeOK' /\ NeverBoth' /\ TaskInv'
    BY <1>1, QuietFacts DEF Inv, TypeOK, NeverBoth, TaskInv, Wake, WorkerType, Working, Awaiting, tables, Quiet
  <2>2. PendingInv'
    BY <1>1 DEF Wake, Quiet, PendingInv
  <2> QED
    BY <2>1, <2>2 DEF Inv
<1>2. CASE Resume
  <2>1. TypeOK' /\ NeverBoth' /\ TaskInv'
    BY <1>2 DEF Inv, TypeOK, NeverBoth, TaskInv, Resume, Working, Awaiting, tables
  <2>2. PendingInv'
    BY <1>2 DEF Inv, TypeOK, Resume, PendingInv, Working
  <2> QED
    BY <2>1, <2>2 DEF Inv
<1>3. CASE RoundFailed
  <2>1. TypeOK' /\ NeverBoth' /\ TaskInv'
    BY <1>3, QuietFacts DEF Inv, TypeOK, NeverBoth, TaskInv, RoundFailed, WorkerType, Working, Awaiting, tables
  <2>2. PendingInv'
    BY <1>3, QuietFacts, Empty DEF RoundFailed
  <2> QED
    BY <2>1, <2>2 DEF Inv
<1> QED
  BY <1>1, <1>2, <1>3

\* The session is closed under its thread.
LEMMA CancelStep ==
    ASSUME Inv, Unwind \/ UnwindRefused
    PROVE  Inv'
<1> DEFINE w == Forgotten(worker)
           v == [w EXCEPT !.dropped = worker.dropped]
<1>w. worker \in WorkerType
  BY DEF Inv, TypeOK, WorkerType
<1>f. /\ w \in WorkerType /\ w.pc = worker.pc /\ w.hand = worker.hand
      /\ w.new = {} /\ w.deleted = {} /\ w.closed = (worker.pc \in Working)
  BY <1>w, ForgottenFacts
<1>v. /\ v \in WorkerType /\ v.pc = worker.pc /\ v.hand = worker.hand
      /\ v.new = {} /\ v.deleted = {} /\ v.closed = w.closed
  BY <1>w, <1>f DEF WorkerType
<1>1. worker' \in {worker, w, v}
  BY DEF Unwind, UnwindRefused
<1>2. worker' \in WorkerType
  BY <1>1, <1>w, <1>f, <1>v
<1>3. TypeOK' /\ NeverBoth' /\ TaskInv'
  BY <1>2 DEF Inv, TypeOK, NeverBoth, TaskInv, Unwind, UnwindRefused, WorkerType, Awaiting, tables
<1>4. worker.pc # "loop" => worker.hand = Nobody
  BY DEF Inv, PendingInv
<1>5. worker.pc = "loop" => worker.pc \in Working
  BY DEF Working
<1>6. PendingInv'
  <2>1. CASE worker' = worker
    BY <2>1 DEF Inv, PendingInv
  <2>2. CASE worker' = w
    BY <2>2, <1>f, <1>4, <1>5, Empty
  <2>3. CASE worker' = v
    BY <2>3, <1>f, <1>v, <1>4, <1>5, Empty
  <2> QED
    BY <2>1, <2>2, <2>3, <1>1
<1> QED
  BY <1>3, <1>6 DEF Inv

LEMMA TakeStep ==
    ASSUME Inv, TakeNext
    PROVE  Inv'
<1>1. PICK x \in worker.todo :
         worker' = LoopBody([worker EXCEPT !.todo = @ \ {x}, !.hand = x], x, TRUE)
  BY DEF TakeNext
<1>2. worker \in WorkerType /\ x \in Ids
  BY <1>1 DEF Inv, TypeOK, WorkerType
<1>3. /\ worker' \in WorkerType /\ worker'.pc = worker.pc /\ worker'.hand = x
      /\ worker'.new = worker.new \cup {x} /\ worker'.deleted = worker.deleted
      /\ worker'.closed = worker.closed
  BY <1>1, <1>2 DEF LoopBody, WorkerType
<1>4. TypeOK' /\ NeverBoth' /\ TaskInv'
  BY <1>3 DEF Inv, TypeOK, NeverBoth, TaskInv, TakeNext, WorkerType, tables
<1>5. worker.hand = Nobody /\ worker.pc = "loop" /\ Nobody \notin worker.new
  BY <1>2, LifespanAssumption DEF TakeNext, WorkerType
<1>6. PendingInv'
  BY <1>3, <1>5 DEF Inv, PendingInv
<1> QED
  BY <1>4, <1>6 DEF Inv

LEMMA FinishStep ==
    ASSUME Inv, FinishTaken
    PROVE  Inv'
<1> DEFINE x == worker.hand
<1>1. worker \in WorkerType /\ x \in Ids /\ x # Nobody
  BY LifespanAssumption DEF Inv, TypeOK, WorkerType, FinishTaken
<1>2. /\ worker' \in WorkerType /\ worker'.pc = worker.pc
      /\ worker'.hand = Nobody /\ worker'.new = worker.new
      /\ worker'.deleted = worker.deleted \cup {x}
      /\ worker'.closed = worker.closed
  BY <1>1 DEF FinishTaken, LoopBody, WorkerType
<1>3. TypeOK' /\ NeverBoth' /\ TaskInv'
  BY <1>2 DEF Inv, TypeOK, NeverBoth, TaskInv, FinishTaken, WorkerType, tables
<1>4. PendingInv'
  <2>1. CASE x \in worker.new
    BY <1>1, <1>2, <2>1 DEF Inv, PendingInv
  <2>2. CASE worker.closed /\ worker.deleted = {}
    BY <1>1, <1>2, <2>2 DEF Inv, PendingInv
  <2> QED
    BY <1>1, <2>1, <2>2 DEF Inv, PendingInv
<1> QED
  BY <1>3, <1>4 DEF Inv

\* The other steps of the thread before a COMMIT.
LEMMA LocalStep ==
    ASSUME Inv, Connect \/ PruneSelect \/ PruneCommitStart \/ PurgeDelete \/ PurgeCommitStart
    PROVE  Inv'
<1>1. worker \in WorkerType /\ stale \subseteq Ids
  BY DEF Inv, TypeOK, WorkerType
<1>2. /\ worker' \in WorkerType
      /\ worker'.new = worker.new /\ worker'.deleted = worker.deleted
      /\ worker'.hand = worker.hand /\ worker'.closed = worker.closed
      /\ worker'.pc # "loop" => worker.pc # "loop" \/ worker.hand = Nobody
  BY <1>1 DEF Connect, PruneSelect, PruneCommitStart, PurgeDelete, PurgeCommitStart, WorkerType, Working
<1>3. UNCHANGED <<tables, stale, server, task, cancelled, faults>>
  BY DEF Connect, PruneSelect, PruneCommitStart, PurgeDelete, PurgeCommitStart
<1>4. TypeOK' /\ TaskInv'
  BY <1>2, <1>3 DEF Inv, TypeOK, TaskInv, WorkerType, tables
<1> QED
  BY <1>2, <1>3, <1>4, KeepsInv DEF Inv, tables

LEMMA CommitStep ==
    ASSUME Inv, PruneCommit \/ PurgeCommit
    PROVE  Inv'
<1>1. worker.hand = Nobody /\ worker \in WorkerType
  BY DEF Inv, TypeOK, PendingInv, WorkerType, PruneCommit, PurgeCommit
<1>2. worker.new \subseteq worker.deleted
  BY <1>1, LifespanAssumption DEF Inv, PendingInv, WorkerType
<1>3. NeverBoth' /\ TaskInv'
  BY <1>2 DEF Inv, NeverBoth, TaskInv, PruneCommit, PurgeCommit
<1>4. TypeOK'
  <2>1. expired' \in BOOLEAN
    BY Zenon DEF Inv, TypeOK, PruneCommit, PurgeCommit
  <2>2. worker' \in WorkerType
    BY QuietFacts DEF PruneCommit, PurgeCommit
  <2>3. /\ installation' \subseteq Ids /\ pruned_installation' \subseteq Ids
        /\ stale' \subseteq installation'
    BY <1>1 DEF Inv, TypeOK, PruneCommit, PurgeCommit, WorkerType
  <2>4. UNCHANGED <<server, task, cancelled, faults>>
    BY DEF PruneCommit, PurgeCommit
  <2> QED
    BY <2>1, <2>2, <2>3, <2>4 DEF Inv, TypeOK, WorkerType
<1>5. PendingInv'
  BY QuietFacts, Empty DEF PruneCommit, PurgeCommit
<1> QED
  BY <1>3, <1>4, <1>5 DEF Inv

LEMMA FailStep ==
    ASSUME Inv, WorkerFails
    PROVE  Inv'
<1>1. PICK pc \in {"idle", "failed"} : worker' = [Quiet EXCEPT !.pc = pc]
  BY DEF WorkerFails
<1>2. worker' \in WorkerType
  BY <1>1 DEF Quiet, WorkerType, Working
<1>3. TypeOK' /\ NeverBoth' /\ TaskInv'
  BY <1>2, LifespanAssumption DEF Inv, TypeOK, NeverBoth, TaskInv, WorkerFails, WorkerType, tables
<1>4. PendingInv'
  BY <1>1 DEF Quiet, PendingInv
<1> QED
  BY <1>3, <1>4 DEF Inv

LEMMA ServerStep ==
    ASSUME Inv, Start \/ Stop \/ Exit \/ Kill
    PROVE  Inv'
<1>1. TypeOK'
  <2>1. worker' \in WorkerType
    BY QuietFacts DEF Inv, TypeOK, WorkerType, Start, Stop, Exit, Kill
  <2>2. cancelled' \in BOOLEAN
    BY Zenon DEF Inv, TypeOK, Start, Stop, Exit, Kill
  <2>3. /\ server' \in {"running", "stopping", "stopped"}
        /\ task' \in {"sleep", "ended"} \cup Awaiting
        /\ cancelled' => server' = "stopping" /\ task' # "ended"
    BY DEF Inv, TypeOK, TaskInv, Start, Stop, Exit, Kill
  <2>4. UNCHANGED <<tables, stale, faults>>
    BY DEF Start, Stop, Exit, Kill
  <2> QED
    BY <2>1, <2>2, <2>3, <2>4 DEF Inv, TypeOK, WorkerType, tables
<1>4. NeverBoth' /\ TaskInv'
  BY DEF Inv, TypeOK, NeverBoth, TaskInv, Start, Stop, Exit, Kill, tables
<1>2. worker' = worker \/ worker' = Quiet
  BY DEF Start, Stop, Exit, Kill
<1>3. PendingInv'
  <2>1. CASE worker' = worker
    BY <2>1 DEF Inv, PendingInv
  <2>2. CASE worker' = Quiet
    BY <2>2, QuietFacts, Empty
  <2> QED
    BY <2>1, <2>2, <1>2
<1> QED
  BY <1>1, <1>3, <1>4 DEF Inv

LEMMA OtherStep ==
    ASSUME Inv, Age \/ \E x \in Ids : CheckIn(x)
    PROVE  Inv'
<1>1. TypeOK'
  <2>1. expired' \in BOOLEAN
    BY Zenon DEF Inv, TypeOK, Age, CheckIn
  <2>2. /\ installation' \subseteq Ids /\ pruned_installation' \subseteq Ids
        /\ stale' \subseteq installation'
    BY DEF Inv, TypeOK, Age, CheckIn
  <2>3. UNCHANGED <<server, task, cancelled, worker, faults>>
    BY DEF Age, CheckIn
  <2> QED
    BY <2>1, <2>2, <2>3 DEF Inv, TypeOK
<1>3. NeverBoth' /\ TaskInv'
  BY DEF Inv, NeverBoth, TaskInv, Age, CheckIn
<1>2. PendingInv'
  BY DEF Inv, PendingInv, Age, CheckIn
<1> QED
  BY <1>1, <1>2, <1>3 DEF Inv

LEMMA NextInv == Inv /\ [Next]_vars => Inv'
<1> SUFFICES ASSUME Inv, [Next]_vars PROVE Inv'
  OBVIOUS
<1>1. CASE Next
  BY <1>1, TaskStep, CancelStep, TakeStep, FinishStep, LocalStep, CommitStep,
     FailStep, ServerStep, OtherStep DEF Next, Work
<1>2. CASE UNCHANGED vars
  BY <1>2 DEF Inv, TypeOK, NeverBoth, PendingInv, TaskInv, vars, tables
<1> QED
  BY <1>1, <1>2

LEMMA Invariance == Spec => []Inv
BY InitInv, NextInv, PTL DEF Spec

-----------------------------------------------------------------------------
\* Every variable keeps its type; so a running server is never without its
\* task, and a cancellation always has a task to end.
THEOREM LifespanTypeCorrect == Spec => []TypeOK
BY Invariance, PTL DEF Inv

\* However often the server is stopped, killed and started again, wherever
\* the cancellation meets the round: no installation gets into both tables.
THEOREM NeverInBoth == Spec => []NeverBoth
BY Invariance, PTL DEF Inv

\* What can disappear is the installation that was in hand when the session
\* was closed, and nothing else.
THEOREM LosesAtMostOne == Spec => LosesOnlyInHand
<1> DEFINE Gone == (installation \cup pruned_installation)
                     \ (installation' \cup pruned_installation')
           Loss == Gone # {} => worker.closed /\ Cardinality(Gone) = 1
<1>1. ASSUME Inv, [Next]_vars PROVE [Loss]_vars
  <2>1. CASE PruneCommit
    <3>1. PICK x : worker.deleted \ worker.new \subseteq {x}
      BY <1>1 DEF Inv, PendingInv
    <3>2. Gone \subseteq worker.deleted \ worker.new
      BY <2>1 DEF PruneCommit
    <3>3. Gone # {} => Gone = {x} /\ worker.closed
      BY <1>1, <3>1, <3>2 DEF Inv, PendingInv
    <3> QED
      BY <3>3, FS_Singleton
  <2>2. CASE ~PruneCommit
    <3>1. Gone = {}
      BY <1>1, <2>2 DEF Next, Work, vars, tables, Wake, Resume, RoundFailed,
        Unwind, UnwindRefused, Connect, PruneSelect, TakeNext, FinishTaken,
        PruneCommitStart, PurgeDelete, PurgeCommitStart, PurgeCommit,
        WorkerFails, Start, Stop, Exit, Kill, CheckIn, Age
    <3> QED
      BY <3>1
  <2> QED
    BY <2>1, <2>2
<1>2. Inv /\ [Next]_vars => [Loss]_vars
  BY <1>1
<1> QED
  BY Invariance, <1>2, PTL DEF Spec, LosesOnlyInHand
=============================================================================
