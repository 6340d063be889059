---------------------------- MODULE BackendProofs ---------------------------
(***************************************************************************)
(* Theorems about Backend, for every set of ids, versions and scripts, and *)
(* every number of days and ticks.                                         *)
(***************************************************************************)
EXTENDS Backend, TLAPS, FiniteSetTheorems

-----------------------------------------------------------------------------
(* Type correctness.                                                       *)

\* The process names are distinct.
LEMMA Names ==
    /\ Free \notin Pruners /\ EventLoop \notin Pruners
    /\ Free # EventLoop /\ Job \in Pruners /\ Job \notin Scripts
BY ScriptsAssumption DEF Pruners, Free, EventLoop, Job

\* A step of get_stats runs one of the planned SELECTs, which returns rows.
LEMMA PlanType ==
    /\ Len(Plan) = 13
    /\ \A i \in 1 .. 13 : Plan[i] \in Queries
<1>1. Len(Plan) = 13
  BY DEF Plan
<1>2. /\ Plan[1] \in Queries /\ Plan[2] \in Queries /\ Plan[3] \in Queries
      /\ Plan[4] \in Queries /\ Plan[5] \in Queries /\ Plan[6] \in Queries
      /\ Plan[7] \in Queries /\ Plan[8] \in Queries /\ Plan[9] \in Queries
      /\ Plan[10] \in Queries /\ Plan[11] \in Queries /\ Plan[12] \in Queries
      /\ Plan[13] \in Queries
  BY DEF Plan, Queries
<1> QED
  BY <1>1, <1>2

LEMMA RowsType ==
    ASSUME DbTypeOK, NEW q \in Queries, NEW t \in Nat
    PROVE  Rows(q, t) \in SUBSET (Ids \cup Activity)
BY DEF DbTypeOK, Rows, Queries, Live, Active, NewWithin, Bucket, Window

LEMMA DayType == ASSUME NEW t \in Nat PROVE DayOf(t) \in Nat
BY TicksAssumption DEF DayOf

\* What the handler commits are rows of the two tables.
LEMMA UpsertType ==
    ASSUME DbTypeOK, IngestTypeOK, request # Idle,
           request.existing => request.id \in Live
    PROVE  /\ UpsertedRow \in Row
           /\ UpsertedActivity \subseteq Activity
<1>1. request \in Request
  BY DEF IngestTypeOK
<1>2. UpsertedRow \in Row
  <2>1. CASE request.existing
    <3>1. installation[request.id] \in Row
      BY <1>1, <2>1 DEF DbTypeOK, Live, Request
    <3> QED
      BY <1>1, <2>1, <3>1 DEF UpsertedRow, Row, Request
  <2>2. CASE ~request.existing
    BY <1>1, <2>2 DEF UpsertedRow, Row, Request
  <2> QED
    BY <2>1, <2>2
<1>3. UpsertedActivity \subseteq Activity
  BY <1>1, DayType DEF UpsertedActivity, Activity, DbTypeOK, Request
<1> QED
  BY <1>2, <1>3

-----------------------------------------------------------------------------
(* The inductive invariant.                                                *)

\* What the handler knows: an installation it found is known and has no
\* tombstone (CountedOnce); one it did not find is not live, because only
\* this handler can make it live, and a tombstone it found stays.
RequestInv ==
    request # Idle =>
        /\ request.existing => request.id \in registered /\ ~request.pruned
        /\ ~request.existing => request.id \notin Live
        /\ ~request.existing /\ request.pc # "lookup" =>
              (request.pruned <=> request.id \in pruned_installation)
        /\ request.pc = "lookup" => ~request.existing
        /\ request.pc = "commit" =>
              /\ writer = EventLoop
              /\ request.existing => request.id \in Live

\* What a pruner knows: the installations it selected are known, and once it
\* holds the lock they are live.
PruneInv ==
    \A p \in Pruners :
        /\ prune[p].pc \in {"flush", "commit"} => prune[p].stale \subseteq registered
        /\ prune[p].pc = "commit" =>
              /\ writer = p
              /\ prune[p].stale \subseteq Live

Inv == TypeOK /\ CountedOnce /\ RequestInv /\ PruneInv

LEMMA InitInv == Init => Inv
<1> SUFFICES ASSUME Init PROVE Inv
  OBVIOUS
<1> USE DEF Init, DbInit, IngestInit, RetentionInit, StatsInit
<1>1. TypeOK
  <2>1. Live = {}
    BY DEF Live
  <2>2. DbTypeOK
    BY DEF DbTypeOK
  <2>3. IngestTypeOK /\ StatsTypeOK /\ faults \in 0 .. MaxFaults
    BY BackendAssumption DEF IngestTypeOK, StatsTypeOK
  <2>4. RetentionTypeOK
    BY DEF RetentionTypeOK, Pruners
  <2> QED
    BY <2>2, <2>3, <2>4 DEF TypeOK
<1>2. CountedOnce
  BY DEF CountedOnce, Live
<1>3. RequestInv
  BY DEF RequestInv
<1>4. PruneInv
  BY DEF PruneInv, Resting
<1> QED
  BY <1>1, <1>2, <1>3, <1>4 DEF Inv

-----------------------------------------------------------------------------
(* Its preservation, process by process.                                   *)

\* The handler of POST /api/telemetry up to its COMMIT changes no table.
LEMMA LookupInv ==
    ASSUME Inv, NEW x \in Ids, NEW v \in Versions, Receive(x, v)
    PROVE  Inv'
<1> USE DEF Receive, IngestLookup
<1>1. Live' = Live
  BY DEF tables, Live
<1>2. TypeOK'
  <2>1. DbTypeOK' /\ RetentionTypeOK' /\ StatsTypeOK' /\ (faults \in 0 .. MaxFaults)'
    BY DEF Inv, TypeOK, DbTypeOK, RetentionTypeOK, StatsTypeOK, tables
  <2>2. IngestTypeOK'
    BY DEF Inv, TypeOK, DbTypeOK, IngestTypeOK, Request
  <2> QED
    BY <2>1, <2>2 DEF TypeOK
<1>3. CountedOnce'
  BY <1>1 DEF Inv, CountedOnce, tables
<1>4. RequestInv'
  BY <1>1 DEF Inv, CountedOnce, RequestInv, tables
<1>5. PruneInv'
  BY <1>1 DEF Inv, PruneInv, tables
<1> QED
  BY <1>2, <1>3, <1>4, <1>5 DEF Inv

LEMMA LookupPrunedInv ==
    ASSUME Inv, IngestLookupPruned, UNCHANGED <<prune, stats, faults>>
    PROVE  Inv'
<1> USE DEF IngestLookupPruned
<1>1. Live' = Live /\ request \in Request
  BY DEF tables, Live, Inv, TypeOK, IngestTypeOK, Idle
<1>2. /\ request'.pc = "flush"
      /\ request'.id = request.id
      /\ request'.existing = request.existing
      /\ request'.pruned = (request.id \in pruned_installation)
  BY <1>1 DEF Request
<1>3. TypeOK'
  <2>1. DbTypeOK' /\ RetentionTypeOK' /\ StatsTypeOK' /\ (faults \in 0 .. MaxFaults)'
    BY DEF Inv, TypeOK, DbTypeOK, RetentionTypeOK, StatsTypeOK, tables
  <2>2. IngestTypeOK'
    <3> DEFINE b == request.id \in pruned_installation
    <3>1. b \in BOOLEAN
      OBVIOUS
    <3>2. request' = [request EXCEPT !.pc = "flush", !.pruned = b]
      OBVIOUS
    <3> HIDE DEF b
    <3>3. request' \in Request
      BY <1>1, <3>1, <3>2 DEF Request
    <3> QED
      BY <3>3 DEF Inv, TypeOK, IngestTypeOK
  <2> QED
    BY <2>1, <2>2 DEF TypeOK
<1>4. CountedOnce'
  BY <1>1 DEF Inv, CountedOnce, tables
<1>5. RequestInv'
  <2>1. request # Idle /\ ~request.existing /\ request.id \notin Live
    BY DEF Inv, RequestInv, Idle
  <2>2. pruned_installation' = pruned_installation
    BY DEF tables
  <2> HIDE DEF IngestLookupPruned
  <2> QED
    BY <1>1, <1>2, <2>1, <2>2 DEF RequestInv
<1>6. PruneInv'
  BY <1>1 DEF Inv, PruneInv, tables
<1> QED
  BY <1>3, <1>4, <1>5, <1>6 DEF Inv

LEMMA FlushInv ==
    ASSUME Inv, IngestFlush, UNCHANGED <<prune, stats, faults>>
    PROVE  Inv'
<1> USE DEF IngestFlush, Acquire
<1>1. Live' = Live /\ request \in Request
  BY DEF tables, Live, Inv, TypeOK, IngestTypeOK, Idle
<1>2. TypeOK'
  <2>1. DbTypeOK' /\ RetentionTypeOK' /\ StatsTypeOK' /\ (faults \in 0 .. MaxFaults)'
    BY DEF Inv, TypeOK, DbTypeOK, RetentionTypeOK, StatsTypeOK, tables
  <2>2. IngestTypeOK'
    BY <1>1 DEF Inv, TypeOK, IngestTypeOK, Request
  <2> QED
    BY <2>1, <2>2 DEF TypeOK
<1>3. CountedOnce'
  BY <1>1 DEF Inv, CountedOnce, tables
<1>4. RequestInv'
  BY <1>1 DEF Inv, RequestInv, Request, Idle, Flushable, tables
<1>5. PruneInv'
  BY <1>1, Names DEF Inv, PruneInv, tables
<1> QED
  BY <1>2, <1>3, <1>4, <1>5 DEF Inv

\* The COMMIT makes the installation live and known, and takes its tombstone.
LEMMA CommitEffect ==
    ASSUME Inv, IngestCommit
    PROVE  /\ request.id \in Ids
           /\ Live' = Live \cup {request.id}
           /\ pruned_installation' = pruned_installation \ {request.id}
           /\ registered' = registered \cup {request.id}
           /\ DbTypeOK'
<1> USE DEF IngestCommit, Release
<1>1. /\ request # Idle /\ request \in Request /\ request.id \in Ids
      /\ request.existing => request.id \in Live
  BY DEF Inv, TypeOK, IngestTypeOK, Idle, RequestInv, Request
<1>2. UpsertedRow \in Row /\ UpsertedActivity \subseteq Activity
  BY <1>1, UpsertType DEF Inv, TypeOK
<1>3. Live' = Live \cup {request.id}
  BY <1>1, <1>2, NoRowAssumption DEF Live, Inv, TypeOK, DbTypeOK
<1>4. pruned_installation' = pruned_installation \ {request.id}
  BY <1>1 DEF Inv, RequestInv, CountedOnce
<1>5. DbTypeOK'
  BY <1>1, <1>2, <1>4 DEF Inv, TypeOK, DbTypeOK
<1> QED
  BY <1>1, <1>3, <1>4, <1>5

LEMMA CommitInv ==
    ASSUME Inv, IngestCommit, UNCHANGED <<prune, stats, faults>>
    PROVE  Inv'
<1>1. /\ Live' = Live \cup {request.id}
      /\ pruned_installation' = pruned_installation \ {request.id}
      /\ registered' = registered \cup {request.id}
      /\ request.id \in Ids /\ DbTypeOK'
  BY CommitEffect
<1>2. /\ writer = EventLoop /\ writer' = Free /\ request' = Idle
  BY DEF IngestCommit, Release
<1>3. TypeOK'
  BY <1>1, <1>2 DEF Inv, TypeOK, IngestTypeOK, RetentionTypeOK, StatsTypeOK
<1>4. CountedOnce'
  BY <1>1 DEF Inv, CountedOnce
<1>5. RequestInv'
  BY <1>2 DEF RequestInv
<1>6. PruneInv'
  BY <1>1, <1>2, Names DEF Inv, PruneInv
<1> QED
  BY <1>3, <1>4, <1>5, <1>6 DEF Inv

\* A step that changes no table and only lets go of local state: a request
\* ends, a pruner ends or goes on to its purge, whoever commits later keeps
\* the lock.
LEMMA QuietInv ==
    ASSUME Inv,
           UNCHANGED <<tables, registered>>,
           now' \in Nat, faults' \in 0 .. MaxFaults, StatsTypeOK', RetentionTypeOK',
           writer' \in Pruners \cup {EventLoop, Free},
           request' = request \/ request' = Idle,
           request'.pc = "commit" => writer' = writer,
           \A p \in Pruners :
               /\ prune'[p] = prune[p] \/ prune'[p].pc \notin {"flush", "commit"}
               /\ prune'[p].pc = "commit" => writer' = writer
    PROVE  Inv'
<1>1. Live' = Live
  BY DEF tables, Live
<1>2. TypeOK'
  BY DEF Inv, TypeOK, DbTypeOK, IngestTypeOK, tables
<1>3. CountedOnce'
  BY <1>1 DEF Inv, CountedOnce, tables
<1>4. RequestInv'
  BY <1>1 DEF Inv, RequestInv, tables
<1>5. PruneInv'
  BY <1>1 DEF Inv, PruneInv, tables
<1> QED
  BY <1>2, <1>3, <1>4, <1>5 DEF Inv

\* The handler of GET /api/stats only reads.
LEMMA StatsInv ==
    ASSUME Inv, ReceiveStats \/ Reporting
    PROVE  Inv'
<1>1. UNCHANGED <<now, tables, writer, request, registered, prune, faults>>
  BY DEF ReceiveStats, StatsStart, Reporting, StatsProgress, StatsQuery, StatsReply
<1>2. StatsTypeOK'
  <2>1. CASE ReceiveStats
    <3>1. now \in Nat /\ 1 \in 1 .. Len(Plan) + 1
      BY PlanType DEF Inv, TypeOK, DbTypeOK
    <3>2. [q \in Queries |-> {}] \in [Queries -> SUBSET (Ids \cup Activity)]
      OBVIOUS
    <3> QED
      BY <2>1, <3>1, <3>2 DEF ReceiveStats, StatsStart, StatsTypeOK, Computing
  <2>2. CASE StatsQuery
    <3>1. stats \in Computing /\ stats.step \in 1 .. Len(Plan) /\ stats.at \in Nat
      BY <2>2 DEF StatsQuery, StatsTypeOK, NoStats, Computing, Inv, TypeOK
    <3> DEFINE q == Plan[stats.step]
               rows == Rows(q, stats.at)
    <3>2. q \in Queries
      BY <3>1, PlanType
    <3>3. rows \in SUBSET (Ids \cup Activity)
      BY <3>1, <3>2, RowsType DEF Inv, TypeOK
    <3>4. stats' = [stats EXCEPT !.step = stats.step + 1, !.got[q] = rows]
      BY <2>2 DEF StatsQuery
    <3>5. stats.step + 1 \in 1 .. Len(Plan) + 1
      BY <3>1, PlanType
    <3> HIDE DEF q, rows
    <3>6. stats' \in Computing
      BY <3>1, <3>2, <3>3, <3>4, <3>5 DEF Computing
    <3> QED
      BY <3>6 DEF StatsTypeOK
  <2>3. CASE StatsReply
    BY <2>3 DEF StatsReply, StatsTypeOK
  <2> QED
    BY <2>1, <2>2, <2>3 DEF Reporting, StatsProgress
<1>3. /\ now' \in Nat /\ faults' \in 0 .. MaxFaults /\ RetentionTypeOK'
      /\ writer' \in Pruners \cup {EventLoop, Free}
  BY <1>1 DEF Inv, TypeOK, DbTypeOK, RetentionTypeOK
<1> QED
  BY <1>1, <1>2, <1>3, QuietInv

\* Requests that fail: answered 500, nothing written.
LEMMA FailInv ==
    ASSUME Inv,
           \/ IngestConflict /\ UNCHANGED <<prune, stats, faults>>
           \/ IngestTimeout
    PROVE  Inv'
<1>1. /\ UNCHANGED <<now, tables, writer, registered, prune, stats>>
      /\ request' = Idle
  BY DEF IngestConflict, IngestTimeout, IngestLocked
<1>2. faults' \in 0 .. MaxFaults
  BY BackendAssumption DEF Inv, TypeOK, IngestTimeout, Fault
<1>3. /\ now' \in Nat /\ RetentionTypeOK' /\ StatsTypeOK'
      /\ writer' \in Pruners \cup {EventLoop, Free}
  BY <1>1 DEF Inv, TypeOK, DbTypeOK, RetentionTypeOK, StatsTypeOK
<1> QED
  BY <1>1, <1>2, <1>3, QuietInv DEF Idle

\* Before it holds the lock, a pruner has written nothing.
LEMMA SelectInv ==
    ASSUME Inv, NEW p \in Pruners, StartPrune(p)
    PROVE  Inv'
<1> USE DEF StartPrune
<1>1. PICK days \in DaysOf(p) : PruneSelect(p, days)
  OBVIOUS
<1>2. days \in Nat
  BY RetentionAssumption DEF DaysOf
<1>3. StaleAt(now, days) \subseteq Live /\ Live \subseteq Ids
  BY DEF StaleAt, Live
<1>4. CASE StaleAt(now, days) = {}
  <2>1. prune' = [prune EXCEPT ![p] = Pruned(p)]
    BY <1>1, <1>4 DEF PruneSelect
  <2>2. RetentionTypeOK'
    BY <2>1, Names DEF Inv, TypeOK, RetentionTypeOK, Pruned, Pruners
  <2>3. /\ UNCHANGED <<now, tables, writer, request, registered, stats, faults>>
        /\ \A q \in Pruners :
              prune'[q] = prune[q] \/ prune'[q].pc \notin {"flush", "commit"}
    BY <1>1, <2>1 DEF PruneSelect, Pruned, Resting, Inv, TypeOK, RetentionTypeOK
  <2>4. /\ now' \in Nat /\ faults' \in 0 .. MaxFaults /\ StatsTypeOK'
        /\ writer' \in Pruners \cup {EventLoop, Free}
    BY <2>3 DEF Inv, TypeOK, DbTypeOK, StatsTypeOK
  <2> QED
    BY <2>2, <2>3, <2>4, QuietInv
<1>5. CASE StaleAt(now, days) # {}
  <2> DEFINE batch == [pc |-> "flush", days |-> days, stale |-> StaleAt(now, days)]
  <2>1. /\ prune' = [prune EXCEPT ![p] = batch]
        /\ UNCHANGED <<now, tables, writer, request, registered, stats, faults>>
    BY <1>1, <1>5 DEF PruneSelect
  <2>2. batch \in Pruning
    BY <1>2, <1>3 DEF Pruning
  <2>3. batch.pc = "flush" /\ batch.stale \subseteq registered
    BY <1>3 DEF Inv, CountedOnce
  <2> HIDE DEF batch
  <2>4. Live' = Live
    BY <2>1 DEF Live, tables
  <2>5. TypeOK'
    <3>1. RetentionTypeOK'
      BY <2>1, <2>2 DEF Inv, TypeOK, RetentionTypeOK
    <3> QED
      BY <2>1, <3>1 DEF Inv, TypeOK, DbTypeOK, IngestTypeOK, StatsTypeOK, tables
  <2>6. CountedOnce' /\ RequestInv'
    BY <2>1, <2>4 DEF Inv, CountedOnce, RequestInv, tables
  <2>7. PruneInv'
    BY <2>1, <2>3, <2>4 DEF Inv, TypeOK, RetentionTypeOK, PruneInv
  <2> QED
    BY <2>5, <2>6, <2>7 DEF Inv
<1> QED
  BY <1>4, <1>5

LEMMA PruneFlushInv ==
    ASSUME Inv, NEW p \in Pruners, PruneFlush(p),
           UNCHANGED <<request, registered, stats, faults>>
    PROVE  Inv'
<1> USE DEF PruneFlush, Acquire
<1>1. Live' = Live
  BY DEF Live, tables
<1>2. prune[p] \in Pruning
  BY DEF Inv, TypeOK, RetentionTypeOK, Purging, Resting
<1>3. TypeOK'
  <2>1. RetentionTypeOK'
    BY <1>2 DEF Inv, TypeOK, RetentionTypeOK, Pruning
  <2> QED
    BY <2>1 DEF Inv, TypeOK, DbTypeOK, IngestTypeOK, StatsTypeOK, tables
<1>4. CountedOnce'
  BY <1>1 DEF Inv, CountedOnce, tables
<1>5. RequestInv'
  BY <1>1, Names DEF Inv, RequestInv, tables
<1>6. PruneInv'
  <2>1. prune[p].stale \subseteq Live
    BY DEF Inv, CountedOnce, PruneInv
  <2>2. \A q \in Pruners : prune[q].pc # "commit"
    BY Names DEF Inv, PruneInv
  <2>3. /\ prune'[p].stale = prune[p].stale
        /\ \A q \in Pruners \ {p} : prune'[q] = prune[q]
    BY <1>2 DEF Inv, TypeOK, RetentionTypeOK, Pruning
  <2> QED
    BY <1>1, <2>1, <2>2, <2>3 DEF Inv, PruneInv, CountedOnce
<1> QED
  BY <1>3, <1>4, <1>5, <1>6 DEF Inv

\* The COMMIT of a prune moves the batch from one table to the other.
LEMMA PruneCommitEffect ==
    ASSUME Inv, NEW p \in Pruners, PruneCommit(p)
    PROVE  /\ prune[p].stale \subseteq Live
           /\ Live' = Live \ prune[p].stale
           /\ pruned_installation' = pruned_installation \cup prune[p].stale
           /\ DbTypeOK'
<1> USE DEF PruneCommit, Release
<1>1. prune[p].stale \subseteq Live /\ Live \subseteq Ids
  BY DEF Inv, PruneInv, Live
<1>2. Live' = Live \ prune[p].stale
  BY DEF Live, Inv, TypeOK, DbTypeOK
<1>3. DbTypeOK'
  BY <1>1 DEF Inv, TypeOK, DbTypeOK
<1> QED
  BY <1>1, <1>2, <1>3

LEMMA PruneCommitInv ==
    ASSUME Inv, NEW p \in Pruners, PruneCommit(p),
           UNCHANGED <<request, registered, stats, faults>>
    PROVE  Inv'
<1> USE DEF PruneCommit, Release
<1> DEFINE stale == prune[p].stale
<1>1. stale \subseteq Live /\ DbTypeOK'
  BY PruneCommitEffect
<1>2. Live' = Live \ stale
  BY PruneCommitEffect
<1>3. TypeOK'
  <2>1. RetentionTypeOK'
    BY Names DEF Inv, TypeOK, RetentionTypeOK, Pruned, Pruners
  <2> QED
    BY <1>1, <2>1 DEF Inv, TypeOK, IngestTypeOK, StatsTypeOK
<1>4. CountedOnce'
  BY <1>1, <1>2 DEF Inv, CountedOnce
<1>5. RequestInv'
  BY <1>1, <1>2, Names DEF Inv, RequestInv
<1>6. PruneInv'
  <2>1. \A q \in Pruners \ {p} : prune'[q] = prune[q] /\ prune[q].pc # "commit"
    BY DEF Inv, PruneInv
  <2>2. prune'[p].pc \notin {"flush", "commit"}
    BY DEF Inv, TypeOK, RetentionTypeOK, Pruned, Resting
  <2> QED
    BY <2>1, <2>2 DEF Inv, PruneInv
<1> QED
  BY <1>3, <1>4, <1>5, <1>6 DEF Inv

\* Batches that fail: rolled back, the pruner rests.
LEMMA PruneFailInv ==
    ASSUME Inv, NEW p \in Pruners,
           \/ PruneConflict(p) /\ UNCHANGED <<request, registered, stats, faults>>
           \/ PruneTimeout(p)
    PROVE  Inv'
<1>1. /\ UNCHANGED <<now, tables, writer, request, registered, stats>>
      /\ prune' = [prune EXCEPT ![p] = Resting]
  BY DEF PruneConflict, PruneTimeout, PruneLocked
<1>2. faults' \in 0 .. MaxFaults
  BY BackendAssumption DEF Inv, TypeOK, PruneTimeout, Fault
<1>3. RetentionTypeOK'
  BY <1>1 DEF Inv, TypeOK, RetentionTypeOK
<1>4. /\ now' \in Nat /\ StatsTypeOK'
      /\ writer' \in Pruners \cup {EventLoop, Free}
  BY <1>1 DEF Inv, TypeOK, DbTypeOK, StatsTypeOK
<1>5. \A q \in Pruners :
          prune'[q] = prune[q] \/ prune'[q].pc \notin {"flush", "commit"}
  BY <1>1 DEF Resting, Inv, TypeOK, RetentionTypeOK
<1> QED
  BY <1>1, <1>2, <1>3, <1>4, <1>5, QuietInv

\* The purge touches daily_activity only.
LEMMA PurgeInv ==
    ASSUME Inv, Purge
    PROVE  Inv'
<1>1. CASE PurgeStart
  <2>1. /\ prune' = [prune EXCEPT ![Job] = [pc |-> "delete", at |-> now]]
        /\ UNCHANGED <<now, tables, writer, request, registered, stats, faults>>
    BY <1>1 DEF Purge, PurgeStart
  <2>2. [pc |-> "delete", at |-> now] \in Purging
    BY DEF Inv, TypeOK, DbTypeOK, Purging
  <2>3. RetentionTypeOK'
    <3> DEFINE started == [pc |-> "delete", at |-> now]
    <3>1. prune' = [prune EXCEPT ![Job] = started] /\ started \in Purging
      BY <2>1, <2>2
    <3> HIDE DEF started
    <3> QED
      BY <3>1, Names DEF Inv, TypeOK, RetentionTypeOK, Pruners
  <2>4. \A q \in Pruners :
            prune'[q] = prune[q] \/ prune'[q].pc \notin {"flush", "commit"}
    BY <2>1, Names DEF Inv, TypeOK, RetentionTypeOK
  <2>5. /\ now' \in Nat /\ faults' \in 0 .. MaxFaults /\ StatsTypeOK'
        /\ writer' \in Pruners \cup {EventLoop, Free}
    BY <2>1 DEF Inv, TypeOK, DbTypeOK, StatsTypeOK
  <2> QED
    BY <2>1, <2>3, <2>4, <2>5, QuietInv
<1>2. CASE PurgeDelete
  <2>1. /\ prune' = [prune EXCEPT ![Job] = Resting]
        /\ daily_activity' \subseteq daily_activity
        /\ UNCHANGED <<now, installation, pruned_installation, writer, request,
                       registered, stats, faults>>
    BY <1>2 DEF Purge, PurgeDelete
  <2>2. Live' = Live
    BY <2>1 DEF Live
  <2>3. TypeOK'
    <3>1. RetentionTypeOK'
      BY <2>1, Names DEF Inv, TypeOK, RetentionTypeOK
    <3> QED
      BY <2>1, <3>1 DEF Inv, TypeOK, DbTypeOK, IngestTypeOK, StatsTypeOK
  <2>4. CountedOnce' /\ RequestInv'
    BY <2>1, <2>2 DEF Inv, CountedOnce, RequestInv
  <2>5. PruneInv'
    BY <2>1, <2>2 DEF Inv, TypeOK, RetentionTypeOK, PruneInv, Resting
  <2> QED
    BY <2>3, <2>4, <2>5 DEF Inv
<1> QED
  BY <1>1, <1>2 DEF Purge, PurgeProgress

LEMMA TickInv ==
    ASSUME Inv, Tick
    PROVE  Inv'
<1>1. /\ now' \in Nat
      /\ UNCHANGED <<tables, writer, request, registered, prune, stats, faults>>
  BY DEF Tick, Inv, TypeOK, DbTypeOK
<1>2. /\ faults' \in 0 .. MaxFaults /\ StatsTypeOK' /\ RetentionTypeOK'
      /\ writer' \in Pruners \cup {EventLoop, Free}
  BY <1>1 DEF Inv, TypeOK, DbTypeOK, StatsTypeOK, RetentionTypeOK
<1> QED
  BY <1>1, <1>2, QuietInv

\* A crash frees a lock only if its holder is gone.
LEMMA CrashInv ==
    ASSUME Inv, ServerCrash \/ \E p \in Scripts : ScriptCrash(p)
    PROVE  Inv'
<1>1. faults' \in 0 .. MaxFaults
  BY BackendAssumption DEF Inv, TypeOK, ServerCrash, ScriptCrash, Fault
<1>2. CASE ServerCrash
  <2>1. /\ prune' = [prune EXCEPT ![Job] = Resting]
        /\ request' = Idle /\ stats' = NoStats
        /\ writer' = IF writer \in {EventLoop, Job} THEN Free ELSE writer
        /\ UNCHANGED <<now, tables, registered>>
    BY <1>2 DEF ServerCrash
  <2>2. /\ now' \in Nat /\ RetentionTypeOK' /\ StatsTypeOK'
        /\ writer' \in Pruners \cup {EventLoop, Free}
    BY <2>1, Names DEF Inv, TypeOK, DbTypeOK, RetentionTypeOK, StatsTypeOK
  <2>3. \A q \in Pruners :
            /\ prune'[q] = prune[q] \/ prune'[q].pc \notin {"flush", "commit"}
            /\ prune'[q].pc = "commit" => writer' = writer
    BY <2>1, Names DEF Resting, Inv, TypeOK, RetentionTypeOK, PruneInv
  <2> QED
    BY <1>1, <2>1, <2>2, <2>3, QuietInv DEF Idle
<1>3. ASSUME NEW p \in Scripts, ScriptCrash(p)
      PROVE  Inv'
  <2>1. /\ prune' = [prune EXCEPT ![p] = Resting]
        /\ writer' = IF writer = p THEN Free ELSE writer
        /\ UNCHANGED <<now, tables, request, registered, stats>>
        /\ p \in Pruners
    BY <1>3 DEF ScriptCrash, Pruners
  <2>2. /\ now' \in Nat /\ RetentionTypeOK' /\ StatsTypeOK'
        /\ writer' \in Pruners \cup {EventLoop, Free}
    BY <2>1 DEF Inv, TypeOK, DbTypeOK, RetentionTypeOK, StatsTypeOK
  <2>3. request'.pc = "commit" => writer' = writer
    BY <2>1, Names DEF Inv, RequestInv, Idle
  <2>4. \A q \in Pruners :
            /\ prune'[q] = prune[q] \/ prune'[q].pc \notin {"flush", "commit"}
            /\ prune'[q].pc = "commit" => writer' = writer
    BY <2>1 DEF Resting, Inv, TypeOK, RetentionTypeOK, PruneInv
  <2> QED
    BY <1>1, <2>1, <2>2, <2>3, <2>4, QuietInv
<1> QED
  BY <1>2, <1>3

LEMMA StutterInv ==
    ASSUME Inv, UNCHANGED vars
    PROVE  Inv'
<1>1. UNCHANGED <<now, tables, writer, request, registered, prune, stats, faults>>
  BY DEF vars
<1>2. /\ now' \in Nat /\ faults' \in 0 .. MaxFaults /\ StatsTypeOK'
      /\ RetentionTypeOK' /\ writer' \in Pruners \cup {EventLoop, Free}
  BY <1>1 DEF Inv, TypeOK, DbTypeOK, StatsTypeOK, RetentionTypeOK
<1> QED
  BY <1>1, <1>2, QuietInv

LEMMA NextInv == Inv /\ [Next]_vars => Inv'
<1> SUFFICES ASSUME Inv, [Next]_vars PROVE Inv'
  OBVIOUS
<1>1. ASSUME NEW x \in Ids, NEW v \in Versions, Receive(x, v) PROVE Inv'
  BY <1>1, LookupInv
<1>2. CASE Ingesting
  BY <1>2, LookupPrunedInv, FlushInv, FailInv, CommitInv DEF Ingesting, IngestProgress
<1>3. CASE ReceiveStats \/ Reporting
  BY <1>3, StatsInv
<1>4. ASSUME NEW p \in Pruners, StartPrune(p) PROVE Inv'
  BY <1>4, SelectInv
<1>5. ASSUME NEW p \in Pruners, Prune(p) PROVE Inv'
  BY <1>5, PruneFlushInv, PruneFailInv, PruneCommitInv DEF Prune, PruneProgress
<1>6. ASSUME NEW p \in Pruners, PruneTimeout(p) PROVE Inv'
  BY <1>6, PruneFailInv
<1>7. CASE Purge
  BY <1>7, PurgeInv
<1>8. CASE Tick
  BY <1>8, TickInv
<1>9. CASE IngestTimeout
  BY <1>9, FailInv
<1>10. CASE ServerCrash \/ \E p \in Scripts : ScriptCrash(p)
  BY <1>10, CrashInv
<1>11. CASE UNCHANGED vars
  BY <1>11, StutterInv
<1> QED
  BY <1>1, <1>2, <1>3, <1>4, <1>5, <1>6, <1>7, <1>8, <1>9, <1>10, <1>11 DEF Next

LEMMA Invariance == Spec => []Inv
BY InitInv, NextInv, PTL DEF Spec

-----------------------------------------------------------------------------
(* Safety.                                                                 *)

\* Every variable keeps its type; in particular only the job ever purges.
THEOREM TypeCorrect == Spec => []TypeOK
<1>1. Inv => TypeOK
  BY DEF Inv
<1> QED
  BY <1>1, Invariance, PTL

\* An installation that was ever answered 200 is in exactly one of the two
\* tables, for any number of ids, scripts, prunes, conflicts and crashes.
THEOREM EveryoneCountedOnce == Spec => []CountedOnce
<1>1. Inv => CountedOnce
  BY DEF Inv
<1> QED
  BY <1>1, Invariance, PTL

\* A writer's reads, except the ages a prune was based on, still hold when it
\* commits.
THEOREM ReadsHold == Spec => []ReadsHoldAtCommit
<1>1. Inv => ReadsHoldAtCommit
  <2> SUFFICES ASSUME Inv PROVE ReadsHoldAtCommit
    OBVIOUS
  <2>1. request.pc = "commit" =>
          /\ writer = EventLoop
          /\ request.existing <=> request.id \in Live
          /\ request.pruned <=> request.id \in pruned_installation
    <3> SUFFICES ASSUME request.pc = "commit"
                 PROVE  /\ writer = EventLoop
                        /\ request.existing <=> request.id \in Live
                        /\ request.pruned <=> request.id \in pruned_installation
      OBVIOUS
    <3>1. request # Idle
      BY DEF Idle
    <3> QED
      BY <3>1 DEF Inv, RequestInv, CountedOnce
  <2>2. ASSUME NEW p \in Pruners, prune[p].pc = "commit"
        PROVE  writer = p /\ prune[p].stale \subseteq Live \ pruned_installation
    BY <2>2 DEF Inv, PruneInv, CountedOnce
  <2> QED
    BY <2>1, <2>2 DEF ReadsHoldAtCommit
<1> QED
  BY <1>1, Invariance, PTL

-----------------------------------------------------------------------------
(* The backend implements the registry.                                    *)

\* Only the two COMMITs change who is live and who is archived.
LEMMA StepRefines ==
    ASSUME Inv, [Next]_vars
    PROVE  [Reg!RegistryNext]_<<Live, pruned_installation>>
<1> DEFINE Same == Live' = Live /\ pruned_installation' = pruned_installation
<1>1. CASE UNCHANGED tables
  BY <1>1 DEF tables, Live
<1>2. CASE IngestCommit
  <2>1. request.id \in Ids /\ Reg!CheckIn(request.id)
    BY <1>2, CommitEffect DEF Reg!CheckIn
  <2> QED
    BY <2>1 DEF Reg!RegistryNext
<1>3. ASSUME NEW p \in Pruners, PruneCommit(p)
      PROVE  Reg!RegistryNext
  <2>1. prune[p].stale \in SUBSET Ids /\ Reg!Retire(prune[p].stale)
    BY <1>3, PruneCommitEffect DEF Reg!Retire, Live
  <2> QED
    BY <2>1 DEF Reg!RegistryNext
<1>4. CASE PurgeDelete
  BY <1>4 DEF PurgeDelete, Live
<1>5. \/ UNCHANGED tables
      \/ IngestCommit
      \/ \E p \in Pruners : PruneCommit(p)
      \/ PurgeDelete
  BY DEF Next, vars, Receive, IngestLookup, Ingesting, IngestProgress,
         IngestLookupPruned, IngestFlush, IngestConflict, ReceiveStats, StatsStart,
         Reporting, StatsProgress, StatsQuery, StatsReply, StartPrune, PruneSelect,
         Prune, PruneProgress, PruneFlush, PruneConflict, PruneTimeout, PruneLocked,
         Purge, PurgeProgress, PurgeStart, Tick, IngestTimeout, IngestLocked,
         ServerCrash, ScriptCrash
<1> QED
  BY <1>1, <1>2, <1>3, <1>4, <1>5

\* Every step of the backend is a check-in, an archival or a stutter of the
\* registry: nothing is forgotten or counted twice, whatever interleaves.
THEOREM RefinesRegistry == Spec => ImplementsRegistry
<1>1. Init => Reg!RegistryInit
  BY DEF Init, DbInit, Live, Reg!RegistryInit
<1>2. Inv /\ [Next]_vars => [Reg!RegistryNext]_<<Live, pruned_installation>>
  BY StepRefines
<1> QED
  BY <1>1, <1>2, Invariance, PTL DEF Spec, ImplementsRegistry, Reg!RegistrySpec
=============================================================================
