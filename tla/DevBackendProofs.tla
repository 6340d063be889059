-------------------------- MODULE DevBackendProofs --------------------------
(***************************************************************************)
(* Theorems about DevBackend: what real installations can rely on while    *)
(* fakes are seeded and cleaned, for every set of ids, every sequence of   *)
(* seeded ones and every number of days, prunes and wipes.                 *)
(***************************************************************************)
EXTENDS DevBackend, TLAPS

LEMMA Names ==
    /\ Free \notin Pruners /\ EventLoop \notin Pruners
    /\ Free # EventLoop /\ Job \in Pruners /\ Job \notin Scripts
BY ScriptsAssumption DEF Pruners, Free, EventLoop, Job

LEMMA Days == ASSUME NEW t \in Nat PROVE DayOf(t) \in Nat
BY TicksAssumption DEF DayOf

LEMMA DaysGoBy ==
    ASSUME NEW s \in Nat, NEW t \in Nat, s <= t
    PROVE  DayOf(s) <= DayOf(t)
BY TicksAssumption DEF DayOf

LEMMA SeedsAreIds ==
    /\ SeedIds \subseteq Ids
    /\ \A count \in 1 .. Len(SeedOrder) : Seeds(count) \subseteq SeedIds
BY DevAssumption DEF SeedIds, Seeds

-----------------------------------------------------------------------------
(* The inductive invariant.                                                *)

\* Heartbeats come from real installations; what the job captured as now is
\* not in the future.
LocalInv ==
    /\ request # Idle => request.id \in Real
    /\ prune[Job].pc = "delete" => prune[Job].at \in Nat /\ prune[Job].at <= now

\* Whoever is about to COMMIT has the lock, and the row a heartbeat is about
\* to update is still there.
LockInv ==
    /\ request.pc = "commit" =>
          writer = EventLoop /\ (request.existing => request.id \in Live)
    /\ \A p \in Pruners : prune[p].pc = "commit" => writer = p

\* What a handler and a pruner know of real installations, as in Backend, as
\* long as nothing has been wiped.
KnownInv ==
    wipes = 0 =>
        /\ request # Idle =>
              /\ request.existing => request.id \in registered /\ ~request.pruned
              /\ ~request.existing => request.id \notin Live
              /\ ~request.existing /\ request.pc # "lookup" =>
                    (request.pruned <=> request.id \in pruned_installation)
              /\ request.pc = "lookup" => ~request.existing
        /\ \A p \in Pruners :
              /\ prune[p].pc \in {"flush", "commit"} =>
                    prune[p].stale \cap Real \subseteq registered
              /\ prune[p].pc = "commit" => prune[p].stale \cap Real \subseteq Live

Inv == TypeOK /\ LocalInv /\ LockInv /\ KnownInv /\ RealCountedOnce

LEMMA InitInv == Init => Inv
<1> SUFFICES ASSUME Init PROVE Inv
  OBVIOUS
<1> USE DEF Init, DbInit, IngestInit, RetentionInit, DevInit
<1>1. Live = {}
  BY DEF Live
<1>2. TypeOK
  <2>1. DbTypeOK /\ IngestTypeOK
    BY DEF DbTypeOK, IngestTypeOK
  <2>2. RetentionTypeOK
    BY DEF RetentionTypeOK, Pruners
  <2>3. DevTypeOK
    BY DevAssumption DEF DevTypeOK
  <2> QED
    BY <2>1, <2>2, <2>3 DEF TypeOK
<1>3. LocalInv /\ LockInv /\ KnownInv
  BY Names DEF LocalInv, LockInv, KnownInv, Idle, Resting
<1>4. RealCountedOnce
  BY <1>1 DEF RealCountedOnce
<1> QED
  BY <1>2, <1>3, <1>4 DEF Inv

-----------------------------------------------------------------------------
(* Its preservation.                                                       *)

LEMMA LookupInv ==
    ASSUME Inv, NEW x \in Real, NEW v \in Versions, IngestLookup(x, v),
           UNCHANGED <<prune, devVars>>
    PROVE  Inv'
<1> USE DEF IngestLookup, devVars
<1>1. Live' = Live /\ x \in Ids
  BY DEF tables, Live, Real
<1>2. TypeOK'
  <2>1. DbTypeOK' /\ RetentionTypeOK' /\ DevTypeOK'
    BY DEF Inv, TypeOK, DbTypeOK, RetentionTypeOK, DevTypeOK, tables
  <2>2. IngestTypeOK'
    BY <1>1 DEF Inv, TypeOK, DbTypeOK, IngestTypeOK, Request
  <2> QED
    BY <2>1, <2>2 DEF TypeOK
<1>3. LocalInv' /\ LockInv'
  BY <1>1 DEF Inv, LocalInv, LockInv
<1>4. KnownInv' /\ RealCountedOnce'
  BY <1>1 DEF Inv, KnownInv, RealCountedOnce, tables
<1> QED
  BY <1>2, <1>3, <1>4 DEF Inv

LEMMA LookupPrunedInv ==
    ASSUME Inv, IngestLookupPruned, UNCHANGED <<prune, devVars>>
    PROVE  Inv'
<1> USE DEF IngestLookupPruned, devVars
<1>1. Live' = Live /\ request \in Request /\ request # Idle
  BY DEF tables, Live, Inv, TypeOK, IngestTypeOK, Idle
<1> DEFINE found == request.id \in pruned_installation
<1>2. found \in BOOLEAN /\ request' = [request EXCEPT !.pc = "flush", !.pruned = found]
  OBVIOUS
<1> HIDE DEF found
<1>3. /\ request' \in Request /\ request' # Idle
      /\ request'.pc = "flush" /\ request'.id = request.id
      /\ request'.existing = request.existing /\ request'.pruned = found
  BY <1>1, <1>2 DEF Request, Idle
<1>4. TypeOK'
  <2>1. DbTypeOK' /\ RetentionTypeOK' /\ DevTypeOK' /\ registered' \subseteq Ids
    BY DEF Inv, TypeOK, DbTypeOK, IngestTypeOK, RetentionTypeOK, DevTypeOK, tables
  <2> QED
    BY <1>3, <2>1 DEF TypeOK, IngestTypeOK
<1>5. LocalInv' /\ LockInv'
  BY <1>1, <1>3 DEF Inv, LocalInv, LockInv
<1>6. RealCountedOnce'
  BY <1>1 DEF Inv, RealCountedOnce, tables
<1>7. KnownInv'
  <2>1. UNCHANGED <<installation, pruned_installation, registered, prune, wipes>>
    BY DEF tables
  <2>2. request.pc = "lookup"
    OBVIOUS
  <2> HIDE DEF IngestLookupPruned
  <2> QED
    BY <1>1, <1>3, <2>1, <2>2 DEF Inv, KnownInv, found
<1> QED
  BY <1>4, <1>5, <1>6, <1>7 DEF Inv

LEMMA FlushInv ==
    ASSUME Inv, IngestFlush, UNCHANGED <<prune, devVars>>
    PROVE  Inv'
<1> USE DEF IngestFlush, Acquire, devVars
<1>1. Live' = Live /\ request \in Request /\ request # Idle
  BY DEF tables, Live, Inv, TypeOK, IngestTypeOK, Idle
<1>2. /\ request' \in Request /\ request' # Idle
      /\ request'.pc = "commit" /\ request'.id = request.id
      /\ request'.existing = request.existing /\ request'.pruned = request.pruned
  BY <1>1 DEF Request, Idle
<1>3. TypeOK'
  <2>1. DbTypeOK' /\ RetentionTypeOK' /\ DevTypeOK' /\ registered' \subseteq Ids
    BY DEF Inv, TypeOK, DbTypeOK, IngestTypeOK, RetentionTypeOK, DevTypeOK, tables
  <2> QED
    BY <1>2, <2>1 DEF TypeOK, IngestTypeOK
<1>4. LocalInv'
  BY <1>1, <1>2 DEF Inv, LocalInv
<1>5. LockInv'
  BY <1>1, <1>2, Names DEF Inv, LockInv, Flushable
<1>6. KnownInv' /\ RealCountedOnce'
  BY <1>1, <1>2 DEF Inv, KnownInv, RealCountedOnce, tables
<1> QED
  BY <1>3, <1>4, <1>5, <1>6 DEF Inv

\* A heartbeat that fails is answered 500, and nothing is written.
LEMMA FailInv ==
    ASSUME Inv, IngestConflict \/ IngestLocked, UNCHANGED <<prune, devVars>>
    PROVE  Inv'
<1> USE DEF IngestConflict, IngestLocked, devVars
<1>1. Live' = Live /\ request' = Idle /\ Idle.pc = "idle"
  BY DEF tables, Live, Idle
<1>2. TypeOK'
  BY DEF Inv, TypeOK, DbTypeOK, IngestTypeOK, RetentionTypeOK, DevTypeOK, tables
<1>3. LocalInv' /\ LockInv'
  BY <1>1 DEF Inv, LocalInv, LockInv
<1>4. KnownInv' /\ RealCountedOnce'
  BY <1>1 DEF Inv, KnownInv, RealCountedOnce, tables
<1> QED
  BY <1>2, <1>3, <1>4 DEF Inv

\* The COMMIT makes the installation live, with a row of its type.
LEMMA CommitEffect ==
    ASSUME Inv, IngestCommit
    PROVE  /\ request \in Request /\ request.id \in Real
           /\ writer = EventLoop /\ writer' = Free /\ request' = Idle
           /\ Live' = Live \cup {request.id}
           /\ \A x \in Ids \ {request.id} : installation'[x] = installation[x]
           /\ installation'[request.id] = UpsertedRow
           /\ UpsertedRow.last = request.at /\ UpsertedRow.version = request.version
           /\ DbTypeOK'
<1> USE DEF IngestCommit, Release
<1>1. /\ request # Idle /\ request \in Request /\ request.id \in Real
      /\ request.id \in Ids
      /\ request.existing => request.id \in Live
  BY DEF Inv, TypeOK, IngestTypeOK, Idle, LocalInv, LockInv, Request
<1>2. request.existing => installation[request.id] \in Row
  BY <1>1 DEF Inv, TypeOK, DbTypeOK, Live
<1>3. /\ UpsertedRow \in Row
      /\ UpsertedRow.last = request.at /\ UpsertedRow.version = request.version
  <2>1. CASE request.existing
    BY <1>1, <1>2, <2>1 DEF UpsertedRow, Row, Request
  <2>2. CASE ~request.existing
    BY <1>1, <2>2 DEF UpsertedRow, Row, Request
  <2> QED
    BY <2>1, <2>2
<1>4. UpsertedActivity \subseteq Activity
  BY <1>1, Days DEF UpsertedActivity, Activity, Inv, TypeOK, DbTypeOK, Request
<1>5. Live' = Live \cup {request.id}
  BY <1>1, <1>3, NoRowAssumption DEF Live, Inv, TypeOK, DbTypeOK
<1>6. DbTypeOK'
  BY <1>1, <1>3, <1>4 DEF Inv, TypeOK, DbTypeOK
<1>7. /\ \A x \in Ids \ {request.id} : installation'[x] = installation[x]
      /\ installation'[request.id] = UpsertedRow
  BY <1>1 DEF Inv, TypeOK, DbTypeOK
<1> QED
  BY <1>1, <1>3, <1>5, <1>6, <1>7

LEMMA CommitInv ==
    ASSUME Inv, IngestCommit, UNCHANGED <<prune, devVars>>
    PROVE  Inv'
<1>1. /\ request \in Request /\ request.id \in Real /\ request.id \in Ids
      /\ writer = EventLoop /\ writer' = Free /\ request' = Idle
      /\ Live' = Live \cup {request.id} /\ DbTypeOK'
      /\ registered' = registered \cup {request.id} /\ now' = now
      /\ Idle.pc = "idle"
  BY CommitEffect DEF Real, IngestCommit, Idle
<1>2. UNCHANGED <<prune, dev, wipes>>
  BY DEF devVars
<1>3. TypeOK'
  BY <1>1, <1>2 DEF Inv, TypeOK, IngestTypeOK, RetentionTypeOK, DevTypeOK
<1>4. LocalInv' /\ LockInv'
  BY <1>1, <1>2, Names DEF Inv, LocalInv, LockInv
<1>5. KnownInv'
  BY <1>1, <1>2 DEF Inv, KnownInv
<1>6. RealCountedOnce'
  <2> SUFFICES ASSUME wipes = 0 PROVE RealCountedOnce'
    BY <1>2 DEF RealCountedOnce
  <2>1. request # Idle /\ request.pc = "commit"
    BY DEF IngestCommit, Idle
  <2>2. pruned_installation' = pruned_installation \ {request.id}
    <3>1. request.existing => request.id \in Live /\ ~request.pruned
      BY <2>1 DEF Inv, LockInv, KnownInv
    <3>2. ~request.existing => (request.pruned <=> request.id \in pruned_installation)
      BY <2>1 DEF Inv, KnownInv
    <3>3. request.id \in Live => request.id \notin pruned_installation
      BY <1>1 DEF Inv, RealCountedOnce
    <3> QED
      BY <3>1, <3>2, <3>3 DEF IngestCommit
  <2>3. /\ \A x \in Real : x \in registered <=> x \in Live \cup pruned_installation
        /\ \A x \in Real : ~(x \in Live /\ x \in pruned_installation)
    BY DEF Inv, RealCountedOnce
  <2> QED
    BY <1>1, <2>2, <2>3 DEF RealCountedOnce
<1> QED
  BY <1>3, <1>4, <1>5, <1>6 DEF Inv

\* A step that changes no table and at most rests a pruner, sends the job to
\* its purge, moves the tools or lets time pass.
LEMMA QuietInv ==
    ASSUME Inv,
           UNCHANGED <<tables, writer, request, registered, wipes>>,
           now' \in Nat, now <= now', DevTypeOK', RetentionTypeOK',
           \A p \in Pruners :
               prune'[p] = prune[p] \/ prune'[p].pc \notin {"flush", "commit", "delete"}
    PROVE  Inv'
<1>1. Live' = Live
  BY DEF tables, Live
<1>2. TypeOK'
  BY DEF Inv, TypeOK, DbTypeOK, IngestTypeOK, tables
<1>3. LocalInv'
  <2>1. now \in Nat
    BY DEF Inv, TypeOK, DbTypeOK
  <2>2. prune'[Job].pc = "delete" => prune'[Job] = prune[Job]
    BY Names
  <2> QED
    BY <2>1, <2>2 DEF Inv, LocalInv
<1>4. LockInv'
  BY <1>1 DEF Inv, LockInv
<1>5. KnownInv' /\ RealCountedOnce'
  BY <1>1 DEF Inv, KnownInv, RealCountedOnce, tables
<1> QED
  BY <1>2, <1>3, <1>4, <1>5 DEF Inv

LEMMA SelectInv ==
    ASSUME Inv, NEW p \in Pruners, NEW days \in Nat, PruneSelect(p, days),
           UNCHANGED <<request, registered, devVars>>
    PROVE  Inv'
<1>1. StaleAt(now, days) \subseteq Live /\ Live \subseteq Ids
  BY DEF StaleAt, Live
<1>2. /\ UNCHANGED <<now, tables, writer, request, registered, dev, wipes>>
      /\ now \in Nat /\ DevTypeOK'
  BY DEF PruneSelect, devVars, Inv, TypeOK, DbTypeOK, DevTypeOK
<1>3. CASE StaleAt(now, days) = {}
  <2>1. prune' = [prune EXCEPT ![p] = Pruned(p)]
    BY <1>3 DEF PruneSelect
  <2>2. RetentionTypeOK'
    BY <2>1, Names DEF Inv, TypeOK, RetentionTypeOK, Pruned, Pruners
  <2>3. \A q \in Pruners :
            prune'[q] = prune[q] \/ prune'[q].pc \notin {"flush", "commit", "delete"}
    BY <2>1 DEF Pruned, Resting, Inv, TypeOK, RetentionTypeOK
  <2> QED
    BY <1>2, <2>2, <2>3, QuietInv
<1>4. CASE StaleAt(now, days) # {}
  <2> DEFINE batch == [pc |-> "flush", days |-> days, stale |-> StaleAt(now, days)]
  <2>1. prune' = [prune EXCEPT ![p] = batch]
    BY <1>4 DEF PruneSelect
  <2>2. batch \in Pruning
    BY <1>1 DEF Pruning
  <2>3. /\ batch.pc = "flush"
        /\ wipes = 0 => batch.stale \cap Real \subseteq registered
    BY <1>1 DEF Inv, RealCountedOnce
  <2> HIDE DEF batch
  <2>4. Live' = Live
    BY <1>2 DEF Live, tables
  <2>5. TypeOK'
    <3>1. RetentionTypeOK'
      BY <2>1, <2>2 DEF Inv, TypeOK, RetentionTypeOK
    <3> QED
      BY <1>2, <3>1 DEF Inv, TypeOK, DbTypeOK, IngestTypeOK, tables
  <2>6. /\ prune'[p] = batch
        /\ \A q \in Pruners \ {p} : prune'[q] = prune[q]
    BY <2>1 DEF Inv, TypeOK, RetentionTypeOK
  <2>7. LocalInv' /\ LockInv'
    BY <1>2, <2>3, <2>4, <2>6, Names DEF Inv, LocalInv, LockInv
  <2>8. KnownInv' /\ RealCountedOnce'
    BY <1>2, <2>3, <2>4, <2>6 DEF Inv, KnownInv, RealCountedOnce, tables
  <2> QED
    BY <2>5, <2>7, <2>8 DEF Inv
<1> QED
  BY <1>3, <1>4

LEMMA PruneFlushInv ==
    ASSUME Inv, NEW p \in Pruners, PruneFlush(p),
           UNCHANGED <<request, registered, devVars>>
    PROVE  Inv'
<1> USE DEF PruneFlush, Acquire
<1>1. Live' = Live
  BY DEF Live, tables
<1>2. prune[p] \in Pruning
  BY DEF Inv, TypeOK, RetentionTypeOK, Purging, Resting
<1>3. TypeOK'
  <2>1. RetentionTypeOK'
    BY <1>2 DEF Inv, TypeOK, RetentionTypeOK, Pruning
  <2> QED
    BY <2>1 DEF Inv, TypeOK, DbTypeOK, IngestTypeOK, DevTypeOK, devVars, tables
<1>4. /\ prune'[p].pc = "commit" /\ prune'[p].stale = prune[p].stale
      /\ \A q \in Pruners \ {p} : prune'[q] = prune[q]
  BY <1>2 DEF Inv, TypeOK, RetentionTypeOK, Pruning
<1>5. LocalInv'
  BY <1>4, Names DEF Inv, LocalInv
<1>6. LockInv'
  BY <1>1, <1>4, Names DEF Inv, LockInv
<1>7. KnownInv' /\ RealCountedOnce'
  <2>1. wipes = 0 => prune[p].stale \cap Real \subseteq Live
    BY DEF Inv, RealCountedOnce, KnownInv
  <2>2. UNCHANGED <<installation, pruned_installation, registered, request, wipes>>
    BY DEF tables, devVars
  <2>3. prune[p].pc = "flush"
    OBVIOUS
  <2> HIDE DEF PruneFlush
  <2> QED
    BY <1>1, <1>4, <2>1, <2>2, <2>3 DEF Inv, KnownInv, RealCountedOnce
<1> QED
  BY <1>3, <1>5, <1>6, <1>7 DEF Inv

\* A batch that fails is rolled back, and the pruner rests.
LEMMA PruneFailInv ==
    ASSUME Inv, NEW p \in Pruners, PruneConflict(p) \/ PruneLocked(p),
           UNCHANGED <<request, registered, devVars>>
    PROVE  Inv'
<1>1. /\ UNCHANGED <<now, tables, writer, request, registered, dev, wipes>>
      /\ prune' = [prune EXCEPT ![p] = Resting]
  BY DEF PruneConflict, PruneLocked, devVars
<1>2. RetentionTypeOK' /\ DevTypeOK' /\ now \in Nat
  BY <1>1 DEF Inv, TypeOK, RetentionTypeOK, DbTypeOK, DevTypeOK
<1>3. \A q \in Pruners :
          prune'[q] = prune[q] \/ prune'[q].pc \notin {"flush", "commit", "delete"}
  BY <1>1 DEF Resting, Inv, TypeOK, RetentionTypeOK
<1> QED
  BY <1>1, <1>2, <1>3, QuietInv

LEMMA PruneCommitEffect ==
    ASSUME Inv, NEW p \in Pruners, PruneCommit(p)
    PROVE  /\ Live' = Live \ prune[p].stale
           /\ \A x \in Live' : installation'[x] = installation[x]
           /\ pruned_installation' = pruned_installation \cup prune[p].stale
           /\ daily_activity' = daily_activity
           /\ writer = p /\ writer' = Free
           /\ DbTypeOK'
<1> USE DEF PruneCommit, Release
<1>1. prune[p].stale \subseteq Ids
  BY DEF Inv, TypeOK, RetentionTypeOK, Pruning, Purging, Resting
<1>2. Live' = Live \ prune[p].stale /\ \A x \in Live' : installation'[x] = installation[x]
  BY DEF Live, Inv, TypeOK, DbTypeOK
<1>3. DbTypeOK'
  BY <1>1 DEF Inv, TypeOK, DbTypeOK
<1> QED
  BY <1>2, <1>3

LEMMA PruneCommitInv ==
    ASSUME Inv, NEW p \in Pruners, PruneCommit(p),
           UNCHANGED <<request, registered, devVars>>
    PROVE  Inv'
<1> DEFINE stale == prune[p].stale
<1>1. /\ Live' = Live \ stale /\ DbTypeOK' /\ writer = p /\ writer' = Free
      /\ pruned_installation' = pruned_installation \cup stale
  BY PruneCommitEffect
<1>2. /\ prune' = [prune EXCEPT ![p] = Pruned(p)]
      /\ UNCHANGED <<now, request, registered, dev, wipes>>
  BY DEF PruneCommit, devVars
<1>3. TypeOK'
  <2>1. RetentionTypeOK'
    BY <1>2, Names DEF Inv, TypeOK, RetentionTypeOK, Pruned, Pruners
  <2> QED
    BY <1>1, <1>2, <2>1 DEF Inv, TypeOK, IngestTypeOK, DevTypeOK
<1>4. /\ prune'[p].pc \notin {"flush", "commit", "delete"}
      /\ \A q \in Pruners \ {p} : prune'[q] = prune[q] /\ prune[q].pc # "commit"
      /\ request.pc # "commit"
  BY <1>1, <1>2, Names DEF Inv, TypeOK, RetentionTypeOK, Pruned, Resting, LockInv
<1>5. LocalInv' /\ LockInv'
  BY <1>2, <1>4, Names DEF Inv, LocalInv, LockInv
<1>6. ASSUME wipes = 0 PROVE KnownInv' /\ RealCountedOnce'
  <2>1. stale \cap Real \subseteq Live
    BY <1>6 DEF PruneCommit, Inv, KnownInv
  <2>2. request # Idle => request.id \in Real
    BY DEF Inv, LocalInv
  <2>3. RealCountedOnce'
    BY <1>1, <1>2, <1>6, <2>1 DEF Inv, RealCountedOnce
  <2> HIDE DEF stale
  <2>4. ASSUME request # Idle, ~request.existing
        PROVE  request.id \in pruned_installation' <=> request.id \in pruned_installation
    BY <1>1, <1>6, <2>1, <2>2, <2>4 DEF Inv, KnownInv
  <2>5. KnownInv'
    BY <1>1, <1>2, <1>4, <1>6, <2>4 DEF Inv, KnownInv
  <2> QED
    BY <2>3, <2>5
<1>7. ASSUME wipes # 0 PROVE KnownInv' /\ RealCountedOnce'
  BY <1>2, <1>7 DEF KnownInv, RealCountedOnce
<1> QED
  BY <1>3, <1>5, <1>6, <1>7 DEF Inv

\* The purge touches daily_activity only.
LEMMA PurgeStartInv ==
    ASSUME Inv, PurgeStart, UNCHANGED <<request, registered, devVars>>
    PROVE  Inv'
<1> DEFINE started == [pc |-> "delete", at |-> now]
<1>1. /\ prune' = [prune EXCEPT ![Job] = started]
      /\ UNCHANGED <<now, tables, writer, request, registered, dev, wipes>>
  BY DEF PurgeStart, devVars
<1>2. started \in Purging /\ started.pc = "delete" /\ started.at = now /\ now \in Nat
  BY DEF Inv, TypeOK, DbTypeOK, Purging
<1> HIDE DEF started
<1>3. /\ prune'[Job] = started
      /\ \A q \in Pruners \ {Job} : prune'[q] = prune[q]
  BY <1>1, Names DEF Inv, TypeOK, RetentionTypeOK
<1>4. Live' = Live
  BY <1>1 DEF tables, Live
<1>5. TypeOK'
  <2>1. RetentionTypeOK'
    BY <1>1, <1>2, Names DEF Inv, TypeOK, RetentionTypeOK, Pruners
  <2> QED
    BY <1>1, <2>1 DEF Inv, TypeOK, DbTypeOK, IngestTypeOK, DevTypeOK, tables
<1>6. LocalInv' /\ LockInv'
  BY <1>1, <1>2, <1>3, <1>4 DEF Inv, LocalInv, LockInv
<1>7. KnownInv' /\ RealCountedOnce'
  BY <1>1, <1>2, <1>3, <1>4 DEF Inv, KnownInv, RealCountedOnce, tables
<1> QED
  BY <1>5, <1>6, <1>7 DEF Inv

LEMMA PurgeDeleteInv ==
    ASSUME Inv, PurgeDelete, UNCHANGED <<request, registered, devVars>>
    PROVE  Inv'
<1>1. /\ prune' = [prune EXCEPT ![Job] = Resting]
      /\ daily_activity' \subseteq daily_activity
      /\ UNCHANGED <<now, installation, pruned_installation, writer, request,
                     registered, dev, wipes>>
  BY DEF PurgeDelete, devVars
<1>2. Live' = Live
  BY <1>1 DEF Live
<1>3. /\ prune'[Job].pc = "resting"
      /\ \A q \in Pruners \ {Job} : prune'[q] = prune[q]
  BY <1>1, Names DEF Inv, TypeOK, RetentionTypeOK, Resting
<1>4. TypeOK'
  <2>1. RetentionTypeOK'
    BY <1>1, Names DEF Inv, TypeOK, RetentionTypeOK
  <2> QED
    BY <1>1, <2>1 DEF Inv, TypeOK, DbTypeOK, IngestTypeOK, DevTypeOK
<1>5. LocalInv' /\ LockInv'
  BY <1>1, <1>2, <1>3 DEF Inv, LocalInv, LockInv
<1>6. KnownInv' /\ RealCountedOnce'
  BY <1>1, <1>2, <1>3 DEF Inv, KnownInv, RealCountedOnce
<1> QED
  BY <1>4, <1>5, <1>6 DEF Inv

\* The tools write nothing but in their two COMMITs.
LEMMA DevQuietInv ==
    ASSUME Inv,
           \/ \E count \in 1 .. Len(SeedOrder) : SeedSelect(count)
           \/ SeedCrash \/ CleanStatus \/ CleanConfirmed \/ DevQuit,
           UNCHANGED <<request, registered, prune>>
    PROVE  Inv'
<1>1. UNCHANGED <<now, tables, writer, request, registered, prune, wipes>>
  BY DEF SeedSelect, SeedCrash, CleanStatus, CleanConfirmed, DevQuit
<1>2. now \in Nat /\ RetentionTypeOK' /\ wipes' \in 0 .. MaxWipes
  BY <1>1 DEF Inv, TypeOK, DbTypeOK, RetentionTypeOK, DevTypeOK
<1>3. DevTypeOK'
  <2>1. ASSUME NEW count \in 1 .. Len(SeedOrder), SeedSelect(count)
        PROVE  DevTypeOK'
    <3>1. Seeds(count) \ Live \subseteq SeedIds
      BY SeedsAreIds
    <3> QED
      BY <1>2, <2>1, <3>1 DEF SeedSelect, DevTypeOK
  <2>2. CASE SeedCrash \/ DevQuit
    BY <1>2, <2>2 DEF SeedCrash, DevQuit, DevTypeOK
  <2>3. CASE CleanStatus
    BY <1>2, <2>3 DEF CleanStatus, DevTypeOK
  <2>4. CASE CleanConfirmed
    <3>1. dev \in [pc : {"confirm", "delete"}, script : {"--seed", "--all"}]
      BY <2>4 DEF CleanConfirmed, Inv, TypeOK, DevTypeOK, NoTool, Crashed
    <3> QED
      BY <1>2, <2>4, <3>1 DEF CleanConfirmed, DevTypeOK
  <2> QED
    BY <2>1, <2>2, <2>3, <2>4
<1> QED
  BY <1>1, <1>2, <1>3, QuietInv

\* A seed adds rows of seeded installations only.
LEMMA SeedEffect ==
    ASSUME Inv, SeedCommit
    PROVE  /\ Live' = Live \cup dev.new /\ dev.new \subseteq SeedIds
           /\ \A x \in Real : installation'[x] = installation[x]
           /\ daily_activity \subseteq daily_activity'
           /\ \A r \in daily_activity' \ daily_activity : r.id \in dev.new
           /\ DbTypeOK'
<1>1. /\ dev.new \subseteq SeedIds /\ dev.at \in Nat /\ DayOf(dev.at) \in Nat
      /\ dev.new \subseteq Ids
  BY SeedsAreIds, Days DEF SeedCommit, Inv, TypeOK, DevTypeOK, NoTool, Crashed
<1>2. PICK fake \in [dev.new -> Fakes] :
          /\ installation' = [x \in Ids |-> IF x \in dev.new THEN fake[x].row
                                            ELSE installation[x]]
          /\ daily_activity' = daily_activity \cup FakeActivity(fake)
  BY DEF SeedCommit
<1>3. \A x \in dev.new : /\ fake[x].row \in Row /\ fake[x].row # NoRow
                         /\ fake[x].row.version \in Versions
                         /\ fake[x].days \in Nat /\ fake[x].days <= DayOf(dev.at) + 1
  <2> SUFFICES ASSUME NEW x \in dev.new
               PROVE  /\ fake[x].row \in Row /\ fake[x].row # NoRow
                      /\ fake[x].row.version \in Versions
                      /\ fake[x].days \in Nat /\ fake[x].days <= DayOf(dev.at) + 1
    OBVIOUS
  <2>1. fake[x] \in Fakes
    OBVIOUS
  <2>2. /\ fake[x].row \in [first : 0 .. dev.at, last : 0 .. dev.at, version : Versions]
        /\ fake[x].days \in 1 .. MaxSeedDays /\ fake[x].days <= DayOf(dev.at) + 1
    BY <2>1 DEF Fakes
  <2>3. fake[x].row \in Row
    BY <1>1, <2>2 DEF Row
  <2> QED
    BY <2>2, <2>3, DevAssumption, NoRowAssumption
<1>4. FakeActivity(fake) \subseteq Activity /\ \A r \in FakeActivity(fake) : r.id \in dev.new
  <2> SUFFICES ASSUME NEW x \in dev.new, NEW offset \in 0 .. fake[x].days - 1
               PROVE  [id |-> x, date |-> DayOf(dev.at) - offset,
                       version |-> fake[x].row.version] \in Activity
    BY DEF FakeActivity
  <2>1. DayOf(dev.at) - offset \in Nat
    BY <1>1, <1>3
  <2> QED
    BY <1>1, <1>3, <2>1 DEF Activity
<1>5. DbTypeOK'
  <2>1. installation' \in [Ids -> Row \cup {NoRow}]
    BY <1>2, <1>3 DEF Inv, TypeOK, DbTypeOK
  <2> QED
    BY <1>2, <1>4, <2>1 DEF SeedCommit, Inv, TypeOK, DbTypeOK
<1>6. Live' = Live \cup dev.new
  BY <1>1, <1>2, <1>3 DEF Live
<1>7. \A x \in Real : installation'[x] = installation[x]
  BY <1>1, <1>2 DEF Real
<1> QED
  BY <1>1, <1>2, <1>4, <1>5, <1>6, <1>7

LEMMA SeedInv ==
    ASSUME Inv, SeedCommit, UNCHANGED <<request, registered, prune>>
    PROVE  Inv'
<1>1. /\ Live' = Live \cup dev.new /\ dev.new \cap Real = {} /\ DbTypeOK'
  BY SeedEffect DEF Real
<1>2. /\ UNCHANGED <<now, pruned_installation, writer, wipes>>
      /\ writer = Free /\ dev' = NoTool
  BY DEF SeedCommit
<1>3. TypeOK'
  BY <1>1, <1>2 DEF Inv, TypeOK, IngestTypeOK, RetentionTypeOK, DevTypeOK
<1>4. LocalInv' /\ LockInv'
  BY <1>1, <1>2 DEF Inv, LocalInv, LockInv
<1>5. KnownInv' /\ RealCountedOnce'
  BY <1>1, <1>2 DEF Inv, LocalInv, KnownInv, RealCountedOnce
<1> QED
  BY <1>3, <1>4, <1>5 DEF Inv

\* A clean takes the seeded rows, or is a confirmed wipe.
LEMMA CleanEffect ==
    ASSUME Inv, CleanDelete
    PROVE  /\ Live' \subseteq Live /\ \A x \in Live' : installation'[x] = installation[x]
           /\ daily_activity' = KeptActivity /\ daily_activity' \subseteq daily_activity
           /\ DbTypeOK'
           /\ wipes' \in Nat /\ (wipes' # 0 => wipes' \in 1 .. MaxWipes)
           /\ wipes' = 0 => wipes = 0 /\ Live' = Live \ SeedIds
           /\ \/ /\ Live' = Live \ SeedIds
                 /\ daily_activity' = {r \in daily_activity : r.id \notin SeedIds}
              \/ Live' = {} /\ daily_activity' = {}
<1>1. dev.script \in {"--seed", "--all"} /\ wipes \in 0 .. MaxWipes
  BY DEF CleanDelete, Inv, TypeOK, DevTypeOK, NoTool, Crashed
<1>2. KeptRows \subseteq Live /\ Live \subseteq Ids
  BY DEF KeptRows, Live
<1>3. Live' = KeptRows /\ \A x \in KeptRows : installation'[x] = installation[x]
  BY <1>2 DEF CleanDelete, Live
<1>4. daily_activity' = KeptActivity /\ daily_activity' \subseteq daily_activity
  BY DEF CleanDelete, KeptActivity
<1>5. DbTypeOK'
  BY <1>2, <1>4 DEF CleanDelete, Inv, TypeOK, DbTypeOK
<1>6. /\ wipes' \in Nat /\ (wipes' # 0 => wipes' \in 1 .. MaxWipes)
      /\ wipes' = 0 => wipes = 0 /\ dev.script = "--seed"
  BY <1>1, DevAssumption DEF CleanDelete
<1> QED
  BY <1>1, <1>2, <1>3, <1>4, <1>5, <1>6 DEF KeptRows, KeptActivity

LEMMA CleanInv ==
    ASSUME Inv, CleanDelete, UNCHANGED <<request, registered, prune>>
    PROVE  Inv'
<1>1. /\ UNCHANGED <<now, pruned_installation, writer>>
      /\ writer = Free /\ dev' = NoTool
  BY DEF CleanDelete
<1>2. /\ DbTypeOK' /\ wipes' \in 0 .. MaxWipes
      /\ wipes' = 0 => wipes = 0 /\ Live' = Live \ SeedIds
      /\ Live' \subseteq Live
  BY CleanEffect, DevAssumption
<1>3. TypeOK'
  BY <1>1, <1>2 DEF Inv, TypeOK, IngestTypeOK, RetentionTypeOK, DevTypeOK
<1>4. LocalInv' /\ LockInv'
  BY <1>1, Names DEF Inv, LocalInv, LockInv
<1>5. KnownInv'
  <2>1. \A p \in Pruners : prune[p].pc # "commit"
    BY <1>1, Names DEF Inv, LockInv
  <2> QED
    BY <1>1, <1>2, <2>1 DEF Inv, KnownInv
<1>6. RealCountedOnce'
  BY <1>1, <1>2 DEF Inv, RealCountedOnce, Real
<1> QED
  BY <1>3, <1>4, <1>5, <1>6 DEF Inv

LEMMA TickInv ==
    ASSUME Inv, Tick \/ UNCHANGED vars
    PROVE  Inv'
<1>1. /\ now \in Nat /\ (now' = now \/ now' = now + 1)
      /\ UNCHANGED <<tables, writer, request, registered, prune, dev, wipes>>
  BY DEF Tick, vars, devVars, Inv, TypeOK, DbTypeOK
<1>2. DevTypeOK' /\ RetentionTypeOK'
  BY <1>1 DEF Inv, TypeOK, DevTypeOK, RetentionTypeOK
<1> QED
  BY <1>1, <1>2, QuietInv

LEMMA NextInv == Inv /\ [Next]_vars => Inv'
<1> SUFFICES ASSUME Inv, [Next]_vars PROVE Inv'
  OBVIOUS
<1>1. CASE Heartbeat
  BY <1>1, LookupInv, LookupPrunedInv, FlushInv, FailInv, CommitInv
     DEF Heartbeat, IngestProgress
<1>2. ASSUME NEW p \in Pruners, StartPrune(p) PROVE Inv'
  <2>1. PICK days \in DaysOf(p) : PruneSelect(p, days)
    BY <1>2 DEF StartPrune
  <2>2. days \in Nat
    BY RetentionAssumption DEF DaysOf
  <2> QED
    BY <1>2, <2>1, <2>2, SelectInv DEF StartPrune
<1>3. ASSUME NEW p \in Pruners, Prune(p) \/ PruneTimeout(p) PROVE Inv'
  BY <1>3, PruneFlushInv, PruneFailInv, PruneCommitInv
     DEF Prune, PruneProgress, PruneTimeout
<1>4. CASE Purge
  BY <1>4, PurgeStartInv, PurgeDeleteInv DEF Purge, PurgeProgress
<1>5. CASE Develop
  BY <1>5, DevQuietInv, SeedInv, CleanInv DEF Develop, DevNext
<1>6. CASE Tick \/ UNCHANGED vars
  BY <1>6, TickInv
<1> QED
  BY <1>1, <1>2, <1>3, <1>4, <1>5, <1>6 DEF Next

LEMMA Invariance == Spec => []Inv
BY InitInv, NextInv, PTL DEF Spec

-----------------------------------------------------------------------------
(* Activity.                                                               *)

\* Every step leaves the tables alone or is one of five.
LEMMA TableSteps ==
    ASSUME [Next]_vars
    PROVE  \/ UNCHANGED tables
           \/ IngestCommit
           \/ \E p \in Pruners : PruneCommit(p)
           \/ PurgeDelete
           \/ SeedCommit
           \/ CleanDelete
BY DEF Next, vars, Heartbeat, IngestLookup, IngestProgress, IngestLookupPruned,
       IngestFlush, IngestConflict, IngestLocked, StartPrune, PruneSelect, Prune,
       PruneProgress, PruneFlush, PruneConflict, PruneTimeout, PruneLocked, Purge,
       PurgeProgress, PurgeStart, Develop, DevNext, SeedSelect, SeedCrash,
       CleanStatus, CleanConfirmed, DevQuit, Tick

LEMMA OwnedStep ==
    ASSUME Inv, ActivityOwned, [Next]_vars
    PROVE  ActivityOwned'
<1>1. CASE UNCHANGED tables
  BY <1>1 DEF ActivityOwned, tables, Live
<1>2. CASE IngestCommit
  <2>1. /\ Live' = Live \cup {request.id}
        /\ pruned_installation \ {request.id} \subseteq pruned_installation'
    BY <1>2, CommitEffect DEF IngestCommit
  <2>2. \A r \in daily_activity' : r \in daily_activity \/ r.id = request.id
    BY <1>2 DEF IngestCommit, UpsertedActivity
  <2> QED
    BY <2>1, <2>2 DEF ActivityOwned
<1>3. ASSUME NEW p \in Pruners, PruneCommit(p) PROVE ActivityOwned'
  BY <1>3, PruneCommitEffect DEF ActivityOwned
<1>4. CASE PurgeDelete
  BY <1>4 DEF PurgeDelete, ActivityOwned, Live
<1>5. CASE SeedCommit
  BY <1>5, SeedEffect DEF SeedCommit, ActivityOwned
<1>6. CASE CleanDelete
  <2>1. pruned_installation' = pruned_installation
    BY <1>6 DEF CleanDelete
  <2> QED
    BY <1>6, <2>1, CleanEffect DEF ActivityOwned
<1> QED
  BY <1>1, <1>2, <1>3, <1>4, <1>5, <1>6, TableSteps

Snapshot(x) == [id |-> x, date |-> DayOf(installation[x].last),
                version |-> installation[x].version]

LEMMA SnapshotFacts ==
    ASSUME Inv, NEW x \in Live
    PROVE  /\ Snapshot(x).id = x
           /\ Snapshot(x).date = DayOf(installation[x].last)
           /\ DayOf(installation[x].last) \in Nat
           /\ DayOf(now) \in Nat /\ KeepDays \in Nat
<1>1. installation[x].last \in Nat /\ now \in Nat
  BY DEF Inv, TypeOK, DbTypeOK, Live, Row
<1> QED
  BY <1>1, Days, RetentionAssumption DEF Snapshot

\* A real installation that is live before and after a step with the same row
\* keeps its snapshot if the step keeps that row of daily_activity.
LEMMA SameSnapshot ==
    ASSUME RealSnapshotCurrent, NEW x \in Real \cap Live,
           installation'[x] = installation[x], now' = now,
           Snapshot(x) \in daily_activity /\ DayOf(installation[x].last) + KeepDays >= DayOf(now)
              => Snapshot(x) \in daily_activity'
    PROVE  DayOf(installation'[x].last) + KeepDays >= DayOf(now') =>
              Snapshot(x)' \in daily_activity'
<1>1. DayOf(installation[x].last) + KeepDays >= DayOf(now) => Snapshot(x) \in daily_activity
  BY DEF RealSnapshotCurrent, Snapshot
<1>2. Snapshot(x)' = Snapshot(x)
  BY DEF Snapshot
<1> QED
  BY <1>1, <1>2

\* The purge takes only days it does not have to keep.
LEMMA PurgeKeeps ==
    ASSUME Inv, PurgeDelete, NEW r \in daily_activity,
           r.date + KeepDays >= DayOf(now)
    PROVE  r \in daily_activity'
<1> DEFINE at == prune[Job].at
<1>1. at \in Nat /\ now \in Nat /\ at <= now
  BY DEF PurgeDelete, Inv, LocalInv, TypeOK, DbTypeOK
<1>2. DayOf(at) \in Nat /\ DayOf(now) \in Nat /\ DayOf(at) <= DayOf(now)
  BY <1>1, Days, DaysGoBy
<1>3. r.date \in Nat /\ KeepDays \in Nat
  BY RetentionAssumption DEF Inv, TypeOK, DbTypeOK, Activity
<1>4. ~Expired(r, at)
  BY <1>2, <1>3 DEF Expired, DatedWithin
<1> QED
  BY <1>4 DEF PurgeDelete

LEMMA SnapshotStep ==
    ASSUME Inv, RealSnapshotCurrent, [Next]_vars
    PROVE  RealSnapshotCurrent'
<1> SUFFICES ASSUME NEW x \in Real, x \in Live'
             PROVE  DayOf(installation'[x].last) + KeepDays >= DayOf(now') =>
                       Snapshot(x)' \in daily_activity'
  BY DEF RealSnapshotCurrent, Snapshot, Real
<1>1. CASE UNCHANGED tables
  <2>1. /\ now \in Nat /\ (now' = now \/ now' = now + 1)
        /\ x \in Live /\ UNCHANGED <<installation, daily_activity>>
    <3>1. now' = now \/ now' = now + 1
      BY DEF Next, vars, Heartbeat, IngestLookup, IngestProgress, IngestLookupPruned,
             IngestFlush, IngestConflict, IngestCommit, IngestLocked, StartPrune,
             PruneSelect, Prune, PruneProgress, PruneFlush, PruneConflict,
             PruneCommit, PruneTimeout, PruneLocked, Purge, PurgeProgress,
             PurgeStart, PurgeDelete, Develop, DevNext, SeedSelect, SeedCommit,
             SeedCrash, CleanStatus, CleanConfirmed, CleanDelete, DevQuit, Tick
    <3> QED
      BY <1>1, <3>1 DEF tables, Live, Inv, TypeOK, DbTypeOK
  <2>2. DayOf(now) \in Nat /\ DayOf(now') \in Nat /\ DayOf(now) <= DayOf(now')
    BY <2>1, Days, DaysGoBy
  <2>3. DayOf(installation[x].last) \in Nat /\ KeepDays \in Nat
    BY <2>1, SnapshotFacts
  <2>4. DayOf(installation[x].last) + KeepDays >= DayOf(now) => Snapshot(x) \in daily_activity
    BY <2>1 DEF RealSnapshotCurrent, Snapshot
  <2>5. Snapshot(x)' = Snapshot(x)
    BY <2>1 DEF Snapshot
  <2> QED
    BY <2>1, <2>2, <2>3, <2>4, <2>5
<1>2. CASE IngestCommit
  <2> DEFINE new == [id |-> request.id, date |-> DayOf(request.at),
                     version |-> request.version]
  <2>1. daily_activity' = {r \in daily_activity :
              ~(r.id = request.id /\ r.date = DayOf(request.at))} \cup {new}
    BY <1>2 DEF IngestCommit, UpsertedActivity
  <2>2. CASE x = request.id
    <3>1. Snapshot(x)' = new
      BY <1>2, <2>2, CommitEffect DEF Snapshot
    <3> QED
      BY <2>1, <3>1
  <2>3. CASE x # request.id
    <3>1. x \in Live /\ installation'[x] = installation[x] /\ now' = now
      BY <1>2, <2>3, CommitEffect DEF IngestCommit, Real
    <3>2. Snapshot(x) \in daily_activity => Snapshot(x) \in daily_activity'
      BY <2>1, <2>3, <3>1, SnapshotFacts
    <3> QED
      BY <3>1, <3>2, SameSnapshot
  <2> QED
    BY <2>2, <2>3
<1>3. ASSUME NEW p \in Pruners, PruneCommit(p)
      PROVE  DayOf(installation'[x].last) + KeepDays >= DayOf(now') =>
                Snapshot(x)' \in daily_activity'
  <2>1. /\ x \in Live /\ installation'[x] = installation[x]
        /\ now' = now /\ daily_activity' = daily_activity
    BY <1>3, PruneCommitEffect DEF PruneCommit
  <2> QED
    BY <2>1, SameSnapshot
<1>4. CASE PurgeDelete
  <2>1. x \in Live /\ UNCHANGED <<now, installation>>
    BY <1>4 DEF PurgeDelete, Live
  <2>2. Snapshot(x).date = DayOf(installation[x].last)
    BY <2>1, SnapshotFacts
  <2> QED
    BY <1>4, <2>1, <2>2, PurgeKeeps, SameSnapshot
<1>5. CASE SeedCommit
  <2>1. /\ x \in Live /\ installation'[x] = installation[x]
        /\ daily_activity \subseteq daily_activity'
    BY <1>5, SeedEffect DEF Real
  <2>2. now' = now
    BY <1>5 DEF SeedCommit
  <2> QED
    BY <2>1, <2>2, SameSnapshot
<1>6. CASE CleanDelete
  <2>1. /\ x \in Live /\ installation'[x] = installation[x]
        /\ daily_activity' = {r \in daily_activity : r.id \notin SeedIds}
    BY <1>6, CleanEffect
  <2>2. now' = now
    BY <1>6 DEF CleanDelete
  <2>3. Snapshot(x) \in daily_activity => Snapshot(x) \in daily_activity'
    BY <2>1, SnapshotFacts DEF Real
  <2> QED
    BY <2>1, <2>2, <2>3, SameSnapshot
<1> QED
  BY <1>1, <1>2, <1>3, <1>4, <1>5, <1>6, TableSteps

-----------------------------------------------------------------------------
(* Safety.                                                                 *)

\* Every variable keeps its type while the tools work on the database too.
THEOREM DevTypeCorrect == Spec => []TypeOK
<1>1. Inv => TypeOK
  BY DEF Inv
<1> QED
  BY <1>1, Invariance, PTL

\* Whatever is seeded and cleaned meanwhile, a real installation is counted in
\* exactly one of the two tables until somebody confirms a wipe.
THEOREM RealsCounted == Spec => []RealCountedOnce
<1>1. Inv => RealCountedOnce
  BY DEF Inv
<1> QED
  BY <1>1, Invariance, PTL

\* The daily counts never show somebody the total does not have, wipes or not.
THEOREM ActivityHasOwner == Spec => []ActivityOwned
<1>1. Init => ActivityOwned
  BY DEF Init, DbInit, ActivityOwned
<1>2. Inv /\ ActivityOwned /\ [Next]_vars => ActivityOwned'
  BY OwnedStep
<1> QED
  BY <1>1, <1>2, Invariance, PTL DEF Spec

\* Seeding and cleaning leave a real installation the activity of its last
\* day as long as the purge keeps it.
THEOREM RealActivityKept == Spec => []RealSnapshotCurrent
<1>1. Init => RealSnapshotCurrent
  BY DEF Init, DbInit, RealSnapshotCurrent, Live
<1>2. Inv /\ RealSnapshotCurrent /\ [Next]_vars => RealSnapshotCurrent'
  BY SnapshotStep
<1> QED
  BY <1>1, <1>2, Invariance, PTL DEF Spec
=============================================================================
