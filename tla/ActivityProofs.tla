--------------------------- MODULE ActivityProofs ---------------------------
(***************************************************************************)
(* Theorems about the daily activity of Backend: what the charts by day    *)
(* show agrees with the installation table and is not purged too early.    *)
(***************************************************************************)
EXTENDS BackendProofs

-----------------------------------------------------------------------------
(* Days.                                                                   *)

\* The calendar does not run backwards.
LEMMA DayMonotone ==
    ASSUME NEW s \in Nat, NEW t \in Nat, s <= t
    PROVE  DayOf(s) <= DayOf(t)
BY TicksAssumption DEF DayOf

-----------------------------------------------------------------------------
(* The inductive invariant.                                                *)

\* What the handler and the job captured as now is not in the future.
ClockInv ==
    /\ request # Idle => request.at <= now
    /\ prune[Job].pc = "delete" => prune[Job].at \in Nat /\ prune[Job].at <= now

\* No activity is dated later than the day of the request in progress: only
\* requests write activity, one after the other.
DateInv ==
    \A r \in daily_activity :
        /\ r.date <= DayOf(now)
        /\ request # Idle => r.date <= DayOf(request.at)

Snapshot(x) == [id |-> x, date |-> DayOf(installation[x].last),
                version |-> installation[x].version]

\* From its last day on a live installation has no activity but its snapshot,
\* and it has that as long as the purge keeps the day.
SnapshotInv ==
    \A x \in Live :
        /\ \A r \in daily_activity :
              r.id = x /\ r.date >= DayOf(installation[x].last) => r = Snapshot(x)
        /\ DayOf(installation[x].last) + KeepDays >= DayOf(now) =>
              Snapshot(x) \in daily_activity

ActivityInv == ClockInv /\ DateInv /\ SnapshotInv

LEMMA ActivityInit == Init => ActivityInv
BY DEF Init, DbInit, IngestInit, RetentionInit, Pruners, Resting, ActivityInv,
       ClockInv, DateInv, SnapshotInv, Live

-----------------------------------------------------------------------------
(* Its preservation.                                                       *)

LEMMA RowFacts ==
    ASSUME TypeOK, NEW x \in Live
    PROVE  /\ x \in Ids /\ installation[x] \in Row
           /\ installation[x].last \in Nat
           /\ DayOf(installation[x].last) \in Nat
<1>1. x \in Ids /\ installation[x] \in Row
  BY DEF TypeOK, DbTypeOK, Live
<1>2. installation[x].last \in Nat
  BY <1>1 DEF Row
<1> QED
  BY <1>1, <1>2, DayType

LEMMA DateFacts ==
    ASSUME TypeOK, NEW r \in daily_activity
    PROVE  r.id \in Ids /\ r.date \in Nat /\ r.version \in Versions
BY DEF TypeOK, DbTypeOK, Activity

\* Every step either leaves the tables alone or is one of three.
LEMMA TableSteps ==
    ASSUME [Next]_vars
    PROVE  \/ UNCHANGED tables
           \/ IngestCommit
           \/ \E p \in Pruners : PruneCommit(p)
           \/ PurgeDelete
BY DEF Next, vars, Receive, IngestLookup, Ingesting, IngestProgress,
       IngestLookupPruned, IngestFlush, IngestConflict, ReceiveStats, StatsStart,
       Reporting, StatsProgress, StatsQuery, StatsReply, StartPrune, PruneSelect,
       Prune, PruneProgress, PruneFlush, PruneConflict, PruneTimeout, PruneLocked,
       Purge, PurgeProgress, PurgeStart, Tick, IngestTimeout, IngestLocked,
       ServerCrash, ScriptCrash

\* The clock goes on, and what is captured is captured now.
LEMMA ClockSteps ==
    ASSUME TypeOK, [Next]_vars
    PROVE  /\ now' = now \/ now' = now + 1
           /\ request' # Idle =>
                 \/ request # Idle /\ request'.at = request.at
                 \/ request'.at = now /\ now' = now
<1>r. request \in Request \/ request = Idle
  BY DEF TypeOK, IngestTypeOK
<1>1. now' = now \/ now' = now + 1
  BY DEF Next, vars, Receive, IngestLookup, Ingesting, IngestProgress,
       IngestLookupPruned, IngestFlush, IngestConflict, IngestCommit, ReceiveStats, StatsStart,
       Reporting, StatsProgress, StatsQuery, StatsReply, StartPrune, PruneSelect,
       Prune, PruneProgress, PruneFlush, PruneConflict, PruneCommit, PruneTimeout, PruneLocked,
       Purge, PurgeProgress, PurgeStart, PurgeDelete, Tick, IngestTimeout, IngestLocked,
       ServerCrash, ScriptCrash
<1>2. \/ UNCHANGED request
      \/ request' = Idle
      \/ \E x \in Ids, v \in Versions : IngestLookup(x, v)
      \/ IngestLookupPruned
      \/ IngestFlush
  BY DEF Next, vars, Receive, Ingesting, IngestProgress,
       IngestConflict, IngestCommit, ReceiveStats,
       Reporting, StartPrune, Prune, PruneTimeout, Purge, Tick, IngestTimeout, IngestLocked,
       ServerCrash, ScriptCrash
<1>3. ASSUME NEW x \in Ids, NEW v \in Versions, IngestLookup(x, v)
      PROVE  request'.at = now /\ now' = now
  BY <1>3 DEF IngestLookup
<1>4. ASSUME IngestLookupPruned \/ IngestFlush
      PROVE  request # Idle /\ request'.at = request.at
  <2>1. request # Idle
    BY <1>4 DEF IngestLookupPruned, IngestFlush, Idle
  <2>2. request \in Request
    BY <2>1, <1>r
  <2> QED
    BY <2>1, <2>2, <1>4 DEF IngestLookupPruned, IngestFlush, Request
<1> QED
  BY <1>1, <1>2, <1>3, <1>4

LEMMA PurgeClock ==
    ASSUME TypeOK, ClockInv, [Next]_vars, prune'[Job].pc = "delete"
    PROVE  prune'[Job].at \in Nat /\ prune'[Job].at <= now'
<1>p. prune \in [Pruners -> Pruning \cup Purging \cup {Resting, [pc |-> "purge"]}]
  BY DEF TypeOK, RetentionTypeOK
<1>n. now \in Nat /\ Job \in Pruners /\ (now' = now \/ now' = now + 1)
  BY ClockSteps, Names DEF TypeOK, DbTypeOK
<1>1. ASSUME prune'[Job] = prune[Job]
      PROVE  prune'[Job].at \in Nat /\ prune'[Job].at <= now'
  BY <1>1, <1>n DEF ClockInv
<1>2. CASE UNCHANGED prune
  BY <1>1, <1>2
<1>3. ASSUME NEW p \in Pruners, StartPrune(p)
      PROVE  prune'[Job] = prune[Job]
  BY <1>p, <1>3, <1>n DEF StartPrune, PruneSelect, Pruned, Resting
<1>4. ASSUME NEW p \in Pruners, Prune(p) \/ PruneTimeout(p)
      PROVE  prune'[Job] = prune[Job]
  <2>1. CASE PruneFlush(p)
    BY <1>p, <2>1, <1>n DEF PruneFlush, Pruning
  <2>2. CASE prune' = [prune EXCEPT ![p] = Resting]
    BY <1>p, <2>2, <1>n DEF Resting
  <2>3. CASE PruneCommit(p)
    BY <1>p, <2>3, <1>n DEF PruneCommit, Pruned, Resting
  <2> QED
    BY <1>4, <2>1, <2>2, <2>3 DEF Prune, PruneProgress, PruneConflict, PruneTimeout, PruneLocked
<1>5. CASE PurgeStart
  <2>1. prune'[Job].at = now /\ now' = now
    BY <1>p, <1>n, <1>5 DEF PurgeStart
  <2> QED
    BY <2>1, <1>n
<1>6. CASE PurgeDelete
  BY <1>p, <1>n, <1>6 DEF PurgeDelete, Resting
<1>7. CASE ServerCrash
  BY <1>p, <1>n, <1>7 DEF ServerCrash, Resting
<1>8. ASSUME NEW p \in Scripts, ScriptCrash(p) PROVE prune'[Job] = prune[Job]
  BY <1>p, <1>n, <1>8, Names DEF ScriptCrash
<1>9. \/ UNCHANGED prune
      \/ \E p \in Pruners : StartPrune(p) \/ Prune(p) \/ PruneTimeout(p)
      \/ PurgeStart \/ PurgeDelete \/ ServerCrash
      \/ \E p \in Scripts : ScriptCrash(p)
  BY DEF Next, vars, Receive, Ingesting, ReceiveStats, Reporting, Purge,
         PurgeProgress, Tick, IngestTimeout
<1> QED
  BY <1>1, <1>2, <1>3, <1>4, <1>5, <1>6, <1>7, <1>8, <1>9

LEMMA ClockNext ==
    ASSUME TypeOK, ClockInv, [Next]_vars
    PROVE  ClockInv'
<1>1. now \in Nat /\ (request # Idle => request.at \in Nat)
  BY DEF TypeOK, DbTypeOK, IngestTypeOK, Request
<1>2. request' # Idle => request'.at <= now'
  BY <1>1, ClockSteps DEF ClockInv
<1> QED
  BY <1>2, PurgeClock DEF ClockInv

\* Days already captured never come to lie in the future.
LEMMA CapturedDays ==
    ASSUME TypeOK, ClockInv, DateInv, [Next]_vars,
           NEW r \in daily_activity
    PROVE  /\ r.date <= DayOf(now')
           /\ request' # Idle => r.date <= DayOf(request'.at)
<1>1. /\ now \in Nat /\ now' \in Nat /\ now <= now'
      /\ request # Idle => request.at \in Nat
  BY ClockSteps DEF TypeOK, DbTypeOK, IngestTypeOK, Request
<1>2. DayOf(now) \in Nat /\ DayOf(now') \in Nat /\ DayOf(now) <= DayOf(now')
  BY <1>1, DayType, DayMonotone
<1>3. r.date \in Nat /\ r.date <= DayOf(now)
  BY DateFacts DEF DateInv
<1>4. ASSUME request' # Idle PROVE r.date <= DayOf(request'.at)
  <2>1. CASE request # Idle /\ request'.at = request.at
    BY <2>1 DEF DateInv
  <2>2. CASE request'.at = now
    BY <1>3, <2>2
  <2> QED
    BY <1>4, <2>1, <2>2, ClockSteps
<1> QED
  BY <1>2, <1>3, <1>4

\* The COMMIT of a heartbeat: one row, one snapshot.
LEMMA CommitActivity ==
    ASSUME Inv, ActivityInv, IngestCommit
    PROVE  /\ request.id \in Ids /\ request.at \in Nat
           /\ Live' = Live \cup {request.id}
           /\ installation'[request.id].last = request.at
           /\ installation'[request.id].version = request.version
           /\ \A x \in Ids \ {request.id} : installation'[x] = installation[x]
           /\ daily_activity' = UpsertedActivity
           /\ request' = Idle /\ now' = now
<1>1. request # Idle /\ request \in Request
  BY DEF IngestCommit, Idle, Inv, TypeOK, IngestTypeOK
<1>2. request.id \in Ids /\ Live' = Live \cup {request.id}
  BY CommitEffect
<1>3. installation' = [installation EXCEPT ![request.id] = UpsertedRow]
  BY DEF IngestCommit
<1>4. DOMAIN installation = Ids
  BY DEF Inv, TypeOK, DbTypeOK
<1>5. request.existing => installation[request.id] \in Row
  <2>1. request.existing => request.id \in Live
    BY <1>1 DEF Inv, RequestInv, IngestCommit
  <2> QED
    BY <2>1, RowFacts DEF Inv
<1>6. UpsertedRow.last = request.at /\ UpsertedRow.version = request.version
  BY <1>5 DEF UpsertedRow, Row
<1> QED
  BY <1>1, <1>2, <1>3, <1>4, <1>6 DEF IngestCommit, Request

LEMMA CommitActivityInv ==
    ASSUME Inv, ActivityInv, IngestCommit
    PROVE  DateInv' /\ SnapshotInv'
<1> DEFINE today == DayOf(request.at)
           new == [id |-> request.id, date |-> today, version |-> request.version]
<1>1. /\ request # Idle
      /\ request.at \in Nat /\ now \in Nat /\ request.at <= now
      /\ today \in Nat /\ DayOf(now) \in Nat /\ today <= DayOf(now)
  <2>1. request # Idle
    BY DEF IngestCommit, Idle
  <2>2. request.at \in Nat /\ now \in Nat /\ request.at <= now
    BY <2>1, CommitActivity DEF Inv, TypeOK, DbTypeOK, ActivityInv, ClockInv
  <2> QED
    BY <2>1, <2>2, DayType, DayMonotone
<1>2. /\ daily_activity' = {r \in daily_activity :
                              ~(r.id = request.id /\ r.date = today)} \cup {new}
      /\ request' = Idle /\ now' = now
  BY CommitActivity DEF UpsertedActivity
<1>3. \A r \in daily_activity : r.date \in Nat /\ r.date <= today
  BY <1>1, DateFacts DEF Inv, ActivityInv, DateInv
<1>4. new.id = request.id /\ new.date = today /\ new.version = request.version
  OBVIOUS
<1> HIDE DEF new, today
<1>5. DateInv'
  <2>1. \A r \in daily_activity' : r.date <= DayOf(now)
    BY <1>1, <1>2, <1>3, <1>4
  <2> QED
    BY <1>2, <2>1 DEF DateInv
<1>6. ASSUME NEW x \in Live'
      PROVE  /\ \A r \in daily_activity' :
                   r.id = x /\ r.date >= DayOf(installation'[x].last) => r = Snapshot(x)'
             /\ DayOf(installation'[x].last) + KeepDays >= DayOf(now') =>
                   Snapshot(x)' \in daily_activity'
  <2>1. CASE x = request.id
    <3>1. DayOf(installation'[x].last) = today /\ Snapshot(x)' = new
      BY <2>1, CommitActivity DEF Snapshot, new, today
    <3>2. \A r \in daily_activity : r.date >= today => r.date = today
      BY <1>1, <1>3
    <3> QED
      BY <1>2, <2>1, <3>1, <3>2
  <2>2. CASE x # request.id
    <3>1. x \in Live /\ x \in Ids /\ installation'[x] = installation[x]
      BY <2>2, CommitActivity DEF Live
    <3>2. Snapshot(x)' = Snapshot(x) /\ Snapshot(x).id = x
      BY <3>1 DEF Snapshot
    <3>3. \A r : r.id = x => (r \in daily_activity' <=> r \in daily_activity)
      BY <1>2, <1>4, <2>2
    <3> QED
      BY <1>2, <3>1, <3>2, <3>3 DEF ActivityInv, SnapshotInv
  <2> QED
    BY <2>1, <2>2
<1>7. SnapshotInv'
  BY <1>6 DEF SnapshotInv
<1> QED
  BY <1>5, <1>7

\* What a prune archives is no longer live; activity stays.
LEMMA PruneActivityInv ==
    ASSUME Inv, ActivityInv, NEW p \in Pruners, PruneCommit(p), [Next]_vars
    PROVE  DateInv' /\ SnapshotInv'
<1>1. daily_activity' = daily_activity /\ now' = now
  BY DEF PruneCommit
<1>2. DateInv'
  BY <1>1, CapturedDays DEF DateInv, Inv, ActivityInv
<1>3. ASSUME NEW x \in Live'
      PROVE  x \in Live /\ installation'[x] = installation[x]
  BY <1>3 DEF PruneCommit, Live
<1>4. \A x \in Live' : Snapshot(x)' = Snapshot(x)
  BY <1>3 DEF Snapshot
<1>5. SnapshotInv'
  BY <1>1, <1>3, <1>4 DEF SnapshotInv, ActivityInv
<1> QED
  BY <1>2, <1>5

\* The purge takes only days it does not have to keep.
LEMMA PurgeKeeps ==
    ASSUME Inv, ActivityInv, PurgeDelete, NEW r \in daily_activity,
           r.date + KeepDays >= DayOf(now)
    PROVE  r \in daily_activity'
<1> DEFINE at == prune[Job].at
<1>1. at \in Nat /\ now \in Nat /\ at <= now
  BY DEF PurgeDelete, ActivityInv, ClockInv, Inv, TypeOK, DbTypeOK
<1>2. DayOf(at) \in Nat /\ DayOf(now) \in Nat /\ DayOf(at) <= DayOf(now)
  BY <1>1, DayType, DayMonotone
<1>3. r.date \in Nat /\ KeepDays \in Nat
  BY DateFacts, RetentionAssumption DEF Inv
<1>4. ~Expired(r, at)
  BY <1>2, <1>3 DEF Expired, DatedWithin
<1> QED
  BY <1>4 DEF PurgeDelete

LEMMA PurgeActivityInv ==
    ASSUME Inv, ActivityInv, PurgeDelete, [Next]_vars
    PROVE  DateInv' /\ SnapshotInv'
<1>1. /\ daily_activity' \subseteq daily_activity
      /\ UNCHANGED <<now, installation>>
  BY DEF PurgeDelete
<1>2. DateInv'
  BY <1>1, CapturedDays DEF DateInv, Inv, ActivityInv
<1>3. Live' = Live /\ \A x \in Live : Snapshot(x)' = Snapshot(x)
  BY <1>1 DEF Live, Snapshot
<1>4. ASSUME NEW x \in Live,
             DayOf(installation[x].last) + KeepDays >= DayOf(now)
      PROVE  Snapshot(x) \in daily_activity'
  <2>1. Snapshot(x) \in daily_activity
    BY <1>4 DEF ActivityInv, SnapshotInv
  <2>2. Snapshot(x).date = DayOf(installation[x].last)
    BY DEF Snapshot
  <2> QED
    BY <1>4, <2>1, <2>2, PurgeKeeps
<1>5. SnapshotInv'
  BY <1>1, <1>3, <1>4 DEF SnapshotInv, ActivityInv
<1> QED
  BY <1>2, <1>5

\* While the tables stay, days only go by.
LEMMA QuietActivityInv ==
    ASSUME Inv, ActivityInv, UNCHANGED tables, [Next]_vars
    PROVE  DateInv' /\ SnapshotInv'
<1>1. UNCHANGED <<installation, daily_activity>>
  BY DEF tables
<1>2. DateInv'
  BY <1>1, CapturedDays DEF DateInv, Inv, ActivityInv
<1>3. /\ now \in Nat /\ now' \in Nat /\ now <= now'
  BY ClockSteps DEF Inv, TypeOK, DbTypeOK
<1>4. DayOf(now) \in Nat /\ DayOf(now') \in Nat /\ DayOf(now) <= DayOf(now')
  BY <1>3, DayType, DayMonotone
<1>5. Live' = Live /\ \A x \in Live : Snapshot(x)' = Snapshot(x)
  BY <1>1 DEF Live, Snapshot
<1>6. ASSUME NEW x \in Live,
             DayOf(installation[x].last) + KeepDays >= DayOf(now')
      PROVE  Snapshot(x) \in daily_activity
  <2>1. DayOf(installation[x].last) \in Nat /\ KeepDays \in Nat
    BY RowFacts, RetentionAssumption DEF Inv
  <2>2. DayOf(installation[x].last) + KeepDays >= DayOf(now)
    BY <1>4, <1>6, <2>1
  <2> QED
    BY <2>2 DEF ActivityInv, SnapshotInv
<1>7. SnapshotInv'
  BY <1>1, <1>5, <1>6 DEF SnapshotInv, ActivityInv
<1> QED
  BY <1>2, <1>7

LEMMA ActivityNext ==
    ASSUME Inv, ActivityInv, [Next]_vars
    PROVE  ActivityInv'
<1>1. ClockInv'
  BY ClockNext DEF Inv, ActivityInv
<1>2. DateInv' /\ SnapshotInv'
  BY TableSteps, CommitActivityInv, PruneActivityInv, PurgeActivityInv, QuietActivityInv
<1> QED
  BY <1>1, <1>2 DEF ActivityInv

LEMMA ActivityInvariance == Spec => []ActivityInv
<1>1. Inv /\ ActivityInv /\ [Next]_vars => ActivityInv'
  BY ActivityNext
<1> QED
  BY <1>1, ActivityInit, Invariance, PTL DEF Spec

-----------------------------------------------------------------------------
(* Safety.                                                                 *)

\* As far as the charts reach, an installation's newest activity is of the
\* day and version of its row, and the only one of that day or later: a
\* purge between any two steps of anybody else does not change that.
THEOREM ActivityAgrees == Spec => []SnapshotCurrent
<1>1. Inv /\ ActivityInv => SnapshotCurrent
  <2> SUFFICES ASSUME Inv, ActivityInv, NEW x \in Live,
                      DayOf(installation[x].last) + MonthDays >= DayOf(now)
               PROVE  {r \in daily_activity :
                         r.id = x /\ r.date >= DayOf(installation[x].last)}
                        = {Snapshot(x)}
    BY DEF SnapshotCurrent, Snapshot
  <2>1. /\ DayOf(installation[x].last) \in Nat /\ DayOf(now) \in Nat
        /\ MonthDays \in Nat /\ KeepDays \in Nat /\ MonthDays <= KeepDays
    BY RowFacts, DayType, StatsAssumption, RetentionAssumption, BackendAssumption
       DEF Inv, TypeOK, DbTypeOK
  <2>2. DayOf(installation[x].last) + KeepDays >= DayOf(now)
    BY <2>1
  <2>3. Snapshot(x) \in daily_activity
    BY <2>2 DEF ActivityInv, SnapshotInv
  <2>4. Snapshot(x).id = x /\ Snapshot(x).date = DayOf(installation[x].last)
    BY DEF Snapshot
  <2>5. Snapshot(x).date >= DayOf(installation[x].last)
    BY <2>1, <2>4
  <2>6. \A r \in daily_activity :
           r.id = x /\ r.date >= DayOf(installation[x].last) => r = Snapshot(x)
    BY DEF ActivityInv, SnapshotInv
  <2> QED
    BY <2>3, <2>4, <2>5, <2>6
<1> QED
  BY <1>1, Invariance, ActivityInvariance, PTL

\* No step deletes a day's record that the charts still show, unless it
\* replaces it by a newer one of the same day.
THEOREM WindowKept == Spec => PurgeKeepsWindow
<1> DEFINE Kept == \A r \in daily_activity :
                      DatedWithin(r, MonthDays, now) =>
                         \E s \in daily_activity' : s.id = r.id /\ s.date = r.date
<1>1. Inv /\ ActivityInv /\ [Next]_vars => [Kept]_vars
  <2> SUFFICES ASSUME Inv, ActivityInv, [Next]_vars,
                      NEW r \in daily_activity, DatedWithin(r, MonthDays, now)
               PROVE  \E s \in daily_activity' : s.id = r.id /\ s.date = r.date
    OBVIOUS
  <2>1. CASE UNCHANGED tables
    BY <2>1 DEF tables
  <2>2. CASE IngestCommit
    <3> DEFINE new == [id |-> request.id, date |-> DayOf(request.at),
                       version |-> request.version]
    <3>1. daily_activity' = {a \in daily_activity :
              ~(a.id = request.id /\ a.date = DayOf(request.at))} \cup {new}
      BY <2>2 DEF IngestCommit, UpsertedActivity
    <3>2. CASE r.id = request.id /\ r.date = DayOf(request.at)
      <4>1. new \in daily_activity' /\ new.id = r.id /\ new.date = r.date
        BY <3>1, <3>2
      <4> QED
        BY <4>1
    <3>3. CASE ~(r.id = request.id /\ r.date = DayOf(request.at))
      BY <3>1, <3>3
    <3> QED
      BY <3>2, <3>3
  <2>3. CASE \E p \in Pruners : PruneCommit(p)
    BY <2>3 DEF PruneCommit
  <2>4. CASE PurgeDelete
    <3>1. /\ r.date \in Nat /\ DayOf(now) \in Nat
          /\ MonthDays \in Nat /\ KeepDays \in Nat /\ MonthDays <= KeepDays
      BY DateFacts, DayType, StatsAssumption, RetentionAssumption, BackendAssumption
         DEF Inv, TypeOK, DbTypeOK
    <3>2. r.date + KeepDays >= DayOf(now)
      BY <3>1 DEF DatedWithin
    <3> QED
      BY <2>4, <3>2, PurgeKeeps
  <2> QED
    BY <2>1, <2>2, <2>3, <2>4, TableSteps
<1> QED
  BY <1>1, Invariance, ActivityInvariance, PTL DEF Spec, PurgeKeepsWindow
=============================================================================
