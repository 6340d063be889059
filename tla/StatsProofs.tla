----------------------------- MODULE StatsProofs ----------------------------
(***************************************************************************)
(* Theorems about the responses of GET /api/stats in Backend, whose        *)
(* SELECTs see different committed states.                                 *)
(***************************************************************************)
EXTENDS ActivityProofs

-----------------------------------------------------------------------------
(* The plan.                                                               *)

\* The charts that break down the installations active in the last month.
Buckets == {"< 1 week", "1-4 weeks", "1-3 months", "3+ months"}
Breakdowns == Buckets \cup {"versions"}

LEMMA PlanOrder ==
    /\ \A i, j \in 1 .. 13 : i # j => Plan[i] # Plan[j]
    /\ Plan[1] = "live" /\ Plan[2] = "pruned" /\ Plan[4] = "active_30d"
    /\ Plan[6] = "daily" /\ Plan[13] = "version_mix"
    /\ \A q \in Breakdowns : \E i \in 5 .. 13 : Plan[i] = q
<1>1. /\ Plan[1] = "live" /\ Plan[2] = "pruned" /\ Plan[3] = "active_7d"
      /\ Plan[4] = "active_30d" /\ Plan[5] = "versions" /\ Plan[6] = "daily"
      /\ Plan[7] = "new_daily" /\ Plan[8] = "new_monthly"
      /\ Plan[9] = "< 1 week" /\ Plan[10] = "1-4 weeks"
      /\ Plan[11] = "1-3 months" /\ Plan[12] = "3+ months"
      /\ Plan[13] = "version_mix"
  BY DEF Plan
<1>2. \A i \in 1 .. 13 : \/ i = 1 \/ i = 2 \/ i = 3 \/ i = 4 \/ i = 5 \/ i = 6
                         \/ i = 7 \/ i = 8 \/ i = 9 \/ i = 10 \/ i = 11
                         \/ i = 12 \/ i = 13
  OBVIOUS
<1>3. \A i, j \in 1 .. 13 : i # j => Plan[i] # Plan[j]
  BY <1>1, <1>2
<1>4. \A q \in Breakdowns : \E i \in 5 .. 13 : Plan[i] = q
  <2>1. 5 \in 5 .. 13 /\ 9 \in 5 .. 13 /\ 10 \in 5 .. 13 /\ 11 \in 5 .. 13 /\ 12 \in 5 .. 13
    OBVIOUS
  <2> QED
    BY <1>1, <2>1 DEF Breakdowns, Buckets
<1> QED
  BY <1>1, <1>3, <1>4

\* The live installations whose age, at t, belongs to a bucket.
Aged(b, t) ==
    CASE b = "< 1 week"   -> NewWithin(WeekDays, t)
      [] b = "1-4 weeks"  -> NewWithin(MonthDays, t) \ NewWithin(WeekDays, t)
      [] b = "1-3 months" -> NewWithin(QuarterDays, t) \ NewWithin(MonthDays, t)
      [] b = "3+ months"  -> Live \ NewWithin(QuarterDays, t)

LEMMA Older ==
    ASSUME TypeOK, NEW t \in Nat, NEW d \in Nat, NEW e \in Nat, d <= e
    PROVE  NewWithin(d, t) \subseteq NewWithin(e, t)
<1>1. d * TicksPerDay <= e * TicksPerDay
  BY TicksAssumption
<1>2. d * TicksPerDay \in Nat /\ e * TicksPerDay \in Nat
  BY TicksAssumption
<1>3. \A x \in Live : installation[x].first \in Nat
  BY RowFacts DEF Row
<1> QED
  BY <1>1, <1>2, <1>3 DEF NewWithin

LEMMA BucketFacts ==
    ASSUME TypeOK, NEW t \in Nat
    PROVE  /\ \A b \in Buckets :
                 /\ Rows(b, t) \subseteq Aged(b, t)
                 /\ Rows(b, t) \subseteq Active(MonthDays, t)
                 /\ Aged(b, t) \subseteq Live
           /\ \A b, c \in Buckets : b # c => Aged(b, t) \cap Aged(c, t) = {}
<1>1. /\ NewWithin(WeekDays, t) \subseteq NewWithin(MonthDays, t)
      /\ NewWithin(MonthDays, t) \subseteq NewWithin(QuarterDays, t)
      /\ NewWithin(QuarterDays, t) \subseteq Live
  BY Older, StatsAssumption DEF NewWithin
<1>2. /\ Aged("< 1 week", t) = NewWithin(WeekDays, t)
      /\ Aged("1-4 weeks", t) = NewWithin(MonthDays, t) \ NewWithin(WeekDays, t)
      /\ Aged("1-3 months", t) = NewWithin(QuarterDays, t) \ NewWithin(MonthDays, t)
      /\ Aged("3+ months", t) = Live \ NewWithin(QuarterDays, t)
  BY DEF Aged
<1>3. Active(MonthDays, t) \subseteq Live
  BY DEF Active
<1>4. /\ Rows("< 1 week", t) = Active(MonthDays, t) \cap NewWithin(WeekDays, t)
      /\ Rows("1-4 weeks", t) = Bucket(MonthDays, WeekDays, t)
      /\ Rows("1-3 months", t) = Bucket(QuarterDays, MonthDays, t)
      /\ Rows("3+ months", t) = Active(MonthDays, t) \ NewWithin(QuarterDays, t)
  BY DEF Rows
<1>5. \A b \in Buckets : /\ Rows(b, t) \subseteq Aged(b, t)
                         /\ Rows(b, t) \subseteq Active(MonthDays, t)
                         /\ Aged(b, t) \subseteq Live
  BY <1>1, <1>2, <1>3, <1>4 DEF Bucket, Buckets
<1>6. \A b, c \in Buckets : b # c => Aged(b, t) \cap Aged(c, t) = {}
  BY <1>1, <1>2 DEF Buckets
<1> QED
  BY <1>5, <1>6

LEMMA OtherRows ==
    ASSUME NEW t
    PROVE  /\ Rows("live", t) = Live /\ Rows("pruned", t) = pruned_installation
           /\ Rows("active_30d", t) = Active(MonthDays, t)
           /\ Rows("versions", t) \subseteq Active(MonthDays, t)
           /\ Rows("daily", t) = Window(t)
           /\ Rows("version_mix", t) \subseteq Window(t)
BY DEF Rows

-----------------------------------------------------------------------------
(* The inductive invariant.                                                *)

Counting == stats # NoStats

\* The event loop is busy with the response, and SELECTs that have not run
\* have counted nothing.
AnswersInv ==
    Counting =>
        /\ request = Idle
        /\ \A i \in 1 .. 13 : stats.step <= i => stats.got[Plan[i]] = {}

\* Everything that is counted is finite.
FiniteInv ==
    /\ IsFiniteSet(daily_activity)
    /\ Counting => \A q \in Queries : IsFiniteSet(stats.got[q])

\* An installation that was live when the live ones were counted can have
\* become a tombstone since, but not nothing.
TotalInv ==
    Counting =>
        /\ stats.step > 1 => registered \subseteq stats.got["live"] \cup pruned_installation
        /\ stats.step > 2 => registered \subseteq stats.got["live"] \cup stats.got["pruned"]

\* What the later SELECTs can still find is within what the earlier found.
WithinInv ==
    Counting =>
        /\ stats.step > 4 => Active(MonthDays, stats.at) \subseteq stats.got["active_30d"]
        /\ \A q \in Breakdowns : stats.got[q] \subseteq stats.got["active_30d"]
        /\ stats.step > 6 => Window(stats.at) \subseteq stats.got["daily"]
        /\ stats.got["version_mix"] \subseteq stats.got["daily"]

\* Nobody is counted in two buckets, nor can be: an installation keeps its
\* first_seen_at while the response is computed, if it does not go.
BucketInv ==
    Counting =>
        /\ \A b \in Buckets : stats.got[b] \cap Live \subseteq Aged(b, stats.at)
        /\ \A b, c \in Buckets : b # c => stats.got[b] \cap stats.got[c] = {}

ResponseInv == AnswersInv /\ FiniteInv /\ TotalInv /\ WithinInv /\ BucketInv

LEMMA ResponseInit == Init => ResponseInv
BY FS_EmptySet DEF Init, DbInit, StatsInit, ResponseInv, AnswersInv, FiniteInv,
   TotalInv, WithinInv, BucketInv, Counting

LEMMA CountingFacts ==
    ASSUME TypeOK, Counting
    PROVE  /\ stats \in Computing
           /\ stats.step \in 1 .. 14 /\ stats.at \in Nat
           /\ stats.got \in [Queries -> SUBSET (Ids \cup Activity)]
BY PlanType DEF TypeOK, StatsTypeOK, Counting, Computing

-----------------------------------------------------------------------------
(* Its preservation.                                                       *)

LEMMA StatsSteps ==
    ASSUME [Next]_vars
    PROVE  \/ stats' = stats
           \/ stats' = NoStats
           \/ ReceiveStats
           \/ StatsQuery /\ UNCHANGED <<tables, request, registered>>
BY DEF Next, vars, Receive, Ingesting, Reporting, StatsProgress, StatsQuery, StatsReply,
       StartPrune, Prune, PruneTimeout, Purge, Tick, IngestTimeout,
       ServerCrash, ScriptCrash

\* While a response is computed rows only disappear, and from installation
\* only to become tombstones.
LEMMA Beside ==
    ASSUME Inv, AnswersInv, Counting, stats' = stats, [Next]_vars
    PROVE  /\ request' = Idle /\ registered' = registered
           /\ pruned_installation \subseteq pruned_installation'
           /\ Live' \subseteq Live
           /\ \A x \in Live' : installation'[x] = installation[x]
           /\ daily_activity' \subseteq daily_activity
<1>1. request = Idle /\ request.pc = "idle"
  BY DEF AnswersInv, Idle
<1>2. ~IngestLookupPruned /\ ~IngestFlush /\ ~IngestConflict /\ ~IngestCommit /\ ~IngestLocked
  BY <1>1 DEF IngestLookupPruned, IngestFlush, IngestConflict, IngestCommit, IngestLocked
<1>3. request' = Idle /\ registered' = registered
  BY <1>1, <1>2 DEF Counting, Next, vars, Receive, Ingesting, IngestProgress, ReceiveStats,
     Reporting, StartPrune, Prune, PruneTimeout, Purge, Tick, IngestTimeout,
     ServerCrash, ScriptCrash
<1>4. CASE UNCHANGED tables
  BY <1>3, <1>4 DEF tables, Live
<1>5. ASSUME NEW p \in Pruners, PruneCommit(p)
      PROVE  /\ pruned_installation \subseteq pruned_installation'
             /\ Live' \subseteq Live
             /\ \A x \in Live' : installation'[x] = installation[x]
             /\ daily_activity' \subseteq daily_activity
  BY <1>5 DEF PruneCommit, Live
<1>6. CASE PurgeDelete
  BY <1>3, <1>6 DEF PurgeDelete, Live
<1> QED
  BY <1>2, <1>3, <1>4, <1>5, <1>6, TableSteps

LEMMA DailyFinite ==
    ASSUME Inv, IsFiniteSet(daily_activity), [Next]_vars
    PROVE  IsFiniteSet(daily_activity')
<1>1. CASE IngestCommit
  <2> DEFINE kept == {r \in daily_activity :
                        ~(r.id = request.id /\ r.date = DayOf(request.at))}
             new == [id |-> request.id, date |-> DayOf(request.at),
                     version |-> request.version]
  <2>1. daily_activity' = kept \cup {new}
    BY <1>1 DEF IngestCommit, UpsertedActivity
  <2>2. IsFiniteSet(kept)
    BY FS_Subset
  <2> QED
    BY <2>1, <2>2, FS_AddElement
<1>2. CASE daily_activity' \subseteq daily_activity
  BY <1>2, FS_Subset
<1>3. IngestCommit \/ daily_activity' \subseteq daily_activity
  BY TableSteps DEF tables, PruneCommit, PurgeDelete
<1> QED
  BY <1>1, <1>2, <1>3

LEMMA RowsFinite ==
    ASSUME TypeOK, IsFiniteSet(daily_activity), NEW q \in Queries, NEW t \in Nat
    PROVE  IsFiniteSet(Rows(q, t))
<1>1. Rows(q, t) \subseteq Ids \/ Rows(q, t) \subseteq daily_activity
  BY DEF TypeOK, DbTypeOK, Rows, Queries, Live, Active, NewWithin, Bucket, Window
<1> QED
  BY <1>1, IdsAssumption, FS_Subset

\* Steps of others while a response is computed.
LEMMA BesideInv ==
    ASSUME Inv, ResponseInv, stats' = stats, [Next]_vars
    PROVE  ResponseInv'
<1>f. FiniteInv'
  BY DailyFinite DEF ResponseInv, FiniteInv, Counting
<1>1. CASE ~Counting
  BY <1>f, <1>1 DEF ResponseInv, AnswersInv, TotalInv, WithinInv, BucketInv, Counting
<1>2. CASE Counting
  <2> DEFINE t == stats.at
  <2>1. /\ request' = Idle /\ registered' = registered
        /\ pruned_installation \subseteq pruned_installation'
        /\ Live' \subseteq Live
        /\ \A x \in Live' : installation'[x] = installation[x]
        /\ daily_activity' \subseteq daily_activity
    BY <1>2, Beside DEF ResponseInv
  <2>2. AnswersInv'
    BY <1>2, <2>1 DEF ResponseInv, AnswersInv, Counting
  <2>3. TotalInv'
    BY <1>2, <2>1 DEF ResponseInv, TotalInv, Counting
  <2>4. Active(MonthDays, t)' \subseteq Active(MonthDays, t)
    BY <2>1 DEF Active, SeenWithin
  <2>5. Window(t)' \subseteq Window(t)
    BY <2>1 DEF Window, DatedWithin
  <2>6. WithinInv'
    BY <1>2, <2>4, <2>5 DEF ResponseInv, WithinInv, Counting
  <2>7. \A d : NewWithin(d, t)' = NewWithin(d, t) \cap Live'
    BY <2>1 DEF NewWithin
  <2>8. \A b \in Buckets : Aged(b, t) \cap Live' \subseteq Aged(b, t)'
    BY <2>1, <2>7 DEF Aged, Buckets
  <2>9. BucketInv'
    BY <1>2, <2>1, <2>8 DEF ResponseInv, BucketInv, Counting
  <2> QED
    BY <1>f, <2>2, <2>3, <2>6, <2>9 DEF ResponseInv
<1> QED
  BY <1>1, <1>2

\* A response that is not computed, or of which nothing is counted yet.
LEMMA StartInv ==
    ASSUME Inv, ResponseInv, [Next]_vars, stats' = NoStats \/ ReceiveStats
    PROVE  ResponseInv'
<1>1. IsFiniteSet(daily_activity')
  BY DailyFinite DEF ResponseInv, FiniteInv
<1>2. CASE stats' = NoStats
  BY <1>1, <1>2 DEF ResponseInv, AnswersInv, FiniteInv, TotalInv, WithinInv, BucketInv, Counting
<1>3. CASE ReceiveStats
  <2>1. /\ stats'.step = 1 /\ request' = Idle
        /\ \A q \in Queries : stats'.got[q] = {}
    BY <1>3 DEF ReceiveStats, StatsStart
  <2>2. /\ \A i \in 1 .. 13 : stats'.got[Plan[i]] = {}
        /\ Breakdowns \subseteq Queries /\ Buckets \subseteq Queries
        /\ "version_mix" \in Queries
    BY <2>1, PlanType DEF Breakdowns, Buckets, Queries
  <2>3. AnswersInv' /\ TotalInv'
    BY <2>1, <2>2 DEF AnswersInv, TotalInv
  <2>4. FiniteInv'
    BY <1>1, <2>1, FS_EmptySet DEF FiniteInv
  <2>5. WithinInv'
    BY <2>1, <2>2 DEF WithinInv
  <2>6. BucketInv'
    BY <2>1, <2>2 DEF BucketInv
  <2> QED
    BY <2>3, <2>4, <2>5, <2>6 DEF ResponseInv
<1> QED
  BY <1>2, <1>3

\* What a SELECT does to the response.
LEMMA QueryEffect ==
    ASSUME Inv, StatsQuery
    PROVE  /\ Counting /\ stats.step \in 1 .. 13
           /\ Plan[stats.step] \in Queries
           /\ stats'.step = stats.step + 1 /\ stats'.at = stats.at
           /\ stats'.got = [stats.got EXCEPT
                               ![Plan[stats.step]] = Rows(Plan[stats.step], stats.at)]
<1>1. stats.step \in 1 .. 13
  BY PlanType DEF StatsQuery
<1>2. Counting
  BY <1>1 DEF Counting, NoStats
<1>3. stats \in Computing
  BY <1>2, CountingFacts DEF Inv
<1> DEFINE q == Plan[stats.step]
           rows == Rows(q, stats.at)
<1>4. stats' = [stats EXCEPT !.step = stats.step + 1, !.got[q] = rows]
  BY DEF StatsQuery
<1>5. q \in Queries
  BY <1>1, PlanType
<1> HIDE DEF q, rows
<1>6. /\ stats'.step = stats.step + 1 /\ stats'.at = stats.at
      /\ stats'.got = [stats.got EXCEPT ![q] = rows]
  BY <1>3, <1>4 DEF Computing
<1> QED
  BY <1>1, <1>2, <1>5, <1>6 DEF q, rows

\* One SELECT: the next in the plan, on the tables as they are.
LEMMA QueryInv ==
    ASSUME Inv, ResponseInv, StatsQuery, UNCHANGED <<tables, request, registered>>
    PROVE  ResponseInv'
<1> DEFINE i == stats.step
           q == Plan[i]
           t == stats.at
           rows == Rows(q, t)
           got == stats.got
<1>1. /\ Counting /\ i \in 1 .. 13 /\ q \in Queries /\ t \in Nat
      /\ stats'.step = i + 1 /\ stats'.at = t
      /\ got \in [Queries -> SUBSET (Ids \cup Activity)]
      /\ stats'.got = [got EXCEPT ![q] = rows]
  BY QueryEffect, CountingFacts DEF Inv
<1>2. /\ stats'.got[q] = rows
      /\ \A p \in Queries : p # q => stats'.got[p] = got[p]
  BY <1>1
<1>3. /\ installation' = installation /\ daily_activity' = daily_activity
      /\ pruned_installation' = pruned_installation
      /\ request' = request /\ registered' = registered /\ Live' = Live
  BY DEF tables, Live
<1>4. /\ Active(MonthDays, t)' = Active(MonthDays, t) /\ Window(t)' = Window(t)
      /\ \A b \in Buckets : Aged(b, t)' = Aged(b, t)
  <2>1. t' = t
    BY <1>1
  <2> QED
    BY <1>3, <2>1 DEF Active, SeenWithin, Window, DatedWithin, Aged, NewWithin
<1>p. /\ \A j, k \in 1 .. 13 : j # k => Plan[j] # Plan[k]
      /\ Plan[1] = "live" /\ Plan[2] = "pruned" /\ Plan[4] = "active_30d"
      /\ Plan[6] = "daily" /\ Plan[13] = "version_mix"
      /\ \A p \in Breakdowns : \E j \in 5 .. 13 : Plan[j] = p
      /\ \A j \in 1 .. 13 : Plan[j] \in Queries
  BY PlanOrder, PlanType
<1>q. /\ {"live", "pruned", "active_30d", "daily", "version_mix"} \subseteq Queries
      /\ Breakdowns \subseteq Queries /\ Buckets \subseteq Breakdowns
      /\ {"live", "pruned", "active_30d", "daily", "version_mix"} \cap Breakdowns = {}
  BY DEF Queries, Breakdowns, Buckets
<1>t. TypeOK
  BY DEF Inv
<1>5. AnswersInv'
  <2>1. request' = Idle
    BY <1>1, <1>3 DEF ResponseInv, AnswersInv
  <2>2. ASSUME NEW j \in 1 .. 13, stats'.step <= j
        PROVE  stats'.got[Plan[j]] = {}
    <3>1. i <= j /\ i # j
      BY <1>1, <2>2
    <3>2. got[Plan[j]] = {}
      BY <1>1, <3>1 DEF ResponseInv, AnswersInv
    <3>3. Plan[j] # q /\ Plan[j] \in Queries
      BY <1>1, <1>p, <3>1
    <3> QED
      BY <1>2, <3>2, <3>3
  <2> QED
    BY <2>1, <2>2 DEF AnswersInv
<1>6. FiniteInv'
  <2>1. IsFiniteSet(rows)
    BY <1>1, <1>t, RowsFinite DEF ResponseInv, FiniteInv
  <2> QED
    BY <1>1, <1>2, <1>3, <2>1 DEF ResponseInv, FiniteInv
<1>7. TotalInv'
  <2>1. Rows("live", t) = Live /\ Rows("pruned", t) = pruned_installation
    BY OtherRows
  <2>2. registered = Live \cup pruned_installation
    BY DEF Inv, CountedOnce
  <2>3. CASE i = 1
    <3>1. stats'.got["live"] = Live
      BY <1>2, <1>p, <2>1, <2>3
    <3> QED
      BY <1>1, <1>3, <2>2, <2>3, <3>1 DEF TotalInv
  <2>4. CASE i = 2
    <3>1. stats'.got["live"] = got["live"] /\ stats'.got["pruned"] = pruned_installation
      BY <1>2, <1>p, <1>q, <2>1, <2>4
    <3>2. registered \subseteq got["live"] \cup pruned_installation
      BY <1>1, <2>4 DEF ResponseInv, TotalInv
    <3> QED
      BY <1>1, <1>3, <3>1, <3>2 DEF TotalInv
  <2>5. CASE i > 2
    <3>1. q # "live" /\ q # "pruned"
      BY <1>1, <1>p, <2>5
    <3>2. stats'.got["live"] = got["live"] /\ stats'.got["pruned"] = got["pruned"]
      BY <1>2, <1>q, <3>1
    <3>3. i > 1
      BY <1>1, <2>5
    <3> QED
      BY <1>1, <1>3, <2>5, <3>2, <3>3 DEF ResponseInv, TotalInv
  <2> QED
    BY <1>1, <2>3, <2>4, <2>5
<1>8. WithinInv'
  <2>1. /\ stats'.step > 4 =>
              Active(MonthDays, t) \subseteq stats'.got["active_30d"]
        /\ \A p \in Breakdowns : stats'.got[p] \subseteq stats'.got["active_30d"]
    <3>1. CASE i = 4
      <4>1. stats'.got["active_30d"] = Active(MonthDays, t)
        BY <1>2, <1>p, <3>1, OtherRows
      <4>2. ASSUME NEW p \in Breakdowns PROVE stats'.got[p] = {}
        <5>1. PICK j \in 5 .. 13 : Plan[j] = p
          BY <1>p
        <5>2. j \in 1 .. 13 /\ i <= j
          BY <3>1
        <5>3. got[p] = {}
          BY <1>1, <5>1, <5>2 DEF ResponseInv, AnswersInv
        <5> QED
          BY <1>2, <1>p, <1>q, <3>1, <5>3
      <4> QED
        BY <4>1, <4>2
    <3>2. CASE i # 4
      <4>1. stats'.got["active_30d"] = got["active_30d"]
        BY <1>1, <1>2, <1>p, <1>q, <3>2
      <4>2. i > 4 => Active(MonthDays, t) \subseteq got["active_30d"]
        BY <1>1 DEF ResponseInv, WithinInv
      <4>3. stats'.step > 4 => i > 4
        BY <1>1, <3>2
      <4>4. ASSUME NEW p \in Breakdowns
            PROVE  stats'.got[p] \subseteq got["active_30d"]
        <5>1. CASE p # q
          BY <1>1, <1>2, <1>q, <5>1 DEF ResponseInv, WithinInv
        <5>2. CASE p = q
          <6>1. PICK j \in 5 .. 13 : Plan[j] = p
            BY <1>p
          <6>2. j = i
            BY <1>1, <1>p, <5>2, <6>1
          <6>3. i > 4
            BY <6>2
          <6>4. rows \subseteq Active(MonthDays, t)
            BY <1>1, <1>t, <5>2, BucketFacts, OtherRows DEF Breakdowns
          <6> QED
            BY <1>2, <4>2, <5>2, <6>3, <6>4
        <5> QED
          BY <5>1, <5>2
      <4> QED
        BY <4>1, <4>2, <4>3, <4>4
    <3> QED
      BY <3>1, <3>2
  <2>2. /\ stats'.step > 6 => Window(t) \subseteq stats'.got["daily"]
        /\ stats'.got["version_mix"] \subseteq stats'.got["daily"]
    <3>1. CASE i = 6
      <4>1. stats'.got["daily"] = Window(t)
        BY <1>2, <1>p, <3>1, OtherRows
      <4>2. got["version_mix"] = {}
        BY <1>1, <1>p, <3>1 DEF ResponseInv, AnswersInv
      <4>3. stats'.got["version_mix"] = {}
        BY <1>2, <1>p, <1>q, <3>1, <4>2
      <4> QED
        BY <4>1, <4>3
    <3>2. CASE i = 13
      <4>1. /\ stats'.got["daily"] = got["daily"]
            /\ stats'.got["version_mix"] \subseteq Window(t)
        BY <1>2, <1>p, <1>q, <3>2, OtherRows
      <4>2. Window(t) \subseteq got["daily"]
        BY <1>1, <3>2 DEF ResponseInv, WithinInv
      <4> QED
        BY <4>1, <4>2
    <3>3. CASE i # 6 /\ i # 13
      <4>1. q # "daily" /\ q # "version_mix"
        BY <1>1, <1>p, <3>3
      <4>2. /\ stats'.got["daily"] = got["daily"]
            /\ stats'.got["version_mix"] = got["version_mix"]
        BY <1>2, <1>q, <4>1
      <4>3. stats'.step > 6 => i > 6
        BY <1>1, <3>3
      <4> QED
        BY <1>1, <4>2, <4>3 DEF ResponseInv, WithinInv
    <3> QED
      BY <3>1, <3>2, <3>3
  <2> QED
    BY <1>1, <1>4, <2>1, <2>2 DEF WithinInv
<1>9. BucketInv'
  <2>1. /\ \A b \in Buckets : Rows(b, t) \subseteq Aged(b, t) /\ Aged(b, t) \subseteq Live
        /\ \A b, c \in Buckets : b # c => Aged(b, t) \cap Aged(c, t) = {}
    BY <1>1, <1>t, BucketFacts
  <2>2. /\ \A b \in Buckets : got[b] \cap Live \subseteq Aged(b, t)
        /\ \A b, c \in Buckets : b # c => got[b] \cap got[c] = {}
    BY <1>1 DEF ResponseInv, BucketInv
  <2>3. \A b \in Buckets : stats'.got[b] = IF b = q THEN Rows(b, t) ELSE got[b]
    BY <1>2, <1>q
  <2>4. \A b \in Buckets : stats'.got[b] \cap Live \subseteq Aged(b, t)
    BY <2>1, <2>2, <2>3
  <2>5. ASSUME NEW b \in Buckets, NEW c \in Buckets, b # c
        PROVE  stats'.got[b] \cap stats'.got[c] = {}
    <3>1. CASE b # q /\ c # q
      BY <2>2, <2>3, <2>5, <3>1
    <3>2. CASE b = q
      <4>1. stats'.got[b] \subseteq Aged(b, t) \cap Live /\ stats'.got[c] = got[c]
        BY <2>1, <2>3, <2>5, <3>2
      <4> QED
        BY <2>1, <2>2, <2>5, <4>1
    <3>3. CASE c = q
      <4>1. stats'.got[c] \subseteq Aged(c, t) \cap Live /\ stats'.got[b] = got[b]
        BY <2>1, <2>3, <2>5, <3>3
      <4> QED
        BY <2>1, <2>2, <2>5, <4>1
    <3> QED
      BY <3>1, <3>2, <3>3
  <2> QED
    BY <1>1, <1>3, <1>4, <2>4, <2>5 DEF BucketInv
<1> QED
  BY <1>5, <1>6, <1>7, <1>8, <1>9 DEF ResponseInv

LEMMA ResponseInvariance == Spec => []ResponseInv
<1>1. Inv /\ ResponseInv /\ [Next]_vars => ResponseInv'
  BY StatsSteps, BesideInv, StartInv, QueryInv
<1> QED
  BY <1>1, ResponseInit, Invariance, PTL DEF Spec

-----------------------------------------------------------------------------
(* Safety.                                                                 *)

\* The total of a response can be too high, never too low: who leaves the
\* installation table between the two counts arrives in the second.
THEOREM TotalNeverLow == Spec => []NeverUndercounts
<1>1. Inv /\ ResponseInv => NeverUndercounts
  <2> SUFFICES ASSUME Inv, ResponseInv, Answered("pruned")
               PROVE  TotalInstallations >= Cardinality(registered)
    BY DEF NeverUndercounts
  <2> DEFINE l == stats.got["live"]
             p == stats.got["pruned"]
  <2>1. PICK i \in 1 .. stats.step - 1 : Plan[i] = "pruned"
    BY DEF Answered
  <2>2. Counting
    BY <2>1 DEF Counting, NoStats
  <2>3. stats.step \in 1 .. 14 /\ {"live", "pruned"} \subseteq Queries
    BY <2>2, CountingFacts DEF Inv, Queries
  <2>4. i \in 1 .. 13 /\ i < stats.step
    BY <2>1, <2>3
  <2>5. i = 2
    BY <2>1, <2>4, PlanOrder
  <2>6. registered \subseteq l \cup p
    BY <2>2, <2>4, <2>5, <2>3 DEF ResponseInv, TotalInv
  <2>7. IsFiniteSet(l) /\ IsFiniteSet(p)
    BY <2>2, <2>3 DEF ResponseInv, FiniteInv
  <2> HIDE DEF l, p
  <2>8. /\ IsFiniteSet(l \cup p)
        /\ Cardinality(l \cup p) = Cardinality(l) + Cardinality(p) - Cardinality(l \cap p)
    BY <2>7, FS_Union
  <2>9. IsFiniteSet(registered) /\ Cardinality(registered) <= Cardinality(l \cup p)
    BY <2>6, <2>8, FS_Subset
  <2>10. IsFiniteSet(l \cap p)
    BY <2>7, FS_Intersection
  <2>11. /\ Cardinality(l) \in Nat /\ Cardinality(p) \in Nat /\ Cardinality(l \cap p) \in Nat
         /\ Cardinality(registered) \in Nat /\ Cardinality(l \cup p) \in Nat
    BY <2>7, <2>8, <2>9, <2>10, FS_CardinalityType
  <2>12. Cardinality(l) + Cardinality(p) >= Cardinality(registered)
    BY <2>8, <2>9, <2>11
  <2> QED
    BY <2>12 DEF TotalInstallations, Number, l, p
<1> QED
  BY <1>1, Invariance, ResponseInvariance, PTL

\* Disjoint finite sets add up.
LEMMA AddDisjoint ==
    ASSUME NEW S, NEW T, IsFiniteSet(S), IsFiniteSet(T), S \cap T = {}
    PROVE  /\ IsFiniteSet(S \cup T)
           /\ Cardinality(S \cup T) = Cardinality(S) + Cardinality(T)
           /\ Cardinality(S) \in Nat /\ Cardinality(T) \in Nat
<1>1. Cardinality(S \cap T) = 0
  BY FS_EmptySet
<1>2. Cardinality(S) \in Nat /\ Cardinality(T) \in Nat
  BY FS_CardinalityType
<1>3. /\ IsFiniteSet(S \cup T)
      /\ Cardinality(S \cup T) =
            Cardinality(S) + Cardinality(T) - Cardinality(S \cap T)
  BY FS_Union
<1> QED
  BY <1>1, <1>2, <1>3

\* No chart of a response exceeds the number it breaks down.
THEOREM BreakdownsFit == Spec => []BreakdownsWithinActive
<1>1. Inv /\ ResponseInv => BreakdownsWithinActive
  <2> SUFFICES ASSUME Inv, ResponseInv, Counting
               PROVE  BreakdownsWithinActive
    BY DEF BreakdownsWithinActive, Counting
  <2> DEFINE got == stats.got
             a == got["active_30d"]
  <2>1. /\ \A q \in Queries : IsFiniteSet(got[q])
        /\ Breakdowns \subseteq Queries /\ Buckets \subseteq Breakdowns
        /\ {"versions", "active_30d", "daily", "version_mix"} \subseteq Queries
    BY DEF ResponseInv, FiniteInv, Breakdowns, Buckets, Queries
  <2>2. \A q \in Breakdowns : got[q] \subseteq a
    BY DEF ResponseInv, WithinInv
  <2>3. Number("versions") <= Number("active_30d")
    <3>1. IsFiniteSet(a) /\ got["versions"] \in SUBSET a
      BY <2>1, <2>2 DEF Breakdowns
    <3> QED
      BY <3>1, FS_Subset DEF Number
  <2>4. Number("< 1 week") + Number("1-4 weeks") + Number("1-3 months")
          + Number("3+ months") <= Number("active_30d")
    <3> DEFINE w == got["< 1 week"]
               x == got["1-4 weeks"]
               y == got["1-3 months"]
               z == got["3+ months"]
    <3>1. /\ IsFiniteSet(a) /\ IsFiniteSet(w) /\ IsFiniteSet(x)
          /\ IsFiniteSet(y) /\ IsFiniteSet(z)
      BY <2>1 DEF Buckets
    <3>2. w \subseteq a /\ x \subseteq a /\ y \subseteq a /\ z \subseteq a
      BY <2>1, <2>2 DEF Buckets
    <3>3. /\ w \cap x = {} /\ w \cap y = {} /\ w \cap z = {}
          /\ x \cap y = {} /\ x \cap z = {} /\ y \cap z = {}
      BY DEF ResponseInv, BucketInv, Buckets
    <3> HIDE DEF w, x, y, z, a
    <3>4. /\ IsFiniteSet(w \cup x)
          /\ Cardinality(w \cup x) = Cardinality(w) + Cardinality(x)
          /\ Cardinality(w) \in Nat /\ Cardinality(x) \in Nat
      BY <3>1, <3>3, AddDisjoint
    <3>5. /\ IsFiniteSet(y \cup z)
          /\ Cardinality(y \cup z) = Cardinality(y) + Cardinality(z)
          /\ Cardinality(y) \in Nat /\ Cardinality(z) \in Nat
      BY <3>1, <3>3, AddDisjoint
    <3>6. (w \cup x) \cap (y \cup z) = {}
      BY <3>3
    <3>7. Cardinality((w \cup x) \cup (y \cup z)) =
            Cardinality(w \cup x) + Cardinality(y \cup z)
      BY <3>4, <3>5, <3>6, AddDisjoint
    <3>8. (w \cup x) \cup (y \cup z) \in SUBSET a
      BY <3>2
    <3>9. Cardinality((w \cup x) \cup (y \cup z)) <= Cardinality(a)
      BY <3>1, <3>8, FS_Subset
    <3>10. Cardinality(a) \in Nat
      BY <3>1, FS_CardinalityType
    <3>11. Cardinality(w) + Cardinality(x) + Cardinality(y) + Cardinality(z)
             <= Cardinality(a)
      BY <3>4, <3>5, <3>7, <3>9, <3>10
    <3> QED
      BY <3>11 DEF Number, w, x, y, z, a
  <2>5. ASSUME NEW day
        PROVE  Cardinality({r \in got["version_mix"] : r.date = day})
                 <= Cardinality({r \in got["daily"] : r.date = day})
    <3> DEFINE m == {r \in got["version_mix"] : r.date = day}
               d == {r \in got["daily"] : r.date = day}
    <3>1. got["version_mix"] \subseteq got["daily"]
      BY DEF ResponseInv, WithinInv
    <3>2. m \in SUBSET d
      BY <3>1
    <3>3. IsFiniteSet(got["daily"]) /\ d \in SUBSET got["daily"]
      BY <2>1
    <3>4. IsFiniteSet(d)
      BY <3>3, FS_Subset
    <3> HIDE DEF m, d
    <3>5. Cardinality(m) <= Cardinality(d)
      BY <3>2, <3>4, FS_Subset
    <3> QED
      BY <3>5 DEF m, d
  <2> QED
    BY <2>3, <2>4, <2>5 DEF BreakdownsWithinActive
<1> QED
  BY <1>1, Invariance, ResponseInvariance, PTL
=============================================================================
