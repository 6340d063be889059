------------------------------- MODULE Stats --------------------------------
(***************************************************************************)
(* GET /api/stats.  The handler captures now and then runs its SELECTs one *)
(* after the other, each on the database as committed at that moment: no   *)
(* transaction makes them one snapshot.  It is a coroutine without an      *)
(* await, so no request is handled between them; a pruner can commit.      *)
(*                                                                         *)
(* stats is the handler's local state: the number of the next SELECT, now  *)
(* (at), and for every answered SELECT the rows it counted (got); the      *)
(* response carries their numbers.  Operators named Mutant... are wrong     *)
(* variants, as in Ingest.                                                 *)
(***************************************************************************)
EXTENDS TelemetryDb, Sequences

CONSTANTS
    WeekDays, MonthDays, QuarterDays, YearDays   \* 7, 30, 90, 365

ASSUME StatsAssumption ==
    /\ {WeekDays, MonthDays, QuarterDays, YearDays} \subseteq Nat
    /\ WeekDays <= MonthDays /\ MonthDays <= QuarterDays

VARIABLE stats

\* Wrong: the tombstones are counted before the live rows.
MutantPlan == <<"pruned", "live", "active_7d", "active_30d", "versions", "daily",
                "new_daily", "new_monthly", "< 1 week", "1-4 weeks",
                "1-3 months", "3+ months", "version_mix">>

\* The SELECTs in the order get_stats runs them.  The breakdowns by os,
\* architecture and runtime repeat "versions" on columns not modelled.
Plan == <<"live", "pruned", "active_7d", "active_30d", "versions", "daily",
          "new_daily", "new_monthly", "< 1 week", "1-4 weeks", "1-3 months",
          "3+ months", "version_mix">>

Queries == {"live", "pruned", "active_7d", "active_30d", "versions", "daily",
            "new_daily", "new_monthly", "< 1 week", "1-4 weeks", "1-3 months",
            "3+ months", "version_mix"}

NoStats == [step |-> 0]

Computing == [step : 1 .. Len(Plan) + 1, at : Nat,
              got : [Queries -> SUBSET (Ids \cup Activity)]]

StatsTypeOK == stats \in Computing \cup {NoStats}

StatsInit == stats = NoStats

-----------------------------------------------------------------------------
Active(days, t) == {x \in Live : SeenWithin(x, days, t)}

\* where(first_seen_at >= t - days).
NewWithin(days, t) ==
    {x \in Live : installation[x].first + days * TicksPerDay >= t}

\* where(activity_date >= (t - 30 days).date()).
Window(t) == {r \in daily_activity : DatedWithin(r, MonthDays, t)}

\* Wrong: the bucket has no upper bound.
MutantBucket(floor, upper, t) == Active(MonthDays, t) \cap NewWithin(floor, t)

\* _bucket(floor, upper) of the longevity chart.
Bucket(floor, upper, t) ==
    Active(MonthDays, t) \cap (NewWithin(floor, t) \ NewWithin(upper, t))

\* The rows SELECT q counts.
Rows(q, t) ==
    CASE q = "live"        -> Live
      [] q = "pruned"      -> pruned_installation
      [] q = "active_7d"   -> Active(WeekDays, t)
      [] q = "active_30d"  -> Active(MonthDays, t)
      [] q = "versions"    -> {x \in Active(MonthDays, t) :
                                  installation[x].version # Blank}
      [] q = "daily"       -> Window(t)
      [] q = "new_daily"   -> NewWithin(MonthDays, t)
      [] q = "new_monthly" -> NewWithin(YearDays, t)
      [] q = "< 1 week"    -> Active(MonthDays, t) \cap NewWithin(WeekDays, t)
      [] q = "1-4 weeks"   -> Bucket(MonthDays, WeekDays, t)
      [] q = "1-3 months"  -> Bucket(QuarterDays, MonthDays, t)
      [] q = "3+ months"   -> Active(MonthDays, t) \ NewWithin(QuarterDays, t)
      [] q = "version_mix" -> {r \in Window(t) : r.version # Blank}

-----------------------------------------------------------------------------
StatsStart ==
    /\ stats = NoStats
    /\ stats' = [step |-> 1, at |-> now, got |-> [q \in Queries |-> {}]]
    /\ UNCHANGED <<now, tables, writer>>

StatsQuery ==
    /\ stats.step \in 1 .. Len(Plan)
    /\ LET q == Plan[stats.step]
       IN  stats' = [stats EXCEPT !.step = @ + 1,
                                  !.got[q] = Rows(q, stats.at)]
    /\ UNCHANGED <<now, tables, writer>>

\* return StatsOut(...).
StatsReply ==
    /\ stats.step = Len(Plan) + 1
    /\ stats' = NoStats
    /\ UNCHANGED <<now, tables, writer>>

StatsProgress == StatsQuery \/ StatsReply

-----------------------------------------------------------------------------
(* What the response under construction says.                              *)

Answered(q) == \E i \in 1 .. stats.step - 1 : Plan[i] = q

Number(q) == Cardinality(stats.got[q])

TotalInstallations == Number("live") + Number("pruned")
=============================================================================
