------------------------------ MODULE DevTools ------------------------------
(***************************************************************************)
(* `ltel seed` and `ltel clean`: the scripts that fill a development       *)
(* database with fake installations and remove them again.  One such       *)
(* process runs at a time; the server and `ltel prune` may run beside it.  *)
(*                                                                         *)
(* dev is its local state: NoTool, a seed between its SELECT and its       *)
(* COMMIT, a clean waiting for the user's answer, a clean script about to  *)
(* delete, or Crashed, a seed that ended in an IntegrityError.             *)
(*                                                                         *)
(* Each script's writes and COMMIT are one step here: no other connection  *)
(* writes between them, and none reads before the COMMIT what they wrote.  *)
(* Operators named Mutant... are wrong variants, as in Ingest.             *)
(***************************************************************************)
EXTENDS TelemetryDb, Sequences

CONSTANTS
    SeedOrder,   \* the ids "seed-0000", "seed-0001", ... as a sequence
    MaxSeedDays, \* at most this many activity rows per fake installation: 14
    MaxWipes     \* bound on `clean --all`

ASSUME DevAssumption ==
    SeedOrder \in Seq(Ids) /\ MaxSeedDays \in Nat \ {0} /\ MaxWipes \in Nat

VARIABLES dev, wipes

devVars == <<dev, wipes>>

NoTool == [pc |-> "none"]
Crashed == [pc |-> "crashed"]

Seeds(count) == {SeedOrder[i] : i \in 1 .. count}
SeedIds == Seeds(Len(SeedOrder))

DevTypeOK ==
    /\ dev \in {NoTool, Crashed}
              \cup [pc : {"seed"}, at : Nat, new : SUBSET SeedIds]
              \cup [pc : {"confirm", "delete"}, script : {"--seed", "--all"}]
    /\ wipes \in 0 .. MaxWipes

DevInit == dev = NoTool /\ wipes = 0

-----------------------------------------------------------------------------
(* scripts/seed.py                                                         *)

\* _existing_ids: the ids whose installation row is missing get one.
SeedSelect(count) ==
    /\ dev = NoTool
    /\ dev' = [pc |-> "seed", at |-> now, new |-> Seeds(count) \ Live]
    /\ UNCHANGED <<now, tables, writer, wipes>>

\* What the random choices can give a fake installation: its row, and the
\* number of days, ending today, it gets activity rows for.  (The rows are
\* dated back from now, not from last_seen.)
Fakes ==
    {f \in [row : [first : 0 .. dev.at, last : 0 .. dev.at, version : Versions],
            days : 1 .. MaxSeedDays] :
        /\ f.row.first <= f.row.last
        /\ f.days <= DayOf(dev.at) - DayOf(f.row.last) + 1
        /\ f.days <= DayOf(dev.at) + 1}

FakeActivity(fake) ==
    UNION {{[id |-> x, date |-> DayOf(dev.at) - offset,
             version |-> fake[x].row.version] :
                offset \in 0 .. fake[x].days - 1} : x \in dev.new}

\* The INSERTs find every primary key free.
SeedInsertable(fake) ==
    /\ dev.new \cap Live = {}
    /\ \A r \in FakeActivity(fake), s \in daily_activity :
          ~(r.id = s.id /\ r.date = s.date)

SeedCommit ==
    /\ dev.pc = "seed"
    /\ writer = Free
    /\ \E fake \in [dev.new -> Fakes] :
          /\ SeedInsertable(fake)
          /\ installation' = [x \in Ids |-> IF x \in dev.new THEN fake[x].row
                                            ELSE installation[x]]
          /\ daily_activity' = daily_activity \cup FakeActivity(fake)
    /\ dev' = NoTool
    /\ UNCHANGED <<now, pruned_installation, writer, wipes>>

\* UNIQUE constraint failed: nothing is committed, the script dies.
SeedCrash ==
    /\ dev.pc = "seed"
    /\ writer = Free
    /\ \E fake \in [dev.new -> Fakes] : ~SeedInsertable(fake)
    /\ dev' = Crashed
    /\ UNCHANGED <<now, tables, writer, wipes>>

-----------------------------------------------------------------------------
(* cmd_clean and scripts/clean.py                                          *)

\* clean.py --status: what the user is asked depends on the counts.
CleanStatus ==
    /\ dev = NoTool
    /\ Live # {}
    /\ dev' = [pc |-> "confirm",
               script |-> IF Live \cap SeedIds # {} THEN "--seed" ELSE "--all"]
    /\ UNCHANGED <<now, tables, writer, wipes>>

CleanConfirmed ==
    /\ dev.pc = "confirm"
    /\ dev' = [dev EXCEPT !.pc = "delete"]
    /\ UNCHANGED <<now, tables, writer, wipes>>

\* Wrong: every daily_activity row goes, the prefix is ignored.
MutantKeptActivity == {}

\* Wrong: --all deletes from installation only.
MutantKeptOnWipe ==
    IF dev.script = "--seed" THEN {r \in daily_activity : r.id \notin SeedIds}
    ELSE daily_activity

\* _delete_daily_activity(prefix).
KeptActivity ==
    IF dev.script = "--seed" THEN {r \in daily_activity : r.id \notin SeedIds}
    ELSE {}

\* Wrong: the DELETE has no WHERE.
MutantKeptRows == {}

KeptRows == IF dev.script = "--seed" THEN Live \ SeedIds ELSE {}

\* clean.py --seed or --all: both DELETEs, then the COMMIT.
CleanDelete ==
    /\ dev.pc = "delete"
    /\ writer = Free
    /\ dev.script = "--all" => wipes < MaxWipes
    /\ wipes' = IF dev.script = "--all" THEN wipes + 1 ELSE wipes
    /\ installation' = [x \in Ids |-> IF x \in KeptRows THEN installation[x]
                                      ELSE NoRow]
    /\ daily_activity' = KeptActivity
    /\ dev' = NoTool
    /\ UNCHANGED <<now, pruned_installation, writer>>

\* The user answers no or interrupts, or the lock is not free in time.
DevQuit ==
    /\ dev # NoTool
    /\ dev' = NoTool
    /\ UNCHANGED <<now, tables, writer, wipes>>

DevNext ==
    \/ \E count \in 1 .. Len(SeedOrder) : SeedSelect(count)
    \/ SeedCommit
    \/ SeedCrash
    \/ CleanStatus
    \/ CleanConfirmed
    \/ CleanDelete
    \/ DevQuit
=============================================================================
