--------------------------- MODULE WorkflowProofs ---------------------------
(***************************************************************************)
(* Theorems about Workflow, for any branches, commits and number of pull   *)
(* requests.                                                               *)
(***************************************************************************)
EXTENDS Workflow, TLAPS

\* What a command relies on: what it found or did in its earlier steps is
\* still so, because others work on GitHub only and the developer waits.
CmdInv ==
    /\ cmd.pc = "branch" => cmd.other \in Exist(local)
    /\ cmd.pc = "push new" => cmd.branch \in Exist(local)
    /\ cmd.pc \in {"push new", "checkout new"} =>
          local[cmd.branch] = local[cmd.other]
    /\ cmd.pc = "checkout new" =>
          cmd.branch \in upstream /\ tracking[cmd.branch] = local[cmd.branch]
    /\ cmd.pc \in {"list", "merge", "push"} => cmd.branch = head
    /\ cmd.pc = "push" => tracking[cmd.other] \subseteq local[head]

\* Numbers of pull requests are not used twice, so the number that was chosen
\* still means the same request, if it is open at all; and while a request is
\* open, its branch is not deleted, and so loses no commits.
PrInv ==
    /\ \A p \in prs : p.num <= opened
    /\ \A p, q \in prs : p.num = q.num => p = q
    /\ cmd.pc = "merge pr" =>
          /\ cmd.pr.num <= opened
          /\ cmd.other = cmd.pr.base
          /\ \A p \in prs : p.num = cmd.pr.num =>
                p = cmd.pr /\ cmd.had \subseteq origin[p.head]

Inv == TypeOK /\ CmdInv /\ PrInv /\ CreatedIsPublished

Pcs == {"idle", "branch", "push new", "checkout new", "created",
        "switch", "delete", "list", "merge", "push", "synced",
        "create pr", "merge pr"}
Cmds == [pc : Pcs, branch : Branches, other : Branches, pr : Prs,
         had : SUBSET Commits]

LEMMA NoPrType == NoPr \in Prs /\ NoPr.num = 0
BY WorkflowAssumption DEF NoPr, Prs

LEMMA IdleType == Idle \in Cmds /\ Idle.pc = "idle"
BY NoPrType, WorkflowAssumption DEF Idle, Command, Cmds, Pcs

\* The next step of a command.
LEMMA RunsType ==
    ASSUME cmd \in Cmds, NEW pc, NEW next \in Pcs, Runs(pc, next)
    PROVE  /\ cmd' \in Cmds /\ cmd.pc = pc /\ cmd'.pc = next
           /\ cmd'.branch = cmd.branch /\ cmd'.other = cmd.other
           /\ cmd'.pr = cmd.pr /\ cmd'.had = cmd.had
BY DEF Runs, Cmds

\* git fetch gives every branch a set of commits.
LEMMA FetchedType == ASSUME TypeOK PROVE Fetched \in Refs
BY DEF TypeOK, Fetched, Refs, Exist

LEMMA TypeFacts ==
    ASSUME TypeOK
    PROVE  /\ cmd \in Cmds /\ cmd.branch \in Branches /\ cmd.other \in Branches
           /\ cmd.pr \in Prs /\ head \in Branches
           /\ opened \in Nat /\ MaxPrs \in Nat /\ opened <= MaxPrs
           /\ cmd.pr.num \in Nat /\ \A p \in prs : p.num \in Nat
           /\ \A b \in Branches : /\ local[b] \in SUBSET Commits
                                  /\ origin[b] \in SUBSET Commits
                                  /\ tracking[b] \in SUBSET Commits
<1>1. cmd \in Cmds /\ prs \subseteq Prs
  BY DEF TypeOK, Cmds, Pcs
<1>2. opened \in Nat /\ MaxPrs \in Nat /\ opened <= MaxPrs
  <2>1. opened \in 0 .. MaxPrs
    BY DEF TypeOK
  <2> QED
    BY <2>1, WorkflowAssumption
<1>3. head \in Branches
  BY DEF TypeOK, Exist
<1>4. \A p \in Prs : p.num \in Nat
  BY <1>2 DEF Prs
<1>5. \A b \in Branches : /\ local[b] \in SUBSET Commits
                          /\ origin[b] \in SUBSET Commits
                          /\ tracking[b] \in SUBSET Commits
  BY DEF TypeOK, Refs
<1>6. cmd.branch \in Branches /\ cmd.other \in Branches /\ cmd.pr \in Prs
  BY <1>1 DEF Cmds
<1> QED
  BY <1>1, <1>2, <1>3, <1>4, <1>5, <1>6

LEMMA InitInv == Init => Inv
<1> SUFFICES ASSUME Init PROVE Inv
  OBVIOUS
<1>1. TypeOK
  <2>1. local \in Refs /\ origin \in Refs /\ tracking \in Refs
    BY WorkflowAssumption DEF Init, Refs, Absent
  <2>2. head \in Exist(local) /\ upstream \subseteq Exist(local)
    BY WorkflowAssumption DEF Init, Exist, Absent
  <2>3. opened \in 0 .. MaxPrs
    BY WorkflowAssumption DEF Init
  <2> QED
    BY <2>1, <2>2, <2>3, IdleType DEF Init, TypeOK, Cmds, Pcs
<1>2. CmdInv /\ PrInv /\ CreatedIsPublished
  BY IdleType DEF Init, CmdInv, PrInv, CreatedIsPublished
<1> QED
  BY <1>1, <1>2 DEF Inv

-----------------------------------------------------------------------------
(* The command ends, with or without its last effect.                      *)

LEMMA IdleInv ==
    ASSUME cmd' = Idle
    PROVE  CmdInv' /\ CreatedIsPublished'
BY IdleType DEF CmdInv, CreatedIsPublished

LEMMA PrsKept ==
    ASSUME PrInv, prs' \subseteq prs, UNCHANGED opened, cmd'.pc # "merge pr"
    PROVE  PrInv'
BY DEF PrInv

LEMMA PrsLess ==
    ASSUME PrInv, prs' \subseteq prs, UNCHANGED <<opened, cmd>>,
           \A p \in prs' : origin[p.head] \subseteq origin'[p.head]
    PROVE  PrInv'
BY DEF PrInv

\* A push changes a branch on GitHub to what the clone has.
LEMMA PushType ==
    ASSUME TypeOK, NEW b \in Branches, Push(b)
    PROVE  /\ origin' \in Refs
           /\ \A c \in Branches : origin[c] \subseteq origin'[c]
           /\ origin'[b] = local[b]
           /\ prs' \subseteq prs /\ prs' \subseteq Prs
BY TypeFacts DEF Refs, TypeOK, Push, StillOpen

LEMMA UnansweredStep ==
    ASSUME Inv, NEW b \in Branches, PushUnanswered(b)
    PROVE  Inv'
<1>1. TypeOK'
  BY PushType, IdleType DEF Inv, TypeOK, PushUnanswered, clone, Cmds, Pcs
<1>2. PrInv'
  BY PushType, PrsKept, IdleType DEF Inv, PushUnanswered
<1> QED
  BY <1>1, <1>2, IdleInv DEF Inv, PushUnanswered

LEMMA EndStep ==
    ASSUME Inv, Ends
    PROVE  Inv'
<1>1. TypeOK'
  BY IdleType DEF Inv, TypeOK, Ends, clone, github, Cmds, Pcs
<1>2. PrInv'
  BY PrsKept, IdleType DEF Inv, Ends, github
<1> QED
  BY <1>1, <1>2, IdleInv DEF Inv, Ends

-----------------------------------------------------------------------------
(* ltel branch                                                             *)

LEMMA CreateStep ==
    ASSUME Inv, CreateStart \/ CreateBranch \/ PushNew \/ CheckoutNew
    PROVE  Inv'
<1>t. TypeOK /\ cmd \in Cmds /\ cmd.branch \in Branches /\ cmd.other \in Branches
  BY TypeFacts DEF Inv
<1>1. CASE CreateStart
  <2>1. PICK name \in Branches, base \in Exist(local) :
           cmd' = Command("branch", name, base, NoPr)
    BY <1>1 DEF CreateStart
  <2>2. /\ cmd' \in Cmds /\ cmd'.pc = "branch" /\ cmd'.other = base
    BY <2>1, NoPrType DEF Exist, Command, Cmds, Pcs
  <2>3. UNCHANGED <<clone, github>>
    BY <1>1 DEF CreateStart
  <2>4. TypeOK'
    BY <1>t, <2>2, <2>3 DEF TypeOK, clone, github, Cmds, Pcs
  <2> QED
    BY <2>2, <2>3, <2>4 DEF Inv, CmdInv, PrInv, CreatedIsPublished, clone, github
<1>2. CASE CreateBranch
  <2>1. /\ cmd' \in Cmds /\ cmd.pc = "branch" /\ cmd'.pc = "push new"
        /\ cmd'.branch = cmd.branch /\ cmd'.other = cmd.other
    BY <1>t, <1>2, RunsType DEF CreateBranch, Pcs
  <2>2. cmd.other \in Exist(local) /\ cmd.branch \notin Exist(local)
    BY <1>2, <2>1 DEF Inv, CmdInv, CreateBranch, Branchable
  <2>3. UNCHANGED <<tracking, upstream, head, merging, github>>
    BY <1>2 DEF CreateBranch
  <2>4. /\ local' \in Refs /\ local'[cmd.branch] = local[cmd.other]
        /\ \A c \in Branches \ {cmd.branch} : local'[c] = local[c]
    BY <1>t, <1>2, TypeFacts DEF Refs, CreateBranch, TypeOK
  <2>5. Exist(local') = Exist(local) \cup {cmd.branch}
    BY <1>t, <2>2, <2>4 DEF Exist
  <2>6. TypeOK'
    BY <1>t, <2>1, <2>3, <2>4, <2>5 DEF TypeOK, github, Cmds, Pcs
  <2>7. local'[cmd.branch] = local'[cmd.other]
    BY <1>t, <2>2, <2>4
  <2>8. CmdInv' /\ CreatedIsPublished'
    BY <1>t, <2>1, <2>5, <2>7 DEF CmdInv, CreatedIsPublished
  <2>9. PrInv'
    BY <2>1, <2>3, PrsKept DEF Inv, github
  <2> QED
    BY <2>6, <2>8, <2>9 DEF Inv
<1>3. CASE PushNew
  <2>1. CASE PushUnanswered(cmd.branch)
    BY <1>t, <2>1, UnansweredStep
  <2>2. CASE ~PushUnanswered(cmd.branch)
    <3>1. /\ Push(cmd.branch) /\ tracking' = [tracking EXCEPT ![cmd.branch] = local[cmd.branch]]
          /\ upstream' = upstream \cup {cmd.branch}
          /\ Runs("push new", "checkout new")
          /\ UNCHANGED <<local, head, merging, opened>>
      BY <1>3, <2>2 DEF PushNew, Pushed
    <3>2. /\ cmd' \in Cmds /\ cmd.pc = "push new" /\ cmd'.pc = "checkout new"
          /\ cmd'.branch = cmd.branch /\ cmd'.other = cmd.other
      BY <1>t, <3>1, RunsType DEF Pcs
    <3>3. cmd.branch \in Exist(local)
      BY <3>2 DEF Inv, CmdInv
    <3>4. /\ tracking' \in Refs /\ tracking'[cmd.branch] = local[cmd.branch]
      BY <1>t, <3>1, TypeFacts DEF Refs, TypeOK
    <3>5. TypeOK'
      BY <1>t, <3>1, <3>2, <3>3, <3>4, PushType DEF TypeOK, Cmds, Pcs
    <3>6. PrInv'
      BY <1>t, <3>1, <3>2, PushType, PrsKept DEF Inv
    <3>7. CmdInv' /\ CreatedIsPublished'
      BY <3>1, <3>2, <3>4 DEF Inv, CmdInv, CreatedIsPublished
    <3> QED
      BY <3>5, <3>6, <3>7 DEF Inv
  <2> QED
    BY <2>1, <2>2
<1>4. CASE CheckoutNew
  <2>1. /\ cmd' \in Cmds /\ cmd.pc = "checkout new" /\ cmd'.pc = "created"
        /\ cmd'.branch = cmd.branch /\ cmd'.other = cmd.other
    BY <1>t, <1>4, RunsType DEF CheckoutNew, Pcs
  <2>2. /\ head' = cmd.branch /\ cmd.branch \in Exist(local)
        /\ UNCHANGED <<local, tracking, upstream, merging, github>>
    BY <1>4 DEF CheckoutNew, Checkout
  <2>3. TypeOK'
    BY <1>t, <2>1, <2>2 DEF TypeOK, github, Cmds, Pcs
  <2> QED
    BY <2>1, <2>2, <2>3 DEF Inv, CmdInv, PrInv, CreatedIsPublished, github
<1> QED
  BY <1>1, <1>2, <1>3, <1>4

LEMMA DeleteStep ==
    ASSUME Inv, DeleteStart \/ DeleteSwitch \/ DeleteBranch
    PROVE  Inv'
<1>t. TypeOK /\ cmd \in Cmds /\ cmd.branch \in Branches /\ cmd.other \in Branches
  BY TypeFacts DEF Inv
<1>1. CASE DeleteStart
  <2>1. PICK pc \in {"delete", "switch"}, b \in Branches, to \in Branches :
           cmd' = Command(pc, b, to, NoPr)
    BY <1>1 DEF DeleteStart, Exist
  <2>2. cmd' \in Cmds /\ cmd'.pc = pc
    BY <2>1, NoPrType DEF Command, Cmds, Pcs
  <2>3. UNCHANGED <<clone, github>>
    BY <1>1 DEF DeleteStart
  <2>4. TypeOK'
    BY <1>t, <2>2, <2>3 DEF TypeOK, clone, github, Cmds, Pcs
  <2> QED
    BY <2>2, <2>3, <2>4 DEF Inv, CmdInv, PrInv, CreatedIsPublished, clone, github
<1>2. CASE DeleteSwitch
  <2>1. cmd' \in Cmds /\ cmd'.pc = "delete"
    BY <1>t, <1>2, RunsType DEF DeleteSwitch, Pcs
  <2>2. /\ head' = cmd.other /\ cmd.other \in Exist(local)
        /\ UNCHANGED <<local, tracking, upstream, merging, github>>
    BY <1>2 DEF DeleteSwitch, Checkout
  <2>3. TypeOK'
    BY <1>t, <2>1, <2>2 DEF TypeOK, github, Cmds, Pcs
  <2> QED
    BY <2>1, <2>2, <2>3 DEF Inv, CmdInv, PrInv, CreatedIsPublished, github
<1>3. CASE DeleteBranch
  <2>1. /\ local' \in Refs
        /\ \A c \in Branches \ {cmd.branch} : local'[c] = local[c]
    BY <1>t, <1>3 DEF Refs, DeleteBranch, TypeOK, Absent
  <2>2. Exist(local) \ {cmd.branch} \subseteq Exist(local')
    BY <2>1 DEF Exist
  <2>3. TypeOK'
    BY <1>t, <1>3, <2>1, <2>2, IdleType DEF DeleteBranch, TypeOK, github, Cmds, Pcs
  <2>4. PrInv'
    BY <1>3, PrsKept, IdleType DEF Inv, DeleteBranch, github
  <2> QED
    BY <1>3, <2>3, <2>4, IdleInv DEF Inv, DeleteBranch
<1> QED
  BY <1>1, <1>2, <1>3

-----------------------------------------------------------------------------
(* ltel sync                                                               *)

LEMMA SyncStep ==
    ASSUME Inv, SyncStart \/ SyncList \/ SyncMerge \/ SyncConflict \/ SyncPush
    PROVE  Inv'
<1>t. /\ TypeOK /\ cmd \in Cmds /\ cmd.branch \in Branches
      /\ cmd.other \in Branches /\ head \in Branches
  BY TypeFacts DEF Inv
<1>1. CASE SyncStart
  <2>1. cmd' \in Cmds /\ cmd'.pc = "list" /\ cmd'.branch = head
    BY <1>t, <1>1, NoPrType DEF SyncStart, Command, Cmds, Pcs
  <2>2. TypeOK'
    BY <1>t, <1>1, <2>1, FetchedType DEF SyncStart, TypeOK, github, Cmds, Pcs
  <2> QED
    BY <1>1, <2>1, <2>2 DEF Inv, SyncStart, CmdInv, PrInv, CreatedIsPublished, github
<1>2. CASE SyncList
  <2>1. /\ cmd' \in Cmds /\ cmd.pc = "list" /\ cmd'.pc = "merge"
        /\ cmd'.branch = cmd.branch
    BY <1>t, <1>2 DEF SyncList, Cmds, Pcs, Exist
  <2>2. TypeOK'
    BY <1>t, <1>2, <2>1 DEF SyncList, TypeOK, github, Cmds, Pcs
  <2> QED
    BY <1>2, <2>1, <2>2 DEF Inv, SyncList, CmdInv, PrInv, CreatedIsPublished, github
<1>3. CASE SyncMerge
  <2>1. /\ cmd' \in Cmds /\ cmd.pc = "merge" /\ cmd'.pc = "push"
        /\ cmd'.branch = cmd.branch /\ cmd'.other = cmd.other
    BY <1>t, <1>3, RunsType DEF SyncMerge, Pcs
  <2>2. /\ local' \in Refs
        /\ local'[head] = local[head] \cup tracking[cmd.other]
        /\ \A c \in Branches \ {head} : local'[c] = local[c]
    <3>1. local[head] \cup tracking[cmd.other] \in SUBSET Commits
      BY <1>t, TypeFacts
    <3> QED
      BY <1>t, <1>3, <3>1 DEF Refs, SyncMerge, TypeOK
  <2>3. Exist(local) \subseteq Exist(local')
    BY <2>2 DEF Exist, Absent
  <2>4. TypeOK'
    BY <1>t, <1>3, <2>1, <2>2, <2>3 DEF SyncMerge, TypeOK, github, Cmds, Pcs
  <2> QED
    BY <1>3, <2>1, <2>2, <2>4 DEF Inv, SyncMerge, CmdInv, PrInv, CreatedIsPublished, github
<1>4. CASE SyncConflict
  <2>1. TypeOK'
    BY <1>t, <1>4, IdleType, TypeFacts DEF SyncConflict, TypeOK, github, Cmds, Pcs
  <2>2. PrInv'
    BY <1>4, PrsKept, IdleType DEF Inv, SyncConflict, github
  <2> QED
    BY <1>4, <2>1, <2>2, IdleInv DEF Inv, SyncConflict
<1>5. CASE SyncPush
  <2>1. CASE PushUnanswered(head)
    BY <1>t, <2>1, UnansweredStep
  <2>2. CASE ~PushUnanswered(head)
    <3>1. /\ Push(head) /\ tracking' = [tracking EXCEPT ![head] = local[head]]
          /\ Runs("push", "synced")
          /\ UNCHANGED <<local, upstream, head, merging, opened>>
      BY <1>5, <2>2 DEF SyncPush, Pushed
    <3>2. cmd' \in Cmds /\ cmd'.pc = "synced"
      BY <1>t, <3>1, RunsType DEF Pcs
    <3>3. tracking' \in Refs
      BY <1>t, <3>1, TypeFacts DEF Refs, TypeOK
    <3>4. TypeOK'
      BY <1>t, <3>1, <3>2, <3>3, PushType DEF TypeOK, Cmds, Pcs
    <3>5. PrInv'
      BY <1>t, <3>1, <3>2, PushType, PrsKept DEF Inv
    <3>6. CmdInv' /\ CreatedIsPublished'
      BY <3>2 DEF CmdInv, CreatedIsPublished
    <3> QED
      BY <3>4, <3>5, <3>6 DEF Inv
  <2> QED
    BY <2>1, <2>2
<1> QED
  BY <1>1, <1>2, <1>3, <1>4, <1>5

-----------------------------------------------------------------------------
(* Pull requests                                                           *)

LEMMA ProposeStep ==
    ASSUME Inv, NEW h \in Branches, NEW base \in Branches, Propose(h, base)
    PROVE  /\ prs' \subseteq Prs /\ opened' \in 0 .. MaxPrs
           /\ \A p \in prs' : p.num <= opened'
           /\ \A p, q \in prs' : p.num = q.num => p = q
           /\ \A p \in prs' \ prs : p.num = opened + 1
           /\ opened <= opened'
<1> DEFINE new == [num |-> opened + 1, head |-> h, base |-> base]
<1>1. opened \in Nat /\ opened + 1 \in 0 .. MaxPrs
  BY TypeFacts DEF Inv, Propose
<1>2. new \in Prs /\ new.num = opened + 1
  BY <1>1 DEF Prs
<1>3. prs' = prs \cup {new} /\ opened' = opened + 1
  BY DEF Propose
<1>4. \A p \in prs : p.num \in Nat /\ p.num <= opened
  BY TypeFacts DEF Inv, PrInv
<1> HIDE DEF new
<1>5. \A p, q \in prs : p.num = q.num => p = q
  BY DEF Inv, PrInv
<1>6. \A p \in prs : p.num # new.num
  BY <1>1, <1>2, <1>4
<1>7. \A p, q \in prs' : p.num = q.num => p = q
  BY <1>3, <1>5, <1>6
<1>8. \A p \in prs' : p.num <= opened'
  BY <1>1, <1>2, <1>3, <1>4
<1>9. prs \subseteq Prs
  BY DEF Inv, TypeOK
<1>10. prs' \subseteq Prs /\ opened' \in 0 .. MaxPrs
  BY <1>1, <1>2, <1>3, <1>9
<1>11. (\A p \in prs' \ prs : p.num = opened + 1) /\ opened <= opened'
  BY <1>1, <1>2, <1>3
<1> QED
  BY <1>7, <1>8, <1>10, <1>11

LEMMA AcceptStep ==
    ASSUME Inv, NEW pr \in prs, Accept(pr)
    PROVE  /\ origin' \in Refs
           /\ \A c \in Branches : origin[c] \subseteq origin'[c]
           /\ prs' \subseteq prs \ {pr} /\ opened' = opened
           /\ origin[pr.head] \subseteq origin'[pr.base]
<1>1. pr.base \in Branches /\ pr.head \in Branches
  BY DEF Inv, TypeOK, Prs
<1>2. origin[pr.base] \cup origin[pr.head] \in SUBSET Commits
  BY <1>1, TypeFacts DEF Inv
<1> QED
  BY <1>1, <1>2 DEF Refs, Inv, TypeOK, Accept, StillOpen

LEMMA PrStep ==
    ASSUME Inv, PrStart \/ CreatePr \/ MergeStart \/ MergePr
    PROVE  Inv'
<1>t. /\ TypeOK /\ cmd \in Cmds /\ cmd.branch \in Branches
      /\ cmd.other \in Branches /\ head \in Branches
  BY TypeFacts DEF Inv
<1>1. CASE PrStart
  <2>1. PICK h \in Branches, base \in Branches :
           cmd' = Command("create pr", h, base, NoPr)
    BY <1>t, <1>1 DEF PrStart, Exist
  <2>2. cmd' \in Cmds /\ cmd'.pc = "create pr"
    BY <2>1, NoPrType DEF Command, Cmds, Pcs
  <2>3. TypeOK'
    BY <1>t, <1>1, <2>2 DEF PrStart, TypeOK, github, Cmds, Pcs
  <2> QED
    BY <1>1, <2>2, <2>3 DEF Inv, PrStart, CmdInv, PrInv, CreatedIsPublished, github
<1>2. CASE CreatePr
  <2>1. /\ Propose(cmd.branch, cmd.other) /\ UNCHANGED origin
        /\ cmd' = Idle /\ UNCHANGED clone
    BY <1>2 DEF CreatePr, Propose
  <2>2. TypeOK'
    BY <1>t, <2>1, ProposeStep, IdleType DEF TypeOK, clone, Cmds, Pcs
  <2>3. PrInv'
    BY <1>t, <2>1, ProposeStep, IdleType DEF PrInv
  <2> QED
    BY <2>1, <2>2, <2>3, IdleInv DEF Inv
<1>3. CASE MergeStart
  <2>1. PICK pr \in prs :
           cmd' = [Command("merge pr", pr.head, pr.base, pr)
                     EXCEPT !.had = origin[pr.head]]
    BY <1>3 DEF MergeStart
  <2>2. pr \in Prs /\ pr.head \in Branches /\ pr.base \in Branches
    BY <1>t DEF TypeOK, Prs
  <2>3. /\ cmd' \in Cmds /\ cmd'.pc = "merge pr" /\ cmd'.pr = pr
        /\ cmd'.other = pr.base /\ cmd'.had = origin[pr.head]
    BY <1>t, <2>1, <2>2, TypeFacts DEF Command, Cmds, Pcs
  <2>4. UNCHANGED <<clone, github>>
    BY <1>3 DEF MergeStart
  <2>5. TypeOK'
    BY <1>t, <2>3, <2>4 DEF TypeOK, clone, github, Cmds, Pcs
  <2> QED
    BY <2>3, <2>4, <2>5 DEF Inv, CmdInv, PrInv, CreatedIsPublished, clone, github
<1>4. CASE MergePr
  <2>1. PICK pr \in prs : Accept(pr)
    BY <1>4 DEF MergePr, Chosen
  <2>2. cmd' = Idle /\ UNCHANGED clone
    BY <1>4 DEF MergePr
  <2>3. TypeOK'
    BY <1>t, <2>1, <2>2, AcceptStep, IdleType DEF TypeOK, clone, Cmds, Pcs
  <2>4. PrInv'
    BY <2>1, <2>2, AcceptStep, PrsKept, IdleType DEF Inv
  <2> QED
    BY <2>2, <2>3, <2>4, IdleInv DEF Inv
<1> QED
  BY <1>1, <1>2, <1>3, <1>4

-----------------------------------------------------------------------------
(* Work by hand, and the others                                            *)

LEMMA FreshType == Fresh \subseteq Commits
BY DEF Fresh

LEMMA HandStep ==
    ASSUME Inv, Commit \/ Switch \/ ConcludeMerge
    PROVE  Inv'
<1>t. TypeOK /\ head \in Branches
  BY TypeFacts DEF Inv
<1>1. /\ cmd = Idle /\ cmd' = Idle /\ UNCHANGED <<tracking, upstream, github>>
  BY DEF Commit, Switch, ConcludeMerge
<1>2. /\ head' \in Exist(local) /\ merging' \subseteq Commits
      /\ \/ local' = local
         \/ \E s \in SUBSET Commits :
               local[head] \subseteq s /\ local' = [local EXCEPT ![head] = s]
  <2>1. CASE Commit
    BY <1>t, <2>1, TypeFacts, FreshType DEF Commit, TypeOK
  <2>2. CASE Switch
    BY <1>t, <2>2 DEF Switch, Checkout, TypeOK
  <2>3. CASE ConcludeMerge
    BY <1>t, <2>3, TypeFacts DEF ConcludeMerge, TypeOK
  <2> QED
    BY <2>1, <2>2, <2>3
<1>3. local' \in Refs /\ Exist(local) \subseteq Exist(local')
  <2>1. CASE local' = local
    BY <1>t, <2>1 DEF TypeOK
  <2>2. CASE local' # local
    <3>1. PICK s \in SUBSET Commits :
             local[head] \subseteq s /\ local' = [local EXCEPT ![head] = s]
      BY <1>2, <2>2
    <3>2. /\ local' \in Refs /\ local'[head] = s
          /\ \A c \in Branches \ {head} : local'[c] = local[c]
      BY <1>t, <3>1 DEF Refs, TypeOK
    <3> QED
      BY <3>1, <3>2 DEF Exist, Absent
  <2> QED
    BY <2>1, <2>2
<1>4. TypeOK'
  BY <1>t, <1>1, <1>2, <1>3 DEF TypeOK, github
<1>5. PrInv'
  BY <1>1, PrsKept, IdleType DEF Inv, github
<1> QED
  BY <1>1, <1>4, <1>5, IdleInv DEF Inv

LEMMA OthersStep ==
    ASSUME Inv, OthersPush \/ OthersDelete \/ OthersPr
    PROVE  Inv'
<1>t. TypeOK
  BY DEF Inv
<1>1. UNCHANGED <<clone, cmd>>
  BY DEF OthersPush, OthersDelete, OthersPr
<1>2. CmdInv' /\ CreatedIsPublished'
  BY <1>1 DEF Inv, CmdInv, CreatedIsPublished, clone
<1>3. /\ origin' \in Refs /\ prs' \subseteq Prs /\ opened' \in 0 .. MaxPrs
      /\ PrInv'
  <2>1. CASE OthersPush
    <3>1. PICK b \in Branches, from \in Exist(origin), c \in Fresh :
             /\ b \in Exist(origin) => from = b
             /\ origin' = [origin EXCEPT ![b] = origin[from] \cup {c}]
      BY <2>1 DEF OthersPush
    <3>2. from \in Branches /\ origin[from] \cup {c} \in SUBSET Commits
      BY <1>t, FreshType, TypeFacts DEF Exist
    <3>3. origin' \in Refs /\ \A d \in Branches : origin[d] \subseteq origin'[d]
      BY <1>t, <3>1, <3>2 DEF Refs, TypeOK, Exist, Absent
    <3>4. prs' \subseteq prs /\ UNCHANGED opened
      BY <2>1 DEF OthersPush, StillOpen
    <3>5. \A p \in prs : p.head \in Branches /\ p \in Prs
      BY <1>t DEF TypeOK, Prs
    <3>6. PrInv'
      BY <1>1, <3>3, <3>4, <3>5, PrsLess DEF Inv
    <3> QED
      BY <1>t, <3>3, <3>4, <3>5, <3>6 DEF TypeOK
  <2>2. CASE OthersDelete
    <3>1. PICK b \in Branches :
             /\ origin' = [origin EXCEPT ![b] = Absent]
             /\ prs' = {pr \in prs : b \notin {pr.head, pr.base}}
      BY <2>2 DEF OthersDelete, Exist
    <3>2. /\ origin' \in Refs
          /\ \A d \in Branches \ {b} : origin'[d] = origin[d]
      BY <1>t, <3>1 DEF Refs, TypeOK, Absent
    <3>3. UNCHANGED opened
      BY <2>2 DEF OthersDelete
    <3>4. prs' \subseteq prs /\ \A p \in prs' : p \in Prs /\ p.head \in Branches \ {b}
      BY <1>t, <3>1 DEF TypeOK, Prs
    <3>5. PrInv'
      BY <1>1, <3>2, <3>3, <3>4, PrsLess DEF Inv
    <3> QED
      BY <1>t, <3>2, <3>3, <3>4, <3>5 DEF TypeOK
  <2>3. CASE OthersPr /\ \E h, base \in Branches : Propose(h, base)
    <3>1. PICK h \in Branches, base \in Branches : Propose(h, base)
      BY <2>3
    <3>2. UNCHANGED origin
      BY <3>1 DEF Propose
    <3>3. /\ prs' \subseteq Prs /\ opened' \in 0 .. MaxPrs
          /\ \A p \in prs' : p.num <= opened'
          /\ \A p, q \in prs' : p.num = q.num => p = q
          /\ \A p \in prs' \ prs : p.num = opened + 1
          /\ opened <= opened'
      BY <3>1, ProposeStep
    <3>4. opened \in Nat /\ opened' \in Nat /\ cmd.pr.num \in Nat
      BY <1>t, <3>3, TypeFacts
    <3>5. cmd.pc = "merge pr" =>
             /\ cmd.pr.num <= opened
             /\ cmd.other = cmd.pr.base
             /\ \A p \in prs : p.num = cmd.pr.num =>
                   p = cmd.pr /\ cmd.had \subseteq origin[p.head]
      BY DEF Inv, PrInv
    <3>6. ASSUME cmd.pc = "merge pr"
          PROVE  /\ cmd.pr.num <= opened'
                 /\ cmd.other = cmd.pr.base
                 /\ \A p \in prs' : p.num = cmd.pr.num =>
                       p = cmd.pr /\ cmd.had \subseteq origin[p.head]
      <4>o. cmd.pr.num <= opened
        BY <3>5, <3>6
      <4>p. opened <= opened'
        BY <3>3
      <4>1. cmd.pr.num <= opened /\ cmd.pr.num <= opened'
        BY <3>4, <4>o, <4>p
      <4>2. \A p \in prs' \ prs : p.num # cmd.pr.num
        <5>1. opened + 1 # cmd.pr.num
          BY <3>4, <4>1
        <5> QED
          BY <3>3, <5>1
      <4>3. \A p \in prs : p.num = cmd.pr.num =>
               p = cmd.pr /\ cmd.had \subseteq origin[p.head]
        BY <3>5, <3>6
      <4>4. cmd.other = cmd.pr.base
        BY <3>5, <3>6
      <4> QED
        BY <4>1, <4>2, <4>3, <4>4
    <3>7. PrInv'
      BY <1>1, <3>2, <3>3, <3>6 DEF PrInv
    <3> QED
      BY <1>t, <3>2, <3>3, <3>7 DEF TypeOK
  <2>4. CASE OthersPr /\ \E pr \in prs : Accept(pr)
    <3>1. PICK pr \in prs : Accept(pr)
      BY <2>4
    <3>2. /\ origin' \in Refs /\ prs' \subseteq prs /\ opened' = opened
          /\ \A c \in Branches : origin[c] \subseteq origin'[c]
      BY <3>1, AcceptStep
    <3>3. \A p \in prs : p \in Prs /\ p.head \in Branches
      BY <1>t DEF TypeOK, Prs
    <3>4. PrInv'
      BY <1>1, <3>2, <3>3, PrsLess DEF Inv
    <3> QED
      BY <1>t, <3>2, <3>3, <3>4 DEF TypeOK
  <2> QED
    BY <2>1, <2>2, <2>3, <2>4 DEF OthersPr
<1>4. TypeOK'
  BY <1>t, <1>1, <1>3 DEF TypeOK, clone
<1> QED
  BY <1>2, <1>3, <1>4 DEF Inv

LEMMA NextInv == Inv /\ [Next]_vars => Inv'
<1> SUFFICES ASSUME Inv, [Next]_vars PROVE Inv'
  OBVIOUS
<1>1. CASE Next
  BY <1>1, CreateStep, DeleteStep, SyncStep, PrStep, EndStep, HandStep,
     OthersStep DEF Next
<1>2. CASE UNCHANGED vars
  BY <1>2 DEF Inv, TypeOK, CmdInv, PrInv, CreatedIsPublished, vars, clone, github
<1> QED
  BY <1>1, <1>2

LEMMA Invariance == Spec => []Inv
BY InitInv, NextInv, PTL DEF Spec

-----------------------------------------------------------------------------
\* Every variable keeps its type: the branch checked out exists, and so does
\* every branch that has an upstream.
THEOREM WorkflowTypeCorrect == Spec => []TypeOK
BY Invariance, PTL DEF Inv

\* `ltel branch create` says "Switched to new branch" only of a branch that
\* is on GitHub as far as the clone knows.
THEOREM CreatedOnlyIfPublished == Spec => []CreatedIsPublished
BY Invariance, PTL DEF Inv

\* No command, and nothing others do meanwhile, takes commits off a branch.
THEOREM OnlyGrow == Spec => BranchesOnlyGrow
<1> DEFINE Grow == \A b \in Branches :
              /\ local'[b] # Absent => local[b] \subseteq local'[b]
              /\ origin'[b] # Absent => origin[b] \subseteq origin'[b]
<1>1. Inv /\ [Next]_vars => Grow
  <2> SUFFICES ASSUME Inv, [Next]_vars, NEW b \in Branches
               PROVE  /\ local'[b] # Absent => local[b] \subseteq local'[b]
                      /\ origin'[b] # Absent => origin[b] \subseteq origin'[b]
    OBVIOUS
  <2>t. /\ local \in Refs /\ origin \in Refs /\ cmd.branch \in Branches
        /\ head \in Branches
    BY TypeFacts DEF Inv, TypeOK
  <2>1. local'[b] # Absent => local[b] \subseteq local'[b]
    <3>1. CASE CreateBranch
      BY <2>t, <3>1 DEF CreateBranch, Branchable, Refs, Exist, Absent
    <3>2. CASE DeleteBranch
      BY <2>t, <3>2 DEF DeleteBranch, Refs
    <3>3. CASE SyncMerge \/ Commit \/ ConcludeMerge
      BY <2>t, <3>3 DEF SyncMerge, Commit, ConcludeMerge, Refs
    <3>4. CASE UNCHANGED local
      BY <3>4
    <3>5. Next => CreateBranch \/ DeleteBranch \/ SyncMerge \/ Commit
                    \/ ConcludeMerge \/ UNCHANGED local
      BY DEF Next, CreateStart, PushNew, PushUnanswered, CheckoutNew,
        DeleteStart, DeleteSwitch, SyncStart, SyncList, SyncConflict, SyncPush,
        PrStart, CreatePr, MergeStart, MergePr, Ends, Switch, OthersPush,
        OthersDelete, OthersPr, clone
    <3>6. UNCHANGED vars => UNCHANGED local
      BY DEF vars, clone
    <3> QED
      BY <3>1, <3>2, <3>3, <3>4, <3>5, <3>6
  <2>2. origin'[b] # Absent => origin[b] \subseteq origin'[b]
    <3>1. CASE \E c \in Branches : Push(c)
      BY <2>t, <3>1, PushType DEF Inv
    <3>2. CASE \E pr \in prs : Accept(pr)
      BY <3>2, AcceptStep
    <3>3. CASE OthersPush
      BY <2>t, <3>3 DEF OthersPush, Refs, Exist, Absent
    <3>4. CASE OthersDelete
      BY <2>t, <3>4 DEF OthersDelete, Refs
    <3>5. CASE UNCHANGED origin
      BY <3>5
    <3>6. Next => \/ \E c \in Branches : Push(c)
                  \/ \E pr \in prs : Accept(pr)
                  \/ OthersPush \/ OthersDelete \/ UNCHANGED origin
      BY <2>t DEF Next, CreateStart, CreateBranch, PushNew, PushUnanswered,
        Pushed, CheckoutNew, DeleteStart, DeleteSwitch, DeleteBranch,
        SyncStart, SyncList, SyncMerge, SyncConflict, SyncPush, PrStart,
        CreatePr, Propose, MergeStart, MergePr, Chosen, Ends, Commit, Switch,
        ConcludeMerge, OthersPr, github
    <3>7. UNCHANGED vars => UNCHANGED origin
      BY DEF vars, github
    <3> QED
      BY <3>1, <3>2, <3>3, <3>4, <3>5, <3>6, <3>7
  <2> QED
    BY <2>1, <2>2
<1>2. Inv /\ [Next]_vars => [Grow]_vars
  BY <1>1
<1> QED
  BY Invariance, <1>2, PTL DEF Spec, BranchesOnlyGrow

\* `ltel sync` says "synced" only when GitHub's copy of the current branch
\* has all of the target, as it was fetched.
THEOREM SyncedOnlyIfPushed == Spec => SyncedMeansPushed
<1> DEFINE Synced == cmd'.pc = "synced" /\ cmd.pc # "synced" =>
                        tracking[cmd.other] \subseteq origin'[cmd.branch]
<1>1. Inv /\ [Next]_vars => Synced
  <2> SUFFICES ASSUME Inv, [Next]_vars, cmd'.pc = "synced", cmd.pc # "synced"
               PROVE  tracking[cmd.other] \subseteq origin'[cmd.branch]
    OBVIOUS
  <2>t. cmd \in Cmds /\ head \in Branches
    BY TypeFacts DEF Inv
  <2>i. Idle.pc # "synced" /\ cmd'  # Idle /\ cmd' # cmd
    BY IdleType
  <2>n. \A pc, next : Runs(pc, next) => cmd'.pc = next
    BY <2>t DEF Runs, Cmds
  <2>1. SyncPush
    <3>1. Next
      BY <2>i DEF vars
    <3>2. ~CreateStart /\ ~DeleteStart /\ ~SyncStart /\ ~PrStart /\ ~MergeStart
      <4>1. ~CreateStart
        BY DEF CreateStart, Command
      <4>2. ~DeleteStart
        BY DEF DeleteStart, Command
      <4>3. ~SyncStart
        BY DEF SyncStart, Command
      <4>4. ~PrStart
        <5>1. PrStart => \E h, base \in Branches :
                            cmd' = Command("create pr", h, base, NoPr)
          BY <2>t DEF PrStart, Exist
        <5>2. \A h, base : Command("create pr", h, base, NoPr).pc # "synced"
          BY DEF Command
        <5> QED
          BY <5>1, <5>2
      <4>5. ~MergeStart
        <5>1. \A b, c, p : Command("merge pr", b, c, p).pc = "merge pr"
          BY DEF Command
        <5>2. \A b, c, p, h :
                 [Command("merge pr", b, c, p) EXCEPT !.had = h].pc = "merge pr"
          BY <5>1 DEF Command
        <5>3. ASSUME MergeStart PROVE FALSE
          <6>1. PICK pr \in prs :
                   cmd' = [Command("merge pr", pr.head, pr.base, pr)
                             EXCEPT !.had = origin[pr.head]]
            BY <5>3 DEF MergeStart
          <6>2. cmd'.pc = "merge pr"
            BY <5>2, <6>1, Zenon
          <6> QED
            BY <6>2
        <5> QED
          BY <5>3
      <4> QED
        BY <4>1, <4>2, <4>3, <4>4, <4>5
    <3>3. ~CreateBranch /\ ~PushNew /\ ~CheckoutNew /\ ~DeleteSwitch /\ ~SyncMerge
      BY <2>i, <2>n DEF CreateBranch, PushNew, PushUnanswered, CheckoutNew,
        DeleteSwitch, SyncMerge
    <3>4. ~SyncList
      BY <2>t DEF SyncList, Cmds
    <3>5. /\ ~DeleteBranch /\ ~SyncConflict /\ ~CreatePr /\ ~MergePr /\ ~Ends
          /\ ~Commit /\ ~Switch /\ ~ConcludeMerge
          /\ ~OthersPush /\ ~OthersDelete /\ ~OthersPr
      BY <2>i DEF DeleteBranch, SyncConflict, CreatePr, MergePr, Ends, Commit,
        Switch, ConcludeMerge, OthersPush, OthersDelete, OthersPr
    <3> QED
      BY <3>1, <3>2, <3>3, <3>4, <3>5 DEF Next
  <2>p. Push(head)
    BY <2>1, <2>i DEF SyncPush, PushUnanswered, Pushed
  <2>2. cmd.branch = head /\ tracking[cmd.other] \subseteq local[head]
    BY <2>1 DEF Inv, CmdInv, SyncPush
  <2> QED
    BY <2>t, <2>p, <2>2, PushType DEF Inv
<1>2. Inv /\ [Next]_vars => [Synced]_vars
  BY <1>1
<1> QED
  BY Invariance, <1>2, PTL DEF Spec, SyncedMeansPushed

\* `ltel pr merge` brings into the base all that the request had when it was
\* listed.
THEOREM MergesAllListed == Spec => MergeBringsListed
<1> DEFINE Brings == cmd.pc = "merge pr" /\ cmd'.pc = "idle" /\ prs' # prs =>
                        cmd.had \subseteq origin'[cmd.other]
<1>1. Inv /\ [Next]_vars => Brings
  <2> SUFFICES ASSUME Inv, [Next]_vars,
                      cmd.pc = "merge pr", cmd'.pc = "idle", prs' # prs
               PROVE  cmd.had \subseteq origin'[cmd.other]
    OBVIOUS
  <2>1. MergePr
    BY IdleType DEF Next, CreateStart, CreateBranch, PushNew, PushUnanswered,
      CheckoutNew, DeleteStart, DeleteSwitch, DeleteBranch, SyncStart,
      SyncList, SyncMerge, SyncConflict, SyncPush, PrStart, CreatePr,
      MergeStart, Ends, Commit, Switch, ConcludeMerge, OthersPush,
      OthersDelete, OthersPr, Runs, vars, github
  <2>2. PICK p \in Chosen : Accept(p)
    BY <2>1 DEF MergePr
  <2>3. p \in prs /\ p.num = cmd.pr.num
    BY <2>2 DEF Chosen
  <2>4. p = cmd.pr /\ cmd.had \subseteq origin[p.head] /\ cmd.other = p.base
    BY <2>3 DEF Inv, PrInv
  <2> QED
    BY <2>2, <2>3, <2>4, AcceptStep
<1>2. Inv /\ [Next]_vars => [Brings]_vars
  BY <1>1
<1> QED
  BY Invariance, <1>2, PTL DEF Spec, MergeBringsListed
=============================================================================
