------------------------------ MODULE Workflow ------------------------------
(***************************************************************************)
(* `ltel branch`, `ltel sync` and `ltel pr`: each command is a sequence of *)
(* git and gh processes with questions in between, and ends at the first   *)
(* one that fails.  Beside it the same developer works by hand between     *)
(* commands, and others push, merge and delete on GitHub at any time.      *)
(*                                                                         *)
(* A branch is the set of commits it contains, empty if it does not exist. *)
(* Merge commits are left out: a branch contains another when its set      *)
(* does.  A push that fails may still have reached GitHub.                 *)
(*                                                                         *)
(* Operators named Mutant... are wrong variants, as in Ingest.             *)
(***************************************************************************)
EXTENDS Naturals

CONSTANTS
    Branches, Main,  \* branch names, and the one a clone starts with
    Commits, Root,   \* commits, and the one everybody starts with
    MaxPrs           \* bound on pull requests

ASSUME WorkflowAssumption ==
    /\ Main \in Branches /\ Root \in Commits
    /\ MaxPrs \in Nat

VARIABLES
    local,     \* the branches of the clone
    origin,    \* the branches on GitHub
    tracking,  \* the clone's origin/... branches, as last fetched or pushed
    upstream,  \* local branches with an upstream: origin's of the same name
    head,      \* the branch checked out
    merging,   \* what a merge with conflicts was to bring in, or {}
    prs,       \* open pull requests
    opened,    \* the number of the latest pull request
    cmd        \* the command in progress

clone == <<local, tracking, upstream, head, merging>>
github == <<origin, prs, opened>>
vars == <<clone, github, cmd>>

-----------------------------------------------------------------------------
(* cmd: where the command is, the branch it is about, the other branch it  *)
(* names (base, branch to switch to, branch to merge), the pull request,   *)
(* and history: the commits the pull request had when it was listed.       *)

NoPr == [num |-> 0, head |-> Main, base |-> Main]
Command(pc, branch, other, pr) ==
    [pc |-> pc, branch |-> branch, other |-> other, pr |-> pr, had |-> {}]
Idle == Command("idle", Main, Main, NoPr)

Absent == {}
Exist(refs) == {b \in Branches : refs[b] # Absent}
Refs == [Branches -> SUBSET Commits]
Prs == [num : 0 .. MaxPrs, head : Branches, base : Branches]

TypeOK ==
    /\ local \in Refs /\ origin \in Refs /\ tracking \in Refs
    /\ head \in Exist(local)
    /\ upstream \subseteq Exist(local)
    /\ merging \subseteq Commits
    /\ prs \subseteq Prs /\ opened \in 0 .. MaxPrs
    /\ cmd \in [pc : {"idle", "branch", "push new", "checkout new", "created",
                      "switch", "delete", "list", "merge", "push", "synced",
                      "create pr", "merge pr"},
                branch : Branches, other : Branches, pr : Prs,
                had : SUBSET Commits]

Init ==
    /\ local = [b \in Branches |-> IF b = Main THEN {Root} ELSE Absent]
    /\ origin = local /\ tracking = local
    /\ upstream = {Main} /\ head = Main /\ merging = {}
    /\ prs = {} /\ opened = 0
    /\ cmd = Idle

\* The process a command runs next, and the pc it goes on to.
Runs(pc, next) == cmd.pc = pc /\ cmd' = [cmd EXCEPT !.pc = next]

\* GitError, GhError, "Cancelled.": the command ends where it is.
Ends == cmd # Idle /\ cmd' = Idle /\ UNCHANGED <<clone, github>>

-----------------------------------------------------------------------------
(* git (_git.py)                                                           *)

\* git fetch origin: what was deleted on GitHub stays.
Fetched == [b \in Branches |-> IF b \in Exist(origin) THEN origin[b]
                               ELSE tracking[b]]

\* git checkout: not with unmerged paths.
Checkout(b) == merging = {} /\ b \in Exist(local) /\ head' = b

\* GitHub closes a pull request once its base has all of its commits.
StillOpen(refs) == {pr \in prs : ~(refs[pr.head] \subseteq refs[pr.base])}

\* git push: creates the branch or fast-forwards it.
Push(b) ==
    /\ origin[b] \subseteq local[b]
    /\ origin' = [origin EXCEPT ![b] = local[b]]
    /\ prs' = StillOpen(origin')

\* GitHub has taken the push, but the answer is lost: git fails.
PushUnanswered(b) ==
    /\ Push(b)
    /\ cmd' = Idle
    /\ UNCHANGED <<clone, opened>>

Pushed(b) == Push(b) /\ tracking' = [tracking EXCEPT ![b] = local[b]]

-----------------------------------------------------------------------------
(* ltel branch create                                                      *)

CreateStart ==
    /\ cmd = Idle
    /\ \E name \in Branches, base \in Exist(local) :
          cmd' = Command("branch", name, base, NoPr)
    /\ UNCHANGED <<clone, github>>

\* Wrong: git branch --force, so that a failed create can be run again.
MutantBranchable(name) == name # head

\* git branch refuses a name that exists.
Branchable(name) == name \notin Exist(local)

\* Wrong: a branch that is there already is taken as it is.
MutantCreateBranch ==
    /\ local' = IF Branchable(cmd.branch)
                THEN [local EXCEPT ![cmd.branch] = local[cmd.other]] ELSE local
    /\ Runs("branch", "push new")
    /\ UNCHANGED <<tracking, upstream, head, merging, github>>

CreateBranch ==
    /\ Branchable(cmd.branch)
    /\ local' = [local EXCEPT ![cmd.branch] = local[cmd.other]]
    /\ Runs("branch", "push new")
    /\ UNCHANGED <<tracking, upstream, head, merging, github>>

\* Wrong: a push that fails does not end the command.
MutantPushNew ==
    /\ Runs("push new", "checkout new")
    /\ UNCHANGED <<clone, github>>

PushNew ==
    /\ cmd.pc = "push new"
    /\ \/ PushUnanswered(cmd.branch)
       \/ /\ Pushed(cmd.branch)
          /\ upstream' = upstream \cup {cmd.branch}
          /\ Runs("push new", "checkout new")
          /\ UNCHANGED <<local, head, merging, opened>>

CheckoutNew ==
    /\ Checkout(cmd.branch)
    /\ Runs("checkout new", "created")
    /\ UNCHANGED <<local, tracking, upstream, merging, github>>

-----------------------------------------------------------------------------
(* ltel branch delete                                                      *)

\* The branch is chosen and the deletion confirmed; the current branch needs
\* another one to switch to.
DeleteStart ==
    /\ cmd = Idle
    /\ \E b \in Exist(local) :
          \/ b # head /\ cmd' = Command("delete", b, b, NoPr)
          \/ b = head /\ \E to \in Exist(local) \ {b} :
                cmd' = Command("switch", b, to, NoPr)
    /\ UNCHANGED <<clone, github>>

DeleteSwitch ==
    /\ Checkout(cmd.other)
    /\ Runs("switch", "delete")
    /\ UNCHANGED <<local, tracking, upstream, merging, github>>

\* Wrong: git update-ref -d leaves the configuration of the branch behind.
MutantDeleteBranch ==
    /\ cmd.pc = "delete" /\ cmd.branch # head
    /\ local' = [local EXCEPT ![cmd.branch] = Absent]
    /\ cmd' = Idle
    /\ UNCHANGED <<tracking, upstream, head, merging, github>>

\* git branch -D: merged or not.
DeleteBranch ==
    /\ cmd.pc = "delete" /\ cmd.branch # head
    /\ local' = [local EXCEPT ![cmd.branch] = Absent]
    /\ upstream' = upstream \ {cmd.branch}
    /\ cmd' = Idle
    /\ UNCHANGED <<tracking, head, merging, github>>

-----------------------------------------------------------------------------
(* ltel sync                                                               *)

SyncStart ==
    /\ cmd = Idle
    /\ tracking' = Fetched
    /\ cmd' = Command("list", head, head, NoPr)
    /\ UNCHANGED <<local, upstream, head, merging, github>>

\* git fetch --prune; any other branch of origin can be chosen.
SyncList ==
    /\ cmd.pc = "list"
    /\ tracking' = origin
    /\ \E target \in Exist(origin) \ {cmd.branch} :
          cmd' = [cmd EXCEPT !.pc = "merge", !.other = target]
    /\ UNCHANGED <<local, upstream, head, merging, github>>

\* Wrong: the push does not wait for the merge.
MutantSyncMerge ==
    /\ Runs("merge", "push")
    /\ UNCHANGED <<clone, github>>

SyncMerge ==
    /\ merging = {}
    /\ local' = [local EXCEPT ![head] = @ \cup tracking[cmd.other]]
    /\ Runs("merge", "push")
    /\ UNCHANGED <<tracking, upstream, head, merging, github>>

\* Conflicts: git merge fails and leaves the merge to the user.
SyncConflict ==
    /\ cmd.pc = "merge" /\ merging = {}
    /\ ~(tracking[cmd.other] \subseteq local[head])
    /\ ~(local[head] \subseteq tracking[cmd.other])
    /\ merging' = tracking[cmd.other]
    /\ cmd' = Idle
    /\ UNCHANGED <<local, tracking, upstream, head, github>>

\* git push wants an upstream.
SyncPush ==
    /\ cmd.pc = "push" /\ head \in upstream
    /\ \/ PushUnanswered(head)
       \/ /\ Pushed(head)
          /\ Runs("push", "synced")
          /\ UNCHANGED <<local, upstream, head, merging, opened>>

-----------------------------------------------------------------------------
(* ltel pr create, ltel pr merge                                           *)

\* git fetch --prune, then head (any branch of origin, or the current one)
\* and base are chosen.  With uncommitted changes the user may go on.
PrStart ==
    /\ cmd = Idle
    /\ tracking' = origin
    /\ \E h \in Exist(origin) \cup {head}, base \in Exist(origin) \cup {head} :
          h # base /\ cmd' = Command("create pr", h, base, NoPr)
    /\ UNCHANGED <<local, upstream, head, merging, github>>

\* GitHub wants both branches, something to merge, and no such open request.
Proposable(h, base) ==
    /\ {h, base} \subseteq Exist(origin)
    /\ ~(origin[h] \subseteq origin[base])
    /\ \A pr \in prs : pr.head # h \/ pr.base # base

Propose(h, base) ==
    /\ Proposable(h, base) /\ opened < MaxPrs
    /\ opened' = opened + 1
    /\ prs' = prs \cup {[num |-> opened + 1, head |-> h, base |-> base]}
    /\ UNCHANGED origin

CreatePr ==
    /\ cmd.pc = "create pr"
    /\ Propose(cmd.branch, cmd.other)
    /\ cmd' = Idle
    /\ UNCHANGED clone

\* gh pr list, and one of its lines is chosen.
MergeStart ==
    /\ cmd = Idle
    /\ \E pr \in prs :
          cmd' = [Command("merge pr", pr.head, pr.base, pr)
                    EXCEPT !.had = origin[pr.head]]
    /\ UNCHANGED <<clone, github>>

\* Wrong: gh pr merge is given the branch, not the number.
MutantChosen == {pr \in prs : pr.head = cmd.branch}

Chosen == {pr \in prs : pr.num = cmd.pr.num}

\* A merge on GitHub, which may leave other requests with nothing to merge.
Accept(pr) ==
    /\ origin' = [origin EXCEPT ![pr.base] = @ \cup origin[pr.head]]
    /\ prs' = StillOpen(origin')
    /\ UNCHANGED opened

MergePr ==
    /\ cmd.pc = "merge pr"
    /\ \E pr \in Chosen : Accept(pr)
    /\ cmd' = Idle
    /\ UNCHANGED clone

-----------------------------------------------------------------------------
(* The developer by hand, between commands                                 *)

\* Commits nobody has made yet.
Fresh ==
    Commits \ UNION {local[b] \cup origin[b] \cup tracking[b] \cup merging
                        \cup cmd.had : b \in Branches}

Commit ==
    /\ cmd = Idle /\ merging = {}
    /\ \E c \in Fresh : local' = [local EXCEPT ![head] = @ \cup {c}]
    /\ UNCHANGED <<tracking, upstream, head, merging, github, cmd>>

Switch ==
    /\ cmd = Idle
    /\ \E b \in Branches : Checkout(b)
    /\ UNCHANGED <<local, tracking, upstream, merging, github, cmd>>

ConcludeMerge ==
    /\ cmd = Idle /\ merging # {}
    /\ merging' = {}
    /\ \/ local' = [local EXCEPT ![head] = @ \cup merging]
       \/ UNCHANGED local   \* git merge --abort
    /\ UNCHANGED <<tracking, upstream, head, github, cmd>>

(* The others, at any time.                                                *)

\* A commit on a branch, or on a new branch off another one.
OthersPush ==
    /\ \E b \in Branches, from \in Exist(origin), c \in Fresh :
          /\ b \in Exist(origin) => from = b
          /\ origin' = [origin EXCEPT ![b] = origin[from] \cup {c}]
    /\ prs' = StillOpen(origin')
    /\ UNCHANGED <<clone, opened, cmd>>

\* GitHub closes the pull requests of a deleted branch.
OthersDelete ==
    /\ \E b \in Exist(origin) \ {Main} :
          /\ origin' = [origin EXCEPT ![b] = Absent]
          /\ prs' = {pr \in prs : b \notin {pr.head, pr.base}}
    /\ UNCHANGED <<clone, opened, cmd>>

OthersPr ==
    /\ \/ \E h, base \in Branches : Propose(h, base)
       \/ \E pr \in prs : Accept(pr)
    /\ UNCHANGED <<clone, cmd>>

Next ==
    \/ CreateStart \/ CreateBranch \/ PushNew \/ CheckoutNew
    \/ DeleteStart \/ DeleteSwitch \/ DeleteBranch
    \/ SyncStart \/ SyncList \/ SyncMerge \/ SyncConflict \/ SyncPush
    \/ PrStart \/ CreatePr \/ MergeStart \/ MergePr
    \/ Ends
    \/ Commit \/ Switch \/ ConcludeMerge
    \/ OthersPush \/ OthersDelete \/ OthersPr

Spec == Init /\ [][Next]_vars
-----------------------------------------------------------------------------
(* Safety                                                                  *)

\* A branch, local or on GitHub, only ever grows, until somebody deletes it:
\* no command that is run again after a failure, on an old fetch, or beside
\* the pushes of others takes commits off a branch that exists.
BranchesOnlyGrow ==
    [][\A b \in Branches :
          /\ local'[b] # Absent => local[b] \subseteq local'[b]
          /\ origin'[b] # Absent => origin[b] \subseteq origin'[b]]_vars

\* "Branch ... synced with origin/...!" is said only when GitHub has, in the
\* current branch, everything the target branch had when it was fetched,
\* whatever others pushed while the question was open.
SyncedMeansPushed ==
    [][cmd'.pc = "synced" /\ cmd.pc # "synced" =>
          tracking[cmd.other] \subseteq origin'[cmd.branch]]_vars

\* "Switched to new branch ..." is said only of a branch that is on GitHub
\* as far as the clone knows, tracks it, and is the base and nothing else:
\* not what an earlier, failed create of the same name left behind.
CreatedIsPublished ==
    cmd.pc = "created" =>
        /\ head = cmd.branch
        /\ head \in upstream
        /\ tracking[head] = local[head]
        /\ local[head] = local[cmd.other]

\* "PR #... merged!": the base has then all the request had when it was
\* listed, though others may merge or close it, delete its branch, and make
\* new ones of the same names while the list is on the screen.
MergeBringsListed ==
    [][cmd.pc = "merge pr" /\ cmd'.pc = "idle" /\ prs' # prs =>
          cmd.had \subseteq origin'[cmd.other]]_vars
=============================================================================
