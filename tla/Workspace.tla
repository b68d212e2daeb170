------------------------------ MODULE Workspace ------------------------------
(***************************************************************************)
(* The built-in workflow workspace-preparation as the root of a run: it    *)
(* adopts the branch of a checkout, or creates a branch or a worktree with *)
(* a name an agent proposes.                                               *)
(*                                                                         *)
(* The repository is not the run's alone: between two nodes a person who   *)
(* works in the same checkout edits, commits, switches and creates         *)
(* branches.  The branch `main` is the default branch of the repository.   *)
(***************************************************************************)
EXTENDS WorkflowRun

CONSTANT Branches          \* names of branches, `main` among them
ASSUME BranchAssumption == "main" \in Branches

VARIABLES repo,            \* the checkout: its branch, its edits, the branches
          wanted,          \* the input of the workflow
          ready            \* the prepared workspace of the ready exit

workspaceVars == <<repo, wanted, ready>>

Modes == {"branch", "worktree", "defaultBranch"}

\* A prepared workspace an earlier run or stage was given.
Receipts == [mode : Modes, base : Branches, branch : Branches, direct : BOOLEAN]

WorkspaceInit ==
    /\ repo \in [branch : Branches, dirty : BOOLEAN, trees : {{}, Branches \ {"main"}},
                 all : {b \in SUBSET Branches : "main" \in b}, based : BOOLEAN]
    /\ repo.branch \in repo.all /\ repo.trees \subseteq repo.all
    /\ wanted \in [mode : {"auto"} \cup Modes, base : {None} \cup Branches,
                   direct : BOOLEAN, receipt : {None} \cup Receipts]
    /\ wanted.receipt # None =>
           IF wanted.receipt.mode = "defaultBranch"
           THEN wanted.receipt.branch = wanted.receipt.base /\ wanted.receipt.direct
           ELSE /\ wanted.receipt.branch \notin {"main", wanted.receipt.base}
                /\ ~wanted.receipt.direct
    /\ ready = None

Preparing(n) == At("workspace-preparation", n)

\* discoveredDefault: origin/HEAD, or `main` among the local branches.
Base == IF wanted.base = None THEN "main" ELSE wanted.base

Receipt(mode, branch) ==
    [mode |-> mode, base |-> Base, branch |-> branch,
     direct |-> mode = "defaultBranch" /\ wanted.direct]

-----------------------------------------------------------------------------
(* The person who works in the repository.                                 *)

Person ==
    /\ workflow = "workspace-preparation" /\ node \in {"propose", "apply"}
    /\ \/ repo' = [repo EXCEPT !.dirty = ~@]
       \/ \E b \in Branches : repo' = [repo EXCEPT !.branch = b, !.all = @ \cup {b}]
    /\ UNCHANGED <<runVars, wanted, ready>>

-----------------------------------------------------------------------------
(* inspect: inspectWorkspace.                                              *)

\* Variant: the receipt is authority enough.
HoldsAuthorityOnce(r) == r.direct

\* Work on the default branch needs the authority of the receipt and of this
\* request.
HoldsAuthority(r) == r.direct /\ wanted.direct

\* The prepared workspace is still what it says: its branch is checked out,
\* in its worktree or in the checkout.
StillHolds(r) ==
    /\ wanted.base \in {None, r.base}
    /\ r.branch \in repo.all
    /\ IF r.mode = "worktree" THEN r.branch \in repo.trees ELSE repo.branch = r.branch
    /\ r.mode = "defaultBranch" => r.branch = r.base /\ HoldsAuthority(r)

Blocked == [route |-> "blocked", mode |-> None, receipt |-> None]

\* What inspectWorkspace answers: its route, and the mode or the workspace.
\* `based`: the checkout's head descends from the base revision.
Inspection ==
    LET mode == IF wanted.mode = "worktree" \/ (wanted.mode = "auto" /\ repo.dirty)
                THEN "worktree" ELSE "branch"
        adopt(r) == [route |-> "ready", mode |-> r.mode, receipt |-> r] IN
    IF wanted.receipt # None
    THEN IF StillHolds(wanted.receipt) /\ repo.based THEN adopt(wanted.receipt) ELSE Blocked
    ELSE IF Base \notin repo.all THEN Blocked
    ELSE IF wanted.mode = "defaultBranch"
    THEN IF Base = "main" /\ repo.branch = "main" /\ wanted.direct /\ ~repo.dirty
         THEN adopt(Receipt("defaultBranch", "main")) ELSE Blocked
    ELSE IF wanted.mode # "worktree" /\ repo.branch # Base
    THEN IF repo.based THEN adopt(Receipt("branch", repo.branch)) ELSE Blocked
    ELSE IF mode = "branch" /\ repo.dirty THEN Blocked
    ELSE [route |-> "propose", mode |-> mode, receipt |-> None]

\* A git command that fails blocks.
Inspect ==
    /\ Preparing("inspect")
    /\ \E result \in {Inspection, Blocked} :
          Advance(<<Step("root", "inspect", result)>>,
                  IF result.route = "propose" THEN "propose" ELSE "exit")
    /\ UNCHANGED workspaceVars

-----------------------------------------------------------------------------
(* propose and apply.                                                      *)

ProposeName ==
    /\ Preparing("propose")
    /\ \/ \E b \in Branches : Advance(<<Step("root", "propose", b)>>, "apply")
       \/ Fail
    /\ UNCHANGED workspaceVars

\* validateBranchName: a new name that is not the base branch.
NameIsFree(b) == b # Base /\ b \notin repo.all

\* prepareWorkspace: git switch -c takes the edits of the checkout along; git
\* worktree add leaves them.
Apply ==
    /\ Preparing("apply")
    /\ LET b == Output("root", "propose")
           mode == Output("root", "inspect").mode
           made == [route |-> "ready", mode |-> mode, receipt |-> Receipt(mode, b)] IN
       \/ /\ NameIsFree(b)
          /\ repo' = IF mode = "branch"
                     THEN [repo EXCEPT !.branch = b, !.all = @ \cup {b}]
                     ELSE [repo EXCEPT !.trees = @ \cup {b}, !.all = @ \cup {b}]
          /\ Advance(<<Step("root", "apply", made)>>, "exit")
       \/ Advance(<<Step("root", "apply", Blocked)>>, "exit") /\ UNCHANGED repo
    /\ UNCHANGED <<wanted, ready>>

\* ready and blocked: outputs.apply ?? outputs.inspect.
LeaveWorkspace ==
    /\ Preparing("exit")
    /\ LET result == IF Output("root", "apply") # None THEN Output("root", "apply")
                     ELSE Output("root", "inspect") IN
       /\ ready' = result.receipt
       /\ Advance(<< >>, result.route)
    /\ UNCHANGED <<repo, wanted>>

WorkspaceNext == Person \/ Inspect \/ ProposeName \/ Apply \/ LeaveWorkspace

-----------------------------------------------------------------------------
\* A run works on its base branch only with the authority this request
\* gives, whatever an earlier receipt says (inspectWorkspace): a
\* receipt outlives the request that gave the authority.
AuthorizedDirectWork ==
    ready # None /\ ready.branch = ready.base => wanted.direct
=============================================================================
