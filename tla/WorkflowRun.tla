----------------------------- MODULE WorkflowRun -----------------------------
(***************************************************************************)
(* What the engine keeps for one run of a built-in workflow, and what a    *)
(* node of an included workflow is given to read of it.  executeGraph runs *)
(* one node after the other, records each attempt as a step, and follows   *)
(* an edge; projectWorkflowContext shows a node the steps of the latest    *)
(* invocation of its own scope.                                            *)
(*                                                                         *)
(* A node is the pair of its scope and its local name.  The entry and the  *)
(* exits of an included workflow are steps too; the parent reads an exit   *)
(* under the mount's name.                                                 *)
(***************************************************************************)
EXTENDS Naturals, Sequences, FiniteSetsExt

CONSTANT None              \* null and undefined

VARIABLES workflow,        \* the workflow the run executes
          node,            \* the node to execute next, or how the run ended
          steps            \* state.steps: the attempts recorded, in order

runVars == <<workflow, node, steps>>

Ended == {"ready", "completed", "blocked", "failed"}

\* executeGraph: the node the run is about to execute.
At(w, n) == workflow = w /\ node = n

\* recordAttempt and resolveNext: the steps recorded, then the next node.
Advance(recorded, next) ==
    /\ steps' = steps \o recorded
    /\ node' = next
    /\ UNCHANGED workflow

\* routeAfterFailure without an edge for the outcome: the run ends failed.
Fail == Advance(<< >>, "failed")

Step(scope, name, output) == [scope |-> scope, name |-> name, out |-> output]
Enter(mount, input)       == Step(mount, "entry", input)
Exit(mount, exit, output) == Step(mount, "exit", [exit |-> exit, out |-> output])

-----------------------------------------------------------------------------
(* projectWorkflowContext, for the root scope and the workflows it mounts. *)

LatestStep(scope, name) ==
    Max({0} \cup {i \in DOMAIN steps :
                     steps[i].scope = scope /\ steps[i].name = name})

\* The step that entered the latest invocation of a scope.
EntryIndex(scope) == IF scope = "root" THEN 0 ELSE LatestStep(scope, "entry")

\* localInput: what that entry passed to the included workflow.
Input(scope) == steps[EntryIndex(scope)].out

\* Variant: an output of an earlier invocation is shown.
OutputOfAnyInvocation(scope, name) ==
    LET i == LatestStep(scope, name) IN
    IF i = 0 THEN None ELSE steps[i].out

\* outputs[name]: what the latest attempt in this invocation returned.
Output(scope, name) ==
    LET i == LatestStep(scope, name) IN
    IF i <= EntryIndex(scope) THEN None ELSE steps[i].out

\* outputs[mount] of the root: the latest exit of an included workflow.
MountOutput(mount) ==
    LET i == LatestStep(mount, "exit") IN
    IF i = 0 THEN None ELSE steps[i].out

\* The name the root scope shows for a step of its own or of a child's exit;
\* other steps of a child are hidden.
RootName(s) == IF s.scope = "root" THEN s.name
               ELSE IF s.name = "exit" THEN s.scope
               ELSE None

\* context.state.steps.filter(...) in a node of the root scope.
CountRootSteps(name) ==
    Cardinality({i \in DOMAIN steps : RootName(steps[i]) = name})
=============================================================================
