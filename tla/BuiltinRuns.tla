----------------------------- MODULE BuiltinRuns -----------------------------
(***************************************************************************)
(* A run of one built-in workflow: autoimplement, plan-change,             *)
(* change-verification, monitor, sanity-check or workspace-preparation as  *)
(* the root.  The root is chosen when the run starts; the engine then      *)
(* executes its nodes one after the other until it reaches an exit or      *)
(* fails.                                                                  *)
(***************************************************************************)
EXTENDS ChangeVerification, PlanChange, AutoImplement,
        Monitor, SanityCheck, Workspace

vars == <<runVars, verificationVars, planVars, implementVars,
          monitorVars, groupVars, workspaceVars>>

Roots == {"autoimplement", "plan-change", "change-verification",
          "monitor", "sanity-check", "workspace-preparation"}

FirstNode == [w \in Roots |->
                CASE w = "autoimplement"         -> "observe"
                  [] w = "plan-change"           -> "design"
                  [] w = "change-verification"   -> "selectChecks"
                  [] w = "monitor"               -> "observe"
                  [] w = "sanity-check"          -> "prepare"
                  [] w = "workspace-preparation" -> "inspect"]

\* The variables of a workflow that is not the root are not used.
Init ==
    /\ workflow \in DOMAIN FirstNode
    /\ node = FirstNode[workflow]
    /\ steps = << >>
    /\ IF workflow = "change-verification" THEN VerificationInit
       ELSE /\ trait = None /\ untested = None /\ cand = None /\ found = None
            /\ unsettled = FALSE
    /\ IF workflow = "plan-change" THEN PlanInit
       ELSE request = None /\ docs = None /\ consent = None /\ wrote = None
    /\ IF workflow = "autoimplement" THEN ImplementInit
       ELSE /\ attempt = None /\ control = None /\ work = None /\ gates = None
    /\ MonitorInit
    /\ GroupInit
    /\ IF workflow = "workspace-preparation" THEN WorkspaceInit
       ELSE repo = None /\ wanted = None /\ ready = None

Verify   == VerificationNext /\ UNCHANGED <<planVars, implementVars, monitorVars,
                                           groupVars, workspaceVars>>
Plan     == PlanNext /\ UNCHANGED <<verificationVars, implementVars, monitorVars,
                                   groupVars, workspaceVars>>
Automate == ImplementNext /\ UNCHANGED <<verificationVars, planVars, monitorVars,
                                        groupVars, workspaceVars>>
Watch    == MonitorNext /\ UNCHANGED <<verificationVars, planVars, implementVars,
                                      groupVars, workspaceVars>>
Check    == SanityNext /\ UNCHANGED <<verificationVars, planVars, implementVars,
                                     monitorVars, workspaceVars>>
Prepare  == WorkspaceNext /\ UNCHANGED <<verificationVars, planVars, implementVars,
                                        monitorVars, groupVars>>

Next == Verify \/ Plan \/ Automate \/ Watch \/ Check \/ Prepare

\* The engine goes on with a run (executeGraph) and every node is left after
\* its timeout at the latest, the workflows it includes among them; sessions
\* answer or are aborted by their time limit.  Persons who answer a plan of
\* plan-change as the root are not assumed to.
RunFairness == WF_vars(Verify) /\ WF_vars(Automate) /\ WF_vars(Watch) /\ WF_vars(Check)

Spec == Init /\ [][Next]_vars
FairSpec == Spec /\ RunFairness

\* A run of these workflows ends, however its agents answer, fail or time
\* out: the controller's decisions and failures (autoimplementObservation,
\* controlFailure), the repairs (repairGuard) and the observations of a
\* monitor (decide) are counted, and a group of agents settles.
RunEnds ==
    workflow \in {"autoimplement", "change-verification", "monitor", "sanity-check"}
        ~> node \in Ended
=============================================================================
