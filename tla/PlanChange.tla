----------------------------- MODULE PlanChange -----------------------------
(***************************************************************************)
(* The built-in workflow plan-change as the root of a run: autoplan writes *)
(* a plan (mount `design`), autodoc records it in the canonical documents  *)
(* (mount `documentation`), and plan-approval asks a person, who may let   *)
(* it pass, stop it or ask for another plan (mount `approval`).  A replan  *)
(* enters the three of them again, so every node reads its inputs through  *)
(* the projection of WorkflowRun, past the outputs of earlier rounds.      *)
(*                                                                         *)
(* autodoc's own includes, workspace-preparation and change-verification,  *)
(* are taken by their exits; autoplan by its two.                          *)
(***************************************************************************)
EXTENDS WorkflowRun

CONSTANTS Plans,           \* plans autoplan may return
          MaxReplans,      \* approval.maxReplans of the request
          MaxReplanAnswers \* bound: how often a person asks for a replan

ASSUME PlanAssumption == None \notin Plans

VARIABLES request,         \* the request: approval mode, an earlier plan,
                           \* and whether it names a repository
          docs,            \* the plan the canonical documents hold
          consent,         \* the plan the latest `continue` was given for
          wrote            \* documents were written in this invocation

planVars == <<request, docs, consent, wrote>>

Planning(n) == At("plan-change", n)

NoConsent == [plan |-> None, by |-> None]

PlanInit ==
    /\ request \in [mode : {"auto", "required", "skip"},
                    previousPlan : Plans \cup {None}, repository : BOOLEAN]
    /\ docs \in Plans \cup {None}
    /\ consent = NoConsent
    /\ wrote = FALSE

-----------------------------------------------------------------------------
(* What the nodes read.                                                    *)

CurrentDesign == MountOutput("design").out
CurrentDocumentation == MountOutput("documentation").out

\* The plan given to autoplan as the previous one: that of the round before.
PriorPlan == IF MountOutput("design") = None THEN request.previousPlan
             ELSE CurrentDesign.plan

\* replanGuard counts the steps named "approval/replan" in the root's
\* projection, which shows a child's exit as "approval" and hides its nodes.
Replans == CountRootSteps("approval/replan")

-----------------------------------------------------------------------------
(* autoplan: ready with a plan, blocked, or a node that fails.             *)

Design ==
    /\ Planning("design")
    /\ \/ \E p \in Plans :
             Advance(<<Enter("design", PriorPlan),
                       Exit("design", "ready", [plan |-> p, changed |-> p # PriorPlan])>>,
                     "assessPlan")
       \/ Advance(<< >>, "blocked")
       \/ Fail
    /\ UNCHANGED planVars

AssessPlan ==
    /\ Planning("assessPlan")
    /\ Advance(<< >>, IF request.previousPlan # None /\ ~CurrentDesign.changed
                      THEN "blocked" ELSE "documentation")
    /\ UNCHANGED planVars

-----------------------------------------------------------------------------
(* autodoc.                                                                *)

\* The mount's entry and inspectDocumentation: the agent reports `current`
\* only of documents that hold the plan.
InspectDocumentation ==
    /\ Planning("documentation")
    /\ wrote' = FALSE
    /\ LET entry == <<Enter("documentation", CurrentDesign.plan)>> IN
       \/ docs = CurrentDesign.plan /\ Advance(entry, "finishDocumentation")
       \/ request.repository /\ Advance(entry, "updateDocumentation")
       \/ Advance(entry, "blocked")
       \/ Fail
    /\ UNCHANGED <<request, docs, consent>>

\* workspace.ready, then updateDocumentation by an agent.
UpdateDocumentation ==
    /\ Planning("updateDocumentation")
    /\ LET plan == Input("documentation") IN
       \/ /\ docs' = plan /\ wrote' = TRUE
          /\ Advance(<<Step("documentation", "updateDocumentation", plan)>>,
                     "verifyDocumentation")
       \/ Advance(<< >>, "blocked") /\ UNCHANGED <<docs, wrote>>
       \/ Fail /\ UNCHANGED <<docs, wrote>>
    /\ UNCHANGED <<request, consent>>

\* The included change-verification, ready, blocked or failed.
VerifyDocumentation ==
    /\ Planning("verifyDocumentation")
    /\ \/ Advance(<<Step("documentation", "verification", "ready")>>,
                  "finishDocumentation")
       \/ Advance(<< >>, "blocked")
       \/ Fail
    /\ UNCHANGED planVars

\* finalize of autodoc: the documents are `updated` when this invocation's
\* outputs hold an update, `current` otherwise.
FinishDocumentation ==
    /\ Planning("finishDocumentation")
    /\ Advance(<<Exit("documentation", "ready",
                   [plan |-> Input("documentation"),
                    updated |-> Output("documentation", "updateDocumentation") # None])>>,
               "approval")
    /\ UNCHANGED planVars

-----------------------------------------------------------------------------
(* plan-approval.                                                          *)

Approved(by) == [plan |-> Input("approval"), by |-> by]

\* onTimeout: only the auto mode continues without an answer.
MayTimeOut == request.mode = "auto"

\* routePolicy: skip continues at once, the other modes ask.
RoutePolicy ==
    /\ Planning("approval")
    /\ IF request.mode = "skip"
       THEN /\ consent' = [plan |-> CurrentDocumentation.plan, by |-> "skipped"]
            /\ Advance(<<Enter("approval", CurrentDocumentation.plan), Exit("approval", "continue", "skipped")>>,
                       "finalize")
       ELSE Advance(<<Enter("approval", CurrentDocumentation.plan)>>, "approve") /\ UNCHANGED consent
    /\ UNCHANGED <<request, docs, wrote>>

\* The gate is answered with `continue`, by a person or by its timeout.
Continue ==
    /\ Planning("approve")
    /\ \E by \in {"human"} \cup {t \in {"timeout"} : MayTimeOut} :
          /\ consent' = Approved(by)
          /\ Advance(<<Exit("approval", "continue", by)>>, "finalize")
    /\ UNCHANGED <<request, docs, wrote>>

Stop ==
    /\ Planning("approve")
    /\ Advance(<<Exit("approval", "stop", "human")>>, "blocked")
    /\ UNCHANGED <<request, docs, consent, wrote>>

\* A person asks for another plan; MaxReplanAnswers bounds the person.
Replan ==
    /\ Planning("approve")
    /\ Cardinality({i \in DOMAIN steps : steps[i].name = "replan"}) < MaxReplanAnswers
    /\ Advance(<<Step("approval", "replan", "human"),
                 Exit("approval", "replan", "human")>>, "replanGuard")
    /\ UNCHANGED <<request, docs, consent, wrote>>

ReplanGuard ==
    /\ Planning("replanGuard")
    /\ Advance(<< >>, IF Replans > MaxReplans THEN "blocked" ELSE "design")
    /\ UNCHANGED planVars

\* finalize: the documented plan, with the resolution of its approval.
Finalize ==
    /\ Planning("finalize")
    /\ Advance(<<Step("root", "finalize",
                   [plan |-> CurrentDocumentation.plan,
                    by |-> MountOutput("approval").out,
                    updated |-> CurrentDocumentation.updated])>>, "ready")
    /\ UNCHANGED planVars

PlanNext ==
    \/ Design \/ AssessPlan
    \/ InspectDocumentation \/ UpdateDocumentation
    \/ VerifyDocumentation \/ FinishDocumentation
    \/ RoutePolicy \/ Continue \/ Stop \/ Replan \/ ReplanGuard
    \/ Finalize

-----------------------------------------------------------------------------
(* Properties.                                                             *)

\* A ready result, however often the plan was redone, returns the plan of
\* the latest round, which the documents hold and which was let through for
\* that plan the way the mode allows; and it reports an update only when the
\* round it returns made it, so that no verification of an earlier round is
\* returned with it (finalize, projectWorkflowContext).
ReadyPlanIsApproved ==
    LET r == Output("root", "finalize") IN
    workflow = "plan-change" /\ r # None =>
        /\ r.plan = CurrentDesign.plan /\ r.plan = docs
        /\ consent = [plan |-> r.plan, by |-> r.by]
        /\ CASE request.mode = "skip"     -> r.by = "skipped"
             [] request.mode = "required" -> r.by = "human"
             [] request.mode = "auto"     -> r.by \in {"human", "timeout"}
        /\ r.updated <=> wrote
=============================================================================
