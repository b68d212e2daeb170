---------------------------- MODULE AutoImplement ----------------------------
(***************************************************************************)
(* The built-in workflow autoimplement as the root of a run.  A loop of    *)
(* observe, decide and one branch carries a task from a plan to a          *)
(* delivery: after each branch the workflow computes which routes the      *)
(* result leaves open, and an agent, the controller, takes one of them.    *)
(*                                                                         *)
(* A branch is one action.  The workflows it includes are taken by their   *)
(* exits: workspace-preparation, autodoc and plan-change (redesign) and    *)
(* change-verification (localVerification); one that fails ends the run.   *)
(* There is one repository; a step's output is what later nodes read.      *)
(***************************************************************************)
EXTENDS WorkflowRun

VARIABLES attempt,         \* latestControlAttempt: its node and its result
          control,         \* the controller: routes open, route taken, counts
          work,            \* plan, workspace and latest outputs of the steps
          gates            \* ghost: what holds of the content to be delivered

implementVars == <<attempt, control, work, gates>>

MaxDecisions       == 40   \* MAX_CONTROL_DECISIONS
MaxControlFailures == 3    \* MAX_CONTROL_FAILURES
MaxNoProgress      == 3    \* MAX_CONSECUTIVE_NO_PROGRESS_ATTEMPTS

Implementing(n) == At("autoimplement", n)

ImplementInit ==
    /\ attempt = <<"prepare", "ok">>
    /\ control = [routes |-> {}, last |-> None, streak |-> 0,
                  failures |-> 0, decisions |-> 0]
    /\ work \in [plan : BOOLEAN, workspace : BOOLEAN, documented : BOOLEAN,
                 mode : {"pullRequest", "defaultBranch"},
                 implement : {"none"}, publish : {"none"}]
    /\ work.documented => work.plan
    /\ gates = [verified |-> FALSE, pushed |-> FALSE, p2Head |-> FALSE,
                verdict |-> "none", comments |-> FALSE, ci |-> FALSE]

-----------------------------------------------------------------------------
(* The routes a result leaves open.                                        *)

\* initialControlRoutes.
InitialRoutes ==
    IF ~work.plan THEN {"planDiscovery"}
    ELSE IF ~work.workspace THEN {"workspace"}
    ELSE {"redesign", IF work.documented THEN "implementation" ELSE "documentation"}

AfterWorkspace ==
    {"redesign", IF work.documented THEN "implementation" ELSE "documentation"}

\* resultRoutes, `blocked` left out: it is always open but after a completed
\* delivery, where `complete` alone is.
Routes(a) ==
    CASE a = <<"prepare", "ok">>                 -> InitialRoutes
      [] a = <<"workspace", "ready">>            -> AfterWorkspace
      [] a = <<"workspace", "blocked">>          -> {"workspace", "redesign"}
      [] a = <<"documentation", "ready">>        -> {"implementation", "redesign"}
      [] a = <<"documentation", "blocked">>      -> {"documentation", "redesign"}
      [] a = <<"findPlan", "found">>             -> {"workspace"}
      [] a[1] = "findPlan" /\ a[2] # "found"     -> {"planDiscovery"}
      [] a = <<"implement", "verify">>           -> {"verification", "repair", "redesign"}
      [] a = <<"implement", "fix">>              -> {"repair", "redesign"}
      [] a = <<"implement", "redesign">>         -> {"redesign", "repair"}
      [] a[1] = "implement" /\ a[2] \in {"blocked", "failed"}
                                                 -> {"implementation", "repair", "redesign"}
      [] a = <<"fix", "ok">>                     -> {"verification", "redesign"}
      [] a = <<"fix", "failed">>                 -> {"repair", "redesign"}
      [] a = <<"localVerification", "ready">>    -> {"publication", "repair", "redesign"}
      [] a = <<"localVerification", "blocked">>  -> {"verification", "repair", "redesign"}
      [] a = <<"publication", "completed">>      -> {"complete"}
      [] a = <<"publication", "open">>           -> {"review", "publication", "redesign"}
      [] a = <<"publish", "failed">>             -> {"publication", "repair", "redesign"}
      [] a = <<"finalizeDefaultBranch", "failed">> -> {"publication", "redesign"}
      [] a[1] = "review" /\ a[2] \in {"reuse", "clean"} -> {"comments", "review"}
      [] a = <<"review", "critical">>            -> {"repair", "redesign"}
      [] a = <<"review", "p2">>                  -> {"addressP2", "repair", "redesign"}
      [] a[1] = "review" /\ a[2] \in {"error", "failed"} -> {"review"}
      [] a = <<"p2", "passed">>                  -> {"comments", "review"}
      [] a = <<"p2", "notPassed">>               -> {"repair", "redesign"}
      [] a = <<"p2", "failed">>                  -> {"addressP2", "repair", "redesign"}
      [] a = <<"comments", "ci">>                -> {"ci", "comments"}
      [] a = <<"comments", "fix">>               -> {"repair", "redesign"}
      [] a = <<"comments", "redesign">>          -> {"redesign", "repair"}
      [] a = <<"comments", "blocked">>           -> {"comments"}
      [] a = <<"comments", "failed">>            -> {"comments", "review"}
      [] a[1] = "ci" /\ a[2] \in {"green", "unrelated"} -> {"delivery", "ci"}
      [] a = <<"ci", "red">>                     -> {"repair", "redesign", "ci"}
      [] a = <<"ci", "pending">>                 -> {"ci"}
      [] a = <<"ci", "interrupted">>             -> {"ci", "repair"}
      [] a = <<"delivery", "completed">>         -> {"complete"}
      [] a[1] = "delivery" /\ a[2] # "completed" -> {"delivery"}
      [] a = <<"adoptPlan", "ok">>               -> {"implementation", "redesign"}
      [] a = <<"redesign", "blocked">>           -> {"redesign"}
      [] a[1] = "controlFailure"                 -> control.routes

Open(a) == IF Routes(a) = {"complete"} THEN {"complete"} ELSE Routes(a) \cup {"blocked"}

\* consecutiveNoProgressAttempts: this observation and those before it that
\* saw the same facts after the same route; `same` is whether they are.
Streak(same) == IF control.last = None THEN 0
                ELSE IF same THEN control.streak + 1 ELSE 1

\* availableRoutes: none but `blocked` at the limit of decisions, and not the
\* route just taken when it made no progress for the third time.
OpenNow(streak) ==
    LET open == IF control.decisions >= MaxDecisions THEN {"blocked"}
                ELSE Open(attempt) IN
    IF control.last \notin {"complete", "blocked"} /\ streak >= MaxNoProgress
    THEN IF open \subseteq {control.last} THEN {"blocked"}
         ELSE open \ {control.last}
    ELSE open

-----------------------------------------------------------------------------
(* observe, decide, controlFailure, dispatch.                              *)

Observe ==
    /\ Implementing("observe")
    /\ \E same \in BOOLEAN :
          LET streak == Min({Streak(same), MaxNoProgress}) IN
          control' = [control EXCEPT !.routes = OpenNow(streak), !.streak = streak]
    /\ Advance(<< >>, "decide")
    /\ UNCHANGED <<attempt, work, gates>>

\* The node a route leads to: itself, but for the two that end the run.
Target(route) == CASE route = "complete" -> "completed"
                   [] route = "blocked"  -> "blocked"
                   [] OTHER              -> route

\* An accepted decision: parseControlDecision admits only an open route.
Decide ==
    /\ Implementing("decide")
    /\ \E route \in control.routes :
          /\ control' = [control EXCEPT !.routes = {}, !.last = route,
                                        !.failures = 0, !.decisions = @ + 1]
          /\ Advance(<< >>, Target(route))
    /\ UNCHANGED <<attempt, work, gates>>

\* Variant: the failures of the controller are not counted.
TooManyFailuresNever == FALSE

TooManyFailures == control.failures + 1 >= MaxControlFailures

\* A decision that failed or timed out, and controlFailure after it.
DecideFails ==
    /\ Implementing("decide")
    /\ control' = [control EXCEPT !.failures = Min({@ + 1, MaxControlFailures})]
    /\ attempt' = <<"controlFailure", control.failures + 1>>
    /\ Advance(<< >>, IF TooManyFailures THEN "blocked" ELSE "observe")
    /\ UNCHANGED <<work, gates>>

-----------------------------------------------------------------------------
(* Branches.                                                               *)

\* A branch returns to observe with its result.
Return(node1, result) ==
    /\ attempt' = <<node1, result>>
    /\ Advance(<< >>, "observe")
    /\ UNCHANGED control

\* The run fails: an included workflow or a node without a failure edge did.
RunFails ==
    /\ Fail
    /\ UNCHANGED implementVars

\* The content changed: nothing that was found of it holds any more.
Edited == gates' = [gates EXCEPT !.verified = FALSE, !.pushed = FALSE,
                                 !.comments = FALSE, !.ci = FALSE]

\* findPlan; a plan that was found may be documented already.
PlanDiscovery ==
    /\ Implementing("planDiscovery")
    /\ \/ /\ \E doc \in BOOLEAN :
                work' = [work EXCEPT !.plan = TRUE, !.documented = doc]
          /\ Return("findPlan", "found")
       \/ \E r \in {"blocked", "failed"} : Return("findPlan", r) /\ UNCHANGED work
    /\ UNCHANGED gates

Workspace ==
    /\ Implementing("workspace")
    /\ \/ work' = [work EXCEPT !.workspace = TRUE] /\ Return("workspace", "ready")
       \/ Return("workspace", "blocked") /\ UNCHANGED work
    /\ UNCHANGED gates

Documentation ==
    /\ Implementing("documentation")
    /\ \/ work' = [work EXCEPT !.documented = TRUE] /\ Return("documentation", "ready")
       \/ Return("documentation", "blocked") /\ UNCHANGED work
    /\ UNCHANGED gates

\* redesign reads the prepared workspace as it is entered (preparedWorkspace
\* throws without one); adoptPlan takes the plan of its ready exit.
Redesign ==
    /\ Implementing("redesign")
    /\ IF ~work.workspace THEN RunFails
       ELSE /\ \/ /\ work' = [work EXCEPT !.plan = TRUE, !.documented = TRUE]
                  /\ Return("adoptPlan", "ok")
               \/ Return("redesign", "blocked") /\ UNCHANGED work
            /\ UNCHANGED gates

\* implement and classifyImplementation; a turn that failed or timed out
\* leaves a step without output, and may have edited.
Implement ==
    /\ Implementing("implementation")
    /\ \E r \in {"verify", "fix", "redesign", "blocked", "failed"} :
          /\ work' = [work EXCEPT !.implement = IF r = "failed" THEN "null" ELSE "ok"]
          /\ Return("implement", r)
    /\ Edited

\* fix: it may end without having changed anything.
Repair ==
    /\ Implementing("repair")
    /\ IF ~work.workspace THEN RunFails
       ELSE /\ \E r \in {"ok", "failed"} : Return("fix", r)
            /\ Edited \/ UNCHANGED gates
            /\ UNCHANGED work

\* localVerification reads the files of the latest `implement` step as it is
\* entered; its own repairs edit.
Verification ==
    /\ Implementing("verification")
    /\ IF work.implement # "ok" THEN RunFails
       ELSE /\ \/ /\ Return("localVerification", "ready")
                  /\ gates' \in {[gates EXCEPT !.verified = TRUE],
                                 [gates EXCEPT !.verified = TRUE, !.pushed = FALSE,
                                               !.comments = FALSE, !.ci = FALSE]}
               \/ Return("localVerification", "blocked") /\ Edited
            /\ UNCHANGED work

\* publish: the head is a new one when the content was edited since, or when
\* a P2 change was pushed on top of the last one.
PublishPullRequest ==
    /\ Implementing("publication") /\ work.mode = "pullRequest"
    /\ \/ /\ gates' = [gates EXCEPT
                 !.pushed = TRUE, !.p2Head = FALSE,
                 !.verdict = IF gates.pushed /\ ~gates.p2Head THEN @ ELSE "none"]
          /\ work' = [work EXCEPT !.publish = "ok"]
          /\ Return("publication", "open")
       \/ /\ work' = [work EXCEPT !.publish = "null"]
          /\ Return("publish", "failed") /\ UNCHANGED gates

\* finalizeDefaultBranch: the delivery of direct work on the default branch.
FinalizeDefaultBranch ==
    /\ Implementing("publication") /\ work.mode = "defaultBranch"
    /\ \/ Return("publication", "completed")
       \/ Return("publication", "open")
       \/ Return("finalizeDefaultBranch", "failed")
    /\ UNCHANGED <<work, gates>>

\* Variant: a review that could not run counts as one.
ReusesOfAnyRound == gates.verdict # "none"

\* selectReviewCommands: the head of the latest `publish` was reviewed, in a
\* round whose reviewer ran, whatever it found.
Reuses == gates.verdict \in {"clean", "p2", "critical"}

\* selectReviewCommands, runReview, assessReview, repairReviewCommand.  The
\* latest `publish` step must have an output.
Review ==
    /\ Implementing("review")
    /\ IF work.publish # "ok" THEN RunFails
       ELSE /\ IF Reuses THEN Return("review", "reuse") /\ UNCHANGED gates
               ELSE \/ \E v \in {"clean", "p2", "critical", "error"} :
                          /\ gates' = [gates EXCEPT !.verdict = v]
                          /\ Return("review", v)
                    \/ Return("review", "failed") /\ UNCHANGED gates
            /\ UNCHANGED work

\* addressP2 and verifyP2, which runs checks and pushes: the pushed head is
\* then another one than that of `publish`.
AddressP2 ==
    /\ Implementing("addressP2")
    /\ \/ /\ gates' = [gates EXCEPT !.verified = TRUE, !.pushed = TRUE, !.p2Head = TRUE,
                                    !.comments = FALSE, !.ci = FALSE]
          /\ Return("p2", "passed")
       \/ /\ gates' = [gates EXCEPT !.verified = FALSE, !.pushed = TRUE, !.p2Head = TRUE,
                                    !.comments = FALSE, !.ci = FALSE]
          /\ Return("p2", "notPassed")
       \/ Return("p2", "failed") /\ Edited
    /\ UNCHANGED work

Comments ==
    /\ Implementing("comments")
    /\ \E r \in {"ci", "fix", "redesign", "blocked", "failed"} :
          /\ gates' = [gates EXCEPT !.comments = r = "ci"]
          /\ Return("comments", r)
    /\ UNCHANGED work

\* inspectCi, trackCi, assessTrackedCi, repairCiCommand and opportunisticTest.
\* `unrelated`: checks failed, none of them because of this change.
Ci ==
    /\ Implementing("ci")
    /\ \E r \in {"green", "unrelated", "red", "pending", "interrupted"} :
          /\ gates' = [gates EXCEPT !.ci = r \in {"green", "unrelated"}]
          /\ Return("ci", r)
    /\ UNCHANGED work

\* finalizeDelivery.
Deliver ==
    /\ Implementing("delivery")
    /\ \E r \in {"completed", "blocked", "failed"} : Return("delivery", r)
    /\ UNCHANGED <<work, gates>>

\* Included workflows that fail, and the two assessing agents without an
\* edge for failure (classifyImplementation, assessReview, assessTrackedCi).
BranchFails ==
    /\ workflow = "autoimplement"
    /\ node \in {"workspace", "documentation", "redesign", "verification",
                 "implementation", "review", "ci"}
    /\ RunFails

ImplementNext ==
    \/ Observe \/ Decide \/ DecideFails
    \/ PlanDiscovery \/ Workspace \/ Documentation \/ Redesign
    \/ Implement \/ Repair \/ Verification
    \/ PublishPullRequest \/ FinalizeDefaultBranch
    \/ Review \/ AddressP2 \/ Comments \/ Ci \/ Deliver
    \/ BranchFails

-----------------------------------------------------------------------------
(* Properties.                                                             *)

\* A pull request is delivered only as it was verified, pushed, reviewed,
\* cleared of comments and passed by CI, all of the same content: an edit of
\* a late repair or redesign must lead through every gate again (resultRoutes
\* opens `delivery` only behind them).  Work on the default branch is
\* delivered only as it was verified.
GatesHold ==
    /\ Implementing("delivery") =>
           /\ gates.verified /\ gates.pushed /\ gates.comments /\ gates.ci
           /\ gates.verdict \in {"clean", "p2", "critical"}
    /\ Implementing("publication") => gates.verified
=============================================================================
