----------------------------- MODULE SanityCheck -----------------------------
(***************************************************************************)
(* The built-in workflow sanity-check as the root of a run: it collects    *)
(* the evidence of a contribution, has it reviewed by a group of agents    *)
(* (one, or one for each area), has the reviews verified by one more, and  *)
(* shows the report and a summary of it.                                   *)
(*                                                                         *)
(* No node has an edge for failure.  The engine leaves a node that is      *)
(* cancelled or timed out at once; its agents settle after that.           *)
(***************************************************************************)
EXTENDS AgentGroup

Sanity(n) == At("sanity-check", n)

\* prepare and collectEvidence, then the group of runReviews: one agent, or
\* one for each area at the same time.
Collect ==
    /\ Sanity("prepare")
    /\ \/ /\ \E mode \in {"serial", "parallel"} :
                IF mode = "serial" THEN StartGroup(1, 1) ELSE StartGroup(MaxAgents, MaxAgents)
          /\ Advance(<< >>, "review")
       \/ Fail /\ UNCHANGED groupVars

GroupWorks ==
    /\ workflow = "sanity-check"
    /\ AgentSteps
    /\ UNCHANGED runVars

\* runReviews after its group; parseReviewOutput may refuse what it returned.
Reviewed ==
    /\ Sanity("review") /\ pool.result # None
    /\ \/ /\ pool.result = "completed"
          /\ StartGroup(1, 1)
          /\ Advance(<<Step("root", "review", "ok")>>, "verify")
       \/ Fail /\ UNCHANGED groupVars

\* verifyReviews after its group.
Verified ==
    /\ Sanity("verify") /\ pool.result # None
    /\ \/ /\ pool.result = "completed"
          /\ Advance(<<Step("root", "verify", "ok")>>, "report")
       \/ Fail
    /\ UNCHANGED groupVars

\* The node's timeout or the cancellation of the run, in either node.
ReviewCutOff ==
    /\ Sanity("review") \/ Sanity("verify")
    /\ pool.on /\ ~pool.cancelled
    /\ CancelGroup
    /\ Fail

\* detailedReport, plainSummary and finish; buildSanityCheckSummaryInput
\* throws when the report shown is not the one verified.
Report ==
    /\ Sanity("report")
    /\ \/ Advance(<< >>, "completed")
       \/ Fail
    /\ UNCHANGED groupVars

SanityNext ==
    \/ Collect \/ GroupWorks \/ Reviewed \/ Verified \/ ReviewCutOff \/ Report
=============================================================================
