------------------------- MODULE ChangeVerification -------------------------
(***************************************************************************)
(* The built-in workflow change-verification as the root of a run: checks  *)
(* run on the candidate and on the base, the results are compared, and     *)
(* failures of the candidate are repaired, mechanically or by an agent, at *)
(* most twice.  An agent's repair that failed or timed out may leave       *)
(* commands of its turn running; a read-only agent reconciles them before  *)
(* anything else touches the workspace.                                    *)
(*                                                                         *)
(* A check is a model value; its result is one of four kinds, and two      *)
(* failures have the same fingerprint when they are of the same kind.      *)
(***************************************************************************)
EXTENDS WorkflowRun

CONSTANTS Checks,
          Results          \* Results[c]: what check c may find on the candidate

ResultKinds == {"passed", "failed", "otherFailed", "incomplete"}

ASSUME ResultsAssumption == Results \in [Checks -> SUBSET ResultKinds]

VARIABLES trait,           \* trait[c]: how the plan declares check c
          untested,        \* the request or the plan lists a check that cannot run
          cand,            \* outputs.runCandidate, until it is classified
          found,           \* latestClassification, from runBase to the next checks
          unsettled        \* commands of an interrupted repair still run

verificationVars == <<trait, untested, cand, found, unsettled>>

MaxRepairAttempts == 2     \* MAX_REPAIR_ATTEMPTS

\* A check that only the candidate can run (not read-only, or not eligible
\* for the base), a comparable one, and a comparable one with a fixer.
Traits  == {"candidateOnly", "comparable", "fixable"}

Verifying(n) == At("change-verification", n)

\* Nothing was classified yet.
NothingFound == [related |-> {}, unknown |-> {}, uncleaned |-> FALSE,
                 untested |-> FALSE, rejected |-> FALSE]

VerificationInit ==
    /\ trait \in [Checks -> Traits]
    /\ untested \in BOOLEAN
    /\ cand = [c \in Checks |-> "incomplete"]
    /\ found = NothingFound
    /\ unsettled = FALSE


-----------------------------------------------------------------------------
(* Classification.                                                         *)

\* classifyVerification for one check, from its two results; the base's is
\* incomplete when the base could not be set up.
Kind(c, r, b) ==
    IF r = "incomplete" THEN "unknown"
    ELSE IF trait[c] = "candidateOnly" \/ b = "incomplete"
         THEN IF r = "passed" THEN "none" ELSE "unknown"
    ELSE IF r = "passed" THEN IF b = "passed" THEN "none" ELSE "fixed"
    ELSE IF b = "passed" THEN "related"
    ELSE IF r = b THEN "unrelated" ELSE "unknown"

\* The base's part of the fingerprint, where the two were compared.
Compared(c, b) == IF cand[c] = "incomplete" \/ trait[c] = "candidateOnly"
                  THEN None ELSE b

\* previousRepairAttempts: the repairs recorded, ended well or not.
RepairAttempts ==
    {i \in DOMAIN steps : steps[i].name \in {"mechanicalRepair", "semanticRepair"}}

\* The findings with their fingerprints; the worktree of the base could not be
\* removed (base-cleanup); a fixer that changed undeclared files was rejected
\* in some attempt.
Classify(base, uncleaned) ==
    [related  |-> {<<c, cand[c]>> : c \in {x \in Checks :
                       Kind(x, cand[x], base[x]) = "related"}},
     unknown  |-> {<<c, cand[c], Compared(c, base[c])>> : c \in {x \in Checks :
                       Kind(x, cand[x], base[x]) = "unknown"}},
     uncleaned |-> uncleaned,
     untested |-> untested,
     rejected |-> \E i \in RepairAttempts : steps[i].out.rejected]

\* failureFingerprint covers the findings, not which repairs were made.
Fingerprint == [found EXCEPT !.rejected = FALSE]

\* The route of a classification.
RouteOf(f) ==
    IF f.rejected THEN "blocked"
    ELSE IF f.unknown # {} \/ f.uncleaned \/ f.untested THEN "judge"
    ELSE IF f.related = {} THEN "ready" ELSE "repairGuard"

-----------------------------------------------------------------------------
(* The nodes.                                                              *)

\* selectChecks: the caller supplied the checks, which leaves none untested
\* by plan, or an agent plans them.
SelectChecks ==
    /\ Verifying("selectChecks")
    /\ \E next \in {"runCandidate", "planChecks"} : Advance(<< >>, next)
    /\ UNCHANGED <<trait, untested, cand, found, unsettled>>

\* planChecks: a plan, or a failure or timeout that planChecksBlocked ends.
PlanChecks ==
    /\ Verifying("planChecks")
    /\ \/ Advance(<< >>, "runCandidate")
       \/ Advance(<< >>, "blocked")
    /\ UNCHANGED <<trait, untested, cand, found, unsettled>>

\* runCandidate: every check on the workspace; the action itself may fail,
\* and has no edge for that.
RunCandidate ==
    /\ Verifying("runCandidate")
    /\ \/ /\ cand' \in {r \in [Checks -> ResultKinds] : \A c \in Checks : r[c] \in Results[c]}
          /\ found' = NothingFound
          /\ Advance(<< >>, "runBase")
       \/ Fail /\ UNCHANGED <<cand, found>>
    /\ UNCHANGED <<trait, untested, unsettled>>

\* runBase and classify: the eligible checks on a detached worktree of the
\* base revision, or none of them when it cannot be set up; its removal may
\* fail.
RunBase ==
    /\ Verifying("runBase")
    /\ \E base \in [Checks -> {"passed", "failed", "incomplete"}], uncleaned \in BOOLEAN :
          /\ uncleaned => \E c \in Checks : trait[c] # "candidateOnly"
          /\ found' = Classify(base, uncleaned)
          /\ Advance(<< >>, RouteOf(Classify(base, uncleaned)))
    /\ cand' = [c \in Checks |-> "incomplete"]
    /\ UNCHANGED <<trait, untested, unsettled>>

\* judge: the agent's word on what the comparison could not attribute.
Judge ==
    /\ Verifying("judge")
    /\ \/ \E next \in {"ready", "repairGuard", "blocked"} : Advance(<< >>, next)
       \/ Fail
    /\ UNCHANGED <<trait, untested, cand, found, unsettled>>

AttemptLimit == Cardinality(RepairAttempts) >= MaxRepairAttempts

\* A repair that ended well had been made for the same failures.
Repeated == \E i \in RepairAttempts : steps[i].out.fp = Fingerprint

\* Every related failure has a fixer.
Mechanical == /\ found.related # {}
              /\ \A f \in found.related : trait[f[1]] = "fixable"

RepairGuard ==
    /\ Verifying("repairGuard")
    /\ Advance(<< >>, IF AttemptLimit \/ Repeated THEN "blocked"
                      ELSE IF Mechanical THEN "mechanicalRepair"
                      ELSE "semanticRepair")
    /\ UNCHANGED <<trait, untested, cand, found, unsettled>>

\* A repair with the failures it was made for, if it ended well and they can
\* come again: a failed removal names a worktree, another one every time.
RepairStep(kind, ok, rejected) ==
    <<Step("root", kind, [rejected |-> rejected,
                          fp |-> IF ok /\ ~found.uncleaned THEN Fingerprint ELSE None])>>

\* runMechanicalRepair: the fixer of one check, rejected when it changed
\* files it does not declare; a throw (git, backup) ends the run.
MechanicalRepair ==
    /\ Verifying("mechanicalRepair")
    /\ \/ \E rejected \in BOOLEAN :
             Advance(RepairStep("mechanicalRepair", TRUE, rejected), "runCandidate")
       \/ Fail
    /\ UNCHANGED <<trait, untested, cand, found, unsettled>>

\* semanticRepair: an agent's turn; one that fails or times out may leave
\* commands behind.
SemanticRepair ==
    /\ Verifying("semanticRepair")
    /\ \/ /\ Advance(RepairStep("semanticRepair", TRUE, FALSE), "runCandidate")
          /\ UNCHANGED unsettled
       \/ /\ Advance(RepairStep("semanticRepair", FALSE, FALSE), "reconcileRepair")
          /\ unsettled' \in BOOLEAN
    /\ UNCHANGED <<trait, untested, cand, found>>

\* Variant: the agent's route is taken whether or not its commands settled.
ReconciliationUnchecked(route, settled) == TRUE

\* parseRepairReconciliation.
ReconciliationAllowed(route, settled) == route # "blocked" => settled

\* reconcileRepair and routeRepairReconciliation.  The agent does not claim
\* that commands settled which still run; an answer that is not allowed, a
\* failure and a timeout lead to blocked.
ReconcileRepair ==
    /\ Verifying("reconcileRepair")
    /\ \E settled \in BOOLEAN, route \in {"verify", "retry", "blocked"} :
          /\ settled => ~unsettled
          /\ IF ~ReconciliationAllowed(route, settled)
             THEN Advance(<< >>, "blocked")
             ELSE Advance(<< >>, CASE route = "verify" -> "runCandidate"
                                   [] route = "retry" -> "repairGuard"
                                   [] route = "blocked" -> "blocked")
    /\ UNCHANGED <<trait, untested, cand, found, unsettled>>

\* The commands end by themselves.
CommandsSettle ==
    /\ workflow = "change-verification" /\ unsettled
    /\ unsettled' = FALSE
    /\ UNCHANGED <<runVars, trait, untested, cand, found>>

VerificationNext ==
    \/ SelectChecks \/ PlanChecks
    \/ RunCandidate \/ RunBase \/ Judge
    \/ RepairGuard \/ MechanicalRepair \/ SemanticRepair
    \/ ReconcileRepair \/ CommandsSettle

-----------------------------------------------------------------------------
(* Properties.                                                             *)

\* No check, fixer or repair starts while commands of an interrupted repair
\* still run in the workspace (reconcileRepair): they would change the files
\* under it and its result would belong to neither state.
SettledBeforeWork ==
    node \in {"runCandidate", "mechanicalRepair", "semanticRepair"} => ~unsettled
=============================================================================
