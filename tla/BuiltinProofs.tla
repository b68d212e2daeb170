---------------------------- MODULE BuiltinProofs ----------------------------
(***************************************************************************)
(* Proofs about the built-in workflows, each as the root of a run, for any *)
(* sets of checks, plans, faults and branches and any limits.  A run is of *)
(* one workflow from its start to its end, so each invariant below speaks  *)
(* of one workflow, and the steps of the others cannot disturb it.         *)
(***************************************************************************)
EXTENDS BuiltinRuns, FiniteSetTheorems, SequenceTheorems, WellFoundedInduction, TLAPS

\* Every step is of the workflow the run was started for.
LEMMA StepOfRoot ==
    ASSUME Next
    PROVE  /\ workflow' = workflow
           /\ workflow = "change-verification" => Verify
           /\ workflow = "plan-change" => Plan
           /\ workflow = "autoimplement" => Automate
           /\ workflow = "monitor" => Watch
           /\ workflow = "sanity-check" => Check
           /\ workflow = "workspace-preparation" => Prepare
           /\ workflow # "change-verification" => UNCHANGED verificationVars
           /\ workflow # "plan-change" => UNCHANGED planVars
           /\ workflow # "autoimplement" => UNCHANGED implementVars
           /\ workflow # "monitor" => UNCHANGED monitorVars
           /\ workflow # "sanity-check" => UNCHANGED groupVars
           /\ workflow # "workspace-preparation" => UNCHANGED workspaceVars
<1>1. Verify => workflow = "change-verification" /\ workflow' = workflow
  BY DEF Verify, VerificationNext, SelectChecks, PlanChecks, RunCandidate,
         RunBase, Judge, RepairGuard, MechanicalRepair, SemanticRepair,
         ReconcileRepair, CommandsSettle, Verifying, At, Advance, Fail, runVars
<1>2. Plan => workflow = "plan-change" /\ workflow' = workflow
  BY DEF Plan, PlanNext, Design, AssessPlan, InspectDocumentation,
         UpdateDocumentation, VerifyDocumentation, FinishDocumentation,
         RoutePolicy, Continue, Stop, Replan, ReplanGuard, Finalize,
         Planning, At, Advance, Fail
<1>3. Automate => workflow = "autoimplement" /\ workflow' = workflow
  BY DEF Automate, ImplementNext, Observe, Decide, DecideFails, PlanDiscovery,
         Workspace, Documentation, Redesign, Implement, Repair,
         Verification, PublishPullRequest, FinalizeDefaultBranch, Review,
         AddressP2, Comments, Ci, Deliver, BranchFails, RunFails, Return,
         Implementing, At, Advance, Fail
<1>4. Watch => workflow = "monitor" /\ workflow' = workflow
  BY DEF Watch, MonitorNext, MonitorObserve, GuardObservation, MonitorDecide,
         WaitOrAct, PlanRepair, ImplementRepair, FinishMonitor, Monitoring, At,
         Advance, Fail
<1>5. Check => workflow = "sanity-check" /\ workflow' = workflow
  BY DEF Check, SanityNext, Collect, GroupWorks, Reviewed, Verified,
         ReviewCutOff, Report, Sanity, At, Advance, Fail, runVars
<1>6. Prepare => workflow = "workspace-preparation" /\ workflow' = workflow
  BY DEF Prepare, WorkspaceNext, Person, Inspect, ProposeName, Apply,
         LeaveWorkspace, Preparing, At, Advance, Fail, runVars
<1> QED
  BY <1>1, <1>2, <1>3, <1>4, <1>5, <1>6
     DEF Next, Verify, Plan, Automate, Watch, Check, Prepare

-----------------------------------------------------------------------------
(* change-verification.                                                    *)

\* Commands of an interrupted repair run only while it is reconciled, or when
\* the run ended without having settled them.
VerificationInv ==
    /\ unsettled \in BOOLEAN
    /\ unsettled => /\ workflow = "change-verification"
                    /\ node \in {"reconcileRepair", "blocked"}

LEMMA VerificationStep ==
    ASSUME VerificationInv, Verify, workflow = "change-verification"
    PROVE  VerificationInv'
<1>1. CASE SelectChecks \/ PlanChecks \/ RunCandidate \/ RunBase \/ Judge
           \/ RepairGuard \/ MechanicalRepair
  <2>1. unsettled' = unsettled /\ node \notin {"reconcileRepair", "blocked"}
    BY <1>1 DEF SelectChecks, PlanChecks, RunCandidate, RunBase, Judge,
                RepairGuard, MechanicalRepair, Verifying, At
  <2> QED
    BY <2>1 DEF VerificationInv
<1>2. CASE SemanticRepair
  <2>1. /\ workflow' = workflow /\ node # "blocked" /\ node # "reconcileRepair"
        /\ \/ unsettled' = unsettled
           \/ unsettled' \in BOOLEAN /\ node' = "reconcileRepair"
    BY <1>2 DEF SemanticRepair, Verifying, At, Advance
  <2> QED
    BY <2>1 DEF VerificationInv
<1>3. CASE ReconcileRepair
  BY <1>3 DEF VerificationInv, ReconcileRepair, ReconciliationAllowed,
              Verifying, At, Advance
<1>4. CASE CommandsSettle
  BY <1>4 DEF VerificationInv, CommandsSettle, runVars
<1> QED
  BY <1>1, <1>2, <1>3, <1>4 DEF Verify, VerificationNext

\* No check, fixer or repair works beside commands of an interrupted repair
\* (parseRepairReconciliation).
THEOREM RepairsSettle == Spec => []SettledBeforeWork
<1>1. Init => VerificationInv
  BY DEF Init, VerificationInit, VerificationInv
<1>2. VerificationInv /\ [Next]_vars => VerificationInv'
  <2> SUFFICES ASSUME VerificationInv, [Next]_vars PROVE VerificationInv'
    OBVIOUS
  <2>1. CASE UNCHANGED vars
    BY <2>1 DEF vars, verificationVars, runVars, VerificationInv
  <2>2. CASE Next /\ workflow = "change-verification"
    BY <2>2, StepOfRoot, VerificationStep
  <2>3. CASE Next /\ workflow # "change-verification"
    BY <2>3, StepOfRoot DEF VerificationInv, verificationVars
  <2> QED
    BY <2>1, <2>2, <2>3
<1>3. VerificationInv => SettledBeforeWork
  BY DEF VerificationInv, SettledBeforeWork
<1> QED
  BY <1>1, <1>2, <1>3, PTL DEF Spec

-----------------------------------------------------------------------------
(* sanity-check: the group of agents.                                      *)

Agents == [at : {"queued", "creating", "open", "answered", "closing", "ended"},
           abort : {None, "timeout", "cancelled"}, settled : BOOLEAN,
           failure : {None, "failed", "cancelled"}]

Pools == [on : BOOLEAN, size : 0..MaxAgents, slots : Nat, failFast : BOOLEAN,
          next : 1..(MaxAgents + 1), cancelled : BOOLEAN,
          primary : Index \cup {None},
          result : {None, "completed", "failed", "cancelled"}]

GroupTypes == pool \in Pools /\ agent \in [Index -> Agents]

\* Requests are taken in order, a session is disposed of after its abort
\* settled, and nobody is cancelled before something cancels: the node, or
\* the first failure.
AgentRow(i) ==
    /\ agent[i].at = "queued" <=> i >= pool.next
    /\ agent[i].at \in {"queued", "creating", "closing", "ended"} => agent[i].settled
    /\ "cancelled" \in {agent[i].abort, agent[i].failure} =>
           pool.cancelled \/ pool.primary # None
    /\ agent[i].at = "ended" /\ agent[i].failure # None =>
           pool.cancelled \/ pool.primary # None
    /\ pool.result # None => ~Active(i)

\* The failure the group reports, and what it is when it completed.
PoolRow ==
    /\ pool.on => pool.result = None
    /\ pool.primary # None => /\ agent[pool.primary].at = "ended"
                              /\ agent[pool.primary].failure = "failed"
    /\ pool.result = "completed" => /\ ~pool.cancelled /\ pool.primary = None
                                    /\ pool.next > pool.size

GroupInv == GroupTypes /\ PoolRow /\ \A i \in Index : AgentRow(i)

\* None is neither a request nor one of the words it stands beside.
LEMMA NoneInGroup ==
    /\ None \notin {"completed", "failed", "cancelled", "timeout"}
    /\ \A i \in Index : i # None
BY GroupAssumption DEF Index

LEMMA GroupStarts ==
    ASSUME NEW size \in 1..MaxAgents, NEW slots \in Nat, StartGroup(size, slots)
    PROVE  GroupInv'
<1>1. PICK fast \in BOOLEAN :
         /\ pool' = [NoGroup EXCEPT !.on = TRUE, !.size = size, !.slots = slots,
                                    !.failFast = fast]
         /\ agent' = [i \in Index |-> NoAgent]
  BY DEF StartGroup
<1>2. pool' \in Pools /\ pool'.on /\ pool'.result = None /\ pool'.primary = None
      /\ pool'.next = 1
  <2>1. pool' = [on |-> TRUE, size |-> size, slots |-> slots, failFast |-> fast,
                 next |-> 1, cancelled |-> FALSE, primary |-> None, result |-> None]
    BY <1>1 DEF NoGroup
  <2>2. 1 \in 1..(MaxAgents + 1) /\ size \in 0..MaxAgents
    BY GroupAssumption
  <2> QED
    BY <2>1, <2>2 DEF Pools
<1>3. NoAgent \in Agents /\ NoAgent.at = "queued" /\ NoAgent.settled
      /\ NoAgent.abort = None /\ NoAgent.failure = None
  BY DEF NoAgent, Agents
<1>4. agent' \in [Index -> Agents] /\ \A i \in Index : agent'[i] = NoAgent
  BY <1>1, <1>3
<1>5. PoolRow'
  BY <1>2, NoneInGroup DEF PoolRow
<1>6. ASSUME NEW i \in Index PROVE AgentRow(i)'
  <2>1. i >= 1 /\ None # "cancelled"
    BY NoneInGroup DEF Index
  <2> QED
    BY <2>1, <1>2, <1>3, <1>4, NoneInGroup DEF AgentRow, Active
<1> QED
  BY <1>2, <1>4, <1>5, <1>6 DEF GroupInv, GroupTypes

\* A session that is told to abort.
LEMMA AbortAllRows ==
    ASSUME NEW a \in [Index -> Agents], NEW which,
           NEW reason \in {"timeout", "cancelled"}, NEW i \in Index
    PROVE  LET b == AbortAll(a, which, reason) IN
           /\ b \in [Index -> Agents]
           /\ b[i].at = a[i].at /\ b[i].failure = a[i].failure
           /\ b[i].abort \in {a[i].abort, reason}
           /\ a[i].at # "open" /\ a[i].settled => b[i].settled
BY DEF AbortAll, Agents

\* One agent moves on: what the move must respect.
LEMMA AgentMoves ==
    ASSUME GroupInv, UNCHANGED pool, NEW i \in Index,
           agent' \in [Index -> Agents],
           \A k \in Index \ {i} : agent'[k] = agent[k],
           agent[i].at \notin {"queued", "ended"},
           agent'[i].at \notin {"queued", "ended"},
           agent'[i].at \in {"creating", "closing"} => agent'[i].settled,
           "cancelled" \in {agent'[i].abort, agent'[i].failure} =>
               "cancelled" \in {agent[i].abort, agent[i].failure},
           Active(i)
    PROVE  GroupInv'
<1>1. GroupTypes' /\ PoolRow'
  BY NoneInGroup DEF GroupInv, GroupTypes, Pools, PoolRow, Index
<1>2. ASSUME NEW k \in Index PROVE AgentRow(k)'
  <2>1. CASE k = i
    BY <2>1 DEF GroupInv, AgentRow, Active
  <2>2. CASE k # i
    BY <2>2 DEF GroupInv, AgentRow, Active
  <2> QED
    BY <2>1, <2>2
<1> QED
  BY <1>1, <1>2 DEF GroupInv

\* One agent ends.
LEMMA AgentEndsRows ==
    ASSUME GroupInv, NEW i \in Index, agent[i].at \in {"creating", "closing"},
           NEW failure \in {None, "failed", "cancelled"},
           failure = "cancelled" => "cancelled" \in {agent[i].abort, agent[i].failure},
           AgentEnds(i, failure)
    PROVE  GroupInv'
<1> DEFINE ended == [agent EXCEPT ![i].at = "ended", ![i].failure = failure]
           blame == failure # None /\ IsFirst /\ ~pool.cancelled
<1>1. /\ pool' = IF blame THEN [pool EXCEPT !.primary = i] ELSE pool
      /\ agent' = IF blame /\ pool.failFast THEN AbortAll(ended, Index, "cancelled") ELSE ended
  BY DEF AgentEnds
<1>2. /\ pool \in Pools /\ agent \in [Index -> Agents] /\ AgentRow(i) /\ PoolRow
      /\ agent[i] \in Agents
  BY DEF GroupInv, GroupTypes
<1>3. /\ ended \in [Index -> Agents]
      /\ ended[i].at = "ended" /\ ended[i].failure = failure
      /\ ended[i].abort = agent[i].abort /\ ended[i].settled
      /\ \A k \in Index \ {i} : ended[k] = agent[k]
  BY <1>2 DEF Agents, AgentRow
<1>4. /\ agent' \in [Index -> Agents]
      /\ \A k \in Index : /\ agent'[k].at = ended[k].at
                          /\ agent'[k].failure = ended[k].failure
                          /\ agent'[k].abort # ended[k].abort => blame
                          /\ ended[k].at # "open" /\ ended[k].settled => agent'[k].settled
  <2> HIDE DEF ended, blame
  <2>1. CASE agent' = ended
    BY <2>1, <1>3
  <2>2. CASE blame /\ agent' = AbortAll(ended, Index, "cancelled")
    BY <2>2, <1>3, AbortAllRows
  <2> QED
    BY <2>1, <2>2, <1>1
<1> HIDE DEF ended
<1>5. pool' \in Pools /\ (blame => pool'.primary = i)
      /\ (~blame => pool' = pool)
      /\ pool'.on = pool.on /\ pool'.cancelled = pool.cancelled /\ pool'.next = pool.next
      /\ pool'.size = pool.size /\ pool'.result = pool.result
  BY <1>1, <1>2 DEF Pools
<1>6. pool.result = None /\ i < pool.next
  BY <1>2, GroupAssumption DEF AgentRow, Active, Pools, Index
<1>7. blame => failure = "failed"
  BY <1>2 DEF AgentRow, IsFirst
<1>8. pool.primary # None => pool.primary # i /\ pool.primary \in Index
  BY <1>2 DEF PoolRow, Pools
<1>9. i # None
  BY NoneInGroup DEF Index
<1>10. failure # None => pool'.cancelled \/ pool'.primary # None
  BY <1>5, <1>9 DEF IsFirst
<1>11. PoolRow'
  <2>1. pool'.primary # None => /\ agent'[pool'.primary].at = "ended"
                                /\ agent'[pool'.primary].failure = "failed"
    <3>1. CASE blame
      BY <3>1, <1>3, <1>4, <1>5, <1>7
    <3>2. CASE ~blame
      BY <3>2, <1>2, <1>3, <1>4, <1>5, <1>8 DEF PoolRow
    <3> QED
      BY <3>1, <3>2
  <2> QED
    <3>1. pool'.result = None /\ None # "completed"
      BY <1>5, <1>6, NoneInGroup
    <3> QED
      BY <2>1, <3>1 DEF PoolRow
<1>12. ASSUME NEW k \in Index PROVE AgentRow(k)'
  <2> HIDE DEF blame
  <2>1. /\ agent[k] \in Agents /\ AgentRow(k)
        /\ pool.primary # None => pool'.primary # None
    BY <1>2, <1>5, <1>9 DEF GroupInv
  <2>2. CASE k = i
    <3>1. /\ agent'[i].at = "ended" /\ agent'[i].failure = failure /\ agent'[i].settled
          /\ agent'[i].abort # agent[i].abort => blame
      BY <1>3, <1>4
    <3>2. "cancelled" = agent'[i].abort => pool'.cancelled \/ pool'.primary # None
      BY <3>1, <2>1, <2>2, <1>5, <1>9 DEF AgentRow
    <3> QED
      <4>1. ~(i >= pool'.next) /\ pool'.result = None
        BY <1>2, <1>5, <1>6 DEF Pools, Index
      <4> QED
        BY <4>1, <3>1, <3>2, <2>2, <1>10, NoneInGroup DEF AgentRow
  <2>3. CASE k # i
    <3>1. /\ agent'[k].at = agent[k].at /\ agent'[k].failure = agent[k].failure
          /\ agent'[k].abort # agent[k].abort => blame
          /\ agent[k].at # "open" /\ agent[k].settled => agent'[k].settled
      BY <1>3, <1>4, <2>3
    <3>2. "cancelled" = agent'[k].abort => pool'.cancelled \/ pool'.primary # None
      BY <3>1, <2>1, <1>5, <1>9 DEF AgentRow
    <3> QED
      BY <3>1, <3>2, <2>1, <1>5, <1>6 DEF AgentRow, Active
  <2> QED
    BY <2>2, <2>3
<1> QED
  BY <1>4, <1>5, <1>11, <1>12 DEF GroupInv, GroupTypes

\* A session that moves on keeps the group's rows.
LEMMA SessionSteps ==
    ASSUME GroupInv, NEW i \in Index,
           Created(i) \/ TimesOut(i) \/ Answered(i) \/ AbortSettles(i) \/ Close(i)
    PROVE  GroupInv'
<1>1. agent \in [Index -> Agents] /\ agent[i] \in Agents /\ AgentRow(i)
  BY DEF GroupInv, GroupTypes
<1>2. CASE Created(i)
  <2>1. /\ agent[i].at = "creating" /\ UNCHANGED pool
        /\ agent' = [agent EXCEPT
              ![i].at = IF agent[i].abort = None THEN "open" ELSE "answered",
              ![i].settled = agent[i].abort = None]
    BY <1>2 DEF Created
  <2>2. /\ agent' \in [Index -> Agents]
        /\ \A k \in Index \ {i} : agent'[k] = agent[k]
        /\ agent'[i].at \in {"open", "answered"}
        /\ agent'[i].abort = agent[i].abort /\ agent'[i].failure = agent[i].failure
    BY <1>1, <2>1 DEF Agents
  <2> QED
    BY <2>1, <2>2, AgentMoves DEF Active
<1>3. CASE TimesOut(i)
  <2>1. /\ agent[i].at \in {"creating", "open"} /\ agent[i].abort = None
        /\ agent' = AbortAll(agent, {i}, "timeout") /\ UNCHANGED pool
    BY <1>3 DEF TimesOut
  <2>2. /\ agent' \in [Index -> Agents]
        /\ agent'[i].at = agent[i].at /\ agent'[i].failure = agent[i].failure
        /\ agent'[i].abort \in {agent[i].abort, "timeout"}
        /\ agent[i].at # "open" /\ agent[i].settled => agent'[i].settled
    BY <1>1, <2>1, AbortAllRows
  <2>3. \A k \in Index \ {i} : agent'[k] = agent[k]
    BY <2>1 DEF AbortAll
  <2>4. agent[i].at = "creating" => agent[i].settled
    BY <1>1 DEF AgentRow
  <2> QED
    BY <2>1, <2>2, <2>3, <2>4, AgentMoves, NoneInGroup DEF Active
<1>4. CASE Answered(i)
  <2>1. PICK bad \in BOOLEAN :
           /\ agent[i].at = "open" /\ UNCHANGED pool
           /\ agent' = [agent EXCEPT ![i].at = "answered",
                                     ![i].failure = IF bad THEN "failed" ELSE None]
    BY <1>4 DEF Answered
  <2>2. /\ agent' \in [Index -> Agents]
        /\ \A k \in Index \ {i} : agent'[k] = agent[k]
        /\ agent'[i].at = "answered" /\ agent'[i].abort = agent[i].abort
        /\ agent'[i].failure \in {"failed", None}
    BY <1>1, <2>1 DEF Agents
  <2> QED
    BY <2>1, <2>2, AgentMoves, NoneInGroup DEF Active
<1>5. CASE AbortSettles(i)
  <2>1. ~agent[i].settled /\ agent' = [agent EXCEPT ![i].settled = TRUE] /\ UNCHANGED pool
    BY <1>5 DEF AbortSettles
  <2>2. agent[i].at \in {"open", "answered"}
    BY <1>1, <2>1 DEF AgentRow, Agents
  <2>3. /\ agent' \in [Index -> Agents]
        /\ \A k \in Index \ {i} : agent'[k] = agent[k]
        /\ agent'[i].at = agent[i].at /\ agent'[i].abort = agent[i].abort
        /\ agent'[i].failure = agent[i].failure
    BY <1>1, <2>1 DEF Agents
  <2> QED
    BY <2>1, <2>2, <2>3, AgentMoves DEF Active
<1>6. CASE Close(i)
  <2> DEFINE outcome == CASE agent[i].abort = "timeout"   -> "failed"
                          [] agent[i].abort = "cancelled" -> "cancelled"
                          [] OTHER                        -> agent[i].failure
  <2>1. /\ agent[i].at = "answered" /\ agent[i].settled /\ UNCHANGED pool
        /\ agent' = [agent EXCEPT ![i].at = "closing", ![i].failure = outcome]
    <3>1. agent' = [agent EXCEPT
            ![i].at = "closing",
            ![i].failure = CASE agent[i].abort = "timeout"   -> "failed"
                             [] agent[i].abort = "cancelled" -> "cancelled"
                             [] OTHER                        -> @]
      BY <1>6 DEF Close
    <3> QED
      BY <1>6, <3>1, <1>1 DEF Close, MayClose, Agents
  <2>2. /\ outcome \in {None, "failed", "cancelled"}
        /\ outcome = "cancelled" => "cancelled" \in {agent[i].abort, agent[i].failure}
    BY <1>1 DEF Agents
  <2>3. /\ agent' \in [Index -> Agents]
        /\ \A k \in Index \ {i} : agent'[k] = agent[k]
        /\ agent'[i].at = "closing" /\ agent'[i].abort = agent[i].abort
        /\ agent'[i].settled /\ agent'[i].failure = outcome
    <3> HIDE DEF outcome
    <3> QED
      BY <1>1, <2>1, <2>2 DEF Agents
  <2> QED
    BY <2>1, <2>2, <2>3, AgentMoves DEF Active
<1> QED
  BY <1>2, <1>3, <1>4, <1>5, <1>6

\* A slot takes the next request.
LEMMA RequestTaken ==
    ASSUME GroupInv, NEW i \in Index, TakeNext(i)
    PROVE  GroupInv'
<1>1. /\ pool.on /\ ~Aborted /\ i = pool.next /\ i <= pool.size
      /\ pool' = [pool EXCEPT !.next = i + 1]
      /\ agent' = [agent EXCEPT ![i].at = "creating"]
  BY DEF TakeNext
<1>2. /\ pool \in Pools /\ agent \in [Index -> Agents] /\ agent[i] \in Agents
      /\ AgentRow(i) /\ PoolRow
  BY DEF GroupInv, GroupTypes
<1>3. /\ pool' \in Pools /\ pool'.on = pool.on /\ pool'.next = i + 1
      /\ pool'.cancelled = pool.cancelled /\ pool'.primary = pool.primary
      /\ pool'.result = pool.result
  <2>1. i + 1 \in 1..(MaxAgents + 1)
    BY GroupAssumption DEF Index
  <2> QED
    BY <2>1, <1>1, <1>2 DEF Pools
<1>4. /\ agent' \in [Index -> Agents]
      /\ \A k \in Index \ {i} : agent'[k] = agent[k]
      /\ agent'[i].at = "creating" /\ agent'[i].abort = agent[i].abort
      /\ agent'[i].failure = agent[i].failure /\ agent'[i].settled = agent[i].settled
  BY <1>1, <1>2 DEF Agents
<1>5. agent[i].at = "queued" /\ agent[i].settled
  BY <1>1, <1>2 DEF AgentRow, Index
<1>6. pool.result = None
  BY <1>1, <1>2 DEF PoolRow
<1>7. PoolRow'
  <2>1. pool.primary # None => pool.primary \in Index \ {i}
    BY <1>2, <1>5 DEF PoolRow, Pools
  <2> QED
    BY <2>1, <1>2, <1>3, <1>4, <1>6, NoneInGroup DEF PoolRow
<1>8. ASSUME NEW k \in Index PROVE AgentRow(k)'
  <2>1. CASE k = i
    <3>1. ~(k >= pool'.next)
      BY <2>1, <1>3 DEF Index
    <3> QED
      BY <3>1, <2>1, <1>2, <1>3, <1>4, <1>5, <1>6 DEF AgentRow
  <2>2. CASE k # i
    <3>1. AgentRow(k) /\ (k >= pool'.next <=> k >= pool.next)
      BY <2>2, <1>1, <1>3 DEF GroupInv, Index
    <3> QED
      BY <3>1, <2>2, <1>3, <1>4, <1>6 DEF AgentRow
  <2> QED
    BY <2>1, <2>2
<1> QED
  BY <1>3, <1>4, <1>7, <1>8 DEF GroupInv, GroupTypes

\* A session that ends, whether it was opened or not.
LEMMA SessionEnds ==
    ASSUME GroupInv, NEW i \in Index, CreationFails(i) \/ Dispose(i)
    PROVE  GroupInv'
<1>1. agent[i] \in Agents
  BY DEF GroupInv, GroupTypes
<1>2. CASE CreationFails(i)
  BY <1>2, AgentEndsRows DEF CreationFails
<1>3. CASE Dispose(i)
  <2>1. PICK bad \in BOOLEAN :
           AgentEnds(i, IF bad /\ agent[i].failure = None THEN "failed"
                        ELSE agent[i].failure)
    BY <1>3 DEF Dispose
  <2>2. agent[i].at = "closing" /\ agent[i].failure \in {None, "failed", "cancelled"}
    BY <1>1, <1>3 DEF Dispose, Agents
  <2>3. CASE bad /\ agent[i].failure = None
    BY <2>1, <2>2, <2>3, AgentEndsRows
  <2>4. CASE ~(bad /\ agent[i].failure = None)
    BY <2>1, <2>2, <2>4, AgentEndsRows
  <2> QED
    BY <2>3, <2>4
<1> QED
  BY <1>2, <1>3

\* The group returns or throws.
LEMMA GroupReturns ==
    ASSUME GroupInv, GroupEnds \/ PlanFails
    PROVE  GroupInv'
<1>1. pool \in Pools /\ agent \in [Index -> Agents] /\ PoolRow /\ pool.on
  BY DEF GroupInv, GroupTypes, GroupEnds, PlanFails
<1>2. PICK r \in {"completed", "failed", "cancelled"} :
         /\ pool' = [pool EXCEPT !.on = FALSE, !.result = r]
         /\ r = "completed" => ~pool.cancelled /\ pool.primary = None /\ pool.next > pool.size
         /\ \A i \in Index : ~Active(i)
  <2>1. CASE GroupEnds
    BY <2>1 DEF GroupEnds, Aborted
  <2>2. CASE PlanFails
    <3>1. \A i \in Index : agent[i].at = "queued"
      BY <2>2 DEF PlanFails, GroupInv, AgentRow, Index
    <3> QED
      BY <3>1, <2>2 DEF PlanFails, Active
  <2> QED
    BY <2>1, <2>2
<1>3. /\ pool' \in Pools /\ ~pool'.on /\ pool'.result = r /\ pool'.size = pool.size
      /\ pool'.next = pool.next /\ pool'.cancelled = pool.cancelled
      /\ pool'.primary = pool.primary
  BY <1>1, <1>2 DEF Pools
<1>4. UNCHANGED agent
  BY DEF GroupEnds, PlanFails
<1>5. PoolRow'
  BY <1>1, <1>2, <1>3, <1>4 DEF PoolRow
<1>6. ASSUME NEW i \in Index PROVE AgentRow(i)'
  BY <1>2, <1>3, <1>4 DEF GroupInv, AgentRow, Active
<1> QED
  BY <1>1, <1>3, <1>4, <1>5, <1>6 DEF GroupInv, GroupTypes

\* The node is cut off.
LEMMA GroupCancelled ==
    ASSUME GroupInv, pool.on, CancelGroup
    PROVE  GroupInv'
<1>1. /\ pool \in Pools /\ agent \in [Index -> Agents] /\ PoolRow
      /\ pool' = [pool EXCEPT !.cancelled = TRUE]
      /\ agent' = AbortAll(agent, Index, "cancelled")
  BY DEF GroupInv, GroupTypes, CancelGroup
<1>2. /\ pool' \in Pools /\ pool'.on = pool.on /\ pool'.next = pool.next
      /\ pool'.cancelled /\ pool'.primary = pool.primary /\ pool'.result = pool.result
  BY <1>1 DEF Pools
<1>3. /\ agent' \in [Index -> Agents]
      /\ \A k \in Index :
            /\ agent'[k].at = agent[k].at /\ agent'[k].failure = agent[k].failure
            /\ agent[k].at # "open" /\ agent[k].settled => agent'[k].settled
  <2>1. ASSUME NEW k \in Index
        PROVE  /\ agent' \in [Index -> Agents]
               /\ agent'[k].at = agent[k].at /\ agent'[k].failure = agent[k].failure
               /\ agent[k].at # "open" /\ agent[k].settled => agent'[k].settled
    BY <1>1, AbortAllRows
  <2>2. 1 \in Index
    BY GroupAssumption DEF Index
  <2> QED
    BY <2>1, <2>2
<1>4. pool.result = None
  BY <1>1 DEF PoolRow
<1>5. PoolRow'
  <2>1. pool.primary # None => pool.primary \in Index
    BY <1>1 DEF Pools
  <2> QED
    BY <2>1, <1>1, <1>2, <1>3, <1>4, NoneInGroup DEF PoolRow
<1>6. ASSUME NEW k \in Index PROVE AgentRow(k)'
  BY <1>2, <1>3, <1>4 DEF GroupInv, AgentRow
<1> QED
  BY <1>2, <1>3, <1>5, <1>6 DEF GroupInv, GroupTypes

LEMMA GroupStep ==
    ASSUME GroupInv, Check
    PROVE  GroupInv'
<1>1. CASE UNCHANGED groupVars
  BY <1>1 DEF groupVars, GroupInv, GroupTypes, PoolRow, AgentRow, Active
<1>2. CASE GroupWorks
  <2>1. AgentSteps
    BY <1>2 DEF GroupWorks
  <2>2. CASE GroupEnds \/ PlanFails
    BY <2>2, GroupReturns
  <2>3. ASSUME NEW i \in Index,
               \/ TakeNext(i) \/ Created(i) \/ CreationFails(i) \/ TimesOut(i)
               \/ Answered(i) \/ AbortSettles(i) \/ Close(i) \/ Dispose(i)
        PROVE  GroupInv'
    BY <2>3, RequestTaken, SessionSteps, SessionEnds
  <2> QED
    BY <2>1, <2>2, <2>3 DEF AgentSteps
<1>3. CASE ReviewCutOff
  BY <1>3, GroupCancelled DEF ReviewCutOff
<1>4. CASE Collect \/ Reviewed
  <2>1. \/ UNCHANGED groupVars
        \/ StartGroup(1, 1)
        \/ StartGroup(MaxAgents, MaxAgents)
    BY <1>4 DEF Collect, Reviewed
  <2>2. 1 \in 1..MaxAgents /\ MaxAgents \in 1..MaxAgents /\ 1 \in Nat /\ MaxAgents \in Nat
    BY GroupAssumption
  <2> QED
    BY <2>1, <2>2, <1>1, GroupStarts
<1> QED
  BY <1>1, <1>2, <1>3, <1>4 DEF Check, SanityNext, Verified, Report

\* A group of agents ends in order, and says of itself what its agents say
\* (runSlot, runOneAgent, runPiAgentGroup).
THEOREM GroupsSettle == Spec => []GroupSettles
<1>1. Init => GroupInv
  <2> SUFFICES ASSUME GroupInit PROVE GroupInv
    BY DEF Init
  <2>1. pool \in Pools /\ ~pool.on /\ pool.result = None /\ pool.primary = None
        /\ pool.next = 1
    BY GroupAssumption DEF GroupInit, NoGroup, Pools
  <2>2. NoAgent \in Agents /\ NoAgent.at = "queued" /\ NoAgent.settled
        /\ NoAgent.abort = None /\ NoAgent.failure = None
    BY DEF NoAgent, Agents
  <2>3. agent \in [Index -> Agents] /\ \A i \in Index : agent[i] = NoAgent
    BY <2>2 DEF GroupInit
  <2>4. PoolRow
    BY <2>1, NoneInGroup DEF PoolRow
  <2>5. ASSUME NEW i \in Index PROVE AgentRow(i)
    <3>1. i >= 1
      BY DEF Index
    <3> QED
      BY <3>1, <2>1, <2>2, <2>3, NoneInGroup DEF AgentRow
  <2> QED
    BY <2>1, <2>3, <2>4, <2>5 DEF GroupInv, GroupTypes
<1>2. GroupInv /\ [Next]_vars => GroupInv'
  <2> SUFFICES ASSUME GroupInv, [Next]_vars PROVE GroupInv'
    OBVIOUS
  <2>1. CASE Next /\ workflow = "sanity-check"
    BY <2>1, StepOfRoot, GroupStep
  <2>2. CASE UNCHANGED groupVars
    BY <2>2 DEF groupVars, GroupInv, GroupTypes, PoolRow, AgentRow, Active
  <2> QED
    BY <2>1, <2>2, StepOfRoot DEF vars
<1>3. GroupInv => GroupSettles
  <2> SUFFICES ASSUME GroupInv PROVE GroupSettles
    OBVIOUS
  <2>1. \A i \in Index : agent[i].at \in {"closing", "ended"} => agent[i].settled
    BY DEF GroupInv, AgentRow
  <2>2. ASSUME pool.result = "completed", NEW i \in 1..pool.size
        PROVE  agent[i].at = "ended" /\ agent[i].failure = None
    <3>1. /\ pool \in Pools /\ i \in Index /\ ~(i >= pool.next)
          /\ ~pool.cancelled /\ pool.primary = None
      BY <2>2, GroupAssumption DEF GroupInv, GroupTypes, PoolRow, Pools, Index
    <3>2. agent[i] \in Agents /\ AgentRow(i)
      BY <3>1 DEF GroupInv, GroupTypes
    <3> QED
      BY <3>1, <3>2, <2>2, NoneInGroup DEF AgentRow, Agents, Active
  <2>3. pool.primary # None => agent[pool.primary].failure = "failed"
    BY DEF GroupInv, PoolRow
  <2>4. pool.result # None => \A i \in Index : ~Active(i)
    BY DEF GroupInv, AgentRow
  <2> QED
    BY <2>1, <2>2, <2>3, <2>4 DEF GroupSettles
<1> QED
  BY <1>1, <1>2, <1>3, PTL DEF Spec

-----------------------------------------------------------------------------
(* autoimplement: the gates before a delivery.                             *)

Judged == gates.verdict \in {"clean", "p2", "critical"}

\* What holds of the content wherever a route is open, or taken.  A review
\* that is reached without a published head fails.
RouteOK(route) ==
    /\ route \in {"publication", "review", "comments", "ci", "delivery"} => gates.verified
    /\ route = "review" => gates.pushed \/ work.publish # "ok"
    /\ route \in {"comments", "ci", "delivery"} => gates.pushed
    /\ route \in {"addressP2", "comments", "ci", "delivery"} => Judged
    /\ route \in {"ci", "delivery"} => gates.comments
    /\ route = "delivery" => gates.ci

RouteNames == {"planDiscovery", "workspace", "documentation", "redesign",
               "implementation", "repair", "verification", "publication", "review",
               "addressP2", "comments", "ci", "delivery", "complete", "blocked"}

Gated == {route \in RouteNames : RouteOK(route)}

ImplementTypes ==
    /\ gates \in [verified : BOOLEAN, pushed : BOOLEAN, p2Head : BOOLEAN,
                  verdict : {"none", "clean", "p2", "critical", "error"},
                  comments : BOOLEAN, ci : BOOLEAN]
    /\ work \in [plan : BOOLEAN, workspace : BOOLEAN, documented : BOOLEAN,
                 mode : {"pullRequest", "defaultBranch"},
                 implement : {"none", "ok", "null"}, publish : {"none", "ok", "null"}]
    /\ control = [routes |-> control.routes, last |-> control.last,
                  streak |-> control.streak, failures |-> control.failures,
                  decisions |-> control.decisions]

\* The routes the latest result leaves open, those the controller was shown
\* and the one it took all lie behind their gates.
RoutesAreGated ==
    /\ work.mode = "defaultBranch" => work.publish = "none"
    /\ RouteOK(node)
    /\ node = "observe" => Routes(attempt) \subseteq Gated
    /\ node = "decide" => control.routes \subseteq Gated

ImplementInv == workflow = "autoimplement" => ImplementTypes /\ RoutesAreGated

\* A branch that came back is all that disturbs the open routes.
LEMMA Returned ==
    ASSUME ImplementTypes, ImplementTypes', workflow' = workflow, node' = "observe",
           work'.mode = "defaultBranch" => work'.publish = "none",
           (Routes(attempt) \subseteq Gated)'
    PROVE  ImplementInv'
BY DEF ImplementInv, RoutesAreGated, RouteOK

\* A run that ended, or is in a node behind no gate.
LEMMA Stopped ==
    ASSUME ImplementTypes, RoutesAreGated, UNCHANGED implementVars, node' = "failed"
    PROVE  ImplementInv'
BY DEF ImplementInv, ImplementTypes, RoutesAreGated, RouteOK, implementVars

LEMMA ControllerSteps ==
    ASSUME ImplementTypes, RoutesAreGated, Observe \/ Decide \/ DecideFails
    PROVE  ImplementInv'
<1>1. CASE Observe
  <2>1. PICK streak : control' = [control EXCEPT !.routes = OpenNow(streak),
                                                 !.streak = streak]
    BY <1>1 DEF Observe
  <2>2. node = "observe" /\ node' = "decide" /\ UNCHANGED <<attempt, work, gates>>
    BY <1>1 DEF Observe, Implementing, At, Advance
  <2>3. OpenNow(streak) \subseteq Routes(attempt) \cup {"blocked", "complete"}
    <3>1. Open(attempt) \subseteq Routes(attempt) \cup {"blocked", "complete"}
      BY DEF Open
    <3>2. \A open : (IF control.last \notin {"complete", "blocked"} /\ streak >= MaxNoProgress
                    THEN IF open \subseteq {control.last} THEN {"blocked"}
                         ELSE open \ {control.last}
                    ELSE open) \subseteq open \cup {"blocked"}
      OBVIOUS
    <3> QED
      BY <3>1, <3>2 DEF OpenNow
  <2>4. control'.routes = OpenNow(streak) /\ ImplementTypes'
    <3>1. control' = [routes |-> OpenNow(streak), last |-> control.last,
                      streak |-> streak, failures |-> control.failures,
                      decisions |-> control.decisions]
      BY <2>1 DEF ImplementTypes
    <3> QED
      BY <3>1, <2>2 DEF ImplementTypes
  <2>5. OpenNow(streak) \subseteq Gated
    BY <2>2, <2>3 DEF RoutesAreGated, Gated, RouteNames, RouteOK
  <2>6. Gated' = Gated
    BY <2>2 DEF Gated, RouteOK, Judged
  <2> QED
    BY <2>2, <2>4, <2>5, <2>6 DEF ImplementInv, RoutesAreGated, RouteOK
<1>2. CASE Decide
  <2>1. PICK route \in control.routes :
           /\ control' = [control EXCEPT !.routes = {}, !.last = route,
                                         !.failures = 0, !.decisions = @ + 1]
           /\ node' = Target(route)
    BY <1>2 DEF Decide, Advance
  <2>2. node = "decide" /\ UNCHANGED <<attempt, work, gates>>
    BY <1>2 DEF Decide, Implementing, At
  <2>3. control'.routes = {} /\ ImplementTypes'
    <3>1. control' = [routes |-> {}, last |-> route, streak |-> control.streak,
                      failures |-> 0, decisions |-> control.decisions + 1]
      BY <2>1 DEF ImplementTypes
    <3> QED
      BY <3>1, <2>2 DEF ImplementTypes
  <2>4. RouteOK(route) /\ route \in RouteNames
    BY <2>2 DEF RoutesAreGated, Gated
  <2>5. RouteOK(node') /\ node' # "observe"
    BY <2>1, <2>4 DEF Target, RouteOK, RouteNames
  <2>6. RouteOK(node)'
    BY <2>2, <2>5 DEF RouteOK, Judged
  <2> QED
    BY <2>2, <2>3, <2>5, <2>6 DEF ImplementInv, RoutesAreGated
<1>3. CASE DecideFails
  <2>1. /\ node = "decide" /\ UNCHANGED <<work, gates>>
        /\ control' = [control EXCEPT !.failures = Min({@ + 1, MaxControlFailures})]
        /\ attempt' = <<"controlFailure", control.failures + 1>>
        /\ node' \in {"blocked", "observe"}
    BY <1>3 DEF DecideFails, Implementing, At, Advance
  <2>2. ImplementTypes' /\ control'.routes = control.routes
    BY <2>1 DEF ImplementTypes
  <2>3. Routes(attempt)' = control.routes
    BY <2>1, <2>2 DEF Routes
  <2>4. Gated' = Gated
    BY <2>1 DEF Gated, RouteOK, Judged
  <2> QED
    BY <2>1, <2>2, <2>3, <2>4 DEF ImplementInv, RoutesAreGated, RouteOK
<1> QED
  BY <1>1, <1>2, <1>3

\* The branches before a verification open no route behind a gate.
LEMMA EarlyBranches ==
    ASSUME ImplementTypes, RoutesAreGated, workflow' = workflow,
           \/ PlanDiscovery \/ Workspace \/ Documentation \/ Redesign
           \/ Implement \/ Repair
    PROVE  ImplementInv'
<1> DEFINE Early == {"planDiscovery", "workspace", "documentation", "redesign",
                     "implementation", "repair", "verification"}
<1>1. Early \subseteq Gated'
  BY DEF Gated, RouteNames, RouteOK
<1>2. CASE node' = "failed" /\ UNCHANGED implementVars
  BY <1>2, Stopped
<1>3. CASE PlanDiscovery
  <2>1. node' = "observe" /\ UNCHANGED <<control, gates>>
    BY <1>3 DEF PlanDiscovery, Return, Advance
  <2>2. \/ \E doc \in BOOLEAN : work' = [work EXCEPT !.plan = TRUE, !.documented = doc]
        \/ UNCHANGED work
    BY <1>3 DEF PlanDiscovery
  <2>3. ImplementTypes' /\ work'.mode = work.mode /\ work'.publish = work.publish
    BY <2>1, <2>2 DEF ImplementTypes
  <2>4. \E r \in {"found", "blocked", "failed"} : attempt' = <<"findPlan", r>>
    BY <1>3 DEF PlanDiscovery, Return
  <2>5. Routes(attempt)' \subseteq Early
    BY <2>4 DEF Routes
  <2> QED
    BY <2>1, <2>3, <2>5, <1>1, Returned DEF RoutesAreGated
<1>4. CASE Workspace
  <2>1. node' = "observe" /\ UNCHANGED <<control, gates>>
    BY <1>4 DEF Workspace, Return, Advance
  <2>2. work' = [work EXCEPT !.workspace = TRUE] \/ UNCHANGED work
    BY <1>4 DEF Workspace
  <2>3. ImplementTypes' /\ work'.mode = work.mode /\ work'.publish = work.publish
    BY <2>1, <2>2 DEF ImplementTypes
  <2>4. \E r \in {"ready", "blocked"} : attempt' = <<"workspace", r>>
    BY <1>4 DEF Workspace, Return
  <2>5. Routes(attempt)' \subseteq Early
    BY <2>4 DEF Routes, AfterWorkspace
  <2> QED
    BY <2>1, <2>3, <2>5, <1>1, Returned DEF RoutesAreGated
<1>5. CASE Documentation
  <2>1. node' = "observe" /\ UNCHANGED <<control, gates>>
    BY <1>5 DEF Documentation, Return, Advance
  <2>2. work' = [work EXCEPT !.documented = TRUE] \/ UNCHANGED work
    BY <1>5 DEF Documentation
  <2>3. ImplementTypes' /\ work'.mode = work.mode /\ work'.publish = work.publish
    BY <2>1, <2>2 DEF ImplementTypes
  <2>4. \E r \in {"ready", "blocked"} : attempt' = <<"documentation", r>>
    BY <1>5 DEF Documentation, Return
  <2>5. Routes(attempt)' \subseteq Early
    BY <2>4 DEF Routes
  <2> QED
    BY <2>1, <2>3, <2>5, <1>1, Returned DEF RoutesAreGated
<1>6. CASE Redesign /\ node' # "failed"
  <2>1. /\ node' = "observe" /\ UNCHANGED <<control, gates>>
        /\ \/ /\ work' = [work EXCEPT !.plan = TRUE, !.documented = TRUE]
              /\ attempt' = <<"adoptPlan", "ok">>
           \/ UNCHANGED work /\ attempt' = <<"redesign", "blocked">>
    BY <1>6 DEF Redesign, RunFails, Fail, Return, Advance
  <2>2. ImplementTypes' /\ work'.mode = work.mode /\ work'.publish = work.publish
    BY <2>1 DEF ImplementTypes
  <2>3. Routes(attempt)' \subseteq Early
    BY <2>1 DEF Routes
  <2> QED
    BY <2>1, <2>2, <2>3, <1>1, Returned DEF RoutesAreGated
<1>7. CASE Implement
  <2>1. PICK r \in {"verify", "fix", "redesign", "blocked", "failed"} :
           /\ work' = [work EXCEPT !.implement = IF r = "failed" THEN "null" ELSE "ok"]
           /\ attempt' = <<"implement", r>>
           /\ node' = "observe" /\ UNCHANGED control
    BY <1>7 DEF Implement, Return, Advance
  <2>2. gates' = [gates EXCEPT !.verified = FALSE, !.pushed = FALSE,
                               !.comments = FALSE, !.ci = FALSE]
    BY <1>7 DEF Implement, Edited
  <2>3. ImplementTypes' /\ work'.mode = work.mode /\ work'.publish = work.publish
    BY <2>1, <2>2 DEF ImplementTypes
  <2>4. Routes(attempt)' \subseteq Early
    BY <2>1 DEF Routes
  <2> QED
    BY <2>1, <2>3, <2>4, <1>1, Returned DEF RoutesAreGated
<1>8. CASE Repair /\ node' # "failed"
  <2>1. /\ node' = "observe" /\ UNCHANGED <<control, work>>
        /\ \E r \in {"ok", "failed"} : attempt' = <<"fix", r>>
    BY <1>8 DEF Repair, RunFails, Fail, Return, Advance
  <2>2. \/ UNCHANGED gates
        \/ gates' = [gates EXCEPT !.verified = FALSE, !.pushed = FALSE,
                                  !.comments = FALSE, !.ci = FALSE]
    BY <1>8 DEF Repair, RunFails, Edited, implementVars
  <2>3. ImplementTypes'
    BY <2>1, <2>2 DEF ImplementTypes
  <2>4. Routes(attempt)' \subseteq Early
    BY <2>1 DEF Routes
  <2> QED
    BY <2>1, <2>3, <2>4, <1>1, Returned DEF RoutesAreGated
<1> QED
  BY <1>2, <1>3, <1>4, <1>5, <1>6, <1>7, <1>8
     DEF Redesign, Repair, RunFails, Fail, Advance, implementVars, Return

\* Verification and publication.
LEMMA PublishingBranches ==
    ASSUME ImplementTypes, RoutesAreGated, workflow' = workflow,
           Verification \/ PublishPullRequest \/ FinalizeDefaultBranch
    PROVE  ImplementInv'
<1>1. CASE node' = "failed" /\ UNCHANGED implementVars
  BY <1>1, Stopped
<1>2. CASE Verification /\ node' # "failed"
  <2>1. node' = "observe" /\ UNCHANGED <<control, work>>
    BY <1>2 DEF Verification, RunFails, Fail, Return, Advance
  <2>2. \/ /\ attempt' = <<"localVerification", "ready">>
           /\ gates' \in {[gates EXCEPT !.verified = TRUE],
                          [gates EXCEPT !.verified = TRUE, !.pushed = FALSE,
                                        !.comments = FALSE, !.ci = FALSE]}
        \/ /\ attempt' = <<"localVerification", "blocked">>
           /\ gates' = [gates EXCEPT !.verified = FALSE, !.pushed = FALSE,
                                     !.comments = FALSE, !.ci = FALSE]
    BY <1>2 DEF Verification, RunFails, Fail, Return, Advance, Edited
  <2>3. ImplementTypes'
    BY <2>1, <2>2 DEF ImplementTypes
  <2>4. /\ Routes(attempt)' \subseteq {"publication", "repair", "redesign", "verification"}
        /\ "publication" \in Routes(attempt)' => gates'.verified
    <3>1. CASE attempt' = <<"localVerification", "ready">>
      <4>1. gates'.verified
        BY <3>1, <2>2 DEF ImplementTypes
      <4> QED
        BY <3>1, <4>1 DEF Routes
    <3>2. CASE attempt' = <<"localVerification", "blocked">>
      BY <3>2 DEF Routes
    <3> QED
      BY <3>1, <3>2, <2>2
  <2> QED
    BY <2>1, <2>3, <2>4, Returned DEF RoutesAreGated, Gated, RouteNames, RouteOK
<1>3. CASE PublishPullRequest
  <2>1. /\ node' = "observe" /\ UNCHANGED control /\ gates.verified
        /\ work.mode = "pullRequest"
        /\ \/ /\ attempt' = <<"publication", "open">>
              /\ work' = [work EXCEPT !.publish = "ok"]
           \/ /\ attempt' = <<"publish", "failed">>
              /\ work' = [work EXCEPT !.publish = "null"]
    BY <1>3 DEF PublishPullRequest, Implementing, At, Return, Advance,
                RoutesAreGated, RouteOK
  <2>2. \/ UNCHANGED gates /\ attempt' = <<"publish", "failed">>
        \/ gates' = [gates EXCEPT
              !.pushed = TRUE, !.p2Head = FALSE,
              !.verdict = IF gates.pushed /\ ~gates.p2Head THEN @ ELSE "none"]
    BY <1>3 DEF PublishPullRequest, Return
  <2>3. work' \in [plan : BOOLEAN, workspace : BOOLEAN, documented : BOOLEAN,
                   mode : {"pullRequest", "defaultBranch"},
                   implement : {"none", "ok", "null"}, publish : {"none", "ok", "null"}]
        /\ work'.mode = "pullRequest"
    BY <2>1 DEF ImplementTypes
  <2>4. /\ gates' \in [verified : BOOLEAN, pushed : BOOLEAN, p2Head : BOOLEAN,
                       verdict : {"none", "clean", "p2", "critical", "error"},
                       comments : BOOLEAN, ci : BOOLEAN]
        /\ gates'.verified
        /\ attempt' = <<"publication", "open">> => gates'.pushed
    <3>1. CASE UNCHANGED gates /\ attempt' = <<"publish", "failed">>
      BY <2>1, <3>1 DEF ImplementTypes
    <3>2. ASSUME NEW v \in {"none", "clean", "p2", "critical", "error"},
                 gates' = [gates EXCEPT !.pushed = TRUE, !.p2Head = FALSE, !.verdict = v]
          PROVE  /\ gates' \in [verified : BOOLEAN, pushed : BOOLEAN, p2Head : BOOLEAN,
                                verdict : {"none", "clean", "p2", "critical", "error"},
                                comments : BOOLEAN, ci : BOOLEAN]
                 /\ gates'.verified = gates.verified /\ gates'.pushed = TRUE
      BY <3>2 DEF ImplementTypes
    <3>3. CASE gates' = [gates EXCEPT
              !.pushed = TRUE, !.p2Head = FALSE,
              !.verdict = IF gates.pushed /\ ~gates.p2Head THEN @ ELSE "none"]
      <4>1. PICK v \in {"none", "clean", "p2", "critical", "error"} :
               v = IF gates.pushed /\ ~gates.p2Head THEN gates.verdict ELSE "none"
        BY DEF ImplementTypes
      <4>2. gates' = [gates EXCEPT !.pushed = TRUE, !.p2Head = FALSE, !.verdict = v]
        BY <3>3, <4>1 DEF ImplementTypes
      <4> QED
        BY <4>2, <3>2, <2>1
    <3> QED
      BY <2>2, <3>1, <3>3
  <2>5. ImplementTypes'
    BY <2>1, <2>3, <2>4 DEF ImplementTypes
  <2>6. /\ Routes(attempt)' \subseteq {"publication", "repair", "redesign", "review"}
        /\ "review" \in Routes(attempt)' => gates'.pushed
    <3>1. CASE attempt' = <<"publication", "open">>
      BY <3>1, <2>4 DEF Routes
    <3>2. CASE attempt' = <<"publish", "failed">>
      BY <3>2 DEF Routes
    <3> QED
      BY <3>1, <3>2, <2>1
  <2> QED
    BY <2>1, <2>3, <2>4, <2>5, <2>6, Returned
       DEF Gated, RouteNames, RouteOK
<1>4. CASE FinalizeDefaultBranch
  <2>1. /\ node' = "observe" /\ UNCHANGED <<control, work, gates>> /\ gates.verified
        /\ work.publish = "none"
        /\ attempt' \in {<<"publication", "completed">>, <<"publication", "open">>,
                         <<"finalizeDefaultBranch", "failed">>}
    BY <1>4 DEF FinalizeDefaultBranch, Implementing, At, Return, Advance,
                RoutesAreGated, RouteOK
  <2>2. Routes(attempt)' \subseteq {"complete", "review", "publication", "redesign"}
    BY <2>1 DEF Routes
  <2>3. ImplementTypes'
    BY <2>1 DEF ImplementTypes
  <2> QED
    BY <2>1, <2>2, <2>3, Returned DEF Gated, RouteNames, RouteOK
<1> QED
  BY <1>1, <1>2, <1>3, <1>4
     DEF Verification, RunFails, Fail, Advance, implementVars, Return

\* The review and what follows it.
LEMMA ReviewingBranches ==
    ASSUME ImplementTypes, RoutesAreGated, workflow' = workflow,
           Review \/ AddressP2 \/ Comments \/ Ci \/ Deliver
    PROVE  ImplementInv'
<1>1. CASE node' = "failed" /\ UNCHANGED implementVars
  BY <1>1, Stopped
<1>2. CASE Review /\ node' # "failed"
  <2>1. /\ node' = "observe" /\ UNCHANGED <<control, work>> /\ work.publish = "ok"
        /\ gates.verified /\ gates.pushed
    BY <1>2 DEF Review, RunFails, Fail, Return, Advance, Implementing, At,
                RoutesAreGated, RouteOK
  <2>2. \/ Reuses /\ attempt' = <<"review", "reuse">> /\ UNCHANGED gates
        \/ \E v \in {"clean", "p2", "critical", "error"} :
              gates' = [gates EXCEPT !.verdict = v] /\ attempt' = <<"review", v>>
        \/ attempt' = <<"review", "failed">> /\ UNCHANGED gates
    BY <1>2 DEF Review, RunFails, Fail, Return, Advance
  <2>3. ImplementTypes' /\ gates'.verified /\ gates'.pushed
    BY <2>1, <2>2 DEF ImplementTypes
  <2>4. /\ Routes(attempt)' \subseteq {"comments", "review", "repair", "redesign", "addressP2"}
        /\ \/ gates'.verdict \in {"clean", "p2", "critical"}
           \/ Routes(attempt)' \subseteq {"review"}
    <3>1. CASE Reuses /\ attempt' = <<"review", "reuse">> /\ UNCHANGED gates
      BY <3>1 DEF Routes, Reuses
    <3>2. ASSUME NEW v \in {"clean", "p2", "critical", "error"},
                 gates' = [gates EXCEPT !.verdict = v], attempt' = <<"review", v>>
          PROVE  /\ Routes(attempt)' \subseteq {"comments", "review", "repair", "redesign", "addressP2"}
                 /\ \/ gates'.verdict \in {"clean", "p2", "critical"}
                    \/ Routes(attempt)' \subseteq {"review"}
      <4>1. gates'.verdict = v
        BY <3>2 DEF ImplementTypes
      <4> QED
        BY <4>1, <3>2 DEF Routes
    <3>3. CASE attempt' = <<"review", "failed">>
      BY <3>3 DEF Routes
    <3> QED
      BY <3>1, <3>2, <3>3, <2>2
  <2> QED
    BY <2>1, <2>3, <2>4, Returned DEF RoutesAreGated, Gated, RouteNames, RouteOK, Judged
<1>3. CASE AddressP2
  <2>1. node' = "observe" /\ UNCHANGED <<control, work>> /\ Judged
    BY <1>3 DEF AddressP2, Return, Advance, Implementing, At, RoutesAreGated, RouteOK
  <2>2. \/ /\ gates' = [gates EXCEPT !.verified = TRUE, !.pushed = TRUE, !.p2Head = TRUE,
                                     !.comments = FALSE, !.ci = FALSE]
           /\ attempt' = <<"p2", "passed">>
        \/ /\ gates' = [gates EXCEPT !.verified = FALSE, !.pushed = TRUE, !.p2Head = TRUE,
                                     !.comments = FALSE, !.ci = FALSE]
           /\ attempt' = <<"p2", "notPassed">>
        \/ /\ gates' = [gates EXCEPT !.verified = FALSE, !.pushed = FALSE,
                                     !.comments = FALSE, !.ci = FALSE]
           /\ attempt' = <<"p2", "failed">>
    BY <1>3 DEF AddressP2, Return, Edited
  <2>3. /\ ImplementTypes' /\ gates'.verdict = gates.verdict
        /\ attempt' = <<"p2", "passed">> => gates'.verified /\ gates'.pushed
    <3>1. ASSUME NEW v \in BOOLEAN,
                 gates' = [gates EXCEPT !.verified = v, !.pushed = TRUE, !.p2Head = TRUE,
                                        !.comments = FALSE, !.ci = FALSE]
          PROVE  /\ ImplementTypes' /\ gates'.verdict = gates.verdict
                 /\ gates'.verified = v /\ gates'.pushed = TRUE
      <4>1. gates' = [verified |-> v, pushed |-> TRUE, p2Head |-> TRUE,
                      verdict |-> gates.verdict, comments |-> FALSE, ci |-> FALSE]
        BY <3>1 DEF ImplementTypes
      <4>2. gates.verdict \in {"none", "clean", "p2", "critical", "error"}
        BY DEF ImplementTypes
      <4> QED
        BY <4>1, <4>2, <2>1 DEF ImplementTypes
    <3>2. ASSUME gates' = [gates EXCEPT !.verified = FALSE, !.pushed = FALSE,
                                        !.comments = FALSE, !.ci = FALSE]
          PROVE  ImplementTypes' /\ gates'.verdict = gates.verdict
      BY <2>1, <3>2 DEF ImplementTypes
    <3>3. <<"p2", "passed">> # <<"p2", "notPassed">> /\ <<"p2", "passed">> # <<"p2", "failed">>
      OBVIOUS
    <3>4. TRUE \in BOOLEAN /\ FALSE \in BOOLEAN
      OBVIOUS
    <3> QED
      BY <2>2, <3>1, <3>2, <3>3, <3>4, Zenon
  <2>4. CASE attempt' = <<"p2", "passed">>
    <3>1. Routes(attempt)' \subseteq {"comments", "review"}
      BY <2>4 DEF Routes
    <3> QED
      BY <2>1, <2>3, <2>4, <3>1, Returned DEF RoutesAreGated, Gated, RouteNames, RouteOK, Judged
  <2>5. CASE attempt' \in {<<"p2", "notPassed">>, <<"p2", "failed">>}
    <3>1. Routes(attempt)' \subseteq {"addressP2", "repair", "redesign"}
      BY <2>5 DEF Routes
    <3> QED
      BY <2>1, <2>3, <3>1, Returned DEF RoutesAreGated, Gated, RouteNames, RouteOK, Judged
  <2> QED
    BY <2>2, <2>4, <2>5
<1>4. CASE Comments
  <2>1. PICK r \in {"ci", "fix", "redesign", "blocked", "failed"} :
           /\ gates' = [gates EXCEPT !.comments = r = "ci"]
           /\ attempt' = <<"comments", r>>
    BY <1>4 DEF Comments, Return
  <2>2. /\ node' = "observe" /\ UNCHANGED <<control, work>>
        /\ gates.verified /\ gates.pushed /\ Judged
    BY <1>4 DEF Comments, Return, Advance, Implementing, At, RoutesAreGated, RouteOK
  <2>3. /\ ImplementTypes' /\ gates'.verified /\ gates'.pushed
        /\ gates'.verdict = gates.verdict /\ gates'.comments = (r = "ci")
    BY <2>1, <2>2 DEF ImplementTypes
  <2>4. /\ Routes(attempt)' \subseteq {"ci", "comments", "review", "repair", "redesign"}
        /\ "ci" \in Routes(attempt)' => r = "ci"
    BY <2>1 DEF Routes
  <2> QED
    BY <2>2, <2>3, <2>4, Returned DEF RoutesAreGated, Gated, RouteNames, RouteOK, Judged
<1>5. CASE Ci
  <2>1. PICK r \in {"green", "unrelated", "red", "pending", "interrupted"} :
           /\ gates' = [gates EXCEPT !.ci = r \in {"green", "unrelated"}]
           /\ attempt' = <<"ci", r>>
    BY <1>5 DEF Ci, Return
  <2>2. /\ node' = "observe" /\ UNCHANGED <<control, work>>
        /\ gates.verified /\ gates.pushed /\ Judged /\ gates.comments
    BY <1>5 DEF Ci, Return, Advance, Implementing, At, RoutesAreGated, RouteOK
  <2>3. /\ ImplementTypes' /\ gates'.verified /\ gates'.pushed /\ gates'.comments
        /\ gates'.verdict = gates.verdict /\ gates'.ci = (r \in {"green", "unrelated"})
    <3>1. CASE r \in {"green", "unrelated"}
      <4>0. (r \in {"green", "unrelated"}) = TRUE
        BY <3>1
      <4>1. gates' = [gates EXCEPT !.ci = TRUE]
        BY <2>1, <4>0, Zenon
      <4>2. /\ ImplementTypes' /\ gates'.verified /\ gates'.pushed /\ gates'.comments
            /\ gates'.verdict = gates.verdict /\ gates'.ci = TRUE
        BY <4>1, <2>2 DEF ImplementTypes
      <4> QED
        BY <4>0, <4>2, Zenon
    <3>2. CASE r \notin {"green", "unrelated"}
      <4>0. (r \in {"green", "unrelated"}) = FALSE
        BY <3>2
      <4>1. gates' = [gates EXCEPT !.ci = FALSE]
        BY <2>1, <4>0, Zenon
      <4>2. /\ ImplementTypes' /\ gates'.verified /\ gates'.pushed /\ gates'.comments
            /\ gates'.verdict = gates.verdict /\ gates'.ci = FALSE
        BY <4>1, <2>2 DEF ImplementTypes
      <4> QED
        BY <4>0, <4>2, Zenon
    <3> QED
      BY <3>1, <3>2
  <2>4. /\ Routes(attempt)' \subseteq {"delivery", "ci", "repair", "redesign"}
        /\ "delivery" \in Routes(attempt)' => r \in {"green", "unrelated"}
    BY <2>1 DEF Routes
  <2> QED
    BY <2>2, <2>3, <2>4, Returned DEF RoutesAreGated, Gated, RouteNames, RouteOK, Judged
<1>6. CASE Deliver
  <2>1. \E r \in {"completed", "blocked", "failed"} : attempt' = <<"delivery", r>>
    BY <1>6 DEF Deliver, Return
  <2>2. /\ node' = "observe" /\ UNCHANGED <<control, work, gates>> /\ node = "delivery"
    BY <1>6 DEF Deliver, Return, Advance, Implementing, At
  <2>3. Routes(attempt)' \subseteq {"delivery", "complete"}
    BY <2>1 DEF Routes
  <2>4. ImplementTypes'
    BY <2>2 DEF ImplementTypes
  <2> QED
    BY <2>2, <2>3, <2>4, Returned DEF RoutesAreGated, Gated, RouteNames, RouteOK, Judged
<1> QED
  BY <1>1, <1>2, <1>3, <1>4, <1>5, <1>6
     DEF Review, RunFails, Fail, Advance, implementVars, Return

\* A delivery and a publication lie behind the gates of their content
\* (resultRoutes, parseControlDecision).
THEOREM DeliveryIsGated == Spec => []GatesHold
<1>1. Init => ImplementInv
  <2> SUFFICES ASSUME Init, workflow = "autoimplement"
               PROVE  ImplementTypes /\ RoutesAreGated
    BY DEF ImplementInv
  <2>1. ImplementInit /\ node = "observe"
    BY DEF Init, FirstNode, Roots
  <2>2. ImplementTypes /\ work.publish = "none"
    BY <2>1 DEF ImplementInit, ImplementTypes
  <2>3. Routes(attempt) \subseteq {"planDiscovery", "workspace", "redesign",
                                   "implementation", "documentation"}
    BY <2>1 DEF ImplementInit, Routes, InitialRoutes
  <2> QED
    BY <2>1, <2>2, <2>3 DEF RoutesAreGated, Gated, RouteNames, RouteOK
<1>2. ImplementInv /\ [Next]_vars => ImplementInv'
  <2> SUFFICES ASSUME ImplementInv, [Next]_vars PROVE ImplementInv'
    OBVIOUS
  <2>1. CASE UNCHANGED vars
    <3>1. /\ UNCHANGED <<workflow, node>>
          /\ UNCHANGED <<attempt, control, work, gates>>
      BY <2>1 DEF vars, implementVars, runVars
    <3>2. ImplementTypes' <=> ImplementTypes
      BY <3>1 DEF ImplementTypes
    <3>3. Routes(attempt)' = Routes(attempt)
      BY <3>1 DEF Routes, InitialRoutes, AfterWorkspace
    <3>4. Gated' = Gated /\ (RouteOK(node)' <=> RouteOK(node))
      BY <3>1 DEF Gated, RouteOK, Judged
    <3> QED
      BY <3>1, <3>2, <3>3, <3>4 DEF ImplementInv, RoutesAreGated
  <2>2. CASE Next /\ workflow # "autoimplement"
    BY <2>2, StepOfRoot DEF ImplementInv
  <2>3. CASE Next /\ workflow = "autoimplement"
    <3>1. ImplementNext /\ workflow' = workflow
      BY <2>3, StepOfRoot DEF Automate
    <3>2. ImplementTypes /\ RoutesAreGated
      BY <2>3 DEF ImplementInv
    <3>3. CASE BranchFails
      BY <3>2, <3>3, Stopped DEF BranchFails, RunFails, Fail, Advance
    <3> QED
      BY <3>1, <3>2, <3>3, ControllerSteps, EarlyBranches, PublishingBranches,
         ReviewingBranches DEF ImplementNext
  <2> QED
    BY <2>1, <2>2, <2>3
<1>3. ImplementInv => GatesHold
  BY DEF ImplementInv, RoutesAreGated, RouteOK, Judged, GatesHold, Implementing, At
<1> QED
  BY <1>1, <1>2, <1>3, PTL DEF Spec

-----------------------------------------------------------------------------
(* The steps of a run, and the latest of them that a node reads.           *)

\* The greatest of some numbers up to a bound.
LEMMA GreatestIsMember ==
    ASSUME NEW n \in Nat, NEW S \in SUBSET (0..n), S # {}
    PROVE  Max(S) \in S /\ \A i \in S : Max(S) >= i
<1> DEFINE Bounds == {b \in 0..n : \A i \in S : b >= i}
           Less == OpToRel(<, Nat)
<1>1. n \in Bounds /\ Bounds \subseteq Nat
  OBVIOUS
<1>2. \A x, y \in Nat : <<x, y>> \in Less <=> x < y
  BY DEF OpToRel
<1>3. IsWellFoundedOn(Less, Nat)
  BY NatLessThanWellFounded
<1> HIDE DEF Less
<1>4. PICK b \in Bounds : \A c \in Bounds : ~ (<<c, b>> \in Less)
  BY <1>1, <1>3, WFMin
<1>5. b \in S
  <2> SUFFICES ASSUME b \notin S PROVE FALSE
    OBVIOUS
  <2>1. b \in 0..n /\ \A i \in S : b >= i
    OBVIOUS
  <2> HIDE DEF Bounds
  <2>2. \A i \in S : i \in 0..n /\ b # i
    OBVIOUS
  <2>3. b > 0 /\ \A i \in S : b - 1 >= i
    <3>1. ASSUME NEW i \in S PROVE b > 0 /\ b - 1 >= i
      <4>1. i \in Nat /\ b \in Nat /\ b >= i /\ b # i
        BY <2>1, <2>2
      <4> QED
        BY <4>1
    <3> QED
      BY <3>1
  <2>4. b - 1 \in 0..n /\ b - 1 < b /\ b \in Nat
    BY <2>1, <2>3
  <2>5. b - 1 \in Bounds
    BY <2>3, <2>4 DEF Bounds
  <2> QED
    BY <2>4, <2>5, <1>1, <1>2, <1>4
<1> QED
  BY <1>5 DEF Max

\* Sequences of steps grow at their end.
LEMMA StepRecorded ==
    ASSUME NEW S, NEW s \in Seq(S), NEW x \in S
    PROVE  /\ s \o <<x>> \in Seq(S)
           /\ Len(s \o <<x>>) = Len(s) + 1
           /\ DOMAIN (s \o <<x>>) = 1..(Len(s) + 1)
           /\ \A i \in 1..Len(s) : (s \o <<x>>)[i] = s[i]
           /\ (s \o <<x>>)[Len(s) + 1] = x
<1>1. <<x>> \in Seq(S) /\ Len(<<x>>) = 1 /\ <<x>>[1] = x
  OBVIOUS
<1>2. Len(s) \in Nat
  OBVIOUS
<1>3. s \o <<x>> \in Seq(S) /\ Len(s \o <<x>>) = Len(s) + 1
  BY <1>1, ConcatProperties
<1>4. \A i \in 1..(Len(s) + 1) : (s \o <<x>>)[i] =
          IF i <= Len(s) THEN s[i] ELSE <<x>>[i - Len(s)]
  BY <1>1, ConcatProperties
<1> QED
  BY <1>1, <1>2, <1>3, <1>4

\* LatestStep is the latest: its name is the one asked for, and no later
\* step has it.
LEMMA LatestStepIs ==
    ASSUME NEW S, steps \in Seq(S), NEW scope, NEW name
    PROVE  LET i == LatestStep(scope, name) IN
           /\ i \in 0..Len(steps)
           /\ i # 0 => steps[i].scope = scope /\ steps[i].name = name
           /\ \A k \in 1..Len(steps) :
                 steps[k].scope = scope /\ steps[k].name = name => k <= i
<1> DEFINE Named == {0} \cup {i \in DOMAIN steps :
                                 steps[i].scope = scope /\ steps[i].name = name}
<1>1. Len(steps) \in Nat /\ DOMAIN steps = 1..Len(steps)
  BY LenProperties
<1>2. Named \in SUBSET (0..Len(steps)) /\ Named # {}
  BY <1>1
<1>3. Max(Named) \in Named /\ \A i \in Named : Max(Named) >= i
  <2> HIDE DEF Named
  <2> QED
    BY <1>1, <1>2, GreatestIsMember
<1> QED
  BY <1>1, <1>2, <1>3 DEF LatestStep

-----------------------------------------------------------------------------
(* monitor: one repair of a fault.                                         *)

MonitorSteps == [scope : {"root"}, name : {"observe", "repairComplete"},
                 out : Accepted \cup Faults]

StepTypes ==
    /\ steps \in Seq(MonitorSteps)
    /\ \A i \in 1..Len(steps) :
          /\ steps[i].name = "observe" => steps[i].out \in Accepted
          /\ steps[i].name = "repairComplete" => steps[i].out \in Faults

\* The observation i asks for a repair of f.
AsksFor(i, f) ==
    /\ steps[i].name = "observe" /\ steps[i].out.act # None
    /\ steps[i].out.act.kind = "repair" /\ steps[i].out.act.fault = f

\* A repair follows the observation that asked for it.
RepairsWereAsked ==
    \A k \in 1..Len(steps) :
        steps[k].name = "repairComplete" => k > 1 /\ AsksFor(k - 1, steps[k].out)

\* A fault that was repaired is asked for again only by the last observation,
\* and the run stops.
ReturnsStop ==
    \A k, m \in 1..Len(steps) :
        k < m /\ steps[k].name = "repairComplete" /\ AsksFor(m, steps[k].out) =>
            /\ m = Len(steps)
            /\ \/ node \in {"guard", "finish", "completed"}
               \/ node = "decide" /\ seen.route = "stop"

\* What the run acts on is its last observation.
ActsOnLast ==
    node \in {"guard", "decide", "planChange", "implementation"} =>
        /\ Len(steps) # 0 /\ steps[Len(steps)].name = "observe"
        /\ node = "decide" => seen.route = "stop" \/ seen = steps[Len(steps)].out
        /\ node \in {"planChange", "implementation"} =>
               /\ seen = steps[Len(steps)].out
               /\ seen.act # None /\ seen.act.kind = "repair"

MonitorInv ==
    workflow = "monitor" =>
        StepTypes /\ RepairsWereAsked /\ ReturnsStop /\ ActsOnLast

\* A node that records nothing, and leads on to no repair.
LEMMA MonitorMoves ==
    ASSUME StepTypes, RepairsWereAsked, ReturnsStop, UNCHANGED steps,
           \/ node \in {"observe", "sleep", "act", "planChange", "implementation",
                        "repairBlocked"}
           \/ node' \in {"finish", "completed"}
           \/ node' = "decide" /\ seen'.route = "stop",
           node' \in {"guard", "decide", "planChange", "implementation"} => ActsOnLast'
    PROVE  MonitorInv'
<1>1. StepTypes' /\ RepairsWereAsked'
  BY DEF StepTypes, RepairsWereAsked, AsksFor
<1>2. ReturnsStop'
  <2> SUFFICES ASSUME NEW k \in 1..Len(steps), NEW m \in 1..Len(steps),
                      k < m, steps[k].name = "repairComplete",
                      AsksFor(m, steps[k].out)
               PROVE  /\ m = Len(steps)
                      /\ \/ node' \in {"guard", "finish", "completed"}
                         \/ node' = "decide" /\ seen'.route = "stop"
    BY DEF ReturnsStop, AsksFor
  <2> QED
    BY DEF ReturnsStop
<1>3. ActsOnLast'
  BY DEF ActsOnLast
<1> QED
  BY <1>1, <1>2, <1>3 DEF MonitorInv

\* The observation the guard reads is the last step.
LEMMA LastObservation ==
    ASSUME StepTypes, Len(steps) # 0, steps[Len(steps)].name = "observe"
    PROVE  Output("root", "observe") = steps[Len(steps)].out
<1>1. Len(steps) \in 1..Len(steps)
  BY LenProperties DEF StepTypes
<1>2. steps[Len(steps)].scope = "root"
  <2>1. steps[Len(steps)] \in MonitorSteps
    BY <1>1, ElementOfSeq DEF StepTypes
  <2> QED
    BY <2>1 DEF MonitorSteps
<1>3. LatestStep("root", "observe") = Len(steps)
  <2>1. /\ LatestStep("root", "observe") \in 0..Len(steps)
        /\ Len(steps) <= LatestStep("root", "observe")
    BY <1>1, <1>2, LatestStepIs DEF StepTypes
  <2> QED
    BY <2>1, <1>1
<1>4. EntryIndex("root") = 0 /\ Len(steps) \in Nat
  BY LenProperties DEF EntryIndex, StepTypes
<1>5. ~ (Len(steps) <= EntryIndex("root"))
  BY <1>1, <1>4
<1> QED
  BY <1>3, <1>5 DEF Output

\* guardObservation sees every earlier repair of the fault it is asked for.
LEMMA GuardSees ==
    ASSUME StepTypes, RepairsWereAsked, ReturnsStop, NEW act,
           NEW k \in 1..Len(steps), k < Len(steps),
           steps[k].name = "repairComplete", steps[k].out = act.fault
    PROVE  ReturnedAfterRepair(act)
<1> DEFINE earlier == {i \in 1..Len(steps) - 1 : IsRepairOf(steps[i], act)}
<1>1. Len(steps) \in Nat /\ k \in Nat
  BY LenProperties DEF StepTypes
<1>2. k > 1 /\ AsksFor(k - 1, act.fault)
  BY DEF RepairsWereAsked
<1>3. k - 1 \in earlier
  BY <1>1, <1>2 DEF AsksFor, IsRepairOf
<1>4. earlier \in SUBSET (0..Len(steps))
  BY <1>1
<1>5. Max(earlier) \in earlier /\ \A i \in earlier : Max(earlier) >= i
  <2> HIDE DEF earlier
  <2> QED
    BY <1>1, <1>3, <1>4, GreatestIsMember
<1> DEFINE m == Max(earlier)
<1>6. m \in 1..Len(steps) - 1 /\ AsksFor(m, act.fault)
  BY <1>5 DEF AsksFor, IsRepairOf
<1> HIDE DEF m
<1>7. ~ (k < m)
  <2>1. m \in 1..Len(steps) /\ m # Len(steps)
    BY <1>1, <1>6
  <2> QED
    BY <2>1, <1>6 DEF ReturnsStop
<1>8. k \in m..Len(steps)
  BY <1>1, <1>6, <1>7
<1> QED
  BY <1>3, <1>8 DEF ReturnedAfterRepair, m

LEMMA MonitorStep ==
    ASSUME MonitorInv, Watch, workflow = "monitor"
    PROVE  MonitorInv'
<1>1. StepTypes /\ RepairsWereAsked /\ ReturnsStop /\ ActsOnLast
  BY DEF MonitorInv
<1>2. Len(steps) \in Nat /\ steps \o << >> = steps
  BY <1>1, LenProperties, ConcatEmptySeq DEF StepTypes
<1>3. CASE node' = "failed" /\ UNCHANGED steps
           /\ node \in {"observe", "sleep", "act", "planChange", "implementation"}
  BY <1>1, <1>3, MonitorMoves
<1>4. CASE MonitorObserve /\ node' # "failed"
  <2>1. PICK r \in Accepted :
           /\ node = "observe" /\ node' = "guard"
           /\ steps' = steps \o <<[scope |-> "root", name |-> "observe", out |-> r]>>
    BY <1>4 DEF MonitorObserve, Monitoring, At, Fail, Advance, Step
  <2> DEFINE x == [scope |-> "root", name |-> "observe", out |-> r]
             n == Len(steps) + 1
  <2>2. x \in MonitorSteps
    BY DEF MonitorSteps
  <2>3. /\ steps' \in Seq(MonitorSteps) /\ Len(steps') = n
        /\ \A i \in 1..Len(steps) : steps'[i] = steps[i]
        /\ steps'[n] = x
    BY <1>1, <2>1, <2>2, StepRecorded DEF StepTypes
  <2>4. x.name = "observe" /\ x.out = r
    OBVIOUS
  <2> HIDE DEF x
  <2>5. n # 0 /\ \A i \in 1..n : i = n \/ i \in 1..Len(steps)
    BY <1>2
  <2>6. StepTypes'
    BY <1>1, <2>3, <2>4, <2>5 DEF StepTypes
  <2>7. RepairsWereAsked'
    <3> SUFFICES ASSUME NEW k \in 1..n, steps'[k].name = "repairComplete"
                 PROVE  k > 1 /\ AsksFor(k - 1, steps[k].out)'
      BY <2>3 DEF RepairsWereAsked
    <3>1. k \in 1..Len(steps) /\ steps'[k] = steps[k]
      BY <2>3, <2>4, <2>5
    <3>2. k > 1 /\ AsksFor(k - 1, steps[k].out)
      BY <1>1, <3>1 DEF RepairsWereAsked
    <3>3. k - 1 \in 1..Len(steps)
      BY <1>2, <3>1, <3>2
    <3> QED
      BY <2>3, <3>1, <3>2, <3>3 DEF AsksFor
  <2>8. ReturnsStop'
    <3> SUFFICES ASSUME NEW k \in 1..n, NEW m \in 1..n, k < m,
                        steps'[k].name = "repairComplete",
                        AsksFor(m, steps[k].out)', m # n
                 PROVE  FALSE
      BY <2>1, <2>3 DEF ReturnsStop
    <3>1. k \in 1..Len(steps) /\ m \in 1..Len(steps)
      BY <1>2
    <3> QED
      BY <1>1, <2>1, <2>3, <3>1 DEF ReturnsStop, AsksFor
  <2>9. ActsOnLast'
    BY <2>1, <2>3, <2>4, <2>5 DEF ActsOnLast
  <2> QED
    BY <2>6, <2>7, <2>8, <2>9 DEF MonitorInv
<1>5. CASE GuardObservation
  <2> DEFINE r == Output("root", "observe")
  <2>1. /\ node = "guard" /\ node' = "decide" /\ UNCHANGED steps
        /\ seen' = IF r.act # None /\ r.act.kind = "repair" /\ ReturnedAfterRepair(r.act)
                   THEN [r EXCEPT !.route = "stop", !.goal = "blocked", !.act = None]
                   ELSE r
    BY <1>2, <1>5 DEF GuardObservation, Monitoring, At, Advance
  <2>2. /\ Len(steps) # 0 /\ steps[Len(steps)].name = "observe"
        /\ r = steps[Len(steps)].out
    BY <1>1, <2>1, LastObservation DEF ActsOnLast
  <2>3. r \in Reports
    BY <1>1, <1>2, <2>2 DEF StepTypes, Accepted
  <2> HIDE DEF r
  <2>4. seen' = r \/ seen'.route = "stop"
    BY <2>1, <2>3 DEF Reports
  <2>5. ActsOnLast'
    BY <2>1, <2>2, <2>4 DEF ActsOnLast
  <2>6. ASSUME NEW k \in 1..Len(steps), NEW m \in 1..Len(steps), k < m,
               steps[k].name = "repairComplete", AsksFor(m, steps[k].out)
        PROVE  m = Len(steps) /\ seen'.route = "stop"
    <3>1. m = Len(steps)
      BY <1>1, <2>6 DEF ReturnsStop
    <3>2. r.act # None /\ r.act.kind = "repair" /\ steps[k].out = r.act.fault
      BY <2>2, <2>6, <3>1 DEF AsksFor
    <3>3. ReturnedAfterRepair(r.act)
      BY <1>1, <2>6, <3>1, <3>2, GuardSees
    <3> QED
      BY <2>1, <2>3, <3>1, <3>2, <3>3 DEF Reports
  <2>7. ReturnsStop'
    <3> SUFFICES ASSUME NEW k \in 1..Len(steps), NEW m \in 1..Len(steps), k < m,
                        steps[k].name = "repairComplete", AsksFor(m, steps[k].out)
                 PROVE  m = Len(steps) /\ seen'.route = "stop"
      BY <2>1 DEF ReturnsStop, AsksFor
    <3> QED
      BY <2>6
  <2>8. StepTypes' /\ RepairsWereAsked'
    BY <1>1, <2>1 DEF StepTypes, RepairsWereAsked, AsksFor
  <2> QED
    BY <2>5, <2>7, <2>8 DEF MonitorInv
<1>6. CASE MonitorDecide
  <2>1. /\ node = "decide" /\ UNCHANGED <<steps, seen>>
        /\ seen.route = "stop" => node' = "finish"
        /\ node' \in {"finish", "sleep", "act", "planChange"}
        /\ node' = "planChange" => seen.act.kind = "repair"
    BY <1>2, <1>6 DEF MonitorDecide, Monitoring, At, Advance
  <2>2. CASE seen.route = "stop"
    BY <1>1, <2>1, <2>2, MonitorMoves
  <2>3. CASE seen.route # "stop"
    <3>1. ASSUME NEW k \in 1..Len(steps), NEW m \in 1..Len(steps), k < m,
                 steps[k].name = "repairComplete", AsksFor(m, steps[k].out)
          PROVE  FALSE
      BY <1>1, <2>1, <2>3, <3>1 DEF ReturnsStop
    <3>2. ReturnsStop'
      BY <2>1, <3>1 DEF ReturnsStop, AsksFor
    <3>3. StepTypes' /\ RepairsWereAsked'
      BY <1>1, <2>1 DEF StepTypes, RepairsWereAsked, AsksFor
    <3>4. /\ seen = steps[Len(steps)].out /\ Len(steps) # 0
          /\ steps[Len(steps)].name = "observe"
      BY <1>1, <2>1, <2>3 DEF ActsOnLast
    <3>5. seen \in Accepted
      BY <1>1, <1>2, <3>4 DEF StepTypes
    <3>6. Observations \in Nat
      <4>1. IsFiniteSet(1..Len(steps))
        BY <1>2, FS_Interval
      <4>2. DOMAIN steps = 1..Len(steps)
        BY <1>1, LenProperties DEF StepTypes
      <4> QED
        BY <4>1, <4>2, FS_Subset, FS_CardinalityType DEF Observations, CountRootSteps
    <3>7. node' = "planChange" => seen.act # None
      <4>1. seen.route \in {"wait", "act"}
        BY <2>3, <3>5 DEF Accepted, Reports
      <4>2. CASE seen.route = "wait"
        <5>1. Observations >= MaxChecks \/ Observations < MaxChecks
          BY <3>6, MonitorAssumption
        <5>2. node' \in {"finish", "sleep"}
          BY <1>6, <4>2, <5>1 DEF MonitorDecide, Advance
        <5> QED
          BY <5>2
      <4>3. CASE seen.route = "act"
        BY <3>5, <4>3 DEF Accepted
      <4> QED
        BY <4>1, <4>2, <4>3
    <3>8. ActsOnLast'
      BY <2>1, <3>4, <3>7 DEF ActsOnLast
    <3> QED
      BY <3>2, <3>3, <3>8 DEF MonitorInv
  <2> QED
    BY <2>2, <2>3
<1>7. CASE WaitOrAct /\ node' # "failed"
  <2>1. node \in {"sleep", "act"} /\ node' = "observe" /\ UNCHANGED steps
    BY <1>2, <1>7 DEF WaitOrAct, Monitoring, At, Advance, Fail
  <2> QED
    BY <1>1, <2>1, MonitorMoves
<1>8. CASE PlanRepair /\ node' # "failed"
  <2>1. /\ node = "planChange" /\ node' \in {"implementation", "repairBlocked"}
        /\ UNCHANGED <<steps, seen>>
    BY <1>2, <1>8 DEF PlanRepair, Monitoring, At, Advance, Fail
  <2>2. ActsOnLast'
    BY <1>1, <2>1 DEF ActsOnLast
  <2> QED
    BY <1>1, <2>1, <2>2, MonitorMoves
<1>9. CASE ImplementRepair /\ node' = "repairBlocked"
  <2>1. node = "implementation" /\ UNCHANGED steps
    BY <1>2, <1>9 DEF ImplementRepair, Monitoring, At, Advance, Fail
  <2> QED
    BY <1>1, <1>9, <2>1, MonitorMoves
<1>10. CASE ImplementRepair /\ node' = "observe"
  <2> DEFINE f == seen.act.fault
             x == [scope |-> "root", name |-> "repairComplete", out |-> f]
             n == Len(steps) + 1
  <2>1. node = "implementation" /\ steps' = steps \o <<x>>
    BY <1>10 DEF ImplementRepair, Monitoring, At, Advance, Fail, Step
  <2>2. /\ Len(steps) # 0 /\ steps[Len(steps)].name = "observe"
        /\ AsksFor(Len(steps), f) /\ seen = steps[Len(steps)].out /\ seen.act # None
    BY <1>1, <2>1 DEF ActsOnLast, AsksFor
  <2>3. f \in Faults
    <3>1. seen \in Reports
      BY <1>1, <1>2, <2>2 DEF StepTypes, Accepted
    <3> QED
      BY <2>2, <3>1 DEF Reports
  <2>4. x \in MonitorSteps /\ x.name = "repairComplete" /\ x.out = f
    BY <2>3 DEF MonitorSteps
  <2> HIDE DEF x
  <2>5. /\ steps' \in Seq(MonitorSteps) /\ Len(steps') = n
        /\ \A i \in 1..Len(steps) : steps'[i] = steps[i]
        /\ steps'[n] = x
    BY <1>1, <2>1, <2>4, StepRecorded DEF StepTypes
  <2> HIDE DEF f
  <2>6. n - 1 = Len(steps) /\ Len(steps) \in 1..Len(steps) /\ n > 1
        /\ \A i \in 1..n : i = n \/ i \in 1..Len(steps)
    BY <1>2, <2>2
  <2>7. StepTypes'
    BY <1>1, <2>3, <2>4, <2>5, <2>6 DEF StepTypes
  <2>8. RepairsWereAsked'
    <3> SUFFICES ASSUME NEW k \in 1..n, steps'[k].name = "repairComplete"
                 PROVE  k > 1 /\ AsksFor(k - 1, steps[k].out)'
      BY <2>5 DEF RepairsWereAsked
    <3>1. CASE k = n
      BY <2>2, <2>4, <2>5, <2>6, <3>1 DEF AsksFor
    <3>2. CASE k \in 1..Len(steps)
      <4>1. k > 1 /\ AsksFor(k - 1, steps[k].out) /\ steps'[k] = steps[k]
        BY <1>1, <2>5, <3>2 DEF RepairsWereAsked
      <4>2. k - 1 \in 1..Len(steps)
        BY <1>2, <3>2, <4>1
      <4> QED
        BY <2>5, <4>1, <4>2 DEF AsksFor
    <3> QED
      BY <2>6, <3>1, <3>2
  <2>9. ReturnsStop'
    <3> SUFFICES ASSUME NEW k \in 1..n, NEW m \in 1..n, k < m,
                        steps'[k].name = "repairComplete",
                        AsksFor(m, steps[k].out)'
                 PROVE  FALSE
      BY <2>5 DEF ReturnsStop
    <3>1. m # n
      BY <2>4, <2>5 DEF AsksFor
    <3>2. k \in 1..Len(steps) /\ m \in 1..Len(steps)
      BY <1>2, <3>1
    <3> QED
      BY <1>1, <2>1, <2>5, <3>2 DEF ReturnsStop, AsksFor
  <2>10. ActsOnLast'
    BY <1>10 DEF ActsOnLast
  <2> QED
    BY <2>7, <2>8, <2>9, <2>10 DEF MonitorInv
<1>11. CASE FinishMonitor
  <2>1. /\ UNCHANGED steps
        /\ \/ node = "repairBlocked" /\ node' = "blocked"
           \/ node = "finish" /\ node' = "completed"
    BY <1>2, <1>11 DEF FinishMonitor, Monitoring, At, Advance
  <2> QED
    BY <1>1, <2>1, MonitorMoves
<1>12. \/ node' = "failed" => UNCHANGED steps
             /\ node \in {"observe", "sleep", "act", "planChange", "implementation"}
       \/ MonitorDecide \/ GuardObservation \/ FinishMonitor
  BY <1>2 DEF Watch, MonitorNext, MonitorObserve, WaitOrAct, PlanRepair, ImplementRepair,
              Monitoring, At, Advance, Fail, Step
<1> QED
  BY <1>3, <1>4, <1>5, <1>6, <1>7, <1>8, <1>9, <1>10, <1>11, <1>12
     DEF Watch, MonitorNext, ImplementRepair, Advance, Fail

\* A fault is repaired once (guardObservation).
THEOREM FaultsAreRepairedOnce == Spec => []OneRepairPerFault
<1>1. Init => MonitorInv
  <2> SUFFICES ASSUME Init, workflow = "monitor"
               PROVE  StepTypes /\ RepairsWereAsked /\ ReturnsStop /\ ActsOnLast
    BY DEF MonitorInv
  <2>1. steps = << >> /\ node = "observe"
    BY DEF Init, FirstNode, Roots
  <2>2. steps \in Seq(MonitorSteps) /\ Len(steps) = 0
    BY <2>1
  <2> QED
    BY <2>1, <2>2 DEF StepTypes, RepairsWereAsked, ReturnsStop, ActsOnLast
<1>2. MonitorInv /\ [Next]_vars => MonitorInv'
  <2> SUFFICES ASSUME MonitorInv, [Next]_vars PROVE MonitorInv'
    OBVIOUS
  <2>1. CASE UNCHANGED vars
    BY <2>1 DEF vars, runVars, monitorVars, MonitorInv, StepTypes, RepairsWereAsked,
                ReturnsStop, ActsOnLast, AsksFor
  <2>2. CASE Next /\ workflow # "monitor"
    BY <2>2, StepOfRoot DEF MonitorInv
  <2>3. CASE Next /\ workflow = "monitor"
    BY <2>3, StepOfRoot, MonitorStep
  <2> QED
    BY <2>1, <2>2, <2>3
<1>3. MonitorInv => OneRepairPerFault
  <2> SUFFICES ASSUME MonitorInv, workflow = "monitor",
                      NEW i \in DOMAIN steps, NEW j \in DOMAIN steps,
                      steps[i].name = "repairComplete", steps[j].name = "repairComplete",
                      steps[i].out = steps[j].out, i < j
               PROVE  FALSE
    <3>1. workflow = "monitor" /\ MonitorInv => DOMAIN steps \subseteq Nat
      BY LenProperties DEF MonitorInv, StepTypes
    <3> QED
      BY <3>1 DEF OneRepairPerFault
  <2>1. /\ StepTypes /\ RepairsWereAsked /\ ReturnsStop /\ Len(steps) \in Nat
        /\ DOMAIN steps = 1..Len(steps)
    BY LenProperties DEF MonitorInv, StepTypes
  <2>2. j > 1 /\ AsksFor(j - 1, steps[i].out)
    BY <2>1 DEF RepairsWereAsked
  <2>3. j - 1 \in 1..Len(steps) /\ j - 1 # Len(steps) /\ i # j - 1
    BY <2>1, <2>2 DEF AsksFor
  <2>4. i < j - 1
    BY <2>1, <2>3
  <2> QED
    BY <2>1, <2>2, <2>3, <2>4 DEF ReturnsStop
<1> QED
  BY <1>1, <1>2, <1>3, PTL DEF Spec

-----------------------------------------------------------------------------
(* workspace-preparation: the authority for direct work.                   *)

\* An earlier receipt is for the base branch only as direct work.
ReceiptIsWhole ==
    wanted.receipt # None =>
        IF wanted.receipt.mode = "defaultBranch"
        THEN wanted.receipt.branch = wanted.receipt.base /\ wanted.receipt.direct
        ELSE /\ wanted.receipt.branch \notin {"main", wanted.receipt.base}
             /\ ~wanted.receipt.direct

MayBeGiven(receipt) ==
    receipt # None /\ receipt.branch = receipt.base => wanted.direct

\* Every workspace a step reports may be given, and the run is past its
\* inspection when it leaves.
ResultsAreAuthorized ==
    /\ \E S : steps \in Seq(S)
    /\ \A i \in 1..Len(steps) :
          steps[i].name \in {"inspect", "apply"} => MayBeGiven(steps[i].out.receipt)
    /\ node \in {"propose", "apply", "exit"} =>
          \E i \in 1..Len(steps) : steps[i].scope = "root" /\ steps[i].name = "inspect"

WorkspaceInv ==
    /\ MayBeGiven(ready)
    /\ workflow = "workspace-preparation" => ReceiptIsWhole /\ ResultsAreAuthorized

\* What inspectWorkspace answers may be given.
LEMMA InspectionIsAuthorized ==
    ASSUME ReceiptIsWhole
    PROVE  MayBeGiven(Inspection.receipt) /\ MayBeGiven(Blocked.receipt)
<1>1. Blocked.receipt = None
  BY DEF Blocked
<1>2. CASE wanted.receipt # None
  <2>1. \/ Inspection = Blocked
        \/ /\ StillHolds(wanted.receipt)
           /\ Inspection = [route |-> "ready", mode |-> wanted.receipt.mode,
                            receipt |-> wanted.receipt]
    BY <1>2 DEF Inspection
  <2>2. CASE StillHolds(wanted.receipt) /\ Inspection.receipt = wanted.receipt
    BY <1>1, <1>2, <2>2 DEF ReceiptIsWhole, MayBeGiven, StillHolds, HoldsAuthority
  <2> QED
    BY <1>1, <2>1, <2>2 DEF MayBeGiven
<1>3. CASE wanted.receipt = None
  <2>1. \/ Inspection.receipt = None
        \/ wanted.direct
        \/ /\ repo.branch # Base
           /\ Inspection = [route |-> "ready", mode |-> Receipt("branch", repo.branch).mode,
                            receipt |-> Receipt("branch", repo.branch)]
    BY <1>1, <1>3 DEF Inspection
  <2>2. CASE Inspection.receipt = Receipt("branch", repo.branch) /\ repo.branch # Base
    BY <1>1, <2>2 DEF MayBeGiven, Receipt
  <2> QED
    BY <1>1, <2>1, <2>2 DEF MayBeGiven
<1> QED
  BY <1>1, <1>2, <1>3 DEF MayBeGiven

\* A step of the workflow is recorded.
LEMMA ResultRecorded ==
    ASSUME ResultsAreAuthorized, NEW x, steps' = steps \o <<x>>, UNCHANGED wanted,
           x.name \in {"inspect", "apply"} => MayBeGiven(x.out.receipt),
           \/ node \in {"propose", "apply", "exit"}
           \/ x.scope = "root" /\ x.name = "inspect"
    PROVE  ResultsAreAuthorized'
<1>1. PICK S : steps \in Seq(S)
  BY DEF ResultsAreAuthorized
<1>2. steps \in Seq(S \cup {x}) /\ x \in S \cup {x}
  BY <1>1, SeqMonotonic
<1>3. /\ steps' \in Seq(S \cup {x}) /\ Len(steps') = Len(steps) + 1
      /\ \A i \in 1..Len(steps) : steps'[i] = steps[i]
      /\ steps'[Len(steps) + 1] = x
  BY <1>2, StepRecorded
<1>4. Len(steps) \in Nat
  BY <1>1, LenProperties
<1>5. \A i \in 1..Len(steps') : i \in 1..Len(steps) \/ i = Len(steps) + 1
  BY <1>3, <1>4
<1>6. \A i \in 1..Len(steps') :
          steps'[i].name \in {"inspect", "apply"} => MayBeGiven(steps[i].out.receipt)'
  BY <1>3, <1>5 DEF ResultsAreAuthorized, MayBeGiven
<1>7. \E i \in 1..Len(steps') : steps'[i].scope = "root" /\ steps'[i].name = "inspect"
  <2>1. CASE x.scope = "root" /\ x.name = "inspect"
    <3>1. Len(steps) + 1 \in 1..Len(steps')
      BY <1>3, <1>4
    <3> QED
      BY <2>1, <3>1, <1>3
  <2>2. CASE node \in {"propose", "apply", "exit"}
    <3>1. PICK i \in 1..Len(steps) : steps[i].scope = "root" /\ steps[i].name = "inspect"
      BY <2>2 DEF ResultsAreAuthorized
    <3>2. i \in 1..Len(steps')
      BY <1>3, <1>4
    <3> QED
      BY <3>1, <3>2, <1>3
  <2> QED
    BY <2>1, <2>2
<1> QED
  BY <1>3, <1>6, <1>7 DEF ResultsAreAuthorized

LEMMA WorkspaceStep ==
    ASSUME WorkspaceInv, Prepare, workflow = "workspace-preparation"
    PROVE  WorkspaceInv'
<1>1. /\ MayBeGiven(ready) /\ ReceiptIsWhole /\ ResultsAreAuthorized
  BY DEF WorkspaceInv
<1>2. steps \o << >> = steps
  BY <1>1, ConcatEmptySeq DEF ResultsAreAuthorized
<1>3. UNCHANGED wanted /\ (UNCHANGED ready \/ LeaveWorkspace)
  BY DEF Prepare, WorkspaceNext, Person, Inspect, ProposeName, Apply, LeaveWorkspace,
         workspaceVars
<1>4. CASE Person
  BY <1>1, <1>3, <1>4 DEF WorkspaceInv, Person, runVars, MayBeGiven, ReceiptIsWhole,
                          ResultsAreAuthorized, LeaveWorkspace, Preparing, At
<1>5. CASE Inspect
  <2>1. PICK result \in {Inspection, Blocked} :
           steps' = steps \o <<[scope |-> "root", name |-> "inspect", out |-> result]>>
    BY <1>5 DEF Inspect, Advance, Step
  <2>2. MayBeGiven(result.receipt)
    BY <1>1, InspectionIsAuthorized
  <2>3. ResultsAreAuthorized'
    BY <1>1, <1>3, <2>1, <2>2, ResultRecorded
  <2> QED
    BY <1>1, <1>3, <1>5, <2>3 DEF WorkspaceInv, MayBeGiven, ReceiptIsWhole, Inspect,
                                  workspaceVars
<1>6. CASE ProposeName
  <2>1. node = "propose" /\ UNCHANGED ready
    BY <1>6 DEF ProposeName, Preparing, At, workspaceVars
  <2>2. ResultsAreAuthorized'
    <3>1. CASE UNCHANGED steps /\ node' = "failed"
      BY <1>1, <1>3, <3>1 DEF ResultsAreAuthorized, MayBeGiven
    <3>2. CASE \E b \in Branches :
                  steps' = steps \o <<[scope |-> "root", name |-> "propose", out |-> b]>>
      BY <1>1, <1>3, <2>1, <3>2, ResultRecorded
    <3> QED
      BY <1>2, <1>6, <3>1, <3>2 DEF ProposeName, Advance, Fail, Step
  <2> QED
    BY <1>1, <1>3, <2>1, <2>2 DEF WorkspaceInv, MayBeGiven, ReceiptIsWhole
<1>7. CASE Apply
  <2> DEFINE b == Output("root", "propose")
             mode == Output("root", "inspect").mode
             made == [route |-> "ready", mode |-> mode, receipt |-> Receipt(mode, b)]
  <2>1. node = "apply" /\ UNCHANGED ready
    BY <1>7 DEF Apply, Preparing, At
  <2>2. \/ /\ NameIsFree(b)
           /\ steps' = steps \o <<[scope |-> "root", name |-> "apply", out |-> made]>>
        \/ steps' = steps \o <<[scope |-> "root", name |-> "apply", out |-> Blocked]>>
    BY <1>7 DEF Apply, Advance, Step
  <2>3. NameIsFree(b) => MayBeGiven(made.receipt)
    <3> HIDE DEF b, mode
    <3> QED
      BY DEF NameIsFree, MayBeGiven, Receipt
  <2> HIDE DEF made, b
  <2>4. MayBeGiven(Blocked.receipt)
    BY DEF MayBeGiven, Blocked
  <2>5. ResultsAreAuthorized'
    BY <1>1, <1>3, <2>1, <2>2, <2>3, <2>4, ResultRecorded
  <2> QED
    BY <1>1, <1>3, <2>1, <2>5 DEF WorkspaceInv, MayBeGiven, ReceiptIsWhole
<1>8. CASE LeaveWorkspace
  <2> DEFINE result == IF Output("root", "apply") # None THEN Output("root", "apply")
                       ELSE Output("root", "inspect")
  <2>1. /\ node = "exit" /\ ready' = result.receipt /\ UNCHANGED steps
    BY <1>2, <1>8 DEF LeaveWorkspace, Preparing, At, Advance
  <2>2. PICK S : steps \in Seq(S)
    BY <1>1 DEF ResultsAreAuthorized
  <2>3. ASSUME NEW name \in {"inspect", "apply"}, LatestStep("root", name) # 0
        PROVE  /\ Output("root", name) = steps[LatestStep("root", name)].out
               /\ MayBeGiven(Output("root", name).receipt)
    <3>1. /\ LatestStep("root", name) \in 1..Len(steps)
          /\ steps[LatestStep("root", name)].name = name
      BY <2>2, <2>3, LatestStepIs, LenProperties
    <3>2. Output("root", name) = steps[LatestStep("root", name)].out
      BY <3>1, <2>2, LenProperties DEF Output, EntryIndex
    <3> QED
      BY <1>1, <3>1, <3>2 DEF ResultsAreAuthorized
  <2>4. LatestStep("root", "apply") = 0 => Output("root", "apply") = None
    BY DEF Output, EntryIndex
  <2>5. LatestStep("root", "inspect") # 0
    <3>1. PICK i \in 1..Len(steps) : steps[i].scope = "root" /\ steps[i].name = "inspect"
      BY <1>1, <2>1 DEF ResultsAreAuthorized
    <3> QED
      BY <2>2, <3>1, LatestStepIs, LenProperties
  <2>6. MayBeGiven(ready')
    BY <2>1, <2>3, <2>4, <2>5
  <2>7. ResultsAreAuthorized'
    BY <1>1, <1>3, <2>1 DEF ResultsAreAuthorized, MayBeGiven
  <2> QED
    BY <1>1, <1>3, <2>6, <2>7 DEF WorkspaceInv, MayBeGiven, ReceiptIsWhole
<1> QED
  BY <1>4, <1>5, <1>6, <1>7, <1>8 DEF Prepare, WorkspaceNext

\* Work on the base branch needs the authority of this request
\* (inspectWorkspace).
THEOREM DirectWorkIsAuthorized == Spec => []AuthorizedDirectWork
<1>1. Init => WorkspaceInv
  <2> SUFFICES ASSUME Init PROVE WorkspaceInv
    OBVIOUS
  <2>1. ready = None /\ steps = << >> /\ node = FirstNode[workflow]
    BY DEF Init, WorkspaceInit
  <2>2. workflow = "workspace-preparation" => ReceiptIsWhole /\ node = "inspect"
    BY DEF Init, WorkspaceInit, ReceiptIsWhole, FirstNode, Roots
  <2>3. steps \in Seq({}) /\ Len(steps) = 0
    BY <2>1
  <2> QED
    BY <2>1, <2>2, <2>3 DEF WorkspaceInv, MayBeGiven, ResultsAreAuthorized
<1>2. WorkspaceInv /\ [Next]_vars => WorkspaceInv'
  <2> SUFFICES ASSUME WorkspaceInv, [Next]_vars PROVE WorkspaceInv'
    OBVIOUS
  <2>1. CASE UNCHANGED vars
    BY <2>1 DEF vars, runVars, workspaceVars, WorkspaceInv, MayBeGiven, ReceiptIsWhole,
                ResultsAreAuthorized
  <2>2. CASE Next /\ workflow # "workspace-preparation"
    BY <2>2, StepOfRoot DEF WorkspaceInv, MayBeGiven, workspaceVars
  <2>3. CASE Next /\ workflow = "workspace-preparation"
    BY <2>3, StepOfRoot, WorkspaceStep
  <2> QED
    BY <2>1, <2>2, <2>3
<1>3. WorkspaceInv => AuthorizedDirectWork
  BY DEF WorkspaceInv, MayBeGiven, AuthorizedDirectWork
<1> QED
  BY <1>1, <1>2, <1>3, PTL DEF Spec

-----------------------------------------------------------------------------
(* plan-change: the plan that is returned was let through.                 *)

StepsAreSequence == \E S : steps \in Seq(S)

\* The plan of the latest round.
Designed ==
    node \in {"assessPlan", "documentation", "updateDocumentation", "verifyDocumentation",
              "finishDocumentation", "approval", "approve", "finalize"} =>
        LatestStep("design", "exit") # 0 /\ CurrentDesign.plan \in Plans

\* Inside autodoc: what its entry was given, and whether it wrote.
Documenting ==
    node \in {"updateDocumentation", "verifyDocumentation", "finishDocumentation"} =>
        /\ LatestStep("documentation", "entry") # 0
        /\ Input("documentation") = CurrentDesign.plan
        /\ wrote <=> Output("documentation", "updateDocumentation") # None

\* The documents hold the plan, and autodoc's exit says so.
Documented ==
    /\ node \in {"verifyDocumentation", "finishDocumentation", "approval", "approve",
                 "finalize"} => docs = CurrentDesign.plan
    /\ node \in {"approval", "approve", "finalize"} =>
           /\ LatestStep("documentation", "exit") # 0
           /\ CurrentDocumentation.plan = CurrentDesign.plan
           /\ wrote <=> CurrentDocumentation.updated

WayIsAllowed(by) ==
    CASE request.mode = "skip"     -> by = "skipped"
      [] request.mode = "required" -> by = "human"
      [] request.mode = "auto"     -> by \in {"human", "timeout"}

\* The person is asked about the documented plan, and consent is for it.
Consented ==
    /\ node = "approve" => /\ LatestStep("approval", "entry") # 0
                           /\ Input("approval") = CurrentDesign.plan
                           /\ request.mode # "skip"
    /\ node = "finalize" =>
           /\ LatestStep("approval", "exit") # 0
           /\ consent = [plan |-> CurrentDesign.plan, by |-> MountOutput("approval").out]
           /\ WayIsAllowed(MountOutput("approval").out)

PlanInv ==
    workflow = "plan-change" =>
        /\ StepsAreSequence
        /\ request.mode \in {"auto", "required", "skip"}
        /\ LatestStep("root", "finalize") = 0 \/ node = "ready"
        /\ Designed /\ Documenting /\ Documented /\ Consented
        /\ ReadyPlanIsApproved

\* Some steps t are recorded.
LEMMA StepsGrow ==
    ASSUME StepsAreSequence, NEW T, NEW t \in Seq(T), steps' = steps \o t
    PROVE  /\ StepsAreSequence'
           /\ Len(steps) \in Nat /\ Len(t) \in Nat
           /\ Len(steps') = Len(steps) + Len(t)
           /\ \A i \in 1..Len(steps) : steps'[i] = steps[i]
           /\ \A j \in 1..Len(t) : steps'[Len(steps) + j] = t[j]
<1>1. PICK S : steps \in Seq(S)
  BY DEF StepsAreSequence
<1>2. steps \in Seq(S \cup T) /\ t \in Seq(S \cup T)
  BY <1>1, SeqMonotonic
<1>3. Len(steps) \in Nat /\ Len(t) \in Nat
  BY <1>2, LenProperties
<1>4. /\ steps' \in Seq(S \cup T) /\ Len(steps') = Len(steps) + Len(t)
      /\ \A i \in 1..Len(steps) + Len(t) :
            steps'[i] = IF i <= Len(steps) THEN steps[i] ELSE t[i - Len(steps)]
  BY <1>2, ConcatProperties
<1>5. \A i \in 1..Len(steps) : i \in 1..Len(steps) + Len(t) /\ i <= Len(steps)
  BY <1>3
<1>6. \A j \in 1..Len(t) : /\ Len(steps) + j \in 1..Len(steps) + Len(t)
                           /\ ~ (Len(steps) + j <= Len(steps))
                           /\ (Len(steps) + j) - Len(steps) = j
  BY <1>3
<1> QED
  BY <1>3, <1>4, <1>5, <1>6 DEF StepsAreSequence

\* The latest step of a name is characterised by what comes after it.
LEMMA LatestStepIsUnique ==
    ASSUME NEW S, steps' \in Seq(S), NEW scope, NEW name, NEW i \in 0..Len(steps'),
           i # 0 => steps'[i].scope = scope /\ steps'[i].name = name,
           \A k \in 1..Len(steps') :
               steps'[k].scope = scope /\ steps'[k].name = name => k <= i
    PROVE  LatestStep(scope, name)' = i
<1> DEFINE Named == {0} \cup {k \in DOMAIN steps' :
                                 steps'[k].scope = scope /\ steps'[k].name = name}
<1>1. Len(steps') \in Nat /\ DOMAIN steps' = 1..Len(steps')
  BY LenProperties
<1>2. Named \in SUBSET (0..Len(steps')) /\ i \in Named /\ \A k \in Named : k <= i
  BY <1>1
<1>3. LatestStep(scope, name)' = Max(Named)
  BY DEF LatestStep
<1> HIDE DEF Named
<1>4. Max(Named) \in Named /\ \A k \in Named : Max(Named) >= k
  <2>1. Named # {}
    BY <1>2
  <2> QED
    BY <1>1, <1>2, <2>1, GreatestIsMember
<1>5. Max(Named) \in Nat /\ i \in Nat /\ Max(Named) <= i /\ Max(Named) >= i
  <2>1. Max(Named) \in 0..Len(steps') /\ i \in 0..Len(steps')
    BY <1>2, <1>4
  <2>2. Max(Named) <= i /\ Max(Named) >= i
    BY <1>2, <1>4
  <2> QED
    BY <1>1, <2>1, <2>2
<1> QED
  BY <1>3, <1>5

\* A name none of the recorded steps has.
LEMMA NotRecorded ==
    ASSUME StepsAreSequence, NEW T, NEW t \in Seq(T), steps' = steps \o t,
           NEW scope, NEW name,
           \A j \in 1..Len(t) : ~ (t[j].scope = scope /\ t[j].name = name)
    PROVE  /\ LatestStep(scope, name)' = LatestStep(scope, name)
           /\ LatestStep(scope, name) \in 0..Len(steps)
           /\ LatestStep(scope, name) # 0 =>
                 steps'[LatestStep(scope, name)] = steps[LatestStep(scope, name)]
<1> DEFINE i == LatestStep(scope, name)
<1>1. PICK S : steps \in Seq(S)
  BY DEF StepsAreSequence
<1>2. PICK R : steps' \in Seq(R)
  BY StepsGrow DEF StepsAreSequence
<1>3. /\ Len(steps) \in Nat /\ Len(t) \in Nat /\ Len(steps') = Len(steps) + Len(t)
      /\ \A k \in 1..Len(steps) : steps'[k] = steps[k]
      /\ \A j \in 1..Len(t) : steps'[Len(steps) + j] = t[j]
  BY StepsGrow
<1>4. /\ i \in 0..Len(steps)
      /\ i # 0 => steps[i].scope = scope /\ steps[i].name = name
      /\ \A k \in 1..Len(steps) :
            steps[k].scope = scope /\ steps[k].name = name => k <= i
  BY <1>1, LatestStepIs
<1> HIDE DEF i
<1>5. i \in 0..Len(steps') /\ (i # 0 => i \in 1..Len(steps))
  BY <1>3, <1>4
<1>6. ASSUME NEW k \in 1..Len(steps'), steps'[k].scope = scope, steps'[k].name = name
      PROVE  k <= i
  <2>1. CASE k \in 1..Len(steps)
    BY <1>3, <1>4, <1>6, <2>1
  <2>2. CASE k \notin 1..Len(steps)
    <3>1. k - Len(steps) \in 1..Len(t) /\ k = Len(steps) + (k - Len(steps))
      BY <1>3, <2>2
    <3> QED
      BY <1>3, <1>6, <3>1
  <2> QED
    BY <2>1, <2>2
<1>7. i # 0 => steps'[i].scope = scope /\ steps'[i].name = name /\ steps'[i] = steps[i]
  BY <1>3, <1>4, <1>5
<1>8. LatestStep(scope, name)' = i
  BY <1>2, <1>5, <1>6, <1>7, LatestStepIsUnique
<1> QED
  BY <1>4, <1>7, <1>8 DEF i

\* The last of the recorded steps with its name.
LEMMA Recorded ==
    ASSUME StepsAreSequence, NEW T, NEW t \in Seq(T), steps' = steps \o t,
           NEW j \in 1..Len(t),
           \A k \in 1..Len(t) :
               t[k].scope = t[j].scope /\ t[k].name = t[j].name => k <= j
    PROVE  /\ LatestStep(t[j].scope, t[j].name)' = Len(steps) + j
           /\ Len(steps) + j \in Nat \ {0}
           /\ steps'[Len(steps) + j] = t[j]
<1> DEFINE i == Len(steps) + j
           scope == t[j].scope
           name == t[j].name
<1>1. PICK R : steps' \in Seq(R)
  BY StepsGrow DEF StepsAreSequence
<1>2. /\ Len(steps) \in Nat /\ Len(t) \in Nat /\ Len(steps') = Len(steps) + Len(t)
      /\ \A m \in 1..Len(t) : steps'[Len(steps) + m] = t[m]
  BY StepsGrow
<1>3. i \in 0..Len(steps') /\ i \in Nat \ {0} /\ steps'[i] = t[j]
  <2>1. j \in Nat /\ 1 <= j /\ j <= Len(t)
    BY <1>2
  <2>2. i \in 0..Len(steps') /\ i \in Nat \ {0}
    BY <1>2, <2>1
  <2>3. steps'[i] = t[j]
    BY <1>2
  <2> QED
    BY <2>2, <2>3
<1>4. ASSUME NEW k \in 1..Len(steps'), steps'[k].scope = scope, steps'[k].name = name
      PROVE  k <= i
  <2>1. CASE k <= Len(steps)
    BY <1>2, <2>1
  <2>2. CASE ~ (k <= Len(steps))
    <3>1. k - Len(steps) \in 1..Len(t) /\ k = Len(steps) + (k - Len(steps))
      BY <1>2, <2>2
    <3>2. k - Len(steps) <= j
      BY <1>2, <1>4, <3>1
    <3> QED
      BY <1>2, <3>1, <3>2
  <2> QED
    BY <2>1, <2>2
<1>5. steps'[i].scope = scope /\ steps'[i].name = name
  BY <1>3
<1> HIDE DEF i, scope, name
<1>6. LatestStep(scope, name)' = i
  BY <1>1, <1>3, <1>4, <1>5, LatestStepIsUnique
<1> QED
  BY <1>3, <1>6 DEF i, scope, name

\* What a node is shown of the others stays as it is while they record
\* nothing.
LEMMA ShownStays ==
    ASSUME StepsAreSequence, NEW T, NEW t \in Seq(T), steps' = steps \o t,
           NEW scope
    PROVE  /\ (\A j \in 1..Len(t) : ~ (t[j].scope = scope /\ t[j].name = "exit")) =>
                 /\ MountOutput(scope)' = MountOutput(scope)
                 /\ LatestStep(scope, "exit")' = LatestStep(scope, "exit")
           /\ (\A j \in 1..Len(t) : ~ (t[j].scope = scope /\ t[j].name = "entry"))
              /\ scope # "root" /\ LatestStep(scope, "entry") # 0 =>
                 /\ Input(scope)' = Input(scope)
                 /\ LatestStep(scope, "entry")' = LatestStep(scope, "entry")
                 /\ \A name : (\A j \in 1..Len(t) : ~ (t[j].scope = scope /\ t[j].name = name))
                       => Output(scope, name)' = Output(scope, name)
<1>1. ASSUME \A j \in 1..Len(t) : ~ (t[j].scope = scope /\ t[j].name = "exit")
      PROVE  /\ MountOutput(scope)' = MountOutput(scope)
             /\ LatestStep(scope, "exit")' = LatestStep(scope, "exit")
  <2>1. /\ LatestStep(scope, "exit")' = LatestStep(scope, "exit")
        /\ LatestStep(scope, "exit") # 0 =>
              steps'[LatestStep(scope, "exit")] = steps[LatestStep(scope, "exit")]
    BY <1>1, NotRecorded
  <2> QED
    BY <2>1 DEF MountOutput
<1>2. ASSUME \A j \in 1..Len(t) : ~ (t[j].scope = scope /\ t[j].name = "entry"),
             scope # "root", LatestStep(scope, "entry") # 0
      PROVE  /\ Input(scope)' = Input(scope)
             /\ LatestStep(scope, "entry")' = LatestStep(scope, "entry")
             /\ EntryIndex(scope)' = EntryIndex(scope)
             /\ EntryIndex(scope) \in Nat \ {0}
  <2>1. /\ LatestStep(scope, "entry")' = LatestStep(scope, "entry")
        /\ steps'[LatestStep(scope, "entry")] = steps[LatestStep(scope, "entry")]
        /\ LatestStep(scope, "entry") \in 0..Len(steps)
    BY <1>2, NotRecorded
  <2> QED
    BY <1>2, <2>1 DEF Input, EntryIndex
<1>3. ASSUME \A j \in 1..Len(t) : ~ (t[j].scope = scope /\ t[j].name = "entry"),
             scope # "root", LatestStep(scope, "entry") # 0, NEW name,
             \A j \in 1..Len(t) : ~ (t[j].scope = scope /\ t[j].name = name)
      PROVE  Output(scope, name)' = Output(scope, name)
  <2> DEFINE i == LatestStep(scope, name)
  <2>1. /\ LatestStep(scope, name)' = i /\ i \in 0..Len(steps)
        /\ i # 0 => steps'[i] = steps[i]
    BY <1>3, NotRecorded
  <2>2. EntryIndex(scope)' = EntryIndex(scope) /\ EntryIndex(scope) \in Nat \ {0}
    BY <1>2, <1>3
  <2> HIDE DEF i
  <2>3. CASE i = 0
    <3>1. i <= EntryIndex(scope)
      BY <2>2, <2>3
    <3> QED
      BY <2>1, <2>2, <3>1 DEF Output, i
  <2>4. CASE i # 0
    BY <2>1, <2>2, <2>4 DEF Output, i
  <2> QED
    BY <2>3, <2>4
<1> QED
  BY <1>1, <1>2, <1>3

\* A node that records nothing changes nothing that is shown.
LEMMA NothingRecorded ==
    ASSUME StepsAreSequence, UNCHANGED steps
    PROVE  /\ StepsAreSequence'
           /\ \A scope, name : /\ LatestStep(scope, name)' = LatestStep(scope, name)
                               /\ Output(scope, name)' = Output(scope, name)
           /\ \A scope : /\ Input(scope)' = Input(scope)
                         /\ MountOutput(scope)' = MountOutput(scope)
           /\ CurrentDesign' = CurrentDesign
           /\ CurrentDocumentation' = CurrentDocumentation
BY DEF StepsAreSequence, LatestStep, Output, Input, EntryIndex, MountOutput,
       CurrentDesign, CurrentDocumentation

LEMMA NotFinalized ==
    ASSUME LatestStep("root", "finalize")' = 0
    PROVE  ReadyPlanIsApproved'
BY DEF ReadyPlanIsApproved, Output, EntryIndex

\* What holds while plan-change runs.
PlanRows ==
    /\ StepsAreSequence
    /\ request.mode \in {"auto", "required", "skip"}
    /\ LatestStep("root", "finalize") = 0
    /\ Designed /\ Documenting /\ Documented /\ Consented

\* A step that is no `finalize` keeps the rows the next node has nothing to
\* do with.
LEMMA PlanGoesOn ==
    ASSUME PlanRows, NEW T, NEW t \in Seq(T), steps' = steps \o t, workflow' = workflow,
           \A j \in 1..Len(t) : ~ (t[j].scope = "root" /\ t[j].name = "finalize"),
           UNCHANGED request,
           Designed' /\ Documenting' /\ Documented' /\ Consented'
    PROVE  PlanInv'
<1>1. StepsAreSequence'
  BY StepsGrow DEF PlanRows
<1>2. LatestStep("root", "finalize")' = 0
  BY NotRecorded DEF PlanRows
<1> QED
  BY <1>1, <1>2, NotFinalized DEF PlanInv, PlanRows

LEMMA PlanMoves ==
    ASSUME PlanRows, UNCHANGED <<request, steps>>, workflow' = workflow,
           Designed' /\ Documenting' /\ Documented' /\ Consented'
    PROVE  PlanInv'
<1>1. LatestStep("root", "finalize")' = 0 /\ StepsAreSequence'
  BY NothingRecorded DEF PlanRows
<1> QED
  BY <1>1, NotFinalized DEF PlanInv, PlanRows

LEMMA PlanQuiets ==
    ASSUME PlanRows, UNCHANGED <<request, steps>>, workflow' = workflow,
           node' \in {"blocked", "failed", "design"}
    PROVE  PlanInv'
<1>1. Designed' /\ Documenting' /\ Documented' /\ Consented'
  BY DEF Designed, Documenting, Documented, Consented
<1> QED
  BY <1>1, PlanMoves

LEMMA TwoSteps ==
    ASSUME NEW x, NEW y
    PROVE  /\ <<x, y>> \in Seq({x, y}) /\ Len(<<x, y>>) = 2
           /\ <<x, y>>[1] = x /\ <<x, y>>[2] = y
           /\ \A j \in 1..Len(<<x, y>>) : <<x, y>>[j] \in {x, y} /\ j <= 2
OBVIOUS

\* Two steps are recorded: the later one is the latest of its name.
LEMMA TwoRecorded ==
    ASSUME StepsAreSequence, NEW x, NEW y, steps' = steps \o <<x, y>>
    PROVE  /\ LatestStep(y.scope, y.name)' = Len(steps) + 2
           /\ Len(steps) + 2 \in Nat \ {0}
           /\ steps'[Len(steps) + 2] = y
<1> DEFINE T == {x, y}
           t == <<x, y>>
<1>1. /\ t \in Seq(T) /\ 2 \in 1..Len(t) /\ t[2] = y /\ steps' = steps \o t
      /\ \A k \in 1..Len(t) : k <= 2
  BY TwoSteps
<1>2. PICK j \in 1..Len(t) : j = 2
  BY <1>1
<1> HIDE DEF T, t
<1>3. t[j] = y
  BY <1>1, <1>2
<1>4. \A k \in 1..Len(t) : t[k].scope = y.scope /\ t[k].name = y.name => k <= j
  BY <1>1, <1>2
<1>5. LatestStep(y.scope, y.name)' = Len(steps) + j
  BY <1>1, <1>3, <1>4, Recorded
<1>6. steps'[Len(steps) + j] = y /\ Len(steps) \in Nat
  BY <1>1, <1>3, StepsGrow
<1> QED
  BY <1>2, <1>5, <1>6

LEMMA DesignStep ==
    ASSUME PlanRows, workflow' = workflow, Design \/ AssessPlan
    PROVE  PlanInv'
<1>1. StepsAreSequence /\ steps \o << >> = steps /\ UNCHANGED request
  BY ConcatEmptySeq DEF PlanRows, StepsAreSequence, Design, AssessPlan, planVars
<1>2. CASE node' \in {"blocked", "failed"} /\ UNCHANGED steps
  BY <1>1, <1>2, PlanQuiets
<1>3. CASE Design /\ node' = "assessPlan"
  <2>1. PICK p \in Plans :
           steps' = steps \o <<Enter("design", PriorPlan),
                               Exit("design", "ready", [plan |-> p, changed |-> p # PriorPlan])>>
    BY <1>3 DEF Design, Advance, Fail
  <2> DEFINE x == Enter("design", PriorPlan)
             y == Exit("design", "ready", [plan |-> p, changed |-> p # PriorPlan])
             t == <<x, y>>
  <2>2. /\ x.scope = "design" /\ x.name = "entry"
        /\ y.scope = "design" /\ y.name = "exit" /\ y.out.out.plan = p
    BY DEF Enter, Exit, Step
  <2> HIDE DEF x, y
  <2>3. /\ t \in Seq({x, y}) /\ 2 \in 1..Len(t) /\ t[2] = y /\ steps' = steps \o t
        /\ \A j \in 1..Len(t) : j <= 2 /\ ~ (t[j].scope = "root" /\ t[j].name = "finalize")
    <3>1. t \in Seq({x, y}) /\ Len(t) = 2 /\ t[1] = x /\ t[2] = y
      OBVIOUS
    <3>2. steps' = steps \o t
      BY <2>1 DEF x, y
    <3> QED
      BY <2>2, <3>1, <3>2
  <2> HIDE DEF t
  <2>4. /\ LatestStep("design", "exit")' = Len(steps) + 2
        /\ Len(steps) + 2 \in Nat \ {0}
        /\ steps'[Len(steps) + 2] = y
    BY <1>1, <2>2, <2>3, TwoRecorded DEF t
  <2>5. CurrentDesign.plan' = p
    BY <2>2, <2>4 DEF CurrentDesign, MountOutput
  <2>6. Designed' /\ Documenting' /\ Documented' /\ Consented'
    BY <1>3, <2>4, <2>5 DEF Designed, Documenting, Documented, Consented
  <2> QED
    BY <1>1, <2>3, <2>6, PlanGoesOn
<1>4. CASE AssessPlan /\ node' = "documentation"
  <2>1. node = "assessPlan" /\ UNCHANGED steps
    BY <1>1, <1>4 DEF AssessPlan, Planning, At, Advance
  <2>2. Designed' /\ Documenting' /\ Documented' /\ Consented'
    BY <1>1, <1>4, <2>1, NothingRecorded
       DEF PlanRows, Designed, Documenting, Documented, Consented
  <2> QED
    BY <1>1, <2>1, <2>2, PlanMoves
<1> QED
  BY <1>1, <1>2, <1>3, <1>4 DEF Design, AssessPlan, Advance, Fail

LEMMA OneStep ==
    ASSUME NEW x
    PROVE  /\ <<x>> \in Seq({x}) /\ 1 \in 1..Len(<<x>>) /\ <<x>>[1] = x
           /\ \A j \in 1..Len(<<x>>) : <<x>>[j] = x /\ j <= 1
OBVIOUS

\* One step is recorded: what its scope is shown of it, and the others not.
LEMMA OneRecorded ==
    ASSUME StepsAreSequence, NEW x, steps' = steps \o <<x>>
    PROVE  /\ LatestStep(x.scope, x.name)' = Len(steps) + 1
           /\ Len(steps) \in Nat /\ Len(steps) + 1 # 0 /\ steps'[Len(steps) + 1] = x
           /\ \A scope : ~ (x.scope = scope /\ x.name = "exit") =>
                 /\ MountOutput(scope)' = MountOutput(scope)
                 /\ LatestStep(scope, "exit")' = LatestStep(scope, "exit")
           /\ \A scope : (/\ ~ (x.scope = scope /\ x.name = "entry") /\ scope # "root"
                          /\ LatestStep(scope, "entry") # 0) =>
                 /\ Input(scope)' = Input(scope)
                 /\ LatestStep(scope, "entry")' = LatestStep(scope, "entry")
                 /\ \A name : ~ (x.scope = scope /\ x.name = name)
                       => Output(scope, name)' = Output(scope, name)
<1> DEFINE t == <<x>>
<1>0. /\ t \in Seq({x}) /\ 1 \in 1..Len(t) /\ t[1] = x /\ steps' = steps \o t
      /\ \A j \in 1..Len(t) : t[j] = x /\ j <= 1
  BY OneStep
<1> HIDE DEF t
<1>1. Len(steps) \in Nat
  BY <1>0, StepsGrow
<1>2. /\ LatestStep(x.scope, x.name)' = Len(steps) + 1
      /\ steps'[Len(steps) + 1] = x
  BY <1>0, Recorded
<1>3. ASSUME NEW scope, ~ (x.scope = scope /\ x.name = "exit")
      PROVE  /\ MountOutput(scope)' = MountOutput(scope)
             /\ LatestStep(scope, "exit")' = LatestStep(scope, "exit")
  <2>1. \A j \in 1..Len(t) : ~ (t[j].scope = scope /\ t[j].name = "exit")
    BY <1>0, <1>3
  <2> QED
    BY <1>0, <2>1, ShownStays
<1>4. ASSUME NEW scope, ~ (x.scope = scope /\ x.name = "entry"), scope # "root",
             LatestStep(scope, "entry") # 0
      PROVE  /\ Input(scope)' = Input(scope)
             /\ LatestStep(scope, "entry")' = LatestStep(scope, "entry")
             /\ \A name : ~ (x.scope = scope /\ x.name = name)
                    => Output(scope, name)' = Output(scope, name)
  <2>1. \A j \in 1..Len(t) : ~ (t[j].scope = scope /\ t[j].name = "entry")
    BY <1>0, <1>4
  <2>2. /\ Input(scope)' = Input(scope)
        /\ LatestStep(scope, "entry")' = LatestStep(scope, "entry")
        /\ \A name : (\A j \in 1..Len(t) : ~ (t[j].scope = scope /\ t[j].name = name))
               => Output(scope, name)' = Output(scope, name)
    BY <1>0, <1>4, <2>1, ShownStays
  <2>3. \A name : ~ (x.scope = scope /\ x.name = name)
           => \A j \in 1..Len(t) : ~ (t[j].scope = scope /\ t[j].name = name)
    BY <1>0
  <2> QED
    BY <2>2, <2>3
<1>5. Len(steps) + 1 # 0
  BY <1>1
<1> QED
  BY <1>1, <1>2, <1>3, <1>4, <1>5

LEMMA PlanRecords ==
    ASSUME PlanRows, NEW x, steps' = steps \o <<x>>, workflow' = workflow,
           ~ (x.scope = "root" /\ x.name = "finalize"), UNCHANGED request,
           Designed' /\ Documenting' /\ Documented' /\ Consented'
    PROVE  PlanInv'
<1> DEFINE t == <<x>>
<1>1. /\ t \in Seq({x}) /\ steps' = steps \o t
      /\ \A j \in 1..Len(t) : ~ (t[j].scope = "root" /\ t[j].name = "finalize")
  BY OneStep
<1> HIDE DEF t
<1> QED
  BY <1>1, PlanGoesOn

\* autodoc.
LEMMA DocumentationStep ==
    ASSUME PlanRows, workflow' = workflow,
           \/ InspectDocumentation \/ UpdateDocumentation
           \/ VerifyDocumentation \/ FinishDocumentation
    PROVE  PlanInv'
<1>1. StepsAreSequence /\ steps \o << >> = steps /\ UNCHANGED request
  BY ConcatEmptySeq DEF PlanRows, StepsAreSequence, InspectDocumentation,
     UpdateDocumentation, VerifyDocumentation, FinishDocumentation, planVars
<1>2. CASE node' \in {"blocked", "failed"} /\ UNCHANGED steps
  BY <1>1, <1>2, PlanQuiets
<1>3. CASE InspectDocumentation /\ ~ (node' = "failed" /\ UNCHANGED steps)
  <2> DEFINE x == Enter("documentation", CurrentDesign.plan)
  <2>1. /\ node = "documentation" /\ wrote' = FALSE /\ UNCHANGED docs
        /\ steps' = steps \o <<x>>
        /\ node' \in {"finishDocumentation", "updateDocumentation", "blocked"}
        /\ node' = "finishDocumentation" => docs = CurrentDesign.plan
    BY <1>1, <1>3 DEF InspectDocumentation, Planning, At, Advance, Fail
  <2>2. x.scope = "documentation" /\ x.name = "entry" /\ x.out = CurrentDesign.plan
    BY DEF Enter, Step
  <2> HIDE DEF x
  <2>3. /\ LatestStep("documentation", "entry")' = Len(steps) + 1
        /\ Len(steps) \in Nat /\ Len(steps) + 1 # 0 /\ steps'[Len(steps) + 1] = x
        /\ MountOutput("design")' = MountOutput("design")
        /\ LatestStep("design", "exit")' = LatestStep("design", "exit")
    BY <1>1, <2>1, <2>2, OneRecorded
  <2>4. CurrentDesign' = CurrentDesign
    BY <2>3 DEF CurrentDesign
  <2>5. Input("documentation")' = CurrentDesign.plan
    BY <2>2, <2>3 DEF Input, EntryIndex
  <2>6. Output("documentation", "updateDocumentation")' = None
    <3>1. LatestStep("documentation", "updateDocumentation")'
             = LatestStep("documentation", "updateDocumentation")
          /\ LatestStep("documentation", "updateDocumentation") \in 0..Len(steps)
      <4> DEFINE t == <<x>>
      <4>1. /\ t \in Seq({x}) /\ steps' = steps \o t
            /\ \A j \in 1..Len(t) : ~ (/\ t[j].scope = "documentation"
                                        /\ t[j].name = "updateDocumentation")
        BY <2>1, <2>2, OneStep
      <4> HIDE DEF t
      <4> QED
        BY <1>1, <4>1, NotRecorded
    <3> QED
      BY <2>3, <3>1 DEF Output, EntryIndex
  <2>7. Designed' /\ Documenting' /\ Documented' /\ Consented'
    BY <2>1, <2>3, <2>4, <2>5, <2>6
       DEF PlanRows, Designed, Documenting, Documented, Consented
  <2> QED
    BY <1>1, <2>1, <2>2, <2>7, PlanRecords
<1>4. CASE UpdateDocumentation /\ node' = "verifyDocumentation"
  <2> DEFINE plan == Input("documentation")
             x == Step("documentation", "updateDocumentation", plan)
  <2>1. /\ node = "updateDocumentation" /\ docs' = plan /\ wrote' = TRUE
        /\ steps' = steps \o <<x>>
    BY <1>4 DEF UpdateDocumentation, Planning, At, Advance, Fail
  <2>2. x.scope = "documentation" /\ x.name = "updateDocumentation" /\ x.out = plan
    BY DEF Step
  <2> HIDE DEF x
  <2>3. /\ LatestStep("documentation", "entry") # 0 /\ plan = CurrentDesign.plan
        /\ CurrentDesign.plan \in Plans /\ LatestStep("design", "exit") # 0
    BY <2>1 DEF PlanRows, Documenting, Designed
  <2>4. /\ LatestStep("documentation", "updateDocumentation")' = Len(steps) + 1
        /\ Len(steps) \in Nat /\ steps'[Len(steps) + 1] = x
        /\ MountOutput("design")' = MountOutput("design")
        /\ LatestStep("design", "exit")' = LatestStep("design", "exit")
        /\ Input("documentation")' = plan
        /\ LatestStep("documentation", "entry")' = LatestStep("documentation", "entry")
    BY <1>1, <2>1, <2>2, <2>3, OneRecorded
  <2>5. CurrentDesign' = CurrentDesign
    BY <2>4 DEF CurrentDesign
  <2>6. LatestStep("documentation", "entry") \in 0..Len(steps)
    BY <1>1, LatestStepIs DEF StepsAreSequence
  <2>7. Output("documentation", "updateDocumentation")' = plan
    BY <2>2, <2>4, <2>6 DEF Output, EntryIndex
  <2>8. Designed' /\ Documenting' /\ Documented' /\ Consented'
    BY <1>4, <2>1, <2>3, <2>4, <2>5, <2>7, PlanAssumption
       DEF Designed, Documenting, Documented, Consented
  <2> QED
    BY <1>1, <2>1, <2>2, <2>8, PlanRecords
<1>5. CASE VerifyDocumentation /\ node' = "finishDocumentation"
  <2> DEFINE x == Step("documentation", "verification", "ready")
  <2>1. /\ node = "verifyDocumentation" /\ UNCHANGED planVars
        /\ steps' = steps \o <<x>>
    BY <1>5 DEF VerifyDocumentation, Planning, At, Advance, Fail
  <2>2. x.scope = "documentation" /\ x.name = "verification"
    BY DEF Step
  <2> HIDE DEF x
  <2>3. /\ LatestStep("documentation", "entry") # 0 /\ LatestStep("design", "exit") # 0
    BY <2>1 DEF PlanRows, Documenting, Designed
  <2>4. /\ MountOutput("design")' = MountOutput("design")
        /\ LatestStep("design", "exit")' = LatestStep("design", "exit")
        /\ Input("documentation")' = Input("documentation")
        /\ LatestStep("documentation", "entry")' = LatestStep("documentation", "entry")
        /\ Output("documentation", "updateDocumentation")'
             = Output("documentation", "updateDocumentation")
    BY <1>1, <2>1, <2>2, <2>3, OneRecorded
  <2>5. CurrentDesign' = CurrentDesign
    BY <2>4 DEF CurrentDesign
  <2>6. Designed' /\ Documenting' /\ Documented' /\ Consented'
    BY <1>5, <2>1, <2>4, <2>5
       DEF PlanRows, planVars, Designed, Documenting, Documented, Consented
  <2> QED
    BY <1>1, <2>1, <2>2, <2>6, PlanRecords
<1>6. CASE FinishDocumentation
  <2> DEFINE updated == Output("documentation", "updateDocumentation") # None
             x == Exit("documentation", "ready",
                       [plan |-> Input("documentation"), updated |-> updated])
  <2>1. /\ node = "finishDocumentation" /\ node' = "approval" /\ UNCHANGED planVars
        /\ steps' = steps \o <<x>>
    BY <1>6 DEF FinishDocumentation, Planning, At, Advance
  <2>2. /\ x.scope = "documentation" /\ x.name = "exit"
        /\ x.out.out.plan = Input("documentation")
        /\ x.out.out.updated = updated
    BY DEF Exit, Step
  <2> HIDE DEF x
  <2>3. /\ LatestStep("design", "exit") # 0 /\ CurrentDesign.plan \in Plans
        /\ Input("documentation") = CurrentDesign.plan /\ docs = CurrentDesign.plan
        /\ wrote <=> updated
    BY <2>1 DEF PlanRows, Documenting, Designed, Documented
  <2>4. /\ LatestStep("documentation", "exit")' = Len(steps) + 1
        /\ Len(steps) + 1 # 0 /\ steps'[Len(steps) + 1] = x
        /\ MountOutput("design")' = MountOutput("design")
        /\ LatestStep("design", "exit")' = LatestStep("design", "exit")
    BY <1>1, <2>1, <2>2, OneRecorded
  <2>5. /\ CurrentDesign' = CurrentDesign
        /\ CurrentDocumentation' = x.out.out
    BY <2>4 DEF CurrentDesign, CurrentDocumentation, MountOutput
  <2> HIDE DEF updated
  <2>6. Designed' /\ Documenting' /\ Documented' /\ Consented'
    BY <2>1, <2>2, <2>3, <2>4, <2>5
       DEF planVars, Designed, Documenting, Documented, Consented
  <2> QED
    BY <1>1, <2>1, <2>2, <2>6, PlanRecords
<1> QED
  BY <1>1, <1>2, <1>3, <1>4, <1>5, <1>6
     DEF InspectDocumentation, UpdateDocumentation, VerifyDocumentation, Advance, Fail

\* plan-approval: what its nodes record, and what a person or a timeout
\* consents to.
LEMMA ApprovalStep ==
    ASSUME PlanRows, workflow' = workflow,
           RoutePolicy \/ Continue \/ Stop \/ Replan \/ ReplanGuard
    PROVE  PlanInv'
<1>1. StepsAreSequence /\ steps \o << >> = steps /\ UNCHANGED request
  BY ConcatEmptySeq
     DEF PlanRows, StepsAreSequence, RoutePolicy, Continue, Stop, Replan, ReplanGuard, planVars
<1>2. CASE ReplanGuard
  BY <1>1, <1>2, PlanQuiets DEF ReplanGuard, Advance
<1>3. CASE Stop
  <2> DEFINE x == Exit("approval", "stop", "human")
  <2>1. steps' = steps \o <<x>> /\ node' = "blocked"
    BY <1>3 DEF Stop, Advance
  <2>2. x.scope = "approval"
    BY DEF Exit, Step
  <2> HIDE DEF x
  <2>3. Designed' /\ Documenting' /\ Documented' /\ Consented'
    BY <2>1 DEF Designed, Documenting, Documented, Consented
  <2> QED
    BY <1>1, <2>1, <2>2, <2>3, PlanRecords
<1>4. CASE Replan
  <2> DEFINE x == Step("approval", "replan", "human")
             y == Exit("approval", "replan", "human")
             t == <<x, y>>
  <2>1. steps' = steps \o t /\ node' = "replanGuard"
    BY <1>4 DEF Replan, Advance
  <2>2. x.scope = "approval" /\ y.scope = "approval"
    BY DEF Exit, Step
  <2> HIDE DEF x, y
  <2>3. /\ t \in Seq({x, y})
        /\ \A j \in 1..Len(t) : ~ (t[j].scope = "root" /\ t[j].name = "finalize")
    BY <2>2, TwoSteps
  <2> HIDE DEF t
  <2>4. Designed' /\ Documenting' /\ Documented' /\ Consented'
    BY <2>1 DEF Designed, Documenting, Documented, Consented
  <2> QED
    BY <1>1, <2>1, <2>3, <2>4, PlanGoesOn
<1>5. CASE RoutePolicy /\ request.mode = "skip"
  <2> DEFINE plan == CurrentDocumentation.plan
             x == Enter("approval", plan)
             y == Exit("approval", "continue", "skipped")
             t == <<x, y>>
  <2>1. /\ node = "approval" /\ node' = "finalize" /\ UNCHANGED <<docs, wrote>>
        /\ consent' = [plan |-> plan, by |-> "skipped"]
        /\ steps' = steps \o t
    BY <1>5 DEF RoutePolicy, Planning, At, Advance
  <2>2. /\ x.scope = "approval" /\ x.name = "entry"
        /\ y.scope = "approval" /\ y.name = "exit" /\ y.out.out = "skipped"
    BY DEF Enter, Exit, Step
  <2> HIDE DEF x, y, plan
  <2>3. /\ t \in Seq({x, y}) /\ 2 \in 1..Len(t) /\ t[2] = y
        /\ steps' = steps \o t
        /\ \A j \in 1..Len(t) : j <= 2 /\ t[j].scope = "approval"
    BY <2>1, <2>2, TwoSteps
  <2> HIDE DEF t
  <2>4. /\ LatestStep("approval", "exit")' = Len(steps) + 2
        /\ Len(steps) + 2 \in Nat \ {0}
        /\ steps'[Len(steps) + 2] = y
    BY <1>1, <2>2, <2>3, TwoRecorded DEF t
  <2>5. MountOutput("approval").out' = "skipped"
    BY <2>2, <2>4 DEF MountOutput
  <2>6. /\ MountOutput("design")' = MountOutput("design")
        /\ LatestStep("design", "exit")' = LatestStep("design", "exit")
        /\ MountOutput("documentation")' = MountOutput("documentation")
        /\ LatestStep("documentation", "exit")' = LatestStep("documentation", "exit")
    BY <1>1, <2>1, <2>3, ShownStays
  <2>7. CurrentDesign' = CurrentDesign /\ CurrentDocumentation' = CurrentDocumentation
    BY <2>6 DEF CurrentDesign, CurrentDocumentation
  <2>8. Designed' /\ Documenting' /\ Documented'
    BY <2>1, <2>6, <2>7
       DEF PlanRows, Designed, Documenting, Documented
  <2>9. Consented'
    BY <1>1, <1>5, <2>1, <2>4, <2>5, <2>7
       DEF PlanRows, Documented, Consented, WayIsAllowed, plan
  <2>10. \A j \in 1..Len(t) : ~ (t[j].scope = "root" /\ t[j].name = "finalize")
    BY <2>3
  <2> QED
    BY <1>1, <2>1, <2>3, <2>8, <2>9, <2>10, PlanGoesOn
<1>6. CASE RoutePolicy /\ request.mode # "skip"
  <2> DEFINE plan == CurrentDocumentation.plan
             x == Enter("approval", plan)
  <2>1. /\ node = "approval" /\ node' = "approve" /\ UNCHANGED planVars
        /\ steps' = steps \o <<x>>
    BY <1>6 DEF RoutePolicy, Planning, At, Advance, planVars
  <2>2. x.scope = "approval" /\ x.name = "entry" /\ x.out = plan
    BY DEF Enter, Step
  <2> HIDE DEF x, plan
  <2>3. /\ LatestStep("approval", "entry")' = Len(steps) + 1
        /\ Len(steps) \in Nat /\ Len(steps) + 1 # 0 /\ steps'[Len(steps) + 1] = x
        /\ MountOutput("design")' = MountOutput("design")
        /\ LatestStep("design", "exit")' = LatestStep("design", "exit")
        /\ MountOutput("documentation")' = MountOutput("documentation")
        /\ LatestStep("documentation", "exit")' = LatestStep("documentation", "exit")
    BY <1>1, <2>1, <2>2, OneRecorded
  <2>4. CurrentDesign' = CurrentDesign /\ CurrentDocumentation' = CurrentDocumentation
    BY <2>3 DEF CurrentDesign, CurrentDocumentation
  <2>5. Input("approval")' = plan
    BY <2>2, <2>3 DEF Input, EntryIndex
  <2>6. Designed' /\ Documenting' /\ Documented'
    BY <2>1, <2>3, <2>4
       DEF PlanRows, planVars, Designed, Documenting, Documented
  <2>7. Consented'
    BY <1>1, <1>6, <2>1, <2>3, <2>4, <2>5 DEF PlanRows, Documented, Consented, plan
  <2> QED
    BY <1>1, <2>1, <2>2, <2>6, <2>7, PlanRecords
<1>7. CASE Continue
  <2>1. PICK by \in {"human"} \cup {t \in {"timeout"} : MayTimeOut} :
           /\ consent' = Approved(by)
           /\ steps' = steps \o <<Exit("approval", "continue", by)>>
    BY <1>7 DEF Continue, Advance
  <2> DEFINE x == Exit("approval", "continue", by)
  <2>2. /\ node = "approve" /\ node' = "finalize" /\ UNCHANGED <<docs, wrote>>
        /\ steps' = steps \o <<x>>
    BY <1>7, <2>1 DEF Continue, Planning, At, Advance
  <2>3. x.scope = "approval" /\ x.name = "exit" /\ x.out.out = by
    BY DEF Exit, Step
  <2> HIDE DEF x
  <2>4. /\ LatestStep("approval", "exit")' = Len(steps) + 1
        /\ Len(steps) \in Nat /\ Len(steps) + 1 # 0 /\ steps'[Len(steps) + 1] = x
        /\ MountOutput("design")' = MountOutput("design")
        /\ LatestStep("design", "exit")' = LatestStep("design", "exit")
        /\ MountOutput("documentation")' = MountOutput("documentation")
        /\ LatestStep("documentation", "exit")' = LatestStep("documentation", "exit")
    BY <1>1, <2>2, <2>3, OneRecorded
  <2>5. CurrentDesign' = CurrentDesign /\ CurrentDocumentation' = CurrentDocumentation
    BY <2>4 DEF CurrentDesign, CurrentDocumentation
  <2>6. MountOutput("approval").out' = by
    BY <2>3, <2>4 DEF MountOutput
  <2>7. Designed' /\ Documenting' /\ Documented'
    BY <2>2, <2>4, <2>5
       DEF PlanRows, Designed, Documenting, Documented
  <2>8. consent' = [plan |-> CurrentDesign.plan, by |-> by]
    BY <2>1, <2>2 DEF PlanRows, Consented, Approved
  <2>9. WayIsAllowed(by)
    BY <2>1, <2>2 DEF PlanRows, Consented, WayIsAllowed, MayTimeOut
  <2>10. Consented'
    BY <1>1, <2>2, <2>4, <2>5, <2>6, <2>8, <2>9 DEF Consented, WayIsAllowed
  <2> QED
    BY <1>1, <2>2, <2>3, <2>7, <2>10, PlanRecords
<1> QED
  BY <1>2, <1>3, <1>4, <1>5, <1>6, <1>7

\* finalize returns the plan of the latest round with its approval.
LEMMA FinalizeStep ==
    ASSUME PlanRows, workflow' = workflow, Finalize
    PROVE  PlanInv'
<1> DEFINE r == [plan |-> CurrentDocumentation.plan, by |-> MountOutput("approval").out,
                 updated |-> CurrentDocumentation.updated]
           x == Step("root", "finalize", r)
<1>1. /\ StepsAreSequence /\ node = "finalize" /\ node' = "ready"
      /\ UNCHANGED planVars /\ steps' = steps \o <<x>>
  BY DEF PlanRows, Finalize, Planning, At, Advance
<1>2. x.scope = "root" /\ x.name = "finalize" /\ x.out = r
  BY DEF Step
<1>3. /\ r.plan = CurrentDocumentation.plan /\ r.by = MountOutput("approval").out
      /\ r.updated = CurrentDocumentation.updated
  OBVIOUS
<1> HIDE DEF r, x
<1>4. /\ LatestStep("root", "finalize")' = Len(steps) + 1
      /\ Len(steps) \in Nat /\ Len(steps) + 1 # 0 /\ steps'[Len(steps) + 1] = x
      /\ MountOutput("design")' = MountOutput("design")
  BY <1>1, <1>2, OneRecorded
<1>5. CurrentDesign' = CurrentDesign
  BY <1>4 DEF CurrentDesign
<1>6. Output("root", "finalize")' = r
  BY <1>2, <1>4 DEF Output, EntryIndex
<1>7. /\ r.plan = CurrentDesign.plan /\ r.plan = docs
      /\ consent = [plan |-> r.plan, by |-> r.by] /\ WayIsAllowed(r.by)
      /\ wrote <=> r.updated
  BY <1>1, <1>3 DEF PlanRows, Documented, Consented
<1>8. /\ CASE request.mode = "skip"     -> r.by = "skipped"
           [] request.mode = "required" -> r.by = "human"
           [] request.mode = "auto"     -> r.by \in {"human", "timeout"}
      /\ UNCHANGED <<request, docs, consent, wrote>>
  BY <1>1, <1>7 DEF WayIsAllowed, planVars
<1>9. ReadyPlanIsApproved'
  BY <1>5, <1>6, <1>7, <1>8 DEF ReadyPlanIsApproved
<1>10. StepsAreSequence'
  <2> DEFINE t == <<x>>
  <2>1. t \in Seq({x}) /\ steps' = steps \o t
    BY <1>1, OneStep
  <2> HIDE DEF t
  <2> QED
    BY <1>1, <2>1, StepsGrow
<1>11. Designed' /\ Documenting' /\ Documented' /\ Consented'
  BY <1>1 DEF Designed, Documenting, Documented, Consented
<1> QED
  BY <1>1, <1>8, <1>9, <1>10, <1>11 DEF PlanInv, PlanRows

LEMMA PlanStep ==
    ASSUME PlanInv, workflow = "plan-change", Next
    PROVE  PlanInv'
<1>1. PlanNext /\ workflow' = workflow
  BY StepOfRoot DEF Plan
<1>2. node # "ready"
  BY <1>1 DEF PlanNext, Design, AssessPlan, InspectDocumentation, UpdateDocumentation,
              VerifyDocumentation, FinishDocumentation, RoutePolicy, Continue, Stop,
              Replan, ReplanGuard, Finalize, Planning, At
<1>3. PlanRows
  BY <1>2 DEF PlanInv, PlanRows
<1> QED
  BY <1>1, <1>3, DesignStep, DocumentationStep, ApprovalStep, FinalizeStep DEF PlanNext

\* A ready result of plan-change is the plan of the latest round, held by the
\* documents and let through the way the request's mode allows, whatever
\* plans the agents write and however often a person asks for another: the
\* nodes read the latest invocation only (projectWorkflowContext).
THEOREM PlansAreApproved == Spec => []ReadyPlanIsApproved
<1>1. Init => PlanInv
  <2> SUFFICES ASSUME Init, workflow = "plan-change" PROVE PlanInv
    BY DEF PlanInv
  <2>1. node = "design" /\ steps = << >> /\ PlanInit
    BY DEF Init, FirstNode, Roots
  <2>2. StepsAreSequence /\ Len(steps) = 0
    <3>1. << >> \in Seq({}) /\ Len(<< >>) = 0
      OBVIOUS
    <3> QED
      BY <2>1, <3>1 DEF StepsAreSequence
  <2>3. LatestStep("root", "finalize") = 0
    <3>1. LatestStep("root", "finalize") \in 0..Len(steps)
      BY <2>2, LatestStepIs DEF StepsAreSequence
    <3> QED
      BY <2>2, <3>1
  <2>4. Designed /\ Documenting /\ Documented /\ Consented
    BY <2>1 DEF Designed, Documenting, Documented, Consented
  <2>5. ReadyPlanIsApproved
    BY <2>3 DEF ReadyPlanIsApproved, Output, EntryIndex
  <2>6. request.mode \in {"auto", "required", "skip"}
    BY <2>1 DEF PlanInit
  <2> QED
    BY <2>2, <2>3, <2>4, <2>5, <2>6 DEF PlanInv
<1>2. PlanInv /\ [Next]_vars => PlanInv'
  <2> SUFFICES ASSUME PlanInv, [Next]_vars PROVE PlanInv'
    OBVIOUS
  <2>1. CASE UNCHANGED vars /\ workflow = "plan-change"
    <3>1. UNCHANGED <<workflow, node, steps, request, docs, consent, wrote>>
      BY <2>1 DEF vars, runVars, planVars
    <3>2. /\ StepsAreSequence'
          /\ \A scope, name : /\ LatestStep(scope, name)' = LatestStep(scope, name)
                              /\ Output(scope, name)' = Output(scope, name)
          /\ \A scope : /\ Input(scope)' = Input(scope)
                        /\ MountOutput(scope)' = MountOutput(scope)
          /\ CurrentDesign' = CurrentDesign
          /\ CurrentDocumentation' = CurrentDocumentation
      BY <2>1, <3>1, NothingRecorded DEF PlanInv
    <3>3. Designed' /\ Documenting' /\ Documented' /\ Consented'
      BY <2>1, <3>1, <3>2
         DEF PlanInv, Designed, Documenting, Documented, Consented, WayIsAllowed
    <3>4. ReadyPlanIsApproved'
      BY <2>1, <3>1, <3>2 DEF PlanInv, ReadyPlanIsApproved
    <3> QED
      BY <2>1, <3>1, <3>2, <3>3, <3>4 DEF PlanInv
  <2>2. CASE Next /\ workflow = "plan-change"
    BY <2>2, PlanStep
  <2>3. CASE workflow # "plan-change"
    <3>1. workflow' = workflow
      BY StepOfRoot DEF vars, runVars
    <3> QED
      BY <2>3, <3>1 DEF PlanInv
  <2> QED
    BY <2>1, <2>2, <2>3
<1>3. PlanInv => ReadyPlanIsApproved
  BY DEF PlanInv, ReadyPlanIsApproved
<1> QED
  BY <1>1, <1>2, <1>3, PTL DEF Spec
=============================================================================
