------------------------------- MODULE Monitor -------------------------------
(***************************************************************************)
(* The built-in workflow monitor as the root of a run: it observes a goal, *)
(* waits, performs one authorized action, or has a defect repaired by the  *)
(* workflows plan-change and autoimplement, and observes again.            *)
(*                                                                         *)
(* The steps recorded are those later nodes look for: `observe` with what  *)
(* the agent reported and `repairComplete`.  The two included workflows    *)
(* are taken by their exits.  A failure and the target state it occurred   *)
(* in are one fault.                                                       *)
(***************************************************************************)
EXTENDS WorkflowRun

CONSTANTS Faults,          \* pairs of a failureId and a targetStateId
          MaxChecks        \* config.maxChecks: observations of this run

ASSUME MonitorAssumption == MaxChecks \in Nat \ {0}

VARIABLES seen             \* outputs.guard: the observation the run acts on

monitorVars == <<seen>>

MonitorInit == seen = None

Monitoring(n) == At("monitor", n)

\* What the agent may submit.
Reports == [route : {"wait", "act", "stop"},
            goal  : {"complete", "incomplete", "blocked"},
            work  : {"moving", "idle"},
            act   : {None} \cup [kind : {"advance", "recover", "repair"},
                                 fault : Faults, repository : BOOLEAN]]

\* validateMonitorObservation: what of that is accepted.  `moving` stands for
\* running and waiting work, `idle` for idle, failed and stopped work.
Accepted == {r \in Reports :
    /\ r.route = "act" <=> r.act # None
    /\ r.route = "act" => r.goal = "incomplete" /\ r.work = "idle"
    /\ r.route = "wait" => r.goal = "incomplete" /\ r.work = "moving"
    /\ r.goal # "incomplete" => r.route = "stop"}

Observations == CountRootSteps("observe")

-----------------------------------------------------------------------------
\* observe; a report that is not accepted or comes too late fails the run.
MonitorObserve ==
    /\ Monitoring("observe")
    /\ \/ \E r \in Accepted : Advance(<<Step("root", "observe", r)>>, "guard")
       \/ Fail
    /\ UNCHANGED seen

IsRepairOf(s, act) ==
    /\ s.name = "observe"
    /\ s.out.act # None
    /\ s.out.act.kind = "repair" /\ s.out.act.fault = act.fault

\* Variant: only the observation before this one is looked at.
ReturnedAfterRepairJustNow(act) ==
    LET earlier == {i \in 1..Len(steps) - 1 : steps[i].name = "observe"} IN
    /\ earlier # {} /\ IsRepairOf(steps[Max(earlier)], act)
    /\ \E k \in Max(earlier)..Len(steps) : steps[k].name = "repairComplete"

\* repeatedCompletedRepair: the latest earlier observation that asked for the
\* same repair was followed by its completion.
ReturnedAfterRepair(act) ==
    LET earlier == {i \in 1..Len(steps) - 1 : IsRepairOf(steps[i], act)} IN
    /\ earlier # {}
    /\ \E k \in Max(earlier)..Len(steps) : steps[k].name = "repairComplete"

\* guardObservation, with estimate, publish_progress and report after it,
\* none of which chooses a way.
GuardObservation ==
    /\ Monitoring("guard")
    /\ LET r == Output("root", "observe") IN
       seen' = IF r.act # None /\ r.act.kind = "repair" /\ ReturnedAfterRepair(r.act)
               THEN [r EXCEPT !.route = "stop", !.goal = "blocked", !.act = None]
               ELSE r
    /\ Advance(<< >>, "decide")

\* decide: the limit of observations comes before waiting and acting.
MonitorDecide ==
    /\ Monitoring("decide")
    /\ Advance(<< >>, CASE seen.route = "stop"  -> "finish"
                        [] seen.route # "stop" /\ Observations >= MaxChecks -> "finish"
                        [] seen.route = "wait" /\ Observations < MaxChecks  -> "sleep"
                        [] OTHER -> IF seen.act.kind = "repair" THEN "planChange"
                                    ELSE "act")
    /\ UNCHANGED seen

\* schedule and sleep; act.  Neither has an edge for failure.
WaitOrAct ==
    /\ Monitoring("sleep") \/ Monitoring("act")
    /\ Advance(<< >>, "observe") \/ Fail
    /\ UNCHANGED seen

\* planChange, by its exits; the input of implementation throws without a
\* repository.
PlanRepair ==
    /\ Monitoring("planChange")
    /\ \/ IF seen.act.repository THEN Advance(<< >>, "implementation") ELSE Fail
       \/ Advance(<< >>, "repairBlocked")
       \/ Fail
    /\ UNCHANGED seen

\* implementation, by its exits, and repairComplete.
ImplementRepair ==
    /\ Monitoring("implementation")
    /\ \/ Advance(<<Step("root", "repairComplete", seen.act.fault)>>, "observe")
       \/ Advance(<< >>, "repairBlocked")
       \/ Fail
    /\ UNCHANGED seen

\* repairBlocked, repairReport and finish.
FinishMonitor ==
    /\ Monitoring("finish") \/ Monitoring("repairBlocked")
    /\ Advance(<< >>, IF node = "repairBlocked" THEN "blocked" ELSE "completed")
    /\ UNCHANGED seen

MonitorNext ==
    \/ MonitorObserve \/ GuardObservation \/ MonitorDecide \/ WaitOrAct
    \/ PlanRepair \/ ImplementRepair \/ FinishMonitor

-----------------------------------------------------------------------------
\* A defect is repaired once for a failure in a target state: when the same
\* failure returns after its repair the run stops, however many other
\* observations, actions and repairs lie between (guardObservation).
OneRepairPerFault ==
    workflow = "monitor" =>
        \A i, j \in {k \in DOMAIN steps : steps[k].name = "repairComplete"} :
            steps[i].out = steps[j].out => i = j
=============================================================================
