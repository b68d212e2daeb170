----------------------------- MODULE AgentGroup -----------------------------
(***************************************************************************)
(* runPiAgentGroup: a group of agent sessions in one process.  Slots take  *)
(* the requests in their order; each opens a session, prompts it and       *)
(* disposes of it.  A time limit, the cancellation of the node or, when    *)
(* the group fails fast, the failure of another agent aborts a session,    *)
(* possibly while it is still being created.                               *)
(*                                                                         *)
(* An abort is a call of its own (session.abort) that settles some time    *)
(* after; the session answers its prompt before or after it does.          *)
(***************************************************************************)
EXTENDS WorkflowRun

CONSTANT MaxAgents         \* requests of the largest group

\* None is neither a request nor a word that stands where it may stand.
ASSUME GroupAssumption ==
    /\ MaxAgents \in Nat \ {0}
    /\ None \notin Nat /\ None \notin {"completed", "failed", "cancelled", "timeout"}

VARIABLES pool,            \* the group: size, slots, next index, how it goes
          agent            \* per request: its state, its abort, its outcome

groupVars == <<pool, agent>>

Index == 1..MaxAgents
Active(i) == agent[i].at \in {"creating", "open", "answered", "closing"}

NoAgent == [at |-> "queued", abort |-> None, settled |-> TRUE, failure |-> None]

NoGroup == [on |-> FALSE, size |-> 0, slots |-> 0, failFast |-> TRUE, next |-> 1,
            cancelled |-> FALSE, primary |-> None, result |-> None]

GroupInit == pool = NoGroup /\ agent = [i \in Index |-> NoAgent]

\* validateGroup and the start of runPiAgentGroup.
StartGroup(size, slots) ==
    \E fast \in BOOLEAN :
        /\ pool' = [NoGroup EXCEPT !.on = TRUE, !.size = size, !.slots = slots,
                                   !.failFast = fast]
        /\ agent' = [i \in Index |-> NoAgent]

\* The signal the agents get: the node's, or the group's own after a failure.
Aborted == pool.cancelled \/ (pool.failFast /\ pool.primary # None)

\* abortSession for every agent in `which` that is not aborted yet: the first
\* reason stays, and the session, if there is one, is told.
AbortAll(a, which, reason) ==
    [i \in Index |->
        IF i \in which /\ a[i].at \in {"creating", "open"} /\ a[i].abort = None
        THEN [a[i] EXCEPT !.abort = reason, !.settled = a[i].at = "creating"]
        ELSE a[i]]

-----------------------------------------------------------------------------
\* runSlot: a free slot takes the next request while nothing is aborted.
TakeNext(i) ==
    /\ pool.on /\ ~Aborted
    /\ i = pool.next /\ i <= pool.size
    /\ Cardinality({k \in Index : Active(k)}) < pool.slots
    /\ pool' = [pool EXCEPT !.next = i + 1]
    /\ agent' = [agent EXCEPT ![i].at = "creating"]

\* The session factory returned.  A session that is not wanted any more is
\* told so and is not prompted.
Created(i) ==
    /\ agent[i].at = "creating"
    /\ agent' = [agent EXCEPT ![i].at = IF agent[i].abort = None THEN "open" ELSE "answered",
                              ![i].settled = agent[i].abort = None]
    /\ UNCHANGED pool

\* setTimeout of runOneAgent; the abort of the node's signal.
TimesOut(i) ==
    /\ agent[i].at \in {"creating", "open"} /\ agent[i].abort = None
    /\ agent' = AbortAll(agent, {i}, "timeout")
    /\ UNCHANGED pool

CancelGroup ==
    /\ pool' = [pool EXCEPT !.cancelled = TRUE]
    /\ agent' = AbortAll(agent, Index, "cancelled")

\* session.prompt returned or threw.
Answered(i) ==
    /\ agent[i].at = "open"
    /\ \E bad \in BOOLEAN :
          agent' = [agent EXCEPT ![i].at = "answered",
                                 ![i].failure = IF bad THEN "failed" ELSE None]
    /\ UNCHANGED pool

AbortSettles(i) ==
    /\ ~agent[i].settled
    /\ agent' = [agent EXCEPT ![i].settled = TRUE]
    /\ UNCHANGED pool

\* Variant: the session is disposed of while its abort is under way.
ClosesAtOnce(i) == TRUE

\* await abortWork.
MayClose(i) == agent[i].settled

\* normalizeAgentError: an abort is the failure, whatever the prompt did.
Close(i) ==
    /\ agent[i].at = "answered" /\ MayClose(i)
    /\ agent' = [agent EXCEPT
          ![i].at = "closing",
          ![i].failure = CASE agent[i].abort = "timeout"   -> "failed"
                           [] agent[i].abort = "cancelled" -> "cancelled"
                           [] OTHER                        -> @]
    /\ UNCHANGED pool

IsFirst == pool.primary = None

\* The end of an agent: the first failure is the group's, unless the node was
\* cancelled, and aborts the others when the group fails fast.
AgentEnds(i, failure) ==
    LET ended == [agent EXCEPT ![i].at = "ended", ![i].failure = failure]
        blame == failure # None /\ IsFirst /\ ~pool.cancelled IN
    /\ pool' = IF blame THEN [pool EXCEPT !.primary = i] ELSE pool
    /\ agent' = IF blame /\ pool.failFast THEN AbortAll(ended, Index, "cancelled") ELSE ended

\* The session could not be created: an abort is the reason if there was one.
CreationFails(i) ==
    /\ agent[i].at = "creating"
    /\ AgentEnds(i, IF agent[i].abort = "cancelled" THEN "cancelled" ELSE "failed")

\* session.dispose, whose failure counts when there is no other.
Dispose(i) ==
    /\ agent[i].at = "closing"
    /\ \E bad \in BOOLEAN :
          AgentEnds(i, IF bad /\ agent[i].failure = None THEN "failed"
                       ELSE agent[i].failure)

\* Promise.all, and what runPiAgentGroup returns or throws.
GroupEnds ==
    /\ pool.on
    /\ pool.next > pool.size \/ Aborted
    /\ \A i \in Index : ~Active(i)
    /\ pool' = [pool EXCEPT !.on = FALSE,
          !.result = CASE pool.cancelled -> "cancelled"
                       [] ~pool.cancelled /\ pool.primary # None -> "failed"
                       [] OTHER -> "completed"]
    /\ UNCHANGED agent

\* createSdkGroupPlan failed: no session was created.
PlanFails ==
    /\ pool.on /\ pool.next = 1
    /\ pool' = [pool EXCEPT !.on = FALSE,
                  !.result = IF pool.cancelled THEN "cancelled" ELSE "failed"]
    /\ UNCHANGED agent

AgentSteps ==
    \/ \E i \in Index :
          \/ TakeNext(i) \/ Created(i) \/ CreationFails(i) \/ TimesOut(i)
          \/ Answered(i) \/ AbortSettles(i) \/ Close(i) \/ Dispose(i)
    \/ GroupEnds \/ PlanFails

-----------------------------------------------------------------------------
\* The group ends in order: a session is disposed of only after its abort
\* settled; when the group ends every agent has; it completed only if each of
\* its agents did; and the failure it reports is of an agent that failed on
\* its own, never of one that was cancelled because another had failed
\* (runSlot, runOneAgent).
GroupSettles ==
    /\ \A i \in Index : agent[i].at \in {"closing", "ended"} => agent[i].settled
    /\ pool.result = "completed" =>
           \A i \in 1..pool.size : agent[i].at = "ended" /\ agent[i].failure = None
    /\ pool.primary # None => agent[pool.primary].failure = "failed"
    /\ pool.result # None => \A i \in Index : ~Active(i)
=============================================================================
