-------------------------- MODULE ResourceManagers --------------------------
(***************************************************************************)
(* One managed resource: its row, its queue row and lease, the one active  *)
(* reconciliation and the runner process behind it, the external effect    *)
(* and the child workflow run of each generation of its spec.              *)
(*                                                                         *)
(* A pass reads the resource once, when its key is claimed, and reports    *)
(* long after; in between the spec changes, deletion is requested, the     *)
(* child ends, the lease expires, the runner dies or times out with the    *)
(* effect in flight, and the server stops, dies and starts again.          *)
(*                                                                         *)
(* What a resource manager decides is outside the code modelled here: it   *)
(* follows docs/RESOURCE_MANAGERS.md (finalizer first, then the child run, *)
(* then the effect, keys that name the generation, and a reliable          *)
(* observation of the effect).                                             *)
(***************************************************************************)
EXTENDS Naturals, FiniteSets

CONSTANTS MaxGens,         \* bound: generations of the spec
          MaxFaults,       \* bound: faults of each kind together
          MaxEvents,       \* bound: reconcile requests and answered waits
          FaultKinds       \* which faults happen

ASSUME ResourceManagersAssumption ==
    /\ MaxGens \in Nat \ {0} /\ MaxFaults \in Nat /\ MaxEvents \in Nat
    /\ FaultKinds \subseteq {"throw", "timeout", "runner", "lease", "server"}

VARIABLES res,      \* the managed_resources row
          queue,    \* its managed_resource_queue row
          lease,    \* its lease
          job,      \* the entry of activeResourceManagers and its process
          child,    \* per generation: the request record and the run
          fx,       \* per generation: the effect record and the world
          srv,      \* the server process
          spent     \* faults and events that happened

vars == <<res, queue, lease, job, child, fx, srv, spent>>

Gens  == 1 .. MaxGens
Final == {"applied", "rejected", "indeterminate"}
Over  == {"done", "failed", "cancelled"}

\* gen, del, fin: what the pass read.  fresh, sameQueue: its claim still names
\* the version of the resource and of the queue row.  late: an application
\* that outlives its pass.  answer, kind, keep: what the pass will report.
Pass(phase, late) ==
    [phase |-> phase, gen |-> res.gen, del |-> res.del, fin |-> res.fin,
     fresh |-> TRUE, sameQueue |-> TRUE, late |-> late,
     answer |-> "new", kind |-> "settled", keep |-> res.fin]

Active   == job.phase \notin {"none", "orphan"}
Holds    == Active /\ srv.up /\ lease = "live"
At(step) == job.phase = step /\ Holds

\* What the process may still do to the world when nobody waits for it.
InFlight == IF job.phase \in {"observe", "apply"} THEN job.phase ELSE job.late

Fault(kind) ==
    /\ kind \in FaultKinds /\ spent.faults < MaxFaults
    /\ spent' = [spent EXCEPT !.faults = @ + 1]

Event ==
    /\ spent.events < MaxEvents
    /\ spent' = [spent EXCEPT !.events = @ + 1]

\* A write to the row by another than the pass, and one more queue version.
Foreign(j)  == IF j.phase = "none" THEN j ELSE [j EXCEPT !.fresh = FALSE]
Enqueued(j) == IF j.phase = "none" THEN j ELSE [j EXCEPT !.sameQueue = FALSE]

Init ==
    /\ res = [here |-> TRUE, gen |-> 1, del |-> FALSE, fin |-> FALSE,
              seen |-> 0, said |-> "new"]
    /\ queue = "due" /\ lease = "free"
    /\ job = [Pass("none", "no") EXCEPT !.gen = 1]
    /\ child = [g \in Gens |-> [rec |-> "none", linked |-> FALSE, run |-> "none"]]
    /\ fx = [g \in Gens |-> [rec |-> "none", count |-> 0, left |-> FALSE]]
    /\ srv = [up |-> TRUE, stray |-> 0]
    /\ spent = [faults |-> 0, events |-> 0]

-----------------------------------------------------------------------------
(* Clients.                                                                *)

ApplySpec ==
    /\ srv.up /\ res.here /\ res.gen < MaxGens
    /\ res' = [res EXCEPT !.gen = @ + 1]
    /\ queue' = "due" /\ job' = Enqueued(Foreign(job))
    /\ UNCHANGED <<lease, child, fx, srv, spent>>

RequestDeletion ==
    /\ srv.up /\ res.here /\ ~res.del
    /\ res' = [res EXCEPT !.del = TRUE]
    /\ queue' = "due" /\ job' = Enqueued(Foreign(job))
    /\ UNCHANGED <<lease, child, fx, srv, spent>>

Reconcile ==
    /\ srv.up /\ res.here /\ Event
    /\ queue' = "due" /\ job' = Enqueued(job)
    /\ UNCHANGED <<res, lease, child, fx, srv>>

DelayEnds ==
    /\ queue = "later" /\ queue' = "due"
    /\ UNCHANGED <<res, lease, job, child, fx, srv, spent>>

-----------------------------------------------------------------------------
(* The pass: the server's side of each message, and the process between.   *)

\* Variant: the key in hand is not excluded.
ClaimAnyKey ==
    /\ srv.up /\ res.here /\ queue = "due" /\ lease # "live"
    /\ lease' = "live" /\ job' = Pass("start", InFlight)
    /\ UNCHANGED <<res, queue, child, fx, srv, spent>>

Claim ==
    /\ srv.up /\ res.here /\ queue = "due" /\ lease # "live"
    /\ job.phase = "none"
    /\ lease' = "live" /\ job' = Pass("start", job.late)
    /\ UNCHANGED <<res, queue, child, fx, srv, spent>>

\* The definition starts: it cleans up, adds its finalizer, or asks for its
\* child run.
Begin ==
    /\ At("start")
    /\ IF job.del THEN
            /\ fx' = [g \in Gens |-> [fx[g] EXCEPT !.left = FALSE]]
            /\ job' = [job EXCEPT !.phase = "report", !.keep = FALSE]
       ELSE /\ job' = IF job.fin THEN [job EXCEPT !.phase = "ensure"]
                      ELSE [job EXCEPT !.phase = "report", !.keep = TRUE,
                                       !.kind = "requeue"]
            /\ UNCHANGED fx
    /\ UNCHANGED <<res, queue, lease, child, srv, spent>>

Result(run) ==
    CASE run = "queued" -> "running" [] run = "parked" -> "waiting"
      [] run = "done" -> "succeeded" [] OTHER -> "failed"

\* updateWorkflow with the scheduler's result, and the event it records.
Link(g, created, run) ==
    /\ child' = [child EXCEPT ![g] =
                   [rec |-> Result(run), linked |-> TRUE, run |-> run]]
    /\ job' = [job EXCEPT !.phase = "asked", !.answer = Result(run),
                          !.fresh = @ \/ created \/ Result(run) # "running"]

EnsureChild ==
    /\ At("ensure")
    /\ LET g == job.gen  c == child[g] IN
       CASE c.rec \in {"succeeded", "failed", "waiting"} ->
              /\ job' = [job EXCEPT !.phase = "asked", !.answer = c.rec]
              /\ UNCHANGED child
         [] c.rec \in {"none", "pending", "running"} /\ c.run = "none" ->
              /\ child' = [child EXCEPT ![g].rec = "pending"]
              /\ job' = [job EXCEPT !.phase = IF c.rec = "none" THEN "create"
                                              ELSE "resolve"]
         [] OTHER -> Link(g, FALSE, c.run)
    /\ UNCHANGED <<res, queue, lease, fx, srv, spent>>

\* The source is resolved: the run is inserted or adopted, then linked if
\* the claim still holds.
Resolved ==
    /\ job.phase \in {"create", "resolve"} /\ srv.up
    /\ LET g == job.gen
           run == IF child[g].run = "none" THEN "queued" ELSE child[g].run IN
       IF lease = "live" THEN Link(g, job.phase = "create", run)
       ELSE /\ child' = [child EXCEPT ![g].run = run]
            /\ job' = [job EXCEPT !.phase = "exit"]
    /\ UNCHANGED <<res, queue, lease, fx, srv, spent>>

\* The same call, when its runner died while the source was resolved.
StrayResolved ==
    /\ srv.up /\ srv.stray # 0
    /\ child' = [child EXCEPT ![srv.stray].run = IF @ = "none" THEN "queued" ELSE @]
    /\ srv' = [srv EXCEPT !.stray = 0]
    /\ UNCHANGED <<res, queue, lease, job, fx, spent>>

\* A child that has not succeeded is reported; the definition waits to be
\* woken or asks for a later pass.
ChildAnswered ==
    /\ job.phase = "asked"
    /\ IF job.answer = "succeeded" THEN job' = [job EXCEPT !.phase = "reserve"]
       ELSE \E kind \in {"settled", "later"} :
              job' = [job EXCEPT !.phase = "report", !.kind = kind]
    /\ UNCHANGED <<res, queue, lease, child, fx, srv, spent>>

ReserveEffect ==
    /\ At("reserve")
    /\ LET rec == fx[job.gen].rec IN
       /\ fx' = [fx EXCEPT ![job.gen].rec = IF @ = "none" THEN "pending" ELSE @]
       /\ job' = IF rec \in Final
                 THEN [job EXCEPT !.phase = "report", !.answer = rec]
                 ELSE [job EXCEPT !.phase = IF rec = "none" THEN "apply"
                                            ELSE "observe"]
    /\ UNCHANGED <<res, queue, lease, child, srv, spent>>

\* The observation is true, or cannot tell.
ObserveEffect ==
    /\ job.phase = "observe"
    /\ \/ job' = IF fx[job.gen].count = 0 THEN [job EXCEPT !.phase = "apply"]
                 ELSE [job EXCEPT !.phase = "settle", !.answer = "applied"]
       \/ job' = [job EXCEPT !.phase = "settle", !.answer = "indeterminate"]
    /\ UNCHANGED <<res, queue, lease, child, fx, srv, spent>>

\* An effect of generation g reaches the other system.
Reach(g) == fx' = [fx EXCEPT ![g].count = @ + 1, ![g].left = TRUE]

\* The driver returns, or throws and leaves open what it did.
ApplyEffect ==
    /\ job.phase = "apply"
    /\ \E out \in Final :
         /\ job' = [job EXCEPT !.phase = "settle", !.answer = out]
         /\ \/ out # "rejected" /\ Reach(job.gen)
            \/ out # "applied" /\ UNCHANGED fx
    /\ UNCHANGED <<res, queue, lease, child, srv, spent>>

\* The same call, after its pass was given up.
LateApply ==
    /\ job.late = "apply" \/ (job.late = "observe" /\ fx[job.gen].count = 0)
    /\ Reach(job.gen)
    /\ job' = [job EXCEPT !.late = "no"]
    /\ UNCHANGED <<res, queue, lease, child, srv, spent>>

SettleEffect ==
    /\ At("settle")
    /\ fx' = [fx EXCEPT ![job.gen].rec = job.answer]
    /\ \E kind \in {"settled", "requeue"} :
         job' = [job EXCEPT !.phase = "report", !.kind = kind, !.fresh = TRUE]
    /\ UNCHANGED <<res, queue, lease, child, srv, spent>>

-----------------------------------------------------------------------------
(* The end of a pass.                                                      *)

\* Variant: the status names the generation of the row, not of the pass.
SavedForRow == [res EXCEPT !.fin = job.keep, !.seen = res.gen, !.said = job.answer]

\* updateStatus of a pass whose version is not stale.
Saved == [res EXCEPT !.fin = job.keep, !.seen = job.gen, !.said = job.answer]

\* deleteResource follows a settled pass, if the row as saved allows it.
Deletes(r) == job.kind = "settled" /\ r.del /\ ~r.fin

\* Variant: a settled pass takes the queue row away, whatever its version.
QueueDropped ==
    CASE job.kind = "settled" -> "none" [] job.kind = "later" -> "later"
      [] OTHER -> "due"

\* settleClaim and requeueClaim: a row enqueued during the pass stays.
QueueSettled ==
    CASE job.kind = "settled" -> IF job.sameQueue THEN "none" ELSE queue
      [] job.kind = "later" -> "later"
      [] OTHER -> "due"

\* finishResourceManagerSuccess: a stale version saves nothing and asks for
\* another pass at once.
Finish ==
    /\ At("report")
    /\ IF ~job.fresh THEN queue' = "due" /\ UNCHANGED <<res, child>>
       ELSE IF Deletes(Saved) THEN
            /\ res' = [Saved EXCEPT !.here = FALSE] /\ queue' = "none"
            /\ child' = [g \in Gens |-> [child[g] EXCEPT !.rec = "none",
                                                         !.linked = FALSE]]
       ELSE res' = Saved /\ queue' = QueueSettled /\ UNCHANGED child
    /\ lease' = "free" /\ job' = [job EXCEPT !.phase = "exit"]
    /\ UNCHANGED <<fx, srv, spent>>

\* The definition throws or runs out of time; what it started goes on.
Fails ==
    /\ \/ job.phase \in {"start", "asked", "observe"} /\ Fault("throw")
       \/ job.phase \in {"start", "asked", "observe", "apply"} /\ Fault("timeout")
    /\ job' = [job EXCEPT !.phase = "failed", !.late = InFlight]
    /\ UNCHANGED <<res, queue, lease, child, fx, srv>>

\* finishResourceManagerFailure: only the holder of the claim asks again.
Failed ==
    /\ At("failed")
    /\ queue' = "later" /\ lease' = "free"
    /\ job' = [job EXCEPT !.phase = "exit"]
    /\ UNCHANGED <<res, child, fx, srv, spent>>

\* A message, or the renewal timer, finds the claim expired.
ClaimLost ==
    /\ Active /\ srv.up /\ lease = "expired"
    /\ job.phase \notin {"create", "resolve", "exit"}
    /\ job' = [job EXCEPT !.phase = "exit", !.late = InFlight]
    /\ UNCHANGED <<res, queue, lease, child, fx, srv, spent>>

\* The process is gone: a pass that reported nothing has failed, and the key
\* may be claimed again.
Exited ==
    /\ IF Holds /\ job.phase # "exit" THEN queue' = "later" /\ lease' = "free"
       ELSE UNCHANGED <<queue, lease>>
    /\ job' = [job EXCEPT !.phase = "none", !.late = "no"]
    /\ srv' = IF job.phase \in {"create", "resolve"} THEN [srv EXCEPT !.stray = job.gen]
              ELSE srv
    /\ UNCHANGED <<res, child, fx>>

RunnerExits == /\ srv.up /\ job.phase = "exit" /\ Exited /\ UNCHANGED spent
RunnerDies  == /\ srv.up /\ Active /\ srv.stray = 0 /\ job.phase # "exit"
               /\ Fault("runner") /\ Exited

LeaseExpires ==
    /\ Holds /\ job.phase # "exit" /\ Fault("lease")
    /\ lease' = "expired"
    /\ UNCHANGED <<res, queue, job, child, fx, srv>>

-----------------------------------------------------------------------------
(* The child run, as far as its parent can tell.                           *)

\* completeResourceManagerWorkflow, in the transaction that ends or parks it.
Complete(g, run) ==
    IF child[g].linked THEN
        /\ child' = [child EXCEPT ![g].run = run, ![g].rec = Result(run)]
        /\ queue' = "due" /\ job' = Enqueued(Foreign(job))
    ELSE /\ child' = [child EXCEPT ![g].run = run]
         /\ UNCHANGED <<queue, job>>

ChildStops(g) ==
    /\ srv.up /\ child[g].run = "queued"
    /\ \E run \in {"done", "failed", "parked"} : Complete(g, run)
    /\ UNCHANGED <<res, lease, fx, srv, spent>>

ChildResumes(g) ==
    /\ srv.up /\ child[g].run = "parked" /\ Event
    /\ child' = [child EXCEPT ![g].run = "queued"]
    /\ UNCHANGED <<res, queue, lease, job, fx, srv>>

\* run.cancel ends the run and leaves the request record alone.
ChildCancelled(g) ==
    /\ srv.up /\ child[g].run \in {"queued", "parked"}
    /\ child' = [child EXCEPT ![g].run = "cancelled"]
    /\ UNCHANGED <<res, queue, lease, job, fx, srv, spent>>

-----------------------------------------------------------------------------
(* The server process.                                                     *)

\* A source that is still being resolved: its run is inserted before the end
\* of the process, without its link, or not at all.
Resolving == {g \in Gens : \/ g = srv.stray
                           \/ g = job.gen /\ job.phase \in {"create", "resolve"}}
LastInsertions ==
    \E S \in SUBSET {g \in Resolving : child[g].run = "none"} :
       child' = [g \in Gens |-> IF g \in S THEN [child[g] EXCEPT !.run = "queued"]
                                           ELSE child[g]]

\* The process dies; the runner is left behind.
ServerDies ==
    /\ srv.up /\ Fault("server")
    /\ LastInsertions
    /\ srv' = [up |-> FALSE, stray |-> 0]
    /\ job' = [job EXCEPT !.phase = IF Active THEN "orphan" ELSE @, !.late = InFlight]
    /\ UNCHANGED <<res, queue, lease, fx>>

\* stop() ends the runner first, then returns its key: at once, or later when
\* the end of the runner was noticed first and counts as a failure.
ServerStops ==
    /\ srv.up /\ Fault("server")
    /\ LastInsertions
    /\ IF Holds /\ job.phase # "exit" THEN queue' \in {"due", "later"} /\ lease' = "free"
       ELSE UNCHANGED <<queue, lease>>
    /\ srv' = [up |-> FALSE, stray |-> 0]
    /\ job' = [job EXCEPT !.phase = "none", !.late = "no"]
    /\ UNCHANGED <<res, fx>>

\* Variant: the runners of the previous server live on.
StartKeepsOrphans ==
    /\ ~srv.up /\ srv' = [srv EXCEPT !.up = TRUE]
    /\ lease' = IF lease = "live" THEN "expired" ELSE lease
    /\ job' = [job EXCEPT !.phase = "none"]
    /\ UNCHANGED <<res, queue, child, fx, spent>>

\* reapOrphans, then recoverPreviousServer expires the claims.
ServerStarts ==
    /\ ~srv.up /\ srv' = [srv EXCEPT !.up = TRUE]
    /\ lease' = IF lease = "live" THEN "expired" ELSE lease
    /\ job' = [job EXCEPT !.phase = "none", !.late = "no"]
    /\ UNCHANGED <<res, queue, child, fx, spent>>

-----------------------------------------------------------------------------
ServerStep == Claim \/ EnsureChild \/ Resolved \/ StrayResolved \/ ReserveEffect
              \/ SettleEffect \/ Finish \/ Failed \/ ClaimLost \/ RunnerExits
ProcessStep == Begin \/ ChildAnswered \/ ObserveEffect \/ ApplyEffect
ClientStep  == ApplySpec \/ RequestDeletion \/ Reconcile
FaultStep   == Fails \/ LateApply \/ RunnerDies \/ LeaseExpires
               \/ ServerDies \/ ServerStops

Next ==
    \/ ServerStep \/ ProcessStep \/ ClientStep \/ FaultStep
    \/ DelayEnds \/ ServerStarts
    \/ \E g \in Gens : ChildStops(g) \/ ChildResumes(g) \/ ChildCancelled(g)

\* A server that is up serves, delays pass, a runner's code goes on (its time
\* limit sees to that), a queued child run ends or waits, and some client
\* starts a server that is down.
Fairness ==
    /\ WF_vars(ServerStep) /\ WF_vars(ProcessStep)
    /\ WF_vars(DelayEnds) /\ WF_vars(ServerStarts)
    /\ \A g \in Gens : WF_vars(ChildStops(g))

Spec == Init /\ [][Next]_vars /\ Fairness

-----------------------------------------------------------------------------
(* Properties.                                                             *)

\* With a reliable observation an effect reaches the other system once per
\* key, whatever timed out, died or was claimed again in between
\* (exclude of claimNext, reapOrphans, observe before a second apply).
EffectOnce == \A g \in Gens : fx[g].count <= 1

\* A resource that is gone has left nothing behind and nothing under way:
\* its finalizer was removed by a pass that saw the deletion, after every
\* application of an earlier pass (deleteResource, replaceFinalizers).
GoneLeavesNothing ==
    ~res.here => /\ job.late = "no"
                 /\ \A g \in Gens : ~fx[g].left

\* A status that reports the effect of a generation is true of the
\* generation it names, though the spec may change during the pass
\* (observedGeneration of applyStatusPatch).
AppliedIsTrue == res.said = "applied" => fx[res.seen].count = 1

\* What the last status should say of the current generation.
Truth ==
    LET c == child[res.gen] IN
    IF c.run # "done" THEN Result(c.run) ELSE fx[res.gen].rec

\* No wake-up is lost: in the end the resource is gone, or its status is of
\* the current generation and says how its child run and its effect stand
\* (queue versions, Complete, requeue after a conflict, a failure, a crash).
\* A cancelled child run is excepted: see README, Findings.
EventuallyReconciled ==
    <>[](\/ ~res.here
         \/ /\ ~res.del /\ res.seen = res.gen
            /\ child[res.gen].run # "cancelled" => res.said = Truth)
=============================================================================
