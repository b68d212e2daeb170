----------------------------- MODULE RunServer -----------------------------
(***************************************************************************)
(* Workflow servers driving the runs of RunStore.  A server remembers, per *)
(* run, the claim it took and how far the supervised runner of that claim  *)
(* got (activeRuns, pendingRunClaims, blockedRuns); this memory is lost    *)
(* when its process dies.  A server whose server row was taken over keeps  *)
(* acting until its heartbeat notices, so two servers can drive the same   *)
(* store at once.  A runner talks only to the server that spawned it, and  *)
(* every message is answered under the claim check of that server.         *)
(***************************************************************************)
EXTENDS RunStore

VARIABLES server,    \* server[o]: life cycle of the server process with id o
          current,   \* owner of the row workflow_server_state
          slot,      \* slot[o][r]: what server o remembers of its claim on r
          blocked    \* blocked[o]: runs that o will not schedule by itself

vars == <<run, server, current, slot, blocked>>

\* Claims without a runner.
ClaimPhases == {"timeout", "decision", "pending"}

\* Effects are recovered before the runner is spawned ("active"); the runner is
\* on its way ("spawned"), ready and starting a fresh run ("start"), or resuming
\* one ("resume"), in an attempt with an answer ("candidate"), in the graph
\* ("graph"), past an ambiguous effect ("ambiguous"), or finished.
RunnerPhases ==
    {"active", "spawned", "start", "resume", "candidate", "graph", "ambiguous",
     "halted"}

ExitPhases == {"exited", "crashed", "loadFailed"}

\* activeRuns: from the activation until the exit of the runner is handled.
ActivePhases == RunnerPhases \cup ExitPhases

Slot ==
    [ phase     : {"idle"} \cup ClaimPhases \cup ActivePhases,
      gen       : 0 .. MaxGeneration,
      control   : {"none", "handoff", "pause", "cancel"},
      progress  : BOOLEAN ]   \* the run committed since runner.ready

Idle == [phase |-> "idle", gen |-> 0, control |-> "none", progress |-> FALSE]

ServerInit ==
    /\ Init
    /\ server = [o \in Owners |-> "new"]
    /\ current = None
    /\ slot = [o \in Owners |-> [r \in Runs |-> Idle]]
    /\ blocked = [o \in Owners |-> {}]

Up(o) == server[o] = "up"

Alive(o) == server[o] \in {"up", "stopping"}

Phase(o, r) == slot[o][r].phase

SetSlot(o, r, s) == slot' = [slot EXCEPT ![o][r] = s]

MoveTo(o, r, p) == slot' = [slot EXCEPT ![o][r].phase = p]

Advance(o, r, p) ==
    slot' = [slot EXCEPT ![o][r].phase = p, ![o][r].progress = TRUE]

SlotHolds(o, r) == Holds(run[r], slot[o][r].gen)

Claim(o, r, p) ==
    SetSlot(o, r, [Idle EXCEPT !.phase = p, !.gen = run[r].gen + 1])

Process == <<server, current, blocked>>

-----------------------------------------------------------------------------
(* Scheduling: claimEligibleRun, claimExpiredInteraction and the decision  *)
(* timeout.  The order among them is left open.                            *)

\* readyInteractionRunIds.
HasReadyAnswer(x) ==
    /\ x.open
    /\ Nonterminal(x)
    /\ \/ x.request = "settled"
       \/ Pending(x) /\ x.submission = "validating"

\* Variant: an answer resumes its run although the run is paused.
ClaimReadyPaused(o, r) ==
    /\ Up(o)
    /\ Phase(o, r) = "idle"
    /\ r \notin blocked[o]
    /\ HasReadyAnswer(run[r])
    /\ ClaimForInteractionValidation(r, o)
    /\ Claim(o, r, "pending")
    /\ UNCHANGED Process

ClaimReady(o, r) ==
    /\ Up(o)
    /\ Phase(o, r) = "idle"
    /\ r \notin blocked[o]
    /\ HasReadyAnswer(run[r])
    /\ ~run[r].paused
    /\ ClaimForInteractionValidation(r, o)
    /\ Claim(o, r, "pending")
    /\ UNCHANGED Process

ClaimScheduled(o, r) ==
    /\ Up(o)
    /\ Phase(o, r) = "idle"
    /\ r \notin blocked[o]
    /\ ClaimNext(r, o)
    /\ Claim(o, r, "pending")
    /\ UNCHANGED Process

ClaimExpired(o, r) ==
    /\ Up(o)
    /\ Phase(o, r) = "idle"
    /\ Pending(run[r])
    /\ run[r].kind = "agent"
    /\ ~run[r].paused
    /\ ClaimForControl(r, o)
    /\ Claim(o, r, "timeout")
    /\ UNCHANGED Process

ClaimDecision(o, r) ==
    /\ Up(o)
    /\ Phase(o, r) = "idle"
    /\ Pending(run[r])
    /\ run[r].kind = "checkpoint"
    /\ ClaimForControl(r, o)
    /\ Claim(o, r, "decision")
    /\ UNCHANGED Process

\* A claim that could not be used is parked when it still verifies.
GiveUp(o, r) ==
    \/ Park(r, slot[o][r].gen)
    \/ ~SlotHolds(o, r) /\ UNCHANGED run

TurnCanExpire(x) ==
    Pending(x) /\ ~x.paused /\ x.status = "waiting" /\ x.queue = "parked"

ExpireTurn(o, r) ==
    /\ Alive(o)
    /\ Phase(o, r) = "timeout"
    /\ \/ /\ InteractionTimeout(r, slot[o][r].gen)
          /\ MoveTo(o, r, "pending")
       \/ /\ ~(SlotHolds(o, r) /\ TurnCanExpire(run[r]))
          /\ GiveUp(o, r)
          /\ SetSlot(o, r, Idle)
    /\ UNCHANGED Process

ExpireDecision(o, r) ==
    /\ Alive(o)
    /\ Phase(o, r) = "decision"
    /\ \/ DecisionTimeout(r, slot[o][r].gen)
       \/ ~(SlotHolds(o, r) /\ Pending(run[r])) /\ GiveUp(o, r)
    /\ SetSlot(o, r, Idle)
    /\ UNCHANGED Process

-----------------------------------------------------------------------------
(* Activation of a pending claim: effects are recovered, then the runner   *)
(* is spawned and reports ready.                                           *)

Activate(o, r) ==
    /\ Alive(o)
    /\ Phase(o, r) = "pending"
    /\ IF Up(o) THEN MoveTo(o, r, "active") /\ UNCHANGED run
                ELSE GiveUp(o, r) /\ SetSlot(o, r, Idle)
    /\ UNCHANGED Process

\* recoverApplyingEffects, on activation and after the runner is gone.
RecoverEffects(o, r) ==
    /\ Alive(o)
    /\ \/ Phase(o, r) = "active"
       \/ Phase(o, r) \in ExitPhases /\ slot[o][r].control = "none"
    /\ \E outcome \in {"none", "ambiguous"} :
           SettleEffect(r, slot[o][r].gen, outcome)
    /\ UNCHANGED <<slot, Process>>

\* An ambiguous effect parks the run instead of spawning its runner; when the
\* park throws or the claim is lost, the exit handling tries again.
ActivateAmbiguous(o, r) ==
    /\ Alive(o)
    /\ Phase(o, r) = "active"
    /\ run[r].effect = "ambiguous"
    /\ \/ ParkAmbiguous(r, slot[o][r].gen) /\ SetSlot(o, r, Idle)
       \/ /\ ~SlotHolds(o, r) \/ run[r].status # "running"
          /\ MoveTo(o, r, "crashed")
          /\ UNCHANGED run
    /\ UNCHANGED Process

\* Variant: a runner spawned without recovering the effects of the last one.
SpawnAnyway(o, r) ==
    /\ Alive(o)
    /\ Phase(o, r) = "active"
    /\ MoveTo(o, r, "spawned")
    /\ UNCHANGED <<run, Process>>

\* supervisor.start(), once no effect is in doubt.
SpawnRunner(o, r) ==
    /\ Alive(o)
    /\ Phase(o, r) = "active"
    /\ run[r].effect = "none"
    /\ MoveTo(o, r, "spawned")
    /\ UNCHANGED <<run, Process>>

\* The message runner.ready: the claim is verified again, effects are not.
RunnerReady(o, r) ==
    /\ Alive(o)
    /\ Phase(o, r) = "spawned"
    /\ \/ /\ MarkRunning(r, slot[o][r].gen)
          /\ MoveTo(o, r,
                    IF run[r].status = "queued" THEN "start" ELSE "resume")
       \/ /\ ~SlotHolds(o, r)
          /\ MoveTo(o, r, "crashed")
          /\ UNCHANGED run
    /\ UNCHANGED Process

-----------------------------------------------------------------------------
(* Messages of the runner.  Each commit carries the write authority of the *)
(* slot's claim, which is the guard Holds of the transaction.              *)

RunnerStart(o, r) ==
    /\ Phase(o, r) = "start"
    /\ \/ Initialize(r, slot[o][r].gen) /\ Advance(o, r, "start")
       \/ RunStarted(r, slot[o][r].gen) /\ Advance(o, r, "graph")

\* prepareInteractionResume and prepareRunResume, then run_resumed.  A pending
\* request that is not being answered must not lose its attempt: that throws.
RunnerResume(o, r) ==
    /\ Phase(o, r) = "resume"
    /\ \/ AnswerResume(r, slot[o][r].gen) /\ Advance(o, r, "resume")
       \/ /\ RunResumed(r, slot[o][r].gen)
          /\ run[r].open /\ Pending(run[r]) => run[r].submission = "validating"
          /\ Advance(o, r, IF run[r].open THEN "candidate" ELSE "graph")

\* The resumed attempt: its answer is validated and consumed, or it ends with
\* an error or at its deadline.
RunnerCandidate(o, r) ==
    /\ Phase(o, r) = "candidate"
    /\ \/ AcceptSubmission(r, slot[o][r].gen) /\ Advance(o, r, "candidate")
       \/ ConsumeAnswer(r, slot[o][r].gen) /\ Advance(o, r, "graph")
       \/ EndAttempt(r, slot[o][r].gen) /\ Advance(o, r, "graph")
       \/ /\ RejectSubmission(r, slot[o][r].gen)
          /\ slot' = [slot EXCEPT ![o][r].phase = "halted",
                                  ![o][r].control = "handoff"]

RunnerGraph(o, r) ==
    /\ Phase(o, r) = "graph"
    /\ \/ /\ RequestInteraction(r, slot[o][r].gen)
          /\ slot' = [slot EXCEPT ![o][r].phase = "halted",
                                  ![o][r].control = "handoff"]
       \/ WaitForInput(r, slot[o][r].gen) /\ Advance(o, r, "halted")
       \/ ReserveEffect(r, slot[o][r].gen) /\ Advance(o, r, "graph")
       \/ SettleEffect(r, slot[o][r].gen, "none") /\ Advance(o, r, "graph")
       \/ /\ SettleEffect(r, slot[o][r].gen, "ambiguous")
          /\ Advance(o, r, "ambiguous")

\* The second half of settling an effect as ambiguous.
RunnerAmbiguous(o, r) ==
    /\ Phase(o, r) = "ambiguous"
    /\ ParkAmbiguous(r, slot[o][r].gen)
    /\ Advance(o, r, "halted")

RunnerFinish(o, r) ==
    /\ \/ Phase(o, r) = "graph"
          /\ run[r].effect # "applying"
          /\ \E s \in {"completed", "failed", "timed_out"} :
                 FinishRun(r, slot[o][r].gen, s)
       \/ Phase(o, r) = "candidate" /\ FinishRun(r, slot[o][r].gen, "failed")
    /\ Advance(o, r, "halted")

RunnerStep(o, r) ==
    /\ Alive(o)
    /\ \/ RunnerStart(o, r)
       \/ RunnerResume(o, r)
       \/ RunnerCandidate(o, r)
       \/ RunnerGraph(o, r)
       \/ RunnerAmbiguous(o, r)
       \/ RunnerFinish(o, r)
    /\ UNCHANGED Process

\* The runner process ends: normally once it has nothing left to do, or at any
\* moment by a crash, a kill of the supervisor or a failure to load its source.
RunnerExit(o, r) ==
    /\ Alive(o)
    /\ \/ Phase(o, r) = "halted" /\ MoveTo(o, r, "exited")
       \/ Phase(o, r) \in RunnerPhases /\ MoveTo(o, r, "crashed")
       \/ Phase(o, r) \in {"start", "resume"} /\ MoveTo(o, r, "loadFailed")
    /\ UNCHANGED <<run, Process>>

-----------------------------------------------------------------------------
(* recoverRunnerExit and the end of activateRunNow.                        *)

NeedsRecovery(o, r) ==
    /\ slot[o][r].control = "none"
    /\ \/ Phase(o, r) # "exited"
       \/ Pending(run[r]) /\ run[r].submission = "validating"

Validating(x) == Pending(x) /\ x.submission = "validating"

Block(o, r) == blocked' = [blocked EXCEPT ![o] = @ \cup {r}]

RecoverHeld(o, r) ==
    LET g == slot[o][r].gen IN
    \/ /\ run[r].effect = "ambiguous"
       /\ \/ ParkAmbiguous(r, g)
          \/ run[r].status # "running" /\ UNCHANGED run
       /\ Block(o, r)
    \/ /\ run[r].effect = "none"
       /\ \/ RejectSubmission(r, g) /\ UNCHANGED blocked
          \/ /\ ~Validating(run[r])
             /\ \/ /\ Phase(o, r) = "loadFailed"
                   /\ Fail(r, g)
                   /\ UNCHANGED blocked
                \/ /\ Phase(o, r) # "loadFailed"
                   /\ ~slot[o][r].progress
                   /\ ParkNoProgress(r, g)
                   /\ Block(o, r)
                \/ /\ Phase(o, r) # "loadFailed"
                   /\ slot[o][r].progress
                   /\ Park(r, g)
                   /\ UNCHANGED blocked

RecoverRunnerExit(o, r) ==
    /\ Alive(o)
    /\ Phase(o, r) \in ExitPhases
    /\ IF NeedsRecovery(o, r) /\ SlotHolds(o, r)
       THEN RecoverHeld(o, r)
       ELSE UNCHANGED <<run, blocked>>
    /\ SetSlot(o, r, Idle)
    /\ UNCHANGED <<server, current>>

\* The heartbeat found the claim of a runner lost and stops the runner.
LoseClaim(o, r) ==
    /\ Up(o)
    /\ Phase(o, r) \in RunnerPhases
    /\ slot[o][r].control = "none"
    /\ ~SlotHolds(o, r)
    /\ MoveTo(o, r, "crashed")
    /\ UNCHANGED <<run, Process>>

-----------------------------------------------------------------------------
(* Operations of clients.                                                  *)

\* run.pause: it stops an active runner, or pauses a parked interaction.
PauseRun(o, r) ==
    /\ Up(o)
    /\ IF Phase(o, r) \in ActivePhases /\ slot[o][r].control # "handoff"
       THEN /\ slot[o][r].control = "none"
            /\ PauseActive(r, slot[o][r].gen)
            /\ slot' = [slot EXCEPT ![o][r].control = "pause"]
       ELSE PauseParked(r) /\ UNCHANGED slot
    /\ UNCHANGED Process

\* An aborted model turn pauses its parked run.
AbortTurn(o, r) ==
    /\ Up(o)
    /\ run[r].kind = "agent"
    /\ PauseParked(r)
    /\ UNCHANGED <<slot, Process>>

\* run.resume: in place, or by queueing the run when this server is idle on it.
ResumeRun(o, r) ==
    /\ Up(o)
    /\ \/ ResumePausedInteraction(r) /\ UNCHANGED blocked
       \/ /\ Phase(o, r) \notin ActivePhases \cup {"pending"}
          /\ RequestResume(r)
          /\ blocked' = [blocked EXCEPT ![o] = @ \ {r}]
    /\ UNCHANGED <<server, current, slot>>

\* run.cancel: with the claim this server has, or as a run nobody owns.
CancelRun(o, r) ==
    /\ Up(o)
    /\ IF Phase(o, r) \in ActivePhases
       THEN /\ IF slot[o][r].control = "handoff"
               THEN CancelUnowned(r)
               ELSE CancelHeld(r, slot[o][r].gen)
            /\ slot' = [slot EXCEPT ![o][r].control = "cancel"]
       ELSE IF Phase(o, r) = "pending"
       THEN CancelHeld(r, slot[o][r].gen) /\ SetSlot(o, r, Idle)
       ELSE CancelUnowned(r) /\ UNCHANGED slot
    /\ UNCHANGED Process

StartRun(o, r) ==
    /\ Up(o)
    /\ \E s \in Sessions, m \in Mode : Reserve(r, s, m)
    /\ UNCHANGED <<slot, Process>>

RestartRun(o, r) ==
    /\ Up(o)
    /\ \E p \in Runs : Restart(r, p)
    /\ UNCHANGED <<slot, Process>>

\* Answers and updates of the origin session.
Answer(o, r) ==
    /\ Up(o)
    /\ BeginValidation(r) \/ AnswerCheckpoint(r) \/ PublishUpdate(r, o)
    /\ UNCHANGED <<slot, Process>>

MissingSubmission(o, r) ==
    /\ Up(o)
    /\ Phase(o, r) \notin ActivePhases \cup {"pending"}
    /\ FailMissingSubmission(r, o)
    /\ UNCHANGED <<slot, Process>>

-----------------------------------------------------------------------------
(* Server processes.  A server id is used by one process only.             *)

StartServer(o) ==
    /\ server[o] = "new"
    /\ server' = [server EXCEPT ![o] = "up"]
    /\ current' = o
    /\ IF current = None THEN UNCHANGED run ELSE ExpireOwner(current)
    /\ UNCHANGED <<slot, blocked>>

\* A signal, or the heartbeat found the server row taken over.
StopServer(o) ==
    /\ Up(o)
    /\ server' = [server EXCEPT ![o] = "stopping"]
    /\ UNCHANGED <<run, current, slot, blocked>>

\* Stopping parks what this server claimed, once the runner is stopped.
StopRun(o, r) ==
    /\ server[o] = "stopping"
    /\ Phase(o, r) \in ActivePhases \cup {"pending"}
    /\ GiveUp(o, r)
    /\ SetSlot(o, r, Idle)
    /\ UNCHANGED Process

\* The stopped process ends and gives up the server row if it still has it.
EndServer(o) ==
    /\ server[o] = "stopping"
    /\ \A r \in Runs : Phase(o, r) = "idle"
    /\ server' = [server EXCEPT ![o] = "down"]
    /\ current' = IF current = o THEN None ELSE current
    /\ blocked' = [blocked EXCEPT ![o] = {}]
    /\ UNCHANGED <<run, slot>>

\* The process dies at any moment; its runners die with it.
CrashServer(o) ==
    /\ Alive(o)
    /\ server' = [server EXCEPT ![o] = "down"]
    /\ slot' = [slot EXCEPT ![o] = [r \in Runs |-> Idle]]
    /\ blocked' = [blocked EXCEPT ![o] = {}]
    /\ UNCHANGED <<run, current>>

LeaseExpires(r) == Expire(r) /\ UNCHANGED <<slot, Process>>

Drive(o, r) ==
    \/ ClaimReady(o, r)
    \/ ClaimScheduled(o, r)
    \/ ClaimExpired(o, r)
    \/ ClaimDecision(o, r)
    \/ ExpireTurn(o, r)
    \/ ExpireDecision(o, r)
    \/ Activate(o, r)
    \/ RecoverEffects(o, r)
    \/ ActivateAmbiguous(o, r)
    \/ SpawnRunner(o, r)
    \/ RunnerReady(o, r)
    \/ RunnerStep(o, r)
    \/ RunnerExit(o, r)
    \/ RecoverRunnerExit(o, r)
    \/ LoseClaim(o, r)
    \/ StopRun(o, r)

Operate(o, r) ==
    \/ PauseRun(o, r)
    \/ AbortTurn(o, r)
    \/ ResumeRun(o, r)
    \/ CancelRun(o, r)
    \/ StartRun(o, r)
    \/ RestartRun(o, r)
    \/ Answer(o, r)
    \/ MissingSubmission(o, r)

ServerNext ==
    \/ \E o \in Owners, r \in Runs : Drive(o, r) \/ Operate(o, r)
    \/ \E o \in Owners :
           StartServer(o) \/ StopServer(o) \/ EndServer(o) \/ CrashServer(o)
    \/ \E r \in Runs : LeaseExpires(r)

ServerSpec == ServerInit /\ [][ServerNext]_vars

-----------------------------------------------------------------------------
(* Properties.                                                             *)

(* Type invariant of the servers' memory.                                  *)
ServerTypeOK ==
    /\ TypeOK
    /\ server \in [Owners -> {"new", "up", "stopping", "down"}]
    /\ current \in Owners \cup {None}
    /\ slot \in [Owners -> [Runs -> Slot]]
    /\ blocked \in [Owners -> SUBSET Runs]

(* Whatever servers crash, stall, overlap or take over, at most one of the *)
(* claims they remember for a run still verifies: two runners never both   *)
(* commit to one run.                                                      *)
OneExecutor ==
    \A r \in Runs, o, p \in Owners :
        Phase(o, r) # "idle" /\ Phase(p, r) # "idle"
        /\ SlotHolds(o, r) /\ SlotHolds(p, r) => o = p

(* The same for a Pi session: through crashes, takeovers, parks, pauses     *)
(* and restarts, at most one of its interactive runs is driven by a claim  *)
(* that verifies, so a restart never executes beside the run it replaces.  *)
OneExecutorPerSession ==
    \A q, r \in Runs, o, p \in Owners :
        /\ Phase(o, q) # "idle" /\ SlotHolds(o, q)
        /\ Phase(p, r) # "idle" /\ SlotHolds(p, r)
        /\ run[q].mode = "interactive" /\ run[r].mode = "interactive"
        /\ run[q].session = run[r].session
        => q = r

(* A paused run does not execute: it stays parked, and no runner holds a   *)
(* claim that verifies, through answers, deadlines and restarts.           *)
PausedDoesNotExecute ==
    \A r \in Runs : run[r].paused =>
        /\ run[r].queue = "parked"
        /\ \A o \in Owners :
               Phase(o, r) # "idle" /\ SlotHolds(o, r) =>
                   Phase(o, r) = "decision"

(* While a runner of a verified claim executes, the run it executes is     *)
(* running, the attempt it resumed is open, and a request that is still    *)
(* pending is one whose candidate answer is being validated: nothing but   *)
(* the claim holder moves a run that executes.                             *)
ExecutionIsLive ==
    \A r \in Runs, o \in Owners :
        /\ Phase(o, r) \in {"candidate", "graph", "ambiguous"}
        /\ SlotHolds(o, r)
        => /\ run[r].status = "running"
           /\ Phase(o, r) = "candidate" => run[r].open
           /\ Pending(run[r]) => run[r].submission = "validating"

(* A runner that begins or resumes work never meets an external effect of  *)
(* an earlier claim whose outcome nobody knows: crashes between reserving  *)
(* and settling an effect are resolved before the next runner is spawned,  *)
(* and none can be reserved from then until it is at work, although        *)
(* runner.ready and the resumption do not look at the effects again.       *)
EffectsResolvedBeforeRun ==
    \A r \in Runs, o \in Owners :
        Phase(o, r) \in {"spawned", "start", "resume", "candidate"} /\ SlotHolds(o, r)
        => run[r].effect = "none"

(* diagnostics.ts waitingRequest, except for the runs that wait for the    *)
(* recovery of an ambiguous effect: a waiting run has a pending request or *)
(* an accepted answer that is not consumed.                                *)
WaitingForAnswer ==
    \A r \in Runs :
        run[r].status = "waiting" /\ run[r].effect # "ambiguous" =>
            Pending(run[r]) \/ (run[r].request = "settled" /\ run[r].open)

-----------------------------------------------------------------------------
(* What the repository says of the program and the code does not keep.     *)

(* WORKFLOW_SERVER.md, pause: resume clears the pause of a pending         *)
(* interaction in place.  Once no server drives a paused run, run.resume   *)
(* has a way to take it: in place, or as a run without a pending request.  *)
PausedRunIsResumable ==
    \A r \in Runs :
        /\ run[r].paused /\ Nonterminal(run[r]) /\ Free(run[r])
        /\ \A o \in Owners : Phase(o, r) = "idle"
        => ~Pending(run[r]) \/ run[r].status = "waiting"
=============================================================================
