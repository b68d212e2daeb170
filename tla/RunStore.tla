------------------------------ MODULE RunStore ------------------------------
(***************************************************************************)
(* The durable half of a workflow run: the rows `runs`, `run_queue`,       *)
(* `leases`, `interactive_requests`, `interactive_submissions` and         *)
(* `effects` of one run, and every SQLite transaction of the program that  *)
(* writes them.  One action is one transaction.  Who calls it, and with    *)
(* which volatile state, is the business of module RunServer: here any     *)
(* caller may call any transaction at any time with any claim it was ever  *)
(* given, so what holds here holds whatever the servers remember.          *)
(*                                                                         *)
(* A claim token is fresh per claim and each claim takes the next lease    *)
(* generation, so the generation stands for the token.  Wall-clock time    *)
(* is abstracted: `live` is true until Expire, which can happen at any     *)
(* moment, and a renewal of a live lease is a stuttering step.             *)
(***************************************************************************)
EXTENDS Naturals

CONSTANTS Runs,            \* run ids
          Sessions,        \* origin Pi sessions
          Owners,          \* lease owners: server ids
          None,            \* SQL NULL
          MaxGeneration    \* bound on scheduler claims of one run

ASSUME RunStoreAssumption ==
    /\ MaxGeneration \in Nat
    /\ None \notin Runs \cup Sessions \cup Owners

VARIABLE run               \* run[r]: the rows of run r

RunTerminal   == {"completed", "failed", "timed_out", "cancelled"}
QueueTerminal == {"done", "failed", "cancelled"}
QueueActive   == {"queued", "starting", "running", "parked"}

RunStatus        == {"none", "queued", "running", "waiting"} \cup RunTerminal
QueueStatus      == {"none"} \cup QueueActive \cup QueueTerminal
QueueError       == {"none", "runnerNoProgress", "effectAmbiguous", "other"}
RequestStatus    == {"none", "pending", "settled", "consumed", "cancelled"}
SubmissionStatus == {"none", "validating", "accepted", "rejected"}
EffectStatus     == {"none", "applying", "ambiguous"}
Mode             == {"interactive", "headless"}
Kind             == {"agent", "checkpoint"}

\* "none" is an absent row, or NULL.
Row ==
    [ status     : RunStatus,
      paused     : BOOLEAN,
      mode       : Mode,
      session    : Sessions \cup {None},
      parent     : Runs \cup {None},
      queue      : QueueStatus,
      error      : QueueError,
      gen        : 0 .. MaxGeneration + 1,
      owner      : Owners \cup {None},
      live       : BOOLEAN,
      request    : RequestStatus,
      kind       : Kind,
      open       : BOOLEAN,  \* the request's node attempt is still active
      submission : SubmissionStatus,
      effect     : EffectStatus ]

Absent ==
    [ status |-> "none", paused |-> FALSE, mode |-> "interactive",
      session |-> None, parent |-> None, queue |-> "none", error |-> "none",
      gen |-> 0, owner |-> None, live |-> FALSE, request |-> "none",
      kind |-> "agent", open |-> FALSE, submission |-> "none",
      effect |-> "none" ]

Init == run = [r \in Runs |-> Absent]

Update(r, x) == run' = [run EXCEPT ![r] = x]

-----------------------------------------------------------------------------
(* Row predicates and row updates the transactions share.                  *)

\* No other owner's unexpired lease is in the way.
Free(x) == x.owner = None \/ ~x.live

\* Variant: a token compared without looking at the lease.
HoldsToken(x, g) == x.gen = g

\* Variant: a live lease verified without comparing the token.
HoldsLease(x, g) == x.owner # None /\ x.live

\* verifyWorkflowRunClaim: the lease is owned, unexpired and has this token.
Holds(x, g) == x.owner # None /\ x.live /\ x.gen = g

Pending(x) == x.request = "pending"

Nonterminal(x) == x.queue \in QueueActive

Released(x) == [x EXCEPT !.owner = None, !.live = FALSE]

\* releaseRunClaim(.., "parked"): it changes the queue row and frees the lease.
Parked(x) == Released([x EXCEPT !.queue = "parked"])

\* claimRunInTransaction with preserveQueueStatus: only the lease changes.
ControlClaimed(x, o) == [x EXCEPT !.gen = @ + 1, !.owner = o, !.live = TRUE]

\* claimRunInTransaction: the queue row also starts and forgets its error.
Claimed(x, o) ==
    [ControlClaimed(x, o) EXCEPT !.queue = "starting", !.error = "none"]

CancelRequest(x) ==
    IF Pending(x) THEN [x EXCEPT !.request = "cancelled", !.open = FALSE]
    ELSE [x EXCEPT !.open = FALSE]

RejectValidating(x) ==
    IF x.submission = "validating" THEN [x EXCEPT !.submission = "rejected"]
    ELSE x

\* terminalRun(.., "failed"): a validating submission is left as it is.
Failed(x) ==
    CancelRequest([Released(x) EXCEPT !.status = "failed", !.paused = FALSE,
                                      !.queue = "failed", !.error = "other"])

\* terminalRun(.., "cancelled") and cancelWorkflowRunDependents.
Cancelled(x) ==
    CancelRequest(RejectValidating(
        [Released(x) EXCEPT !.status = "cancelled", !.paused = FALSE,
             !.queue = "cancelled", !.error = "other",
             !.effect = IF @ = "applying" THEN "ambiguous" ELSE @]))

\* recordWorkflowSubmission with settle, and finishInteractionValidation.
Settled(x) == [x EXCEPT !.request = "settled", !.submission = "accepted"]

-----------------------------------------------------------------------------
(* Reservation.                                                            *)

\* Variant: a parked run does not occupy its session.
SessionFreeOfUnparked(s) ==
    ~ \E q \in Runs : /\ run[q].session = s
                      /\ run[q].mode = "interactive"
                      /\ run[q].queue \in QueueActive \ {"parked"}

\* No active interactive run of the same Pi session.
SessionFree(s) ==
    ~ \E q \in Runs : /\ run[q].session = s
                      /\ run[q].mode = "interactive"
                      /\ run[q].queue \in QueueActive

QueuedRow(s, m, p) ==
    [Absent EXCEPT !.status = "queued", !.queue = "queued",
                   !.session = s, !.mode = m, !.parent = p]

Reserve(r, s, m) ==
    /\ run[r].queue = "none"
    /\ m = "interactive" => SessionFree(s)
    /\ Update(r, QueuedRow(s, m, None))

\* A restart reserves a fresh run under a terminal interactive parent, once.
Restart(r, p) ==
    /\ run[r].queue = "none"
    /\ run[p].mode = "interactive"
    /\ run[p].status \in RunTerminal
    /\ run[p].queue \in QueueTerminal
    /\ run[p].effect = "none"
    /\ \A q \in Runs : run[q].parent # p
    /\ SessionFree(run[p].session)
    /\ Update(r, QueuedRow(run[p].session, "interactive", p))

-----------------------------------------------------------------------------
(* Claims.                                                                 *)

\* The lease guard of every claim: the owner of a live lease may claim again.
LeaseAvailable(x, o) == (Free(x) \/ x.owner = o) /\ x.gen < MaxGeneration

\* claimNextWorkflowRun's WHERE clause.
Schedulable(x) ==
    /\ Nonterminal(x)
    /\ ~(x.queue = "parked" /\ (x.status = "waiting" \/ x.paused))
    /\ ~Pending(x)
    /\ x.error # "runnerNoProgress"

ClaimNext(r, o) ==
    /\ Schedulable(run[r])
    /\ LeaseAvailable(run[r], o)
    /\ Update(r, Claimed(run[r], o))

ClaimForInteractionValidation(r, o) ==
    /\ Nonterminal(run[r])
    /\ LeaseAvailable(run[r], o)
    /\ Update(r, Claimed(run[r], o))

ClaimForControl(r, o) ==
    /\ Nonterminal(run[r])
    /\ LeaseAvailable(run[r], o)
    /\ Update(r, ControlClaimed(run[r], o))

\* Time passes the lease's expires_at.
Expire(r) ==
    /\ run[r].live
    /\ Update(r, [run[r] EXCEPT !.live = FALSE])

\* recoverPreviousServer: a new server expires the leases of the one before.
ExpireOwner(o) ==
    run' = [r \in Runs |->
               IF run[r].owner = o THEN [run[r] EXCEPT !.live = FALSE]
               ELSE run[r]]

-----------------------------------------------------------------------------
(* Transactions of a claim holder that release or move the run.            *)

\* The queue row follows the runner's start (run.started of the runner).
MarkRunning(r, g) ==
    /\ Holds(run[r], g)
    /\ Update(r, [run[r] EXCEPT !.queue = "running"])

Park(r, g) ==
    /\ Holds(run[r], g)
    /\ Update(r, Parked(run[r]))

ParkNoProgress(r, g) ==
    /\ Holds(run[r], g)
    /\ run[r].status \notin RunTerminal
    /\ Nonterminal(run[r])
    /\ Update(r, [Parked(run[r]) EXCEPT !.error = "runnerNoProgress"])

\* It throws, and rolls back, when the run is not `running`.
ParkAmbiguous(r, g) ==
    /\ Holds(run[r], g)
    /\ run[r].status = "running"
    /\ run[r].queue \in QueueActive \ {"queued"}
    /\ Update(r, [Parked(run[r]) EXCEPT !.status = "waiting",
                                        !.error = "effectAmbiguous"])

\* Variant: the request closes and the run keeps waiting.
InteractionTimeoutWaiting(r, g) ==
    /\ Holds(run[r], g)
    /\ Pending(run[r])
    /\ run[r].kind = "agent"
    /\ Update(r, RejectValidating([run[r] EXCEPT !.request = "cancelled",
                                  !.queue = "starting", !.error = "none"]))

\* A timed-out model turn reopens the parked run for a runner that ends the
\* attempt: the request closes, the attempt stays open.
InteractionTimeout(r, g) ==
    /\ Holds(run[r], g)
    /\ Pending(run[r])
    /\ run[r].kind = "agent"
    /\ ~run[r].paused
    /\ run[r].status = "waiting"
    /\ run[r].queue = "parked"
    /\ Update(r, RejectValidating([run[r] EXCEPT !.request = "cancelled",
            !.status = "running", !.queue = "starting", !.error = "none"]))

PauseActive(r, g) ==
    /\ Holds(run[r], g)
    /\ Update(r, Parked([run[r] EXCEPT !.paused = TRUE]))

Fail(r, g) ==
    /\ Holds(run[r], g)
    /\ Nonterminal(run[r])
    /\ Update(r, Failed(run[r]))

CancelHeld(r, g) ==
    /\ Holds(run[r], g)
    /\ Nonterminal(run[r])
    /\ Update(r, Cancelled(run[r]))

-----------------------------------------------------------------------------
(* Control transactions that need no claim.                                *)

PauseParked(r) ==
    /\ run[r].queue = "parked"
    /\ Free(run[r])
    /\ Pending(run[r])
    /\ ~run[r].paused
    /\ run[r].status \in {"running", "waiting"}
    /\ Update(r, [run[r] EXCEPT !.paused = TRUE])

ResumePausedInteraction(r) ==
    /\ run[r].queue = "parked"
    /\ run[r].status = "waiting"
    /\ run[r].paused
    /\ Free(run[r])
    /\ Pending(run[r])
    /\ Update(r, [run[r] EXCEPT !.paused = FALSE])

RequestResume(r) ==
    /\ Nonterminal(run[r])
    /\ Free(run[r])
    /\ ~Pending(run[r])
    /\ Update(r, [run[r] EXCEPT !.paused = FALSE, !.queue = "queued",
                                !.error = "none"])

\* A run that never started and has no owner is cancelled as it is; any other
\* run takes and releases a control generation, which fences the old claim.
CancelUnowned(r) ==
    /\ Nonterminal(run[r])
    /\ Free(run[r])
    /\ IF run[r].queue \in {"queued", "starting"} /\ run[r].owner = None
       THEN Update(r, Cancelled(run[r]))
       ELSE /\ run[r].gen <= MaxGeneration
            /\ run[r].status \notin RunTerminal
            /\ Update(r, [Cancelled(run[r]) EXCEPT !.gen = @ + 1])

-----------------------------------------------------------------------------
(* Commits of a runner, under the write authority of its claim.            *)

Initialize(r, g) ==
    /\ Holds(run[r], g)
    /\ run[r].status = "queued"
    /\ Update(r, [run[r] EXCEPT !.status = "running"])

\* run_started and run_resumed start the queue row; run_resumed unpauses.
StartQueue(x) ==
    [x EXCEPT !.queue = IF @ \in {"starting", "parked"} THEN "running" ELSE @]

RunStarted(r, g) ==
    /\ Holds(run[r], g)
    /\ run[r].status = "running"
    /\ Update(r, StartQueue(run[r]))

\* Variant: a resume that does not look at the run's status.
RunResumedAnyStatus(r, g) ==
    /\ Holds(run[r], g)
    /\ Update(r, StartQueue([run[r] EXCEPT !.paused = FALSE]))

RunResumed(r, g) ==
    /\ Holds(run[r], g)
    /\ run[r].status = "running"
    /\ Update(r, StartQueue([run[r] EXCEPT !.paused = FALSE]))

\* The waiting attempt continues with its accepted or validating answer.
AnswerResume(r, g) ==
    /\ Holds(run[r], g)
    /\ run[r].status = "waiting"
    /\ run[r].open
    /\ \/ run[r].request = "settled"
       \/ Pending(run[r]) /\ run[r].submission = "validating"
    /\ Update(r, [run[r] EXCEPT !.status = "running"])

AcceptSubmission(r, g) ==
    /\ Holds(run[r], g)
    /\ Pending(run[r])
    /\ run[r].submission = "validating"
    /\ run[r].open
    /\ Update(r, Settled(run[r]))

RejectSubmission(r, g) ==
    /\ Holds(run[r], g)
    /\ Pending(run[r])
    /\ run[r].submission = "validating"
    /\ Update(r, Parked([run[r] EXCEPT !.submission = "rejected",
                    !.status = IF @ = "running" THEN "waiting" ELSE @]))

\* finishAttempt of an attempt whose request is settled.
ConsumeAnswer(r, g) ==
    /\ Holds(run[r], g)
    /\ run[r].status = "running"
    /\ run[r].open
    /\ run[r].request = "settled"
    /\ Update(r, [run[r] EXCEPT !.request = "consumed", !.open = FALSE])

\* finishAttempt with outcome failed or timed_out: it settles no request.
EndAttempt(r, g) ==
    /\ Holds(run[r], g)
    /\ run[r].status = "running"
    /\ run[r].open
    /\ run[r].request \in {"pending", "cancelled"}
    /\ Update(r, [run[r] EXCEPT !.open = FALSE])

NewRequest(x, k) ==
    Parked([x EXCEPT !.request = "pending", !.kind = k, !.open = TRUE,
                     !.submission = "none", !.status = "waiting"])

\* Variant: a new request while an attempt still has one.
CanRequestAnyway(r, g) ==
    /\ Holds(run[r], g)
    /\ run[r].status = "running"
    /\ ~Pending(run[r])

\* A second pending request of a run violates a unique index and rolls back.
CanRequest(r, g) ==
    /\ Holds(run[r], g)
    /\ run[r].status = "running"
    /\ ~run[r].open
    /\ ~Pending(run[r])

RequestInteraction(r, g) ==
    /\ CanRequest(r, g)
    /\ run[r].mode = "interactive"
    /\ Update(r, NewRequest(run[r], "agent"))

WaitForInput(r, g) ==
    /\ CanRequest(r, g)
    /\ Update(r, [NewRequest(run[r], "checkpoint") EXCEPT !.error = "none"])

ReserveEffect(r, g) ==
    /\ Holds(run[r], g)
    /\ run[r].status = "running"
    /\ run[r].effect = "none"
    /\ Update(r, [run[r] EXCEPT !.effect = "applying"])

\* settleEffect, or recoverApplyingEffects after the runner exited.
SettleEffect(r, g, outcome) ==
    /\ Holds(run[r], g)
    /\ run[r].effect = "applying"
    /\ Update(r, [run[r] EXCEPT !.effect = outcome])

QueueOf(status) ==
    CASE status = "completed" -> "done"
      [] status = "cancelled" -> "cancelled"
      [] OTHER                -> "failed"

\* The finish commit and its lifecycle projection; requests are left alone.
FinishRun(r, g, s) ==
    /\ Holds(run[r], g)
    /\ run[r].status = "running"
    /\ s = "completed" => ~run[r].open
    /\ Update(r, Released([run[r] EXCEPT !.status = s, !.queue = QueueOf(s),
                    !.error = IF s = "completed" THEN "none" ELSE "other",
                    !.open = FALSE]))

-----------------------------------------------------------------------------
(* Answers, and server steps on a parked request.                          *)

BeginValidation(r) ==
    /\ Pending(run[r])
    /\ run[r].kind = "agent"
    /\ ~run[r].paused
    /\ run[r].submission # "validating"
    /\ Update(r, [run[r] EXCEPT !.submission = "validating"])

AnswerCheckpoint(r) ==
    /\ Pending(run[r])
    /\ run[r].kind = "checkpoint"
    /\ ~run[r].paused
    /\ Update(r, Settled(run[r]))

\* A decision's deadline is absolute: a pause does not stop it.
DecisionTimeout(r, g) ==
    /\ Holds(run[r], g)
    /\ Pending(run[r])
    /\ run[r].kind = "checkpoint"
    /\ Update(r, Parked(Settled(run[r])))

\* An update from the origin session claims and parks in one transaction.
PublishUpdate(r, o) ==
    /\ Pending(run[r])
    /\ run[r].kind = "agent"
    /\ run[r].status = "waiting"
    /\ ~run[r].paused
    /\ Nonterminal(run[r])
    /\ LeaseAvailable(run[r], o)
    /\ Update(r, Parked(ControlClaimed(run[r], o)))

\* The step reminders are used up: the run fails in one transaction.
FailMissingSubmission(r, o) ==
    /\ Pending(run[r])
    /\ run[r].kind = "agent"
    /\ ~run[r].paused
    /\ run[r].submission # "validating"
    /\ Nonterminal(run[r])
    /\ LeaseAvailable(run[r], o)
    /\ Update(r, Failed(ControlClaimed(run[r], o)))

-----------------------------------------------------------------------------
\* Any claim that was ever given for r (and 0, which is none: it verifies
\* nothing).
Held(r) ==
    \E g \in 0 .. run[r].gen :
        \/ MarkRunning(r, g)
        \/ Park(r, g)
        \/ ParkNoProgress(r, g)
        \/ ParkAmbiguous(r, g)
        \/ InteractionTimeout(r, g)
        \/ PauseActive(r, g)
        \/ Fail(r, g)
        \/ CancelHeld(r, g)
        \/ Initialize(r, g)
        \/ RunStarted(r, g)
        \/ RunResumed(r, g)
        \/ AnswerResume(r, g)
        \/ AcceptSubmission(r, g)
        \/ RejectSubmission(r, g)
        \/ ConsumeAnswer(r, g)
        \/ EndAttempt(r, g)
        \/ RequestInteraction(r, g)
        \/ WaitForInput(r, g)
        \/ ReserveEffect(r, g)
        \/ \E outcome \in {"none", "ambiguous"} : SettleEffect(r, g, outcome)
        \/ \E s \in RunTerminal : FinishRun(r, g, s)
        \/ DecisionTimeout(r, g)

Unheld(r) ==
    \/ \E s \in Sessions, m \in Mode : Reserve(r, s, m)
    \/ \E p \in Runs : Restart(r, p)
    \/ Expire(r)
    \/ PauseParked(r)
    \/ ResumePausedInteraction(r)
    \/ RequestResume(r)
    \/ CancelUnowned(r)
    \/ BeginValidation(r)
    \/ AnswerCheckpoint(r)

Claiming(r) ==
    \E o \in Owners :
        \/ ClaimNext(r, o)
        \/ ClaimForInteractionValidation(r, o)
        \/ ClaimForControl(r, o)
        \/ PublishUpdate(r, o)
        \/ FailMissingSubmission(r, o)

Next ==
    \/ \E r \in Runs : Held(r) \/ Unheld(r) \/ Claiming(r)
    \/ \E o \in Owners : ExpireOwner(o)

Spec == Init /\ [][Next]_run

-----------------------------------------------------------------------------
(* Properties.                                                             *)

(* Type invariant: every row stays within its columns' CHECK constraints.  *)
TypeOK == run \in [Runs -> Row]

(* The two terminal columns never disagree: whatever was parked, paused,   *)
(* claimed, timed out or cancelled in between, `runs` is terminal exactly  *)
(* when `run_queue` is, with the same outcome (diagnostics.ts queueState), *)
(* and nobody owns or executes a terminal run.                             *)
TerminalAgreement ==
    \A r \in Runs :
        LET x == run[r] IN
        /\ x.status \in RunTerminal <=> x.queue \in QueueTerminal
        /\ x.status = "completed" <=> x.queue = "done"
        /\ x.status = "cancelled" <=> x.queue = "cancelled"
        /\ x.status \in RunTerminal => x.owner = None /\ ~x.open

(* A Pi session has at most one interactive run that is queued, starting,  *)
(* running or parked, even while the run is paused or unowned (the unique  *)
(* index on run_queue; reserveWorkflowRun checks it, nothing else does).   *)
OneActivePerSession ==
    \A q, r \in Runs :
        /\ q # r
        /\ run[q].mode = "interactive" /\ run[q].queue \in QueueActive
        /\ run[r].mode = "interactive" /\ run[r].queue \in QueueActive
        => run[q].session # run[r].session

(* A restart hangs under a run that is over and stays over, with no effect *)
(* left uncertain, and no terminal run is restarted twice.                 *)
RestartLineage ==
    \A q \in Runs : run[q].parent # None =>
        /\ run[run[q].parent].status \in RunTerminal
        /\ run[run[q].parent].effect = "none"
        /\ \A r \in Runs : run[r].parent = run[q].parent => r = q

(* diagnostics.ts acceptedRequest: a request is settled exactly when one   *)
(* of its submissions is accepted, and an accepted answer that is not yet  *)
(* consumed belongs to an attempt that can still consume it, unless the    *)
(* run is over.                                                            *)
AcceptedAnswer ==
    \A r \in Runs :
        LET x == run[r] IN
        /\ x.request \in {"settled", "consumed"} <=> x.submission = "accepted"
        /\ x.request = "settled" /\ Nonterminal(x) => x.open

(* A pending checkpoint blocks its run: whatever the pauses, resumes and   *)
(* claims, the run waits until the checkpoint is answered or cancelled.    *)
CheckpointBlocks ==
    \A r \in Runs :
        Pending(run[r]) /\ run[r].kind = "checkpoint" =>
            /\ run[r].status = "waiting"
            /\ run[r].queue \in QueueActive
            /\ run[r].open
            /\ run[r].submission = "none"

(* Fencing: a claim token that verified nothing once, because its lease    *)
(* expired, was released or was taken over, never verifies again.          *)
ClaimLossIsFinal ==
    [][\A r \in Runs : \A g \in 1 .. run[r].gen :
           ~Holds(run[r], g) => ~Holds(run'[r], g)]_run

(* Once a run is terminal no later call with any claim changes its         *)
(* outcome, reopens its queue row, takes its lease or answers its request. *)
TerminalIsFinal ==
    [][\A r \in Runs : run[r].status \in RunTerminal =>
           /\ run'[r].status = run[r].status
           /\ run'[r].queue = run[r].queue
           /\ run'[r].gen = run[r].gen
           /\ run'[r].owner = run[r].owner
           /\ run'[r].request = run[r].request]_run

(* An accepted answer is never lost or reopened: it stays settled until    *)
(* its own attempt, executing under the live claim, consumes it.           *)
AnswerIsFinal ==
    [][\A r \in Runs : run[r].request = "settled" =>
           \/ run'[r].request = "settled"
           \/ /\ run'[r].request = "consumed"
              /\ run[r].status = "running" /\ run[r].open
              /\ Holds(run[r], run[r].gen)]_run
=============================================================================
