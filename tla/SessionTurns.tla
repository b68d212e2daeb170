---------------------------- MODULE SessionTurns ----------------------------
(***************************************************************************)
(* One run that waits for the model of one Pi session, and the path of its *)
(* messages: rows of `workflow_messages` and `workflow_turns` in the       *)
(* database, the session coordinator entry in the server's memory, the     *)
(* WorkflowMessageCoordinator inside Pi, and Pi's own session.             *)
(*                                                                         *)
(* Pi reports two facts, over a connection that may be lost with a call in *)
(* flight: which message its branch holds, and that a model turn started   *)
(* or ended.  Between any two calls of `synchronize` the view changes, Pi  *)
(* starts or ends a turn, the user pauses, resumes, cancels or leaves the  *)
(* branch, the server restarts and Pi restarts.                            *)
(*                                                                         *)
(* The run has at most one agent request, and after its end one terminal   *)
(* message.  A message is its position in db.msgs, a turn the number Pi    *)
(* gave it.                                                                *)
(***************************************************************************)
EXTENDS Naturals, Sequences, FiniteSets

CONSTANTS MaxReminders,    \* MAX_SUBMISSION_REMINDERS
          MaxTurns,        \* bound: turns Pi may own
          MaxFaults,       \* bound: lost connections, restarts, branch moves
          FaultKinds,      \* which of them happen
          MaxControls,     \* bound: pauses, cancels, time limits
          ControlKinds,    \* which of them happen
          MaxHappenings    \* bound: delivered prompts, faults and controls together

VARIABLES db,              \* durable rows, and the anchors of the clocks
          co,              \* sessionCoordinators.get(sessionId)
          link,            \* the connection, as the two sides know it
          view,            \* the last session view Pi received
          wmc,             \* fields of the WorkflowMessageCoordinator
          sync,            \* the synchronize call in progress
          pi,              \* the Pi session
          spent            \* faults and controls that happened

vars == <<db, co, link, view, wmc, sync, pi, spent>>

Turns == 1 .. MaxTurns
NoId  == 0

-----------------------------------------------------------------------------
(* Rows.  An operator on db returns the rows after a transaction; err says *)
(* that it threw and rolled back.                                          *)

Over(D)    == D.run \in {"done", "failed", "cancelled"}
Pending(D) == D.req = "pending"
Stopped(D) == D.stop \/ D.run = "cancelled"

Triggers(D, m)  == D.msgs[m].kind = "step" \/ D.msgs[m].trigger
OpenTurns(D)    == {t \in Turns : D.turns[t].st = "started"}
TurnsOf(D, m)   == {t \in Turns : D.turns[t].st # "none" /\ D.turns[t].msg = m}
Latest(S)       == IF S = {} THEN NoId ELSE CHOOSE x \in S : \A y \in S : y <= x
First(S)        == IF S = {} THEN NoId ELSE CHOOSE x \in S : \A y \in S : x <= y
Steps(D)        == {m \in DOMAIN D.msgs : D.msgs[m].kind = "step"}
Terminal(D)     == First({m \in DOMAIN D.msgs : D.msgs[m].kind = "terminal"})
OpenStepTurn(D) == \E t \in OpenTurns(D) : D.turns[t].msg \in Steps(D)

Row(kind, why, rev, turn, trigger) ==
    [kind |-> kind, why |-> why, rev |-> rev, turn |-> turn,
     trigger |-> trigger, status |-> "pending", entry |-> FALSE]

\* The row that ensureInteractionMessage names by revision, reason and turn.
Prompt(D, why, turn) ==
    First({m \in Steps(D) : D.msgs[m].why = why /\ D.msgs[m].rev = D.rev
                            /\ D.msgs[m].turn = turn})

EnsurePrompt(D, why, turn) ==
    IF Prompt(D, why, turn) # NoId THEN D
    ELSE [D EXCEPT !.msgs = Append(@, Row("step", why, D.rev, turn, TRUE))]

CancelPending(D) ==
    [D EXCEPT !.msgs = [m \in DOMAIN @ |->
        IF @[m].kind = "step" /\ @[m].status = "pending"
        THEN [@[m] EXCEPT !.status = "cancelled"] ELSE @[m]]]

\* reopenMessage
Reopen(D, m) ==
    IF D.msgs[m].status = "pending" THEN D
    ELSE [D EXCEPT !.msgs[m].status = "pending", !.msgs[m].entry = FALSE]

\* ensureTerminalWorkflowMessage
EnsureTerminal(D) ==
    IF ~Over(D) \/ Terminal(D) # NoId THEN D
    ELSE [D EXCEPT !.msgs = Append(@, Row("terminal", D.run, D.rev, NoId,
                                          D.run # "cancelled"))]

\* AttemptTime: `on` is an interval row without an end, `anchor` its entry in
\* the memory of the process that opened it.
StartClock(D) ==
    IF ~D.on THEN [D EXCEPT !.on = TRUE, !.anchor = TRUE]
    ELSE IF D.anchor THEN D ELSE [D EXCEPT !.err = TRUE]

StopClock(D) ==
    IF ~D.on THEN D
    ELSE IF D.anchor THEN [D EXCEPT !.on = FALSE] ELSE [D EXCEPT !.err = TRUE]

\* closeRunTime needs no anchor.
CloseClock(D) == [D EXCEPT !.on = FALSE]

\* pauseParkedWorkflowRun
CanPauseParked(D) == D.run = "waiting" /\ Pending(D)
\* Variant: the pause leaves the attempt's interval open.
PauseParkedRunning(D) == [D EXCEPT !.paused = TRUE]

PauseParked(D) ==
    IF D.paused THEN D ELSE CloseClock([D EXCEPT !.paused = TRUE])

\* failWorkflowRun, cancelWorkflowRun and the end of a supervised timeout.
EndRun(D, how) ==
    EnsureTerminal(CloseClock(CancelPending(
        [D EXCEPT !.run = how, !.paused = FALSE,
                  !.req = IF @ = "pending" THEN "cancelled" ELSE @])))

-----------------------------------------------------------------------------
(* The message Pi must act on (selectWorkflowMessageSummary).              *)

Eligible(D, m) ==
    /\ D.msgs[m].status = "pending"
    /\ IF D.msgs[m].kind = "step" THEN Pending(D) /\ ~D.paused
       ELSE Over(D) /\ (D.msgs[m].trigger => ~Stopped(D))

NeedsPiWork(D, m) ==
    /\ D.msgs[m].status = "sent"
    /\ IF D.msgs[m].kind = "step" THEN Pending(D) /\ ~D.paused
       ELSE /\ D.msgs[m].trigger /\ ~Stopped(D)
            /\ LET t == Latest(TurnsOf(D, m))
               IN t = NoId \/ D.turns[t].st = "started"

CancelledStep(D, m) ==
    /\ m \in Steps(D) /\ D.msgs[m].status = "sent"
    /\ D.req = "cancelled" /\ TurnsOf(D, m) = {}

Current(D) ==
    LET open   == {D.turns[t].msg : t \in OpenTurns(D)}
        next   == {m \in DOMAIN D.msgs : Eligible(D, m)}
        owed   == {m \in DOMAIN D.msgs : NeedsPiWork(D, m)}
        undone == {m \in DOMAIN D.msgs : CancelledStep(D, m)}
    IN IF open # {} THEN First(open)
       ELSE IF next # {} THEN First(next)
       ELSE IF owed # {} THEN Latest(owed)
       ELSE IF undone # {} THEN Latest(undone)
       ELSE IF Over(D) THEN Terminal(D) ELSE NoId

DeliveryCancelled(D, m) ==
    IF D.msgs[m].kind = "step" THEN D.req = "cancelled"
    ELSE D.msgs[m].trigger /\ Stopped(D)

\* The one view of the rows.  (A singleton, so that TLC computes it once.)
SessionViews(D, c) ==
    {[epoch |-> c.epoch, required |-> ~c.reported, msg |-> m,
      status |-> IF m = NoId THEN "none" ELSE D.msgs[m].status,
      triggers |-> m # NoId /\ Triggers(D, m),
      cancelled |-> m # NoId /\ DeliveryCancelled(D, m),
      open |-> First(OpenTurns(D))] : m \in {Current(D)}}

NoView == [epoch |-> 0, required |-> FALSE, msg |-> NoId, status |-> "none",
           triggers |-> FALSE, cancelled |-> FALSE, open |-> NoId]

-----------------------------------------------------------------------------
(* What the server does with a report.                                     *)

\* applyWorkflowTurnEnd
EndTurn(D, t, why) ==
    LET m == D.turns[t].msg
        D1 == [D EXCEPT !.turns[t].st = why]
        D2 == [D1 EXCEPT !.watch = FALSE,
                         !.stop = @ \/ (why # "completed" /\ ~Stopped(D))]
        D3 == StopClock(D1)
    IN IF D.turns[t].st # "started"
       THEN IF D.turns[t].st = why THEN D ELSE [D EXCEPT !.err = TRUE]
       ELSE IF m \notin Steps(D) THEN D2
       ELSE IF ~Pending(D) \/ why # "aborted" THEN D3
       ELSE IF CanPauseParked(D3) THEN CancelPending(PauseParked(D3))
       ELSE [D EXCEPT !.busy = TRUE]

\* markSessionModelTurnsInactive and recovery.suspendSession
Suspend(D) ==
    IF OpenStepTurn(D) /\ Pending(D)
    THEN [StopClock(D) EXCEPT !.attempt = "interrupted", !.watch = FALSE]
    ELSE [D EXCEPT !.watch = FALSE]

\* recovery.begin for a turn of the terminal message
Watch(D) == [D EXCEPT !.watch = \E t \in OpenTurns(D) :
                                    D.turns[t].msg = Terminal(D) /\ ~D.stop]

\* resumeSessionModelTurns and recovery.resumeSession
ResumeTimers(D) ==
    Watch(IF OpenStepTurn(D) /\ Pending(D) /\ ~D.paused
             /\ D.attempt = "interrupted"
          THEN [StartClock(D) EXCEPT !.attempt = "waiting"] ELSE D)

\* adoptBranch
Adopt(D, r) ==
    IF r.entry /\ D.msgs[r.msg].status # "sent"
    THEN [D EXCEPT !.msgs[r.msg].status = "sent", !.msgs[r.msg].entry = TRUE]
    ELSE D

\* The part of reportWorkflowBranch for an idle Pi: open turns are lost, and
\* a prompt that left the branch is shown again.
LoseTurn(D) ==
    LET t == First(OpenTurns(D)) IN IF t = NoId THEN D ELSE EndTurn(D, t, "lost")

LeftBranch(D, r) ==
    IF r.msg = NoId THEN \E m \in Steps(D) : D.msgs[m].status = "sent"
    ELSE r.msg \in Steps(D) /\ D.msgs[r.msg].status = "sent" /\ ~r.entry

ShowAgain(D, r) ==
    IF ~Pending(D) \/ D.paused \/ ~LeftBranch(D, r) THEN D
    ELSE LET D1 == EnsurePrompt(CancelPending(D), "resumed", NoId)
         IN Reopen(D1, Prompt(D1, "resumed", NoId))

ReportBranch(D, c, r) ==
    LET D1 == IF c.needs THEN ResumeTimers(D) ELSE D
        D2 == Adopt(D1, r)
        D3 == IF r.idle /\ ~r.pend THEN ShowAgain(LoseTurn(D2), r) ELSE D2
    IN D3

\* reportWorkflowTurn: the rows, and the ownership it answers.
ReportEnd(D, r) ==
    LET t == r.turn
    IN IF D.turns[t].st = "none" THEN [D |-> D, own |-> "absent"]
       ELSE IF D.turns[t].st # "lost" THEN [D |-> EndTurn(D, t, r.end), own |-> "settled"]
       ELSE IF r.end = "aborted" /\ r.msg \in Steps(D) /\ Pending(D)
            THEN [D |-> CancelPending(IF CanPauseParked(D) THEN PauseParked(D) ELSE D),
                  own |-> "settled"]
            ELSE [D |-> D, own |-> "settled"]

\* beginInteractionModelTurn, cancelPendingForSource and startTurn
StartTurn(D, r) ==
    LET D1 == [D EXCEPT !.turns[r.turn] = [msg |-> r.msg, st |-> "started"]]
        D2 == IF r.msg \in Steps(D) THEN CancelPending(StartClock(D1)) ELSE Watch(D1)
    IN IF \/ r.msg \in Steps(D) /\ (~Pending(D) \/ D.paused)
          \/ D.msgs[r.msg].status # "sent"
          \/ OpenTurns(D) # {}
       THEN [D EXCEPT !.err = TRUE]
       ELSE D2

ReportStart(D, r) ==
    IF D.turns[r.turn].st # "none"
    THEN [D |-> D, own |-> IF D.turns[r.turn].st = "started"
                           THEN "active" ELSE "settled"]
    ELSE IF \/ D.paused \/ Current(D) # r.msg
            \/ r.msg \in Steps(D) /\ Over(D)
         THEN [D |-> D, own |-> "absent"]
    ELSE [D |-> StartTurn(D, r), own |-> "active"]

-----------------------------------------------------------------------------
NoTurn == [id |-> NoId, msg |-> NoId, phase |-> "none", started |-> FALSE,
           entered |-> FALSE, stop |-> FALSE, aborted |-> FALSE, end |-> "none"]
NoCall == [kind |-> "none", msg |-> NoId, entry |-> FALSE, idle |-> FALSE,
           pend |-> FALSE, turn |-> NoId, end |-> "none", epoch |-> 0, owned |-> FALSE]
NoSync == [at |-> "idle", view |-> NoView, call |-> NoCall, reply |-> "none"]
NoCoordinator == [epoch |-> 0, reported |-> FALSE, active |-> FALSE, needs |-> FALSE]

\* The run hands its request over, or has none and works towards its end.
Init ==
    /\ \E asks \in BOOLEAN :
          db = [run |-> IF asks THEN "handoff" ELSE "running",
                req |-> IF asks THEN "pending" ELSE "settled",
                msgs |-> IF asks THEN <<Row("step", "initial", 0, NoId, TRUE)>> ELSE <<>>,
                turns |-> [t \in Turns |-> [msg |-> NoId, st |-> "none"]],
                paused |-> FALSE, rev |-> 0, on |-> FALSE, anchor |-> FALSE,
                attempt |-> "waiting", stop |-> FALSE, watch |-> FALSE,
                err |-> FALSE, busy |-> FALSE]
    /\ co = NoCoordinator
    /\ link = "down"
    /\ view = NoView
    /\ wmc = [turn |-> NoTurn, next |-> 1, queued |-> {}, last |-> 0, fenced |-> FALSE]
    /\ sync = NoSync
    /\ pi = [branch |-> {}, log |-> {}, busy |-> "idle", flight |-> NoId, input |-> NoId]
    /\ spent = [faults |-> 0, controls |-> 0, epochs |-> 0]

-----------------------------------------------------------------------------
(* Connection.                                                             *)

\* view.session.watch with coordinator: true.  The server may still hold the
\* entry of the connection that Pi already gave up.
Connect ==
    /\ link \in {"down", "stale"}
    /\ link' = "up"
    /\ db' = IF co.epoch # 0 THEN Suspend(db) ELSE db
    /\ spent' = [spent EXCEPT !.epochs = @ + 1]
    /\ co' = [epoch |-> spent.epochs + 1, reported |-> FALSE, active |-> FALSE, needs |-> TRUE]
    /\ UNCHANGED <<view, wmc, sync, pi>>

\* detachSessionCoordinators, on the close of the socket
Detach ==
    /\ link = "stale"
    /\ link' = "down"
    /\ db' = Suspend(db)
    /\ co' = NoCoordinator
    /\ UNCHANGED <<view, wmc, sync, pi, spent>>

\* updateView: a snapshot of the server's state arrives.
Seen(w, v) ==
    [w EXCEPT
        !.fenced = FALSE,
        !.turn.stop = @ \/ (w.turn.id # NoId /\ v.cancelled /\ v.msg = w.turn.msg),
        !.queued = {m \in @ : m = v.msg /\ v.status \notin {"sent", "cancelled"}}]

Publish ==
    /\ link = "up"
    /\ \E v \in SessionViews(db, co) :
          /\ view # v \/ wmc.fenced
          /\ view' = v
          /\ wmc' = Seen(wmc, v)
    /\ UNCHANGED <<db, co, link, sync, pi, spent>>

Happened  == (wmc.next - 1) + spent.faults + spent.controls
MoreComes == Happened < MaxHappenings

Spend(kind) ==
    /\ kind \in FaultKinds /\ spent.faults < MaxFaults /\ MoreComes
    /\ spent' = [spent EXCEPT !.faults = @ + 1]

Served(r) ==
    IF r.epoch # co.epoch \/ (r.kind # "branch" /\ ~co.reported)
    THEN [D |-> db, co |-> co, reply |-> "error"]
    ELSE IF r.kind = "branch"
    THEN [D  |-> ReportBranch(db, co, r), reply |-> "ok",
          co |-> [co EXCEPT !.reported = TRUE, !.active = ~r.idle, !.needs = FALSE]]
    ELSE LET x == IF r.kind = "started" THEN ReportStart(db, r) ELSE ReportEnd(db, r)
         IN [D |-> x.D, co |-> [co EXCEPT !.active = x.own = "active"], reply |-> x.own]

Asking == sync.call.kind # "none" /\ sync.reply = "none"

\* handleClientRequest runs the report in one transaction and publishes the
\* views it changed: their frame is on the socket before the answer.
Serve ==
    /\ Asking /\ link = "up"
    /\ \E s \in {Served(sync.call)} :
          \/ /\ s.reply = "error" \/ s.D.err \/ s.D.busy
             /\ sync' = [sync EXCEPT !.reply = "error"]
             /\ UNCHANGED <<db, co, view, wmc>>
          \/ /\ s.reply # "error" /\ ~s.D.err /\ ~s.D.busy
             /\ sync' = [sync EXCEPT !.reply = s.reply]
             /\ \E D \in {EnsureTerminal(s.D)} : \E v \in SessionViews(D, s.co) :
                   db' = D /\ co' = s.co /\ view' = v /\ wmc' = Seen(wmc, v)
    /\ UNCHANGED <<link, pi, spent>>

\* What Serve is to Pi: an answer.  Serve can happen whenever this can.
Answered ==
    /\ Asking /\ link = "up"
    /\ \E own \in {"ok", "active", "settled", "absent", "error"} :
          sync' = [sync EXCEPT !.reply = own]

\* The connection closes.  A report in flight was executed or not; its answer
\* is lost, and synchronize throws.
LoseConnection ==
    /\ link = "up" /\ Spend("connection")
    /\ link' = "stale"
    /\ \/ UNCHANGED <<db, co>>
       \/ /\ Asking
          /\ \E s \in {Served(sync.call)} :
                /\ ~s.D.err /\ ~s.D.busy
                /\ db' = EnsureTerminal(s.D) /\ co' = s.co
    /\ sync' = NoSync
    /\ wmc' = [wmc EXCEPT !.fenced = TRUE]
    /\ UNCHANGED <<view, pi>>

\* The server dies and starts again: recoverInactiveModelTurns.
RestartServer ==
    /\ Spend("server")
    /\ link' = "down" /\ co' = NoCoordinator
    /\ db' = [CloseClock(db) EXCEPT !.anchor = FALSE, !.watch = FALSE,
                 !.attempt = IF OpenStepTurn(db) /\ Pending(db) THEN "interrupted" ELSE @]
    /\ sync' = NoSync
    /\ wmc' = [wmc EXCEPT !.fenced = TRUE]
    /\ UNCHANGED <<view, pi>>

-----------------------------------------------------------------------------
(* synchronize: what it does after one of its awaits, up to the next call. *)

Idle(p) == p.busy = "idle"

Call(w, v, kind, m) ==
    [NoCall EXCEPT !.kind = kind, !.msg = m, !.epoch = v.epoch,
                   !.entry = kind = "branch" /\ m \in pi.branch,
                   !.idle = Idle(pi), !.pend = FALSE,
                   !.turn = IF kind = "branch" THEN NoId ELSE w.turn.id,
                   !.end = IF kind = "ended" THEN w.turn.end ELSE "none"]

\* flushTurn: the start is reported once the server is known to hold Pi's
\* entry; the end after the start, or alone when the turn was stopped.
MustStart(w) == ~w.turn.started /\ ~w.turn.stop
\* Variant: only the message of the view is confirmed.
EntryKnownByView(w, v) == v.msg = w.turn.msg /\ v.status = "sent"

EntryKnown(w, v) == IF v.msg = w.turn.msg THEN v.status = "sent" ELSE w.turn.entered
CanFlush(w, v) ==
    /\ w.turn.phase \in {"running", "settled"} /\ w.last = v.epoch
    /\ IF MustStart(w) THEN EntryKnown(w, v) ELSE w.turn.phase = "settled"
Flush(w, v) == Call(w, v, IF MustStart(w) THEN "started" ELSE "ended", w.turn.msg)

UnreportedDelivery(w, v) ==
    /\ w.turn.id # NoId /\ ~w.turn.started /\ ~w.turn.entered
    /\ v.msg # w.turn.msg /\ w.turn.msg \in pi.branch

MustReportBranch(w, v) ==
    \/ v.required \/ w.last # v.epoch
    \/ v.msg # NoId /\ v.status # "sent" /\ v.msg \in pi.branch

CanDeliver(w, v) ==
    /\ w.turn.id = NoId /\ Idle(pi)
    /\ v.msg # NoId /\ v.status = "pending" /\ v.msg \notin w.queued
    /\ v.triggers => w.next <= MaxTurns /\ MoreComes

At(at, v, call) == [at |-> at, view |-> v, call |-> call, reply |-> "none"]

\* The first thing left to do after a stage: flush an ended turn, report the
\* branch, flush, deliver.
Onward(stage, w, v) ==
    IF stage < 1 /\ w.turn.phase = "settled" /\ CanFlush(w, v)
    THEN At("settle", v, Flush(w, v))
    ELSE IF stage < 2 /\ MustReportBranch(w, v) THEN At("branch", v, Call(w, v, "branch", v.msg))
    ELSE IF stage < 3 /\ CanFlush(w, v) THEN At("flush", v, Flush(w, v))
    ELSE IF stage < 4 /\ CanDeliver(w, v) THEN At("deliver", v, NoCall)
    ELSE NoSync

StageOf(at) == CASE at = "owned" -> 0 [] at = "settle" -> 1 [] at = "branch" -> 2
                 [] at = "flush" -> 3 [] at \in {"present", "sent", "final"} -> 4

\* A turn that Pi lost track of and the view shows as started.
Adopted(w, v) ==
    IF w.turn.id = NoId /\ ~Idle(pi) /\ v.open # NoId /\ v.triggers /\ pi.input = v.msg
    THEN [w EXCEPT !.turn = [NoTurn EXCEPT !.id = v.open, !.msg = v.msg,
                                 !.phase = "running", !.started = TRUE, !.stop = v.cancelled]]
    ELSE w

Begin ==
    /\ sync.at = "idle" /\ view.epoch # 0 /\ ~wmc.fenced
    /\ \E w \in {Adopted(wmc, view)} :
          /\ wmc' = w
          /\ sync' = IF UnreportedDelivery(w, view)
                     THEN At("owned", view, [Call(w, view, "branch", w.turn.msg)
                                             EXCEPT !.owned = TRUE])
                     ELSE Onward(0, w, view)
          /\ w # wmc \/ sync' # NoSync
    /\ UNCHANGED <<db, co, link, view, pi, spent>>

\* The answer to reportBranch.
BranchAnswered ==
    /\ sync.call.kind = "branch" /\ sync.reply \in {"ok", "error"}
    /\ LET c == sync.call
           ok == sync.reply = "ok"
           adopted == ok /\ ~c.owned /\ c.entry
           v == IF adopted THEN [sync.view EXCEPT !.status = "sent"] ELSE sync.view
           w == IF ~ok THEN wmc
                ELSE IF c.owned
                THEN [wmc EXCEPT !.turn.entered = @ \/ (c.entry /\ wmc.turn.msg = c.msg)]
                ELSE [wmc EXCEPT !.last = v.epoch,
                                 !.queued = IF c.entry THEN @ \ {c.msg} ELSE @]
       IN /\ wmc' = w
          /\ view' = IF view = sync.view THEN v ELSE view
          /\ sync' = IF ~ok \/ sync.at = "present" THEN NoSync
                     ELSE IF sync.at = "sent" /\ CanFlush(w, v)
                     THEN At("final", v, Flush(w, v))
                     ELSE Onward(StageOf(sync.at), w, v)
    /\ UNCHANGED <<db, co, link, pi, spent>>

\* The answer to reportTurn.  A start that the server does not own stops the
\* turn; a start or an end that arrives after Pi settled keeps that result.
TurnAnswered ==
    /\ sync.call.kind \in {"started", "ended"} /\ sync.reply # "none"
    /\ LET own     == sync.reply
           known   == wmc.turn.id = sync.call.turn
           settled == wmc.turn.phase = "settled"
           owned   == own = "active" \/ (own = "settled" /\ settled)
           started == [wmc EXCEPT !.turn.started = TRUE]
           refused == [wmc EXCEPT !.turn.stop = TRUE]
           ended   == [wmc EXCEPT !.turn = NoTurn]
           shut(v) == IF v.open = sync.call.turn THEN [v EXCEPT !.open = NoId] ELSE v
           stage   == StageOf(sync.at)
       IN IF own = "error"
          THEN sync' = NoSync /\ UNCHANGED <<wmc, view>>
          ELSE IF sync.call.kind = "ended"
          THEN /\ wmc' = ended /\ view' = shut(view)
               /\ sync' = Onward(stage, ended, shut(sync.view))
          ELSE IF ~known
          THEN sync' = Onward(stage, wmc, sync.view) /\ UNCHANGED <<wmc, view>>
          ELSE IF ~owned
          THEN wmc' = refused /\ sync' = Onward(stage, refused, sync.view) /\ UNCHANGED view
          ELSE /\ wmc' = started /\ UNCHANGED view
               /\ sync' = IF settled
                          THEN At(sync.at, sync.view, Flush(started, sync.view))
                          ELSE Onward(stage, started, sync.view)
    /\ UNCHANGED <<db, co, link, pi, spent>>

\* The final checks and pi.sendMessage, without an await between them.
Deliver ==
    /\ sync.at = "deliver"
    /\ LET v == sync.view
           m == v.msg
           here == m \in pi.branch
           queued == [wmc EXCEPT !.queued = @ \cup {m}]
           owning == IF ~v.triggers THEN queued
                     ELSE [queued EXCEPT !.next = @ + 1,
                               !.turn = [NoTurn EXCEPT !.id = wmc.next, !.msg = m,
                                                       !.phase = "delivering"]]
       IN IF ~CanDeliver(wmc, v)
          THEN sync' = NoSync /\ UNCHANGED <<wmc, pi>>
          ELSE IF here
          THEN /\ wmc' = queued /\ UNCHANGED pi
               /\ sync' = At("present", v, Call(wmc, v, "branch", m))
          ELSE IF view # v
          THEN sync' = NoSync /\ UNCHANGED <<wmc, pi>>
          ELSE /\ wmc' = owning
               /\ pi' = [pi EXCEPT !.flight = m]
               /\ sync' = At("sent", v, Call(owning, v, "branch", m))
    /\ UNCHANGED <<db, co, link, view, spent>>

\* abortCancelledTurn, also while synchronize waits for an answer
Abort ==
    /\ wmc.turn.phase = "running" /\ wmc.turn.stop /\ ~wmc.turn.aborted
    /\ view.epoch # 0 /\ ~Idle(pi)
    /\ wmc' = [wmc EXCEPT !.turn.aborted = TRUE]
    /\ UNCHANGED <<db, co, link, view, sync, pi, spent>>

-----------------------------------------------------------------------------
(* Pi.                                                                     *)

\* The delivered message becomes an entry of the branch; one that triggers a
\* turn starts the agent (agent_start calls startTurn).
PiAppend ==
    /\ pi.flight # NoId /\ Idle(pi)
    /\ pi' = [pi EXCEPT !.flight = NoId, !.input = pi.flight,
                        !.branch = @ \cup {pi.flight}, !.log = @ \cup {pi.flight},
                        !.busy = IF wmc.turn.phase = "delivering" THEN "model" ELSE @]
    /\ wmc' = [wmc EXCEPT !.turn.phase = IF @ = "delivering" THEN "running" ELSE @]
    /\ UNCHANGED <<db, co, link, view, sync, spent>>

\* Ordinary chat owns no workflow turn.
Chat ==
    /\ Idle(pi) /\ pi.flight = NoId
    /\ pi' = [pi EXCEPT !.busy = "model", !.input = NoId]
    /\ UNCHANGED <<db, co, link, view, wmc, sync, spent>>

\* agent_settled
PiSettle ==
    /\ ~Idle(pi)
    /\ pi' = [pi EXCEPT !.busy = "idle"]
    /\ \E why \in {"completed", "error", "aborted"} :
          /\ wmc.turn.aborted => why = "aborted"
          /\ wmc.turn.phase # "running" => why = "completed"
          /\ wmc' = IF wmc.turn.phase = "running"
                    THEN [wmc EXCEPT !.turn.phase = "settled", !.turn.end = why]
                    ELSE wmc
    /\ UNCHANGED <<db, co, link, view, sync, spent>>

\* session_tree
MoveBranch ==
    /\ Idle(pi) /\ pi.flight = NoId /\ Spend("branch")
    /\ \E b \in SUBSET pi.log :
          /\ b # pi.branch
          /\ pi' = [pi EXCEPT !.branch = b]
    /\ wmc' = [wmc EXCEPT !.last = 0]
    /\ UNCHANGED <<db, co, link, view, sync>>

\* session_shutdown and a new start on the same branch
RestartPi ==
    /\ Spend("pi")
    /\ wmc' = [turn |-> NoTurn, next |-> wmc.next, queued |-> {}, last |-> 0, fenced |-> FALSE]
    /\ view' = NoView /\ sync' = NoSync
    /\ pi' = [pi EXCEPT !.busy = "idle", !.flight = NoId]
    /\ link' = IF link = "up" THEN "stale" ELSE link
    /\ UNCHANGED <<db, co>>

-----------------------------------------------------------------------------
(* The run.                                                                *)

Control(kind) ==
    /\ kind \in ControlKinds /\ spent.controls < MaxControls /\ MoreComes
    /\ spent' = [spent EXCEPT !.controls = @ + 1]

Server == UNCHANGED <<co, link, view, wmc, sync, pi>>

\* The runner hands the run over and exits.
Park ==
    /\ db.run = "handoff"
    /\ db' = [db EXCEPT !.run = IF Pending(db) THEN "waiting" ELSE "running"]
    /\ Server /\ UNCHANGED spent

\* The model of the running turn submits a result that is accepted.
Submit ==
    /\ db.run \in {"handoff", "waiting"} /\ Pending(db) /\ ~db.paused
    /\ link = "up" /\ co.reported /\ wmc.turn.phase = "running"
    /\ wmc.turn.msg \in Steps(db)
    /\ db' = CancelPending([db EXCEPT !.req = "settled",
                                      !.run = IF @ = "waiting" THEN "running" ELSE @])
    /\ Server /\ UNCHANGED spent

\* A runner takes the result and the run ends.
Complete ==
    /\ db.run = "running"
    /\ db' = EnsureTerminal(CloseClock([db EXCEPT !.run = "done"]))
    /\ Server /\ UNCHANGED spent

\* reconcileSubmissionReminders, on the server's poll: a turn of the last
\* prompt that ended and was not lost or aborted.
UnproductiveEnd(D, ends) ==
    LET m == Latest(Steps(D))
        t == Latest(TurnsOf(D, m))
    IN IF D.msgs[m].status = "sent" /\ t # NoId /\ D.turns[t].st \in ends
       THEN t ELSE NoId

\* Variant: a turn that the server lost with its Pi counts.
UnproductiveOrLost(D) == UnproductiveEnd(D, {"completed", "error", "lost"})

Unproductive(D) == UnproductiveEnd(D, {"completed", "error"})

Reminders(D) == {m \in Steps(D) : D.msgs[m].why = "reminder"}

Remind ==
    /\ co.epoch # 0 /\ Pending(db) /\ ~db.paused
    /\ OpenTurns(db) = {} /\ Unproductive(db) # NoId
    /\ IF Cardinality(Reminders(db)) >= MaxReminders
       THEN db.run = "waiting" /\ db' = EndRun(db, "failed")
       ELSE db' = EnsurePrompt(db, "reminder", Unproductive(db))
    /\ Server /\ UNCHANGED spent

\* run.pause of a parked run
Pause ==
    /\ CanPauseParked(db) /\ ~db.paused /\ Control("pause")
    /\ db' = PauseParked(db)
    /\ Server

\* run.resume: resumePausedInteraction, resumeInteractionModelTurn,
\* resumePendingInteraction
Resume ==
    /\ db.run = "waiting" /\ Pending(db) /\ db.paused
    /\ LET D1 == [db EXCEPT !.paused = FALSE]
           D2 == IF co.reported /\ co.active /\ OpenStepTurn(db)
                 THEN [StartClock(D1) EXCEPT !.attempt = "waiting"] ELSE D1
       IN db' = EnsurePrompt([CancelPending(D2) EXCEPT !.rev = @ + 1], "resumed", NoId)
    /\ Server /\ UNCHANGED spent

\* run.cancel of a run that has not ended, and of the recovery of one that has
Cancel ==
    /\ Control("cancel")
    /\ IF Over(db) THEN Terminal(db) # NoId /\ db' = [db EXCEPT !.stop = TRUE]
       ELSE db' = EndRun(db, "cancelled")
    /\ Server

\* The active time of the attempt, or of the recovery turn, is used up.
Expire ==
    /\ Control("expire")
    /\ \/ /\ db.on /\ Pending(db) /\ ~db.paused /\ db.run = "waiting"
          /\ db' = EndRun(db, "failed")
       \/ /\ db.watch /\ ~Stopped(db)
          /\ db' = [db EXCEPT !.stop = TRUE]
    /\ Server

-----------------------------------------------------------------------------
Next ==
    \/ Connect \/ Detach \/ Publish \/ Serve \/ LoseConnection \/ RestartServer
    \/ Begin \/ BranchAnswered \/ TurnAnswered \/ Deliver \/ Abort
    \/ PiAppend \/ Chat \/ PiSettle \/ MoveBranch \/ RestartPi
    \/ Park \/ Submit \/ Complete \/ Remind \/ Pause \/ Resume \/ Cancel \/ Expire

Synchronize == Begin \/ BranchAnswered \/ TurnAnswered \/ Deliver
Agent       == PiAppend \/ PiSettle
Runner      == Park \/ Complete

-----------------------------------------------------------------------------
(* Properties.                                                             *)

\* No report that Pi makes contradicts the rows (startTurn, endTurn and the
\* timers throw nothing), however late it comes, however often it is repeated
\* and whatever was decided meanwhile, but one: the user left the branch that
\* holds the prompt of a turn whose start Pi still has to report, and the prompt
\* was reopened to be shown again.
ReportsFit ==
    LET c == sync.call IN
    Asking /\ Served(c).D.err =>
        /\ c.kind = "started" /\ c.turn = wmc.turn.id
        /\ db.msgs[c.msg].why = "resumed" /\ db.msgs[c.msg].status = "pending"

\* The active time of the attempt runs exactly while Pi's model works for the
\* request: an interval is open only for an open turn of a connected Pi, with
\* its start in memory, and a connected busy Pi with an open turn is measured
\* (beginInteractionModelTurn to closeAttemptTime, across pauses, lost
\* connections and restarts).  An interval is never closed, or opened again,
\* without its start (AttemptTime throws nothing), and the reports that open and
\* close them fit the rows.
ClockMatchesTurn ==
    /\ db.on /\ Pending(db) =>
           OpenStepTurn(db) /\ ~db.paused /\ db.anchor /\ co.epoch # 0
    /\ co.reported /\ co.active /\ Pending(db) /\ ~db.paused /\ OpenStepTurn(db)
           => db.on
    /\ ~db.err /\ ReportsFit

\* reconcileSubmissionReminders fails a run only after the model really ended
\* more turns than the reminders it is allowed, each of them on a prompt of
\* its own.
FailsAfterReminders ==
    [][ Remind /\ Over(db') =>
          Cardinality({t \in Turns : db.turns[t].st \in {"completed", "error"}})
             > MaxReminders ]_vars

LeftBehind == wmc.turn.phase # "delivering" /\ wmc.turn.msg \notin pi.branch

\* The comment in flushTurn: "the turn can never wait for a confirmation the
\* view will not carry".  While Pi owns a turn it delivers nothing else, so it
\* gives every turn up again (and is without one before it owns the next),
\* through lost answers, new epochs, pauses and cancellations, unless the user
\* leaves the branch that holds its message.
TurnsAreReleased == []<>(wmc.turn.id = NoId \/ LeftBehind)
=============================================================================
