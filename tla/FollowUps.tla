----------------------------- MODULE FollowUps -----------------------------
(***************************************************************************)
(* The follow-ups of one run: prompts queued while it runs, delivered to   *)
(* its origin session one after the other once it has completed.  Message  *)
(* 0 is the terminal message of the run, message i the one of follow-up i. *)
(*                                                                         *)
(* SessionTurns has the connection and the reports in detail; here a       *)
(* report is one step, and what is uncertain is Pi's view: it shows what   *)
(* was current when it was sent.                                           *)
(***************************************************************************)
EXTENDS Integers, Sequences, FiniteSets

CONSTANTS None,
          MaxFollowUps,      \* bound: follow-ups accepted
          MaxPiLosses        \* bound: restarts of Pi

VARIABLES runState,    \* runs.status of the origin run
          other,       \* another run of the session: "none", "live" or "over"
          followUps,   \* workflow_follow_ups with the message and turn of each
          terminal,    \* the terminal message, its turn and how that ended
          piView,       \* the message of the view Pi has
          piSession,   \* Pi's branch and the turn it owns
          losses

followVars == <<runState, other, followUps, terminal, piView, piSession, losses>>

NoOwn == [msg |-> None, phase |-> "none", started |-> FALSE, stop |-> FALSE]

FollowUpsInit ==
    /\ runState = "running" /\ other = "none" /\ followUps = << >>
    /\ terminal = [msg |-> "none", turn |-> "none"]
    /\ piView = None
    /\ piSession = [branch |-> {}, own |-> NoOwn]
    /\ losses = 0

Items == DOMAIN followUps
\* order_number: the terminal message is the last one made.
OrderOf(m) == IF m = 0 THEN MaxFollowUps + 1 ELSE m
MessageOf(m) == IF m = 0 THEN terminal.msg ELSE followUps[m].msg
TurnOf(m)    == IF m = 0 THEN terminal.turn ELSE followUps[m].turn
TurnEnded(m) == TurnOf(m) \in {"completed", "error", "aborted", "lost"}
\* Only the terminal message of a cancelled run starts no turn; a turn of it
\* that did not complete stops the recovery.
Triggering(m) == m # 0 \/ runState # "cancelled"
RecoveryStopped == terminal.turn \in {"error", "aborted", "lost"} \/ runState = "cancelled"

SetMessage(m, s) ==
    IF m = 0 THEN terminal' = [terminal EXCEPT !.msg = s] /\ UNCHANGED followUps
    ELSE followUps' = [followUps EXCEPT ![m].msg = s] /\ UNCHANGED terminal
SetTurn(m, s) ==
    IF m = 0 THEN terminal' = [terminal EXCEPT !.turn = s] /\ UNCHANGED followUps
    ELSE followUps' = [followUps EXCEPT ![m].turn = s] /\ UNCHANGED terminal

-----------------------------------------------------------------------------
(* The message Pi must act on.                                             *)

\* Variant: an earlier follow-up counts as over once it was delivered.
DeliveredBefore(j) ==
    followUps[j].row \in {"removed", "cancelled"} \/ followUps[j].msg = "sent"

\* The earlier follow-ups that a follow-up waits for.
SettledBefore(j) ==
    followUps[j].row \in {"removed", "cancelled"} \/ TurnEnded(j)

\* isMessageEligible.  The terminal message and a follow-up also wait for the
\* other run that reserves the session.
EligibleMessage(m) ==
    /\ MessageOf(m) = "pending" /\ other # "live"
    /\ IF m = 0 THEN ~Triggering(0) \/ ~RecoveryStopped
       ELSE /\ followUps[m].row = "queued" /\ runState = "completed"
            /\ terminal.msg = "sent" /\ terminal.turn = "completed"
            /\ \A j \in 1..m - 1 : SettledBefore(j)

\* openWorkflowMessage: a sent message whose turn is still owed.
OwedMessage(m) ==
    /\ MessageOf(m) = "sent" /\ Triggering(m) /\ (m = 0 => ~RecoveryStopped)
    /\ TurnOf(m) \in {"none", "started"}

\* selectWorkflowMessageSummary.  The terminal message stays current for some
\* time after its turn; that view asks nothing of Pi.
CurrentMessage ==
    LET messages == {m \in {0} \cup Items : MessageOf(m) # "none"}
        open     == {m \in messages : TurnOf(m) = "started"}
        next     == {m \in messages : EligibleMessage(m)}
        owed     == {m \in messages : OwedMessage(m)}
        first(S) == CHOOSE m \in S : \A n \in S : OrderOf(m) <= OrderOf(n)
        last(S)  == CHOOSE m \in S : \A n \in S : OrderOf(n) <= OrderOf(m) IN
    IF open # {} THEN first(open)
    ELSE IF next # {} THEN first(next)
    ELSE IF owed # {} THEN last(owed)
    ELSE None

\* hasCancelledSource
SourceCancelled(m) == IF m = 0 THEN RecoveryStopped
                      ELSE followUps[m].row \in {"removed", "cancelled"}

-----------------------------------------------------------------------------
\* queueFollowUp: the row and its pending message.
QueueFollowUp ==
    /\ runState = "running" /\ Len(followUps) < MaxFollowUps
    /\ followUps' = Append(followUps, [row |-> "queued", msg |-> "pending", turn |-> "none"])
    /\ UNCHANGED <<runState, other, terminal, piView, piSession, losses>>

\* removeFollowUp: not once its message was delivered.
RemoveFollowUp(i) ==
    /\ followUps[i].row = "queued" /\ followUps[i].msg # "sent"
    /\ followUps' = [followUps EXCEPT ![i] = [@ EXCEPT !.row = "removed", !.msg = "cancelled"]]
    /\ UNCHANGED <<runState, other, terminal, piView, piSession, losses>>

\* The run ends.  transitionFollowUpsForRunState cancels what is queued unless
\* it completed; ensureTerminalWorkflowMessage adds the terminal message.
RunEndsFollowUps(how) ==
    /\ runState = "running"
    /\ runState' = how
    /\ terminal' = [terminal EXCEPT !.msg = "pending"]
    /\ followUps' = IF how = "completed" THEN followUps
                    ELSE [i \in Items |-> IF followUps[i].row # "queued" THEN followUps[i]
                                          ELSE [followUps[i] EXCEPT !.row = "cancelled",
                                                                    !.msg = "cancelled"]]
    /\ UNCHANGED <<other, piView, piSession, losses>>

\* Another run of the session is started, or ends.
OtherRun ==
    /\ runState # "running"
    /\ other' = CASE other = "none" -> "live" [] other = "live" -> "over"
                  [] other = "over" -> "over"
    /\ other' # other
    /\ UNCHANGED <<runState, followUps, terminal, piView, piSession, losses>>

\* A view reaches Pi (updateView): a turn whose source was cancelled stops.
ShowView ==
    /\ LET v == IF CurrentMessage = None THEN None
                ELSE [msg |-> CurrentMessage, status |-> MessageOf(CurrentMessage),
                      cancelled |-> SourceCancelled(CurrentMessage)]
       IN /\ piView # v
          /\ piView' = v
          /\ piSession' = [piSession EXCEPT !.own.stop =
                             @ \/ (v # None /\ piSession.own.msg = v.msg /\ v.cancelled)]
    /\ UNCHANGED <<runState, other, followUps, terminal, losses>>

PiOwn == piSession.own

\* synchronize sends the message its view shows as pending; Pi's turn starts.
SendMessage ==
    /\ PiOwn.msg = None /\ piView # None /\ piView.status = "pending"
    /\ piView.msg \notin piSession.branch
    /\ piSession' = [branch |-> piSession.branch \cup {piView.msg},
                     own |-> IF Triggering(piView.msg)
                             THEN [NoOwn EXCEPT !.msg = piView.msg, !.phase = "running"]
                             ELSE NoOwn]
    /\ UNCHANGED <<runState, other, followUps, terminal, piView, losses>>

\* reportWorkflowBranch (adoptBranch): an entry in the branch makes its
\* message sent, whatever happened to its source.
ReportEntry(m) ==
    /\ m \in piSession.branch
    /\ m = PiOwn.msg \/ (piView # None /\ m = piView.msg)
    /\ MessageOf(m) \in {"pending", "cancelled"}
    /\ SetMessage(m, "sent")
    /\ UNCHANGED <<runState, other, piView, piSession, losses>>

\* The report of an idle Pi without a turn of its own: open turns are lost.
ReportIdle(m) ==
    /\ PiOwn.msg = None /\ TurnOf(m) = "started"
    /\ SetTurn(m, "lost")
    /\ UNCHANGED <<runState, other, piView, piSession, losses>>

\* reportWorkflowTurn, started: only for the current message.
ReportTurnStart ==
    /\ PiOwn.phase \in {"running", "settled"} /\ ~PiOwn.started /\ ~PiOwn.stop
    /\ MessageOf(PiOwn.msg) = "sent"
    /\ IF CurrentMessage = PiOwn.msg /\ TurnOf(PiOwn.msg) = "none"
       THEN /\ SetTurn(PiOwn.msg, "started")
            /\ piSession' = [piSession EXCEPT !.own.started = TRUE]
       ELSE /\ piSession' = [piSession EXCEPT !.own.stop = TRUE]
            /\ UNCHANGED <<followUps, terminal>>
    /\ UNCHANGED <<runState, other, piView, losses>>

\* agent_settled; a turn that must stop is aborted.
SettleTurn ==
    /\ PiOwn.phase = "running"
    /\ piSession' = [piSession EXCEPT !.own.phase = "settled"]
    /\ UNCHANGED <<runState, other, followUps, terminal, piView, losses>>

\* reportWorkflowTurn, ended: of a turn the server does not hold it is absent.
ReportTurnEnd ==
    /\ PiOwn.phase = "settled" /\ (PiOwn.started \/ PiOwn.stop)
    /\ IF TurnOf(PiOwn.msg) = "started"
       THEN \E why \in {"completed", "error", "aborted"} :
              (PiOwn.stop => why = "aborted") /\ SetTurn(PiOwn.msg, why)
       ELSE UNCHANGED <<followUps, terminal>>
    /\ piSession' = [piSession EXCEPT !.own = NoOwn]
    /\ UNCHANGED <<runState, other, piView, losses>>

\* Pi is killed and comes back to the same session file; the entry of a
\* message that had just been sent may not be in it.
LosePi ==
    /\ losses < MaxPiLosses
    /\ losses' = losses + 1
    /\ \E kept \in {piSession.branch, piSession.branch \ {PiOwn.msg}} :
         piSession' = [branch |-> kept, own |-> NoOwn]
    /\ piView' = None
    /\ UNCHANGED <<runState, other, followUps, terminal>>

FollowUpsNext ==
    \/ QueueFollowUp \/ OtherRun
    \/ \E how \in {"completed", "failed", "cancelled"} : RunEndsFollowUps(how)
    \/ \E i \in Items : RemoveFollowUp(i)
    \/ \E m \in {0} \cup Items : ReportEntry(m) \/ ReportIdle(m)
    \/ ShowView \/ SendMessage \/ ReportTurnStart \/ SettleTurn \/ ReportTurnEnd \/ LosePi

-----------------------------------------------------------------------------
\* A follow-up's turn starts only after its run completed, the terminal turn
\* completed and every earlier follow-up is settled, removed or cancelled
\* (docs/2026-08-25-workflow-follow-ups.md:77), although Pi acts on views that
\* may be old and reports what its branch already holds.  No follow-up gets a
\* turn after a run that did not complete.
FollowUpsInOrder ==
    \A i \in Items : followUps[i].turn # "none" =>
        /\ runState = "completed" /\ terminal.turn = "completed"
        /\ \A j \in 1..i - 1 : followUps[j].row \in {"removed", "cancelled"} \/ TurnEnded(j)
=============================================================================
