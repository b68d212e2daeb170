------------------------------ MODULE Channels ------------------------------
(***************************************************************************)
(* Human decisions shown in Telegram: the server that tells its channel    *)
(* adapter what to send (server/server.ts, server/channel-effects.ts), the *)
(* adapter process (channels/adapter-entry.ts, channels/telegram.ts), the  *)
(* restart of the adapter, the reload of the configuration, and the        *)
(* decisions that Pi, Telegram, the timeout policy and a cancellation      *)
(* compete for (workflows/human-decision.ts).                              *)
(*                                                                         *)
(* One Telegram profile is modelled.  The adapter reports and waits for    *)
(* the answer, and the server handles a report without giving way, so a    *)
(* report and its answer are one step.  The revision a report carries is   *)
(* the one the last answer gave, and a report is never repeated, so        *)
(* neither check can fail.  A person who may not answer, and a button of a *)
(* message that is no longer active, change nothing.                       *)
(***************************************************************************)
EXTENDS Naturals, Sequences, FiniteSets

CONSTANTS Decisions,    \* 1..n, in the order in which they are asked
          MaxPresses,   \* bound: buttons pressed in Telegram
          MaxFaults,    \* bound: adapter and server processes that die
          MaxReloads,   \* bound: reloads of the channel configuration
          MaxAttempts   \* bound: attempts of one send, the operator's included

ASSUME ChannelsAssumption == Decisions \subseteq Nat /\ MaxAttempts \in Nat \ {0}

VARIABLES
  decision,  \* human_decisions with its resolution
  late,      \* decisions whose deadline has passed
  effect,    \* effects of owner scope "channel", by decision and purpose
  cursor,    \* channel_cursors: the updates that are not asked for again
  config,    \* decisionChannelConfig names the profile
  disk,      \* channels.json names the profile
  up,        \* a server is running
  active,    \* activeChannels: what the server knows of its adapter
  timers,    \* restarts that handleChannelExit has planned
  reload,    \* how far reloadDecisionChannels is
  adapter,   \* the adapter process
  presses,   \* Telegram's updates: the decision of each pressed button
  told,      \* updates whose person was told "Answer received."
  sends,     \* how often Telegram was called, by decision and purpose
  faults, reloads

vars == <<decision, late, effect, cursor, config, disk, up, active, timers,
          reload, adapter, presses, told, sends, faults, reloads>>

decisions == <<decision, late>>
server    == <<config, disk, up, timers, reload, reloads>>
ghosts    == <<told, sends>>

Purposes == {"delivery", "settlement"}
NoActive == [ready |-> FALSE, stopping |-> FALSE, inFlight |-> {}, running |-> FALSE]
Started  == [NoActive EXCEPT !.running = TRUE]
Gone     == [at |-> "none"]
Exited   == [at |-> "exited"]
Live     == adapter.at \notin {"none", "exited"}
Resolved == {"accepted", "cancelled"}
Later(a, b) == IF a > b THEN a ELSE b
First(S) == CHOOSE d \in S : \A e \in S : d <= e

Init ==
  /\ decision = [d \in Decisions |-> "none"]
  /\ late = {}
  /\ effect = [d \in Decisions |-> [p \in Purposes |-> [st |-> "none", attempt |-> 0]]]
  /\ cursor = 0
  /\ config = TRUE /\ disk = TRUE /\ up = TRUE
  /\ active = Started
  /\ timers = 0
  /\ reload = "starting"
  /\ adapter = [at |-> "start", end |-> 0]
  /\ presses = <<>>
  /\ told = {}
  /\ sends = [d \in Decisions |-> [p \in Purposes |-> 0]]
  /\ faults = 0 /\ reloads = 0

-----------------------------------------------------------------------------
(* The decisions.                                                          *)

(* The gate saves its request; later ones come later in every list. *)
Ask(d) ==
  /\ decision[d] = "none"
  /\ \A e \in Decisions : e < d => decision[e] # "none"
  /\ decision' = [decision EXCEPT ![d] = "pending"]
  /\ UNCHANGED <<late, effect, cursor, server, active, adapter, presses, ghosts, faults>>

DeadlinePasses(d) ==
  /\ decision[d] = "pending" /\ d \notin late
  /\ late' = late \cup {d}
  /\ UNCHANGED <<decision, effect, cursor, server, active, adapter, presses, ghosts, faults>>

(* What acceptSync does with an answer for a decision that is still open:  *)
(* it refuses a late one.                                                  *)
Acceptable(d) == d \notin late

(* An answer given in Pi, the default after the deadline, and the end of   *)
(* the run: whoever is first inserts the one resolution.                   *)
Resolve(d, outcome) ==
  /\ decision[d] = "pending"
  /\ decision' = [decision EXCEPT ![d] = outcome]
  /\ UNCHANGED <<late, effect, cursor, server, active, adapter, presses, ghosts, faults>>

AnswerInPi(d)    == up /\ Acceptable(d) /\ Resolve(d, "accepted")
TimeoutPolicy(d) == up /\ d \in late /\ Resolve(d, "accepted")
CancelRun(d)     == up /\ Resolve(d, "cancelled")

(* A person presses a button of a message that was sent. *)
Press(d) ==
  /\ sends[d]["delivery"] > 0
  /\ Len(presses) < MaxPresses
  /\ presses' = Append(presses, d)
  /\ UNCHANGED <<decisions, effect, cursor, server, active, adapter, ghosts, faults>>

-----------------------------------------------------------------------------
(* The server's answer to a report: the next command of the adapter.       *)

\* Variant: only an accepted decision closes its message.
WaitingUnlessCancelled(p, eff) ==
  {d \in Decisions :
     /\ eff[d][p].st \in {"none", "applying"}
     /\ IF p = "delivery"
          THEN decision[d] = "pending"
          ELSE decision[d] = "accepted" /\ eff[d]["delivery"].st = "applied"}

(* A message that has no confirmed delivery yet, and the end of a decision *)
(* whose message was confirmed; an uncertain one is left to the operator.  *)
Waiting(p, eff) ==
  {d \in Decisions :
     /\ eff[d][p].st \in {"none", "applying"}
     /\ IF p = "delivery"
          THEN decision[d] = "pending"
          ELSE decision[d] \in Resolved /\ eff[d]["delivery"].st = "applied"}

(* The first attempt of a send, or the one that is still to be made. *)
Attempt(e) == IF e.st = "none" THEN [st |-> "applying", attempt |-> 1] ELSE e

(* nextChannelCommand: deliveries, then settlements, then a poll for the   *)
(* open decisions whose message is there.  The effect is saved as applying *)
(* before the adapter hears of it.                                         *)
Command(eff, flight) ==
  LET p == IF Waiting("delivery", eff) # {} THEN "delivery" ELSE "settlement"
      d == First(Waiting(p, eff))
      attempted == Attempt(eff[d][p])
      item == <<d, p, attempted.attempt>>
      known == {e \in Decisions : config /\ decision[e] = "pending"
                                         /\ eff[e]["delivery"].st = "applied"}
  IN IF config /\ Waiting(p, eff) # {}
       THEN /\ effect' = [eff EXCEPT ![d][p] = attempted]
            /\ active' = [active EXCEPT !.ready = TRUE, !.inFlight = flight \cup {item}]
            /\ adapter' = [at |-> "send", work |-> item]
       ELSE /\ effect' = eff
            /\ active' = [active EXCEPT !.ready = TRUE, !.inFlight = flight]
            /\ adapter' = [at |-> "poll", requests |-> known, from |-> cursor']

(* Effects that become ambiguous: their outcome is not known. *)
Uncertain(S) ==
  [d \in Decisions |-> [p \in Purposes |->
     IF effect[d][p].st = "applying" /\ <<d, p, effect[d][p].attempt>> \in S
       THEN [effect[d][p] EXCEPT !.st = "ambiguous"] ELSE effect[d][p]]]

EveryAttempt == Decisions \X Purposes \X (1 .. MaxAttempts)

-----------------------------------------------------------------------------
(* The adapter.                                                            *)

(* It says that it is ready, first of all and after every poll. *)
Ready ==
  /\ up /\ active.running
  /\ adapter.at \in {"start", "ready"}
  /\ cursor' = Later(cursor, adapter.end)
  /\ Command(effect, active.inFlight)
  /\ reload' = IF adapter.at = "start" /\ reload = "starting" THEN "idle" ELSE reload
  /\ UNCHANGED <<decisions, config, disk, up, timers, reloads, presses, ghosts, faults>>

(* It sends or edits messages.  A call that fails may have been carried out. *)
Send(known) ==
  /\ adapter.at = "send"
  /\ sends' = [sends EXCEPT ![adapter.work[1]][adapter.work[2]] = @ + 1]
  /\ adapter' = [at |-> "sent", work |-> adapter.work, known |-> known]
  /\ UNCHANGED <<decisions, effect, cursor, server, active, presses, told, faults>>

(* A send whose calls all returned is applied; any error leaves it open    *)
(* what Telegram did.                                                      *)
Outcome(e, known) == [e EXCEPT !.st = IF known THEN "applied" ELSE "ambiguous"]

(* It reports what became of the send; a receipt of another attempt is     *)
(* refused, and a refused adapter exits.                                   *)
Receipt ==
  /\ up /\ active.running
  /\ adapter.at = "sent"
  /\ UNCHANGED <<decisions, cursor, server, presses, ghosts, faults>>
  /\ LET d == adapter.work[1]
         p == adapter.work[2]
         n == adapter.work[3]
     IN IF effect[d][p] = [st |-> "applying", attempt |-> n]
          THEN Command([effect EXCEPT ![d][p] = Outcome(@, adapter.known)],
                       active.inFlight \ {<<d, p, n>>})
          ELSE adapter' = Exited /\ UNCHANGED <<effect, active>>

(* It fetches the updates behind the cursor. *)
Fetch ==
  /\ adapter.at = "poll"
  /\ adapter' = IF Len(presses) > adapter.from
                  THEN [at |-> "updates", requests |-> adapter.requests, next |-> adapter.from + 1,
                        end |-> Len(presses), batch |-> <<>>]
                  ELSE [at |-> "ready", end |-> adapter.from]
  /\ UNCHANGED <<decisions, effect, cursor, server, active, presses, ghosts, faults>>

(* What follows when the answers of `batch` are left to report. *)
Reporting(batch, end) ==
  IF batch = <<>> THEN [at |-> "ready", end |-> end]
                  ELSE [at |-> "answers", batch |-> batch, end |-> end]

(* It goes through them: the person whose decision is open is told that    *)
(* the answer was received.                                                *)
Update ==
  /\ adapter.at = "updates"
  /\ LET i == adapter.next
         valid == presses[i] \in adapter.requests
         batch == IF valid THEN Append(adapter.batch, i) ELSE adapter.batch
     IN /\ told' = IF valid THEN told \cup {i} ELSE told
        /\ adapter' = IF i = adapter.end
                        THEN Reporting(batch, adapter.end)
                        ELSE [adapter EXCEPT !.next = i + 1, !.batch = batch]
  /\ UNCHANGED <<decisions, effect, cursor, server, active, presses, sends, faults>>

(* It reports the answers one by one, each with the position behind the    *)
(* whole poll.  The server saves that position, and then looks at the      *)
(* answer: without the profile, or too late, it refuses it and the adapter *)
(* exits; if nothing is open any more it only says yes.                    *)
Answer ==
  /\ up /\ active.running
  /\ adapter.at = "answers"
  /\ cursor' = Later(cursor, adapter.end)
  /\ LET d == presses[Head(adapter.batch)]
         open == decision[d] = "pending"
     IN IF ~config \/ (open /\ ~Acceptable(d))
          THEN adapter' = Exited /\ UNCHANGED decision
          ELSE /\ decision' = IF open THEN [decision EXCEPT ![d] = "accepted"] ELSE decision
               /\ adapter' = Reporting(Tail(adapter.batch), adapter.end)
  /\ UNCHANGED <<late, effect, server, active, presses, ghosts, faults>>

(* A process dies, or is told to stop and ends where it is. *)
AdapterCrash ==
  /\ up /\ Live /\ faults < MaxFaults
  /\ faults' = faults + 1
  /\ adapter' = Exited
  /\ UNCHANGED <<decisions, effect, cursor, server, active, presses, ghosts>>

Terminate ==
  /\ up /\ Live /\ active.stopping
  /\ adapter' = Exited
  /\ UNCHANGED <<decisions, effect, cursor, server, active, presses, ghosts, faults>>

(* The adapter of a dead server ends with its next report. *)
OrphanExits ==
  /\ ~up /\ Live
  /\ adapter' = Gone
  /\ UNCHANGED <<decisions, effect, cursor, server, active, presses, ghosts, faults>>

-----------------------------------------------------------------------------
(* The server.                                                             *)

\* Variant: what was in flight keeps its state.
ForgetInFlight(S) == effect

(* What was in flight when the adapter ended may have been sent. *)
InFlightUncertain(S) == Uncertain(S)

(* The exit of a running adapter: another one is started a second later.   *)
(* One that ends before it was ready is a failed start, which is final.    *)
HandleExit ==
  /\ up /\ active.running /\ ~active.stopping
  /\ adapter = Exited
  /\ active' = NoActive
  /\ adapter' = Gone
  /\ IF active.ready
       THEN /\ effect' = InFlightUncertain(active.inFlight)
            /\ timers' = IF config THEN timers + 1 ELSE timers
            /\ UNCHANGED <<config, reload>>
       ELSE /\ config' = (config /\ reload # "starting")
            /\ reload' = IF reload = "starting" THEN "idle" ELSE reload
            /\ UNCHANGED <<effect, timers>>
  /\ UNCHANGED <<decisions, cursor, disk, up, presses, ghosts, faults, reloads>>

(* startDecisionChannel, unless an adapter is there. *)
Start ==
  IF active.running THEN UNCHANGED <<active, adapter>>
  ELSE active' = Started /\ adapter' = [at |-> "start", end |-> 0]

FireTimer ==
  /\ up /\ timers > 0
  /\ timers' = timers - 1
  /\ Start
  /\ UNCHANGED <<decisions, effect, cursor, config, disk, up, reload, presses, ghosts, faults, reloads>>

(* The operator changes the configuration and reloads it: the adapter is   *)
(* told to stop, and when it is gone nothing that was applying is certain. *)
Reload(written) ==
  /\ up /\ reload = "idle" /\ reloads < MaxReloads
  /\ reloads' = reloads + 1
  /\ disk' = written
  /\ IF active.running
       THEN reload' = "stopping" /\ active' = [active EXCEPT !.stopping = TRUE] /\ UNCHANGED effect
       ELSE reload' = "loading" /\ effect' = Uncertain(EveryAttempt) /\ UNCHANGED active
  /\ UNCHANGED <<decisions, cursor, config, up, timers, adapter, presses, ghosts, faults>>

ReloadStopped ==
  /\ up /\ reload = "stopping" /\ adapter = Exited
  /\ active' = NoActive
  /\ adapter' = Gone
  /\ effect' = Uncertain(EveryAttempt)
  /\ reload' = "loading"
  /\ UNCHANGED <<decisions, cursor, config, disk, up, timers, presses, ghosts, faults, reloads>>

(* The files are read while timers may fire. *)
ReloadLoad ==
  /\ up /\ reload = "loading"
  /\ config' = disk
  /\ IF disk THEN Start ELSE UNCHANGED <<active, adapter>>
  /\ reload' = IF disk /\ ~active.running THEN "starting" ELSE "idle"
  /\ UNCHANGED <<decisions, effect, cursor, disk, up, timers, presses, ghosts, faults, reloads>>

NextAttempt(e) == [st |-> "applying", attempt |-> e.attempt + 1]

(* The operator decides what an uncertain send did: it is confirmed, or it *)
(* is tried again under a new attempt.                                     *)
Recover(d, p, retry) ==
  /\ up /\ effect[d][p].st = "ambiguous"
  /\ retry => effect[d][p].attempt < MaxAttempts
  /\ effect' = [effect EXCEPT ![d][p] =
                  IF retry THEN NextAttempt(@) ELSE Outcome(@, TRUE)]
  /\ UNCHANGED <<decisions, cursor, server, active, adapter, presses, ghosts, faults>>

(* The server dies; its adapter does not notice before its next report. *)
ServerCrash ==
  /\ up /\ faults < MaxFaults
  /\ faults' = faults + 1
  /\ up' = FALSE
  /\ active' = NoActive
  /\ timers' = 0
  /\ config' = FALSE
  /\ reload' = "idle"
  /\ adapter' = IF Live THEN adapter ELSE Gone
  /\ UNCHANGED <<decisions, effect, cursor, disk, presses, ghosts, reloads>>

(* Another one ends the processes of the dead one and loads the channels. *)
ServerStart ==
  /\ ~up
  /\ up' = TRUE
  /\ adapter' = Gone
  /\ effect' = Uncertain(EveryAttempt)
  /\ reload' = "loading"
  /\ UNCHANGED <<decisions, cursor, config, disk, active, timers, presses, ghosts, faults, reloads>>

-----------------------------------------------------------------------------
AdapterStep == Ready \/ (\E known \in BOOLEAN : Send(known)) \/ Receipt \/ Fetch \/ Update \/ Answer
ServerStep  == HandleExit \/ FireTimer \/ ReloadStopped \/ ReloadLoad

Next ==
  \/ AdapterStep
  \/ ServerStep
  \/ AdapterCrash \/ Terminate \/ OrphanExits
  \/ ServerCrash \/ ServerStart
  \/ \E written \in BOOLEAN : Reload(written)
  \/ \E d \in Decisions :
       \/ Ask(d) \/ DeadlinePasses(d) \/ Press(d)
       \/ AnswerInPi(d) \/ TimeoutPolicy(d) \/ CancelRun(d)
       \/ \E p \in Purposes, retry \in BOOLEAN : Recover(d, p, retry)

Spec == Init /\ [][Next]_vars

(* A running adapter goes on, and Telegram answers or fails; one that was  *)
(* told to stop ends or is killed; the server handles what happened; the   *)
(* next client starts a server that is down.                               *)
Fairness ==
  /\ WF_vars(AdapterStep)
  /\ WF_vars(ServerStep)
  /\ WF_vars(Terminate)
  /\ WF_vars(ServerStart)

FairSpec == Spec /\ Fairness

-----------------------------------------------------------------------------
(* The properties.                                                         *)

(* Nothing is sent again unless the operator says so: each attempt reaches *)
(* Telegram once, whatever dies, restarts or is reloaded, and further      *)
(* attempts are the operator's (docs/HUMAN_DECISIONS.md: an ambiguous send *)
(* is not retried automatically).                                          *)
NeverResentAlone ==
  \A d \in Decisions, p \in Purposes : sends[d][p] <= effect[d][p].attempt

(* The channel has no adapter and no plan to start one, or the profile is  *)
(* not configured.                                                         *)
GivenUp == up /\ reload = "idle" /\ (~config \/ (~active.running /\ timers = 0))

(* Whoever resolves a decision, its message in Telegram is closed, or the  *)
(* closing is shown as uncertain, unless the channel itself was given up.  *)
ResolvedIsSettled ==
  \A d \in Decisions :
    decision[d] \in Resolved /\ effect[d]["delivery"].st = "applied"
      ~> effect[d]["settlement"].st \in {"applied", "ambiguous"} \/ GivenUp

(* A person who was told that the answer was received, for a decision that *)
(* is still open and in time, is not forgotten: the answer is with the     *)
(* adapter, or the update is fetched again (docs/SQLITE_STATE.md: the      *)
(* cursor is the last accepted position).                                  *)
ReceivedAnswerIsKept ==
  \A i \in told :
    decision[presses[i]] = "pending" /\ presses[i] \notin late =>
      \/ i > cursor
      \/ adapter.at = "updates" /\ \E k \in DOMAIN adapter.batch : adapter.batch[k] = i
      \/ adapter.at = "answers" /\ \E k \in DOMAIN adapter.batch : adapter.batch[k] = i
=============================================================================
