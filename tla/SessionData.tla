----------------------------- MODULE SessionData -----------------------------
(***************************************************************************)
(* What the server keeps for a run beside its execution, and what Pi and   *)
(* viewers see of it: turns of the session (SessionTurns), settings,       *)
(* follow-ups, the recorded session and its replay, retention and views;   *)
(* and the Pi of a run without a session (HeadlessRuns).  The parts share  *)
(* no state in the code that one of them would wait for, so a behaviour is *)
(* one of one part; the part is chosen in the initial state and the others *)
(* stay as they are.                                                       *)
(***************************************************************************)
EXTENDS Integers, Sequences

CONSTANTS None,
          Parts,              \* the parts to look at
          OvertakesBind,      \* whether the recorder sends before bind() is done
          MaxReminders, MaxTurns, MaxFaults, FaultKinds, MaxControls, ControlKinds,
          MaxHappenings,
          ChangeRequests, Contents, MaxAttempts, MaxStops, MaxRouteRetries,
          MaxFollowUps, MaxPiLosses,
          MaxCaptured, MaxMessages, MaxTools, MaxBatch, MaxQueue, MaxRequestFaults,
          PrunedRuns, Blobs, MaxPruneCrashes,
          MaxPages, MaxTries, MaxUnread, MaxSourceChanges, MaxViewFaults, MaxSwitches,
          MaxRunners, MaxSteps, MaxReports, MaxServerFaults,
          PageSize, MaxEvents, MaxShown

AllParts == {"turns", "settings", "followUps", "recording", "prune", "views",
             "headless", "replay"}

ASSUME SessionDataAssumption ==
    /\ Parts \subseteq AllParts /\ OvertakesBind \in BOOLEAN
    /\ MaxReminders \in Nat /\ MaxTurns \in Nat \ {0}
    /\ MaxFaults \in Nat /\ MaxControls \in Nat /\ MaxHappenings \in Nat
    /\ FaultKinds \subseteq {"connection", "server", "pi", "branch"}
    /\ ControlKinds \subseteq {"pause", "cancel", "expire"}

\* A settings document is named by a number, the one a scope begins with by
\* 0; null is no content of a request, no number, no answer and no record.
ASSUME SettingsAssumption ==
    /\ Contents \subseteq [patch : [test : Nat \cup {None}, set : Nat],
                          expected : Nat \cup {None}]
    /\ None \notin Contents \cup Nat \cup {"accepted", "rejected"}
    /\ None \notin [value : Nat, revision : Nat]
    /\ None \notin [id : Nat, kind : {"route", "agent", "message"}, number : Nat,
                   value : Nat, answered : BOOLEAN]

\* Messages of follow-ups are numbered; null is no message.
ASSUME FollowUpsAssumption ==
    /\ MaxFollowUps \in Nat
    /\ None \notin Nat \cup [msg : Nat, status : {"none", "pending", "sent", "cancelled"},
                            cancelled : BOOLEAN]

\* A link is the number of an entry; null is no number, list of numbers or segment.
ASSUME RecordingAssumption ==
    /\ MaxBatch \in Nat
    /\ None \notin Int \cup Seq(Int)
    /\ None \notin [status : {"recording", "failed", "complete"}, events : Nat, entries : Nat,
                    rows : Seq([seq : Nat, link : Int \cup {None}]), saved : Seq(Int)]

ASSUME ViewsAssumption == MaxPages \in Nat

ASSUME HeadlessAssumption == MaxRunners \in Nat /\ MaxSteps \in Nat

VARIABLES part,
    db, co, link, view, wmc, sync, pi, spent,
    scope, changes, sent, call, answer, status, attempt, engine, local, given,
    finished, broken, stops,
    runState, other, followUps, terminal, piView, piSession, losses,
    segs, bind, segment, doing, turn, branch, cursor, recorded, chain, queue,
    inflight, pending, failed, finish, counts, seen, early, faults,
    run, blobs, held, prune, lockFile, pruneCrashes,
    source, listening, serverSub, toServer, toClient, client, tui, loads,
    display, newest, viewSpent,
    srv, registry, owned, sup, row, gen, live, ex, asked, attempts, left, serverFaults,
    journal, checkpoints, reported, showing

TU == INSTANCE SessionTurns
SE == INSTANCE Settings
FU == INSTANCE FollowUps
RE == INSTANCE Recording
PR == INSTANCE Prune
VI == INSTANCE Views
HR == INSTANCE HeadlessRuns
RP == INSTANCE Replay

turnsVars == <<db, co, link, view, wmc, sync, pi, spent>>
settingsVars == <<scope, changes, sent, call, answer, status, attempt, engine, local, given,
                  finished, broken, stops>>
followVars == <<runState, other, followUps, terminal, piView, piSession, losses>>
recordingVars == <<segs, bind, segment, doing, turn, branch, cursor, recorded, chain, queue,
                   inflight, pending, failed, finish, counts, seen, early, faults>>
pruneVars == <<run, blobs, held, prune, lockFile, pruneCrashes>>
viewVars == <<source, listening, serverSub, toServer, toClient, client, tui, loads,
              display, newest, viewSpent>>
headlessVars == <<srv, registry, owned, sup, row, gen, live, ex, asked,
                  attempts, left, serverFaults>>
replayVars == <<journal, checkpoints, reported, showing>>
vars == <<part, turnsVars, settingsVars, followVars, recordingVars, pruneVars, viewVars,
          headlessVars, replayVars>>

\* Of the parts that a behaviour is not about, one initial state will do.
Init ==
    /\ part \in Parts
    /\ TU!Init /\ (part # "turns" => db.run = "running")
    /\ SE!SettingsInit /\ (part # "settings" => scope = None /\ local)
    /\ FU!FollowUpsInit
    /\ RE!RecordingInit /\ (part # "recording" => segs[1] = None)
    /\ PR!PruneInit /\ (part # "prune" => blobs = {})
    /\ VI!ViewsInit
    /\ HR!HeadlessInit
    /\ RP!ReplayInit

TurnsStep ==
    /\ part = "turns" /\ TU!Next
    /\ UNCHANGED <<part, settingsVars, followVars, recordingVars,
                   pruneVars, viewVars, headlessVars, replayVars>>
SettingsStep ==
    /\ part = "settings" /\ SE!SettingsNext
    /\ UNCHANGED <<part, turnsVars, followVars, recordingVars, pruneVars, viewVars,
                   headlessVars, replayVars>>
FollowUpStep ==
    /\ part = "followUps" /\ FU!FollowUpsNext
    /\ UNCHANGED <<part, turnsVars, settingsVars, recordingVars, pruneVars, viewVars,
                   headlessVars, replayVars>>
RecordingStep ==
    /\ part = "recording" /\ RE!RecordingNext /\ (early' => OvertakesBind)
    /\ UNCHANGED <<part, turnsVars, settingsVars, followVars, pruneVars, viewVars,
                   headlessVars, replayVars>>
PruneStep ==
    /\ part = "prune" /\ PR!PruneNext
    /\ UNCHANGED <<part, turnsVars, settingsVars, followVars, recordingVars, viewVars,
                   headlessVars, replayVars>>
ViewStep ==
    /\ part = "views" /\ VI!ViewsNext
    /\ UNCHANGED <<part, turnsVars, settingsVars, followVars, recordingVars, pruneVars,
                   headlessVars, replayVars>>
HeadlessStep ==
    /\ part = "headless" /\ HR!HeadlessNext
    /\ UNCHANGED <<part, turnsVars, settingsVars, followVars, recordingVars, pruneVars,
                   viewVars, replayVars>>
ReplayStep ==
    /\ part = "replay" /\ RP!ReplayNext
    /\ UNCHANGED <<part, turnsVars, settingsVars, followVars, recordingVars, pruneVars,
                   viewVars, headlessVars>>

Next == TurnsStep \/ SettingsStep \/ FollowUpStep \/ RecordingStep \/ PruneStep \/ ViewStep
        \/ HeadlessStep \/ ReplayStep

-----------------------------------------------------------------------------
(* Fairness.  In a session the processes keep working: the connection is   *)
(* made again, calls are answered, views are sent, the poll of Pi runs     *)
(* synchronize, a model turn ends, a runner hands over or finishes.  For a *)
(* viewer the server polls and answers, the socket delivers and the timer  *)
(* fires.  Nobody has to submit, remind, pause, resume, cancel, move the   *)
(* branch or switch the view, and no server has to come back.              *)
TurnsFairness ==
    /\ WF_turnsVars(part = "turns" /\ TU!Connect) /\ WF_turnsVars(part = "turns" /\ TU!Publish)
    /\ WF_sync(part = "turns" /\ TU!Answered) /\ WF_turnsVars(part = "turns" /\ TU!Synchronize)
    /\ WF_turnsVars(part = "turns" /\ TU!Agent) /\ WF_turnsVars(part = "turns" /\ TU!Runner)
ViewFairness ==
    /\ WF_viewVars(part = "views" /\ VI!PublishSnapshot) /\ WF_viewVars(part = "views" /\ VI!Handle)
    /\ WF_viewVars(part = "views" /\ VI!Read) /\ WF_viewVars(part = "views" /\ VI!Reconnect)

Spec == Init /\ [][Next]_vars
FairSpec == Spec /\ TurnsFairness /\ ViewFairness

-----------------------------------------------------------------------------
(* The properties of the parts.                                            *)

\* The clock of an attempt runs exactly while Pi works for its request, and the
\* reports of Pi fit the rows.
ClockMatchesTurn == TU!ClockMatchesTurn
\* A run fails for missing submissions only after real turns without one.
FailsAfterReminders == TU!FailsAfterReminders
\* Pi gives every turn up again.
TurnsAreReleased == TU!TurnsAreReleased
\* Changes of settings and the answers to them agree.
SettingsHistory == SE!SettingsHistory
\* An attempt works with the settings of one change.
AttemptKeepsItsSettings == SE!AttemptKeepsItsSettings
\* Follow-ups get their turns one after the other, after their run.
FollowUpsInOrder == FU!FollowUpsInOrder
\* A complete capture of a session is whole.
CompleteCaptureIsWhole == RE!CompleteCaptureIsWhole
\* A complete capture is not written to again (docs/SESSION_EVENT_JOURNAL.md).
EarlierSegmentKept == RE!EarlierSegmentKept
\* A page of the replay shows what the whole journal shows from there.
PageAgrees == RP!PageAgrees
\* A prune takes nothing that is in use.
PruneKeepsWhatIsUsed == PR!PruneKeepsWhatIsUsed
\* A complete view is of one revision, and none replaces a newer one.
ShownIsWhole == VI!ShownIsWhole
\* A viewer ends with what there is, or says that it is unavailable.
ViewerCatchesUp == part = "views" => VI!ViewerCatchesUp
\* An accepted step has an output of its own.
OutputIsOfStep == HR!OutputIsOfStep
\* One Pi and one command work for a headless run, and none is lost.
OneAtWork == HR!OneAtWork
\* A stop of the server is no outcome of a step (docs/WORKFLOWS.md:175).
ShutdownIsNoOutcome == HR!ShutdownIsNoOutcome
=============================================================================
