------------------------------ MODULE Settings ------------------------------
(***************************************************************************)
(* The editable settings of one scope of a run: changes that clients send, *)
(* resolved and committed by the server in several steps, against the      *)
(* engine, which binds every attempt of a node to the settings of one      *)
(* change number.                                                          *)
(*                                                                         *)
(* A value stands for a settings document.  A patch tests the document and *)
(* replaces it: [test, set], where test = None applies to any value.       *)
(***************************************************************************)
EXTENDS Integers, Sequences, FiniteSets

CONSTANTS None,
          ChangeRequests,      \* idempotency keys of clients
          Contents,            \* what a request may hold: its patch and the change
                               \* number it expects, None when it has none
          MaxAttempts,         \* bound: attempts the run starts
          MaxStops,            \* bound: crashes of the server and stops of a runner
          MaxRouteRetries      \* MAX_SETTINGS_ROUTE_RETRIES

VARIABLES scope,      \* workflow_settings: current value and revision; None before it exists
          changes,    \* workflow_setting_changes of the scope, in order
          sent,       \* content of the requests clients have sent
          call,       \* what the server is doing with each request
          answer,     \* server_commands: the stored answer of each request
          status,     \* runs.status
          attempt,    \* run state: the node in flight and its saved binding
          engine,     \* memory of the runner
          local,      \* the engine works on the store itself, not through a server
          given,      \* ghost: pairs of an attempt and a settings value its node was given
          finished,   \* settled steps
          broken,     \* ghost: requests that a crash caught between commit and answer
          stops

settingsVars == <<scope, changes, sent, call, answer, status, attempt, engine,
                  local, given, finished, broken, stops>>
editVars == <<changes, sent, call, answer, broken>>
graphVars == <<status, attempt, engine, given, finished>>

First == [value |-> 0, revision |-> 0]
Idle  == [phase |-> "idle"]
Stopped == [phase |-> "stopped"]
Accepts == status \in {"running", "waiting"}

SettingsInit ==
    /\ scope \in {None, First}
    /\ changes = << >> /\ sent = [q \in ChangeRequests |-> None]
    /\ call = [q \in ChangeRequests |-> Idle]
    /\ answer = [q \in ChangeRequests |-> None]
    /\ status = "running" /\ attempt = None /\ engine = [phase |-> "ready"]
    /\ local \in BOOLEAN
    /\ given = {} /\ finished = << >> /\ broken = {} /\ stops = 0

Applies(p, value) == p.test \in {None, value}

\* getSettingsScopeAtChange: the settings as they were at a change number.
ValueAt(n) == IF n = scope.revision THEN scope.value
              ELSE IF n = 0 THEN First.value ELSE changes[n].after

\* The binding of an attempt: change number and hash.
Latest == [number |-> scope.revision, value |-> scope.value]

-----------------------------------------------------------------------------
\* A client sends run.changeSettings, with the number it has seen or without.
SendChange(q) ==
    /\ sent[q] = None
    /\ \E c \in Contents : sent' = [sent EXCEPT ![q] = c]
    /\ UNCHANGED <<scope, changes, call, answer, broken, graphVars, local, stops>>

Refusing(q) == [call EXCEPT ![q] = [phase |-> "answering", outcome |-> "rejected"]]
Granting(q) == [call EXCEPT ![q] = [phase |-> "answering", outcome |-> "accepted"]]

\* changeSessionWorkflowSettings up to its await: the scope is read and the
\* resolver gets its value.  A request with a stored answer is adopted before.
ReadScope(q) ==
    /\ sent[q] # None /\ answer[q] = None /\ call[q].phase = "idle"
    /\ call' = IF scope = None THEN Refusing(q)
               ELSE [call EXCEPT ![q] = [phase |-> "resolving", number |-> scope.revision,
                                         value |-> scope.value]]
    /\ UNCHANGED <<scope, changes, sent, answer, broken, graphVars, local, stops>>

ExpectedOf(q) == IF sent[q].expected = None THEN call[q].number ELSE sent[q].expected

\* The resolver returned; changeSettings of the store runs to its own await.
\* Its parser accepts nothing but the value the resolver proposed.
EnterStore(q) ==
    LET prior == \E i \in DOMAIN changes : changes[i].request = q
        taken == /\ Accepts /\ ExpectedOf(q) = scope.revision
                 /\ Applies(sent[q].patch, scope.value) IN
    /\ call[q].phase = "resolving"
    /\ call' = IF ~Applies(sent[q].patch, call[q].value) THEN Refusing(q)
               ELSE IF prior THEN Granting(q)
               ELSE IF taken THEN [call EXCEPT ![q] =
                                     [phase |-> "committing", number |-> scope.revision,
                                      value |-> scope.value]]
               ELSE Refusing(q)
    /\ UNCHANGED <<scope, changes, sent, answer, broken, graphVars, local, stops>>

\* Variant: the value read before the await is taken to be still current.
StillAccepts(q) == Accepts

\* The check inside the transaction of changeSettings (mutate with the
\* revision, and the hash the patch was applied to).
Unchanged(q) ==
    /\ Accepts
    /\ scope.revision = call[q].number /\ scope.value = call[q].value

\* The transaction: history row, current value and revision together.  A
\* request with an expected number, as all of the server's are, is not retried.
CommitChange(q) ==
    /\ call[q].phase = "committing"
    /\ IF Unchanged(q)
       THEN /\ changes' = Append(changes, [request |-> q, patch |-> sent[q].patch,
                                           number |-> scope.revision + 1,
                                           before |-> call[q].value,
                                           after |-> sent[q].patch.set])
            /\ scope' = [value |-> sent[q].patch.set, revision |-> scope.revision + 1]
            /\ call' = Granting(q)
       ELSE call' = Refusing(q) /\ UNCHANGED <<scope, changes>>
    /\ UNCHANGED <<sent, answer, broken, graphVars, local, stops>>

\* executeMaintenanceCommand stores the answer after the operation.
StoreAnswer(q) ==
    /\ call[q].phase = "answering"
    /\ answer' = [answer EXCEPT ![q] = call[q].outcome]
    /\ call' = [call EXCEPT ![q] = Idle]
    /\ UNCHANGED <<scope, changes, sent, broken, graphVars, local, stops>>

-----------------------------------------------------------------------------
Runs(phase) == engine.phase = phase
Give(b) == given' = given \cup {<<attempt'.id, b.value>>}
NewAttempt(kind, b) == [id |-> Len(finished) + stops, kind |-> kind, number |-> b.number,
                        value |-> b.value, answered |-> FALSE]

\* executeNode: captureSettingsBinding, which creates the scope of a mount
\* that is entered for the first time.
Capture ==
    /\ Runs("ready") /\ status = "running" /\ Len(finished) < MaxAttempts
    /\ scope' = IF scope = None THEN First ELSE scope
    /\ engine' = [phase |-> "captured", number |-> scope'.revision, value |-> scope'.value,
                  retries |-> 0]
    /\ UNCHANGED <<editVars, status, attempt, given, finished, local, stops>>

\* node_started saves the binding of the attempt.  Kinds: a pure settings
\* route, an agent that asks the session, and a checkpoint or assistant
\* message (any other node is like a route that is never stale).
StartNode ==
    /\ Runs("captured") /\ status = "running"
    /\ \E kind \in {"route", "agent", "message"} :
         attempt' = NewAttempt(kind, engine)
    /\ engine' = [engine EXCEPT !.phase = "executing"]
    /\ Give(engine)
    /\ UNCHANGED <<scope, editVars, status, finished, local, stops>>

\* An agent's request is sent to the session; the run is parked.
Ask ==
    /\ Runs("executing") /\ status = "running"
    /\ attempt.kind = "agent" /\ ~attempt.answered
    /\ status' = "waiting" /\ engine' = Stopped
    /\ UNCHANGED <<scope, editVars, attempt, given, finished, local, stops>>

TakeAnswer ==
    /\ status = "waiting" /\ ~attempt.answered
    /\ attempt' = [attempt EXCEPT !.answered = TRUE]
    /\ UNCHANGED <<scope, editVars, status, engine, given, finished, local, stops>>

\* Variant: the resumed attempt takes the settings as they are now.
CurrentBinding == Latest

\* persistedSettingsBinding: the saved change, whose hash must match.
SavedBinding == [number |-> attempt.number, value |-> ValueAt(attempt.number)]

KeepsAttempt == attempt # None /\ (attempt.kind = "message" \/ attempt.answered)

\* resumeRun: a checkpoint, an assistant message or an agent with an answer
\* goes on; any other attempt is dropped and its node starts again.
ResumeRun ==
    /\ Runs("stopped")
    /\ status = "running" \/ (status = "waiting" /\ attempt.answered)
    /\ status' = "running"
    /\ IF KeepsAttempt
       THEN /\ engine' = [phase |-> "executing", number |-> SavedBinding.number,
                          value |-> SavedBinding.value, retries |-> 0]
            /\ UNCHANGED attempt
            /\ Give(SavedBinding)
       ELSE engine' = [phase |-> "ready"] /\ attempt' = None /\ UNCHANGED given
    /\ UNCHANGED <<scope, editVars, finished, local, stops>>

\* assertSettingsRouteCurrent, in the transaction that settles the step.
Stale == attempt.kind = "route" /\ engine.number # scope.revision

SettleStep ==
    /\ Runs("executing") /\ status = "running"
    /\ attempt.kind = "agent" => attempt.answered
    /\ ~Stale
    /\ finished' = Append(finished, [id |-> attempt.id, kind |-> attempt.kind,
                                     number |-> engine.number, current |-> scope.revision])
    /\ attempt' = None /\ engine' = [phase |-> "ready"]
    /\ UNCHANGED <<scope, editVars, status, given, local, stops>>

\* A stale route: the engine that works on the store itself captures the
\* settings again and repeats the route, a bounded number of times.  Through
\* the server the error arrives as text (HostTransport.request), and the
\* engine ends the run with it (finishAfterError).
RouteIsStale ==
    /\ Runs("executing") /\ status = "running" /\ Stale
    /\ IF local /\ engine.retries < MaxRouteRetries
       THEN /\ engine' = [phase |-> "rebound", number |-> scope.revision,
                          value |-> scope.value, retries |-> engine.retries + 1]
            /\ UNCHANGED status
       ELSE engine' = Stopped /\ status' = "failed"
    /\ UNCHANGED <<scope, editVars, attempt, given, finished, local, stops>>

\* settings_route_retried saves the new binding under the same attempt.
RepeatRoute ==
    /\ Runs("rebound") /\ status = "running"
    /\ attempt' = [attempt EXCEPT !.number = engine.number, !.value = engine.value]
    /\ engine' = [engine EXCEPT !.phase = "executing"]
    /\ Give(engine)
    /\ UNCHANGED <<scope, editVars, status, finished, local, stops>>

\* The run completes, fails or is cancelled.
EndRun ==
    /\ Accepts
    /\ status' = "ended" /\ engine' = Stopped
    /\ UNCHANGED <<scope, editVars, attempt, given, finished, local, stops>>

\* The runner exits or is paused; its run is claimed again later.
StopRunner ==
    /\ stops < MaxStops /\ ~Runs("stopped")
    /\ stops' = stops + 1 /\ engine' = Stopped
    /\ UNCHANGED <<scope, editVars, status, attempt, given, finished, local>>

\* The server crashes and starts again; what it was doing is lost, and
\* clients repeat what has no answer.
CrashServer ==
    /\ stops < MaxStops
    /\ \E q \in ChangeRequests : call[q] # Idle
    /\ stops' = stops + 1
    /\ call' = [q \in ChangeRequests |-> Idle]
    /\ broken' = broken \cup {q \in ChangeRequests : call[q].phase = "answering"}
    /\ engine' = IF local THEN engine ELSE Stopped
    /\ UNCHANGED <<scope, changes, sent, answer, status, attempt, given, finished, local>>

SettingsNext ==
    \/ \E q \in ChangeRequests : \/ SendChange(q) \/ ReadScope(q) \/ EnterStore(q)
                                \/ CommitChange(q) \/ StoreAnswer(q)
    \/ Capture \/ StartNode \/ Ask \/ TakeAnswer \/ ResumeRun
    \/ SettleStep \/ RouteIsStale \/ RepeatRoute
    \/ EndRun \/ StopRunner \/ CrashServer

-----------------------------------------------------------------------------
Committed(q) == {i \in DOMAIN changes : changes[i].request = q}

\* Changes and answers agree: the history is a chain from the first value to
\* the current one (verifySettingsProjections), a request changes the scope
\* at most once, and at the number it expected; an accepted answer has its
\* change, and a rejected one has none unless a crash fell between the commit
\* and the stored answer.
SettingsHistory ==
    /\ scope # None =>
         /\ scope.revision = Len(changes) /\ scope.value = ValueAt(Len(changes))
         /\ \A i \in DOMAIN changes :
              /\ changes[i].number = i /\ changes[i].before = ValueAt(i - 1)
              /\ Applies(changes[i].patch, ValueAt(i - 1))
    /\ \A q \in ChangeRequests :
         /\ Cardinality(Committed(q)) <= 1
         /\ \A i \in Committed(q) : sent[q].expected \in {None, i - 1}
         /\ answer[q] = "accepted" => Committed(q) # {}
         /\ answer[q] = "rejected" /\ q \notin broken => Committed(q) = {}

\* An attempt works with one document: whatever changes, crashes, parks and
\* answers lie between, its node is given the settings of the number saved
\* with it; only a route is given others.  A settled route is current.
AttemptKeepsItsSettings ==
    /\ attempt # None => attempt.value = ValueAt(attempt.number)
    /\ Runs("executing") /\ attempt.kind # "route" =>
         \A g \in given : g[1] = attempt.id => g[2] = attempt.value
    /\ \A i \in DOMAIN finished : LET s == finished[i] IN
         /\ <<s.id, ValueAt(s.number)>> \in given
         /\ s.kind # "route" => Cardinality({g \in given : g[1] = s.id}) = 1
         /\ s.kind = "route" => s.number = s.current
=============================================================================
