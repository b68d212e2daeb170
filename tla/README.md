# Verification of pi-workflows

pi-workflows runs typed workflows for Pi sessions.  A long-lived **workflow
server** owns one SQLite state database, claims queued runs under leases, and
spawns one **runner** process per claimed run.  A run can stop for a model
turn, a human decision, a pause or an external effect whose outcome is unknown,
and a later runner, perhaps of a later server, continues it from the last
durable boundary.  Around that stand the commands of clients, the messages and
turns of the Pi session, chat channels, managed resources, settings,
follow-ups, recordings, retention and views, and the workflows that come with
the program.

Source paths below are relative to the repository: `docs/...` as written, all
others under `src/`.

| file | what it models |
|---|---|
| `RunStore` | the rows of a run, one action per transaction |
| `RunServer` | server processes, their memory of claims, runners, client operations; extends `RunStore` |
| `RunStoreProofs`, `RunServerProofs` | theorems about the two, executing, paused and waiting runs among them, and that `RunServer` implements `RunStore` |
| `CommandOnce` | the abstract promise of the command log |
| `CommandLog` | clients, requests, servers and the command table; implements `CommandOnce` |
| `CommandLogProofs` | that it does, and that answers are true |
| `ServerOwnership` | lock file, server row and socket path of starting, frozen and dying servers |
| `SessionTurns` | prompts and model turns between the rows, the server, Pi's coordinator and Pi |
| `Settings` | settings of one scope, changed while attempts run |
| `FollowUps` | prompts queued behind a run |
| `Recording` | the recorder of a Pi session and its segments |
| `Prune` | state retention |
| `Views` | subscriptions, pages and the viewer |
| `Replay` | the recorded session as it is replayed: checkpoints and pages |
| `HeadlessRuns` | the processes and the steps of a run without a session |
| `SessionData` | the eight modules above as one specification |
| `SessionDataProofs` | theorems about settings, follow-ups, headless runs, retention and views |
| `PiSessionProofs` | theorems about what passes between the rows and Pi: complete captures are whole, the clock matches the turns, runs fail only after reminders |
| `ResourceManagers` | one managed resource, its passes, effects and child runs |
| `ResourceManagerProofs` | theorems about effects, deletion and status |
| `Channels` | decisions over a chat channel: server, adapter, chat |
| `ChannelsProofs` | the theorem that nothing is sent again by itself |
| `WorkflowRun` | steps, scopes and what a node of an included workflow may read |
| `ChangeVerification`, `PlanChange`, `AutoImplement`, `Monitor`, `SanityCheck` with `AgentGroup`, `Workspace` | the built-in workflows as roots |
| `BuiltinRuns` | a run of one of them |
| `BuiltinProofs` | one theorem about each of them |
| `MC*.tla`, `MC*.cfg` | the instances TLC checks |
| `PROJECT.json` | components, runs, mutants, source map, findings, hazards, theorems |

Run `tlc -config MCRunServer.cfg MCRunServer` for a run and
`tlapm RunStoreProofs.tla` for the proofs of a module.

## 1. Inventory

### The parts of the system

| part | source | state it keeps | hard behaviour | module |
|---|---|---|---|---|
| Run store | `workflows/queue.ts`, `workflows/store.ts`, `workflows/requests.ts`, `server/state.ts` | rows `runs`, `run_queue`, `leases`, `node_attempts`, `interactive_requests`, `interactive_submissions`, `effects` | several rows per transaction; callers with stale claims; leases that expire at any moment | `RunStore` |
| Workflow server | `server/server.ts` | `activeRuns`, `pendingRunClaims`, `blockedRuns`, timers | overlap of two servers, awaits between claim and activation, operations that race a runner | `RunServer` |
| Runner and engine | `workflows/engine.ts`, `workflows/transitions.ts`, `server/workflow-runner-entry.ts` | graph position in memory, commits in the store | each commit may be refused; it can die between any two | `RunServer`, `WorkflowRun`, `Settings`, `HeadlessRuns` |
| Server ownership | `server/lock.ts`, `server/state.ts`, `server/server-entry.ts` | lock file, row `workflow_server_state`, socket path | takeover of a frozen or dead server, file operations that are not atomic | `ServerOwnership` |
| Client commands | `client/client.ts`, `server/state.ts` | rows `server_commands`, requests in flight | lost responses, retries across servers | `CommandLog` |
| Messages and turns | `state/workflow-messages.ts`, `extension/workflow-message-coordinator.ts`, `server/view.ts` | rows `workflow_messages`, `workflow_turns`; coordinator memory in server and Pi | reports late, lost or repeated; restarts of either side | `SessionTurns` |
| Attempt time | `state/attempt-time.ts` | open intervals and their anchors | time counted while nothing works | `SessionTurns` |
| Recovery launches | `server/recovery.ts` | the turn after the end of a run | suspension and cancellation while it runs | `SessionTurns` |
| Effects | `workflows/store.ts`, `resource-managers/effects.ts`, `server/channel-effects.ts` | rows `effects`, `effect_attempts` | a crash between doing and recording | `RunServer`, `ResourceManagers`, `Channels` |
| Human decisions, channels | `workflows/human-decision.ts`, `channels/*`, `server/channel-supervisor.ts` | decisions, effects, cursor, adapter process | several places answer one question, updates delivered again, adapter restarts | `Channels` |
| Resource managers | `resource-managers/*`, `server/resource-runner-entry.ts` | resource and queue rows, lease, ensured child runs, finalizers | desired state changes under a pass | `ResourceManagers` |
| Settings | `workflows/settings.ts`, `workflows/store.ts`, `workflows/engine.ts` | settings document, change history | changes between reading and committing, attempts in flight | `Settings` |
| Follow-ups | `workflows/store.ts`, `server/view.ts` | rows `workflow_follow_ups` | Pi acts on old views | `FollowUps` |
| Session recording | `extension/recorder.ts`, `workflows/store.ts` | queue in Pi, segments in the store | failed and repeated requests, branch moves, handlers beside a slow bind | `Recording` |
| Prune, backup | `state/prune.ts` | rows and blobs it may delete | awaits between selection and deletion | `Prune` |
| Client views | `server/view.ts`, `client/client.ts`, `viewer/tui.ts` | revisions, subscriptions, pages | pages of several revisions, lost connections | `Views` |
| Composition | `workflows/composition.ts` | none (a projection of the steps) | repeated entry of a mounted workflow | `WorkflowRun` |
| Built-in workflows | `builtins/*` | outputs of their nodes | loops, gates that become stale, agents that fail or time out | see the file table |
| Child processes, headless Pi | `server/processes.ts`, `server/child-runner-supervisor.ts`, `server/rpc-executor.ts`, `workflows/shell.ts` | registry of process groups, what a runner waits for from its Pi | deaths between spawn and registration, reports of steps that are over | `HeadlessRuns` |
| JSON patch, control loop, graph | `workflows/json-patch.ts`, `control-loop.ts`, `graph.ts` | none | boundaries of data | none yet |
| Session replay | `workflows/session-reducer.ts`, `workflows/store.ts` | rows `session_events`, `viewer_session_checkpoints` | batches that end anywhere around a page boundary | `Replay` |
| Presentation | `render/*`, `herdr/*`, `extension/index.ts` | none | none that changes a run | none |

### How they interact

* A client sends a command over the socket; `executeCommand` runs the operation
  and stores its receipt in one transaction.  A client that finds nobody
  answering starts a server.
* The server's poll (`claimOne`, every 250 ms) claims a run, remembers the claim
  in `pendingRunClaims`, and activates it in an asynchronous task: effects of an
  earlier claim are recovered, the runner is spawned, `activeRuns` remembers it.
* The runner sends each commit to its server as a message; the server applies
  it in one transaction that first verifies the claim token
  (`verifyWorkflowRunClaim`, the store's write authority).
* A runner that needs an answer commits the request, the server parks the run
  and the runner exits.  An answer of the Pi session or of a channel changes
  only the request's rows; the poll finds it and claims the run again.
* The request of a model becomes a message row.  Pi's extension sees it in the
  session view, shows it, and reports over the socket that its branch holds it
  and that a turn started or ended; the server keeps a coordinator per session
  and sends a new view after every change.
* A server that dies keeps its leases until they expire, or until a new server
  starts and expires them (`recoverPreviousServer`).  A server whose row was
  taken over notices at its next heartbeat and stops, so both may act for a while.
* Channel adapters and resource runners are processes of the server as well;
  they report over a pipe and their effects are rows, so that a restart finds
  what may have happened.
* Follow-ups, recordings, views and retention read the rows of runs and never
  change whether or how a run executes.  The modules keep that separation.

### What makes each part correct

* *Run store*: run row and queue row agree; ended runs stay ended; a claim that
  was lost is lost; accepted answers reach their attempt once; a checkpoint
  blocks its run; one active run per session; restarts form a chain.
* *Server and runners*: one executor per run; nothing executes while paused;
  a runner only starts when no effect of its predecessor is uncertain; a waiting
  run has something that can end its wait.
* *Ownership*: somebody serves again whatever was left behind; the owner can be
  reached; who was superseded stops.
* *Commands*: a command takes effect once whatever is repeated, answers are
  true, callers do not wait for ever.
* *Messages, time*: a turn is given up again; time counts only while the
  model works for this attempt; reminders count real turns.
* *Effects*: never performed twice unless the operator says so; uncertain ones are shown.
* *Decisions*: whoever answers, the chat shows the end; no answer is skipped.
* *Resource managers*: no wake-up is lost; deletion leaves nothing; status is true.
* *Settings*: the history is a chain; an attempt keeps one document.
* *Follow-ups*: in order, after their run.  *Recording*: what is called complete
  is whole.  *Replay*: a page shows what the journal shows.  *Prune*: nothing in
  use goes.  *Views*: whole, newest, in the end.
* *Headless runs*: a step ends with its own output; one Pi works at a time, and no
  process works on unknown to the server; a stop is no outcome of a step.
* *Built-in workflows*: gates hold for what is delivered, loops end.

The hazards behind these, each at its line, are in `PROJECT.json`.

## 2. What is modelled

### RunStore: the rows and their transactions

`run[r]` is a record of the columns that decide anything.

| field | column |
|---|---|
| `status`, `paused`, `mode`, `session` | `runs.status`, `.paused`, the queue row's mode and origin session |
| `parent` | the run this one restarts |
| `queue`, `error` | `run_queue.status`, `.error_code` (codes nobody tests are `other`) |
| `gen`, `owner`, `live` | the lease: generation, owner, and whether `expires_at` is in the future |
| `request`, `kind` | the run's newest `interactive_requests` row: its status, with `consumed` for `consumed_at`, and whether it is a model turn (`agent`) or a decision (`checkpoint`) |
| `open` | the node attempt of that request is active |
| `submission` | the newest submission of that request |
| `effect` | an external effect that is not settled |

One action is one SQLite transaction, with everything it writes.  Most follow the
method of the same name: `ClaimNext`, `ClaimForControl`,
`ClaimForInteractionValidation`, `Park`, `ParkNoProgress`, `ParkAmbiguous`,
`PauseParked`, `ResumePausedInteraction`, `RequestResume`, `Fail`, `CancelHeld`,
`CancelUnowned`; the commits of a runner are `Initialize`, `RunStarted`,
`RunResumed`, `AnswerResume`, `AcceptSubmission`, `RejectSubmission`,
`ConsumeAnswer`, `EndAttempt`, `RequestInteraction`, `WaitForInput`,
`ReserveEffect`, `SettleEffect`, `FinishRun`.  `Next` lets **any** caller call
any of them with **any** claim generation ever handed out, so what holds of `Spec`
does not depend on what a server remembers or in what order it calls.

Abstractions, and why they are sound here:

* **Time.**  A lease is live until `Expire`, which may happen at any moment;
  renewing a live lease changes nothing.  The code compares `expires_at` with a
  clock in every transaction; both outcomes stay possible.
* **Tokens.**  A claim token is 32 random bytes, and each claim takes the next
  generation; the generation stands for the token.
* **One request per row.**  A run's earlier requests are settled or cancelled
  when a new one is created (a unique index allows one pending request), and no
  transaction looks at them again.
* **Kinds.**  A decision is a kind of checkpoint and an assistant turn a kind of
  agent request; the transactions modelled treat them alike.
* **Data.**  Payloads, snapshots, events, revisions and view deltas are left out.
  So is the runner's base revision: a commit with a stale one is refused, as
  is one without the claim.

`claimWorkflowRun`, `deleteWorkflowRun`, `completeWorkflowRun` and
`parkWorkflowRunForSourceChange` are not modelled: nothing in the program calls
them.

### RunServer: who calls them

`slot[o][r]` is what server process `o` remembers of its claim on run `r`: the
claim, how far its runner is, whether a client operation took over its end
(`ActiveRun.control`), and whether the run committed since the runner was ready.

| phase | code |
|---|---|
| `timeout`, `decision` | a control claim between its transaction and the next in `claimExpiredInteraction`, `expireTimedOutDecision` |
| `pending` | `pendingRunClaims`, until `activateRunNow` |
| `active` | in `activeRuns`, effects being recovered |
| `spawned` | no effect was uncertain, the runner is being spawned (`SpawnRunner`) and is not ready |
| `start`, `resume`, `candidate`, `graph`, `ambiguous`, `halted` | the runner: about to initialise, about to resume, in the attempt that has an answer, in the graph, having settled an effect as ambiguous, done |
| `exited`, `crashed`, `loadFailed` | the runner is gone, its exit is not handled |

`server[o]` is the life of the process (`new`, `up`, `stopping`, `down`),
`current` the owner of `workflow_server_state`, `blocked` the set
`blockedRuns`.  Every action takes a step of `RunStore` or leaves the rows
alone.  A runner's steps carry its server's claim, and the transaction's
own guard decides; a message that is refused is a step that cannot be taken, and
the runner then exits, is stopped by the heartbeat (`LoseClaim`) or is killed.

Abstractions: the order among claim sources and the limit `maxRunners` are left
open (any claim may be next); a new server may start at any moment, also while
the one before is up, which contains every takeover the lock allows; a server id
belongs to one process; the server's own claim-and-timeout pairs, synchronous in
the code, are two steps; the graph is the set of commits that may come next.

### CommandLog: commands take effect once

A command stands for its payload; commands in `Twins` share an idempotency key.
A client sends, loses the connection and repeats once (`requestDurable`); frames
of a closed connection may still be read.  The server finds the key in
`server_commands` and adopts, rejects or executes: in one transaction with the
receipt, as maintenance (an asynchronous operation first, the receipt after it),
or behind the session's coordinator.  Servers crash, stop, freeze and are
replaced, and a frozen one goes on with the requests it holds.  `CommandOnce` is
the promise for every command that is not maintenance: undecided, then decided
once together with its effect, and one of twins at most.  `OnceSpec` is
`CommandOnce` under the mapping that forgets clients, requests and servers.
For maintenance commands the promise is weaker and is stated by `AnswerIsTrue`.
Left out is the second half of `interaction.submit` and `interaction.assistant`
(`submitInteractionAndWait`): after the transaction that accepts the submission
for validation it polls the submission until the run has decided it or the server
stops.  The poll changes no state and has no end of its own, so `EveryRequestEnds`
does not speak of these two commands; what becomes of the submission is in
`RunStore` and `RunServer`.

### ServerOwnership: who is the server

One process slot per server process; every file operation and transaction of a
start (`lock.ts`, `server-entry.ts`), the heartbeat, the check of the socket
file, and a stop is a step.  The lock file names a process, the row an owner
with a lease, the socket file the listener that made it.  A closing listener
unlinks the path whoever owns the file by then, as libuv does.  `RunServer`
assumes less than this module shows: there a server may start at any moment.

### SessionTurns, Settings, FollowUps, Recording, Replay, Prune, Views, HeadlessRuns

They are eight modules with variables of their own.  In the code they share no
state that one would wait for, so `SessionData` gives each behaviour one *part*,
chosen in the initial state; the variables of the other parts stay as they are.

* **SessionTurns.**  One run that asks the model of one Pi session.  `db` holds the
  rows of its messages and turns and the state of the clock, `co` the server's
  coordinator entry, `view` what Pi was last sent, `wmc` the fields of
  `WorkflowMessageCoordinator`, `sync` the `synchronize` call in progress, `pi` the
  session.  Between two awaits of `synchronize` anything may happen: pause,
  resume, cancel, time limit, lost connection, restart of the server or of Pi,
  another branch, a turn of the user.  The answer to a report brings the view
  after it.  A report that throws is rolled back and answered with an error;
  `ReportsFit`, a part of `ClockMatchesTurn`, says which one can (a start of a prompt
  that was shown again meanwhile) and that no other does.  A turn whose message's
  branch was left before its entry was reported is held until Pi returns;
  `TurnsAreReleased` names that exception (`LeftBehind`).
* **Settings.**  A request to change settings reads the scope, enters the store,
  commits, and its answer is stored: four steps with the resolver and the
  parser awaited between them.  The engine captures the number for an
  attempt, saves it, starts the node, asks, is answered, resumed or stopped.
  The engine works on the store itself (`local`) or through a server.  A patch
  is a test of the document and a new document.
* **FollowUps.**  Follow-ups queue while the run is live, are removed or cancelled,
  and are shown once it has completed and its terminal turn is over; Pi acts on
  the view it has and reports what its branch holds.
* **Recording.**  `bind` is three requests; the handlers of Pi's hooks run beside
  it.  Events are queued, sent in batches with retry, and entries written by
  a chain of tasks; `finish` flushes, reads counts and closes the capture.
  A second segment appears when another owner records the run.
* **Replay.**  What the recorder reports of messages, their blocks and tool calls is
  appended to the run's journal; the append folds the journal up to every page
  boundary it reaches and saves what is still streaming there; a page is folded from
  the checkpoint before it.  `PageAgrees` compares every page with the fold of the
  whole journal.  One recorder and one tool call; settled entries are left out.
* **Prune.**  A run is its rows; a tree is a run and what restarts it.  The manual
  prune selects, waits for the backup, selects again and deletes; the
  automatic one does one tree at a time and yields.  Blobs are cited by rows or
  promised to the runner that is about to commit them.
* **Views.**  A snapshot or a page is the revision it was read at.  The server
  pushes a snapshot when its projection changed, the client asks for the pages
  behind it, and the viewer switches between list and run; connections,
  servers and projections fail, and reconnection is tried `MaxTries` times.
* **HeadlessRuns.**  A runner spawns one Pi for all its agent steps, prompts it, and
  takes its reports from one buffer in which late ones wait; a step is accepted,
  rejected, fails or times out, a shell step runs its command in a group of its own.  Server, runner
  and Pi die between any two steps; a server that starts reaps the groups the
  registry names.  Left out: updates of a step, the window between the spawn of a
  runner and its own registration, what commands do, process ids used again.

### ResourceManagers

One resource with its row, its queue row, its lease, and per generation of its
spec one effect and one child run.  A pass is claimed, reads the resource once,
runs in a process (observe, apply, ensure the child, finalize), and reports;
meanwhile the spec changes, deletion is requested, children end, the pass
throws, times out with its effect in flight, loses its claim, or dies with its
server.  A server that dies or stops while the source of a child run is resolved
may still insert that run, without its link; a stop returns the key at once, or
later when it counts the end of the runner as a failure.  What the manager decides is not part of the program; the model's
manager follows `docs/RESOURCE_MANAGERS.md` and observes reliably.

### Channels

One Telegram profile, its decisions with their `delivery` and `settlement`
effects, the cursor, the configuration in memory and on disk, the adapter
process and what the server knows of it, and restart timers.  People press
buttons, Pi answers, deadlines pass, runs are cancelled, an operator retries or
confirms an ambiguous send, adapter and server die at any step.

### The built-in workflows

`WorkflowRun` is what the engine keeps: the current node and the steps recorded.
A node is named by its scope and local name; `Output` reads the projection that
`projectWorkflowContext` gives a node of an included workflow.  Each workflow has
a module with one action per node that decides (agents answer, fail or time out
as they like); an included workflow is taken by its exits unless it has a module
of its own in the same root.

* `ChangeVerification`: checks on candidate and base (whose worktree may be left
  behind, which goes to the judge), the judge, mechanical and agent repairs, and
  the reconciliation of an interrupted repair.
* `PlanChange`: design, documentation and approval with replans; every node reads
  through the projection, past earlier rounds.
* `AutoImplement`: the controller and its branches; `gates` is a ghost
  that says what holds of the content to be delivered.
* `Monitor`: observation, waiting, one action, and repair.
* `SanityCheck` over `AgentGroup`: `runPiAgentGroup` with slots, aborts, time
  limits, fail-fast and a cancelled node that is left before its agents settle.
* `Workspace`: a checkout in which a person works between the nodes.

`BuiltinRuns` chooses the root in the initial state.

## 3. The runs

Deadlock is not checked: each system really stops, when runs have ended, servers
are down or a bound is used up.

| run | instance | states | what it shows |
|---|---|---|---|
| `store` | 1 run, 2 owners, `MaxGeneration` 4; or 3 runs of 1 session with one generation each; symmetry | 480 073 | outcomes agree, an accepted answer stays until its attempt takes it, sessions are exclusive |
| `server` | 1 run, 2 servers, `MaxGeneration` 3; or 2 runs of 1 session; symmetry | 2 767 005 | one executor, nothing executes while paused, execution meets a live run, effects are resolved before a runner starts, waiting runs have something to wait for |
| `command_log` | 2 commands with one key, one of them maintenance, one needing the session first; 2 servers | 231 038 | implements `CommandOnce`; answers are true; every request ends |
| `ownership` | 2 process slots, 2 attempts at the lock, 2 faults | 463 050 | a server answers again and again, the owner is reachable, the superseded stops |
| `session_data` | bounds below | 1 619 761 | the eight parts |
| `builtins` | bounds below | 1 179 119 | six built-in workflows |
| `managers` | 2 generations, 2 faults, 1 event | 1 633 468 | one effect per key, deletion leaves nothing, status is true, no wake-up is lost |
| `channels` | 1 decision, 2 presses, 2 faults, 2 reloads, 2 attempts | 1 055 551 | nothing is sent again by itself, an ended decision is settled in the chat |

Four more runs check one statement of the repository each that TLC finds violated
(*Findings*).

### Bounds

*Store and server.*  `MaxGeneration` bounds the claims of a run; `CancelUnowned`,
whose generation ends the run, may take one more.  Properties compare at most a
claim with the one that fenced it; three claims are a request, its answer and a
third that meets what the second left, and the store run has one to spare.  The
transactions of two runs meet only in the session index and in a restart's
parent: three runs are a parent, its restart and a rival, and there a single
generation ends a run.  `StoreBound` and `ServerBound` therefore let either one
run have its long life or several runs short ones.  Two owners are a server and
its replacement.  The theorems of section 5 hold without these bounds.  Symmetry
permutes run ids, which no action or property orders or names.

*Commands.*  Two attempts per command are what `requestDurable` makes; two
commands with one key are enough for every conflict between keys; the second
server is the one that replaces a frozen one.

*Ownership.*  Two faults are a crash or freeze of a server and one of its
successor while it takes over.  A slot is used again after its process ended, so
the number of processes is not bounded.

*Session data.*  Turns: 2 turns, 1 reminder, 1 fault of any kind and 1 control, and 3
of these together (`MaxHappenings`): two turns with a fault or a control, or one
turn with both.  A run fails for want of a submission after a turn, a reminder and
the turn it asked for (`Remind` with `Over(db')`), so a second turn is needed, and a
fault beside it makes one of the two a turn that must not count (the mutant
`UnproductiveOrLost`); one fault in every await is what the code has to survive.
Two turns with a fault and a control are left to the theorems on `ClockMatchesTurn`
and `FailsAfterReminders`, which know no bound; `TurnsAreReleased` is not checked
there.  Settings: 2 requests, one
attempt, 1 stop, 1 route retry: two requests race each other and the attempt.
Follow-ups: 3, so that one can be removed between two, and 1 restart of Pi.
Recording: 1 turn, 2 messages, 1 tool, batches of 2, a queue of 4, 1 fault: enough
for two batches in order, for a full queue and for a branch that is left.
Prune: 3 runs, 1 blob, 1 crash: a parent, its restart and a run that shares the
blob.  Views: 2 pages, 2 tries, 2 unread snapshots, 2 changes, 2 faults, 2
switches: a page of an old revision behind a snapshot of a new one, twice.
Replay: pages of 2, 7 events, 2 messages: three boundaries, batches that skip some,
and a message that is over while the next one streams.
Headless: 2 runners, 2 steps, 1 report that nobody took, 2 faults of servers: a
report of the first step that waits for the second, a runner that follows one that
died, and a server that dies before it has cleaned up after another.

*Built-ins.*  2 checks, 2 plans, 1 replan allowed and 3 asked for, 2 faults and 4
observations of a monitor, groups of at most 3 agents (`runReviews` makes one or
three), 3 branches.  The limits of the code itself (40 decisions, 3 failures, 3
attempts without progress, 2 repairs) are kept as they are.

*Managers.*  Two generations are a change of the spec under a pass; two faults
are a pass given up with its effect in flight and a server that dies before the
next one ends.  *Channels.*  One decision with reloads and retries; two decisions,
where the order of answers matters, are in `received_answer`, without reloads (all of it
together is more than ten million states).

### Mutants

Every property of a passing run has a mutant in `PROJECT.json`: the definitions
named *Variant* in the modules are the code with a plausible bug (a claim that
keeps its generation, a scheduler that ignores the pause, a report taken without
looking at its step, a checkpoint of a replay that forgets saved events, a capture closed over a failed batch, a gate left open by a late
edit, ...) and the property fails with it.  No specification here uses them.

### Findings

Four runs check a statement of the repository that TLC finds violated.

* `paused_resumable`.  `docs/WORKFLOW_SERVER.md:429` says that resume clears a
  pause in place or takes a new generation.  A pause that commits while a runner
  validates an answer leaves the run `running`, parked, paused, with a pending
  request: `resumePausedInteraction` wants `waiting`, `requestWorkflowRunResume`
  wants no pending request, and the answer's claim skips paused runs.  The run
  can only be cancelled.
* `received_answer`.  The cursor of a poll is stored before its updates are
  handled; an update the server refuses (a late answer) makes the adapter exit,
  and a valid answer behind it in the same poll is never fetched again
  (`server/server.ts:3065`; `docs/SQLITE_STATE.md:141`).
* `shutdown`.  `stop` signals the runner while its claim is live and parks the run
  after the runner has exited (`server/server.ts:446`).  The runner's handler closes
  its Pi, the step that waits fails (`server/rpc-executor.ts:252`), and the engine
  commits that failure and goes on from it, although a shutdown is not a terminal
  outcome and pure work can run again (`docs/WORKFLOWS.md:175`,
  `docs/DEFERRED_TURNS.md:12`).
* `earlier_segment`.  The recorder is handed out while its `bind` is under way, and
  kept when it fails; entries then go to the run's first segment, which may be
  complete (`extension/recorder.ts:150`; `docs/SESSION_EVENT_JOURNAL.md:27`).

Seen while modelling, without a run of their own:

*Runs and server.*
* A resumed run with an ambiguous effect is `waiting`;
  `parkWorkflowRunForAmbiguousEffect` updates `runs` only when it is `running`
  (`workflows/queue.ts:1349`) and throws, in the activation and again in the
  recovery of the exit, although its comment (`:1360`) says that a live claim
  makes both updates apply.
* `workflows/diagnostics.ts:39` reports a pending request without an active
  attempt, which an attempt that times out during validation leaves;
  `:32` reports a waiting run without a request, which every run parked for an
  ambiguous effect is.  `WaitingForAnswer` has that exception.
* `run.resume` answers that the run is already running while the runner a pause
  just fenced is still being stopped.  `docs/WORKFLOW_SERVER.md:179` says a changed
  source parks the run where the code fails it.
* `docs/SQLITE_STATE.md:139` and `docs/WORKFLOW_SERVER.md:401` say that the end of a
  run ends its open turns as lost; `applyLifecycleProjection`
  (`server/server.ts:4757`) keeps them until Pi reports their end, as its comment
  says.

* The poll looks at the first expired request only (`server/server.ts:3973`).  A run
  left `running` and parked with a pending request and a closed attempt makes
  `beginWorkflowRunInteractionTimeout` throw at every poll
  (`workflows/queue.ts:883`), and the expired requests behind it wait.
* A shell command runs in a group of its own that is not registered
  (`workflows/shell.ts:83`): it outlives a runner that dies, and a stop of the server
  (`docs/WORKFLOWS.md:844`).

*Sessions.*
* A started turn does not always end (`docs/WORKFLOW_SERVER.md:305`): the branch
  report that closes it needs an idle Pi (`server/server.ts:1170`), and a busy Pi
  takes the turn up again only while its newest input is that turn's message
  (`extension/workflow-message-coordinator.ts:215`).
* `flushTurn` waits while the view names the message of the turn and does not say
  that it was sent (`extension/workflow-message-coordinator.ts:405`).  If the user left
  the branch before the entry was reported, no report can confirm it, the view goes
  on naming it, and Pi delivers nothing until it is restarted or the user returns; the
  comment at `:414` says that a turn can never wait like that.
* A start that Pi reports after its prompt was reopened for a branch it had left is
  refused with an error, and the turn waits in the same way.
* `server/recovery.ts:97` says that no continuation will start after a cancelled
  recovery; a pending terminal message is still shown (`server/view.ts:1218`).
* A removed follow-up may still get a turn, which is then aborted.  A follow-up's
  turn can start while another run of the session is live
  (`docs/2026-08-25-workflow-follow-ups.md:77`, `docs/WORKFLOWS.md:312`).  A delivered
  follow-up whose turn is lost before its start blocks the later ones.  The
  cancel paths of the queue (`workflows/queue.ts:1494`) leave follow-up rows
  `queued` with cancelled messages.

*Settings.*
* A request repeated after a crash between its commit and its answer, whose
  patch no longer applies, is answered as rejected although it was applied.
* A settings route whose number is stale is repeated only for a
  `StaleResourceError`; in a runner every refusal is a plain `Error`
  (`server/workflow-runner-entry.ts:91`), so the run fails
  (`workflows/engine.ts:632`; `docs/2026-08-25-workflow-settings.md:143`).
* The transfer of settings scopes to a continuation run
  (`docs/WORKFLOW_COMPOSITION.md:223`) is not in the code.  The resolver checks
  session patches with the actor `resource_manager` (`resolver-entry.ts:125`).

*Recording, replay, retention, views.*
* Every recorder numbers its messages from `m1` (`extension/recorder.ts:124`), and the
  journal of a run joins its segments: the fold takes the messages of a second
  recorder for those of the first, and shows them as one
  (`docs/plans/2026-07-30-session-event-replay-plan.md:188`).  A checkpoint keeps a
  running tool call only while its message streams (`workflows/store.ts:4855`); Pi
  runs most calls after the message is over, and a page that starts then has lost
  the call (`docs/LIVE_REPLAY_PROTOCOL.md:93`).
* Between `writeSessionBinding` and `writeSessionCapture` the counts of a batch
  are overwritten by 0; a crash of Pi leaves its segment `recording` for good.
* Nothing removes `<database>.maintenance.lock` after a crash during a prune, so
  every later prune is refused (`state/prune.ts:171`, `:752`).  Trees with
  delivered follow-ups, with pending decision effects or with channel messages are
  never pruned.
* Message rows change without a delta for viewers (`client/materialize.ts:22`).  A
  connection lost while the viewer switches its view ends the viewer
  (`viewer/tui.ts:94`, `:145`); two key presses during one `unsubscribe` leave two
  subscriptions; the viewer does not subscribe again after a projection failed.

*Resource managers.*
* A child run that `run.cancel` ends while it waits is never recorded as ended:
  `completeResourceManagerWorkflow` is called for snapshots of a runner only
  (`server/server.ts:4757`), and `workflows.ensure` returns the old record
  (`resource-managers/workflows.ts:148`; `docs/RESOURCE_MANAGERS.md:168`).
  `EventuallyReconciled` has that exception.
* An `indeterminate` effect is returned without a new observation
  (`server/resource-runner-entry.ts:125`), against the docs.  The error count grows
  on every requeue, and the backoff has no jitter.  A deleted resource cannot be
  put again, since its `resources` row stays.

*Channels.*
* Telegram answers are accepted while the run is paused
  (`docs/WORKFLOW_SERVER.md:429`).  An adapter that fails before it is ready is not
  started again.  A button whose callback Telegram refuses makes every poll throw.
  Resuming a message whose next part is provably unsent (`docs/HUMAN_DECISIONS.md:311`) is not
  implemented.

*Built-in workflows.*
* `replanGuard` (`plan-change.workflow.ts:303`) counts steps that the projection
  hides from it; the count is always 0 and `maxReplans`
  (`docs/plans/2026-08-21-plan-change-approval-policy-plan.md:61`) bounds nothing.
  Every replan is a person's answer.
* A blocker of a branch ends autoimplement in several branches
  (`autoimplement.workflow.ts:833`; `docs/WORKFLOWS.md:762`), and a critical verdict
  is not always reviewed again (`docs/WORKFLOWS.md:758`).  40 decisions can exceed
  the root's 320 steps.
* `change-verification` may report the reason of an earlier judgement, and may be
  ready with related failures
  (`docs/plans/2026-08-24-change-scoped-verification-plan.md:135`).
* Workspace preparation compares with the base, not with the default branch
  (`workspace-preparation.workflow.ts:407`, `:431`; `docs/WORKFLOWS.md:746`), and
  `git switch -c` carries along what a person edited meanwhile.
* A sanity-check whose node is cut off leaves tracks `running`, since the engine
  leaves at once (`workflows/engine.ts:1046`; `docs/WORKFLOWS.md:791`).

## 4. Fairness

The safety runs need none.  Where liveness is checked, only what the program
itself does is fair; nobody has to press, answer, pause, resume or cancel.

| specification | assumed | because |
|---|---|---|
| `CommandLog` | a live server reads its sockets and finishes operations; an answer arrives while the connection lasts; the socket of a dead process closes | event loop, operating system |
| `ServerOwnership` | a live process takes its next step, its timers fire, a frozen one wakes up, a lease nobody renews runs out, clients start a server while none answers | timers; `client.ts` starts one for every request that finds nobody |
| turns | reconnection, calls answered, views sent, `synchronize` polled, a model turn ends, a runner hands over or finishes | intervals of both sides; time limits of turns |
| `Views` | the server polls its projection and answers, the socket delivers, the reconnect timer fires; the server need **not** come back | intervals |
| `BuiltinRuns` | the engine goes on, nodes end at their time limit, sessions answer or are aborted | `executeGraph`, node timeouts |
| `ResourceManagers` | a server that is up serves, delays pass, a runner goes on, a queued child ends or waits, some client starts a server that is down | poll, timers, time limits, the client |
| `Channels` | the adapter goes on, the server handles what happened, a stopped adapter ends or is killed, a server is started | event loops, kill timer, the client |

The other parts of `SessionData` have none.  All of it is weak fairness: each action stays enabled until it is taken, or what
disables it answers the question.  Faults are bounded and unfair.  Nothing
justifies fairness of people, of leases that are renewed, or of an order of
claims.

## 5. What is proved

All theorems hold for every value of the constants: every number of runs,
sessions, servers, claims, commands, generations, decisions, agents, plans and
faults.  They assume of the constants only this, and TLC evaluates it in the runs:

| assumption | says | used by |
|---|---|---|
| `RunStoreAssumption` | `MaxGeneration` is a natural number, `None` no run, session or owner | `RunStore`, `RunServer` |
| `ChannelsAssumption` | decisions are numbered, a message is attempted at least once | `Channels` |
| `GroupAssumption` | a group has room for an agent; `None` (`undefined`) is no index and no outcome | `SanityCheck` |
| `PlanAssumption` | `None` is no plan | `PlanChange` |
| `SettingsAssumption` | requests are patches with an expected number or without; `None` is no number, request, answer or record | `SessionData` |
| `FollowUpsAssumption` | the bound on follow-ups is a natural number; `None` is no message and no view | `SessionData` |
| `RecordingAssumption` | the bound on a batch is a natural number; `None` is no number, list of numbers or segment | `SessionData` |
| `SessionDataAssumption` | the bounds on reminders, faults, controls and their sum are natural numbers, and there is room for a turn | `SessionData` |
| `ViewsAssumption`, `HeadlessAssumption` | the bounds on pages, runners and steps are natural numbers | `SessionData` |

`RunStoreProofs`:

| theorem | property | meaning |
|---|---|---|
| `TypeCorrectness` | `TypeOK` | every transaction writes values of its columns |
| `TerminalRowsAgree` | `TerminalAgreement` | run row and queue row agree on whether and how a run ended; nobody owns an ended run |
| `AcceptedAnswerHasAttempt` | `AcceptedAnswer` | settled requests are those with an accepted submission; an answer that waits has an attempt to consume it |
| `PendingCheckpointBlocks` | `CheckpointBlocks` | a run with a pending checkpoint waits for it |
| `ClaimsAreFenced` | `ClaimLossIsFinal` | a claim that failed to verify once never verifies again |
| `TerminalRunsStay` | `TerminalIsFinal` | nothing changes a run that ended |
| `AnswersAreKept` | `AnswerIsFinal` | an accepted answer stays until its attempt consumes it under the live claim |
| `OneActiveRunPerSession` | `OneActivePerSession` | sessions are exclusive |
| `RestartsAreLinear` | `RestartLineage` | restarts hang under ended runs, one under each |

The inductive invariant is `GoodRows`: every row is `Good`, a conjunction of
properties of one row.  Two conjuncts are no property of interest but are needed:
`OwnedRow` (an owned run is active, so that a claim that verifies belongs to a
run that has not ended) and `AbsentRow` (an unused id has no columns set, so that
a reservation starts from nothing).  Since every transaction but `ExpireOwner`
writes one row, one step lemma per group of transactions (`HeldStep`,
`UnheldStep`, `ClaimingStep`) shows `RowStep`: the new row is good and the step
keeps ended runs, fenced claims and accepted answers.  All row properties follow
from it, action properties included.  The two properties that relate rows need
only what a step does to other rows' session, parent and activity.

`RunServerProofs`:

| theorem | property | meaning |
|---|---|---|
| `ServerTypeCorrectness` | `ServerTypeOK` | types of rows and server memory |
| `AtMostOneExecutor` | `OneExecutor` | of the claims all servers remember for a run, at most one verifies |
| `OneExecutorInSession` | `OneExecutorPerSession` | the same for the interactive runs of a Pi session |
| `ServersImplementStore` | `ServerSpec => Spec` | every step of a server is a transaction of the store or leaves the rows alone |
| `ServersKeepRuns` | the properties of `RunStore` | so they hold while servers drive the rows |

`OneExecutor` is not inductive: that two remembered claims never both verify
needs that they are *different* claims.  `SlotClaims` says so (a remembered
generation is at most the lease's, and two servers that are not idle on a run
remember different ones), and survives because a claim takes a generation
above all remembered ones.

Four more theorems of `RunServerProofs` are about what runs do:

| theorem | property | meaning |
|---|---|---|
| `PausedRunsRest` | `PausedDoesNotExecute` | a paused run is parked, and no runner of it holds a claim that verifies |
| `ExecutingRunsRun` | `ExecutionIsLive` | a runner whose claim verifies meets a running row, the attempt it resumed is open, and no request waits beside it |
| `EffectsAreResolved` | `EffectsResolvedBeforeRun` | a runner is spawned, starts or resumes only when no effect of an earlier claim is unsettled |
| `WaitingRunsAreAnswerable` | `WaitingForAnswer` | a waiting run has a request to be answered, an answer to be consumed, or an ambiguous effect |

None of the four is inductive: each speaks of a claim that verifies in one phase,
and the phases follow each other.  `ExecutionInv` says for every phase what a claim
that verifies in it implies of its row (`PhaseRow`), and what holds of a row
whoever has it (`WaitingRow`).  A step of somebody else either takes the claim away or
changes next to nothing (`QuietStep`); a step of the claim's own server moves to
a phase whose clause the transaction establishes.

`CommandLogProofs`:

| theorem | property | meaning |
|---|---|---|
| `AnswersAreTrue` | `AnswerIsTrue` | a client that was told of a success finds it recorded, and its own effect took place |
| `LogImplementsOnce` | `OnceSpec` | the log implements `CommandOnce`: initial states map to initial states, every step to a step or a stutter |

`LogInv` relates the log to the ghost `applied`: nobody is told of a success that is
not recorded, no success is recorded without its effect, only maintenance is at work
outside a transaction, and every other command took effect exactly once if it is
recorded as accepted and not at all otherwise.  The last part is the refinement.

`ResourceManagerProofs`:

| theorem | property | meaning |
|---|---|---|
| `AlwaysManagerInv` | `ManagerInv` | the inductive invariant |
| `EffectsOnce` | `EffectOnce` | the effect of a generation reaches the other system at most once |
| `StatusIsTrue` | `AppliedIsTrue` | a status that says applied names a generation whose effect was |
| `DeletionIsClean` | `GoneLeavesNothing` | a resource that is gone left no effect behind and none under way |

`ManagerInv` says what a pass may assume at each step (`PassInv`): a pass about to
apply its effect, or a pass given up whose code may still apply it, finds the effect
recorded and not applied (`ApplyOnce`), so that no other pass of that resource may
run beside such code; a pass that works has the finalizer, and one that removes it has
cleaned up (`CleanDeletion`).

`ChannelsProofs`:

| theorem | property | meaning |
|---|---|---|
| `SentOncePerAttempt` | `NeverResentAlone` | Telegram is called at most once for each attempt, and only the operator starts a further one |

`ChannelInv` says who may know of an attempt that is not confirmed: a server that is up
has it in flight (`SendRows`), and its adapter has no other one in hand (`AdapterRow`).

`BuiltinProofs`, for `Spec` of `BuiltinRuns`:

| theorem | property | meaning |
|---|---|---|
| `RepairsSettle` | `SettledBeforeWork` | no check and no repair works beside the commands of an interrupted repair |
| `GroupsSettle` | `GroupSettles` | sessions settle before they are disposed of; a group that completed has the result of every agent; nobody works on once the group has its result |
| `DeliveryIsGated` | `GatesHold` | what autoimplement publishes is verified, what it delivers also pushed, reviewed, answered and passed by CI |
| `FaultsAreRepairedOnce` | `OneRepairPerFault` | the monitor repairs a fault once |
| `DirectWorkIsAuthorized` | `AuthorizedDirectWork` | a workspace on the base branch was authorized by its request |
| `PlansAreApproved` | `ReadyPlanIsApproved` | a ready plan is the latest round's, held by the documents, and let through the way the mode allows |

`StepOfRoot` separates the six: a step of one workflow leaves the variables of the
others alone.  Each has an inductive invariant.  `VerificationInv` says where a repair
may be unsettled at all.  `GroupInv` adds that requests are taken in order and that
nobody is cancelled before the node or the first failure cancels.  `ImplementInv`
carries the gates from one round to the next: every route that the last result leaves
open, and every route in the controller's hands, is one whose gates hold
(`RoutesAreGated`).  `MonitorInv` is about the history: a repair was asked for by the
observation before it, and an observation that asks for a finished repair again is
the last one and ends the run (`ReturnsStop`).  `WorkspaceInv` follows the authority
from the request to the receipt.  `PlanInv` says for every node of plan-change what
the projection shows it.  The proofs about projections rest on lemmas on
`LatestStep`, `Output`, `Input` and `MountOutput`: after some steps are recorded they show
the last of those, or what they showed before (`LatestStepIs`,
`LatestStepIsUnique`, `Recorded`, `NotRecorded`, `ShownStays`).

`SessionDataProofs`, for `Spec` of `SessionData`:

| theorem | property | meaning |
|---|---|---|
| `ChangesAndAnswersAgree` | `SettingsHistory` | changes of a scope chain, a request makes at most one, and its answer says which |
| `AttemptsKeepTheirSettings` | `AttemptKeepsItsSettings` | an attempt works with the settings it was bound to |
| `FollowUpsComeInOrder` | `FollowUpsInOrder` | a follow-up has a turn only after its run has completed and all before it are settled |
| `OutputsAreOfTheirStep` | `OutputIsOfStep` | an accepted headless step has an output submitted for its own request |
| `OneWorks` | `OneAtWork` | one Pi works for a headless run, and it is in the register that reaps it |
| `PrunesAreSafe` | `PruneKeepsWhatIsUsed` | a prune takes no blob and no run that is in use |
| `ViewsAreWhole` | `ShownIsWhole` | a complete view is of one revision, and none replaces a newer one |

Every part has an inductive invariant of its own variables (a step of another part
leaves them alone).  `SettingsInv` says of each request how far it is and whether the
history has its change already, and of each phase of the engine which change its
binding comes from; what an attempt was *given* is kept after it is over, since a
route retry may read the scope again.  `FollowInv` says that whatever may still start a
turn of a follow-up (its message, the copy Pi was shown, its entry on the branch, the
turn Pi is about to start) is there only once the follow-up is `Ready`, and that being
ready is never undone.  `HeadlessInv` follows the Pi of the last runner through its
registration: before its registration is answered it was asked for nothing, from then
on it is in the register (`RunnerRow`), and of runners to come nothing is there
(`FutureRow`).  That the register reaps the previous runner's Pi before the next
one starts is what `OneWorks` needs; `TakeMatches` is the lemma about the buffer of
reports.  `PruneInv` adds that only live runs have an active runner; `SelectedTrees`
shows that the trees of `selectRunTrees` exist and are closed under restarts, so that
a deletion leaves no restart without the run it restarts.  `ViewInv` says that
snapshots arrive in the order of their revisions, above everything shown and
everything being collected (`WireRow`), and that a collection has one revision
(`LoadsRow`).

`PiSessionProofs`, for `Spec` of `SessionData`:

| theorem | property | meaning |
|---|---|---|
| `TurnsAgree` | `TurnInv` | rows, the server's entry of the connected Pi, Pi's memory and its calls agree |
| `ClockMatchesTurnHolds` | `ClockMatchesTurn` | the clock of an attempt runs exactly while a connected Pi works for its request, and only one report of Pi can contradict the rows |
| `FailsAfterRemindersHolds` | `FailsAfterReminders` | a run fails for want of a submission only after more ended turns than reminders |
| `CapturesAreWhole` | `CompleteCaptureIsWhole` | a capture marked complete has every event the recorder was shown, once and in order, and its events name saved entries |

An event is in one of three places: on its way in the recorder's queue, in the batch in
flight, or in the segment.  `RecordInv` numbers all three from what has been handed
over (`QueueRow`, `BoundRow`), says that what the recorder holds to be recorded is saved in
the segment it is bound to, and that it has sent nothing before it is bound
(`BindingTakesPlace`).  That a segment is complete only once nothing is on its way is
`StopRow` with `BoundRow`.  As in the property, all of this is up to `early`: a
recorder that wrote before `bind()` was done is the violation `MCEarlierSegment`.

The turns need more, because Pi acts on views and answers that are old: `TurnInv`
says of each of them what the rows may have become since.  Its parts:

* `GoodRows`: a turn is of a message that was sent and one is open at a time
  (`TurnRows`); an open clock has its start in memory and, while the request waits, an
  open turn of a run that is not paused (`RunRow`); each reminder names a different
  ended turn of an earlier prompt (`ReminderRows`).
* `CoordinatorRow`: what the server knows of the connected Pi.  Until Pi has
  reported, an open turn's attempt is interrupted; from then on no turn is open while
  Pi is idle, and its clock runs while Pi is busy.
* `PiRows`: the view names a message that exists and, if it was sent, one that
  `WasSent` (`ViewRow`); the turn Pi owns is the only one that may be open, and if the
  rows have an end of it, it is the end Pi settled (`OwnedRow`); a view shows the turn
  Pi does not own (`ShownRow`); each call says what one of these allows (`CallRow`).

Every transaction of the server is shown once to keep what was sent and what has
ended (`Keeps`, `Follows`), and `PiStays` shows that what Pi knows survives any rows
that follow.  What is left for each action of Pi is what that action itself learns.  `WasSent`
is where the invariant is as weak as the code: a prompt that Pi saw as sent may have
been reopened as `resumed` when its turn was lost, so that the start of a turn on it is refused.
`ReportServed` shows that no other report is (`ReportsFit`).  `FailsAfterRemindersHolds`
counts: reminders inject into the ended turns other than the one that asks for the next
(`RemindersSpent`).

Every inductive invariant was checked by TLC on the instance of its run before it
was proved.  `TypeOK`, `AcceptedAnswer`, `CheckpointBlocks`, `ClaimLossIsFinal`, `TerminalIsFinal`,
`RestartLineage`, `ServerTypeOK`, `OneExecutorPerSession` and the inductive
invariants are proved for every instance and have no separate check in the runs.

Only model-checked: `PageAgrees` of `SessionData` (it is about a fold over a journal
of any length, which needs induction over data); every liveness property
(`RunEnds`, `EveryRequestEnds` and their like, liveness under fairness and `ENABLED`
being out of the prover's reach); and the violations.

## 6. Plan

What is left, in the order of importance.

1. **Scheduling.**  `maxRunners` and the order of claim sources, then liveness of
   the scheduler: a claimable run of a server that stays up is claimed, an
   accepted answer is consumed, every exit is handled.
2. **Chains**: recovery runs under one root and the cancellation of the root; the
   operator's recovery of a run's effects.
3. **Algorithms**: JSON patch, control loop and routing as operators against
   reference definitions on bounded inputs.

## 7. What is not modelled, and why

* *Planned*: section 6.
* *External*: SQLite, Pi, Telegram, the operating system and git are modelled by
  what the code relies on; a resource manager's decisions by its documentation.
* *Several of one kind*: one session, one resource key, one Telegram profile, one
  settings scope and one repository each; the code keys everything by them and the
  instances share nothing but the process limit.
* *Child processes*: `HeadlessRuns` has the registry and the reaping of groups;
  process ids used again, and the check of a process's start time that guards
  against them (`server/processes.ts`), are left out.
* *Content*: payloads, digests, sizes, rendering, the Pi extension's cards and
  shortcuts, Herdr, commands and the command line decide nothing about a run.
* *The wait for a verdict*: the poll of `submitInteractionAndWait`, which changes
  nothing and answers when the run has decided the submission (`CommandLog`).
* *Sums*: active time, backoff lengths and error counts; the modules have when
  an interval is open and that a delay passes.
* Package plumbing, examples and vendored code.
