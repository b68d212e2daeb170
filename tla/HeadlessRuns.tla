---------------------------- MODULE HeadlessRuns ----------------------------
(***************************************************************************)
(* One run in headless mode as processes: the server, which supervises a   *)
(* runner and keeps the register of processes it would have to reap; the   *)
(* runner, whose engine takes one step after the other and whose executor  *)
(* drives one Pi child; that Pi, which is external, and what it starts;    *)
(* and the shell commands of action nodes.  A process may die at any point,*)
(* and what it started stays behind.                                       *)
(*                                                                         *)
(* The pipe between runner and server keeps the order of requests, so the  *)
(* runner's commits wait while the registration of its Pi is under way,    *)
(* and a request and its answer are one step.  What a commit may be refused*)
(* for besides a lost claim, and which exits park the run instead of       *)
(* running it again, is in RunServer and RunStore.  Step updates, which    *)
(* take the same way as submissions, are left out, and a server that dies  *)
(* between starting a runner and registering it.                           *)
(***************************************************************************)
EXTENDS Naturals, Sequences

CONSTANTS MaxRunners,       \* bound: runners started for the run
          MaxSteps,         \* bound: attempts of nodes
          MaxReports,       \* bound: reports of Pi that nobody took yet
          MaxServerFaults   \* bound: crashes and stops of the server

VARIABLES
    srv,        \* the server: "up", "stopping" or "down"
    registry,   \* server.children.json, and its copy in the server
    owned,      \* runnerDescendants has the Pi of the runner
    sup,        \* the runner's supervisor: "none", "running" or "stopping"
    row,        \* the run: status, the runner that holds its claim, the last result
    gen,        \* the last runner
    live,       \* the processes that live
    ex,         \* the runner: its engine, its executor and the Pi it knows
    asked,      \* per Pi: the attempts it was prompted for
    attempts, left, serverFaults

headlessVars == <<srv, registry, owned, sup, row, gen, live, ex, asked,
                  attempts, left, serverFaults>>

SeqExt == INSTANCE SequencesExt

Gens == 1 .. MaxRunners
Attempts == 1 .. MaxSteps

\* Each of these leads a process group of its own, but for a tool of Pi.
RunnerOf(g) == <<"runner", g, 0>>
PiOf(g)     == <<"pi", g, 0>>
ToolOf(g)   == <<"tool", g, 0>>
Command(g, a) == <<"command", g, a>>
Group(g) == {PiOf(g), ToolOf(g)}
RunnerLives == gen # 0 /\ RunnerOf(gen) \in live

NoResult == [attempt |-> 0, outcome |-> "none", of |-> 0, why |-> "none"]
Fresh == [at |-> "none", attempt |-> 0, out |-> NoResult, child |-> FALSE, reg |-> "none",
          seen |-> FALSE, close |-> "no", reports |-> <<>>]

HeadlessInit ==
    /\ srv = "up" /\ registry = {} /\ owned = FALSE /\ sup = "none"
    /\ row = [status |-> "queued", holder |-> 0, last |-> NoResult]
    /\ gen = 0 /\ live = {} /\ ex = Fresh /\ asked = [g \in Gens |-> {}]
    /\ attempts = 0 /\ left = {} /\ serverFaults = 0

\* The runner is gone, and what it knew with it.
RunnerGone == live' = live \ {RunnerOf(gen)} /\ ex' = Fresh

Serving == UNCHANGED <<srv, registry, owned, sup>>
Bounds  == UNCHANGED <<gen, left, serverFaults>>

-----------------------------------------------------------------------------
(* The runner.  A request of it that finds no server ends it (EPIPE).      *)

Answering == srv # "down"
InOrder   == ex.reg # "asked"
Granted   == Answering /\ InOrder /\ row.holder = gen
Commits   == {"boot", "route", "agent", "record", "fail"}

Result(e, outcome, of, why) ==
    [e EXCEPT !.at = "record",
              !.out = [attempt |-> e.attempt, outcome |-> outcome, of |-> of, why |-> why]]

\* Whose fault it is that there is no Pi to talk to.
Blame(e) == IF e.close = "no" THEN "exited" ELSE "closed"
Failed(e, why) == Result(e, "failed", 0, why)

\* Variant: any report answers the step that waits.
AnyMatching(e, i) == TRUE
\* takeMatchingAction: the first report for the request of the step.
Matching(e, i) == e.reports[i] = e.attempt
Take(e) ==
    LET found == {i \in 1 .. Len(e.reports) : Matching(e, i)}
        first == CHOOSE i \in found : \A j \in found : i <= j
    IN  IF found = {} THEN [e EXCEPT !.at = "wait"]
        ELSE [e EXCEPT !.at = "accept", !.out.of = e.reports[first],
                       !.reports = SeqExt!RemoveAt(@, first)]

\* promptForSubmission, up to its first wait.
Prompt(e) ==
    IF ~e.child \/ e.seen
    THEN ex' = Failed(e, Blame(e)) /\ UNCHANGED asked
    ELSE ex' = Take(e) /\ asked' = [asked EXCEPT ![gen] = @ \cup {e.attempt}]

Boot ==
    /\ ex.at = "boot" /\ Granted
    /\ ex' = [ex EXCEPT !.at = "route"]
    /\ UNCHANGED <<row, live, asked, attempts>> /\ Serving /\ Bounds

StartNode(kind) ==
    /\ ex.at = "route" /\ Granted /\ attempts < MaxSteps
    /\ attempts' = attempts + 1
    /\ ex' = [ex EXCEPT !.at = kind, !.attempt = attempts + 1]
    /\ live' = IF kind = "command" THEN live \cup {Command(gen, attempts + 1)} ELSE live
    /\ UNCHANGED <<row, asked>> /\ Serving /\ Bounds

\* agent_prompt_sent is committed; ensureStarted starts Pi and asks for its
\* registration, or the prompt goes to the Pi that is there.
StartAgentStep ==
    /\ ex.at = "agent" /\ Granted
    /\ IF ex.close = "no" /\ ~ex.child
       THEN /\ ex' = [ex EXCEPT !.at = "register", !.child = TRUE, !.reg = "asked"]
            /\ live' = live \cup {PiOf(gen)} /\ UNCHANGED asked
       ELSE Prompt(ex) /\ UNCHANGED live
    /\ UNCHANGED <<row, attempts>> /\ Serving /\ Bounds

\* The answer to process.register; the step that asked may have timed out.
Register ==
    /\ ex.reg = "asked" /\ Answering
    /\ LET registered == [ex EXCEPT !.reg = "done"]
           refused    == [ex EXCEPT !.reg = "none", !.child = FALSE, !.seen = TRUE]
       IN  \/ /\ row.holder = gen /\ PiOf(gen) \in live
              /\ registry' = registry \cup {PiOf(gen)} /\ owned' = TRUE
              /\ IF ex.at = "register" THEN Prompt(registered)
                 ELSE ex' = registered /\ UNCHANGED asked
              /\ UNCHANGED live
           \/ /\ row.holder # gen \/ PiOf(gen) \notin live
              /\ live' = live \ Group(gen)
              /\ ex' = IF ex.at # "register" THEN refused
                       ELSE IF row.holder = gen THEN Failed(refused, Blame(ex))
                       ELSE [refused EXCEPT !.at = "closing"]
              /\ UNCHANGED <<registry, owned, asked>>
    /\ UNCHANGED <<srv, sup, row, attempts>> /\ Bounds

\* The step's accept callback takes the output, or has Pi asked again.
Accept(ok) ==
    /\ ex.at = "accept"
    /\ IF ok THEN ex' = Result(ex, "ok", ex.out.of, "none") /\ UNCHANGED asked
       ELSE Prompt(ex)
    /\ UNCHANGED <<row, live, attempts>> /\ Serving /\ Bounds

\* The node's time is over.  The engine leaves an agent step behind at once;
\* it waits for a command, which is killed within that time.
NodeTimesOut ==
    /\ ex.at \in {"register", "wait", "accept", "command"}
    /\ ex' = IF ex.at = "command" THEN [ex EXCEPT !.at = "killing"]
             ELSE Result(ex, "timed_out", 0, "none")
    /\ UNCHANGED <<row, live, asked, attempts>> /\ Serving /\ Bounds

KillCommand ==
    /\ ex.at = "killing"
    /\ live' = live \ {Command(gen, ex.attempt)}
    /\ ex' = Result(ex, "timed_out", 0, "none")
    /\ UNCHANGED <<row, asked, attempts>> /\ Serving /\ Bounds

\* node_finished or node_failed; a failure has a route or fails the run.
Record ==
    /\ ex.at = "record" /\ Granted
    /\ row' = [row EXCEPT !.last = ex.out]
    /\ \E next \in IF ex.out.outcome = "ok" THEN {"route"} ELSE {"route", "fail"} :
          ex' = [ex EXCEPT !.at = next, !.out = NoResult]
    /\ UNCHANGED <<live, asked, attempts>> /\ Serving /\ Bounds

\* finishRun: the end of the run gives up its claim.
Finish ==
    /\ ex.at \in {"route", "fail"} /\ Granted
    /\ row' = [row EXCEPT !.holder = 0,
                          !.status = IF ex.at = "route" THEN "completed" ELSE "failed"]
    /\ ex' = [ex EXCEPT !.at = "closing"]
    /\ UNCHANGED <<live, asked, attempts>> /\ Serving /\ Bounds

\* A commit without the claim ends the runner's work.
ClaimLost ==
    /\ ex.at \in Commits /\ Answering /\ InOrder /\ row.holder # gen
    /\ ex' = [ex EXCEPT !.at = "closing"]
    /\ UNCHANGED <<row, live, asked, attempts>> /\ Serving /\ Bounds

\* A signal to stop, or the end of the run, closes the executor; only the first
\* call does.  Without a child there is nothing to do.
Closing(e) ==
    IF e.close # "no" THEN e
    ELSE [e EXCEPT !.child = FALSE, !.close = IF e.child THEN "killing" ELSE "done"]
Close ==
    /\ ex.at = "closing" /\ ex.close = "no"
    /\ ex' = Closing(ex)
    /\ UNCHANGED <<row, live, asked, attempts>> /\ Serving /\ Bounds

\* Pi's group has gone, after SIGTERM or after SIGKILL.
GroupGone ==
    /\ ex.close = "killing"
    /\ live' = live \ Group(gen)
    /\ ex' = [ex EXCEPT !.close = IF ex.reg = "done" THEN "unregister" ELSE "done"]
    /\ UNCHANGED <<row, asked, attempts>> /\ Serving /\ Bounds

\* process.unregister, which needs no claim.
Unregister ==
    /\ ex.close = "unregister" /\ Answering /\ InOrder
    /\ registry' = IF owned THEN registry \ {PiOf(gen)} ELSE registry
    /\ owned' = FALSE
    /\ ex' = [ex EXCEPT !.close = "done"]
    /\ UNCHANGED <<srv, sup, row, live, asked, attempts>> /\ Bounds

Leave ==
    /\ ex.at = "closing" /\ ex.close = "done"
    /\ RunnerGone /\ left' = left \cup {gen}
    /\ UNCHANGED <<row, gen, asked, attempts, serverFaults>> /\ Serving

BrokenPipe ==
    /\ ~Answering /\ (ex.at \in Commits \/ ex.reg = "asked" \/ ex.close = "unregister")
    /\ RunnerGone
    /\ UNCHANGED <<row, asked, attempts>> /\ Serving /\ Bounds

\* The exit of Pi reaches the executor and wakes a step that waits.
SeeExit ==
    /\ ex.reg # "none" /\ PiOf(gen) \notin live /\ ~ex.seen
    /\ LET known == [ex EXCEPT !.seen = TRUE]
       IN  ex' = IF ex.at = "wait" THEN Failed(known, Blame(ex)) ELSE known
    /\ UNCHANGED <<row, live, asked, attempts>> /\ Serving /\ Bounds

RunnerStep ==
    /\ RunnerLives
    /\ \/ Boot \/ StartNode("agent") \/ StartNode("command") \/ StartAgentStep \/ Register
       \/ Accept(TRUE) \/ Accept(FALSE) \/ NodeTimesOut \/ KillCommand \/ Record \/ Finish
       \/ ClaimLost \/ Close \/ GroupGone \/ Unregister \/ Leave \/ BrokenPipe \/ SeeExit

-----------------------------------------------------------------------------
(* Pi and the commands.  Pi may submit for any step that it was ever asked *)
(* for, as often as it likes, and starts tools; a late submission is one   *)
(* for a step that is over.                                                *)

\* rpc-bridge: the report is taken by the step that waits for it, or kept.
Report(a) ==
    /\ RunnerLives /\ PiOf(gen) \in live /\ a \in asked[gen]
    /\ Len(ex.reports) < MaxReports
    /\ LET kept == [ex EXCEPT !.reports = Append(@, a)]
       IN  ex' = IF ex.at = "wait" THEN Take(kept) ELSE kept
    /\ UNCHANGED <<row, live, asked, attempts>> /\ Serving /\ Bounds

StartTool(g) ==
    /\ PiOf(g) \in live /\ asked[g] # {}
    /\ live' = live \cup {ToolOf(g)}
    /\ UNCHANGED <<row, ex, asked, attempts>> /\ Serving /\ Bounds

CommandEnds(g, a) ==
    /\ Command(g, a) \in live
    /\ live' = live \ {Command(g, a)}
    /\ \E outcome \in {"ok", "failed"} :
          ex' = IF RunnerLives /\ gen = g /\ ex.at = "command" /\ ex.attempt = a
                THEN Result(ex, outcome, a, "none") ELSE ex
    /\ UNCHANGED <<row, asked, attempts>> /\ Serving /\ Bounds

\* Pi, a tool or the runner dies, or ends on its own.
Dies(p) ==
    /\ p \in live /\ p[1] # "command"
    /\ IF p = RunnerOf(gen) THEN RunnerGone ELSE live' = live \ {p} /\ UNCHANGED ex
    /\ UNCHANGED <<row, asked, attempts>> /\ Serving /\ Bounds

-----------------------------------------------------------------------------
(* The server.                                                             *)

Released == [row EXCEPT !.holder = 0, !.status = IF @ = "running" THEN "queued" ELSE @]

Launch ==
    /\ srv = "up" /\ sup = "none" /\ row.status = "queued" /\ gen < MaxRunners
    /\ gen' = gen + 1
    /\ row' = [row EXCEPT !.status = "running", !.holder = gen + 1]
    /\ live' = live \cup {RunnerOf(gen + 1)}
    /\ registry' = registry \cup {RunnerOf(gen + 1)} /\ owned' = FALSE
    /\ sup' = "running" /\ ex' = [Fresh EXCEPT !.at = "boot"]
    /\ UNCHANGED <<srv, asked, attempts, left, serverFaults>>

\* A pause or a cancel takes the claim in its transaction and then stops the runner.
Control ==
    /\ srv = "up" /\ sup = "running" /\ row.holder = gen
    /\ row' = [row EXCEPT !.holder = 0, !.status = "paused"]
    /\ sup' = "stopping"
    /\ UNCHANGED <<srv, registry, owned, live, ex, asked, attempts>> /\ Bounds

Resume ==
    /\ srv = "up" /\ row.status = "paused"
    /\ row' = [row EXCEPT !.status = "queued"]
    /\ UNCHANGED <<live, ex, asked, attempts>> /\ Serving /\ Bounds

\* The runner does not get ready in time.
StartupTimesOut ==
    /\ Answering /\ sup = "running" /\ RunnerLives /\ ex.at = "boot"
    /\ sup' = "stopping"
    /\ UNCHANGED <<srv, registry, owned, row, live, ex, asked, attempts>> /\ Bounds

\* SIGTERM: a runner that has its executor closes it and goes on.
Terminated ==
    /\ sup = "stopping" /\ RunnerLives
    /\ \/ ex.at = "boot" /\ RunnerGone
       \/ ex.at # "boot" /\ ex.close = "no" /\ ex' = Closing(ex) /\ UNCHANGED live
    /\ UNCHANGED <<row, asked, attempts>> /\ Serving /\ Bounds

\* SIGKILL, after the grace, goes to the runner's own group.
Killed ==
    /\ sup = "stopping" /\ RunnerLives
    /\ RunnerGone
    /\ UNCHANGED <<row, asked, attempts>> /\ Serving /\ Bounds

\* registry.kill, killAll: SIGTERM, then SIGKILL while the leader is still the
\* process that was registered; a tool may survive its leader.
Reaped(ps) ==
    LET doomed == UNION {Group(g) : g \in {h \in Gens : PiOf(h) \in ps \cap live}}
    IN  {live \ (ps \cup (doomed \ survivors)) :
           survivors \in SUBSET {ToolOf(g) : g \in Gens}}

\* onExit and the end of activateRun: the run is claimed again, and the Pi
\* that the runner registered is reaped.
ExitSeen ==
    /\ Answering /\ sup # "none" /\ ~RunnerLives
    /\ live' \in Reaped(IF owned THEN {PiOf(gen)} ELSE {})
    /\ registry' = registry \ ({RunnerOf(gen)} \cup (IF owned THEN {PiOf(gen)} ELSE {}))
    /\ owned' = FALSE
    /\ sup' = "none" /\ row' = IF row.holder = gen THEN Released ELSE row
    /\ UNCHANGED <<srv, ex, asked, attempts>> /\ Bounds

StopServer ==
    /\ srv = "up" /\ serverFaults < MaxServerFaults
    /\ srv' = "stopping" /\ serverFaults' = serverFaults + 1
    /\ sup' = IF sup = "running" THEN "stopping" ELSE sup
    /\ UNCHANGED <<registry, owned, row, gen, live, ex, asked, attempts, left>>

\* The runner has ended or was killed: the run is parked, killAll, exit.
EndServer ==
    /\ srv = "stopping" /\ ~RunnerLives
    /\ live' \in Reaped(registry)
    /\ srv' = "down" /\ registry' = {} /\ owned' = FALSE /\ sup' = "none"
    /\ row' = Released
    /\ UNCHANGED <<ex, asked, attempts>> /\ Bounds

\* The claim of a crashed server runs out before another may take the run.
CrashServer ==
    /\ srv # "down" /\ serverFaults < MaxServerFaults
    /\ srv' = "down" /\ serverFaults' = serverFaults + 1
    /\ owned' = FALSE /\ sup' = "none" /\ row' = Released
    /\ UNCHANGED <<registry, gen, live, ex, asked, attempts, left>>

\* Variant: a starting server forgets what an earlier one registered.
StartWithoutReaping ==
    /\ srv = "down" /\ srv' = "up" /\ registry' = {}
    /\ UNCHANGED <<owned, sup, row, live, ex, asked, attempts>> /\ Bounds
\* reapOrphans: SIGKILL to the groups whose leader is still the one registered.
StartServer ==
    /\ srv = "down" /\ srv' = "up"
    /\ live' = live \ (registry \cup UNION {Group(g) : g \in {h \in Gens :
                                              PiOf(h) \in registry \cap live}})
    /\ registry' = {} /\ ex' = Fresh
    /\ UNCHANGED <<owned, sup, row, asked, attempts>> /\ Bounds

HeadlessNext ==
    \/ RunnerStep
    \/ \E a \in Attempts : Report(a)
    \/ \E g \in Gens : StartTool(g) \/ (\E a \in Attempts : CommandEnds(g, a))
    \/ \E p \in live : Dies(p)
    \/ Launch \/ Control \/ Resume \/ StartupTimesOut \/ Terminated \/ Killed \/ ExitSeen
    \/ StopServer \/ EndServer \/ CrashServer \/ StartServer

-----------------------------------------------------------------------------
(* The properties.                                                         *)

(* A step that was accepted got an output that was submitted for it, though*)
(* Pi, which serves all steps of a runner, still answers steps that are    *)
(* over, and the reports wait in one buffer.                               *)
OutputIsOfStep == row.last.outcome = "ok" => row.last.of = row.last.attempt

(* A Pi that works is in the register, and a server that is up would reap  *)
(* it with its runner; at most one works for the run, whatever died in     *)
(* between; the commands of one runner come one after the other; and a     *)
(* runner that left in order left nothing of its Pi                        *)
(* (docs/WORKFLOW_SERVER.md:198).                                          *)
Working(g) == PiOf(g) \in live /\ asked[g] # {}
Known == \A g \in Gens : Working(g) =>
            PiOf(g) \in registry /\ (Answering => owned /\ g = gen /\ sup # "none")
OneAtWork ==
    /\ Known
    /\ \A g, h \in Gens : Working(g) /\ Working(h) => g = h
    /\ \A g \in Gens, a, b \in Attempts :
          Command(g, a) \in live /\ Command(g, b) \in live => a = b
    /\ \A g \in left : Group(g) \cap live = {}

(* A stop of the server is no outcome of the step it meets: "If the runner  *)
(* stops for another recoverable reason, pure work can run again"          *)
(* (docs/WORKFLOWS.md:175), and a server shutdown is no terminal outcome   *)
(* (docs/DEFERRED_TURNS.md:12).                                            *)
ShutdownIsNoOutcome == srv = "stopping" => row.last.why # "closed"
=============================================================================
