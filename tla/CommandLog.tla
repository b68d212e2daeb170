----------------------------- MODULE CommandLog -----------------------------
(***************************************************************************)
(* Client commands and the table `server_commands`.  A client sends a      *)
(* command, loses the connection, and repeats it once with a new request   *)
(* id and the same idempotency key (requestDurable); the frames of a       *)
(* closed connection may still be read.  The server crashes, stops, or is  *)
(* replaced by another one while it is frozen and later goes on with the   *)
(* requests it holds, against the same database.                           *)
(*                                                                         *)
(* A command stands for its payload.  Every attempt has a request id of    *)
(* its own, so the lookup by request id never matches and is left out.     *)
(* Three ways to execute a command:                                        *)
(*   - in one transaction with its receipt (handleRequest);                *)
(*   - maintenance: an asynchronous operation first, the receipt after it  *)
(*     (executeMaintenanceCommand: backup, prune);                         *)
(*   - session control: maintenance or a transaction behind a check of the *)
(*     connection's coordinator epoch (requireSessionCommand).             *)
(* What submitInteractionAndWait does after its transaction, a poll of the *)
(* submission that changes no state, is left out.                          *)
(***************************************************************************)
EXTENDS Naturals, FiniteSets

CONSTANTS Commands,        \* commands of one client
          Twins,           \* commands that reuse one idempotency key
          Maintenance,     \* commands executed as maintenance
          SessionFirst,    \* commands that may be session control
          Servers,         \* numbers of the server processes, in starting order
          None

ASSUME CommandLogAssumption ==
    /\ Twins \subseteq Commands
    /\ Maintenance \subseteq Commands
    /\ SessionFirst \subseteq Commands
    /\ None \notin Commands \cup Servers

VARIABLES log,             \* log[c]: the receipt recorded for command c
          applied,         \* applied[c][s]: how often server s applied c
          server,          \* server[s]: life of the process
          front,           \* the server that owns the socket
          client,          \* client[c]: attempt in progress and result
          req,             \* req[c][n]: attempt n of c, at a server
          session          \* commands behind requireSessionCommand

vars == <<log, applied, server, front, client, req, session>>

Attempts == {1, 2}
Receipt  == {"none", "accepted", "rejected"}

NoRequest == [st |-> "none", at |-> None, ans |-> "none"]
Gone      == [st |-> "gone", at |-> None, ans |-> "none"]

Init ==
    /\ log = [c \in Commands |-> "none"]
    /\ applied = [c \in Commands |-> [s \in Servers |-> 0]]
    /\ server = [s \in Servers |-> "new"]
    /\ front = None
    /\ session \in SUBSET SessionFirst
    /\ client = [c \in Commands |-> [at |-> "idle", n |-> 0, got |-> "none"]]
    /\ req = [c \in Commands |-> [n \in Attempts |-> NoRequest]]

-----------------------------------------------------------------------------
(* The log.                                                                *)

Alive(s) == server[s] \in {"up", "stopping"}

\* Commands of the client under the same idempotency key.
SameKey(c) == IF c \in Twins THEN Twins ELSE {c}

\* A receipt under this key, of this payload or of another.
Recorded(c) == \E d \in SameKey(c) : log[d] # "none"

\* Variant: the stored receipt is adopted without comparing the fingerprint.
AdoptUnchecked(c) == "adopted"

\* adoptCommand: the answer for a key that already has a receipt.
Adopt(c) ==
    IF log[c] = "none" THEN "conflict"
    ELSE IF log[c] = "accepted" THEN "adopted" ELSE "rejected"

\* The caller waits for this attempt, on its connection.
Waits(c, n) == client[c].at = "waiting" /\ client[c].n = n

\* A response to a closed connection goes nowhere.
Reply(c, n, ans) ==
    req' = [req EXCEPT ![c][n] =
                IF Waits(c, n) THEN [@ EXCEPT !.st = "reply", !.ans = ans]
                ELSE Gone]

OnWire(c, n, s) == req[c][n].st = "wire" /\ req[c][n].at = s /\ Alive(s)

\* The connection that carried attempt n is still the session's coordinator,
\* and its epoch is the one in the payload.  A retry repeats the payload of
\* the first attempt, whose epoch died with the first connection.
Coordinates(c, n) == n = 1 /\ Waits(c, n)

\* requireSessionCommand stands in front of these commands.
Authorized(c, n) == c \in session => Coordinates(c, n)

-----------------------------------------------------------------------------
(* Server.                                                                 *)

\* requireSessionCommand throws before the receipt is read.
RefuseSession(c, n, s) ==
    /\ OnWire(c, n, s)
    /\ ~ Authorized(c, n)
    /\ Reply(c, n, "rejected")
    /\ UNCHANGED <<log, applied, server, front, client, session>>

\* The server is stopping: handleRequest answers before it looks, maintenance
\* answers what is recorded first.
Unavailable(c, n, s) ==
    /\ OnWire(c, n, s) /\ Authorized(c, n)
    /\ server[s] = "stopping"
    /\ c \in Maintenance => ~ Recorded(c)
    /\ Reply(c, n, "unavailable")
    /\ UNCHANGED <<log, applied, server, front, client, session>>

\* A receipt exists: adopt it or report the conflict.
AdoptReceipt(c, n, s) ==
    /\ OnWire(c, n, s) /\ Authorized(c, n)
    /\ c \notin Maintenance => server[s] = "up"
    /\ Recorded(c)
    /\ Reply(c, n, Adopt(c))
    /\ UNCHANGED <<log, applied, server, front, client, session>>

\* Variant: the transaction trusts that nothing was recorded.
ReceiptUnchecked(c) == TRUE

\* Both lookups of executeCommand; the second, inside the transaction, decides.
NoReceipt(c) == ~ Recorded(c)

\* executeCommand: lookup, operation and receipt in one transaction.  The
\* operation accepts, refuses with a receipt, or throws and rolls back.
ExecuteCommand(c, n, s, outcome) ==
    /\ OnWire(c, n, s) /\ Authorized(c, n)
    /\ c \notin Maintenance
    /\ server[s] = "up"
    /\ NoReceipt(c)
    /\ log' = [log EXCEPT ![c] = outcome]
    /\ applied' = [applied EXCEPT ![c][s] =
                       IF outcome = "accepted" THEN @ + 1 ELSE @]
    /\ Reply(c, n, IF outcome = "none" THEN "rejected" ELSE outcome)
    /\ UNCHANGED <<server, front, client, session>>

\* Variant: a finished operation stays in the map.
ActiveForever(c, s) ==
    \E d \in SameKey(c), m \in Attempts :
        \/ applied[d][s] > 0
        \/ req[d][m].at = s /\ req[d][m].st \in {"running", "threw"}

\* The server runs the operation of this key for some request.
ActiveKey(c, s) ==
    \E d \in SameKey(c), m \in Attempts :
        /\ req[d][m].at = s
        /\ req[d][m].st \in {"running", "operated", "threw"}

\* executeMaintenanceCommand: start the operation and remember it by key.
StartMaintenance(c, n, s) ==
    /\ OnWire(c, n, s) /\ Authorized(c, n)
    /\ c \in Maintenance
    /\ server[s] = "up"
    /\ NoReceipt(c) /\ ~ ActiveKey(c, s)
    /\ req' = [req EXCEPT ![c][n].st = "running"]
    /\ UNCHANGED <<log, applied, server, front, client, session>>

\* The key is in flight: wait for that operation.
JoinMaintenance(c, n, s) ==
    /\ OnWire(c, n, s) /\ Authorized(c, n)
    /\ c \in Maintenance
    /\ server[s] = "up"
    /\ NoReceipt(c) /\ ActiveKey(c, s)
    /\ req' = [req EXCEPT ![c][n].st = "joined"]
    /\ UNCHANGED <<log, applied, server, front, client, session>>

\* The operation ends; it may throw.
Operate(c, n, s, end) ==
    /\ req[c][n].st = "running" /\ req[c][n].at = s /\ Alive(s)
    /\ req' = [req EXCEPT ![c][n].st = end]
    /\ applied' = [applied EXCEPT ![c][s] =
                       IF end = "operated" THEN @ + 1 ELSE @]
    /\ UNCHANGED <<log, server, front, client, session>>

\* executeCommand with the finished result: another server may have recorded
\* the key meanwhile, and then its receipt stands.
StoreReceipt(c, n, s) ==
    LET outcome == IF req[c][n].st = "operated" THEN "accepted" ELSE "rejected"
    IN  /\ req[c][n].st \in {"operated", "threw"} /\ req[c][n].at = s
        /\ Alive(s)
        /\ IF Recorded(c)
           THEN /\ Reply(c, n, Adopt(c))
                /\ UNCHANGED log
           ELSE /\ log' = [log EXCEPT ![c] = outcome]
                /\ Reply(c, n, outcome)
        /\ UNCHANGED <<applied, server, front, client, session>>

\* A joined request reads the receipt its predecessor left.
Joined(c, n, s) ==
    /\ req[c][n].st = "joined" /\ req[c][n].at = s /\ Alive(s)
    /\ ~ ActiveKey(c, s)
    /\ Reply(c, n, IF Recorded(c) THEN Adopt(c) ELSE "unavailable")
    /\ UNCHANGED <<log, applied, server, front, client, session>>

-----------------------------------------------------------------------------
(* Client: requestDurable.                                                 *)

\* The first attempt, or the one retry after ensureAvailable.
Send(c) ==
    /\ client[c].at \in {"idle", "retry"}
    /\ front # None /\ server[front] = "up"
    /\ LET n == client[c].n + 1
       IN  /\ client' = [client EXCEPT ![c].at = "waiting", ![c].n = n]
           /\ req' = [req EXCEPT ![c][n].st = "wire", ![c][n].at = front]
    /\ UNCHANGED <<log, applied, server, front, session>>

Receive(c) ==
    LET n == client[c].n
    IN  /\ client[c].at = "waiting"
        /\ req[c][n].st = "reply"
        /\ req[c][n].at # None /\ Alive(req[c][n].at)
        /\ client' = [client EXCEPT ![c].at = "done", ![c].got = req[c][n].ans]
        /\ req' = [req EXCEPT ![c][n] = Gone]
        /\ UNCHANGED <<log, applied, server, front, session>>

\* The connection closes.  What the server read or will still read of it is
\* executed all the same; the second failure is reported to the caller.
Disconnect(c) ==
    /\ client[c].at = "waiting"
    /\ client' = [client EXCEPT ![c] =
                      IF @.n = 1 THEN [@ EXCEPT !.at = "retry"]
                      ELSE [@ EXCEPT !.at = "done", !.got = "error"]]
    /\ LET n == client[c].n
       IN  req' = [req EXCEPT ![c][n] = IF @.st = "reply" THEN Gone ELSE @]
    /\ UNCHANGED <<log, applied, server, front, session>>

-----------------------------------------------------------------------------
(* Processes.                                                              *)

\* A server starts when none serves, or takes over from a frozen one.
Start(s) ==
    /\ server[s] = "new"
    /\ \A t \in Servers : t < s => server[t] # "new"
    /\ server' = [server EXCEPT ![s] = "up"]
    /\ front' = s
    /\ UNCHANGED <<log, applied, client, req, session>>

InFlight(s) == \E c \in Commands, n \in Attempts :
                   /\ req[c][n].at = s
                   /\ req[c][n].st \in {"running", "operated", "threw"}

\* Whatever a dead process held is gone.
DropAt(s) ==
    req' = [c \in Commands |-> [n \in Attempts |->
               IF req[c][n].at = s THEN Gone ELSE req[c][n]]]

Crash(s) ==
    /\ Alive(s)
    /\ server' = [server EXCEPT ![s] = "dead"]
    /\ DropAt(s)
    /\ UNCHANGED <<log, applied, front, client, session>>

\* stop(): no new work; it waits for the maintenance commands in flight.
Stop(s) ==
    /\ server[s] = "up"
    /\ server' = [server EXCEPT ![s] = "stopping"]
    /\ UNCHANGED <<log, applied, front, client, req, session>>

Exit(s) ==
    /\ server[s] = "stopping"
    /\ ~ InFlight(s)
    /\ server' = [server EXCEPT ![s] = "dead"]
    /\ DropAt(s)
    /\ UNCHANGED <<log, applied, front, client, session>>

Handle(c, n, s) ==
    \/ RefuseSession(c, n, s)
    \/ Unavailable(c, n, s)
    \/ AdoptReceipt(c, n, s)
    \/ \E outcome \in Receipt : ExecuteCommand(c, n, s, outcome)
    \/ StartMaintenance(c, n, s)
    \/ JoinMaintenance(c, n, s)

Finish(c, n, s) ==
    \/ \E end \in {"operated", "threw"} : Operate(c, n, s, end)
    \/ StoreReceipt(c, n, s)
    \/ Joined(c, n, s)

Serve(c, n) == \E s \in Servers : Handle(c, n, s) \/ Finish(c, n, s)

Next ==
    \/ \E c \in Commands, n \in Attempts : Serve(c, n)
    \/ \E c \in Commands : Send(c) \/ Receive(c) \/ Disconnect(c)
    \/ \E s \in Servers : Start(s) \/ Crash(s) \/ Stop(s) \/ Exit(s)

Spec == Init /\ [][Next]_vars

\* A live process reads its sockets and finishes what it started, a response
\* arrives while the connection lasts, and a socket whose process died closes.
Fairness ==
    /\ \A c \in Commands :
           /\ WF_vars(Receive(c))
           /\ WF_vars(Disconnect(c) /\ req[c][client[c].n].st = "gone")
    /\ \A c \in Commands, n \in Attempts : WF_vars(Serve(c, n))

FairSpec == Spec /\ Fairness

-----------------------------------------------------------------------------
(* Properties.                                                             *)

\* Every time command c took effect, on whichever server.
Effects(c) == UNION {{s} \X (1 .. applied[c][s]) : s \in Servers}

\* executeCommand: a command run in a transaction is decided once and has its
\* effect with its receipt, for every loss, retry, crash and second server.
Once == INSTANCE CommandOnce WITH
            Commands <- Commands \ Maintenance,
            Twins <- Twins \ Maintenance,
            decided <- [c \in Commands \ Maintenance |->
                           IF log[c] = "none" THEN "open" ELSE log[c]],
            effect <- [c \in Commands \ Maintenance |->
                           Cardinality(Effects(c))]
OnceSpec == Once!Spec

\* A client that is told a command was accepted or adopted can rely on an
\* effect that took place, of its own payload and not of another one under
\* the same idempotency key.
AnswerIsTrue ==
    \A c \in Commands :
        client[c].got \in {"accepted", "adopted"} =>
            /\ log[c] = "accepted"
            /\ \E s \in Servers : applied[c][s] > 0

\* A request is answered or its connection is reported lost: no operation in
\* flight, joined request or stopping server keeps a caller waiting forever.
\* It does not speak of interaction.submit and interaction.assistant: the poll
\* of submitInteractionAndWait lasts until the run decides the submission.
EveryRequestEnds ==
    \A c \in Commands : client[c].at = "waiting" ~>
                            client[c].at \in {"retry", "done"}
=============================================================================
