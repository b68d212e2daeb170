-------------------------- MODULE ServerOwnership --------------------------
(***************************************************************************)
(* Who is the workflow server of a database.  Three things say so: the     *)
(* lock file, the row `workflow_server_state` with its lease, and the      *)
(* socket file.  Server processes start whenever a client finds nobody     *)
(* answering, take the three over from a process that died or is silent,   *)
(* serve, lose their row while they are frozen, stop and crash.  Every     *)
(* file operation and every transaction is a step of its own.              *)
(*                                                                         *)
(* A process slot is used again after its process ended; what still names  *)
(* the ended process then reads Dead.  A closing listener unlinks the path *)
(* it bound, whoever owns the file by then, as libuv does.                 *)
(***************************************************************************)
EXTENDS Naturals

CONSTANTS Servers,         \* process slots
          None,            \* no file, no row
          Dead,            \* a process that no longer exists
          LockAttempts,    \* rounds of acquireServerLock
          FaultKinds,      \* of "crash", "freeze", "both"
          MaxFaults        \* bound on the faults of a behaviour

ASSUME ServerOwnershipAssumption ==
    /\ LockAttempts \in Nat \ {0}
    /\ MaxFaults \in Nat
    /\ FaultKinds \subseteq {"crash", "freeze", "both"}
    /\ None # Dead /\ None \notin Servers /\ Dead \notin Servers

VARIABLES lock,            \* the process the lock file names
          row,             \* owner of the server row, and whether its lease lives
          sock,            \* the process whose listener created the socket file
          proc,            \* proc[s]: the process in slot s
          fault,           \* the faults of this behaviour
          budget           \* faults left

vars == <<lock, row, sock, proc, fault, budget>>

NoProcess == [pc |-> "off", tries |-> 0, seen |-> None, displaced |-> None,
              claim |-> "none", listening |-> FALSE, bound |-> FALSE,
              frozen |-> FALSE]

Init ==
    /\ lock = None
    /\ row = [owner |-> None, live |-> FALSE]
    /\ sock = None
    /\ proc = [s \in Servers |-> NoProcess]
    /\ fault \in FaultKinds
    /\ budget = MaxFaults

-----------------------------------------------------------------------------
At(s, pc) == proc[s].pc = pc /\ ~ proc[s].frozen

\* probeServerServing: the connection is accepted and a hello arrives.
Answers == sock \in Servers /\ ~ proc[sock].frozen

Goto(s, pc) == proc' = [proc EXCEPT ![s].pc = pc]

\* The process in slot s is gone: its names read Dead from now on.
Forget(s, x) == IF x = s THEN Dead ELSE x

Vanish(s, newLock) ==
    /\ lock' = Forget(s, newLock)
    /\ row' = [row EXCEPT !.owner = Forget(s, @)]
    /\ sock' = Forget(s, sock)
    /\ proc' = [t \in Servers |->
                   IF t = s THEN NoProcess
                   ELSE [proc[t] EXCEPT !.seen = Forget(s, @),
                                        !.displaced = Forget(s, @)]]

-----------------------------------------------------------------------------
(* acquireServerLock.                                                      *)

\* ensureAvailable: a client that reaches nobody starts a server.
Spawn(s) ==
    /\ proc[s].pc = "off"
    /\ ~ Answers
    /\ Goto(s, "read")
    /\ UNCHANGED <<lock, row, sock, fault, budget>>

\* A lock whose process is gone is stale without a probe.
ReadLock(s) ==
    /\ At(s, "read") /\ proc[s].tries < LockAttempts
    /\ proc' = [proc EXCEPT
           ![s].seen = lock,
           ![s].displaced = IF lock = None THEN None ELSE @,
           ![s].pc = IF lock \in Servers THEN "probe" ELSE "remove"]
    /\ UNCHANGED <<lock, row, sock, fault, budget>>

\* The rounds are used up: the process ends without having started.
GiveUp(s) ==
    /\ At(s, "read") /\ proc[s].tries = LockAttempts
    /\ Vanish(s, lock)
    /\ UNCHANGED <<fault, budget>>

\* A holder that answers keeps the lock, and this process ends.
Probe(s) ==
    /\ At(s, "probe")
    /\ IF Answers
       THEN Vanish(s, lock)
       ELSE Goto(s, "recheck") /\ UNCHANGED <<lock, row, sock>>
    /\ UNCHANGED <<fault, budget>>

\* The probe took time: a new living holder sends the starter back.
Recheck(s) ==
    /\ At(s, "recheck")
    /\ proc' = [proc EXCEPT ![s] =
           IF lock \in Servers /\ lock # @.seen
           THEN [@ EXCEPT !.tries = @ + 1, !.pc = "read"]
           ELSE [@ EXCEPT !.displaced = proc[s].seen, !.pc = "remove"]]
    /\ UNCHANGED <<lock, row, sock, fault, budget>>

RemoveLock(s) ==
    /\ At(s, "remove")
    /\ lock' = None
    /\ Goto(s, "create")
    /\ UNCHANGED <<row, sock, fault, budget>>

\* writeServerLock with the flag wx.
CreateLock(s) ==
    /\ At(s, "create")
    /\ IF lock = None
       THEN lock' = s /\ Goto(s, "claim")
       ELSE /\ proc' = [proc EXCEPT ![s].tries = @ + 1, ![s].pc = "read"]
            /\ UNCHANGED lock
    /\ UNCHANGED <<row, sock, fault, budget>>

-----------------------------------------------------------------------------
(* start.                                                                  *)

\* Variant: only the row decides, whatever its lease.
RowTakenByAnybody == row.owner # None

\* A live lease of another server.
RowTaken == row.owner # None /\ row.live

\* acquireServer; a fenced start only puts the displaced lock back.
Claim(s) ==
    /\ At(s, "claim")
    /\ IF RowTaken
       THEN Goto(s, "restore") /\ UNCHANGED row
       ELSE /\ row' = [owner |-> s, live |-> TRUE]
            /\ proc' = [proc EXCEPT ![s].claim = "held", ![s].pc = "recover"]
    /\ UNCHANGED <<lock, sock, fault, budget>>

\* recoverPreviousServer and the other work before listening.
Recover(s) ==
    /\ At(s, "recover")
    /\ Goto(s, "unlink")
    /\ UNCHANGED <<lock, row, sock, fault, budget>>

\* That work throws: the start is cleaned up.
FailStart(s) ==
    /\ At(s, "recover")
    /\ budget > 0
    /\ budget' = budget - 1
    /\ Goto(s, "close")
    /\ UNCHANGED <<lock, row, sock, fault>>

\* listen: the path is removed, with any listener this process still had.
Unlink(s) ==
    /\ At(s, "unlink")
    /\ sock' = None
    /\ proc' = [proc EXCEPT ![s].listening = FALSE, ![s].pc = "bind"]
    /\ UNCHANGED <<lock, row, fault, budget>>

\* listen: the bind fails when another process bound the path meanwhile.
Bind(s) ==
    /\ At(s, "bind")
    /\ IF sock = None
       THEN /\ sock' = s
            /\ proc' = [proc EXCEPT ![s].listening = TRUE, ![s].bound = TRUE,
                                    ![s].displaced = None, ![s].pc = "serving"]
       ELSE Goto(s, "close") /\ UNCHANGED sock
    /\ UNCHANGED <<lock, row, fault, budget>>

-----------------------------------------------------------------------------
(* The timers of a started server.                                         *)

\* Variant: an expired lease is not renewed, and its owner does not notice.
RenewUnexpired(s) ==
    /\ At(s, "serving") /\ row.owner = s /\ row.live
    /\ UNCHANGED vars

\* renewServer: the owner re-arms its lease, also after it expired; a process
\* whose row names another stops.
Renew(s) ==
    /\ At(s, "serving")
    /\ IF row.owner = s
       THEN row' = [row EXCEPT !.live = TRUE] /\ UNCHANGED proc
       ELSE Goto(s, "close") /\ UNCHANGED row
    /\ UNCHANGED <<lock, sock, fault, budget>>

\* Variant: the poll trusts that the socket file is still there.
EnsureNothing(s) == FALSE /\ UNCHANGED vars

\* ensureSocketFile: the owner of the row rebinds a path that disappeared.
EnsureSocketFile(s) ==
    /\ At(s, "serving")
    /\ sock = None
    /\ row.owner = s
    /\ Goto(s, "unlink")
    /\ UNCHANGED <<lock, row, sock, fault, budget>>

StopRequested(s) ==
    /\ At(s, "serving")
    /\ Goto(s, "close")
    /\ UNCHANGED <<lock, row, sock, fault, budget>>

-----------------------------------------------------------------------------
(* stop, and the cleanup of a start that failed.                           *)

\* closeServer.
CloseListener(s) ==
    /\ At(s, "close")
    /\ sock' = IF proc[s].listening THEN None ELSE sock
    /\ proc' = [proc EXCEPT ![s].listening = FALSE, ![s].pc = "release"]
    /\ UNCHANGED <<lock, row, fault, budget>>

\* releaseServer: only the owner's own row is cleared.
ReleaseRow(s) ==
    /\ At(s, "release")
    /\ IF row.owner = s
       THEN /\ row' = [owner |-> None, live |-> FALSE]
            /\ proc' = [proc EXCEPT ![s].claim = "released", ![s].pc = "unbind"]
       ELSE Goto(s, "restore") /\ UNCHANGED row
    /\ UNCHANGED <<lock, sock, fault, budget>>

\* removeBoundSocket.
RemoveBoundSocket(s) ==
    /\ At(s, "unbind")
    /\ sock' = IF proc[s].bound THEN None ELSE sock
    /\ Goto(s, "unlock")
    /\ UNCHANGED <<lock, row, fault, budget>>

\* restoreDisplacedLock: a record another starter wrote stays in place.
RestoreLock(s) ==
    /\ At(s, "restore")
    /\ IF proc[s].displaced # None /\ lock \in {None, s}
       THEN lock' = None /\ Goto(s, "rewrite")
       ELSE Goto(s, "unlock") /\ UNCHANGED lock
    /\ UNCHANGED <<row, sock, fault, budget>>

RewriteLock(s) ==
    /\ At(s, "rewrite")
    /\ lock' = IF lock = None THEN proc[s].displaced ELSE lock
    /\ Goto(s, "unlock")
    /\ UNCHANGED <<row, sock, fault, budget>>

\* releaseLock: the record is read, then the file is removed; the end of it.
ReleaseLock(s) ==
    /\ At(s, "unlock")
    /\ IF lock = s
       THEN Goto(s, "unlockrm") /\ UNCHANGED <<lock, row, sock>>
       ELSE Vanish(s, lock)
    /\ UNCHANGED <<fault, budget>>

ReleaseLockFile(s) ==
    /\ At(s, "unlockrm")
    /\ Vanish(s, None)
    /\ UNCHANGED <<fault, budget>>

-----------------------------------------------------------------------------
(* The world.                                                              *)

\* The lease runs out: its owner died, is frozen, or has stopped its heartbeat
\* and still waits for its children.
Expire ==
    /\ row.live
    /\ row.owner \in Servers =>
           proc[row.owner].frozen \/ proc[row.owner].pc = "release"
    /\ row' = [row EXCEPT !.live = FALSE]
    /\ UNCHANGED <<lock, sock, proc, fault, budget>>

\* The death of a process, without its cleanup.
Crash(s) ==
    /\ proc[s].pc # "off"
    /\ fault # "freeze" /\ budget > 0
    /\ budget' = budget - 1
    /\ Vanish(s, lock)
    /\ UNCHANGED fault

\* A suspended machine, a stopped process, a blocked event loop.
Freeze(s) ==
    /\ proc[s].pc # "off" /\ ~ proc[s].frozen
    /\ fault # "crash" /\ budget > 0
    /\ budget' = budget - 1
    /\ proc' = [proc EXCEPT ![s].frozen = TRUE]
    /\ UNCHANGED <<lock, row, sock, fault>>

Thaw(s) ==
    /\ proc[s].frozen
    /\ proc' = [proc EXCEPT ![s].frozen = FALSE]
    /\ UNCHANGED <<lock, row, sock, fault, budget>>

\* What a process does by itself, one step after the other.
Advance(s) ==
    \/ ReadLock(s) \/ GiveUp(s) \/ Probe(s) \/ Recheck(s) \/ RemoveLock(s)
    \/ CreateLock(s) \/ Claim(s) \/ Recover(s) \/ Unlink(s) \/ Bind(s)
    \/ CloseListener(s) \/ ReleaseRow(s) \/ RemoveBoundSocket(s)
    \/ RestoreLock(s) \/ RewriteLock(s) \/ ReleaseLock(s) \/ ReleaseLockFile(s)

Next ==
    \/ \E s \in Servers :
           \/ Spawn(s) \/ Advance(s) \/ Renew(s) \/ EnsureSocketFile(s)
           \/ StopRequested(s) \/ FailStart(s) \/ Crash(s) \/ Freeze(s) \/ Thaw(s)
    \/ Expire

Spec == Init /\ [][Next]_vars

\* Processes run, timers fire, a frozen process wakes up, a lease nobody renews
\* runs out, and clients keep asking for a server while none answers.
Fairness ==
    /\ \A s \in Servers :
           /\ WF_vars(Advance(s)) /\ WF_vars(Renew(s))
           /\ WF_vars(EnsureSocketFile(s)) /\ WF_vars(Thaw(s))
    /\ WF_vars(Expire)
    /\ WF_vars(\E s \in Servers : Spawn(s))

FairSpec == Spec /\ Fairness

-----------------------------------------------------------------------------
(* Properties.                                                             *)

\* Whatever crashes, freezes, stops or starts leave behind in the lock, the
\* row and the socket path, a server answers again and again.
ServerReturns == []<> Answers

\* The server that owns the row is reachable: a path that a superseded process
\* or a failed start removed or rebound comes back (closeServer calls that
\* unlink transient), or the owner does not remain one.
OwnerReachable ==
    \A s \in Servers :
        (proc[s].pc = "serving" /\ row.owner = s) ~>
            (sock = s \/ proc[s].pc # "serving" \/ row.owner # s)

\* A process that was superseded while it was frozen does not go on serving.
SupersededStops ==
    \A s \in Servers :
        (proc[s].listening /\ row.owner # s) ~> ~ proc[s].listening
=============================================================================
