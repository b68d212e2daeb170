-------------------------- MODULE CommandLogProofs --------------------------
(***************************************************************************)
(* Proofs about CommandLog for any number of commands and servers: of the  *)
(* commands that run in a transaction, each is decided once and has its    *)
(* effect with its receipt, and what a client is told is true.  Both rest  *)
(* on what the log and the counted effects have to do with each other.     *)
(***************************************************************************)
EXTENDS CommandLog, FiniteSetTheorems, TLAPS

Request ==
    [ st  : {"none", "wire", "running", "operated", "threw", "joined",
             "reply", "gone"},
      at  : Servers \cup {None},
      ans : Receipt \cup {"adopted", "conflict", "unavailable"} ]

Caller ==
    [ at  : {"idle", "waiting", "retry", "done"},
      n   : 0 .. 2,
      got : Receipt \cup {"adopted", "conflict", "unavailable", "error"} ]

TypeOK ==
    /\ log \in [Commands -> Receipt]
    /\ applied \in [Commands -> [Servers -> Nat]]
    /\ server \in [Servers -> {"new", "up", "stopping", "dead"}]
    /\ front \in Servers \cup {None}
    /\ client \in [Commands -> Caller]
    /\ req \in [Commands -> [Attempts -> Request]]

\* A command has two attempts, and waits for the last one it sent.
CallerOK ==
    \A c \in Commands :
        /\ client[c].at = "idle" => client[c].n = 0
        /\ client[c].at = "retry" => client[c].n = 1
        /\ client[c].at = "waiting" => client[c].n \in Attempts

\* Nobody is told of a success that is not recorded.
ToldOK ==
    \A c \in Commands :
        /\ client[c].got \in {"accepted", "adopted"} => log[c] = "accepted"
        /\ \A n \in Attempts :
               req[c][n].ans \in {"accepted", "adopted"} => log[c] = "accepted"

\* A success that is recorded, or about to be, took effect.
EffectOK ==
    \A c \in Commands :
        /\ log[c] = "accepted" => \E s \in Servers : applied[c][s] > 0
        /\ \A n \in Attempts :
               req[c][n].st = "operated" => \E s \in Servers : applied[c][s] > 0

\* Only maintenance is at work outside a transaction.
InTransaction ==
    \A c \in Commands \ Maintenance, n \in Attempts :
        req[c][n].st \notin {"running", "operated", "threw"}

\* A command that runs in a transaction took effect once if it is recorded as
\* accepted, and not at all otherwise.
CountOK ==
    \A c \in Commands \ Maintenance :
        /\ log[c] = "accepted" =>
               \E s \in Servers : /\ applied[c][s] = 1
                                  /\ \A t \in Servers \ {s} : applied[c][t] = 0
        /\ log[c] # "accepted" => \A s \in Servers : applied[c][s] = 0

LogInv ==
    TypeOK /\ CallerOK /\ ToldOK /\ EffectOK /\ InTransaction /\ CountOK
-----------------------------------------------------------------------------
(* What the steps do to the requests.                                      *)

Answers == Receipt \cup {"adopted", "conflict", "unavailable"}

\* Only attempt n of command c changes, to y.
OnlyAttempt(c, n, y) ==
    /\ req' \in [Commands -> [Attempts -> Request]]
    /\ req'[c][n] = y
    /\ \A d \in Commands, m \in Attempts :
           d # c \/ m # n => req'[d][m] = req[d][m]

(* A write to one attempt.                                                 *)
LEMMA WrittenAttempt ==
    ASSUME TypeOK, NEW c \in Commands, NEW n \in Attempts, NEW y \in Request,
           req' = [req EXCEPT ![c][n] = y]
    PROVE  OnlyAttempt(c, n, y)
BY DEF TypeOK, OnlyAttempt

(* A request that is answered stays answered, or its answer is lost.       *)
LEMMA ReplyAttempt ==
    ASSUME TypeOK, NEW c \in Commands, NEW n \in Attempts, NEW ans \in Answers,
           Reply(c, n, ans)
    PROVE  \E y \in Request : /\ OnlyAttempt(c, n, y)
                              /\ y.st \in {"reply", "gone"}
                              /\ y.ans \in {ans, "none"}
<1> DEFINE x == req[c][n]
           z == [x EXCEPT !.st = "reply", !.ans = ans]
<1>1. x \in Request
  BY DEF TypeOK
<1>2. z \in Request /\ z.st = "reply" /\ z.ans = ans
  BY <1>1 DEF Request, Answers
<1>3. Gone \in Request /\ Gone.st = "gone" /\ Gone.ans = "none"
  BY DEF Gone, Request, Receipt
<1>4. req' = [req EXCEPT ![c][n] = z] \/ req' = [req EXCEPT ![c][n] = Gone]
  BY DEF Reply
<1> HIDE DEF x, z
<1> QED
  BY <1>2, <1>3, <1>4, WrittenAttempt

(* A request gets further at its server.                                   *)
LEMMA PhaseAttempt ==
    ASSUME TypeOK, NEW c \in Commands, NEW n \in Attempts,
           NEW p \in {"running", "joined", "operated", "threw"},
           req' = [req EXCEPT ![c][n].st = p]
    PROVE  \E y \in Request : /\ OnlyAttempt(c, n, y)
                              /\ y.st = p /\ y.ans = req[c][n].ans
<1> DEFINE x == req[c][n]
           y == [x EXCEPT !.st = p]
<1>1. x \in Request
  BY DEF TypeOK
<1>2. y \in Request /\ y.st = p /\ y.ans = x.ans
  BY <1>1 DEF Request
<1>3. req' = [req EXCEPT ![c][n] = y]
  BY DEF TypeOK
<1> HIDE DEF x, y
<1>4. OnlyAttempt(c, n, y)
  BY <1>2, <1>3, WrittenAttempt
<1> QED
  BY <1>2, <1>4 DEF x

(* Requests that change nothing else: the answer of the log is true.       *)
LEMMA AnswerStep ==
    ASSUME LogInv, NEW c \in Commands, NEW n \in Attempts, NEW ans \in Answers,
           ans \in {"accepted", "adopted"} => log[c] = "accepted",
           Reply(c, n, ans), UNCHANGED <<log, applied, server, front, client>>
    PROVE  LogInv'
<1>1. PICK y \in Request : /\ OnlyAttempt(c, n, y)
                           /\ y.st \in {"reply", "gone"}
                           /\ y.ans \in {ans, "none"}
  BY ReplyAttempt DEF LogInv
<1>2. TypeOK' /\ CallerOK' /\ CountOK'
  BY <1>1 DEF LogInv, TypeOK, CallerOK, CountOK, OnlyAttempt
<1>3. ToldOK'
  BY <1>1 DEF LogInv, ToldOK, OnlyAttempt
<1>4. EffectOK' /\ InTransaction'
  BY <1>1 DEF LogInv, EffectOK, InTransaction, OnlyAttempt
<1> QED
  BY <1>2, <1>3, <1>4 DEF LogInv

(* What the log answers for a recorded key is true of its own payload.     *)
LEMMA AdoptIsTrue ==
    ASSUME NEW c
    PROVE  /\ Adopt(c) \in Answers
           /\ Adopt(c) \in {"accepted", "adopted"} => log[c] = "accepted"
BY DEF Adopt, Answers, Receipt

(* A key without a receipt has none for this command.                      *)
LEMMA UnrecordedCommand ==
    ASSUME TypeOK, NEW c \in Commands, ~Recorded(c)
    PROVE  log[c] = "none"
BY DEF Recorded, SameKey

-----------------------------------------------------------------------------
(* Every step keeps the invariant.                                         *)

(* A command that is executed in one transaction with its receipt.         *)
LEMMA ExecuteStep ==
    ASSUME LogInv, NEW c \in Commands, NEW n \in Attempts, NEW s \in Servers,
           NEW outcome \in Receipt, ExecuteCommand(c, n, s, outcome)
    PROVE  LogInv'
<1> DEFINE ans == IF outcome = "none" THEN "rejected" ELSE outcome
<1>1. /\ c \in Commands \ Maintenance /\ TypeOK
      /\ log[c] = "none"
      /\ log' = [log EXCEPT ![c] = outcome]
      /\ UNCHANGED <<server, front, client>>
  BY UnrecordedCommand DEF ExecuteCommand, NoReceipt, LogInv
<1>2. ans \in Answers /\ Reply(c, n, ans)
  BY DEF ExecuteCommand, Answers, Receipt
<1>3. PICK y \in Request : /\ OnlyAttempt(c, n, y)
                           /\ y.st \in {"reply", "gone"}
                           /\ y.ans \in {ans, "none"}
  BY <1>1, <1>2, ReplyAttempt
<1>4. \A t \in Servers : applied[c][t] = 0
  BY <1>1 DEF LogInv, CountOK
<1>5. /\ applied' \in [Commands -> [Servers -> Nat]]
      /\ \A d \in Commands : d # c => applied'[d] = applied[d]
      /\ outcome = "accepted" =>
             applied'[c][s] = 1 /\ \A t \in Servers \ {s} : applied'[c][t] = 0
      /\ outcome # "accepted" => \A t \in Servers : applied'[c][t] = 0
  <2>1. applied' = [applied EXCEPT ![c][s] =
                        IF outcome = "accepted" THEN @ + 1 ELSE @]
    BY DEF ExecuteCommand
  <2> QED
    BY <1>1, <1>4, <2>1 DEF TypeOK
<1>6. log' \in [Commands -> Receipt] /\ log'[c] = outcome
      /\ \A d \in Commands : d # c => log'[d] = log[d]
  BY <1>1 DEF TypeOK
<1>7. TypeOK' /\ CallerOK'
  BY <1>1, <1>3, <1>5, <1>6 DEF LogInv, TypeOK, CallerOK, OnlyAttempt
<1>8. ToldOK'
  <2>1. ans \in {"accepted", "adopted"} => outcome = "accepted"
    BY DEF Receipt
  <2> HIDE DEF ans
  <2> QED
    BY <1>1, <1>3, <1>6, <2>1 DEF LogInv, ToldOK, OnlyAttempt
<1>9. EffectOK' /\ InTransaction'
  <2>1. InTransaction'
    BY <1>3 DEF LogInv, InTransaction, OnlyAttempt
  <2>2. ASSUME NEW d \in Commands
        PROVE  /\ log'[d] = "accepted" => \E t \in Servers : applied'[d][t] > 0
               /\ \A m \in Attempts : req'[d][m].st = "operated" =>
                      \E t \in Servers : applied'[d][t] > 0
    <3>1. CASE d = c
      <4>1. \A m \in Attempts : req'[c][m].st # "operated"
        BY <1>1, <2>1 DEF InTransaction
      <4>2. outcome = "accepted" => applied'[c][s] > 0
        BY <1>5
      <4> QED
        BY <1>6, <3>1, <4>1, <4>2
    <3>2. CASE d # c
      <4>1. /\ \A m \in Attempts : req'[d][m] = req[d][m]
            /\ applied'[d] = applied[d] /\ log'[d] = log[d]
        BY <1>3, <1>5, <1>6, <3>2 DEF OnlyAttempt
      <4>2. /\ log[d] = "accepted" => \E t \in Servers : applied[d][t] > 0
            /\ \A m \in Attempts : req[d][m].st = "operated" =>
                   \E t \in Servers : applied[d][t] > 0
        BY DEF LogInv, EffectOK
      <4> QED
        BY <4>1, <4>2
    <3> QED
      BY <3>1, <3>2
  <2> QED
    BY <2>1, <2>2 DEF EffectOK
<1>10. CountOK'
  BY <1>1, <1>5, <1>6 DEF LogInv, CountOK
<1> QED
  BY <1>7, <1>8, <1>9, <1>10 DEF LogInv

(* A maintenance operation ends, with its effect or with an error.         *)
LEMMA MaintenanceStep ==
    ASSUME LogInv, NEW c \in Commands, NEW n \in Attempts, NEW s \in Servers,
           NEW end \in {"operated", "threw"}, Operate(c, n, s, end)
    PROVE  LogInv'
<1>1. /\ TypeOK /\ req[c][n].st = "running"
      /\ req' = [req EXCEPT ![c][n].st = end]
      /\ UNCHANGED <<log, server, front, client>>
  BY DEF Operate, LogInv
<1>2. c \in Maintenance
  BY <1>1 DEF LogInv, InTransaction
<1>3. PICK y \in Request : /\ OnlyAttempt(c, n, y)
                           /\ y.st = end /\ y.ans = req[c][n].ans
  <2>1. end \in {"running", "joined", "operated", "threw"}
    OBVIOUS
  <2> QED
    BY <1>1, <2>1, PhaseAttempt
<1>4. /\ applied' \in [Commands -> [Servers -> Nat]]
      /\ \A d \in Commands : d # c => applied'[d] = applied[d]
      /\ \A t \in Servers : applied'[c][t] >= applied[c][t]
      /\ end = "operated" => applied'[c][s] > 0
  <2>1. applied' = [applied EXCEPT ![c][s] =
                        IF end = "operated" THEN @ + 1 ELSE @]
    BY DEF Operate
  <2> QED
    BY <1>1, <2>1 DEF TypeOK
<1>5. TypeOK' /\ CallerOK'
  BY <1>1, <1>3, <1>4 DEF LogInv, TypeOK, CallerOK, OnlyAttempt
<1>6. ToldOK'
  BY <1>1, <1>3 DEF LogInv, ToldOK, OnlyAttempt
<1>7. InTransaction' /\ CountOK'
  BY <1>1, <1>2, <1>3, <1>4 DEF LogInv, InTransaction, CountOK, OnlyAttempt
<1>8. ASSUME NEW d \in Commands
      PROVE  /\ log'[d] = "accepted" => \E t \in Servers : applied'[d][t] > 0
             /\ \A m \in Attempts : req'[d][m].st = "operated" =>
                    \E t \in Servers : applied'[d][t] > 0
  <2>1. CASE d # c
    BY <1>1, <1>3, <1>4, <2>1 DEF LogInv, EffectOK, OnlyAttempt
  <2>2. CASE d = c
    <3>1. \A t \in Servers : applied[c][t] \in Nat /\ applied'[c][t] \in Nat
      BY <1>1, <1>4 DEF TypeOK
    <3>2. (\E t \in Servers : applied[c][t] > 0) =>
              \E t \in Servers : applied'[c][t] > 0
      BY <1>4, <3>1
    <3> QED
      BY <1>1, <1>3, <1>4, <2>2, <3>2 DEF LogInv, EffectOK, OnlyAttempt
  <2> QED
    BY <2>1, <2>2
<1> QED
  BY <1>5, <1>6, <1>7, <1>8 DEF LogInv, EffectOK

(* The receipt of a finished maintenance operation: what was recorded      *)
(* under its key meanwhile stands, or it is recorded as it ended.          *)
LEMMA ReceiptStep ==
    ASSUME LogInv, NEW c \in Commands, NEW n \in Attempts, NEW s \in Servers,
           StoreReceipt(c, n, s)
    PROVE  LogInv'
<1> DEFINE outcome == IF req[c][n].st = "operated" THEN "accepted"
                      ELSE "rejected"
<1>1. TypeOK /\ req[c][n].st \in {"operated", "threw"}
      /\ UNCHANGED <<applied, server, front, client>>
  BY DEF StoreReceipt, LogInv
<1>2. CASE Recorded(c)
  <2>1. Reply(c, n, Adopt(c)) /\ UNCHANGED log
    BY <1>2 DEF StoreReceipt
  <2> QED
    BY <1>1, <2>1, AdoptIsTrue, AnswerStep
<1>3. CASE ~Recorded(c)
  <2>1. /\ log[c] = "none" /\ log' = [log EXCEPT ![c] = outcome]
        /\ Reply(c, n, outcome)
    BY <1>1, <1>3, UnrecordedCommand DEF StoreReceipt
  <2>2. outcome \in Answers /\ outcome \in Receipt
    BY DEF Answers, Receipt
  <2>3. PICK y \in Request : /\ OnlyAttempt(c, n, y)
                             /\ y.st \in {"reply", "gone"}
                             /\ y.ans \in {outcome, "none"}
    BY <1>1, <2>1, <2>2, ReplyAttempt
  <2>4. log' \in [Commands -> Receipt] /\ log'[c] = outcome
        /\ \A d \in Commands : d # c => log'[d] = log[d]
    BY <1>1, <2>1, <2>2 DEF TypeOK
  <2>5. c \in Maintenance
    BY <1>1 DEF LogInv, InTransaction
  <2>6. outcome = "accepted" => \E t \in Servers : applied[c][t] > 0
    BY <1>1 DEF LogInv, EffectOK
  <2>7. TypeOK' /\ CallerOK'
    BY <1>1, <2>3, <2>4 DEF LogInv, TypeOK, CallerOK, OnlyAttempt
  <2>8. ToldOK'
    BY <1>1, <2>1, <2>3, <2>4 DEF LogInv, ToldOK, OnlyAttempt
  <2>9. EffectOK'
    BY <1>1, <2>3, <2>4, <2>6 DEF LogInv, EffectOK, OnlyAttempt
  <2>10. InTransaction' /\ CountOK'
    BY <1>1, <2>3, <2>4, <2>5 DEF LogInv, InTransaction, CountOK, OnlyAttempt
  <2> QED
    BY <2>7, <2>8, <2>9, <2>10 DEF LogInv
<1> QED
  BY <1>2, <1>3

(* A request of the client, its answer, or its lost connection.            *)
LEMMA ClientStep ==
    ASSUME LogInv, NEW c \in Commands,
           Send(c) \/ Receive(c) \/ Disconnect(c)
    PROVE  LogInv'
<1> DEFINE x == client[c]
<1>1. /\ TypeOK /\ UNCHANGED <<log, applied, server>>
      /\ front' = front
  BY DEF Send, Receive, Disconnect, LogInv
<1>2. x \in Caller /\ Gone \in Request
  BY <1>1 DEF TypeOK, Gone, Request, Receipt
<1> HIDE DEF x
<1>3. ASSUME NEW y \in Caller, client' = [client EXCEPT ![c] = y],
             y.at = "idle" => y.n = 0,
             y.at = "retry" => y.n = 1,
             y.at = "waiting" => y.n \in Attempts,
             y.got \in {"accepted", "adopted"} => log[c] = "accepted",
             NEW n \in Attempts, NEW z \in Request, OnlyAttempt(c, n, z),
             z.st \in {"running", "operated", "threw"} => z = req[c][n],
             z.ans \in {"none", req[c][n].ans}
      PROVE  LogInv'
  <2>1. /\ client' \in [Commands -> Caller] /\ client'[c] = y
        /\ \A d \in Commands : d # c => client'[d] = client[d]
    BY <1>1, <1>3 DEF TypeOK
  <2>2. TypeOK' /\ CallerOK'
    BY <1>1, <1>3, <2>1 DEF TypeOK, LogInv, CallerOK, OnlyAttempt
  <2>3. ToldOK'
    BY <1>1, <1>3, <2>1 DEF LogInv, ToldOK, OnlyAttempt
  <2>4. EffectOK' /\ InTransaction' /\ CountOK'
    BY <1>1, <1>3 DEF LogInv, EffectOK, InTransaction, CountOK, OnlyAttempt
  <2> QED
    BY <2>2, <2>3, <2>4 DEF LogInv
<1>4. CASE Send(c)
  <2> DEFINE n == x.n + 1
             y == [x EXCEPT !.at = "waiting", !.n = n]
             w == req[c][n]
             z == [w EXCEPT !.st = "wire", !.at = front]
  <2>1. x.at \in {"idle", "retry"} /\ front \in Servers
    BY <1>1, <1>4 DEF Send, TypeOK, x
  <2>2. n \in Attempts
    BY <2>1 DEF LogInv, CallerOK, Attempts, x
  <2>3. /\ client' = [client EXCEPT ![c] = y]
        /\ req' = [req EXCEPT ![c][n] = z]
    BY <1>1, <1>2, <1>4, <2>2 DEF Send, TypeOK, Caller, Request, x
  <2> HIDE DEF n
  <2>4. w \in Request
    BY <1>1, <2>2 DEF TypeOK
  <2>5. z \in Request /\ z.st = "wire" /\ z.ans = w.ans
    BY <2>1, <2>4 DEF Request
  <2>6. y \in Caller /\ y.at = "waiting" /\ y.n = n /\ y.got = x.got
    <3>1. n \in 0 .. 2
      BY <2>2 DEF Attempts
    <3> QED
      BY <1>2, <3>1 DEF Caller
  <2>7. x.got \in {"accepted", "adopted"} => log[c] = "accepted"
    BY DEF LogInv, ToldOK, x
  <2> HIDE DEF y, z
  <2>8. OnlyAttempt(c, n, z)
    BY <1>1, <2>2, <2>3, <2>5, WrittenAttempt
  <2> QED
    BY <1>3, <2>2, <2>3, <2>5, <2>6, <2>7, <2>8
<1>5. CASE Receive(c)
  <2> DEFINE n == x.n
             y == [x EXCEPT !.at = "done", !.got = req[c][n].ans]
  <2>1. n \in Attempts
    BY <1>5 DEF Receive, LogInv, CallerOK, x
  <2>2. /\ client' = [client EXCEPT ![c] = y]
        /\ req' = [req EXCEPT ![c][n] = Gone]
    BY <1>1, <1>5 DEF Receive, TypeOK, x
  <2>3. req[c][n] \in Request
    BY <1>1, <2>1 DEF TypeOK
  <2>4. y \in Caller /\ y.at = "done" /\ y.got = req[c][n].ans
    BY <1>2, <2>3 DEF Caller, Request
  <2>5. req[c][n].ans \in {"accepted", "adopted"} => log[c] = "accepted"
    BY <2>1 DEF LogInv, ToldOK
  <2> HIDE DEF y, n
  <2>6. OnlyAttempt(c, n, Gone)
    BY <1>1, <1>2, <2>1, <2>2, WrittenAttempt
  <2>7. Gone.st = "gone" /\ Gone.ans = "none"
    BY DEF Gone
  <2> QED
    BY <1>2, <1>3, <2>1, <2>2, <2>4, <2>5, <2>6, <2>7
<1>6. CASE Disconnect(c)
  <2> DEFINE n == x.n
             y == IF n = 1 THEN [x EXCEPT !.at = "retry"]
                  ELSE [x EXCEPT !.at = "done", !.got = "error"]
             z == IF req[c][n].st = "reply" THEN Gone ELSE req[c][n]
  <2>1. n \in Attempts
    BY <1>6 DEF Disconnect, LogInv, CallerOK, x
  <2>2. /\ client' = [client EXCEPT ![c] = y]
        /\ req' = [req EXCEPT ![c][n] = z]
    BY <1>1, <1>6, <2>1 DEF Disconnect, TypeOK, x
  <2>3. req[c][n] \in Request /\ z \in Request
    BY <1>1, <1>2, <2>1 DEF TypeOK
  <2>4. /\ y \in Caller /\ y.at \in {"retry", "done"}
        /\ y.at = "retry" => y.n = 1
        /\ y.got \in {x.got, "error"}
    BY <1>2 DEF Caller
  <2>5. x.got \in {"accepted", "adopted"} => log[c] = "accepted"
    BY DEF LogInv, ToldOK, x
  <2>6. /\ z.st \in {"running", "operated", "threw"} => z = req[c][n]
        /\ z.ans \in {"none", req[c][n].ans}
    BY DEF Gone
  <2> HIDE DEF y, z, n
  <2>7. OnlyAttempt(c, n, z)
    BY <1>1, <2>1, <2>2, <2>3, WrittenAttempt
  <2> QED
    BY <1>3, <2>1, <2>2, <2>3, <2>4, <2>5, <2>6, <2>7
<1> QED
  BY <1>4, <1>5, <1>6

(* A process starts, stops, ends or dies with the requests it held.        *)
LEMMA ProcessStep ==
    ASSUME LogInv, NEW s \in Servers,
           Start(s) \/ Crash(s) \/ Stop(s) \/ Exit(s)
    PROVE  LogInv'
<1>1. TypeOK /\ UNCHANGED <<log, applied, client>>
  BY DEF Start, Crash, Stop, Exit, LogInv
<1>2. /\ server' \in [Servers -> {"new", "up", "stopping", "dead"}]
      /\ front' \in Servers \cup {None}
  BY <1>1 DEF Start, Crash, Stop, Exit, TypeOK
<1>3. Gone \in Request /\ Gone.st = "gone" /\ Gone.ans = "none"
  BY DEF Gone, Request, Receipt
<1>4. /\ req' \in [Commands -> [Attempts -> Request]]
      /\ \A c \in Commands, n \in Attempts :
             req'[c][n] = req[c][n] \/ req'[c][n] = Gone
  <2>1. CASE UNCHANGED req
    BY <1>1, <2>1 DEF TypeOK
  <2>2. CASE DropAt(s)
    BY <1>1, <1>3, <2>2 DEF DropAt, TypeOK
  <2> QED
    BY <2>1, <2>2 DEF Start, Crash, Stop, Exit
<1>5. TypeOK' /\ CallerOK' /\ CountOK'
  BY <1>1, <1>2, <1>4 DEF LogInv, TypeOK, CallerOK, CountOK
<1>6. ToldOK'
  BY <1>1, <1>3, <1>4 DEF LogInv, ToldOK
<1>7. EffectOK' /\ InTransaction'
  BY <1>1, <1>3, <1>4 DEF LogInv, EffectOK, InTransaction
<1> QED
  BY <1>5, <1>6, <1>7 DEF LogInv

(* A request is refused, answered from the log, or starts or joins an      *)
(* operation: none of it changes the log.                                  *)
LEMMA RequestStep ==
    ASSUME LogInv, NEW c \in Commands, NEW n \in Attempts, NEW s \in Servers,
           \/ RefuseSession(c, n, s) \/ Unavailable(c, n, s)
           \/ AdoptReceipt(c, n, s) \/ Joined(c, n, s)
           \/ StartMaintenance(c, n, s) \/ JoinMaintenance(c, n, s)
    PROVE  LogInv'
<1>1. {"rejected", "unavailable"} \subseteq Answers
  BY DEF Answers, Receipt
<1>2. CASE RefuseSession(c, n, s) \/ Unavailable(c, n, s)
  <2>1. PICK ans \in {"rejected", "unavailable"} : Reply(c, n, ans)
    BY <1>2 DEF RefuseSession, Unavailable
  <2>2. UNCHANGED <<log, applied, server, front, client>>
    BY <1>2 DEF RefuseSession, Unavailable
  <2> QED
    BY <1>1, <2>1, <2>2, AnswerStep
<1>3. CASE AdoptReceipt(c, n, s) \/ Joined(c, n, s)
  <2>1. Reply(c, n, Adopt(c)) \/ Reply(c, n, "unavailable")
    BY <1>3 DEF AdoptReceipt, Joined
  <2>2. UNCHANGED <<log, applied, server, front, client>>
    BY <1>3 DEF AdoptReceipt, Joined
  <2>3. CASE Reply(c, n, Adopt(c))
    BY <2>2, <2>3, AdoptIsTrue, AnswerStep
  <2>4. CASE Reply(c, n, "unavailable")
    BY <1>1, <2>2, <2>4, AnswerStep
  <2> QED
    BY <2>1, <2>3, <2>4
<1>4. CASE StartMaintenance(c, n, s) \/ JoinMaintenance(c, n, s)
  <2>1. PICK p \in {"running", "joined", "operated", "threw"} :
            p # "operated" /\ req' = [req EXCEPT ![c][n].st = p]
    BY <1>4 DEF StartMaintenance, JoinMaintenance
  <2>2. /\ c \in Maintenance /\ TypeOK
        /\ UNCHANGED <<log, applied, server, front, client>>
    BY <1>4 DEF StartMaintenance, JoinMaintenance, LogInv
  <2>3. PICK y \in Request : /\ OnlyAttempt(c, n, y)
                             /\ y.st = p /\ y.ans = req[c][n].ans
    BY <2>1, <2>2, PhaseAttempt
  <2>4. TypeOK' /\ CallerOK' /\ CountOK'
    BY <2>2, <2>3 DEF LogInv, TypeOK, CallerOK, CountOK, OnlyAttempt
  <2>5. ToldOK'
    BY <2>2, <2>3 DEF LogInv, ToldOK, OnlyAttempt
  <2>6. EffectOK' /\ InTransaction'
    BY <2>1, <2>2, <2>3 DEF LogInv, EffectOK, InTransaction, OnlyAttempt
  <2> QED
    BY <2>4, <2>5, <2>6 DEF LogInv
<1> QED
  BY <1>2, <1>3, <1>4

(* Every step keeps the invariant.                                         *)
LEMMA LogInvStep ==
    ASSUME LogInv, [Next]_vars
    PROVE  LogInv'
<1>1. CASE UNCHANGED vars
  BY <1>1 DEF vars, LogInv, TypeOK, CallerOK, ToldOK, EffectOK, InTransaction,
     CountOK
<1>2. ASSUME NEW c \in Commands, NEW n \in Attempts, NEW s \in Servers,
             Handle(c, n, s) \/ Finish(c, n, s)
      PROVE  LogInv'
  BY <1>2, RequestStep, ExecuteStep, MaintenanceStep, ReceiptStep
     DEF Handle, Finish
<1> QED
  BY <1>1, <1>2, ClientStep, ProcessStep DEF Next, Serve

(* It holds from the start and throughout.                                 *)
LEMMA AlwaysLogInv == Spec => []LogInv
<1>1. Init => LogInv
  BY DEF Init, LogInv, TypeOK, CallerOK, ToldOK, EffectOK, InTransaction,
     CountOK, NoRequest, Request, Caller, Receipt, Attempts
<1> QED
  BY <1>1, LogInvStep, PTL DEF Spec

-----------------------------------------------------------------------------
(* What a client is told of a success took place: it is recorded under its *)
(* own payload, and some server applied it, however often the client or    *)
(* the servers repeated it, crashed or were replaced.                      *)
THEOREM AnswersAreTrue == Spec => []AnswerIsTrue
<1>1. LogInv => AnswerIsTrue
  BY DEF LogInv, ToldOK, EffectOK, AnswerIsTrue
<1> QED
  BY <1>1, AlwaysLogInv, PTL

\* The pairs that Effects counts, of any record f of what servers applied.
Pairs(f) == UNION {{s} \X (1 .. f[s]) : s \in Servers}

(* The effects of a command that no server applied, or only one and once.  *)
LEMMA CountedPairs ==
    ASSUME NEW f
    PROVE  /\ (\A s \in Servers : f[s] = 0) => Cardinality(Pairs(f)) = 0
           /\ (\E s \in Servers : f[s] = 1 /\ \A t \in Servers \ {s} : f[t] = 0)
                  => Cardinality(Pairs(f)) = 1
<1>1. ASSUME \A s \in Servers : f[s] = 0
      PROVE  Cardinality(Pairs(f)) = 0
  <2>1. \A s \in Servers : 1 .. f[s] = {}
    BY <1>1
  <2>2. Pairs(f) = {}
    BY <2>1 DEF Pairs
  <2> QED
    BY <2>2, FS_EmptySet
<1>2. ASSUME NEW s \in Servers, f[s] = 1, \A t \in Servers \ {s} : f[t] = 0
      PROVE  Cardinality(Pairs(f)) = 1
  <2>1. /\ 1 .. f[s] = {1}
        /\ \A t \in Servers \ {s} : 1 .. f[t] = {}
    BY <1>2
  <2>2. Pairs(f) = {<<s, 1>>}
    BY <2>1 DEF Pairs
  <2> QED
    BY <2>2, FS_Singleton
<1> QED
  BY <1>1, <1>2

\* The decided commands, as CommandOnce sees them.
Transacted == Commands \ Maintenance

Decided == [c \in Transacted |-> IF log[c] = "none" THEN "open" ELSE log[c]]

Effect == [c \in Transacted |-> Cardinality(Effects(c))]

(* executeCommand decides a command that was open, with its effect, and    *)
(* under a key of which nothing was decided.                               *)
LEMMA ExecuteDecides ==
    ASSUME LogInv, LogInv', NEW c \in Commands, NEW n \in Attempts,
           NEW s \in Servers, NEW outcome \in {"accepted", "rejected"},
           ExecuteCommand(c, n, s, outcome)
    PROVE  Once!Next
<1>1. /\ c \in Transacted /\ TypeOK /\ ~Recorded(c) /\ log[c] = "none"
      /\ log' = [log EXCEPT ![c] = outcome]
  BY UnrecordedCommand DEF ExecuteCommand, NoReceipt, LogInv, Transacted
<1>2. Decided[c] = "open"
  BY <1>1 DEF Decided
<1>3. c \in Twins \ Maintenance =>
          \A d \in Twins \ Maintenance : Decided[d] = "open"
  <2> SUFFICES ASSUME c \in Twins, NEW d \in Twins \ Maintenance
               PROVE  Decided[d] = "open"
    OBVIOUS
  <2>1. d \in SameKey(c) /\ d \in Transacted
    BY CommandLogAssumption DEF SameKey, Transacted
  <2>2. log[d] = "none"
    BY <1>1, <2>1 DEF Recorded
  <2> QED
    BY <2>1, <2>2 DEF Decided
<1>4. Decided' = [Decided EXCEPT ![c] = outcome]
  <2>1. log'[c] = outcome /\ \A d \in Transacted \ {c} : log'[d] = log[d]
    BY <1>1 DEF TypeOK, Transacted
  <2>2. Decided' = [d \in Transacted |->
                        IF d = c THEN outcome ELSE Decided[d]]
    BY <2>1 DEF Decided
  <2> QED
    BY <1>1, <2>2 DEF Decided
<1>5. Effect' = [Effect EXCEPT ![c] = IF outcome = "accepted" THEN 1 ELSE 0]
  <2>1. /\ Effect = [d \in Transacted |-> Cardinality(Pairs(applied[d]))]
        /\ Effect' = [d \in Transacted |-> Cardinality(Pairs(applied'[d]))]
    BY DEF Effect, Effects, Pairs
  <2>2. \A d \in Transacted \ {c} : applied'[d] = applied[d]
    BY <1>1 DEF ExecuteCommand, TypeOK, Transacted
  <2>3. Cardinality(Pairs(applied'[c])) = IF outcome = "accepted" THEN 1 ELSE 0
    <3>1. log'[c] = outcome
      BY <1>1 DEF TypeOK, Transacted
    <3> QED
      BY <1>1, <3>1, CountedPairs DEF LogInv, CountOK, Transacted
  <2> QED
    BY <1>1, <2>1, <2>2, <2>3
<1> QED
  BY <1>1, <1>2, <1>3, <1>4, <1>5 DEF Once!Next, Once!Decide, Decided, Effect,
     Transacted

\* What CommandOnce sees of the log.
Seen == <<Decided, Effect>>

(* A step that changes neither the receipts nor the effects of commands    *)
(* that run in a transaction is not seen.                                  *)
LEMMA Unseen ==
    ASSUME TypeOK, TypeOK',
           \A d \in Transacted : log'[d] = log[d] /\ applied'[d] = applied[d]
    PROVE  UNCHANGED Seen
BY DEF Seen, Decided, Effect, Effects

(* Every other step of a request concerns maintenance, or leaves the log   *)
(* and the effects alone.                                                  *)
LEMMA OtherUnseen ==
    ASSUME LogInv, LogInv', NEW c \in Commands, NEW n \in Attempts,
           NEW s \in Servers,
           \/ RefuseSession(c, n, s) \/ Unavailable(c, n, s)
           \/ AdoptReceipt(c, n, s) \/ Joined(c, n, s)
           \/ StartMaintenance(c, n, s) \/ JoinMaintenance(c, n, s)
           \/ ExecuteCommand(c, n, s, "none")
           \/ \E end \in {"operated", "threw"} : Operate(c, n, s, end)
           \/ StoreReceipt(c, n, s)
    PROVE  UNCHANGED Seen
<1>1. TypeOK /\ TypeOK'
  BY DEF LogInv
<1>2. CASE UNCHANGED <<log, applied>>
  BY <1>1, <1>2, Unseen
<1>3. CASE ExecuteCommand(c, n, s, "none")
  <2>1. log[c] = "none"
    BY <1>1, <1>3, UnrecordedCommand DEF ExecuteCommand, NoReceipt
  <2>2. log' = [log EXCEPT ![c] = "none"]
        /\ applied' = [applied EXCEPT ![c][s] = @]
    BY <1>3 DEF ExecuteCommand
  <2>3. UNCHANGED <<log, applied>>
    BY <1>1, <2>1, <2>2 DEF TypeOK
  <2> QED
    BY <1>2, <2>3
<1>4. CASE \/ \E end \in {"operated", "threw"} : Operate(c, n, s, end)
           \/ StoreReceipt(c, n, s)
  <2>1. c \notin Transacted
    BY <1>4 DEF Operate, StoreReceipt, LogInv, InTransaction, Transacted
  <2>2. \A d \in Transacted : log'[d] = log[d] /\ applied'[d] = applied[d]
    BY <1>1, <1>4, <2>1 DEF Operate, StoreReceipt, TypeOK, Transacted
  <2> QED
    BY <1>1, <2>2, Unseen
<1> QED
  BY <1>2, <1>3, <1>4 DEF RefuseSession, Unavailable, AdoptReceipt, Joined,
     StartMaintenance, JoinMaintenance

(* The log implements CommandOnce: a command that runs in a transaction is *)
(* decided once, takes effect with its receipt, and of the commands under  *)
(* one key at most one is decided, through lost answers, retries, crashes  *)
(* and two servers on one database.                                        *)
THEOREM LogImplementsOnce == Spec => OnceSpec
<1>1. Init => Once!Init
  <2> SUFFICES ASSUME Init PROVE Once!Init
    OBVIOUS
  <2>1. \A c \in Transacted : Pairs(applied[c]) = Effects(c)
                              /\ \A s \in Servers : applied[c][s] = 0
    BY DEF Init, Pairs, Effects, Transacted
  <2>2. \A c \in Transacted : Cardinality(Effects(c)) = 0
    BY <2>1, CountedPairs
  <2>3. \A c \in Transacted : log[c] = "none"
    BY DEF Init, Transacted
  <2> QED
    BY <2>2, <2>3 DEF Once!Init, Transacted
<1>2. ASSUME LogInv, LogInv', [Next]_vars
      PROVE  Once!Next \/ UNCHANGED Seen
  <2>1. CASE UNCHANGED vars
    BY <1>2, <2>1, Unseen DEF LogInv, vars
  <2>2. ASSUME NEW c \in Commands, NEW n \in Attempts, NEW s \in Servers,
               Handle(c, n, s) \/ Finish(c, n, s)
        PROVE  Once!Next \/ UNCHANGED Seen
    <3>1. CASE \E outcome \in {"accepted", "rejected"} :
                   ExecuteCommand(c, n, s, outcome)
      BY <1>2, <3>1, ExecuteDecides
    <3>2. CASE ~ \E outcome \in {"accepted", "rejected"} :
                   ExecuteCommand(c, n, s, outcome)
      BY <1>2, <2>2, <3>2, OtherUnseen DEF Handle, Finish, Receipt
    <3> QED
      BY <3>1, <3>2
  <2>3. ASSUME NEW c \in Commands, Send(c) \/ Receive(c) \/ Disconnect(c)
        PROVE  UNCHANGED Seen
    BY <1>2, <2>3, Unseen DEF Send, Receive, Disconnect, LogInv
  <2>4. ASSUME NEW s \in Servers, Start(s) \/ Crash(s) \/ Stop(s) \/ Exit(s)
        PROVE  UNCHANGED Seen
    BY <1>2, <2>4, Unseen DEF Start, Crash, Stop, Exit, LogInv
  <2> QED
    BY <1>2, <2>1, <2>2, <2>3, <2>4 DEF Next, Serve
<1>3. LogInv /\ LogInv' /\ [Next]_vars => [Once!Next]_Seen
  BY <1>2
<1> QED
  BY <1>1, <1>3, AlwaysLogInv, PTL DEF Spec, OnceSpec, Once!Spec, Seen,
     Decided, Effect, Transacted
=============================================================================
