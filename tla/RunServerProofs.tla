--------------------------- MODULE RunServerProofs ---------------------------
(***************************************************************************)
(* The servers of RunServer use the store only through its transactions:   *)
(* every step of a server is a transaction of RunStore or leaves the rows  *)
(* alone, so ServerSpec implements Spec and the theorems about the rows    *)
(* hold of the running system.                                             *)
(***************************************************************************)
EXTENDS RunServer, RunStoreProofs

(* A claim that verifies is one that was given: the transactions compare    *)
(* the claim a server passes, so the servers need no invariant for it.     *)
LEMMA GivenClaim ==
    ASSUME TypeOK, NEW r \in Runs, NEW g, Holds(run[r], g)
    PROVE  g \in 0 .. run[r].gen
BY RunStoreAssumption DEF TypeOK, Row, Holds

\* The transactions of a claim holder, with whatever claim is passed.
HeldWith(r, g) ==
    \/ MarkRunning(r, g)
    \/ Park(r, g)
    \/ ParkNoProgress(r, g)
    \/ ParkAmbiguous(r, g)
    \/ InteractionTimeout(r, g)
    \/ PauseActive(r, g)
    \/ Fail(r, g)
    \/ CancelHeld(r, g)
    \/ Initialize(r, g)
    \/ RunStarted(r, g)
    \/ RunResumed(r, g)
    \/ AnswerResume(r, g)
    \/ AcceptSubmission(r, g)
    \/ RejectSubmission(r, g)
    \/ ConsumeAnswer(r, g)
    \/ EndAttempt(r, g)
    \/ RequestInteraction(r, g)
    \/ WaitForInput(r, g)
    \/ ReserveEffect(r, g)
    \/ \E outcome \in {"none", "ambiguous"} : SettleEffect(r, g, outcome)
    \/ \E s \in RunTerminal : FinishRun(r, g, s)
    \/ DecisionTimeout(r, g)

(* A transaction under any claim whatever is a transaction of the store.   *)
LEMMA HeldWithIsNext ==
    ASSUME TypeOK, NEW r \in Runs, NEW g, HeldWith(r, g)
    PROVE  Next
<1>1. Holds(run[r], g)
  BY DEF HeldWith, MarkRunning, Park, ParkNoProgress, ParkAmbiguous,
     InteractionTimeout, PauseActive, Fail, CancelHeld, Initialize, RunStarted,
     RunResumed, AnswerResume, AcceptSubmission, RejectSubmission,
     ConsumeAnswer, EndAttempt, RequestInteraction, WaitForInput, CanRequest,
     ReserveEffect, SettleEffect, FinishRun, DecisionTimeout
<1>2. g \in 0 .. run[r].gen
  BY <1>1, GivenClaim
<1>3. Held(r)
  BY <1>2 DEF HeldWith, Held
<1> QED
  BY <1>3 DEF Next

(* What a server does by itself for a run.                                 *)
LEMMA DriveIsNext ==
    ASSUME TypeOK, NEW o \in Owners, NEW r \in Runs, Drive(o, r)
    PROVE  Next \/ UNCHANGED run
<1> DEFINE g == slot[o][r].gen
<1>1. HeldWith(r, g) => Next
  BY HeldWithIsNext
<1>2. Claiming(r) => Next
  BY DEF Next
<1>3. GiveUp(o, r) => HeldWith(r, g) \/ UNCHANGED run
  BY DEF GiveUp, HeldWith
<1>4. CASE ClaimReady(o, r) \/ ClaimScheduled(o, r)
           \/ ClaimExpired(o, r) \/ ClaimDecision(o, r)
  BY <1>2, <1>4 DEF ClaimReady, ClaimScheduled, ClaimExpired, ClaimDecision,
     Claiming
<1>5. CASE ExpireTurn(o, r) \/ ExpireDecision(o, r)
  BY <1>1, <1>3, <1>5 DEF ExpireTurn, ExpireDecision, HeldWith
<1>6. CASE Activate(o, r) \/ StopRun(o, r)
  BY <1>1, <1>3, <1>6 DEF Activate, StopRun
<1>7. CASE RecoverEffects(o, r)
  BY <1>1, <1>7 DEF RecoverEffects, HeldWith
<1>8. CASE ActivateAmbiguous(o, r) \/ SpawnRunner(o, r) \/ RunnerReady(o, r)
  BY <1>1, <1>8 DEF ActivateAmbiguous, SpawnRunner, RunnerReady, HeldWith
<1>9. CASE RunnerStep(o, r)
  <2>1. CASE RunnerStart(o, r) \/ RunnerResume(o, r)
    BY <1>1, <2>1 DEF RunnerStart, RunnerResume, HeldWith
  <2>2. CASE RunnerCandidate(o, r)
    BY <1>1, <2>2 DEF RunnerCandidate, HeldWith
  <2>3. CASE RunnerGraph(o, r) \/ RunnerAmbiguous(o, r)
    BY <1>1, <2>3 DEF RunnerGraph, RunnerAmbiguous, HeldWith
  <2>4. CASE RunnerFinish(o, r)
    BY <1>1, <2>4 DEF RunnerFinish, HeldWith, RunTerminal
  <2> QED
    BY <1>9, <2>1, <2>2, <2>3, <2>4 DEF RunnerStep
<1>10. CASE RecoverRunnerExit(o, r)
  BY <1>1, <1>10 DEF RecoverRunnerExit, RecoverHeld, HeldWith
<1>11. CASE RunnerExit(o, r) \/ LoseClaim(o, r)
  BY <1>11 DEF RunnerExit, LoseClaim
<1> QED
  BY <1>4, <1>5, <1>6, <1>7, <1>8, <1>9, <1>10, <1>11 DEF Drive

(* What clients ask of a server for a run.                                 *)
LEMMA OperateIsNext ==
    ASSUME TypeOK, NEW o \in Owners, NEW r \in Runs, Operate(o, r)
    PROVE  Next
<1> DEFINE g == slot[o][r].gen
<1>1. HeldWith(r, g) => Next
  BY HeldWithIsNext
<1>2. Claiming(r) => Next
  BY DEF Next
<1>3. Unheld(r) => Next
  BY DEF Next
<1>4. CASE PauseRun(o, r)
  BY <1>1, <1>3, <1>4 DEF PauseRun, HeldWith, Unheld
<1>5. CASE AbortTurn(o, r) \/ ResumeRun(o, r)
  BY <1>3, <1>5 DEF AbortTurn, ResumeRun, Unheld
<1>6. CASE CancelRun(o, r)
  BY <1>1, <1>3, <1>6 DEF CancelRun, HeldWith, Unheld
<1>7. CASE StartRun(o, r) \/ RestartRun(o, r)
  BY <1>3, <1>7 DEF StartRun, RestartRun, Unheld
<1>8. CASE Answer(o, r) \/ MissingSubmission(o, r)
  BY <1>2, <1>3, <1>8 DEF Answer, MissingSubmission, Claiming, Unheld
<1> QED
  BY <1>4, <1>5, <1>6, <1>7, <1>8 DEF Operate

\* The server row names a server, or nobody.
CurrentOK == current \in Owners \cup {None}

(* Every step of the servers is a transaction or leaves the rows alone.    *)
LEMMA ServerNextIsNext ==
    ASSUME TypeOK, CurrentOK, [ServerNext]_vars
    PROVE  [Next]_run
<1>1. CASE UNCHANGED vars
  BY <1>1 DEF vars
<1>2. ASSUME NEW o \in Owners, NEW r \in Runs, Drive(o, r) PROVE [Next]_run
  BY <1>2, DriveIsNext
<1>3. ASSUME NEW o \in Owners, NEW r \in Runs, Operate(o, r) PROVE [Next]_run
  BY <1>3, OperateIsNext
<1>4. ASSUME NEW o \in Owners, StartServer(o) PROVE [Next]_run
  BY <1>4 DEF StartServer, CurrentOK, Next
<1>5. ASSUME NEW o \in Owners,
             StopServer(o) \/ EndServer(o) \/ CrashServer(o)
      PROVE  [Next]_run
  BY <1>5 DEF StopServer, EndServer, CrashServer
<1>6. ASSUME NEW r \in Runs, LeaseExpires(r) PROVE [Next]_run
  BY <1>6 DEF LeaseExpires, Next, Unheld
<1> QED
  BY <1>1, <1>2, <1>3, <1>4, <1>5, <1>6 DEF ServerNext

(* The server row keeps naming a server, or nobody.                        *)
LEMMA CurrentStep ==
    ASSUME CurrentOK, [ServerNext]_vars
    PROVE  CurrentOK'
<1>1. CASE UNCHANGED vars
  BY <1>1 DEF vars, CurrentOK
<1>2. ASSUME NEW o \in Owners, NEW r \in Runs, Drive(o, r)
      PROVE  UNCHANGED current
  BY <1>2 DEF Drive, ClaimReady, ClaimScheduled, ClaimExpired, ClaimDecision,
     ExpireTurn, ExpireDecision, Activate, RecoverEffects, ActivateAmbiguous,
     SpawnRunner, RunnerReady, RunnerStep, RunnerExit, RecoverRunnerExit, LoseClaim,
     StopRun, Process
<1>3. ASSUME NEW o \in Owners, NEW r \in Runs, Operate(o, r)
      PROVE  UNCHANGED current
  BY <1>3 DEF Operate, PauseRun, AbortTurn, ResumeRun, CancelRun, StartRun,
     RestartRun, Answer, MissingSubmission, Process
<1>4. ASSUME NEW o \in Owners,
             \/ StartServer(o) \/ StopServer(o)
             \/ EndServer(o) \/ CrashServer(o)
      PROVE  CurrentOK'
  BY <1>4 DEF StartServer, StopServer, EndServer, CrashServer, CurrentOK
<1>5. ASSUME NEW r \in Runs, LeaseExpires(r) PROVE UNCHANGED current
  BY <1>5 DEF LeaseExpires, Process
<1> QED
  BY <1>1, <1>2, <1>3, <1>4, <1>5 DEF ServerNext, CurrentOK

-----------------------------------------------------------------------------
(* What the servers remember.                                              *)

Phases   == {"idle"} \cup ClaimPhases \cup ActivePhases
Controls == {"none", "handoff", "pause", "cancel"}

SlotsOK == slot \in [Owners -> [Runs -> Slot]]

\* A server changes what it remembers of one run: it forgets its claim, keeps
\* the claim and moves on, or has just taken the claim of the next generation.
SlotStep(o, r) ==
    \E s \in Slot :
        /\ SetSlot(o, r, s)
        /\ \/ s.phase = "idle"
           \/ Phase(o, r) # "idle" /\ s.gen = slot[o][r].gen
           \/ s.gen = run[r].gen + 1 /\ run'[r].gen = run[r].gen + 1

(* A server forgets its claim (the run leaves activeRuns).                 *)
LEMMA ForgetStep ==
    ASSUME NEW o, NEW r, SetSlot(o, r, Idle)
    PROVE  SlotStep(o, r)
<1>1. Idle \in Slot /\ Idle.phase = "idle"
  BY RunStoreAssumption DEF Idle, Slot
<1> QED
  BY <1>1 DEF SlotStep

(* A runner gets further under the claim it has.                           *)
LEMMA MoveStep ==
    ASSUME SlotsOK, NEW o \in Owners, NEW r \in Runs, Phase(o, r) # "idle",
           NEW p \in Phases, MoveTo(o, r, p) \/ Advance(o, r, p)
    PROVE  SlotStep(o, r)
<1> DEFINE x == slot[o][r]
           y == [x EXCEPT !.phase = p]
           z == [x EXCEPT !.phase = p, !.progress = TRUE]
<1>1. x \in Slot
  BY DEF SlotsOK
<1>2. /\ y \in Slot /\ y.gen = x.gen
      /\ z \in Slot /\ z.gen = x.gen
  BY <1>1 DEF Slot, Phases
<1>3. SetSlot(o, r, y) \/ SetSlot(o, r, z)
  BY DEF SetSlot, MoveTo, Advance, SlotsOK
<1> QED
  BY <1>2, <1>3 DEF SlotStep

(* A runner is told to stop, and keeps its claim until it did.             *)
LEMMA ControlStep ==
    ASSUME SlotsOK, NEW o \in Owners, NEW r \in Runs, Phase(o, r) # "idle",
           NEW c \in Controls,
           \/ slot' = [slot EXCEPT ![o][r].control = c]
           \/ slot' = [slot EXCEPT ![o][r].phase = "halted",
                                   ![o][r].control = c]
    PROVE  SlotStep(o, r)
<1> DEFINE x == slot[o][r]
           y == [x EXCEPT !.control = c]
           z == [x EXCEPT !.phase = "halted", !.control = c]
<1>1. x \in Slot
  BY DEF SlotsOK
<1>2. "halted" \in Phases
  BY DEF Phases, ActivePhases, RunnerPhases
<1>3. /\ y \in Slot /\ y.gen = x.gen
      /\ z \in Slot /\ z.gen = x.gen
  BY <1>1, <1>2 DEF Slot, Phases, Controls
<1>4. SetSlot(o, r, y) \/ SetSlot(o, r, z)
  BY DEF SetSlot, SlotsOK
<1> QED
  BY <1>3, <1>4 DEF SlotStep

(* A claim gives the server the generation the lease row now has.          *)
LEMMA ClaimStep ==
    ASSUME TypeOK, NEW o \in Owners, NEW r \in Runs, NEW p \in Phases,
           Claim(o, r, p),
           \/ ClaimNext(r, o)
           \/ ClaimForInteractionValidation(r, o)
           \/ ClaimForControl(r, o)
    PROVE  SlotStep(o, r)
<1> DEFINE x == run[r]
           s == [Idle EXCEPT !.phase = p, !.gen = x.gen + 1]
<1>1. x \in Row /\ x.gen \in Nat /\ x.gen < MaxGeneration
  BY RunStoreAssumption DEF TypeOK, Row, ClaimNext,
     ClaimForInteractionValidation, ClaimForControl, LeaseAvailable
<1>2. x.gen + 1 \in 0 .. MaxGeneration
  BY <1>1, RunStoreAssumption
<1>3. s \in Slot /\ s.gen = x.gen + 1
  BY <1>2, RunStoreAssumption DEF Idle, Slot, Phases
<1>4. SetSlot(o, r, s)
  BY DEF Claim
<1>5. run'[r] = Claimed(x, o) \/ run'[r] = ControlClaimed(x, o)
  BY DEF TypeOK, ClaimNext, ClaimForInteractionValidation, ClaimForControl,
     Update
<1>6. /\ Claimed(x, o).gen = x.gen + 1
      /\ ControlClaimed(x, o).gen = x.gen + 1
  BY <1>1 DEF Row, Claimed, ControlClaimed
<1> QED
  BY <1>3, <1>4, <1>5, <1>6 DEF SlotStep

(* What a server does by itself changes its memory of one run.             *)
LEMMA DriveSlot ==
    ASSUME TypeOK, SlotsOK, NEW o \in Owners, NEW r \in Runs, Drive(o, r)
    PROVE  SlotStep(o, r) \/ UNCHANGED slot
<1> USE DEF Phases, ActivePhases, ClaimPhases, RunnerPhases, ExitPhases
<1>1. CASE ClaimReady(o, r) \/ ClaimScheduled(o, r)
           \/ ClaimExpired(o, r) \/ ClaimDecision(o, r)
  BY <1>1, ClaimStep DEF ClaimReady, ClaimScheduled, ClaimExpired,
     ClaimDecision
<1>2. CASE ExpireTurn(o, r) \/ ExpireDecision(o, r)
  BY <1>2, ForgetStep, MoveStep DEF ExpireTurn, ExpireDecision
<1>3. CASE Activate(o, r) \/ StopRun(o, r)
  BY <1>3, ForgetStep, MoveStep DEF Activate, StopRun
<1>4. CASE RecoverEffects(o, r)
  BY <1>4 DEF RecoverEffects
<1>5. CASE ActivateAmbiguous(o, r)
  BY <1>5, ForgetStep, MoveStep DEF ActivateAmbiguous
<1>6. CASE SpawnRunner(o, r) \/ RunnerReady(o, r)
  BY <1>6, MoveStep DEF SpawnRunner, RunnerReady
<1>7. CASE RunnerStep(o, r)
  <2>1. CASE RunnerStart(o, r) \/ RunnerResume(o, r)
    BY <2>1, MoveStep DEF RunnerStart, RunnerResume
  <2>2. CASE RunnerCandidate(o, r)
    BY <2>2, MoveStep, ControlStep DEF RunnerCandidate, Controls
  <2>3. CASE RunnerGraph(o, r) \/ RunnerAmbiguous(o, r)
    BY <2>3, MoveStep, ControlStep DEF RunnerGraph, RunnerAmbiguous, Controls
  <2>4. CASE RunnerFinish(o, r)
    BY <2>4, MoveStep DEF RunnerFinish
  <2> QED
    BY <1>7, <2>1, <2>2, <2>3, <2>4 DEF RunnerStep
<1>8. CASE RunnerExit(o, r) \/ LoseClaim(o, r)
  BY <1>8, MoveStep DEF RunnerExit, LoseClaim
<1>9. CASE RecoverRunnerExit(o, r)
  BY <1>9, ForgetStep DEF RecoverRunnerExit
<1> QED
  BY <1>1, <1>2, <1>3, <1>4, <1>5, <1>6, <1>7, <1>8, <1>9 DEF Drive

(* What clients ask of a server changes its memory of one run.             *)
LEMMA OperateSlot ==
    ASSUME SlotsOK, NEW o \in Owners, NEW r \in Runs, Operate(o, r)
    PROVE  SlotStep(o, r) \/ UNCHANGED slot
<1>1. Phase(o, r) \in ActivePhases => Phase(o, r) # "idle"
  BY DEF ActivePhases, RunnerPhases, ExitPhases
<1>2. CASE PauseRun(o, r)
  BY <1>1, <1>2, ControlStep DEF PauseRun, Controls
<1>3. CASE CancelRun(o, r)
  BY <1>1, <1>3, ControlStep, ForgetStep DEF CancelRun, Controls
<1>4. CASE AbortTurn(o, r) \/ ResumeRun(o, r) \/ StartRun(o, r)
           \/ RestartRun(o, r) \/ Answer(o, r) \/ MissingSubmission(o, r)
  BY <1>4 DEF AbortTurn, ResumeRun, StartRun, RestartRun, Answer,
     MissingSubmission
<1> QED
  BY <1>2, <1>3, <1>4 DEF Operate

\* A claim a server remembers was given, and no two servers remember the same.
SlotClaims ==
    \A r \in Runs, o \in Owners : Phase(o, r) # "idle" =>
        /\ slot[o][r].gen <= run[r].gen
        /\ \A p \in Owners : p # o /\ Phase(p, r) # "idle" =>
               slot[p][r].gen # slot[o][r].gen

(* Generations never decrease.                                             *)
LEMMA GenerationsGrow ==
    ASSUME GoodRows, [Next]_run, NEW r \in Runs
    PROVE  /\ run[r].gen \in Nat /\ run'[r].gen \in Nat
           /\ run[r].gen <= run'[r].gen
<1>1. GoodStep
  BY NextIsGood
<1>2. run[r].gen \in Nat /\ run'[r].gen \in Nat
  BY <1>1, RunStoreAssumption DEF GoodRows, TypeOK, GoodStep, Row
<1>3. CASE \A q \in Runs : RowStep(run[q], run'[q])
  BY <1>2, <1>3 DEF RowStep, Fenced
<1>4. CASE \E q \in Runs : Reserving(q)
  BY <1>2, <1>4, ReservedRow
<1> QED
  BY <1>1, <1>2, <1>3, <1>4 DEF GoodStep

(* Remembered claims stay given, and distinct between servers.             *)
LEMMA SlotClaimsStep ==
    ASSUME GoodRows, [Next]_run, SlotsOK, SlotClaims,
           NEW o \in Owners, NEW r \in Runs, SlotStep(o, r)
    PROVE  SlotsOK' /\ SlotClaims'
<1>1. PICK s \in Slot :
        /\ SetSlot(o, r, s)
        /\ \/ s.phase = "idle"
           \/ Phase(o, r) # "idle" /\ s.gen = slot[o][r].gen
           \/ s.gen = run[r].gen + 1 /\ run'[r].gen = run[r].gen + 1
  BY DEF SlotStep
<1>2. SlotsOK'
  BY <1>1 DEF SlotsOK, SetSlot
<1>3. /\ slot'[o][r] = s
      /\ \A p \in Owners, q \in Runs :
             p # o \/ q # r => slot'[p][q] = slot[p][q]
  BY <1>1 DEF SlotsOK, SetSlot
<1>4. \A p \in Owners, q \in Runs : slot[p][q].gen \in Nat
  BY RunStoreAssumption DEF SlotsOK, Slot
<1>5. \A q \in Runs : /\ run[q].gen \in Nat /\ run'[q].gen \in Nat
                      /\ run[q].gen <= run'[q].gen
  BY GenerationsGrow
<1>6. ASSUME NEW q \in Runs, NEW p \in Owners, slot'[p][q].phase # "idle"
      PROVE  /\ slot'[p][q].gen <= run'[q].gen
             /\ \A t \in Owners : t # p /\ slot'[t][q].phase # "idle" =>
                    slot'[t][q].gen # slot'[p][q].gen
  <2>1. CASE q # r
    BY <1>3, <1>4, <1>5, <1>6, <2>1 DEF SlotClaims, Phase
  <2>2. CASE q = r /\ s.phase = "idle"
    BY <1>3, <1>4, <1>5, <1>6, <2>2 DEF SlotClaims, Phase
  <2>3. CASE q = r /\ Phase(o, r) # "idle" /\ s.gen = slot[o][r].gen
    BY <1>3, <1>4, <1>5, <1>6, <2>3 DEF SlotClaims, Phase
  <2>4. CASE /\ q = r
             /\ s.gen = run[r].gen + 1 /\ run'[r].gen = run[r].gen + 1
    BY <1>3, <1>4, <1>5, <1>6, <2>4 DEF SlotClaims, Phase
  <2> QED
    BY <1>1, <2>1, <2>2, <2>3, <2>4
<1> QED
  BY <1>2, <1>6 DEF SlotClaims, Phase

\* The inductive invariant of the servers and the rows they drive.
ServerInv ==
    /\ GoodRows
    /\ CurrentOK
    /\ SlotsOK
    /\ SlotClaims
    /\ server \in [Owners -> {"new", "up", "stopping", "down"}]
    /\ blocked \in [Owners -> SUBSET Runs]

(* The first server starts with nothing remembered.                        *)
LEMMA ServerInvInit == ServerInit => ServerInv
<1> SUFFICES ASSUME ServerInit PROVE ServerInv
  OBVIOUS
<1>1. GoodRows
  <2>1. Absent \in Row
    BY AbsentGood DEF Good
  <2> QED
    BY <2>1, AbsentGood DEF ServerInit, Init, GoodRows, TypeOK
<1>2. Idle \in Slot /\ Idle.phase = "idle"
  BY RunStoreAssumption DEF Idle, Slot
<1>3. SlotsOK /\ SlotClaims
  BY <1>2 DEF ServerInit, SlotsOK, SlotClaims, Phase
<1> QED
  BY <1>1, <1>3 DEF ServerInit, ServerInv, CurrentOK

(* Every step of the servers keeps their invariant.                        *)
LEMMA ServerInvStep ==
    ASSUME ServerInv, [ServerNext]_vars
    PROVE  ServerInv'
<1> USE DEF ServerInv
<1>1. [Next]_run
  BY ServerNextIsNext DEF GoodRows
<1>2. GoodRows' /\ CurrentOK'
  BY <1>1, GoodRowsStep, CurrentStep
<1>3. UNCHANGED slot => SlotsOK' /\ SlotClaims'
  <2> SUFFICES ASSUME UNCHANGED slot PROVE SlotsOK' /\ SlotClaims'
    OBVIOUS
  <2>1. \A p \in Owners, q \in Runs : slot[p][q].gen \in Nat
    BY RunStoreAssumption DEF SlotsOK, Slot
  <2>2. \A q \in Runs : /\ run[q].gen \in Nat /\ run'[q].gen \in Nat
                        /\ run[q].gen <= run'[q].gen
    BY <1>1, GenerationsGrow
  <2> QED
    BY <2>1, <2>2 DEF SlotsOK, SlotClaims, Phase
<1>4. CASE UNCHANGED vars
  BY <1>2, <1>3, <1>4 DEF vars
<1>5. ASSUME NEW o \in Owners, NEW r \in Runs, Drive(o, r) PROVE ServerInv'
  <2>1. SlotsOK' /\ SlotClaims'
    BY <1>1, <1>3, <1>5, DriveSlot, SlotClaimsStep DEF GoodRows
  <2>2. UNCHANGED server
    BY <1>5 DEF Drive, ClaimReady, ClaimScheduled, ClaimExpired,
       ClaimDecision, ExpireTurn, ExpireDecision, Activate, RecoverEffects,
       ActivateAmbiguous, SpawnRunner, RunnerReady, RunnerStep, RunnerExit,
       RecoverRunnerExit, LoseClaim, StopRun, Process
  <2>3. UNCHANGED blocked \/ Block(o, r)
    BY <1>5 DEF Drive, ClaimReady, ClaimScheduled, ClaimExpired,
       ClaimDecision, ExpireTurn, ExpireDecision, Activate, RecoverEffects,
       ActivateAmbiguous, SpawnRunner, RunnerReady, RunnerStep, RunnerExit,
       RecoverRunnerExit, RecoverHeld, LoseClaim, StopRun, Process
  <2> QED
    BY <1>2, <2>1, <2>2, <2>3 DEF Block
<1>6. ASSUME NEW o \in Owners, NEW r \in Runs, Operate(o, r) PROVE ServerInv'
  <2>1. SlotsOK' /\ SlotClaims'
    BY <1>1, <1>3, <1>6, OperateSlot, SlotClaimsStep
  <2>2. UNCHANGED server
    BY <1>6 DEF Operate, PauseRun, AbortTurn, ResumeRun, CancelRun, StartRun,
       RestartRun, Answer, MissingSubmission, Process
  <2>3. UNCHANGED blocked \/ blocked' = [blocked EXCEPT ![o] = @ \ {r}]
    BY <1>6 DEF Operate, PauseRun, AbortTurn, ResumeRun, CancelRun, StartRun,
       RestartRun, Answer, MissingSubmission, Process
  <2> QED
    BY <1>2, <2>1, <2>2, <2>3
<1>7. ASSUME NEW o \in Owners, StartServer(o) \/ StopServer(o) \/ EndServer(o)
      PROVE  ServerInv'
  BY <1>2, <1>3, <1>7 DEF StartServer, StopServer, EndServer
<1>8. ASSUME NEW o \in Owners, CrashServer(o) PROVE ServerInv'
  <2>1. Idle \in Slot /\ Idle.phase = "idle"
    BY RunStoreAssumption DEF Idle, Slot
  <2>2. SlotsOK'
    BY <1>8, <2>1 DEF CrashServer, SlotsOK
  <2>3. \A p \in Owners, q \in Runs :
            slot'[p][q].phase # "idle" => slot'[p][q] = slot[p][q]
    BY <1>8, <2>1 DEF CrashServer, SlotsOK
  <2>4. UNCHANGED run
    BY <1>8 DEF CrashServer
  <2>5. SlotClaims'
    BY <2>3, <2>4 DEF SlotClaims, Phase
  <2> QED
    BY <1>2, <1>8, <2>2, <2>5 DEF CrashServer
<1>9. ASSUME NEW r \in Runs, LeaseExpires(r) PROVE ServerInv'
  BY <1>2, <1>3, <1>9 DEF LeaseExpires, Process
<1> QED
  BY <1>4, <1>5, <1>6, <1>7, <1>8, <1>9 DEF ServerNext

(* The invariant holds throughout.                                         *)
LEMMA AlwaysServerInv == ServerSpec => []ServerInv
BY ServerInvInit, ServerInvStep, PTL DEF ServerSpec

(* Type correctness of the servers' memory, next to that of the rows.      *)
THEOREM ServerTypeCorrectness == ServerSpec => []ServerTypeOK
<1>1. ServerInv => ServerTypeOK
  BY DEF ServerInv, GoodRows, CurrentOK, SlotsOK, ServerTypeOK
<1> QED
  BY <1>1, AlwaysServerInv, PTL

(* However servers overlap, at most one of the claims they remember for a  *)
(* run verifies, because every claim has a generation of its own: two      *)
(* runners never both commit to one run.                                   *)
THEOREM AtMostOneExecutor == ServerSpec => []OneExecutor
<1>1. ServerInv => OneExecutor
  BY DEF ServerInv, SlotClaims, OneExecutor, SlotHolds, Holds
<1> QED
  BY <1>1, AlwaysServerInv, PTL

-----------------------------------------------------------------------------
(* The servers implement the store: whatever they crash, retry or overlap, *)
(* the rows change only by the transactions of RunStore, whose guards hold *)
(* whichever claim a server believes it has.                               *)
THEOREM ServersImplementStore == ServerSpec => Spec
<1>1. ServerInit => Init
  BY DEF ServerInit
<1>2. ServerInv /\ [ServerNext]_vars => [Next]_run
  BY ServerNextIsNext DEF ServerInv, GoodRows
<1> QED
  BY <1>1, <1>2, AlwaysServerInv, PTL DEF ServerSpec, Spec

(* What holds of the rows holds while servers drive them: outcomes agree   *)
(* and stay, claims are fenced, answers are kept, sessions are exclusive.  *)
THEOREM ServersKeepRuns ==
    ServerSpec =>
        /\ [](TerminalAgreement /\ AcceptedAnswer /\ CheckpointBlocks)
        /\ [](OneActivePerSession /\ RestartLineage)
        /\ ClaimLossIsFinal /\ TerminalIsFinal /\ AnswerIsFinal
BY ServersImplementStore, TerminalRowsAgree, AcceptedAnswerHasAttempt,
   PendingCheckpointBlocks, OneActiveRunPerSession, RestartsAreLinear,
   ClaimsAreFenced, TerminalRunsStay, AnswersAreKept, PTL

(* At most one interactive run of a Pi session is driven by a claim that   *)
(* verifies: such a run is owned, an owned run is active, and the session  *)
(* has one active interactive run.                                         *)
THEOREM OneExecutorInSession == ServerSpec => []OneExecutorPerSession
<1>1. ServerInv /\ OneActivePerSession => OneExecutorPerSession
  <2>1. ASSUME GoodRows, NEW r \in Runs, NEW o \in Owners, SlotHolds(o, r)
        PROVE  run[r].queue \in QueueActive
    BY <2>1 DEF GoodRows, Good, OwnedRow, SlotHolds, Holds
  <2> QED
    BY <2>1 DEF ServerInv, OneActivePerSession, OneExecutorPerSession
<1> QED
  BY <1>1, AlwaysServerInv, ServersImplementStore, OneActiveRunPerSession, PTL
-----------------------------------------------------------------------------
(***************************************************************************)
(* What a server may rely on while it executes a run: the rows under a     *)
(* claim that verifies match how far the runner of that claim is.  A step  *)
(* of anybody else leaves such a claim behind or changes next to nothing   *)
(* (QuietStep), so what is left is what the claim's own server does.       *)
(***************************************************************************)
\* What the phase of a claim that verifies says of the rows of its run.
PhaseRow(p, x) ==
    /\ x.paused => p = "decision"
    /\ p \in {"pending", "active", "spawned", "start", "resume"} /\ Pending(x) =>
           x.open /\ x.submission = "validating"
    /\ p = "start" => x.status \in {"queued", "running"} /\ x.request = "none"
    /\ p \in {"spawned", "start", "resume", "candidate"} => x.effect = "none"
    /\ p \in {"candidate", "graph", "ambiguous"} =>
           /\ x.status = "running"
           /\ Pending(x) => x.submission = "validating"
    /\ p = "candidate" => x.open
    /\ p = "ambiguous" => x.effect = "ambiguous"

\* What holds of the rows of a run whoever has it.
WaitingRow(x) ==
    /\ x.paused => x.queue = "parked"
    /\ x.status = "queued" => x.request = "none"
    /\ x.status = "waiting" /\ x.effect # "ambiguous" =>
           Pending(x) \/ (x.request = "settled" /\ x.open)

\* A claim of generation g, in phase p, finds the rows x as it left them.
Claimant(p, g, x) == p # "idle" /\ Holds(x, g) => PhaseRow(p, x)

ExecutionInv ==
    /\ \A r \in Runs : WaitingRow(run[r])
    /\ \A o \in Owners, r \in Runs :
           Claimant(Phase(o, r), slot[o][r].gen, run[r])
-----------------------------------------------------------------------------
(* What the transactions of a claim leave.                                 *)

(* The row that a transaction writes is the row that is read next.         *)
LEMMA Updated ==
    ASSUME TypeOK, NEW r \in Runs, NEW y, Update(r, y)
    PROVE  run'[r] = y
BY DEF TypeOK, Update

(* A transaction that gives up the claim (a park, a pause, an end of the   *)
(* run, a new request) leaves a run that has what it waits for, provided   *)
(* that it ends no paused run and parks for an ambiguous effect only then. *)
LEMMA ReleasedRow ==
    ASSUME TypeOK, NEW r \in Runs, Good(run[r]), WaitingRow(run[r]), NEW g,
           \/ Park(r, g) \/ ParkNoProgress(r, g)
           \/ ParkAmbiguous(r, g) /\ run[r].effect = "ambiguous"
           \/ PauseActive(r, g) \/ Fail(r, g) \/ CancelHeld(r, g)
           \/ RejectSubmission(r, g)
           \/ RequestInteraction(r, g) \/ WaitForInput(r, g)
           \/ \E s \in RunTerminal : FinishRun(r, g, s) /\ ~run[r].paused
           \/ DecisionTimeout(r, g)
    PROVE  WaitingRow(run'[r]) /\ ~run'[r].live
<1> DEFINE x == run[r]
<1>1. x \in Row /\ WaitingRow(x)
  BY DEF TypeOK
<1> HIDE DEF x
<1>2. CASE Park(r, g)
  <2> DEFINE y == Parked(x)
  <2>1. Update(r, y)
    BY <1>2 DEF Park, x
  <2>2. WaitingRow(y) /\ ~y.live
    BY <1>1, <2>1 DEF Parked, Released, WaitingRow, Row, Pending
  <2> QED
    BY <2>1, <2>2, Updated
<1>3. CASE ParkNoProgress(r, g)
  <2> DEFINE y == [Parked(x) EXCEPT !.error = "runnerNoProgress"]
  <2>1. Update(r, y)
    BY <1>3 DEF ParkNoProgress, x
  <2>2. WaitingRow(y) /\ ~y.live
    BY <1>1, <2>1 DEF Parked, Released, WaitingRow, Row, Pending
  <2> QED
    BY <2>1, <2>2, Updated
<1>4. CASE ParkAmbiguous(r, g) /\ x.effect = "ambiguous"
  <2> DEFINE y == [Parked(x) EXCEPT !.status = "waiting",
                                    !.error = "effectAmbiguous"]
  <2>1. Update(r, y)
    BY <1>4 DEF ParkAmbiguous, x
  <2>2. WaitingRow(y) /\ ~y.live
    BY <1>1, <1>4, <2>1 DEF Parked, Released, WaitingRow, Row, Pending
  <2> QED
    BY <2>1, <2>2, Updated
<1>5. CASE PauseActive(r, g)
  <2> DEFINE y == Parked([x EXCEPT !.paused = TRUE])
  <2>1. Update(r, y)
    BY <1>5 DEF PauseActive, x
  <2>2. WaitingRow(y) /\ ~y.live
    BY <1>1, <2>1 DEF Parked, Released, WaitingRow, Row, Pending
  <2> QED
    BY <2>1, <2>2, Updated
<1>6. CASE Fail(r, g)
  <2> DEFINE y == Failed(x)
  <2>1. Update(r, y)
    BY <1>6 DEF Fail, x
  <2>2. WaitingRow(y) /\ ~y.live
    BY <1>1, <2>1 DEF Failed, CancelRequest, Released, WaitingRow, Row, Pending
  <2> QED
    BY <2>1, <2>2, Updated
<1>7. CASE CancelHeld(r, g)
  <2> DEFINE y == Cancelled(x)
  <2>1. Update(r, y)
    BY <1>7 DEF CancelHeld, x
  <2>2. WaitingRow(y) /\ ~y.live
    BY <1>1, <2>1 DEF Cancelled, CancelRequest, RejectValidating,
       Released, WaitingRow, Row, Pending
  <2> QED
    BY <2>1, <2>2, Updated
<1>8. CASE RejectSubmission(r, g)
  <2> DEFINE y == Parked([x EXCEPT !.submission = "rejected",
                    !.status = IF @ = "running" THEN "waiting" ELSE @])
  <2>1. Update(r, y) /\ Pending(x)
    BY <1>8 DEF RejectSubmission, x
  <2>2. WaitingRow(y) /\ ~y.live
    BY <1>1, <2>1 DEF Parked, Released, WaitingRow, Row, Pending
  <2> QED
    BY <2>1, <2>2, Updated
<1>9. CASE RequestInteraction(r, g)
  <2> DEFINE y == NewRequest(x, "agent")
  <2>1. Update(r, y)
    BY <1>9 DEF RequestInteraction, x
  <2>2. WaitingRow(y) /\ ~y.live
    BY <1>1, <2>1 DEF NewRequest, Parked, Released, WaitingRow, Row, Pending
  <2> QED
    BY <2>1, <2>2, Updated
<1>10. CASE WaitForInput(r, g)
  <2> DEFINE y == [NewRequest(x, "checkpoint") EXCEPT !.error = "none"]
  <2>1. Update(r, y)
    BY <1>10 DEF WaitForInput, x
  <2>2. WaitingRow(y) /\ ~y.live
    BY <1>1, <2>1 DEF NewRequest, Parked, Released, WaitingRow, Row, Pending
  <2> QED
    BY <2>1, <2>2, Updated
<1>11. ASSUME NEW s \in RunTerminal, FinishRun(r, g, s), ~x.paused
      PROVE  WaitingRow(run'[r]) /\ ~run'[r].live
  <2> DEFINE y == Released([x EXCEPT !.status = s, !.queue = QueueOf(s),
                    !.error = IF s = "completed" THEN "none" ELSE "other",
                    !.open = FALSE])
  <2>1. Update(r, y)
    BY <1>11 DEF FinishRun, x
  <2>2. WaitingRow(y) /\ ~y.live
    BY <1>1, <1>11 DEF Released, WaitingRow, Row, Pending, RunTerminal
  <2> QED
    BY <2>1, <2>2, Updated
<1>12. CASE DecisionTimeout(r, g)
  <2> DEFINE y == Parked(Settled(x))
  <2>1. Update(r, y) /\ Pending(x) /\ x.kind = "checkpoint"
    BY <1>12 DEF DecisionTimeout, x
  <2>2. x.open /\ x.status = "waiting"
    BY <2>1 DEF Good, CheckpointRow, x
  <2>3. WaitingRow(y) /\ ~y.live
    BY <1>1, <2>2 DEF Settled, Parked, Released, WaitingRow, Row, Pending
  <2> QED
    BY <2>1, <2>3, Updated
<1> QED
  BY <1>2, <1>3, <1>4, <1>5, <1>6, <1>7, <1>8, <1>9, <1>10, <1>11, <1>12 DEF x
(* A transaction of a claim holder is a good step of its run.              *)
LEMMA HeldWithStep ==
    ASSUME GoodRows, NEW r \in Runs, NEW g, HeldWith(r, g)
    PROVE  Holds(run[r], g) /\ Step(r)
<1>1. Holds(run[r], g)
  BY DEF HeldWith, MarkRunning, Park, ParkNoProgress, ParkAmbiguous,
     InteractionTimeout, PauseActive, Fail, CancelHeld, Initialize, RunStarted,
     RunResumed, AnswerResume, AcceptSubmission, RejectSubmission,
     ConsumeAnswer, EndAttempt, RequestInteraction, WaitForInput, CanRequest,
     ReserveEffect, SettleEffect, FinishRun, DecisionTimeout
<1>2. g \in 0 .. run[r].gen
  BY <1>1, GivenClaim DEF GoodRows
<1>3. Held(r)
  BY <1>2 DEF HeldWith, Held
<1> QED
  BY <1>1, <1>3, HeldStep DEF GoodRows

(* A transaction that keeps its claim leaves the rows as the next phase of *)
(* its runner has to find them.                                            *)
LEMMA KeptRow ==
    ASSUME TypeOK, NEW r \in Runs, Good(run[r]), WaitingRow(run[r]), NEW g
    PROVE  /\ InteractionTimeout(r, g) =>
                  WaitingRow(run'[r]) /\ PhaseRow("pending", run'[r])
           /\ MarkRunning(r, g) /\ PhaseRow("spawned", run[r]) =>
                  /\ WaitingRow(run'[r])
                  /\ run[r].status = "queued" => PhaseRow("start", run'[r])
                  /\ PhaseRow("resume", run'[r])
           /\ Initialize(r, g) /\ PhaseRow("start", run[r]) =>
                  WaitingRow(run'[r]) /\ PhaseRow("start", run'[r])
           /\ RunStarted(r, g) /\ PhaseRow("start", run[r]) =>
                  WaitingRow(run'[r]) /\ PhaseRow("graph", run'[r])
           /\ AnswerResume(r, g) /\ PhaseRow("resume", run[r]) =>
                  WaitingRow(run'[r]) /\ PhaseRow("resume", run'[r])
           /\ RunResumed(r, g) /\ PhaseRow("resume", run[r]) =>
                  /\ WaitingRow(run'[r])
                  /\ PhaseRow("graph", run'[r])
                  /\ run[r].open => PhaseRow("candidate", run'[r])
<1> DEFINE x == run[r]
<1>1. x \in Row /\ WaitingRow(x)
  BY DEF TypeOK
<1> HIDE DEF x
<1>2. ASSUME InteractionTimeout(r, g)
      PROVE  WaitingRow(run'[r]) /\ PhaseRow("pending", run'[r])
  <2> DEFINE y == RejectValidating([x EXCEPT !.request = "cancelled",
            !.status = "running", !.queue = "starting", !.error = "none"])
  <2>1. Update(r, y) /\ ~x.paused
    BY <1>2 DEF InteractionTimeout, x
  <2>2. /\ y.status = "running" /\ y.request = "cancelled"
        /\ y.paused = x.paused
    BY <1>1 DEF RejectValidating, Row
  <2> HIDE DEF y
  <2>3. WaitingRow(y) /\ PhaseRow("pending", y)
    BY <2>1, <2>2 DEF WaitingRow, PhaseRow, Pending
  <2> QED
    BY <2>1, <2>3, Updated
<1>3. ASSUME MarkRunning(r, g), PhaseRow("spawned", x)
      PROVE  /\ WaitingRow(run'[r])
             /\ x.status = "queued" => PhaseRow("start", run'[r])
             /\ PhaseRow("resume", run'[r])
  <2> DEFINE y == [x EXCEPT !.queue = "running"]
  <2>1. Update(r, y)
    BY <1>3 DEF MarkRunning, x
  <2>2. /\ y.status = x.status /\ y.request = x.request /\ y.open = x.open
        /\ y.submission = x.submission /\ y.effect = x.effect
        /\ y.paused = x.paused
    BY <1>1 DEF Row
  <2> HIDE DEF y
  <2>3. /\ WaitingRow(y)
        /\ x.status = "queued" => PhaseRow("start", y)
        /\ PhaseRow("resume", y)
    BY <1>1, <1>3, <2>2 DEF WaitingRow, PhaseRow, Pending
  <2> QED
    BY <2>1, <2>3, Updated
<1>4. ASSUME Initialize(r, g), PhaseRow("start", x)
      PROVE  WaitingRow(run'[r]) /\ PhaseRow("start", run'[r])
  <2> DEFINE y == [x EXCEPT !.status = "running"]
  <2>1. Update(r, y)
    BY <1>4 DEF Initialize, x
  <2>2. /\ y.status = "running" /\ y.request = x.request /\ y.open = x.open
        /\ y.submission = x.submission /\ y.effect = x.effect
        /\ y.paused = x.paused
    BY <1>1 DEF Row
  <2> HIDE DEF y
  <2>3. WaitingRow(y) /\ PhaseRow("start", y)
    BY <1>1, <1>4, <2>2 DEF WaitingRow, PhaseRow, Pending
  <2> QED
    BY <2>1, <2>3, Updated
<1>5. ASSUME RunStarted(r, g), PhaseRow("start", x)
      PROVE  WaitingRow(run'[r]) /\ PhaseRow("graph", run'[r])
  <2> DEFINE y == StartQueue(x)
  <2>1. Update(r, y) /\ x.status = "running"
    BY <1>5 DEF RunStarted, x
  <2>2. /\ y.status = x.status /\ y.request = x.request /\ y.paused = x.paused
    BY <1>1 DEF StartQueue, Row
  <2> HIDE DEF y
  <2>3. WaitingRow(y) /\ PhaseRow("graph", y)
    BY <1>1, <1>5, <2>1, <2>2 DEF WaitingRow, PhaseRow, Pending
  <2> QED
    BY <2>1, <2>3, Updated
<1>6. ASSUME AnswerResume(r, g), PhaseRow("resume", x)
      PROVE  WaitingRow(run'[r]) /\ PhaseRow("resume", run'[r])
  <2> DEFINE y == [x EXCEPT !.status = "running"]
  <2>1. Update(r, y)
    BY <1>6 DEF AnswerResume, x
  <2>2. /\ y.status = "running" /\ y.request = x.request /\ y.open = x.open
        /\ y.submission = x.submission /\ y.effect = x.effect
        /\ y.paused = x.paused
    BY <1>1 DEF Row
  <2> HIDE DEF y
  <2>3. WaitingRow(y) /\ PhaseRow("resume", y)
    BY <1>1, <1>6, <2>2 DEF WaitingRow, PhaseRow, Pending
  <2> QED
    BY <2>1, <2>3, Updated
<1>7. ASSUME RunResumed(r, g), PhaseRow("resume", x)
      PROVE  /\ WaitingRow(run'[r])
             /\ PhaseRow("graph", run'[r])
             /\ x.open => PhaseRow("candidate", run'[r])
  <2> DEFINE y == StartQueue([x EXCEPT !.paused = FALSE])
  <2>1. Update(r, y) /\ x.status = "running"
    BY <1>7 DEF RunResumed, x
  <2>2. /\ y.status = x.status /\ y.request = x.request /\ y.open = x.open
        /\ y.submission = x.submission /\ y.effect = x.effect
        /\ ~y.paused
    BY <1>1 DEF StartQueue, Row
  <2> HIDE DEF y
  <2>3. /\ WaitingRow(y) /\ PhaseRow("graph", y)
        /\ x.open => PhaseRow("candidate", y)
    BY <1>1, <1>7, <2>1, <2>2 DEF WaitingRow, PhaseRow, Pending
  <2> QED
    BY <2>1, <2>3, Updated
<1> QED
  BY <1>2, <1>3, <1>4, <1>5, <1>6, <1>7 DEF x

(* The same while the runner is in an attempt with an answer, or in the    *)
(* graph of the workflow.                                                  *)
LEMMA ExecutingRow ==
    ASSUME TypeOK, NEW r \in Runs, Good(run[r]), WaitingRow(run[r]), NEW g
    PROVE  /\ AcceptSubmission(r, g) /\ PhaseRow("candidate", run[r]) =>
                  WaitingRow(run'[r]) /\ PhaseRow("candidate", run'[r])
           /\ ConsumeAnswer(r, g) /\ PhaseRow("candidate", run[r]) =>
                  WaitingRow(run'[r]) /\ PhaseRow("graph", run'[r])
           /\ EndAttempt(r, g) /\ PhaseRow("candidate", run[r]) =>
                  WaitingRow(run'[r]) /\ PhaseRow("graph", run'[r])
           /\ ReserveEffect(r, g) /\ PhaseRow("graph", run[r]) =>
                  WaitingRow(run'[r]) /\ PhaseRow("graph", run'[r])
           /\ \A outcome \in {"none", "ambiguous"} :
                  SettleEffect(r, g, outcome) =>
                      /\ WaitingRow(run'[r])
                      /\ \A p \in {"active", "graph"} \cup ExitPhases :
                             PhaseRow(p, run[r]) => PhaseRow(p, run'[r])
                      /\ outcome = "ambiguous" /\ PhaseRow("graph", run[r]) =>
                             PhaseRow("ambiguous", run'[r])
<1> DEFINE x == run[r]
<1>1. x \in Row /\ WaitingRow(x)
  BY DEF TypeOK
<1> HIDE DEF x
<1>2. ASSUME AcceptSubmission(r, g), PhaseRow("candidate", x)
      PROVE  WaitingRow(run'[r]) /\ PhaseRow("candidate", run'[r])
  <2> DEFINE y == Settled(x)
  <2>1. Update(r, y)
    BY <1>2 DEF AcceptSubmission, x
  <2>2. /\ y.status = x.status /\ y.request = "settled" /\ y.open = x.open
        /\ y.effect = x.effect /\ y.paused = x.paused
    BY <1>1 DEF Settled, Row
  <2> HIDE DEF y
  <2>3. WaitingRow(y) /\ PhaseRow("candidate", y)
    BY <1>1, <1>2, <2>2 DEF WaitingRow, PhaseRow, Pending
  <2> QED
    BY <2>1, <2>3, Updated
<1>3. ASSUME ConsumeAnswer(r, g), PhaseRow("candidate", x)
      PROVE  WaitingRow(run'[r]) /\ PhaseRow("graph", run'[r])
  <2> DEFINE y == [x EXCEPT !.request = "consumed", !.open = FALSE]
  <2>1. Update(r, y)
    BY <1>3 DEF ConsumeAnswer, x
  <2>2. /\ y.status = x.status /\ y.request = "consumed"
        /\ y.paused = x.paused
    BY <1>1 DEF Row
  <2> HIDE DEF y
  <2>3. WaitingRow(y) /\ PhaseRow("graph", y)
    BY <1>1, <1>3, <2>2 DEF WaitingRow, PhaseRow, Pending
  <2> QED
    BY <2>1, <2>3, Updated
<1>4. ASSUME EndAttempt(r, g), PhaseRow("candidate", x)
      PROVE  WaitingRow(run'[r]) /\ PhaseRow("graph", run'[r])
  <2> DEFINE y == [x EXCEPT !.open = FALSE]
  <2>1. Update(r, y)
    BY <1>4 DEF EndAttempt, x
  <2>2. /\ y.status = x.status /\ y.request = x.request
        /\ y.submission = x.submission /\ y.paused = x.paused
    BY <1>1 DEF Row
  <2> HIDE DEF y
  <2>3. WaitingRow(y) /\ PhaseRow("graph", y)
    BY <1>1, <1>4, <2>2 DEF WaitingRow, PhaseRow, Pending
  <2> QED
    BY <2>1, <2>3, Updated
<1>5. ASSUME ReserveEffect(r, g), PhaseRow("graph", x)
      PROVE  WaitingRow(run'[r]) /\ PhaseRow("graph", run'[r])
  <2> DEFINE y == [x EXCEPT !.effect = "applying"]
  <2>1. Update(r, y)
    BY <1>5 DEF ReserveEffect, x
  <2>2. /\ y.status = x.status /\ y.request = x.request
        /\ y.submission = x.submission /\ y.paused = x.paused
    BY <1>1 DEF Row
  <2> HIDE DEF y
  <2>3. WaitingRow(y) /\ PhaseRow("graph", y)
    BY <1>1, <1>5, <2>2 DEF WaitingRow, PhaseRow, Pending
  <2> QED
    BY <2>1, <2>3, Updated
<1>6. ASSUME NEW outcome \in {"none", "ambiguous"}, SettleEffect(r, g, outcome)
      PROVE  /\ WaitingRow(run'[r])
             /\ \A p \in {"active", "graph"} \cup ExitPhases :
                    PhaseRow(p, x) => PhaseRow(p, run'[r])
             /\ outcome = "ambiguous" /\ PhaseRow("graph", x) =>
                    PhaseRow("ambiguous", run'[r])
  <2> DEFINE y == [x EXCEPT !.effect = outcome]
  <2>1. Update(r, y) /\ x.effect = "applying"
    BY <1>6 DEF SettleEffect, x
  <2>2. /\ y.status = x.status /\ y.request = x.request /\ y.open = x.open
        /\ y.submission = x.submission /\ y.paused = x.paused
        /\ y.queue = x.queue /\ y.effect = outcome
    BY <1>1 DEF Row
  <2> HIDE DEF y
  <2>3. WaitingRow(y)
    BY <1>1, <2>1, <2>2 DEF WaitingRow, Pending
  <2>4. \A p \in {"active", "graph"} \cup ExitPhases :
            PhaseRow(p, x) => PhaseRow(p, y)
    BY <2>2 DEF PhaseRow, Pending, ExitPhases
  <2>5. outcome = "ambiguous" /\ PhaseRow("graph", x) =>
            PhaseRow("ambiguous", y)
    BY <2>2 DEF PhaseRow, Pending
  <2> QED
    BY <2>1, <2>3, <2>4, <2>5, Updated
<1> QED
  BY <1>2, <1>3, <1>4, <1>5, <1>6 DEF x

(* A claim finds, and leaves, what the phase it starts in relies on.       *)
LEMMA ClaimedRow ==
    ASSUME TypeOK, NEW r \in Runs, Good(run[r]), WaitingRow(run[r]),
           NEW o \in Owners, NEW p,
           \/ ClaimNext(r, o) /\ p = "pending"
           \/ /\ ClaimForInteractionValidation(r, o)
              /\ HasReadyAnswer(run[r]) /\ ~run[r].paused /\ p = "pending"
           \/ ClaimForControl(r, o) /\ ~run[r].paused /\ p = "timeout"
           \/ ClaimForControl(r, o) /\ p = "decision"
    PROVE  /\ WaitingRow(run'[r]) /\ PhaseRow(p, run'[r])
           /\ run'[r].gen = run[r].gen + 1
<1> DEFINE x == run[r]
<1>1. x \in Row /\ WaitingRow(x)
  BY DEF TypeOK
<1> HIDE DEF x
<1>2. CASE p # "pending"
  <2> DEFINE y == ControlClaimed(x, o)
  <2>1. Update(r, y) /\ (x.paused => p = "decision")
        /\ p \in {"timeout", "decision"}
    BY <1>2 DEF ClaimForControl, x
  <2>2. /\ y.status = x.status /\ y.request = x.request /\ y.open = x.open
        /\ y.submission = x.submission /\ y.paused = x.paused
        /\ y.queue = x.queue /\ y.effect = x.effect /\ y.gen = x.gen + 1
    BY <1>1 DEF ControlClaimed, Row
  <2> HIDE DEF y
  <2>3. WaitingRow(y) /\ PhaseRow(p, y)
    BY <1>1, <2>1, <2>2 DEF WaitingRow, PhaseRow, Pending
  <2> QED
    BY <2>1, <2>2, <2>3, Updated DEF x
<1>3. CASE p = "pending"
  <2> DEFINE y == Claimed(x, o)
  <2>1. Update(r, y) /\ ~x.paused /\ p = "pending"
        /\ (Pending(x) => x.open /\ x.submission = "validating")
    BY <1>3, <1>1 DEF ClaimNext, Schedulable, ClaimForInteractionValidation,
       WaitingRow, HasReadyAnswer, Pending, x
  <2>2. /\ y.status = x.status /\ y.request = x.request /\ y.open = x.open
        /\ y.submission = x.submission /\ y.paused = x.paused
        /\ y.effect = x.effect /\ y.gen = x.gen + 1
    BY <1>1 DEF Claimed, ControlClaimed, Row
  <2> HIDE DEF y
  <2>3. WaitingRow(y) /\ PhaseRow(p, y)
    BY <1>1, <2>1, <2>2 DEF WaitingRow, PhaseRow, Pending
  <2> QED
    BY <2>1, <2>2, <2>3, Updated DEF x
<1> QED
  BY <1>2, <1>3
-----------------------------------------------------------------------------
(* What anybody else does to a run.                                        *)

\* Every claim on the rows x finds the rows y as it needs them.
Undisturbed(x, y) ==
    \A p, g : g <= x.gen /\ Claimant(p, g, x) => Claimant(p, g, y)

(* A transaction of nobody's claim ends the lease of its run, finds it     *)
(* ended, or lets a pending request be answered: the claim that executes   *)
(* relies on none of it.                                                   *)
LEMMA QuietRow ==
    ASSUME GoodRows, NEW r \in Runs, WaitingRow(run[r]),
           \/ Unheld(r)
           \/ \E o \in Owners : PublishUpdate(r, o) \/ FailMissingSubmission(r, o)
    PROVE  WaitingRow(run'[r]) /\ Undisturbed(run[r], run'[r])
<1> DEFINE x == run[r]
<1>1. /\ x \in Row /\ WaitingRow(x) /\ CheckpointRow(x) /\ TypeOK
      /\ x.gen \in Nat
  BY RunStoreAssumption DEF GoodRows, TypeOK, Good, Row
<1> HIDE DEF x
<1>2. ASSUME NEW y, Update(r, y), WaitingRow(y), y.owner = None \/ ~y.live
      PROVE  WaitingRow(run'[r]) /\ Undisturbed(x, run'[r])
  BY <1>1, <1>2, Updated DEF Undisturbed, Claimant, Holds
<1>3. ASSUME NEW s \in Sessions \cup {None}, NEW m \in Mode,
             NEW q \in Runs \cup {None}, Update(r, QueuedRow(s, m, q))
      PROVE  WaitingRow(run'[r]) /\ Undisturbed(x, run'[r])
  <2> DEFINE y == QueuedRow(s, m, q)
  <2>1. y.status = "queued" /\ ~y.paused /\ y.request = "none" /\ ~y.live
    BY DEF QueuedRow, Absent
  <2> HIDE DEF y
  <2>2. WaitingRow(y)
    BY <2>1 DEF WaitingRow
  <2> QED
    BY <1>2, <1>3, <2>1, <2>2 DEF y
<1>4. CASE \E s \in Sessions, m \in Mode : Reserve(r, s, m)
  BY <1>3, <1>4 DEF Reserve, x
<1>5. CASE \E p \in Runs : Restart(r, p)
  <2>1. PICK p \in Runs : Restart(r, p)
    BY <1>5
  <2>2. run[p].session \in Sessions \cup {None} /\ "interactive" \in Mode
    BY <1>1 DEF TypeOK, Row, Mode
  <2> QED
    BY <1>3, <2>1, <2>2 DEF Restart, x
<1>6. CASE Expire(r)
  <2> DEFINE y == [x EXCEPT !.live = FALSE]
  <2>1. Update(r, y)
    BY <1>6 DEF Expire, x
  <2>2. WaitingRow(y) /\ ~y.live
    BY <1>1 DEF WaitingRow, Row, Pending
  <2> QED
    BY <1>2, <2>1, <2>2 DEF x
<1>7. CASE PauseParked(r)
  <2> DEFINE y == [x EXCEPT !.paused = TRUE]
  <2>1. Update(r, y) /\ Free(x) /\ x.queue = "parked"
    BY <1>7 DEF PauseParked, x
  <2>2. WaitingRow(y) /\ (y.owner = None \/ ~y.live)
    BY <1>1, <2>1 DEF WaitingRow, Row, Pending, Free
  <2> QED
    BY <1>2, <2>1, <2>2 DEF x
<1>8. CASE ResumePausedInteraction(r)
  <2> DEFINE y == [x EXCEPT !.paused = FALSE]
  <2>1. Update(r, y) /\ Free(x)
    BY <1>8 DEF ResumePausedInteraction, x
  <2>2. WaitingRow(y) /\ (y.owner = None \/ ~y.live)
    BY <1>1, <2>1 DEF WaitingRow, Row, Pending, Free
  <2> QED
    BY <1>2, <2>1, <2>2 DEF x
<1>9. CASE RequestResume(r)
  <2> DEFINE y == [x EXCEPT !.paused = FALSE, !.queue = "queued",
                            !.error = "none"]
  <2>1. Update(r, y) /\ Free(x)
    BY <1>9 DEF RequestResume, x
  <2>2. WaitingRow(y) /\ (y.owner = None \/ ~y.live)
    BY <1>1, <2>1 DEF WaitingRow, Row, Pending, Free
  <2> QED
    BY <1>2, <2>1, <2>2 DEF x
<1>10. Cancelled(x).status = "cancelled" /\ ~Cancelled(x).live
       /\ ~Cancelled(x).paused /\ Cancelled(x) \in Row
  <2>1. Cancelled(x) \in Row
    BY <1>1, CancelledRow
  <2>2. /\ Cancelled(x).status = "cancelled" /\ ~Cancelled(x).live
        /\ ~Cancelled(x).paused
    BY <1>1 DEF Cancelled, CancelRequest, RejectValidating, Released, Row,
       Pending
  <2> QED
    BY <2>1, <2>2
<1>11. CASE CancelUnowned(r)
  <2> DEFINE z == Cancelled(x)
             y == [z EXCEPT !.gen = @ + 1]
  <2>1. Update(r, z) \/ Update(r, y)
    BY <1>11 DEF CancelUnowned, x
  <2> HIDE DEF z
  <2>2. /\ z.status = "cancelled" /\ ~z.live /\ ~z.paused /\ z \in Row
        /\ y.status = "cancelled" /\ ~y.live /\ ~y.paused
    BY <1>10 DEF z, Row
  <2> HIDE DEF y
  <2>3. WaitingRow(z) /\ WaitingRow(y)
    BY <2>2 DEF WaitingRow
  <2> QED
    BY <1>2, <2>1, <2>2, <2>3 DEF x
<1>12. CASE BeginValidation(r)
  <2> DEFINE y == [x EXCEPT !.submission = "validating"]
  <2>1. Update(r, y) /\ Pending(x) /\ x.submission # "validating"
    BY <1>12 DEF BeginValidation, x
  <2>2. /\ y.status = x.status /\ y.request = x.request /\ y.open = x.open
        /\ y.submission = "validating" /\ y.paused = x.paused
        /\ y.queue = x.queue /\ y.effect = x.effect
        /\ y.gen = x.gen /\ y.owner = x.owner /\ y.live = x.live
    BY <1>1 DEF Row
  <2> HIDE DEF y
  <2>3. WaitingRow(y)
    BY <1>1, <2>1, <2>2 DEF WaitingRow, Pending
  <2>4. \A p : PhaseRow(p, x) => PhaseRow(p, y)
    BY <2>1, <2>2 DEF PhaseRow, Pending
  <2>5. Undisturbed(x, y)
    BY <2>2, <2>4 DEF Undisturbed, Claimant, Holds
  <2> QED
    BY <1>1, <2>1, <2>3, <2>5, Updated DEF x
<1>13. CASE AnswerCheckpoint(r)
  <2> DEFINE y == Settled(x)
  <2>1. Update(r, y) /\ Pending(x) /\ x.kind = "checkpoint"
    BY <1>13 DEF AnswerCheckpoint, x
  <2>2. /\ y.status = x.status /\ y.request = "settled" /\ y.open = x.open
        /\ y.paused = x.paused /\ y.queue = x.queue /\ y.effect = x.effect
        /\ y.gen = x.gen /\ y.owner = x.owner /\ y.live = x.live
    BY <1>1 DEF Settled, Row
  <2>3. x.submission = "none" /\ x.status = "waiting" /\ x.open
    BY <1>1, <2>1 DEF CheckpointRow
  <2> HIDE DEF y
  <2>4. WaitingRow(y)
    BY <1>1, <2>2, <2>3 DEF WaitingRow, Pending
  <2>5. \A p : PhaseRow(p, x) => PhaseRow(p, y)
    BY <2>1, <2>2, <2>3 DEF PhaseRow, Pending
  <2>6. Undisturbed(x, y)
    BY <2>2, <2>5 DEF Undisturbed, Claimant, Holds
  <2> QED
    BY <1>1, <2>1, <2>4, <2>6, Updated DEF x
<1>14. CASE \E o \in Owners : PublishUpdate(r, o)
  <2>1. PICK o \in Owners : PublishUpdate(r, o)
    BY <1>14
  <2> DEFINE z == ControlClaimed(x, o)
             y == Parked(z)
  <2>2. Update(r, y) /\ Pending(x)
    BY <2>1 DEF PublishUpdate, x
  <2>3. y.queue = "parked" /\ ~y.live /\ y.request = x.request
        /\ y.status = x.status
    BY <1>1 DEF ControlClaimed, Parked, Released, Row
  <2> HIDE DEF y
  <2>4. WaitingRow(y)
    BY <1>1, <2>2, <2>3 DEF WaitingRow, Pending
  <2> QED
    BY <1>2, <2>2, <2>3, <2>4 DEF x
<1>15. CASE \E o \in Owners : FailMissingSubmission(r, o)
  <2>1. PICK o \in Owners : FailMissingSubmission(r, o)
    BY <1>15
  <2> DEFINE z == ControlClaimed(x, o)
             y == Failed(z)
  <2>2. Update(r, y)
    BY <2>1 DEF FailMissingSubmission, x
  <2>3. ~y.live /\ ~y.paused /\ y.status = "failed"
    BY <1>1 DEF ControlClaimed, Failed, CancelRequest, Released, Row, Pending
  <2> HIDE DEF y
  <2>4. WaitingRow(y)
    BY <2>3 DEF WaitingRow
  <2> QED
    BY <1>2, <2>2, <2>3, <2>4 DEF x
<1> QED
  BY <1>4, <1>5, <1>6, <1>7, <1>8, <1>9, <1>11, <1>12, <1>13, <1>14, <1>15
     DEF Unheld, x
-----------------------------------------------------------------------------
(* What one server does for one run, seen by every claim on every run.     *)

OnlyRun(r) == \A q \in Runs : q # r => run'[q] = run[q]

OnlySlot(o, r) ==
    \A p \in Owners, q \in Runs : p # o \/ q # r => slot'[p][q] = slot[p][q]

(* Rows and memory of other runs are untouched; of this run, every server  *)
(* has to find what its claim relies on.                                   *)
LEMMA OneRun ==
    ASSUME ExecutionInv, NEW o \in Owners, NEW r \in Runs,
           OnlyRun(r), OnlySlot(o, r), WaitingRow(run'[r]),
           \A p \in Owners : p # o =>
               Claimant(Phase(p, r), slot[p][r].gen, run'[r]),
           Claimant(slot'[o][r].phase, slot'[o][r].gen, run'[r])
    PROVE  ExecutionInv'
<1>1. \A q \in Runs : WaitingRow(run'[q])
  BY DEF ExecutionInv, OnlyRun
<1>2. ASSUME NEW p \in Owners, NEW q \in Runs
      PROVE  Claimant(slot'[p][q].phase, slot'[p][q].gen, run'[q])
  <2>1. CASE q # r
    BY <2>1 DEF ExecutionInv, OnlyRun, OnlySlot, Phase
  <2>2. CASE q = r /\ p # o
    BY <2>2 DEF OnlySlot, Phase
  <2>3. CASE q = r /\ p = o
    BY <2>3
  <2> QED
    BY <2>1, <2>2, <2>3
<1> QED
  BY <1>1, <1>2 DEF ExecutionInv, Phase

(* A good step leaves the other runs alone.                                *)
LEMMA StepOnly ==
    ASSUME TypeOK, NEW r \in Runs, Step(r)
    PROVE  OnlyRun(r) /\ Fenced(run[r], run'[r])
BY DEF Step, RowStep, OnlyRun, TypeOK

(* Under the claim of o no other server has a claim that verifies, before  *)
(* or after the transaction.                                               *)
LEMMA OwnStep ==
    ASSUME ServerInv, ExecutionInv, NEW o \in Owners, NEW r \in Runs,
           Phase(o, r) # "idle", HeldWith(r, slot[o][r].gen),
           OnlySlot(o, r), WaitingRow(run'[r]),
           \/ slot'[o][r].phase = "idle"
           \/ ~run'[r].live
           \/ PhaseRow(slot'[o][r].phase, run'[r])
    PROVE  ExecutionInv'
<1>1. Holds(run[r], slot[o][r].gen) /\ Step(r) /\ TypeOK
  BY HeldWithStep DEF ServerInv, GoodRows
<1>2. OnlyRun(r) /\ Fenced(run[r], run'[r])
  BY <1>1, StepOnly
<1>3. /\ run[r].gen \in Nat /\ run'[r].gen \in Nat
      /\ \A p \in Owners : slot[p][r].gen \in Nat
  <2>1. run'[r] \in Row
    BY <1>1 DEF Step, RowStep, Good
  <2> QED
    BY <1>1, <2>1, RunStoreAssumption DEF TypeOK, Row, ServerInv, SlotsOK, Slot
<1>4. ASSUME NEW p \in Owners, p # o
      PROVE  Claimant(Phase(p, r), slot[p][r].gen, run'[r])
  <2> SUFFICES ASSUME Phase(p, r) # "idle", Holds(run'[r], slot[p][r].gen)
               PROVE  FALSE
    BY DEF Claimant
  <2>1. /\ slot[p][r].gen <= run[r].gen
        /\ slot[p][r].gen # slot[o][r].gen
    BY <1>4 DEF ServerInv, SlotClaims
  <2> QED
    BY <1>1, <1>2, <1>3, <2>1 DEF Holds, Fenced
<1>5. Claimant(slot'[o][r].phase, slot'[o][r].gen, run'[r])
  BY DEF Claimant, Holds
<1> QED
  BY <1>2, <1>4, <1>5, OneRun

(* A server moves on, or forgets its claim, and leaves the rows alone.     *)
LEMMA MemoryStep ==
    ASSUME ExecutionInv, NEW o \in Owners, NEW r \in Runs,
           UNCHANGED run, OnlySlot(o, r),
           \/ slot'[o][r].phase = "idle"
           \/ /\ slot'[o][r].gen = slot[o][r].gen
              /\ SlotHolds(o, r) => PhaseRow(slot'[o][r].phase, run[r])
    PROVE  ExecutionInv'
<1>1. OnlyRun(r) /\ WaitingRow(run'[r])
  BY DEF OnlyRun, ExecutionInv
<1>2. \A p \in Owners : Claimant(Phase(p, r), slot[p][r].gen, run'[r])
  BY DEF ExecutionInv
<1>3. Claimant(slot'[o][r].phase, slot'[o][r].gen, run'[r])
  BY DEF Claimant, SlotHolds
<1> QED
  BY <1>1, <1>2, <1>3, OneRun

\* A transaction of nobody's claim, or with a claim it gives back itself.
Quiet(r) ==
    \/ Unheld(r)
    \/ \E o \in Owners : PublishUpdate(r, o) \/ FailMissingSubmission(r, o)

(* A quiet transaction writes the rows of its run only.                    *)
LEMMA QuietOnly ==
    ASSUME GoodRows, NEW r \in Runs, Quiet(r)
    PROVE  OnlyRun(r)
<1>1. TypeOK /\ Good(run[r])
  BY DEF GoodRows
<1>2. CASE \/ \E s \in Sessions, m \in Mode : Reserve(r, s, m)
           \/ \E p \in Runs : Restart(r, p)
  BY <1>1, <1>2 DEF Reserve, Restart, Update, OnlyRun, TypeOK
<1>3. CASE \/ Expire(r) \/ PauseParked(r) \/ ResumePausedInteraction(r)
           \/ RequestResume(r) \/ CancelUnowned(r)
           \/ BeginValidation(r) \/ AnswerCheckpoint(r)
  BY <1>1, <1>3, UnheldStep, StepOnly
<1>4. CASE \E o \in Owners : PublishUpdate(r, o) \/ FailMissingSubmission(r, o)
  BY <1>1, <1>4, ClaimingStep, StepOnly DEF Claiming
<1> QED
  BY <1>2, <1>3, <1>4 DEF Quiet, Unheld

(* A quiet transaction disturbs no claim that executes.                    *)
LEMMA QuietStep ==
    ASSUME ServerInv, ExecutionInv, NEW o \in Owners, NEW r \in Runs,
           Quiet(r), OnlySlot(o, r),
           slot'[o][r].phase = slot[o][r].phase,
           slot'[o][r].gen = slot[o][r].gen
    PROVE  ExecutionInv'
<1>1. GoodRows /\ WaitingRow(run[r])
  BY DEF ServerInv, ExecutionInv
<1>2. OnlyRun(r)
  BY <1>1, QuietOnly
<1>3. WaitingRow(run'[r]) /\ Undisturbed(run[r], run'[r])
  BY <1>1, QuietRow DEF Quiet
<1>4. \A p \in Owners : Claimant(Phase(p, r), slot[p][r].gen, run'[r])
  <2> TAKE p \in Owners
  <2>1. CASE Phase(p, r) = "idle"
    BY <2>1 DEF Claimant
  <2>2. CASE Phase(p, r) # "idle"
    <3>1. slot[p][r].gen <= run[r].gen
      BY <2>2 DEF ServerInv, SlotClaims
    <3> QED
      BY <1>3, <3>1 DEF Undisturbed, ExecutionInv
  <2> QED
    BY <2>1, <2>2
<1> QED
  BY <1>2, <1>3, <1>4, OneRun DEF Phase

(* A claim is the newest of its run: no older one verifies beside it.      *)
LEMMA ClaimedStep ==
    ASSUME ServerInv, ExecutionInv, NEW o \in Owners, NEW r \in Runs, NEW p,
           \/ ClaimNext(r, o) /\ p = "pending"
           \/ /\ ClaimForInteractionValidation(r, o)
              /\ HasReadyAnswer(run[r]) /\ ~run[r].paused /\ p = "pending"
           \/ ClaimForControl(r, o) /\ ~run[r].paused /\ p = "timeout"
           \/ ClaimForControl(r, o) /\ p = "decision",
           Claim(o, r, p)
    PROVE  ExecutionInv'
<1>1. TypeOK /\ Good(run[r]) /\ WaitingRow(run[r])
  BY DEF ServerInv, GoodRows, ExecutionInv
<1>2. /\ WaitingRow(run'[r]) /\ PhaseRow(p, run'[r])
      /\ run'[r].gen = run[r].gen + 1
  BY <1>1, ClaimedRow
<1>3. Claiming(r)
  BY DEF Claiming
<1>4. OnlyRun(r)
  BY <1>1, <1>3, ClaimingStep, StepOnly
<1>5. OnlySlot(o, r) /\ slot'[o][r].phase = p
  BY DEF Claim, SetSlot, OnlySlot, Idle, ServerInv, SlotsOK
<1>6. /\ run[r].gen \in Nat
      /\ \A t \in Owners : slot[t][r].gen \in Nat
  BY <1>1, RunStoreAssumption DEF TypeOK, Row, ServerInv, SlotsOK, Slot
<1>7. \A t \in Owners : Claimant(Phase(t, r), slot[t][r].gen, run'[r])
  BY <1>2, <1>6 DEF Claimant, Holds, ServerInv, SlotClaims
<1>8. Claimant(slot'[o][r].phase, slot'[o][r].gen, run'[r])
  BY <1>2, <1>5 DEF Claimant
<1> QED
  BY <1>2, <1>4, <1>5, <1>7, <1>8, OneRun

(* A runner gets further under the claim it has.                           *)
LEMMA MovedSlot ==
    ASSUME SlotsOK, NEW o \in Owners, NEW r \in Runs, NEW p,
           MoveTo(o, r, p) \/ Advance(o, r, p)
    PROVE  /\ OnlySlot(o, r)
           /\ slot'[o][r].phase = p
           /\ slot'[o][r].gen = slot[o][r].gen
BY DEF MoveTo, Advance, OnlySlot, SlotsOK, Slot

(* A server forgets its claim.                                             *)
LEMMA IdleSlot ==
    ASSUME SlotsOK, NEW o \in Owners, NEW r \in Runs, SetSlot(o, r, Idle)
    PROVE  OnlySlot(o, r) /\ slot'[o][r].phase = "idle"
BY DEF SetSlot, Idle, OnlySlot, SlotsOK

(* A runner is told to stop.                                               *)
LEMMA ControlledSlot ==
    ASSUME SlotsOK, NEW o \in Owners, NEW r \in Runs, NEW c,
           slot' = [slot EXCEPT ![o][r].control = c]
    PROVE  /\ OnlySlot(o, r)
           /\ slot'[o][r].phase = slot[o][r].phase
           /\ slot'[o][r].gen = slot[o][r].gen
BY DEF OnlySlot, SlotsOK, Slot

(* A runner hands its claim back and halts.                                *)
LEMMA HaltedSlot ==
    ASSUME SlotsOK, NEW o \in Owners, NEW r \in Runs, NEW c,
           slot' = [slot EXCEPT ![o][r].phase = "halted", ![o][r].control = c]
    PROVE  /\ OnlySlot(o, r)
           /\ slot'[o][r].phase = "halted"
           /\ slot'[o][r].gen = slot[o][r].gen
BY DEF OnlySlot, SlotsOK, Slot

-----------------------------------------------------------------------------
(* One lemma for what a server does by itself, one for its runners, one    *)
(* for what clients ask of it.                                             *)

(* A server that gives its claim up has nothing left to rely on.           *)
LEMMA GiveUpStep ==
    ASSUME ServerInv, ExecutionInv, NEW o \in Owners, NEW r \in Runs,
           Phase(o, r) # "idle", GiveUp(o, r), SetSlot(o, r, Idle)
    PROVE  ExecutionInv'
<1>1. TypeOK /\ Good(run[r]) /\ WaitingRow(run[r])
  BY DEF ServerInv, GoodRows, ExecutionInv
<1>2. OnlySlot(o, r) /\ slot'[o][r].phase = "idle"
  BY IdleSlot DEF ServerInv
<1>3. CASE Park(r, slot[o][r].gen)
  BY <1>1, <1>2, <1>3, ReleasedRow, OwnStep DEF HeldWith
<1>4. CASE UNCHANGED run
  BY <1>2, <1>4, MemoryStep
<1> QED
  BY <1>3, <1>4 DEF GiveUp

(* The scheduler: claims, deadlines, activation, and the end of a runner.  *)
LEMMA ScheduleStep ==
    ASSUME ServerInv, ExecutionInv, NEW o \in Owners, NEW r \in Runs,
           \/ ClaimReady(o, r) \/ ClaimScheduled(o, r)
           \/ ClaimExpired(o, r) \/ ClaimDecision(o, r)
           \/ ExpireTurn(o, r) \/ ExpireDecision(o, r)
           \/ Activate(o, r) \/ RecoverEffects(o, r)
           \/ ActivateAmbiguous(o, r) \/ SpawnRunner(o, r) \/ RunnerReady(o, r)
           \/ RunnerExit(o, r) \/ RecoverRunnerExit(o, r)
           \/ LoseClaim(o, r) \/ StopRun(o, r)
    PROVE  ExecutionInv'
<1> DEFINE g == slot[o][r].gen
<1>1. TypeOK /\ Good(run[r]) /\ WaitingRow(run[r]) /\ SlotsOK
  BY DEF ServerInv, GoodRows, ExecutionInv
<1>2. \A p : p = Phase(o, r) /\ p # "idle" /\ SlotHolds(o, r) =>
          PhaseRow(p, run[r])
  BY DEF ExecutionInv, Claimant, SlotHolds
<1>3. \A q : MoveTo(o, r, q) =>
          /\ OnlySlot(o, r) /\ slot'[o][r].phase = q
          /\ slot'[o][r].gen = slot[o][r].gen
  BY <1>1, MovedSlot
<1>4. SetSlot(o, r, Idle) => OnlySlot(o, r) /\ slot'[o][r].phase = "idle"
  BY <1>1, IdleSlot
<1>5. CASE ClaimReady(o, r) \/ ClaimScheduled(o, r)
           \/ ClaimExpired(o, r) \/ ClaimDecision(o, r)
  BY <1>5, ClaimedStep DEF ClaimReady, ClaimScheduled, ClaimExpired,
     ClaimDecision
<1>6. CASE ExpireTurn(o, r)
  <2>1. CASE InteractionTimeout(r, g) /\ MoveTo(o, r, "pending")
    BY <1>1, <1>3, <1>6, <2>1, KeptRow, OwnStep DEF ExpireTurn, HeldWith
  <2>2. CASE GiveUp(o, r) /\ SetSlot(o, r, Idle)
    BY <1>6, <2>2, GiveUpStep DEF ExpireTurn
  <2> QED
    BY <1>6, <2>1, <2>2 DEF ExpireTurn
<1>7. CASE ExpireDecision(o, r)
  <2>1. CASE DecisionTimeout(r, g) /\ SetSlot(o, r, Idle)
    BY <1>1, <1>4, <1>7, <2>1, ReleasedRow, OwnStep DEF ExpireDecision,
       HeldWith
  <2>2. CASE GiveUp(o, r) /\ SetSlot(o, r, Idle)
    BY <1>7, <2>2, GiveUpStep DEF ExpireDecision
  <2> QED
    BY <1>7, <2>1, <2>2 DEF ExpireDecision
<1>8. CASE Activate(o, r)
  <2>1. CASE MoveTo(o, r, "active") /\ UNCHANGED run
    <3>1. PhaseRow("pending", run[r]) => PhaseRow("active", run[r])
      BY DEF PhaseRow
    <3> QED
      BY <1>2, <1>3, <1>8, <2>1, <3>1, MemoryStep DEF Activate
  <2>2. CASE GiveUp(o, r) /\ SetSlot(o, r, Idle)
    BY <1>8, <2>2, GiveUpStep DEF Activate
  <2> QED
    BY <1>8, <2>1, <2>2 DEF Activate
<1>9. CASE RecoverEffects(o, r)
  <2>1. PICK outcome \in {"none", "ambiguous"} : SettleEffect(r, g, outcome)
    BY <1>9 DEF RecoverEffects
  <2>2. /\ Phase(o, r) \in {"active", "graph"} \cup ExitPhases
        /\ Phase(o, r) # "idle" /\ UNCHANGED slot
    BY <1>9 DEF RecoverEffects, ExitPhases
  <2>3. SlotHolds(o, r) /\ HeldWith(r, g) /\ OnlySlot(o, r)
    BY <2>1, <2>2 DEF SettleEffect, SlotHolds, HeldWith, OnlySlot
  <2>4. WaitingRow(run'[r]) /\ PhaseRow(slot'[o][r].phase, run'[r])
    BY <1>1, <1>2, <2>1, <2>2, <2>3, ExecutingRow DEF Phase
  <2> QED
    BY <2>2, <2>3, <2>4, OwnStep
<1>10. CASE ActivateAmbiguous(o, r)
  <2>1. CASE ParkAmbiguous(r, g) /\ SetSlot(o, r, Idle)
    BY <1>1, <1>4, <1>10, <2>1, ReleasedRow, OwnStep DEF ActivateAmbiguous,
       HeldWith
  <2>2. CASE MoveTo(o, r, "crashed") /\ UNCHANGED run
    <3>1. PhaseRow("active", run[r]) => PhaseRow("crashed", run[r])
      BY DEF PhaseRow
    <3> QED
      BY <1>2, <1>3, <1>10, <2>2, <3>1, MemoryStep DEF ActivateAmbiguous
  <2> QED
    BY <1>10, <2>1, <2>2 DEF ActivateAmbiguous
<1>11. CASE RunnerReady(o, r)
  <2>1. CASE MarkRunning(r, g) /\ MoveTo(o, r,
                    IF run[r].status = "queued" THEN "start" ELSE "resume")
    <3>1. SlotHolds(o, r) /\ Phase(o, r) = "spawned"
      BY <1>11, <2>1 DEF RunnerReady, MarkRunning, SlotHolds
    <3>2. /\ WaitingRow(run'[r])
          /\ run[r].status = "queued" => PhaseRow("start", run'[r])
          /\ PhaseRow("resume", run'[r])
      BY <1>1, <1>2, <2>1, <3>1, KeptRow
    <3> QED
      BY <1>3, <2>1, <3>1, <3>2, OwnStep DEF HeldWith
  <2>2. CASE MoveTo(o, r, "crashed") /\ UNCHANGED run
    <3>1. PhaseRow("spawned", run[r]) => PhaseRow("crashed", run[r])
      BY DEF PhaseRow
    <3> QED
      BY <1>2, <1>3, <1>11, <2>2, <3>1, MemoryStep DEF RunnerReady
  <2> QED
    BY <1>11, <2>1, <2>2 DEF RunnerReady
<1>12. CASE RunnerExit(o, r) \/ LoseClaim(o, r)
  <2>1. /\ Phase(o, r) \in RunnerPhases
        /\ \E q \in ExitPhases : MoveTo(o, r, q)
        /\ UNCHANGED run
    BY <1>12 DEF RunnerExit, LoseClaim, RunnerPhases, ExitPhases
  <2>2. \A p \in RunnerPhases, q \in ExitPhases :
            PhaseRow(p, run[r]) => PhaseRow(q, run[r])
    BY DEF PhaseRow, RunnerPhases, ExitPhases
  <2>3. Phase(o, r) # "idle"
    BY <2>1 DEF RunnerPhases
  <2> QED
    BY <1>2, <1>3, <2>1, <2>2, <2>3, MemoryStep
<1>13. CASE RecoverRunnerExit(o, r)
  <2>1. OnlySlot(o, r) /\ slot'[o][r].phase = "idle" /\ Phase(o, r) # "idle"
    BY <1>4, <1>13 DEF RecoverRunnerExit, ExitPhases
  <2>2. CASE UNCHANGED run
    BY <2>1, <2>2, MemoryStep
  <2>3. CASE RecoverHeld(o, r) /\ ~UNCHANGED run
    <3>1. \/ ParkAmbiguous(r, g) /\ run[r].effect = "ambiguous"
          \/ RejectSubmission(r, g) \/ Fail(r, g)
          \/ ParkNoProgress(r, g) \/ Park(r, g)
      BY <2>3 DEF RecoverHeld
    <3>2. HeldWith(r, g) /\ WaitingRow(run'[r])
      BY <1>1, <3>1, ReleasedRow DEF HeldWith
    <3> QED
      BY <2>1, <3>2, OwnStep
  <2> QED
    BY <1>13, <2>2, <2>3 DEF RecoverRunnerExit
<1>14. CASE StopRun(o, r)
  BY <1>14, GiveUpStep DEF StopRun, ActivePhases, RunnerPhases, ExitPhases
<1>15. CASE SpawnRunner(o, r)
  <2>1. PhaseRow("active", run[r]) /\ run[r].effect = "none" => PhaseRow("spawned", run[r])
    BY DEF PhaseRow
  <2> QED
    BY <1>2, <1>3, <1>15, <2>1, MemoryStep DEF SpawnRunner
<1> QED
  BY <1>5, <1>6, <1>7, <1>8, <1>9, <1>10, <1>11, <1>12, <1>13, <1>14, <1>15

(* A runner that is still between its start and its first work.            *)
LEMMA BeginStep ==
    ASSUME ServerInv, ExecutionInv, NEW o \in Owners, NEW r \in Runs,
           RunnerStart(o, r) \/ RunnerResume(o, r)
    PROVE  ExecutionInv'
<1> DEFINE g == slot[o][r].gen
<1>1. TypeOK /\ Good(run[r]) /\ WaitingRow(run[r]) /\ SlotsOK
  BY DEF ServerInv, GoodRows, ExecutionInv
<1>2. \A p : p = Phase(o, r) /\ p # "idle" /\ Holds(run[r], g) =>
          PhaseRow(p, run[r])
  BY DEF ExecutionInv, Claimant
<1>3. \A q : Advance(o, r, q) => OnlySlot(o, r) /\ slot'[o][r].phase = q
  BY <1>1, MovedSlot
<1>4. CASE Phase(o, r) = "start" /\ Initialize(r, g) /\ Advance(o, r, "start")
  <2>1. PhaseRow("start", run[r]) /\ HeldWith(r, g)
    BY <1>2, <1>4 DEF Initialize, HeldWith
  <2> QED
    BY <1>1, <1>3, <1>4, <2>1, KeptRow, OwnStep
<1>5. CASE Phase(o, r) = "start" /\ RunStarted(r, g) /\ Advance(o, r, "graph")
  <2>1. PhaseRow("start", run[r]) /\ HeldWith(r, g)
    BY <1>2, <1>5 DEF RunStarted, HeldWith
  <2> QED
    BY <1>1, <1>3, <1>5, <2>1, KeptRow, OwnStep
<1>6. CASE /\ Phase(o, r) = "resume" /\ AnswerResume(r, g)
           /\ Advance(o, r, "resume")
  <2>1. PhaseRow("resume", run[r]) /\ HeldWith(r, g)
    BY <1>2, <1>6 DEF AnswerResume, HeldWith
  <2> QED
    BY <1>1, <1>3, <1>6, <2>1, KeptRow, OwnStep
<1>7. CASE /\ Phase(o, r) = "resume" /\ RunResumed(r, g)
           /\ Advance(o, r, IF run[r].open THEN "candidate" ELSE "graph")
  <2>1. PhaseRow("resume", run[r]) /\ HeldWith(r, g)
    BY <1>2, <1>7 DEF RunResumed, HeldWith
  <2>2. /\ WaitingRow(run'[r])
        /\ PhaseRow("graph", run'[r])
        /\ run[r].open => PhaseRow("candidate", run'[r])
    BY <1>1, <1>7, <2>1, KeptRow
  <2> QED
    BY <1>3, <1>7, <2>1, <2>2, OwnStep
<1> QED
  BY <1>4, <1>5, <1>6, <1>7 DEF RunnerStart, RunnerResume

(* A runner at work: in the attempt it resumed, in the graph, at the end.  *)
LEMMA WorkStep ==
    ASSUME ServerInv, ExecutionInv, NEW o \in Owners, NEW r \in Runs,
           \/ RunnerCandidate(o, r) \/ RunnerGraph(o, r)
           \/ RunnerAmbiguous(o, r) \/ RunnerFinish(o, r)
    PROVE  ExecutionInv'
<1> DEFINE g == slot[o][r].gen
<1>1. TypeOK /\ Good(run[r]) /\ WaitingRow(run[r]) /\ SlotsOK
  BY DEF ServerInv, GoodRows, ExecutionInv
<1>2. \A p : p = Phase(o, r) /\ p # "idle" /\ Holds(run[r], g) =>
          PhaseRow(p, run[r])
  BY DEF ExecutionInv, Claimant
<1>3. \A q : Advance(o, r, q) => OnlySlot(o, r) /\ slot'[o][r].phase = q
  BY <1>1, MovedSlot
<1>4. \A c : slot' = [slot EXCEPT ![o][r].phase = "halted",
                                  ![o][r].control = c] => OnlySlot(o, r)
  BY <1>1, HaltedSlot
<1>5. CASE RunnerCandidate(o, r)
  <2>1. CASE AcceptSubmission(r, g) /\ Advance(o, r, "candidate")
    <3>1. PhaseRow("candidate", run[r]) /\ HeldWith(r, g)
          /\ Phase(o, r) # "idle"
      BY <1>2, <1>5, <2>1 DEF RunnerCandidate, AcceptSubmission, HeldWith
    <3> QED
      BY <1>1, <1>3, <2>1, <3>1, ExecutingRow, OwnStep
  <2>2. CASE ConsumeAnswer(r, g) /\ Advance(o, r, "graph")
    <3>1. PhaseRow("candidate", run[r]) /\ HeldWith(r, g)
          /\ Phase(o, r) # "idle"
      BY <1>2, <1>5, <2>2 DEF RunnerCandidate, ConsumeAnswer, HeldWith
    <3> QED
      BY <1>1, <1>3, <2>2, <3>1, ExecutingRow, OwnStep
  <2>3. CASE EndAttempt(r, g) /\ Advance(o, r, "graph")
    <3>1. PhaseRow("candidate", run[r]) /\ HeldWith(r, g)
          /\ Phase(o, r) # "idle"
      BY <1>2, <1>5, <2>3 DEF RunnerCandidate, EndAttempt, HeldWith
    <3> QED
      BY <1>1, <1>3, <2>3, <3>1, ExecutingRow, OwnStep
  <2>4. CASE /\ RejectSubmission(r, g)
             /\ slot' = [slot EXCEPT ![o][r].phase = "halted",
                                     ![o][r].control = "handoff"]
    <3>1. HeldWith(r, g) /\ Phase(o, r) # "idle" /\ OnlySlot(o, r)
      BY <1>4, <1>5, <2>4 DEF RunnerCandidate, HeldWith
    <3> QED
      BY <1>1, <2>4, <3>1, ReleasedRow, OwnStep
  <2> QED
    BY <1>5, <2>1, <2>2, <2>3, <2>4 DEF RunnerCandidate
<1>6. CASE RunnerGraph(o, r)
  <2>1. Phase(o, r) = "graph"
    BY <1>6 DEF RunnerGraph
  <2>2. CASE \/ /\ RequestInteraction(r, g)
                /\ slot' = [slot EXCEPT ![o][r].phase = "halted",
                                        ![o][r].control = "handoff"]
             \/ WaitForInput(r, g) /\ Advance(o, r, "halted")
    <3>1. HeldWith(r, g) /\ OnlySlot(o, r)
      BY <1>3, <1>4, <2>2 DEF HeldWith
    <3>2. WaitingRow(run'[r]) /\ ~run'[r].live
      BY <1>1, <2>2, ReleasedRow
    <3> QED
      BY <2>1, <3>1, <3>2, OwnStep
  <2>3. CASE ReserveEffect(r, g) /\ Advance(o, r, "graph")
    <3>1. PhaseRow("graph", run[r]) /\ HeldWith(r, g)
      BY <1>2, <2>1, <2>3 DEF ReserveEffect, HeldWith
    <3> QED
      BY <1>1, <1>3, <2>1, <2>3, <3>1, ExecutingRow, OwnStep
  <2>4. CASE \/ SettleEffect(r, g, "none") /\ Advance(o, r, "graph")
             \/ SettleEffect(r, g, "ambiguous") /\ Advance(o, r, "ambiguous")
    <3>1. PhaseRow("graph", run[r]) /\ HeldWith(r, g)
      BY <1>2, <2>1, <2>4 DEF SettleEffect, HeldWith
    <3>2. OnlySlot(o, r)
      BY <1>3, <2>4
    <3>3. WaitingRow(run'[r]) /\ PhaseRow(slot'[o][r].phase, run'[r])
      BY <1>1, <1>3, <2>4, <3>1, ExecutingRow
    <3> QED
      BY <2>1, <3>1, <3>2, <3>3, OwnStep
  <2> QED
    BY <1>6, <2>2, <2>3, <2>4 DEF RunnerGraph
<1>7. CASE RunnerAmbiguous(o, r)
  <2>1. Phase(o, r) = "ambiguous" /\ ParkAmbiguous(r, g)
        /\ Advance(o, r, "halted")
    BY <1>7 DEF RunnerAmbiguous
  <2>2. run[r].effect = "ambiguous" /\ HeldWith(r, g) /\ OnlySlot(o, r)
    BY <1>2, <1>3, <2>1 DEF ParkAmbiguous, HeldWith, PhaseRow
  <2> QED
    BY <1>1, <2>1, <2>2, ReleasedRow, OwnStep
<1>8. CASE RunnerFinish(o, r)
  <2>1. PICK s \in RunTerminal : FinishRun(r, g, s)
    BY <1>8 DEF RunnerFinish, RunTerminal
  <2>2. Phase(o, r) \in {"graph", "candidate"} /\ OnlySlot(o, r)
    BY <1>3, <1>8 DEF RunnerFinish
  <2>3. HeldWith(r, g) /\ ~run[r].paused
    BY <1>2, <2>1, <2>2 DEF FinishRun, HeldWith, PhaseRow
  <2>4. WaitingRow(run'[r]) /\ ~run'[r].live
    BY <1>1, <2>1, <2>3, ReleasedRow
  <2> QED
    BY <2>2, <2>3, <2>4, OwnStep
<1> QED
  BY <1>5, <1>6, <1>7, <1>8

(* What a client asks of a server for a run.                               *)
LEMMA OperateStep ==
    ASSUME ServerInv, ExecutionInv, NEW o \in Owners, NEW r \in Runs,
           Operate(o, r)
    PROVE  ExecutionInv'
<1> DEFINE g == slot[o][r].gen
<1>1. TypeOK /\ Good(run[r]) /\ WaitingRow(run[r]) /\ SlotsOK
  BY DEF ServerInv, GoodRows, ExecutionInv
<1>2. \A c : slot' = [slot EXCEPT ![o][r].control = c] =>
          /\ OnlySlot(o, r)
          /\ slot'[o][r].phase = slot[o][r].phase
          /\ slot'[o][r].gen = slot[o][r].gen
  BY <1>1, ControlledSlot
<1>3. UNCHANGED slot =>
          /\ OnlySlot(o, r)
          /\ slot'[o][r].phase = slot[o][r].phase
          /\ slot'[o][r].gen = slot[o][r].gen
  BY DEF OnlySlot
<1>4. Phase(o, r) \in ActivePhases => Phase(o, r) # "idle"
  BY DEF ActivePhases, RunnerPhases, ExitPhases
<1>5. CASE PauseRun(o, r)
  <2>1. CASE /\ Phase(o, r) \in ActivePhases
             /\ PauseActive(r, g)
             /\ slot' = [slot EXCEPT ![o][r].control = "pause"]
    BY <1>1, <1>2, <1>4, <2>1, ReleasedRow, OwnStep DEF HeldWith
  <2>2. CASE PauseParked(r) /\ UNCHANGED slot
    BY <1>3, <2>2, QuietStep DEF Quiet, Unheld
  <2> QED
    BY <1>5, <2>1, <2>2 DEF PauseRun
<1>6. CASE AbortTurn(o, r) \/ ResumeRun(o, r)
  BY <1>3, <1>6, QuietStep DEF AbortTurn, ResumeRun, Quiet, Unheld
<1>7. CASE CancelRun(o, r)
  <2>1. CASE /\ Phase(o, r) \in ActivePhases
             /\ CancelUnowned(r)
             /\ slot' = [slot EXCEPT ![o][r].control = "cancel"]
    BY <1>2, <2>1, QuietStep DEF Quiet, Unheld
  <2>2. CASE /\ Phase(o, r) \in ActivePhases
             /\ CancelHeld(r, g)
             /\ slot' = [slot EXCEPT ![o][r].control = "cancel"]
    BY <1>1, <1>2, <1>4, <2>2, ReleasedRow, OwnStep DEF HeldWith
  <2>3. CASE /\ Phase(o, r) = "pending"
             /\ CancelHeld(r, g) /\ SetSlot(o, r, Idle)
    BY <1>1, <2>3, IdleSlot, ReleasedRow, OwnStep DEF HeldWith
  <2>4. CASE CancelUnowned(r) /\ UNCHANGED slot
    BY <1>3, <2>4, QuietStep DEF Quiet, Unheld
  <2> QED
    BY <1>7, <2>1, <2>2, <2>3, <2>4 DEF CancelRun
<1>8. CASE StartRun(o, r) \/ RestartRun(o, r)
  BY <1>3, <1>8, QuietStep DEF StartRun, RestartRun, Quiet, Unheld
<1>9. CASE Answer(o, r) \/ MissingSubmission(o, r)
  BY <1>3, <1>9, QuietStep DEF Answer, MissingSubmission, Quiet, Unheld
<1> QED
  BY <1>5, <1>6, <1>7, <1>8, <1>9 DEF Operate

-----------------------------------------------------------------------------
(* The invariant, and what it says of a system that executes.              *)

(* Every step of the servers keeps the rows as the claims need them.       *)
LEMMA ExecutionInvStep ==
    ASSUME ServerInv, ExecutionInv, [ServerNext]_vars
    PROVE  ExecutionInv'
<1>1. CASE UNCHANGED vars
  BY <1>1 DEF vars, ExecutionInv, Phase
<1>2. ASSUME NEW o \in Owners, NEW r \in Runs, Drive(o, r)
      PROVE  ExecutionInv'
  <2>1. CASE RunnerStep(o, r)
    BY <2>1, BeginStep, WorkStep DEF RunnerStep
  <2> QED
    BY <1>2, <2>1, ScheduleStep DEF Drive
<1>3. ASSUME NEW o \in Owners, NEW r \in Runs, Operate(o, r)
      PROVE  ExecutionInv'
  BY <1>3, OperateStep
<1>4. ASSUME NEW o \in Owners, StartServer(o)
      PROVE  ExecutionInv'
  <2>1. CASE UNCHANGED run
    BY <1>4, <2>1 DEF StartServer, ExecutionInv, Phase
  <2>2. CASE ExpireOwner(current)
    <3>1. ASSUME NEW q \in Runs
          PROVE  /\ WaitingRow(run'[q])
                 /\ \A p, g : Claimant(p, g, run[q]) => Claimant(p, g, run'[q])
      <4> DEFINE x == run[q]
                 y == [x EXCEPT !.live = FALSE]
      <4>1. x \in Row /\ WaitingRow(x)
        BY DEF ServerInv, GoodRows, TypeOK, ExecutionInv
      <4>2. run'[q] = x \/ run'[q] = y
        BY <2>2 DEF ExpireOwner
      <4> HIDE DEF x
      <4>3. WaitingRow(y) /\ ~y.live
        BY <4>1 DEF WaitingRow, Row, Pending
      <4> HIDE DEF y
      <4>4. \A p, g : Claimant(p, g, y)
        BY <4>3 DEF Claimant, Holds
      <4> QED
        BY <4>1, <4>2, <4>3, <4>4 DEF x
    <3> QED
      BY <1>4, <3>1 DEF StartServer, ExecutionInv, Phase
  <2> QED
    BY <1>4, <2>1, <2>2 DEF StartServer
<1>5. ASSUME NEW o \in Owners, StopServer(o) \/ EndServer(o)
      PROVE  ExecutionInv'
  BY <1>5 DEF StopServer, EndServer, ExecutionInv, Phase
<1>6. ASSUME NEW o \in Owners, CrashServer(o)
      PROVE  ExecutionInv'
  <2>1. UNCHANGED run
    BY <1>6 DEF CrashServer
  <2>2. \A p \in Owners, q \in Runs :
            slot'[p][q] = slot[p][q] \/ slot'[p][q].phase = "idle"
    BY <1>6 DEF CrashServer, ServerInv, SlotsOK, Idle
  <2> QED
    BY <2>1, <2>2 DEF ExecutionInv, Claimant, Phase
<1>7. ASSUME NEW r \in Runs, LeaseExpires(r)
      PROVE  ExecutionInv'
  <2>1. Quiet(r) /\ UNCHANGED slot
    BY <1>7 DEF LeaseExpires, Quiet, Unheld
  <2>2. CASE \E o \in Owners : TRUE
    BY <2>1, <2>2, QuietStep DEF OnlySlot
  <2>3. CASE ~ \E o \in Owners : TRUE
    <3>1. OnlyRun(r) /\ WaitingRow(run'[r])
      BY <2>1, QuietOnly, QuietRow DEF Quiet, ServerInv, ExecutionInv
    <3> QED
      BY <2>3, <3>1 DEF ExecutionInv, OnlyRun
  <2> QED
    BY <2>2, <2>3
<1> QED
  BY <1>1, <1>2, <1>3, <1>4, <1>5, <1>6, <1>7 DEF ServerNext

(* It holds throughout.                                                    *)
LEMMA AlwaysExecutionInv == ServerSpec => []ExecutionInv
<1>1. ServerInit => ExecutionInv
  BY DEF ServerInit, Init, Absent, Idle, ExecutionInv, WaitingRow, Claimant,
     Phase
<1>2. ServerInv /\ ExecutionInv /\ [ServerNext]_vars => ExecutionInv'
  BY ExecutionInvStep
<1> QED
  BY <1>1, <1>2, AlwaysServerInv, PTL DEF ServerSpec

(* A paused run does not execute: through answers, deadlines, restarts and *)
(* takeovers it stays parked, and the only claim that verifies on it is    *)
(* one that ends a decision whose deadline has passed.                     *)
THEOREM PausedRunsRest == ServerSpec => []PausedDoesNotExecute
<1>1. ExecutionInv => PausedDoesNotExecute
  BY DEF ExecutionInv, WaitingRow, Claimant, PhaseRow, PausedDoesNotExecute,
     SlotHolds
<1> QED
  BY <1>1, AlwaysExecutionInv, PTL

(* While a runner of a claim that verifies executes, its run is running,   *)
(* the attempt it resumed is open, and a request that is pending has a     *)
(* candidate answer: nobody else moves a run that executes.                *)
THEOREM ExecutingRunsRun == ServerSpec => []ExecutionIsLive
<1>1. ExecutionInv => ExecutionIsLive
  BY DEF ExecutionInv, Claimant, PhaseRow, ExecutionIsLive, SlotHolds
<1> QED
  BY <1>1, AlwaysExecutionInv, PTL

(* No runner starts, resumes or answers beside an external effect of an    *)
(* earlier claim that is still applying or whose outcome is not known.     *)
THEOREM EffectsAreResolved == ServerSpec => []EffectsResolvedBeforeRun
<1>1. ExecutionInv => EffectsResolvedBeforeRun
  BY DEF ExecutionInv, Claimant, PhaseRow, EffectsResolvedBeforeRun, SlotHolds
<1> QED
  BY <1>1, AlwaysExecutionInv, PTL

(* A run that waits has what it waits for: a pending request, an accepted  *)
(* answer and the attempt to consume it, or an ambiguous effect.           *)
THEOREM WaitingRunsAreAnswerable == ServerSpec => []WaitingForAnswer
<1>1. ExecutionInv => WaitingForAnswer
  BY DEF ExecutionInv, WaitingRow, WaitingForAnswer
<1> QED
  BY <1>1, AlwaysExecutionInv, PTL
=============================================================================
