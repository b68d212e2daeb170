--------------------------- MODULE RunStoreProofs ---------------------------
(***************************************************************************)
(* Proofs about RunStore for any number of runs, sessions and servers and  *)
(* any bound on claims.  Every transaction changes the rows of one run, so *)
(* the argument has two layers: what one transaction does to the rows it   *)
(* writes (lemmas HeldStep, UnheldStep and ClaimingStep), and what follows *)
(* for all runs together.                                                  *)
(***************************************************************************)
EXTENDS RunStore, TLAPS

\* The invariant of one run's rows, in named parts.
TerminalRow(x) ==
    /\ x.status \in RunTerminal <=> x.queue \in QueueTerminal
    /\ x.status = "completed" <=> x.queue = "done"
    /\ x.status = "cancelled" <=> x.queue = "cancelled"
    /\ x.status \in RunTerminal => x.owner = None /\ ~x.open

AnswerRow(x) ==
    /\ x.request \in {"settled", "consumed"} <=> x.submission = "accepted"
    /\ x.request = "settled" /\ Nonterminal(x) => x.open

CheckpointRow(x) ==
    Pending(x) /\ x.kind = "checkpoint" =>
        /\ x.status = "waiting"
        /\ x.queue \in QueueActive
        /\ x.open
        /\ x.submission = "none"

\* Only a run in an active queue state is owned.
OwnedRow(x) == x.owner # None => x.queue \in QueueActive

\* A run that was never reserved was never claimed and never asked.
AbsentRow(x) ==
    x.queue = "none" =>
        x.gen = 0 /\ x.request = "none" /\ x.submission = "none"

Good(x) ==
    /\ x \in Row
    /\ TerminalRow(x)
    /\ AnswerRow(x)
    /\ CheckpointRow(x)
    /\ OwnedRow(x)
    /\ AbsentRow(x)

\* What every transaction but a reservation keeps of the rows it writes.
Kept(x, y) ==
    /\ y.session = x.session
    /\ y.mode = x.mode
    /\ y.parent = x.parent
    /\ y.queue \in QueueActive => x.queue \in QueueActive
    /\ x.status \in RunTerminal =>
           /\ y.status = x.status
           /\ y.queue = x.queue
           /\ y.gen = x.gen
           /\ y.owner = x.owner
           /\ y.request = x.request
           /\ y.effect = x.effect

\* A claim is lost for good: a later row verifies only a newer generation, or
\* the one that this row verifies.
Fenced(x, y) ==
    /\ x.gen <= y.gen
    /\ y.gen = x.gen /\ y.owner # None /\ y.live => x.owner # None /\ x.live

\* A settled answer stays, or is consumed under the claim that verifies.
AnswerKept(x, y) ==
    x.request = "settled" =>
        \/ y.request = "settled"
        \/ /\ y.request = "consumed"
           /\ x.status = "running" /\ x.open
           /\ Holds(x, x.gen)

\* What one transaction does to the rows x of its run, leaving y.
RowStep(x, y) ==
    /\ Good(y)
    /\ Kept(x, y)
    /\ Fenced(x, y)
    /\ AnswerKept(x, y)

\* A transaction on run r: every other run keeps its rows.
Step(r) ==
    /\ run' = [run EXCEPT ![r] = run'[r]]
    /\ RowStep(run[r], run'[r])

-----------------------------------------------------------------------------
(* One row.                                                                *)

(* A transaction that writes good rows for one run is a good step.         *)
LEMMA UpdateStep ==
    ASSUME TypeOK, NEW r \in Runs, NEW y, Update(r, y), RowStep(run[r], y)
    PROVE  Step(r)
BY DEF TypeOK, Update, Step

(* The literals the transactions write are values of their columns.         *)
LEMMA Columns ==
    /\ {"none", "queued", "running", "waiting"} \subseteq RunStatus
    /\ RunTerminal \subseteq RunStatus
    /\ {"queued", "starting", "running", "parked"} \subseteq QueueStatus
    /\ {"none", "done", "failed", "cancelled"} \subseteq QueueStatus
    /\ {"none", "runnerNoProgress"} \subseteq QueueError
    /\ {"effectAmbiguous", "other"} \subseteq QueueError
    /\ {"none", "pending", "settled"} \subseteq RequestStatus
    /\ {"consumed", "cancelled"} \subseteq RequestStatus
    /\ {"none", "validating"} \subseteq SubmissionStatus
    /\ {"accepted", "rejected"} \subseteq SubmissionStatus
    /\ {"none", "applying", "ambiguous"} \subseteq EffectStatus
    /\ {"interactive", "headless"} \subseteq Mode
    /\ {"agent", "checkpoint"} \subseteq Kind
BY DEF RunStatus, QueueStatus, QueueActive, QueueTerminal, QueueError,
       RequestStatus, SubmissionStatus, EffectStatus, Mode, Kind

(* Closing a request writes values of the columns.                         *)
LEMMA CancelRequestRow ==
    ASSUME NEW x \in Row  PROVE CancelRequest(x) \in Row
BY Columns DEF Row, CancelRequest

(* Rejecting a validating submission writes a value of its column.         *)
LEMMA RejectValidatingRow ==
    ASSUME NEW x \in Row  PROVE RejectValidating(x) \in Row
BY Columns DEF Row, RejectValidating

(* terminalRun(.., "failed") writes values of the columns.                 *)
LEMMA FailedRow ==
    ASSUME NEW x \in Row  PROVE Failed(x) \in Row
<1> DEFINE y == [Released(x) EXCEPT !.status = "failed", !.paused = FALSE,
                                    !.queue = "failed", !.error = "other"]
<1>1. y \in Row
  BY Columns DEF Row, Released, RunTerminal
<1> QED
  BY <1>1, CancelRequestRow DEF Failed

(* terminalRun(.., "cancelled") writes values of the columns.              *)
LEMMA CancelledRow ==
    ASSUME NEW x \in Row  PROVE Cancelled(x) \in Row
<1> DEFINE y == [Released(x) EXCEPT !.status = "cancelled", !.paused = FALSE,
                     !.queue = "cancelled", !.error = "other",
                     !.effect = IF @ = "applying" THEN "ambiguous" ELSE @]
<1>1. y \in Row
  BY Columns DEF Row, Released, RunTerminal
<1>2. RejectValidating(y) \in Row
  BY <1>1, RejectValidatingRow
<1> QED
  BY <1>2, CancelRequestRow DEF Cancelled

(* Only the claim of a run that is queued, starting, running or parked can *)
(* verify (verifyWorkflowRunClaim), so every guarded write finds it so.    *)
LEMMA HeldRow ==
    ASSUME NEW x, Good(x), NEW g, Holds(x, g)
    PROVE  /\ x.owner # None /\ x.live /\ x.gen = g
           /\ x.queue \in QueueActive
           /\ x.status \notin RunTerminal
BY DEF Good, Holds, OwnedRow, TerminalRow, QueueActive, QueueTerminal

(* What is left to show of a write that keeps the run active.              *)
LEMMA OpenRow ==
    ASSUME NEW x, NEW y, Good(x), x.queue \in QueueActive,
           y \in Row, y.queue \in QueueActive, y.status \notin RunTerminal,
           y.session = x.session, y.mode = x.mode, y.parent = x.parent,
           AnswerRow(y), CheckpointRow(y), Fenced(x, y), AnswerKept(x, y)
    PROVE  RowStep(x, y)
BY DEF Good, RowStep, Kept, TerminalRow, OwnedRow, AbsentRow, RunTerminal,
       QueueActive, QueueTerminal

(* What is left to show of a write that ends the run.                      *)
LEMMA EndRow ==
    ASSUME NEW x, NEW y, Good(x), x.queue \in QueueActive,
           y \in Row, TerminalRow(y), y.status \in RunTerminal,
           y.session = x.session, y.mode = x.mode, y.parent = x.parent,
           AnswerRow(y), CheckpointRow(y), x.gen <= y.gen, AnswerKept(x, y)
    PROVE  RowStep(x, y)
BY DEF Good, RowStep, Kept, TerminalRow, OwnedRow, AbsentRow, RunTerminal,
       QueueActive, QueueTerminal, Fenced

(* What is left to show of a write that leaves the run's outcome alone.     *)
LEMMA SameRow ==
    ASSUME NEW x, NEW y, Good(x), y \in Row,
           y.status = x.status, y.queue = x.queue, y.gen = x.gen,
           y.owner = x.owner, y.request = x.request, y.effect = x.effect,
           y.open = x.open, y.kind = x.kind,
           y.session = x.session, y.mode = x.mode, y.parent = x.parent,
           y.live => x.live,
           \/ y.submission = x.submission
           \/ Pending(x) /\ x.kind = "agent" /\ y.submission = "validating"
    PROVE  RowStep(x, y)
<1>1. TerminalRow(y) /\ OwnedRow(y) /\ CheckpointRow(y)
  BY DEF Good, TerminalRow, OwnedRow, CheckpointRow, Pending
<1>2. AnswerRow(y) /\ AbsentRow(y)
  BY DEF Good, AnswerRow, AbsentRow, Pending, Nonterminal
<1>3. x.gen \in Nat
  BY RunStoreAssumption DEF Good, Row
<1>4. Kept(x, y) /\ Fenced(x, y) /\ AnswerKept(x, y)
  BY <1>3 DEF Kept, Fenced, AnswerKept
<1> QED
  BY <1>1, <1>2, <1>4 DEF RowStep, Good

-----------------------------------------------------------------------------
(* The transactions of a claim holder and the commits of its runner.       *)
LEMMA HeldStep ==
    ASSUME TypeOK, NEW r \in Runs, Good(run[r]), Held(r)
    PROVE  Step(r)
<1> DEFINE x == run[r]
<1>1. PICK g \in 0 .. x.gen :
        \/ MarkRunning(r, g)
        \/ Park(r, g)
        \/ ParkNoProgress(r, g)
        \/ ParkAmbiguous(r, g)
        \/ InteractionTimeout(r, g)
        \/ PauseActive(r, g)
        \/ Fail(r, g)
        \/ CancelHeld(r, g)
        \/ Initialize(r, g)
        \/ RunStarted(r, g)
        \/ RunResumed(r, g)
        \/ AnswerResume(r, g)
        \/ AcceptSubmission(r, g)
        \/ RejectSubmission(r, g)
        \/ ConsumeAnswer(r, g)
        \/ EndAttempt(r, g)
        \/ RequestInteraction(r, g)
        \/ WaitForInput(r, g)
        \/ ReserveEffect(r, g)
        \/ \E outcome \in {"none", "ambiguous"} : SettleEffect(r, g, outcome)
        \/ \E s \in RunTerminal : FinishRun(r, g, s)
        \/ DecisionTimeout(r, g)
  BY DEF Held
<1>2. x \in Row /\ AnswerRow(x) /\ CheckpointRow(x)
  BY DEF Good
<1>3. /\ Holds(x, g) => /\ x.owner # None /\ x.live /\ x.gen = g
                      /\ x.queue \in QueueActive
                      /\ x.status \notin RunTerminal
  BY HeldRow
<1>4. x.gen \in Nat
  BY <1>2, RunStoreAssumption DEF Row
<1> HIDE DEF x
<1>5. CASE MarkRunning(r, g)
  <2> DEFINE y == [x EXCEPT !.queue = "running"]
  <2>1. Update(r, y) /\ Holds(x, g)
    BY <1>5 DEF MarkRunning, x
  <2>2. y \in Row
    BY <1>2, Columns DEF Row
  <2>3. AnswerRow(y) /\ CheckpointRow(y)
    BY <1>2, <1>3, <2>1 DEF Row, AnswerRow, CheckpointRow, Pending,
          Nonterminal, QueueActive
  <2>4. Fenced(x, y) /\ AnswerKept(x, y)
    BY <1>2, <1>3, <1>4, <2>1 DEF Row, Fenced, AnswerKept, Pending, Holds
  <2>5. /\ y.queue \in QueueActive /\ y.status \notin RunTerminal
        /\ y.session = x.session /\ y.mode = x.mode /\ y.parent = x.parent
    BY <1>2, <1>3, <2>1 DEF Row, QueueActive, RunTerminal
  <2>6. RowStep(x, y)
    BY <1>3, <2>1, <2>2, <2>3, <2>4, <2>5, OpenRow DEF x
  <2> QED
    BY <2>1, <2>6, UpdateStep DEF x
<1>6. CASE Park(r, g)
  <2> DEFINE y == Parked(x)
  <2>1. Update(r, y) /\ Holds(x, g)
    BY <1>6 DEF Park, x
  <2>2. y \in Row
    BY <1>2, Columns DEF Row, Parked, Released
  <2>3. AnswerRow(y) /\ CheckpointRow(y)
    BY <1>2, <1>3, <2>1 DEF Row, AnswerRow, CheckpointRow, Pending,
          Nonterminal, QueueActive, Parked, Released
  <2>4. Fenced(x, y) /\ AnswerKept(x, y)
    BY <1>2, <1>3, <1>4, <2>1 DEF Row, Fenced, AnswerKept, Pending, Holds,
          Parked, Released
  <2>5. /\ y.queue \in QueueActive /\ y.status \notin RunTerminal
        /\ y.session = x.session /\ y.mode = x.mode /\ y.parent = x.parent
    BY <1>2, <1>3, <2>1 DEF Row, QueueActive, RunTerminal, Parked, Released
  <2>6. RowStep(x, y)
    BY <1>3, <2>1, <2>2, <2>3, <2>4, <2>5, OpenRow DEF x
  <2> QED
    BY <2>1, <2>6, UpdateStep DEF x
<1>7. CASE ParkNoProgress(r, g)
  <2> DEFINE y == [Parked(x) EXCEPT !.error = "runnerNoProgress"]
  <2>1. Update(r, y) /\ Holds(x, g)
    BY <1>7 DEF ParkNoProgress, x
  <2>2. y \in Row
    BY <1>2, Columns DEF Row, Parked, Released
  <2>3. AnswerRow(y) /\ CheckpointRow(y)
    BY <1>2, <1>3, <2>1 DEF Row, AnswerRow, CheckpointRow, Pending,
          Nonterminal, QueueActive, Parked, Released
  <2>4. Fenced(x, y) /\ AnswerKept(x, y)
    BY <1>2, <1>3, <1>4, <2>1 DEF Row, Fenced, AnswerKept, Pending, Holds,
          Parked, Released
  <2>5. /\ y.queue \in QueueActive /\ y.status \notin RunTerminal
        /\ y.session = x.session /\ y.mode = x.mode /\ y.parent = x.parent
    BY <1>2, <1>3, <2>1 DEF Row, QueueActive, RunTerminal, Parked, Released
  <2>6. RowStep(x, y)
    BY <1>3, <2>1, <2>2, <2>3, <2>4, <2>5, OpenRow DEF x
  <2> QED
    BY <2>1, <2>6, UpdateStep DEF x
<1>8. CASE ParkAmbiguous(r, g)
  <2> DEFINE y == [Parked(x) EXCEPT !.status = "waiting",
                                       !.error = "effectAmbiguous"]
  <2>1. /\ Update(r, y) /\ Holds(x, g)
        /\ x.status = "running"
    BY <1>8 DEF ParkAmbiguous, x
  <2>2. y \in Row
    BY <1>2, Columns DEF Row, Parked, Released
  <2>3. AnswerRow(y) /\ CheckpointRow(y)
    BY <1>2, <1>3, <2>1 DEF Row, AnswerRow, CheckpointRow, Pending,
          Nonterminal, QueueActive, Parked, Released
  <2>4. Fenced(x, y) /\ AnswerKept(x, y)
    BY <1>2, <1>3, <1>4, <2>1 DEF Row, Fenced, AnswerKept, Pending, Holds,
          Parked, Released
  <2>5. /\ y.queue \in QueueActive /\ y.status \notin RunTerminal
        /\ y.session = x.session /\ y.mode = x.mode /\ y.parent = x.parent
    BY <1>2, <1>3, <2>1 DEF Row, QueueActive, RunTerminal, Parked, Released
  <2>6. RowStep(x, y)
    BY <1>3, <2>1, <2>2, <2>3, <2>4, <2>5, OpenRow DEF x
  <2> QED
    BY <2>1, <2>6, UpdateStep DEF x
<1>9. CASE InteractionTimeout(r, g)
  <2> DEFINE y == RejectValidating([x EXCEPT !.request = "cancelled",
              !.status = "running", !.queue = "starting", !.error = "none"])
  <2>1. /\ Update(r, y) /\ Holds(x, g)
        /\ Pending(x) /\ x.kind = "agent"
    BY <1>9 DEF InteractionTimeout, x
  <2>2. y \in Row
    BY <1>2, Columns DEF Row, RejectValidating
  <2>3. AnswerRow(y) /\ CheckpointRow(y)
    BY <1>2, <1>3, <2>1 DEF Row, AnswerRow, CheckpointRow, Pending,
          Nonterminal, QueueActive, RejectValidating
  <2>4. Fenced(x, y) /\ AnswerKept(x, y)
    BY <1>2, <1>3, <1>4, <2>1 DEF Row, Fenced, AnswerKept, Pending, Holds,
          RejectValidating
  <2>5. /\ y.queue \in QueueActive /\ y.status \notin RunTerminal
        /\ y.session = x.session /\ y.mode = x.mode /\ y.parent = x.parent
    BY <1>2, <1>3, <2>1 DEF Row, QueueActive, RunTerminal, RejectValidating
  <2>6. RowStep(x, y)
    BY <1>3, <2>1, <2>2, <2>3, <2>4, <2>5, OpenRow DEF x
  <2> QED
    BY <2>1, <2>6, UpdateStep DEF x
<1>10. CASE PauseActive(r, g)
  <2> DEFINE y == Parked([x EXCEPT !.paused = TRUE])
  <2>1. Update(r, y) /\ Holds(x, g)
    BY <1>10 DEF PauseActive, x
  <2>2. y \in Row
    BY <1>2, Columns DEF Row, Parked, Released
  <2>3. AnswerRow(y) /\ CheckpointRow(y)
    BY <1>2, <1>3, <2>1 DEF Row, AnswerRow, CheckpointRow, Pending,
          Nonterminal, QueueActive, Parked, Released
  <2>4. Fenced(x, y) /\ AnswerKept(x, y)
    BY <1>2, <1>3, <1>4, <2>1 DEF Row, Fenced, AnswerKept, Pending, Holds,
          Parked, Released
  <2>5. /\ y.queue \in QueueActive /\ y.status \notin RunTerminal
        /\ y.session = x.session /\ y.mode = x.mode /\ y.parent = x.parent
    BY <1>2, <1>3, <2>1 DEF Row, QueueActive, RunTerminal, Parked, Released
  <2>6. RowStep(x, y)
    BY <1>3, <2>1, <2>2, <2>3, <2>4, <2>5, OpenRow DEF x
  <2> QED
    BY <2>1, <2>6, UpdateStep DEF x
<1>11. CASE Fail(r, g)
  <2> DEFINE y == Failed(x)
  <2>1. Update(r, y) /\ Holds(x, g)
    BY <1>11 DEF Fail, x
  <2>2. y \in Row
    BY <1>2, FailedRow
  <2>3. TerminalRow(y) /\ y.status \in RunTerminal
    BY <1>2, <1>3, <2>1 DEF Row, TerminalRow, RunTerminal, QueueTerminal,
          Pending, Failed, CancelRequest, Released
  <2>4. AnswerRow(y) /\ CheckpointRow(y) /\ AnswerKept(x, y)
    BY <1>2, <1>3, <2>1 DEF Row, AnswerRow, CheckpointRow, AnswerKept,
          Nonterminal, Pending, QueueActive, QueueTerminal, Failed,
          CancelRequest, Released
  <2>5. /\ x.gen <= y.gen
        /\ y.session = x.session /\ y.mode = x.mode /\ y.parent = x.parent
    BY <1>2, <1>4 DEF Row, Pending, Failed, CancelRequest, Released
  <2>6. RowStep(x, y)
    BY <1>3, <2>1, <2>2, <2>3, <2>4, <2>5, EndRow DEF x
  <2> QED
    BY <2>1, <2>6, UpdateStep DEF x
<1>12. CASE CancelHeld(r, g)
  <2> DEFINE y == Cancelled(x)
  <2>1. Update(r, y) /\ Holds(x, g)
    BY <1>12 DEF CancelHeld, x
  <2>2. y \in Row
    BY <1>2, CancelledRow
  <2>3. TerminalRow(y) /\ y.status \in RunTerminal
    BY <1>2, <1>3, <2>1 DEF Row, TerminalRow, RunTerminal, QueueTerminal,
          Pending, Cancelled, CancelRequest, RejectValidating, Released
  <2>4. AnswerRow(y) /\ CheckpointRow(y) /\ AnswerKept(x, y)
    BY <1>2, <1>3, <2>1 DEF Row, AnswerRow, CheckpointRow, AnswerKept,
          Nonterminal, Pending, QueueActive, QueueTerminal, Cancelled,
          CancelRequest, RejectValidating, Released
  <2>5. /\ x.gen <= y.gen
        /\ y.session = x.session /\ y.mode = x.mode /\ y.parent = x.parent
    BY <1>2, <1>4 DEF Row, Pending, Cancelled, CancelRequest,
          RejectValidating, Released
  <2>6. RowStep(x, y)
    BY <1>3, <2>1, <2>2, <2>3, <2>4, <2>5, EndRow DEF x
  <2> QED
    BY <2>1, <2>6, UpdateStep DEF x
<1>13. CASE Initialize(r, g)
  <2> DEFINE y == [x EXCEPT !.status = "running"]
  <2>1. /\ Update(r, y) /\ Holds(x, g)
        /\ x.status = "queued"
    BY <1>13 DEF Initialize, x
  <2>2. y \in Row
    BY <1>2, Columns DEF Row
  <2>3. AnswerRow(y) /\ CheckpointRow(y)
    BY <1>2, <1>3, <2>1 DEF Row, AnswerRow, CheckpointRow, Pending,
          Nonterminal, QueueActive
  <2>4. Fenced(x, y) /\ AnswerKept(x, y)
    BY <1>2, <1>3, <1>4, <2>1 DEF Row, Fenced, AnswerKept, Pending, Holds
  <2>5. /\ y.queue \in QueueActive /\ y.status \notin RunTerminal
        /\ y.session = x.session /\ y.mode = x.mode /\ y.parent = x.parent
    BY <1>2, <1>3, <2>1 DEF Row, QueueActive, RunTerminal
  <2>6. RowStep(x, y)
    BY <1>3, <2>1, <2>2, <2>3, <2>4, <2>5, OpenRow DEF x
  <2> QED
    BY <2>1, <2>6, UpdateStep DEF x
<1>14. CASE RunStarted(r, g)
  <2> DEFINE y == StartQueue(x)
  <2>1. Update(r, y) /\ Holds(x, g)
    BY <1>14 DEF RunStarted, x
  <2>2. y \in Row
    BY <1>2, Columns DEF Row, StartQueue
  <2>3. AnswerRow(y) /\ CheckpointRow(y)
    BY <1>2, <1>3, <2>1 DEF Row, AnswerRow, CheckpointRow, Pending,
          Nonterminal, QueueActive, StartQueue
  <2>4. Fenced(x, y) /\ AnswerKept(x, y)
    BY <1>2, <1>3, <1>4, <2>1 DEF Row, Fenced, AnswerKept, Pending, Holds,
          StartQueue
  <2>5. /\ y.queue \in QueueActive /\ y.status \notin RunTerminal
        /\ y.session = x.session /\ y.mode = x.mode /\ y.parent = x.parent
    BY <1>2, <1>3, <2>1 DEF Row, QueueActive, RunTerminal, StartQueue
  <2>6. RowStep(x, y)
    BY <1>3, <2>1, <2>2, <2>3, <2>4, <2>5, OpenRow DEF x
  <2> QED
    BY <2>1, <2>6, UpdateStep DEF x
<1>15. CASE RunResumed(r, g)
  <2> DEFINE y == StartQueue([x EXCEPT !.paused = FALSE])
  <2>1. Update(r, y) /\ Holds(x, g)
    BY <1>15 DEF RunResumed, x
  <2>2. y \in Row
    BY <1>2, Columns DEF Row, StartQueue
  <2>3. AnswerRow(y) /\ CheckpointRow(y)
    BY <1>2, <1>3, <2>1 DEF Row, AnswerRow, CheckpointRow, Pending,
          Nonterminal, QueueActive, StartQueue
  <2>4. Fenced(x, y) /\ AnswerKept(x, y)
    BY <1>2, <1>3, <1>4, <2>1 DEF Row, Fenced, AnswerKept, Pending, Holds,
          StartQueue
  <2>5. /\ y.queue \in QueueActive /\ y.status \notin RunTerminal
        /\ y.session = x.session /\ y.mode = x.mode /\ y.parent = x.parent
    BY <1>2, <1>3, <2>1 DEF Row, QueueActive, RunTerminal, StartQueue
  <2>6. RowStep(x, y)
    BY <1>3, <2>1, <2>2, <2>3, <2>4, <2>5, OpenRow DEF x
  <2> QED
    BY <2>1, <2>6, UpdateStep DEF x
<1>16. CASE AnswerResume(r, g)
  <2> DEFINE y == [x EXCEPT !.status = "running"]
  <2>1. /\ Update(r, y) /\ Holds(x, g)
        /\ \/ x.request = "settled"
           \/ x.submission = "validating"
    BY <1>16 DEF AnswerResume, x
  <2>2. y \in Row
    BY <1>2, Columns DEF Row
  <2>3. AnswerRow(y) /\ CheckpointRow(y)
    BY <1>2, <1>3, <2>1 DEF Row, AnswerRow, CheckpointRow, Pending,
          Nonterminal, QueueActive
  <2>4. Fenced(x, y) /\ AnswerKept(x, y)
    BY <1>2, <1>3, <1>4, <2>1 DEF Row, Fenced, AnswerKept, Pending, Holds
  <2>5. /\ y.queue \in QueueActive /\ y.status \notin RunTerminal
        /\ y.session = x.session /\ y.mode = x.mode /\ y.parent = x.parent
    BY <1>2, <1>3, <2>1 DEF Row, QueueActive, RunTerminal
  <2>6. RowStep(x, y)
    BY <1>3, <2>1, <2>2, <2>3, <2>4, <2>5, OpenRow DEF x
  <2> QED
    BY <2>1, <2>6, UpdateStep DEF x
<1>17. CASE AcceptSubmission(r, g)
  <2> DEFINE y == Settled(x)
  <2>1. /\ Update(r, y) /\ Holds(x, g)
        /\ Pending(x) /\ x.submission = "validating" /\ x.open
    BY <1>17 DEF AcceptSubmission, x
  <2>2. y \in Row
    BY <1>2, Columns DEF Row, Settled
  <2>3. AnswerRow(y) /\ CheckpointRow(y)
    BY <1>2, <1>3, <2>1 DEF Row, AnswerRow, CheckpointRow, Pending,
          Nonterminal, QueueActive, Settled
  <2>4. Fenced(x, y) /\ AnswerKept(x, y)
    BY <1>2, <1>3, <1>4, <2>1 DEF Row, Fenced, AnswerKept, Pending, Holds,
          Settled
  <2>5. /\ y.queue \in QueueActive /\ y.status \notin RunTerminal
        /\ y.session = x.session /\ y.mode = x.mode /\ y.parent = x.parent
    BY <1>2, <1>3, <2>1 DEF Row, QueueActive, RunTerminal, Settled
  <2>6. RowStep(x, y)
    BY <1>3, <2>1, <2>2, <2>3, <2>4, <2>5, OpenRow DEF x
  <2> QED
    BY <2>1, <2>6, UpdateStep DEF x
<1>18. CASE RejectSubmission(r, g)
  <2> DEFINE y == Parked([x EXCEPT !.submission = "rejected",
                       !.status = IF @ = "running" THEN "waiting" ELSE @])
  <2>1. /\ Update(r, y) /\ Holds(x, g)
        /\ Pending(x) /\ x.submission = "validating"
    BY <1>18 DEF RejectSubmission, x
  <2>2. y \in Row
    BY <1>2, Columns DEF Row, Parked, Released
  <2>3. AnswerRow(y) /\ CheckpointRow(y)
    BY <1>2, <1>3, <2>1 DEF Row, AnswerRow, CheckpointRow, Pending,
          Nonterminal, QueueActive, Parked, Released
  <2>4. Fenced(x, y) /\ AnswerKept(x, y)
    BY <1>2, <1>3, <1>4, <2>1 DEF Row, Fenced, AnswerKept, Pending, Holds,
          Parked, Released
  <2>5. /\ y.queue \in QueueActive /\ y.status \notin RunTerminal
        /\ y.session = x.session /\ y.mode = x.mode /\ y.parent = x.parent
    BY <1>2, <1>3, <2>1 DEF Row, QueueActive, RunTerminal, Parked, Released
  <2>6. RowStep(x, y)
    BY <1>3, <2>1, <2>2, <2>3, <2>4, <2>5, OpenRow DEF x
  <2> QED
    BY <2>1, <2>6, UpdateStep DEF x
<1>19. CASE ConsumeAnswer(r, g)
  <2> DEFINE y == [x EXCEPT !.request = "consumed", !.open = FALSE]
  <2>1. /\ Update(r, y) /\ Holds(x, g)
        /\ x.status = "running" /\ x.open /\ x.request = "settled"
    BY <1>19 DEF ConsumeAnswer, x
  <2>2. y \in Row
    BY <1>2, Columns DEF Row
  <2>3. AnswerRow(y) /\ CheckpointRow(y)
    BY <1>2, <1>3, <2>1 DEF Row, AnswerRow, CheckpointRow, Pending,
          Nonterminal, QueueActive
  <2>4. Fenced(x, y) /\ AnswerKept(x, y)
    BY <1>2, <1>3, <1>4, <2>1 DEF Row, Fenced, AnswerKept, Pending, Holds
  <2>5. /\ y.queue \in QueueActive /\ y.status \notin RunTerminal
        /\ y.session = x.session /\ y.mode = x.mode /\ y.parent = x.parent
    BY <1>2, <1>3, <2>1 DEF Row, QueueActive, RunTerminal
  <2>6. RowStep(x, y)
    BY <1>3, <2>1, <2>2, <2>3, <2>4, <2>5, OpenRow DEF x
  <2> QED
    BY <2>1, <2>6, UpdateStep DEF x
<1>20. CASE EndAttempt(r, g)
  <2> DEFINE y == [x EXCEPT !.open = FALSE]
  <2>1. /\ Update(r, y) /\ Holds(x, g)
        /\ x.status = "running" /\ x.request \in {"pending", "cancelled"}
    BY <1>20 DEF EndAttempt, x
  <2>2. y \in Row
    BY <1>2, Columns DEF Row
  <2>3. AnswerRow(y) /\ CheckpointRow(y)
    BY <1>2, <1>3, <2>1 DEF Row, AnswerRow, CheckpointRow, Pending,
          Nonterminal, QueueActive
  <2>4. Fenced(x, y) /\ AnswerKept(x, y)
    BY <1>2, <1>3, <1>4, <2>1 DEF Row, Fenced, AnswerKept, Pending, Holds
  <2>5. /\ y.queue \in QueueActive /\ y.status \notin RunTerminal
        /\ y.session = x.session /\ y.mode = x.mode /\ y.parent = x.parent
    BY <1>2, <1>3, <2>1 DEF Row, QueueActive, RunTerminal
  <2>6. RowStep(x, y)
    BY <1>3, <2>1, <2>2, <2>3, <2>4, <2>5, OpenRow DEF x
  <2> QED
    BY <2>1, <2>6, UpdateStep DEF x
<1>21. CASE RequestInteraction(r, g)
  <2> DEFINE y == NewRequest(x, "agent")
  <2>1. /\ Update(r, y) /\ Holds(x, g)
        /\ x.status = "running" /\ ~x.open /\ ~Pending(x)
    BY <1>21 DEF RequestInteraction, CanRequest, x
  <2>2. y \in Row
    BY <1>2, Columns DEF Row, NewRequest, Parked, Released
  <2>3. AnswerRow(y) /\ CheckpointRow(y)
    BY <1>2, <1>3, <2>1 DEF Row, AnswerRow, CheckpointRow, Pending,
          Nonterminal, QueueActive, NewRequest, Parked, Released
  <2>4. Fenced(x, y) /\ AnswerKept(x, y)
    BY <1>2, <1>3, <1>4, <2>1 DEF Row, Fenced, AnswerKept, Pending, Holds,
          AnswerRow, Nonterminal, NewRequest, Parked, Released
  <2>5. /\ y.queue \in QueueActive /\ y.status \notin RunTerminal
        /\ y.session = x.session /\ y.mode = x.mode /\ y.parent = x.parent
    BY <1>2, <1>3, <2>1 DEF Row, QueueActive, RunTerminal, NewRequest,
          Parked, Released
  <2>6. RowStep(x, y)
    BY <1>3, <2>1, <2>2, <2>3, <2>4, <2>5, OpenRow DEF x
  <2> QED
    BY <2>1, <2>6, UpdateStep DEF x
<1>22. CASE WaitForInput(r, g)
  <2> DEFINE y == [NewRequest(x, "checkpoint") EXCEPT !.error = "none"]
  <2>1. /\ Update(r, y) /\ Holds(x, g)
        /\ x.status = "running" /\ ~x.open /\ ~Pending(x)
    BY <1>22 DEF WaitForInput, CanRequest, x
  <2>2. y \in Row
    BY <1>2, Columns DEF Row, NewRequest, Parked, Released
  <2>3. AnswerRow(y) /\ CheckpointRow(y)
    BY <1>2, <1>3, <2>1 DEF Row, AnswerRow, CheckpointRow, Pending,
          Nonterminal, QueueActive, NewRequest, Parked, Released
  <2>4. Fenced(x, y) /\ AnswerKept(x, y)
    BY <1>2, <1>3, <1>4, <2>1 DEF Row, Fenced, AnswerKept, Pending, Holds,
          AnswerRow, Nonterminal, NewRequest, Parked, Released
  <2>5. /\ y.queue \in QueueActive /\ y.status \notin RunTerminal
        /\ y.session = x.session /\ y.mode = x.mode /\ y.parent = x.parent
    BY <1>2, <1>3, <2>1 DEF Row, QueueActive, RunTerminal, NewRequest,
          Parked, Released
  <2>6. RowStep(x, y)
    BY <1>3, <2>1, <2>2, <2>3, <2>4, <2>5, OpenRow DEF x
  <2> QED
    BY <2>1, <2>6, UpdateStep DEF x
<1>23. CASE ReserveEffect(r, g)
  <2> DEFINE y == [x EXCEPT !.effect = "applying"]
  <2>1. Update(r, y) /\ Holds(x, g)
    BY <1>23 DEF ReserveEffect, x
  <2>2. y \in Row
    BY <1>2, Columns DEF Row
  <2>3. AnswerRow(y) /\ CheckpointRow(y)
    BY <1>2, <1>3, <2>1 DEF Row, AnswerRow, CheckpointRow, Pending,
          Nonterminal, QueueActive
  <2>4. Fenced(x, y) /\ AnswerKept(x, y)
    BY <1>2, <1>3, <1>4, <2>1 DEF Row, Fenced, AnswerKept, Pending, Holds
  <2>5. /\ y.queue \in QueueActive /\ y.status \notin RunTerminal
        /\ y.session = x.session /\ y.mode = x.mode /\ y.parent = x.parent
    BY <1>2, <1>3, <2>1 DEF Row, QueueActive, RunTerminal
  <2>6. RowStep(x, y)
    BY <1>3, <2>1, <2>2, <2>3, <2>4, <2>5, OpenRow DEF x
  <2> QED
    BY <2>1, <2>6, UpdateStep DEF x
<1>24. CASE \E outcome \in {"none", "ambiguous"} : SettleEffect(r, g, outcome)
  <2>0. PICK outcome \in {"none", "ambiguous"} : SettleEffect(r, g, outcome)
    BY <1>24
  <2> DEFINE y == [x EXCEPT !.effect = outcome]
  <2>1. Update(r, y) /\ Holds(x, g)
    BY <2>0 DEF SettleEffect, x
  <2>2. y \in Row
    BY <1>2, <2>0, Columns DEF Row
  <2>3. AnswerRow(y) /\ CheckpointRow(y)
    BY <1>2, <1>3, <2>1 DEF Row, AnswerRow, CheckpointRow, Pending,
          Nonterminal, QueueActive
  <2>4. Fenced(x, y) /\ AnswerKept(x, y)
    BY <1>2, <1>3, <1>4, <2>1 DEF Row, Fenced, AnswerKept, Pending, Holds
  <2>5. /\ y.queue \in QueueActive /\ y.status \notin RunTerminal
        /\ y.session = x.session /\ y.mode = x.mode /\ y.parent = x.parent
    BY <1>2, <1>3, <2>1 DEF Row, QueueActive, RunTerminal
  <2>6. RowStep(x, y)
    BY <1>3, <2>1, <2>2, <2>3, <2>4, <2>5, OpenRow DEF x
  <2> QED
    BY <2>1, <2>6, UpdateStep DEF x
<1>25. CASE \E s \in RunTerminal : FinishRun(r, g, s)
  <2>0. PICK s \in RunTerminal : FinishRun(r, g, s)
    BY <1>25
  <2> DEFINE y == Released([x EXCEPT !.status = s, !.queue = QueueOf(s),
                    !.error = IF s = "completed" THEN "none" ELSE "other",
                    !.open = FALSE])
  <2>1. /\ Update(r, y) /\ Holds(x, g)
        /\ x.status = "running"
    BY <2>0 DEF FinishRun, x
  <2>2. /\ s \in RunStatus
        /\ QueueOf(s) \in QueueTerminal /\ QueueOf(s) \in QueueStatus
    BY <2>0, Columns DEF RunTerminal, QueueTerminal, QueueOf
  <2>3. y \in Row
    BY <1>2, <2>2, Columns DEF Row, Released
  <2>4. TerminalRow(y) /\ y.status \in RunTerminal
    BY <1>2, <2>0, <2>2 DEF Row, TerminalRow, RunTerminal, QueueTerminal,
          QueueOf, Released
  <2>5. AnswerRow(y) /\ CheckpointRow(y) /\ AnswerKept(x, y)
    BY <1>2, <1>3, <2>1, <2>2 DEF Row, AnswerRow, CheckpointRow, AnswerKept,
          Nonterminal, Pending, QueueActive, QueueTerminal, Released
  <2>6. /\ x.gen <= y.gen
        /\ y.session = x.session /\ y.mode = x.mode /\ y.parent = x.parent
    BY <1>2, <1>4 DEF Row, Released
  <2>7. RowStep(x, y)
    BY <1>3, <2>1, <2>3, <2>4, <2>5, <2>6, EndRow DEF x
  <2> QED
    BY <2>1, <2>7, UpdateStep DEF x
<1>26. CASE DecisionTimeout(r, g)
  <2> DEFINE y == Parked(Settled(x))
  <2>1. /\ Update(r, y) /\ Holds(x, g)
        /\ Pending(x) /\ x.kind = "checkpoint"
    BY <1>26 DEF DecisionTimeout, x
  <2>2. y \in Row
    BY <1>2, Columns DEF Row, Parked, Settled, Released
  <2>3. AnswerRow(y) /\ CheckpointRow(y)
    BY <1>2, <1>3, <2>1 DEF Row, AnswerRow, CheckpointRow, Pending,
          Nonterminal, QueueActive, Parked, Settled, Released
  <2>4. Fenced(x, y) /\ AnswerKept(x, y)
    BY <1>2, <1>3, <1>4, <2>1 DEF Row, Fenced, AnswerKept, Pending, Holds,
          Parked, Settled, Released
  <2>5. /\ y.queue \in QueueActive /\ y.status \notin RunTerminal
        /\ y.session = x.session /\ y.mode = x.mode /\ y.parent = x.parent
    BY <1>2, <1>3, <2>1 DEF Row, QueueActive, RunTerminal, Parked, Settled,
          Released
  <2>6. RowStep(x, y)
    BY <1>3, <2>1, <2>2, <2>3, <2>4, <2>5, OpenRow DEF x
  <2> QED
    BY <2>1, <2>6, UpdateStep DEF x
<1> QED
  BY <1>1, <1>5, <1>6, <1>7, <1>8, <1>9, <1>10, <1>11, <1>12, <1>13, <1>14,
          <1>15, <1>16, <1>17, <1>18, <1>19, <1>20, <1>21, <1>22, <1>23,
          <1>24, <1>25, <1>26
-----------------------------------------------------------------------------
(* The transactions that need no claim and reserve no run.                 *)
LEMMA UnheldStep ==
    ASSUME TypeOK, NEW r \in Runs, Good(run[r]),
           \/ Expire(r)
           \/ PauseParked(r)
           \/ ResumePausedInteraction(r)
           \/ RequestResume(r)
           \/ CancelUnowned(r)
           \/ BeginValidation(r)
           \/ AnswerCheckpoint(r)
    PROVE  Step(r)
<1> DEFINE x == run[r]
<1>1. x \in Row /\ TerminalRow(x) /\ AnswerRow(x) /\ CheckpointRow(x)
  BY DEF Good
<1>2. x.gen \in Nat
  BY <1>1, RunStoreAssumption DEF Row
<1>3. x.queue \in QueueActive => x.status \notin RunTerminal
  BY <1>1 DEF TerminalRow, QueueActive, QueueTerminal
<1> HIDE DEF x
<1>4. CASE Expire(r)
  <2> DEFINE y == [x EXCEPT !.live = FALSE]
  <2>1. Update(r, y)
    BY <1>4 DEF Expire, x
  <2>2. y \in Row
    BY <1>1 DEF Row
  <2>3. RowStep(x, y)
    BY <1>1, <2>2, SameRow DEF Row, x
  <2> QED
    BY <2>1, <2>3, UpdateStep DEF x
<1>5. CASE PauseParked(r)
  <2> DEFINE y == [x EXCEPT !.paused = TRUE]
  <2>1. Update(r, y)
    BY <1>5 DEF PauseParked, x
  <2>2. y \in Row
    BY <1>1 DEF Row
  <2>3. RowStep(x, y)
    BY <1>1, <2>2, SameRow DEF Row, x
  <2> QED
    BY <2>1, <2>3, UpdateStep DEF x
<1>6. CASE ResumePausedInteraction(r)
  <2> DEFINE y == [x EXCEPT !.paused = FALSE]
  <2>1. Update(r, y)
    BY <1>6 DEF ResumePausedInteraction, x
  <2>2. y \in Row
    BY <1>1 DEF Row
  <2>3. RowStep(x, y)
    BY <1>1, <2>2, SameRow DEF Row, x
  <2> QED
    BY <2>1, <2>3, UpdateStep DEF x
<1>7. CASE RequestResume(r)
  <2> DEFINE y == [x EXCEPT !.paused = FALSE, !.queue = "queued",
                            !.error = "none"]
  <2>1. Update(r, y) /\ x.queue \in QueueActive /\ ~Pending(x)
    BY <1>7 DEF RequestResume, Nonterminal, x
  <2>2. y \in Row
    BY <1>1, Columns DEF Row
  <2>3. AnswerRow(y) /\ CheckpointRow(y)
    BY <1>1, <2>1 DEF Row, AnswerRow, CheckpointRow, Pending, Nonterminal
  <2>4. Fenced(x, y) /\ AnswerKept(x, y)
    BY <1>1, <1>2 DEF Row, Fenced, AnswerKept
  <2>5. /\ y.queue \in QueueActive /\ y.status \notin RunTerminal
        /\ y.session = x.session /\ y.mode = x.mode /\ y.parent = x.parent
    BY <1>1, <1>3, <2>1 DEF Row, QueueActive
  <2>6. RowStep(x, y)
    BY <2>1, <2>2, <2>3, <2>4, <2>5, OpenRow DEF x
  <2> QED
    BY <2>1, <2>6, UpdateStep DEF x
<1>8. CASE CancelUnowned(r)
  <2> DEFINE c == Cancelled(x)
             y == [c EXCEPT !.gen = @ + 1]
  <2>1. /\ x.queue \in QueueActive
        /\ Update(r, c) \/ (x.gen <= MaxGeneration /\ Update(r, y))
    BY <1>8 DEF CancelUnowned, Nonterminal, x
  <2>2. c \in Row
    BY <1>1, CancelledRow
  <2>3. TerminalRow(c) /\ c.status \in RunTerminal
    BY <1>1 DEF Row, TerminalRow, RunTerminal, QueueTerminal, Pending,
       Cancelled, CancelRequest, RejectValidating, Released
  <2>4. AnswerRow(c) /\ CheckpointRow(c) /\ AnswerKept(x, c)
    BY <1>1, <2>1 DEF Row, AnswerRow, CheckpointRow, AnswerKept, Nonterminal,
       Pending, QueueActive, QueueTerminal, Cancelled, CancelRequest,
       RejectValidating, Released
  <2>5. /\ x.gen = c.gen
        /\ c.session = x.session /\ c.mode = x.mode /\ c.parent = x.parent
    BY <1>1 DEF Row, Pending, Cancelled, CancelRequest, RejectValidating,
       Released
  <2> HIDE DEF c
  <2>6. CASE Update(r, c)
    <3>1. RowStep(x, c)
      BY <1>2, <2>1, <2>2, <2>3, <2>4, <2>5, EndRow DEF x
    <3> QED
      BY <2>6, <3>1, UpdateStep DEF x
  <2>7. CASE x.gen <= MaxGeneration /\ Update(r, y)
    <3>1. y \in Row
      BY <1>2, <2>2, <2>5, <2>7, RunStoreAssumption DEF Row
    <3>2. TerminalRow(y) /\ y.status \in RunTerminal
      BY <2>2, <2>3 DEF Row, TerminalRow
    <3>3. AnswerRow(y) /\ CheckpointRow(y) /\ AnswerKept(x, y)
      BY <2>2, <2>4 DEF Row, AnswerRow, CheckpointRow, AnswerKept, Pending,
         Nonterminal
    <3>4. /\ x.gen <= y.gen
          /\ y.session = x.session /\ y.mode = x.mode /\ y.parent = x.parent
      BY <1>2, <2>2, <2>5 DEF Row
    <3>5. RowStep(x, y)
      BY <2>1, <3>1, <3>2, <3>3, <3>4, EndRow DEF x
    <3> QED
      BY <2>7, <3>5, UpdateStep DEF x
  <2> QED
    BY <2>1, <2>6, <2>7
<1>9. CASE BeginValidation(r)
  <2> DEFINE y == [x EXCEPT !.submission = "validating"]
  <2>1. Update(r, y) /\ Pending(x) /\ x.kind = "agent"
    BY <1>9 DEF BeginValidation, x
  <2>2. y \in Row
    BY <1>1, Columns DEF Row
  <2>3. RowStep(x, y)
    BY <1>1, <2>1, <2>2, SameRow DEF Row, x
  <2> QED
    BY <2>1, <2>3, UpdateStep DEF x
<1>10. CASE AnswerCheckpoint(r)
  <2> DEFINE y == Settled(x)
  <2>1. Update(r, y) /\ Pending(x) /\ x.kind = "checkpoint"
    BY <1>10 DEF AnswerCheckpoint, x
  <2>2. x.queue \in QueueActive /\ x.open
    BY <1>1, <2>1 DEF CheckpointRow
  <2>3. y \in Row
    BY <1>1, Columns DEF Row, Settled
  <2>4. AnswerRow(y) /\ CheckpointRow(y)
    BY <1>1, <2>1, <2>2 DEF Row, AnswerRow, CheckpointRow, Pending, Settled
  <2>5. Fenced(x, y) /\ AnswerKept(x, y)
    BY <1>1, <1>2, <2>1 DEF Row, Fenced, AnswerKept, Pending, Settled
  <2>6. /\ y.queue \in QueueActive /\ y.status \notin RunTerminal
        /\ y.session = x.session /\ y.mode = x.mode /\ y.parent = x.parent
    BY <1>1, <1>3, <2>2 DEF Row, Settled
  <2>7. RowStep(x, y)
    BY <2>2, <2>3, <2>4, <2>5, <2>6, OpenRow DEF x
  <2> QED
    BY <2>1, <2>7, UpdateStep DEF x
<1> QED
  BY <1>4, <1>5, <1>6, <1>7, <1>8, <1>9, <1>10
-----------------------------------------------------------------------------
(* The transactions that claim: each takes a new generation.               *)
LEMMA ClaimingStep ==
    ASSUME TypeOK, NEW r \in Runs, Good(run[r]), Claiming(r)
    PROVE  Step(r)
<1> DEFINE x == run[r]
<1>1. PICK o \in Owners :
        \/ ClaimNext(r, o)
        \/ ClaimForInteractionValidation(r, o)
        \/ ClaimForControl(r, o)
        \/ PublishUpdate(r, o)
        \/ FailMissingSubmission(r, o)
  BY DEF Claiming
<1> DEFINE c == ControlClaimed(x, o)
<1>2. x \in Row /\ TerminalRow(x) /\ AnswerRow(x) /\ CheckpointRow(x)
  BY DEF Good
<1>3. x.gen \in Nat
  BY <1>2, RunStoreAssumption DEF Row
<1>4. /\ x.queue \in QueueActive /\ x.gen < MaxGeneration
  BY <1>1 DEF ClaimNext, ClaimForInteractionValidation, ClaimForControl,
     PublishUpdate, FailMissingSubmission, Schedulable, Nonterminal,
     LeaseAvailable
<1>5. x.status \notin RunTerminal
  BY <1>2, <1>4 DEF TerminalRow, QueueActive, QueueTerminal
<1> HIDE DEF x
<1>6. c \in Row
  <2>1. x.gen + 1 \in 0 .. MaxGeneration + 1 /\ o \in Owners \cup {None}
    BY <1>3, <1>4, RunStoreAssumption
  <2> QED
    BY <1>2, <2>1 DEF Row, ControlClaimed
<1>7. /\ c.gen = x.gen + 1 /\ c.status = x.status /\ c.queue = x.queue
      /\ c.session = x.session /\ c.mode = x.mode /\ c.parent = x.parent
      /\ c.request = x.request /\ c.kind = x.kind /\ c.open = x.open
      /\ c.submission = x.submission
  BY <1>2 DEF Row, ControlClaimed
<1>8. AnswerRow(c) /\ CheckpointRow(c)
  BY <1>2, <1>7 DEF AnswerRow, CheckpointRow, Pending, Nonterminal
<1> HIDE DEF c
<1>9. CASE ClaimNext(r, o) \/ ClaimForInteractionValidation(r, o)
  <2> DEFINE y == [c EXCEPT !.queue = "starting", !.error = "none"]
  <2>1. Update(r, y)
    BY <1>9 DEF ClaimNext, ClaimForInteractionValidation, Claimed, x, c
  <2>2. y \in Row
    BY <1>6, Columns DEF Row
  <2>3. AnswerRow(y) /\ CheckpointRow(y)
    BY <1>4, <1>6, <1>7, <1>8 DEF Row, AnswerRow, CheckpointRow, Pending,
       Nonterminal, QueueActive
  <2>4. Fenced(x, y) /\ AnswerKept(x, y)
    BY <1>3, <1>6, <1>7 DEF Row, Fenced, AnswerKept
  <2>5. /\ y.queue \in QueueActive /\ y.status \notin RunTerminal
        /\ y.session = x.session /\ y.mode = x.mode /\ y.parent = x.parent
    BY <1>5, <1>6, <1>7 DEF Row, QueueActive
  <2>6. RowStep(x, y)
    BY <1>4, <2>2, <2>3, <2>4, <2>5, OpenRow DEF x
  <2> QED
    BY <2>1, <2>6, UpdateStep DEF x
<1>10. CASE ClaimForControl(r, o)
  <2>1. Update(r, c)
    BY <1>10 DEF ClaimForControl, x, c
  <2>2. Fenced(x, c) /\ AnswerKept(x, c)
    BY <1>3, <1>7 DEF Fenced, AnswerKept
  <2>3. RowStep(x, c)
    BY <1>4, <1>5, <1>6, <1>7, <1>8, <2>2, OpenRow DEF x
  <2> QED
    BY <2>1, <2>3, UpdateStep DEF x
<1>11. CASE PublishUpdate(r, o)
  <2> DEFINE y == Parked(c)
  <2>1. Update(r, y)
    BY <1>11 DEF PublishUpdate, x, c
  <2>2. y \in Row
    BY <1>6, Columns DEF Row, Parked, Released
  <2>3. AnswerRow(y) /\ CheckpointRow(y)
    BY <1>4, <1>6, <1>7, <1>8 DEF Row, AnswerRow, CheckpointRow, Pending,
       Nonterminal, QueueActive, Parked, Released
  <2>4. Fenced(x, y) /\ AnswerKept(x, y)
    BY <1>3, <1>6, <1>7 DEF Row, Fenced, AnswerKept, Parked, Released
  <2>5. /\ y.queue \in QueueActive /\ y.status \notin RunTerminal
        /\ y.session = x.session /\ y.mode = x.mode /\ y.parent = x.parent
    BY <1>5, <1>6, <1>7 DEF Row, QueueActive, Parked, Released
  <2>6. RowStep(x, y)
    BY <1>4, <2>2, <2>3, <2>4, <2>5, OpenRow DEF x
  <2> QED
    BY <2>1, <2>6, UpdateStep DEF x
<1>12. CASE FailMissingSubmission(r, o)
  <2> DEFINE y == Failed(c)
  <2>1. Update(r, y) /\ Pending(x)
    BY <1>12 DEF FailMissingSubmission, x, c
  <2>2. y \in Row
    BY <1>6, FailedRow
  <2>3. TerminalRow(y) /\ y.status \in RunTerminal
    BY <1>6 DEF Row, TerminalRow, RunTerminal, QueueTerminal, Pending,
       Failed, CancelRequest, Released
  <2>4. AnswerRow(y) /\ CheckpointRow(y) /\ AnswerKept(x, y)
    BY <1>6, <1>7, <1>8, <2>1 DEF Row, AnswerRow, CheckpointRow, AnswerKept,
       Nonterminal, Pending, QueueActive, Failed, CancelRequest, Released
  <2>5. /\ x.gen <= y.gen
        /\ y.session = x.session /\ y.mode = x.mode /\ y.parent = x.parent
    BY <1>3, <1>6, <1>7 DEF Row, Pending, Failed, CancelRequest, Released
  <2>6. RowStep(x, y)
    BY <1>4, <2>2, <2>3, <2>4, <2>5, EndRow DEF x
  <2> QED
    BY <2>1, <2>6, UpdateStep DEF x
<1> QED
  BY <1>1, <1>9, <1>10, <1>11, <1>12
-----------------------------------------------------------------------------
(* All runs together.                                                      *)

\* A reservation writes the first row of one run and nothing else.
Reserving(r) ==
    /\ run[r].queue = "none"
    /\ \E s \in Sessions \cup {None}, m \in Mode, p \in Runs \cup {None} :
        /\ Update(r, QueuedRow(s, m, p))
        /\ m = "interactive" => SessionFree(s)
        /\ p # None => /\ run[p].status \in RunTerminal
                       /\ run[p].effect = "none"
                       /\ \A q \in Runs : run[q].parent # p

(* A reserved row is good.                                                 *)
LEMMA QueuedGood ==
    ASSUME NEW s \in Sessions \cup {None}, NEW m \in Mode,
           NEW p \in Runs \cup {None}
    PROVE  Good(QueuedRow(s, m, p))
<1> DEFINE y == QueuedRow(s, m, p)
<1>1. Absent \in Row
  BY Columns, RunStoreAssumption DEF Row, Absent
<1>2. y \in Row
  BY <1>1, Columns DEF Row, QueuedRow
<1>3. TerminalRow(y) /\ OwnedRow(y) /\ AbsentRow(y)
  BY DEF QueuedRow, Absent, TerminalRow, OwnedRow, AbsentRow, RunTerminal,
     QueueTerminal
<1>4. AnswerRow(y) /\ CheckpointRow(y)
  BY DEF QueuedRow, Absent, AnswerRow, CheckpointRow, Pending
<1> QED
  BY <1>2, <1>3, <1>4 DEF Good

(* The rows of a run that was never reserved are good.                     *)
LEMMA AbsentGood == Good(Absent)
<1>1. Absent \in Row
  BY Columns, RunStoreAssumption DEF Row, Absent
<1>2. TerminalRow(Absent) /\ OwnedRow(Absent) /\ AbsentRow(Absent)
  BY DEF Absent, TerminalRow, OwnedRow, AbsentRow, RunTerminal, QueueTerminal
<1>3. AnswerRow(Absent) /\ CheckpointRow(Absent)
  BY DEF Absent, AnswerRow, CheckpointRow, Pending
<1> QED
  BY <1>1, <1>2, <1>3 DEF Good

(* A run whose rows a transaction leaves alone.                            *)
LEMMA IdleRow ==
    ASSUME NEW x, Good(x)
    PROVE  RowStep(x, x)
BY DEF RowStep, Kept, Fenced, AnswerKept, Good, Row

\* The inductive invariant of the rows.
GoodRows == TypeOK /\ \A r \in Runs : Good(run[r])

\* Every step of the system is a good step of every run, or reserves a run.
GoodStep ==
    /\ run' \in [Runs -> Row]
    /\ \/ \A q \in Runs : RowStep(run[q], run'[q])
       \/ \E r \in Runs : Reserving(r)

(* A good step of one run is a good step of all: the others idle.          *)
LEMMA StepIsGood ==
    ASSUME GoodRows, NEW r \in Runs, Step(r)
    PROVE  GoodStep
<1>1. run'[r] \in Row
  BY DEF Step, RowStep, Good
<1>2. run' \in [Runs -> Row]
  BY <1>1 DEF GoodRows, TypeOK, Step
<1>3. ASSUME NEW q \in Runs PROVE RowStep(run[q], run'[q])
  <2>1. CASE q = r
    BY <2>1 DEF Step
  <2>2. CASE q # r
    <3>1. run'[q] = run[q]
      BY <2>2 DEF GoodRows, TypeOK, Step
    <3> QED
      BY <3>1, IdleRow DEF GoodRows
  <2> QED
    BY <2>1, <2>2
<1> QED
  BY <1>2, <1>3 DEF GoodStep

(* startRun and restartRun write one first row, for a run nobody used.     *)
LEMMA ReserveIsGood ==
    ASSUME GoodRows, NEW r \in Runs,
           \/ \E s \in Sessions, m \in Mode : Reserve(r, s, m)
           \/ \E p \in Runs : Restart(r, p)
    PROVE  GoodStep
<1>1. Reserving(r)
  <2>1. CASE \E s \in Sessions, m \in Mode : Reserve(r, s, m)
    <3>1. PICK s \in Sessions, m \in Mode : Reserve(r, s, m)
      BY <2>1
    <3> QED
      BY <3>1 DEF Reserve, Reserving
  <2>2. CASE \E p \in Runs : Restart(r, p)
    <3>1. PICK p \in Runs : Restart(r, p)
      BY <2>2
    <3>2. run[p].session \in Sessions \cup {None} /\ "interactive" \in Mode
      BY Columns DEF GoodRows, TypeOK, Row
    <3>3. /\ run[r].queue = "none"
          /\ Update(r, QueuedRow(run[p].session, "interactive", p))
          /\ SessionFree(run[p].session)
          /\ run[p].status \in RunTerminal
          /\ run[p].effect = "none"
          /\ \A q \in Runs : run[q].parent # p
      BY <3>1 DEF Restart
    <3> QED
      BY <3>2, <3>3 DEF Reserving
  <2> QED
    BY <2>1, <2>2
<1>2. PICK s \in Sessions \cup {None}, m \in Mode, p \in Runs \cup {None} :
        Update(r, QueuedRow(s, m, p))
  BY <1>1 DEF Reserving
<1>3. QueuedRow(s, m, p) \in Row
  BY QueuedGood DEF Good
<1>4. run' \in [Runs -> Row]
  BY <1>2, <1>3 DEF GoodRows, TypeOK, Update
<1> QED
  BY <1>1, <1>4 DEF GoodStep

(* recoverPreviousServer expires leases and changes nothing else.          *)
LEMMA ExpireOwnerIsGood ==
    ASSUME GoodRows, NEW o \in Owners, ExpireOwner(o)
    PROVE  GoodStep
<1>1. ASSUME NEW q \in Runs
      PROVE  run'[q] \in Row /\ RowStep(run[q], run'[q])
  <2> DEFINE x == run[q]
             y == [x EXCEPT !.live = FALSE]
  <2>1. x \in Row /\ Good(x)
    BY DEF GoodRows, TypeOK
  <2>2. y \in Row
    BY <2>1 DEF Row
  <2>3. RowStep(x, y)
    BY <2>1, <2>2, SameRow DEF Row
  <2>4. RowStep(x, x)
    BY <2>1, IdleRow
  <2>5. run'[q] = y \/ run'[q] = x
    BY DEF ExpireOwner
  <2> QED
    BY <2>1, <2>2, <2>3, <2>4, <2>5
<1>2. run' = [q \in Runs |-> run'[q]]
  BY DEF ExpireOwner
<1>3. run' \in [Runs -> Row]
  BY <1>1, <1>2
<1> QED
  BY <1>1, <1>3 DEF GoodStep

(* Whatever transaction happens, it is a good step.                        *)
LEMMA NextIsGood ==
    ASSUME GoodRows, [Next]_run
    PROVE  GoodStep
<1>1. CASE UNCHANGED run
  BY <1>1, IdleRow DEF GoodRows, GoodStep, TypeOK
<1>2. ASSUME NEW r \in Runs, Held(r) PROVE GoodStep
  BY <1>2, HeldStep, StepIsGood DEF GoodRows
<1>3. ASSUME NEW r \in Runs, Unheld(r) PROVE GoodStep
  <2>1. CASE \/ \E s \in Sessions, m \in Mode : Reserve(r, s, m)
             \/ \E p \in Runs : Restart(r, p)
    BY <2>1, ReserveIsGood
  <2>2. CASE \/ Expire(r)
             \/ PauseParked(r)
             \/ ResumePausedInteraction(r)
             \/ RequestResume(r)
             \/ CancelUnowned(r)
             \/ BeginValidation(r)
             \/ AnswerCheckpoint(r)
    <3>1. Step(r)
      BY <2>2, UnheldStep DEF GoodRows
    <3> QED
      BY <3>1, StepIsGood
  <2> QED
    BY <1>3, <2>1, <2>2 DEF Unheld
<1>4. ASSUME NEW r \in Runs, Claiming(r) PROVE GoodStep
  BY <1>4, ClaimingStep, StepIsGood DEF GoodRows
<1>5. ASSUME NEW o \in Owners, ExpireOwner(o) PROVE GoodStep
  BY <1>5, ExpireOwnerIsGood
<1> QED
  BY <1>1, <1>2, <1>3, <1>4, <1>5 DEF Next

(* The rows stay good.                                                     *)
LEMMA GoodRowsStep ==
    ASSUME GoodRows, [Next]_run
    PROVE  GoodRows'
<1>1. GoodStep
  BY NextIsGood
<1>2. TypeOK'
  BY <1>1 DEF GoodStep, TypeOK
<1>3. ASSUME NEW q \in Runs PROVE Good(run'[q])
  <2>1. CASE \A r \in Runs : RowStep(run[r], run'[r])
    BY <2>1 DEF RowStep
  <2>2. ASSUME NEW r \in Runs, Reserving(r) PROVE Good(run'[q])
    <3>1. PICK s \in Sessions \cup {None}, m \in Mode, p \in Runs \cup {None} :
            Update(r, QueuedRow(s, m, p))
      BY <2>2 DEF Reserving
    <3>2. Good(QueuedRow(s, m, p))
      BY QueuedGood
    <3>3. run'[q] = QueuedRow(s, m, p) \/ run'[q] = run[q]
      BY <3>1 DEF Update, GoodRows, TypeOK
    <3> QED
      BY <3>2, <3>3 DEF GoodRows
  <2> QED
    BY <1>1, <2>1, <2>2 DEF GoodStep
<1> QED
  BY <1>2, <1>3 DEF GoodRows

(* From a database without runs, every row of every run is good.           *)
LEMMA AlwaysGoodRows == Spec => []GoodRows
<1>1. Init => GoodRows
  <2> SUFFICES ASSUME Init PROVE GoodRows
    OBVIOUS
  <2>1. Absent \in Row
    BY AbsentGood DEF Good
  <2> QED
    BY <2>1, AbsentGood DEF Init, GoodRows, TypeOK
<1>2. GoodRows /\ [Next]_run => GoodRows'
  BY GoodRowsStep
<1> QED
  BY <1>1, <1>2, PTL DEF Spec
-----------------------------------------------------------------------------
(* What holds of every run on its own.                                     *)

(* Type correctness: no transaction writes outside its columns, and a      *)
(* claim never takes a generation beyond the bound and its control claim.  *)
THEOREM TypeCorrectness == Spec => []TypeOK
<1>1. GoodRows => TypeOK
  BY DEF GoodRows
<1> QED
  BY <1>1, AlwaysGoodRows, PTL

(* `runs` and `run_queue` always agree on whether a run is over and how,   *)
(* and a run that is over has no owner and no active attempt.              *)
THEOREM TerminalRowsAgree == Spec => []TerminalAgreement
<1>1. GoodRows => TerminalAgreement
  BY DEF GoodRows, Good, TerminalRow, TerminalAgreement
<1> QED
  BY <1>1, AlwaysGoodRows, PTL

(* A request is settled exactly when a submission of it is accepted, and   *)
(* an answer that waits to be consumed has an attempt to consume it.       *)
THEOREM AcceptedAnswerHasAttempt == Spec => []AcceptedAnswer
<1>1. GoodRows => AcceptedAnswer
  BY DEF GoodRows, Good, AnswerRow, AcceptedAnswer
<1> QED
  BY <1>1, AlwaysGoodRows, PTL

(* A run with a pending checkpoint waits for it.                           *)
THEOREM PendingCheckpointBlocks == Spec => []CheckpointBlocks
<1>1. GoodRows => CheckpointBlocks
  BY DEF GoodRows, Good, CheckpointRow, CheckpointBlocks
<1> QED
  BY <1>1, AlwaysGoodRows, PTL

-----------------------------------------------------------------------------
(* What no step does to a run.                                             *)

(* A reservation reaches no run that was claimed, asked or ended before.   *)
LEMMA ReservedRow ==
    ASSUME GoodRows, NEW r \in Runs, Reserving(r), NEW q \in Runs
    PROVE  \/ run'[q] = run[q]
           \/ /\ q = r /\ run[q].queue = "none" /\ run[q].gen = 0
              /\ run[q].request = "none"
              /\ run[q].status \notin RunTerminal
<1>1. PICK s \in Sessions \cup {None}, m \in Mode, p \in Runs \cup {None} :
        Update(r, QueuedRow(s, m, p))
  BY DEF Reserving
<1>2. CASE q # r
  BY <1>1, <1>2 DEF Update, GoodRows, TypeOK
<1>3. CASE q = r
  BY <1>3 DEF Reserving, GoodRows, Good, AbsentRow, TerminalRow, QueueTerminal
<1> QED
  BY <1>2, <1>3

(* A claim token that once failed to verify never verifies again.          *)
THEOREM ClaimsAreFenced == Spec => ClaimLossIsFinal
<1> DEFINE Lost == \A r \in Runs : \A g \in 1 .. run[r].gen :
                       ~Holds(run[r], g) => ~Holds(run'[r], g)
<1>1. ASSUME GoodRows, [Next]_run PROVE Lost
  <2>1. GoodStep
    BY <1>1, NextIsGood
  <2>2. ASSUME NEW q \in Runs, NEW g \in 1 .. run[q].gen,
               ~Holds(run[q], g)
        PROVE  ~Holds(run'[q], g)
    <3>1. run[q].gen \in Nat
      BY <1>1, RunStoreAssumption DEF GoodRows, TypeOK, Row
    <3>2. CASE RowStep(run[q], run'[q])
      <4>1. run'[q].gen \in Nat
        BY <3>2, RunStoreAssumption DEF RowStep, Good, Row
      <4> QED
        BY <2>2, <3>1, <3>2, <4>1 DEF RowStep, Fenced, Holds
    <3>3. CASE \E r \in Runs : Reserving(r)
      <4>1. run'[q] = run[q] \/ run[q].gen = 0
        BY <1>1, <3>3, ReservedRow
      <4> QED
        BY <2>2, <3>1, <4>1
    <3> QED
      BY <2>1, <3>2, <3>3 DEF GoodStep
  <2> QED
    BY <2>2
<1>2. GoodRows /\ [Next]_run => [Lost]_run
  BY <1>1
<1> QED
  BY <1>2, AlwaysGoodRows, PTL DEF Spec, ClaimLossIsFinal

(* A run that is over stays over, as it ended.                             *)
THEOREM TerminalRunsStay == Spec => TerminalIsFinal
<1> DEFINE Final == \A r \in Runs : run[r].status \in RunTerminal =>
                        /\ run'[r].status = run[r].status
                        /\ run'[r].queue = run[r].queue
                        /\ run'[r].gen = run[r].gen
                        /\ run'[r].owner = run[r].owner
                        /\ run'[r].request = run[r].request
<1>1. ASSUME GoodRows, [Next]_run PROVE Final
  <2>1. GoodStep
    BY <1>1, NextIsGood
  <2>2. CASE \A q \in Runs : RowStep(run[q], run'[q])
    BY <2>2 DEF RowStep, Kept
  <2>3. CASE \E r \in Runs : Reserving(r)
    BY <1>1, <2>3, ReservedRow
  <2> QED
    BY <2>1, <2>2, <2>3 DEF GoodStep
<1>2. GoodRows /\ [Next]_run => [Final]_run
  BY <1>1
<1> QED
  BY <1>2, AlwaysGoodRows, PTL DEF Spec, TerminalIsFinal

(* An accepted answer is consumed by its own attempt or not at all.        *)
THEOREM AnswersAreKept == Spec => AnswerIsFinal
<1> DEFINE Kept1 == \A r \in Runs : run[r].request = "settled" =>
                        \/ run'[r].request = "settled"
                        \/ /\ run'[r].request = "consumed"
                           /\ run[r].status = "running" /\ run[r].open
                           /\ Holds(run[r], run[r].gen)
<1>1. ASSUME GoodRows, [Next]_run PROVE Kept1
  <2>1. GoodStep
    BY <1>1, NextIsGood
  <2>2. CASE \A q \in Runs : RowStep(run[q], run'[q])
    BY <2>2 DEF RowStep, AnswerKept
  <2>3. CASE \E r \in Runs : Reserving(r)
    BY <1>1, <2>3, ReservedRow
  <2> QED
    BY <2>1, <2>2, <2>3 DEF GoodStep
<1>2. GoodRows /\ [Next]_run => [Kept1]_run
  BY <1>1
<1> QED
  BY <1>2, AlwaysGoodRows, PTL DEF Spec, AnswerIsFinal

-----------------------------------------------------------------------------
(* What relates several runs.                                              *)

(* At most one active interactive run per session: only a reservation      *)
(* makes a run active, and it looks at every run of its session.           *)
THEOREM OneActiveRunPerSession == Spec => []OneActivePerSession
<1>1. Init => OneActivePerSession
  BY DEF Init, Absent, OneActivePerSession, QueueActive
<1>2. ASSUME GoodRows, OneActivePerSession, [Next]_run
      PROVE  OneActivePerSession'
  <2>1. GoodStep
    BY <1>2, NextIsGood
  <2>2. CASE \A q \in Runs : RowStep(run[q], run'[q])
    BY <1>2, <2>2 DEF RowStep, Kept, OneActivePerSession
  <2>3. ASSUME NEW r \in Runs, Reserving(r) PROVE OneActivePerSession'
    <3>1. PICK s \in Sessions \cup {None}, m \in Mode,
               p \in Runs \cup {None} :
            /\ Update(r, QueuedRow(s, m, p))
            /\ m = "interactive" => SessionFree(s)
      BY <2>3 DEF Reserving
    <3>2. /\ run'[r].mode = m /\ run'[r].session = s
          /\ \A q \in Runs : q # r => run'[q] = run[q]
      BY <1>2, <3>1 DEF Update, GoodRows, TypeOK, QueuedRow, Absent
    <3> QED
      BY <1>2, <3>1, <3>2 DEF OneActivePerSession, SessionFree
  <2> QED
    BY <2>1, <2>2, <2>3 DEF GoodStep
<1> QED
  BY <1>1, <1>2, AlwaysGoodRows, PTL DEF Spec

(* A restart has a terminal parent without an uncertain effect, and no     *)
(* run is the parent of two.                                               *)
THEOREM RestartsAreLinear == Spec => []RestartLineage
<1>1. Init => RestartLineage
  BY DEF Init, Absent, RestartLineage
<1>2. ASSUME GoodRows, RestartLineage, [Next]_run
      PROVE  RestartLineage'
  <2>1. GoodStep
    BY <1>2, NextIsGood
  <2>2. CASE \A q \in Runs : RowStep(run[q], run'[q])
    <3>1. \A q \in Runs : run[q].parent # None => run[q].parent \in Runs
      BY <1>2 DEF GoodRows, TypeOK, Row
    <3> QED
      BY <1>2, <2>2, <3>1 DEF RowStep, Kept, RestartLineage
  <2>3. ASSUME NEW r \in Runs, Reserving(r) PROVE RestartLineage'
    <3>1. PICK s \in Sessions \cup {None}, m \in Mode,
               p \in Runs \cup {None} :
            /\ Update(r, QueuedRow(s, m, p))
            /\ p # None => /\ run[p].status \in RunTerminal
                           /\ run[p].effect = "none"
                           /\ \A q \in Runs : run[q].parent # p
      BY <2>3 DEF Reserving
    <3>2. /\ run'[r].parent = p
          /\ \A q \in Runs : q # r => run'[q] = run[q]
      BY <1>2, <3>1 DEF Update, GoodRows, TypeOK, QueuedRow, Absent
    <3>3. /\ run[r].status \notin RunTerminal
          /\ \A q \in Runs : run[q].parent # None => run[q].parent \in Runs
      BY <1>2, <2>3 DEF Reserving, GoodRows, Good, TypeOK, Row, TerminalRow,
         QueueTerminal
    <3>4. ASSUME NEW q \in Runs, run'[q].parent # None
          PROVE  /\ run'[run'[q].parent].status \in RunTerminal
                 /\ run'[run'[q].parent].effect = "none"
                 /\ \A t \in Runs : run'[t].parent = run'[q].parent => t = q
      <4>1. CASE q = r
        BY <3>1, <3>2, <3>3, <3>4, <4>1
      <4>2. CASE q # r
        BY <1>2, <3>1, <3>2, <3>3, <3>4, <4>2 DEF RestartLineage
      <4> QED
        BY <4>1, <4>2
    <3> QED
      BY <3>4 DEF RestartLineage
  <2> QED
    BY <2>1, <2>2, <2>3 DEF GoodStep
<1> QED
  BY <1>1, <1>2, AlwaysGoodRows, PTL DEF Spec
=============================================================================
