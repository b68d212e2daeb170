----------------------------- MODULE Recording -----------------------------
(***************************************************************************)
(* The recorder of the Pi extension (SessionRecorder) and the segments the *)
(* server writes for it.  Pi waits for the recorder's handlers one by one; *)
(* the requests of the recorder (bind, batches of events, entries, the     *)
(* closing of the capture) run beside them and may fail or be applied      *)
(* without an answer.                                                      *)
(*                                                                         *)
(* An event is its sequence number, an entry is the number of the message  *)
(* it settles.  Bytes, token deltas and tool owners are left out.          *)
(***************************************************************************)
EXTENDS Integers, Sequences, SequencesExt

CONSTANTS None,
          MaxCaptured, MaxMessages, MaxTools,   \* bounds: what Pi shows
          MaxBatch,                          \* FLUSH_MAX_RECORDS
          MaxQueue,                          \* QUEUE_MAX_RECORDS
          MaxRequestFaults                   \* bound: requests that fail, interrupted runs

VARIABLES segs,      \* session_segments with their rows: 1 the run's first, 2 a later one
          bind,      \* step of bind()
          segment,   \* segmentId of the recorder
          doing,        \* what Pi does: at, and counts of turns, messages and tools
          turn,      \* currentTurn is set
          branch,    \* entries of Pi's current branch
          cursor,
          recorded,  \* entries the recorder has written
          chain,     \* entryChain: tasks of record() with what is left to write
          queue,     \* eventQueue
          inflight,  \* the batch of flushPromise
          pending,   \* pendingMessageEnds
          failed,    \* captureFailure is set
          finish,    \* step of finish() and stop()
          counts,    \* what sessionCounts answered to stop()
          seen,     \* ghost: events Pi showed before the recorder was stopped
          early,     \* ghost: another request was sent before bind() was done, or bind() failed
          faults

recordingVars == <<segs, bind, segment, doing, turn, branch, cursor, recorded, chain, queue,
                   inflight, pending, failed, finish, counts, seen, early, faults>>
eventVars == <<queue, pending, seen>>
entryVars == <<cursor, recorded, chain>>
stopVars == <<finish, counts>>
bindVars == <<bind, segment>>

NewSegment == [status |-> "recording", events |-> 0, entries |-> 0, rows |-> << >>, saved |-> << >>]

\* What an earlier owner of the run may have left: nothing, a complete capture,
\* or one that was never closed because Pi went away.
Earlier == {None, NewSegment,
            [status |-> "complete", events |-> 1, entries |-> 1,
             rows |-> <<[seq |-> 1, link |-> -1]>>, saved |-> << -1 >>]}

\* A view of a message of the run has arrived: ensureRecorder has created the
\* recorder and called bind.
RecordingInit ==
    /\ \E first \in Earlier : segs = <<first, None>>
    /\ bind = "asking" /\ segment = 1
    /\ doing = [at |-> "idle", turns |-> 0, messages |-> 0, tools |-> 0]
    /\ turn = FALSE /\ branch = <<0>> /\ cursor = 0 /\ recorded = {} /\ chain = << >>
    /\ queue = << >> /\ inflight = << >> /\ pending = << >> /\ failed = FALSE
    /\ finish = "no" /\ counts = None /\ seen = 0 /\ early = FALSE /\ faults = 0

Stopped == finish \notin {"no", "recording", "waiting"}

\* Outcomes of a request: served; lost; served, and the answer lost with its
\* stored command, so that the repeat is refused.
Outcome(o) ==
    /\ o \in {"served", "lost", "applied"}
    /\ o = "served" \/ faults < MaxRequestFaults
    /\ faults' = IF o = "served" THEN faults ELSE faults + 1

-----------------------------------------------------------------------------
\* bind: hasSessionBinding, writeSessionBinding, writeSessionCapture.  When a
\* request fails the extension warns and keeps the recorder.
BindFails == bind' = "failed" /\ early' = TRUE /\ UNCHANGED <<segs, segment>>

AskBinding ==
    /\ bind = "asking"
    /\ \E o \in {"served", "lost"} :
         /\ Outcome(o)
         /\ \/ /\ o = "served" /\ bind' = "binding" /\ UNCHANGED <<segs, early>>
               /\ segment' = IF segs[1] = None THEN 1 ELSE 2
            \/ o = "lost" /\ BindFails
    /\ UNCHANGED <<doing, turn, branch, entryVars, eventVars, inflight, failed, stopVars>>

WriteBinding ==
    /\ bind = "binding"
    /\ \E o \in {"served", "lost"} :
         /\ Outcome(o)
         /\ \/ /\ o = "served" /\ bind' = "opening" /\ UNCHANGED <<segment, early>>
               /\ segs' = [segs EXCEPT ![segment] = IF @ = None THEN NewSegment ELSE @]
            \/ o = "lost" /\ BindFails
    /\ UNCHANGED <<doing, turn, branch, entryVars, eventVars, inflight, failed, stopVars>>

\* writeSessionCapture of the server: a failed or complete capture keeps its
\* status, and the counts are those of the caller.
Captured(s, status, events, entries) ==
    IF s.status \in {"failed", "complete"} /\ status # s.status THEN s
    ELSE [s EXCEPT !.status = status, !.events = events, !.entries = entries]

OpenCapture ==
    /\ bind = "opening"
    /\ \E o \in {"served", "lost"} :
         /\ Outcome(o)
         /\ \/ /\ o = "served" /\ bind' = "bound" /\ UNCHANGED <<segment, early>>
               /\ segs' = [segs EXCEPT ![segment] = Captured(@, "recording", 0, 0)]
            \/ o = "lost" /\ BindFails
    /\ UNCHANGED <<doing, turn, branch, entryVars, eventVars, inflight, failed, stopVars>>

-----------------------------------------------------------------------------
Full == Len(queue) + Len(inflight) >= MaxQueue

\* enqueue: an event with the next sequence number, unless the capture has
\* failed or stopped.  The numbers follow what Pi shows until then.
Enqueue(q) ==
    /\ seen' = IF Stopped THEN seen ELSE seen + 1
    /\ IF Stopped \/ failed THEN queue' = q /\ failed' = failed
       ELSE IF Full THEN queue' = q /\ failed' = TRUE
       ELSE queue' = Append(q, [seq |-> seen + 1, link |-> None]) /\ failed' = failed

\* synchronize: the pending message ends get the entries that settle them.
Linked ==
    [i \in DOMAIN queue |->
       IF \E p \in Range(pending) : p.seq = queue[i].seq /\ p.message \in recorded
       THEN [queue[i] EXCEPT !.link = (CHOOSE p \in Range(pending) : p.seq = queue[i].seq).message]
       ELSE queue[i]]

Synchronized == pending = << >>
Recording(who) == chain' = Append(chain, [who |-> who, left |-> None, refused |-> FALSE])

TurnStart ==
    /\ doing.at = "idle" /\ doing.turns < MaxCaptured
    /\ doing' = [doing EXCEPT !.at = "turn", !.turns = @ + 1] /\ turn' = TRUE
    /\ Enqueue(queue)
    /\ UNCHANGED <<segs, bindVars, branch, entryVars, inflight, pending, stopVars, early, faults>>

\* handleMessageStart up to its await, and at once when nothing is pending.
MessageStart ==
    /\ doing.at = "turn" /\ doing.messages < MaxMessages
    /\ IF Synchronized
       THEN Enqueue(queue) /\ chain' = chain
            /\ doing' = [doing EXCEPT !.at = "message", !.messages = @ + 1]
       ELSE Recording("start") /\ UNCHANGED <<queue, seen, failed>>
            /\ doing' = [doing EXCEPT !.at = "waiting", !.messages = @ + 1]
    /\ UNCHANGED <<segs, bindVars, turn, branch, cursor, recorded, inflight, pending,
                   stopVars, early, faults>>

\* handleMessageEnd: the event stays queued until its entry is known.
MessageEnd ==
    /\ doing.at = "message" /\ doing' = [doing EXCEPT !.at = "appending"]
    /\ Enqueue(queue)
    /\ pending' = IF queue' = queue THEN pending
                  ELSE Append(pending, [seq |-> seen + 1, message |-> doing.messages])
    /\ UNCHANGED <<segs, bindVars, turn, branch, entryVars, inflight, stopVars, early, faults>>

\* Pi appends the entry after the handlers of message_end have returned.
AppendEntry ==
    /\ doing.at = "appending" /\ doing' = [doing EXCEPT !.at = "turn"]
    /\ branch' = Append(branch, doing.messages)
    /\ UNCHANGED <<segs, bindVars, turn, entryVars, eventVars, inflight, failed, stopVars,
                   early, faults>>

\* handleToolStart and handleToolEnd.
ToolEvent ==
    /\ doing.at = "turn" /\ doing.messages > 0 /\ doing.tools < MaxTools
    /\ doing' = [doing EXCEPT !.tools = @ + 1]
    /\ Enqueue(queue)
    /\ UNCHANGED <<segs, bindVars, turn, branch, entryVars, inflight, pending, stopVars,
                   early, faults>>

\* The last part of handleTurnEnd.  A finish that waits for the turn stops now;
\* message ends whose record was refused stay pending otherwise.
TurnIsOver(q, refused) ==
    /\ Enqueue(q) /\ turn' = FALSE /\ doing' = [doing EXCEPT !.at = "idle"]
    /\ finish' = IF finish = "waiting" THEN "flushing" ELSE finish
    /\ pending' = IF refused /\ finish # "waiting" THEN pending ELSE << >>

TurnEnd ==
    /\ doing.at = "turn"
    /\ IF Synchronized THEN TurnIsOver(queue, FALSE) /\ chain' = chain
       ELSE Recording("end") /\ doing' = [doing EXCEPT !.at = "waiting"]
            /\ UNCHANGED <<queue, seen, failed, turn, finish, pending>>
    /\ UNCHANGED <<segs, bindVars, branch, cursor, recorded, inflight, counts, early, faults>>

\* The user goes back to an earlier entry.
LeaveBranch ==
    /\ doing.at = "idle" /\ Len(branch) > 1 /\ branch' = <<0>>
    /\ UNCHANGED <<segs, bindVars, doing, turn, entryVars, eventVars, inflight, failed, stopVars,
                   early, faults>>

-----------------------------------------------------------------------------
\* record(): the entries of the branch after the cursor.  On another branch the
\* recorder starts over from its end.
StartRecord ==
    LET on == {i \in DOMAIN branch : branch[i] = cursor}
        after == IF on = {} THEN << >>
                 ELSE SubSeq(branch, (CHOOSE i \in on : TRUE) + 1, Len(branch)) IN
    /\ chain # << >> /\ chain[1].left = None
    /\ chain' = [chain EXCEPT ![1].left = after]
    /\ cursor' = IF on = {} THEN Last(branch) ELSE cursor
    /\ UNCHANGED <<segs, bindVars, doing, turn, branch, recorded, eventVars, inflight, failed,
                   stopVars, early, faults>>

Writes == chain # << >> /\ chain[1].left \notin {None, << >>}
Early == early' = (early \/ bind # "bound")

\* appendSessionEntry: whatever the status of the segment, the next number
\* after its count has to be free, and the entry new.
EntryFits(s, entry) == s # None /\ s.entries = Len(s.saved) /\ entry \notin Range(s.saved)

WriteEntry ==
    /\ Writes
    /\ LET entry == chain[1].left[1]
           fits == EntryFits(segs[segment], entry) IN
       \E o \in {"served", "lost", "applied"} :
         /\ Outcome(o)
         /\ segs' = IF fits /\ o # "lost"
                    THEN [segs EXCEPT ![segment].saved = Append(@, entry),
                                      ![segment].entries = @ + 1] ELSE segs
         /\ IF fits /\ o = "served"
            THEN /\ chain' = [chain EXCEPT ![1].left = Tail(@)] /\ cursor' = entry
                 /\ recorded' = recorded \cup {entry} /\ failed' = failed
            ELSE /\ chain' = [chain EXCEPT ![1].left = << >>, ![1].refused = TRUE] /\ failed' = TRUE
                 /\ UNCHANGED <<cursor, recorded>>
    /\ Early
    /\ UNCHANGED <<bindVars, doing, turn, branch, eventVars, inflight, stopVars>>

\* The task is over and who waited for it goes on.
Recorded(who) ==
    /\ chain # << >> /\ chain[1].left = << >> /\ chain[1].who = who
    /\ chain' = Tail(chain)
    /\ UNCHANGED <<segs, bindVars, branch, cursor, recorded, inflight, counts, early, faults>>

StartRecorded ==
    /\ Recorded("start") /\ doing' = [doing EXCEPT !.at = "message"]
    /\ Enqueue(IF chain[1].refused THEN queue ELSE Linked)
    /\ pending' = IF chain[1].refused THEN pending ELSE << >>
    /\ UNCHANGED <<turn, finish>>

EndRecorded ==
    /\ Recorded("end")
    /\ TurnIsOver(IF chain[1].refused THEN queue ELSE Linked, chain[1].refused)

\* stop() up to its first await.
Stop == finish' = "flushing" /\ pending' = << >> /\ failed' = (failed \/ turn)

\* finish(): it waits for the end of an open turn.
FinishRecorded ==
    /\ Recorded("finish")
    /\ IF Stopped THEN UNCHANGED <<finish, pending, failed>>
       ELSE IF turn THEN finish' = "waiting" /\ UNCHANGED <<pending, failed>>
       ELSE Stop
    /\ UNCHANGED <<doing, turn, queue, seen>>

-----------------------------------------------------------------------------
\* startFlush: by the timer, a full queue, the end of the last batch or stop().
Flush ==
    /\ pending = << >> /\ inflight = << >> /\ queue # << >>
    /\ \E n \in 1..MaxBatch :
         /\ n <= Len(queue)
         /\ inflight' = SubSeq(queue, 1, n) /\ queue' = SubSeq(queue, n + 1, Len(queue))
    /\ UNCHANGED <<segs, bindVars, doing, turn, branch, entryVars, pending, seen, failed,
                   stopVars, early, faults>>

\* appendSessionEventBatch and the answer to it.
BatchFits(s) == s # None /\ s.status = "recording" /\ inflight[1].seq = s.events + 1

\* Variant: a batch that failed is given up without failing the capture.
FlushDoneQuietly ==
    /\ inflight # << >> /\ inflight' = << >>
    /\ \E o \in {"served", "lost", "applied"} :
         /\ Outcome(o)
         /\ segs' = IF BatchFits(segs[segment]) /\ o # "lost"
                    THEN [segs EXCEPT ![segment].rows = @ \o inflight,
                                      ![segment].events = @ + Len(inflight)] ELSE segs
    /\ Early
    /\ UNCHANGED <<bindVars, doing, turn, branch, entryVars, pending, seen, stopVars, queue, failed>>

FlushDone ==
    /\ inflight # << >> /\ inflight' = << >>
    /\ \E o \in {"served", "lost", "applied"} :
         /\ Outcome(o)
         /\ segs' = IF BatchFits(segs[segment]) /\ o # "lost"
                    THEN [segs EXCEPT ![segment].rows = @ \o inflight,
                                      ![segment].events = @ + Len(inflight)] ELSE segs
         /\ IF BatchFits(segs[segment]) /\ o = "served" THEN UNCHANGED <<queue, failed>>
            ELSE queue' = << >> /\ failed' = TRUE
    /\ Early
    /\ UNCHANGED <<bindVars, doing, turn, branch, entryVars, pending, seen, stopVars>>

-----------------------------------------------------------------------------
StopStep == UNCHANGED <<bindVars, doing, turn, branch, cursor, recorded, queue, inflight, seen>>

\* The terminal message was delivered, or the turn of a follow-up has settled.
FinishRecording ==
    /\ finish = "no" /\ finish' = "recording" /\ Recording("finish")
    /\ UNCHANGED <<segs, pending, failed, counts, early, faults>> /\ StopStep

FinishTimeout ==
    /\ finish = "waiting" /\ Stop
    /\ UNCHANGED <<segs, chain, counts, early, faults>> /\ StopStep

Shutdown ==
    /\ ~Stopped /\ Stop
    /\ UNCHANGED <<segs, chain, counts, early, faults>> /\ StopStep

StopFlushed ==
    /\ finish = "flushing" /\ queue = << >> /\ inflight = << >> /\ chain = << >>
    /\ finish' = "counting"
    /\ UNCHANGED <<segs, chain, pending, failed, counts, early, faults>> /\ StopStep

\* A step of closing that fails: one more try, for a failed capture.
CloseFailed ==
    IF finish \in {"counting", "closing"} THEN finish' = "recounting" /\ failed' = TRUE
    ELSE finish' = "stopped" /\ failed' = failed

ReadCounts ==
    /\ finish \in {"counting", "recounting"}
    /\ \E o \in {"served", "lost"} :
         /\ Outcome(o)
         /\ IF o = "served"
            THEN /\ counts' = IF segs[segment] = None THEN [events |-> 0, entries |-> 0]
                              ELSE [events |-> segs[segment].events,
                                    entries |-> segs[segment].entries]
                 /\ finish' = IF finish = "counting" THEN "closing" ELSE "reclosing"
                 /\ failed' = failed
            ELSE CloseFailed /\ counts' = counts
    /\ Early
    /\ UNCHANGED <<segs, chain, pending>> /\ StopStep

CloseCapture ==
    /\ finish \in {"closing", "reclosing"}
    /\ \E o \in {"served", "lost", "applied"} :
         /\ Outcome(o)
         /\ segs' = IF segs[segment] = None \/ o = "lost" THEN segs
                    ELSE [segs EXCEPT ![segment] =
                            Captured(@, IF failed THEN "failed" ELSE "complete",
                                     counts.events, counts.entries)]
         /\ IF segs[segment] # None /\ o = "served" THEN finish' = "stopped" /\ failed' = failed
            ELSE CloseFailed
    /\ Early
    /\ UNCHANGED <<chain, pending, counts>> /\ StopStep

\* finalizeRecordingCaptures: the run is marked interrupted.
RunInterrupted ==
    /\ faults < MaxRequestFaults /\ faults' = faults + 1
    /\ \E s \in 1..2 : segs[s] # None /\ segs[s].status = "recording"
    /\ segs' = [s \in 1..2 |-> IF segs[s] # None /\ segs[s].status = "recording"
                               THEN [segs[s] EXCEPT !.status = "failed"] ELSE segs[s]]
    /\ UNCHANGED <<chain, pending, failed, stopVars, early>> /\ StopStep

RecordingNext ==
    \/ AskBinding \/ WriteBinding \/ OpenCapture
    \/ TurnStart \/ MessageStart \/ MessageEnd \/ AppendEntry \/ ToolEvent \/ TurnEnd
    \/ LeaveBranch \/ StartRecord \/ WriteEntry
    \/ StartRecorded \/ EndRecorded \/ FinishRecorded
    \/ Flush \/ FlushDone
    \/ FinishRecording \/ FinishTimeout \/ Shutdown \/ StopFlushed
    \/ ReadCounts \/ CloseCapture \/ RunInterrupted

-----------------------------------------------------------------------------
Complete(s) == segs[s] # None /\ segs[s].status = "complete"

\* A complete capture is whole: its counters are those of its rows, its events
\* are all those the recorder was shown until it was stopped, once and in
\* order, and an event that names a settled entry names one that was saved.
\* Captures with another request before the end of bind() are excepted: see
\* EarlierSegmentKept (SESSION_EVENT_JOURNAL.md, Read and replay rules).
CompleteCaptureIsWhole ==
    \A s \in 1..2 : Complete(s) /\ ~early =>
       LET rows == segs[s].rows IN
       /\ segs[s].events = Len(rows) /\ segs[s].entries = Len(segs[s].saved)
       /\ \A i \in DOMAIN rows : rows[i].link # None => rows[i].link \in Range(segs[s].saved) \cup {-1}
       /\ s = segment /\ bind = "bound" =>
            /\ Len(rows) = seen
            /\ \A i \in DOMAIN rows : rows[i].seq = i

\* "A later owner writes another segment.  It does not rewrite the earlier
\* segment." (docs/SESSION_EVENT_JOURNAL.md): the rows of a complete capture
\* stay as they are.
EarlierSegmentKept ==
    [][Complete(1) => segs'[1] = segs[1]]_recordingVars
=============================================================================
