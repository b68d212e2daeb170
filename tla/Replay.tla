------------------------------- MODULE Replay -------------------------------
(***************************************************************************)
(* The journal of a run's session as it is replayed: what the recorder of  *)
(* Pi reports of messages, blocks and tool calls is appended in batches;   *)
(* the append saves, at every page boundary, what is still open there; and *)
(* a viewer folds one page from the checkpoint before it                   *)
(* (foldSessionEvents).  That the batches arrive whole and in order is the *)
(* subject of Recording.  One recorder writes the run; texts, entries,     *)
(* roles, arguments and times are left out, and a block ends once.         *)
(***************************************************************************)
EXTENDS Naturals, Sequences

CONSTANTS PageSize,        \* VIEWER_PAGE_SIZE
          MaxEvents,       \* bound: events of the run
          MaxShown         \* bound: messages of the run

VARIABLES journal,      \* session_events of the run, by run_seq
          checkpoints,  \* viewer_session_checkpoints
          reported,     \* eventQueue of the recorder
          showing       \* the newest message and the call in Pi

replayVars == <<journal, checkpoints, reported, showing>>

SeqExt == INSTANCE SequencesExt

ReplayInit ==
    /\ journal = << >> /\ checkpoints = << >> /\ reported = << >>
    /\ showing = [id |-> 0, at |-> "closed", block |-> "none", tool |-> "none"]

-----------------------------------------------------------------------------
(* foldSessionEvents.                                                      *)

Nothing == [through |-> 0, messages |-> << >>, tools |-> << >>, strange |-> {}]

HasId(items, id) == \E i \in DOMAIN items : items[i].id = id
Change(items, id, Op(_)) ==
    [i \in DOMAIN items |-> IF items[i].id = id THEN Op(items[i]) ELSE items[i]]
Strange(S, e) == [S EXCEPT !.strange = @ \cup {e.seq}]

\* An event of a message that the fold has not seen is only noted.
OfMessage(S, e, Op(_)) ==
    IF HasId(S.messages, e.id) THEN [S EXCEPT !.messages = Change(@, e.id, Op)]
    ELSE Strange(S, e)

Fold1(S, e) ==
    CASE e.type = "message_started" ->
           IF HasId(S.messages, e.id) THEN S
           ELSE [S EXCEPT !.messages = Append(@, [id |-> e.id, status |-> "streaming",
                                                  block |-> "none"])]
      [] e.type = "block_start" ->
           OfMessage(S, e, LAMBDA m : IF m.block = "none" THEN [m EXCEPT !.block = "open"] ELSE m)
      [] e.type = "block_end" ->
           OfMessage(S, e, LAMBDA m : [m EXCEPT !.block = "ended"])
      [] e.type \in {"done", "error"} ->
           OfMessage(S, e, LAMBDA m : [m EXCEPT !.status = e.type])
      [] e.type \in {"settled", "unsettled"} ->   \* message_finished
           OfMessage(S, e, LAMBDA m : [m EXCEPT !.status = e.type])
      [] e.type = "tool_started" ->
           [S EXCEPT !.tools = Append(@, [id |-> e.tool, of |-> e.id, status |-> "running"])]
      [] e.type = "tool_finished" ->
           IF HasId(S.tools, e.tool)
           THEN [S EXCEPT !.tools = Change(@, e.tool, LAMBDA t : [t EXCEPT !.status = "over"])]
           ELSE Strange(S, e)

Fold(events, limit, initial) ==
    SeqExt!FoldLeft(LAMBDA S, e :
              IF e.seq <= S.through \/ e.seq > limit THEN S
              ELSE [Fold1(IF e.seq = S.through + 1 THEN S ELSE Strange(S, e), e)
                       EXCEPT !.through = e.seq],
              initial, events)

\* boundedTemporalCheckpoint.
Bounded(S) ==
    LET streaming == SelectSeq(S.messages, LAMBDA m : m.status = "streaming") IN
    [S EXCEPT !.messages = streaming, !.strange = {},
              !.tools = SelectSeq(@, LAMBDA t : t.status = "running" /\ HasId(streaming, t.of))]

-----------------------------------------------------------------------------
(* The recorder (handleMessageStart to handleToolEnd).                     *)

Report(event) == reported' = Append(reported, event) /\ UNCHANGED <<journal, checkpoints>>
Room == Len(journal) + Len(reported) < MaxEvents
Event(type) == [type |-> type, id |-> showing'.id, tool |-> "call"]

StartMessage ==
    /\ Room /\ showing.at = "closed" /\ showing.id < MaxShown
    /\ showing' = [showing EXCEPT !.id = @ + 1, !.at = "open", !.block = "none"]
    /\ Report(Event("message_started"))

\* handleMessageUpdate: deltas are not recorded.
UpdateMessage ==
    /\ Room /\ showing.at = "open"
    /\ \/ showing.block = "none" /\ showing' = [showing EXCEPT !.block = "open"] /\ Report(Event("block_start"))
       \/ showing.block = "open" /\ showing' = [showing EXCEPT !.block = "ended"] /\ Report(Event("block_end"))
       \/ \E how \in {"done", "error"} : showing' = [showing EXCEPT !.at = "done"] /\ Report(Event(how))

\* handleMessageEnd; a user's message ends without a "done".
EndMessage ==
    /\ Room /\ showing.at \in {"open", "done"}
    /\ showing' = [showing EXCEPT !.at = "closed"]
    /\ \E how \in {"settled", "unsettled"} : Report(Event(how))

\* A call of the newest message runs beside the message or after it.
ToolStarts ==
    /\ Room /\ showing.id > 0 /\ showing.tool = "none"
    /\ showing' = [showing EXCEPT !.tool = "running"] /\ Report(Event("tool_started"))
ToolEnds ==
    /\ Room /\ showing.tool = "running"
    /\ showing' = [showing EXCEPT !.tool = "over"] /\ Report(Event("tool_finished"))

-----------------------------------------------------------------------------
(* The store.                                                              *)

Newest(rows) == IF rows = << >> THEN Nothing ELSE rows[Len(rows)]

\* Variant: the events between the last checkpoint and the batch are forgotten.
SinceBatch(batch) == batch
\* What is not yet in a checkpoint: saved events (sessionEventRecords) and the batch.
Since(batch) == SelectSeq(journal, LAMBDA e : e.seq > Newest(checkpoints).through) \o batch

\* recordSessionReplayCheckpoints: one at every page boundary that is reached.
Boundaries(last) == LET from == Newest(checkpoints).through \div PageSize IN
                    [k \in 1 .. (last \div PageSize) - from |-> (from + k) * PageSize]
WithCheckpoints(batch, last) ==
    LET pending == Since(batch) IN
    SeqExt!FoldLeft(LAMBDA rows, b : Append(rows, Bounded(Fold(pending, b, Newest(rows)))),
                    checkpoints, Boundaries(last))

\* appendSessionEventBatch.
AppendBatch(n) ==
    /\ n \in 1 .. Len(reported)
    /\ LET first == Len(journal)
           batch == [i \in 1 .. n |-> [type |-> reported[i].type, id |-> reported[i].id,
                                       tool |-> reported[i].tool, seq |-> first + i]] IN
       /\ journal' = journal \o batch
       /\ checkpoints' = WithCheckpoints(batch, first + n)
    /\ reported' = SubSeq(reported, n + 1, Len(reported))
    /\ UNCHANGED showing

ReplayNext ==
    \/ StartMessage \/ UpdateMessage \/ EndMessage \/ ToolStarts \/ ToolEnds
    \/ \E n \in 1 .. MaxEvents : AppendBatch(n)

\* readSessionReplayCheckpoint: what a page that starts after s begins with.
Checkpoint(s) ==
    LET saved == Newest(SelectSeq(checkpoints, LAMBDA row : row.through <= s)) IN
    IF saved.through < s THEN Bounded(Fold(journal, s, saved)) ELSE saved

-----------------------------------------------------------------------------
(* The properties.                                                         *)

(* Wherever a page begins and however the batches fell, its checkpoint and *)
(* the events after it give what the whole journal gives: of all messages  *)
(* that were streaming at its start or began later, and of the tool calls  *)
(* that ran in a streaming message or began later; and no event of these   *)
(* is out of place (docs/LIVE_REPLAY_PROTOCOL.md:93).                      *)
Kept(before, m) == \A i \in DOMAIN before.messages :
                      before.messages[i].id = m => before.messages[i].status = "streaming"
KeptTool(before, t) == \A i \in DOMAIN before.tools :
                          before.tools[i].id = t => /\ before.tools[i].status = "running"
                                                    /\ Kept(before, before.tools[i].of)
Places(before, e) == IF e.type \in {"tool_started", "tool_finished"}
                     THEN KeptTool(before, e.tool) ELSE Kept(before, e.id)
PageAgrees ==
    \A s \in 0 .. Len(journal) : LET before == Fold(journal, s, Nothing) IN
       \A n \in s .. Len(journal) :
          LET whole == Fold(journal, n, Nothing)
              page  == Fold(journal, n, Checkpoint(s)) IN
          /\ page.messages = SelectSeq(whole.messages, LAMBDA m : Kept(before, m.id))
          /\ page.tools = SelectSeq(whole.tools, LAMBDA t : KeptTool(before, t.id))
          /\ \A q \in page.strange : ~Places(before, journal[q])
=============================================================================
