--------------------------- MODULE PiSessionProofs ---------------------------
(***************************************************************************)
(* Proofs about the session of Pi, two parts of SessionData.               *)
(*                                                                         *)
(* The recording: a capture that was saved as complete holds every event   *)
(* of its segment.  The events of a turn pass through the queue of the     *)
(* recorder, a batch, and the segment the recorder is bound to, so the     *)
(* invariant follows them through all three.                               *)
(*                                                                         *)
(* The turns: the clock of an attempt is open exactly while Pi works for   *)
(* its request, and the reports of Pi fit the rows.  What Pi and the       *)
(* server know of a turn comes from rows that have changed since, so the   *)
(* invariant says of each view, call and memory what the rows may have     *)
(* become; every transaction is shown once to keep prompts and turns       *)
(* (Follows), and what Pi knows survives whatever follows.                 *)
(***************************************************************************)
EXTENDS SessionData, FiniteSetTheorems, SequenceTheorems, WellFoundedInduction, TLAPS

-----------------------------------------------------------------------------
(* The recording: its invariant.                                           *)

Row == [seq : Nat, link : Int \cup {None}]
Segment == [status : {"recording", "failed", "complete"}, events : Nat, entries : Nat,
            rows : Seq(Row), saved : Seq(Int)]
Task == [who : {"start", "end", "finish"}, left : {None} \cup Seq(Int), refused : BOOLEAN]
Pending == [seq : Nat, message : Int]

Doing == [at : {"idle", "turn", "message", "appending", "waiting"}, turns : Nat,
          messages : Nat, tools : Nat]

Closed == {"counting", "closing", "recounting", "reclosing", "stopped"}

RecordTypes ==
    /\ segs \in [1..2 -> {None} \cup Segment] /\ segment \in 1..2
    /\ bind \in {"asking", "binding", "opening", "bound", "failed"}
    /\ doing \in Doing
    /\ turn \in BOOLEAN /\ branch \in Seq(Int) /\ branch # << >> /\ cursor \in Int
    /\ recorded \subseteq Int /\ chain \in Seq(Task)
    /\ queue \in Seq(Row) /\ inflight \in Seq(Row) /\ pending \in Seq(Pending)
    /\ seen \in Nat /\ failed \in BOOLEAN /\ early \in BOOLEAN
    /\ finish \in Closed \cup {"no", "recording", "waiting", "flushing"}
    /\ bind = "opening" => segs[segment] \in Segment

\* Messages that wait for their entries are of different events; once the
\* recorder is stopped nothing waits, and once it is flushed nothing is left.
StopRow ==
    /\ \A i, j \in 1..Len(pending) : pending[i].seq = pending[j].seq => i = j
    /\ \A i \in 1..Len(pending) : pending[i].seq <= seen
    /\ RE!Stopped => pending = << >>
    /\ finish \in Closed => queue = << >> /\ inflight = << >> /\ chain = << >>
    /\ finish \in {"closing", "reclosing"} => counts \in [events : Nat, entries : Nat]

\* The events that have been handed to the server.
Handed == seen - Len(inflight) - Len(queue)

\* Events are numbered as Pi showed them, and name entries that were recorded.
QueueRow ==
    /\ ~failed => Handed >= 0
    /\ ~failed => \A i \in 1..Len(inflight) : inflight[i].seq = Handed + i
    /\ ~failed => \A i \in 1..Len(queue) : queue[i].seq = seen - Len(queue) + i
    /\ \A i \in 1..Len(inflight) : inflight[i].link \in {None} \cup recorded
    /\ \A i \in 1..Len(queue) : queue[i].link \in {None} \cup recorded

\* The counters of a segment, and the entries its events name.
SegmentRow(s) ==
    /\ s.events = Len(s.rows) /\ s.entries = Len(s.saved)
    /\ \A i \in 1..Len(s.rows) :
          s.rows[i].link # None => s.rows[i].link \in RE!Range(s.saved) \cup {-1}

InOrder(s) == \A i \in 1..Len(s.rows) : s.rows[i].seq = i

\* Until it is bound, the recorder has sent nothing; its segment is a new one.
BindingTakesPlace ==
    bind # "bound" =>
      /\ bind # "failed" /\ recorded = {} /\ (~failed => Handed = 0)
      /\ finish \notin Closed \ {"counting"}
      /\ bind = "asking" => segment = 1 /\ segs[2] = None
      /\ bind = "binding" => segs[segment] = None
      /\ bind = "opening" => /\ segs[segment] \in Segment
                             /\ segs[segment].rows = << >> /\ segs[segment].saved = << >>
                             /\ segs[segment].status # "complete"

\* From then on the segment has what was handed over.
BoundRow ==
    bind = "bound" =>
      /\ segs[segment] \in Segment
      /\ recorded \subseteq RE!Range(segs[segment].saved)
      /\ ~failed => Len(segs[segment].rows) = Handed /\ InOrder(segs[segment])
      /\ finish \in {"closing", "reclosing"} =>
            counts = [events |-> segs[segment].events, entries |-> segs[segment].entries]
      /\ segs[segment].status = "complete" =>
            /\ finish \in {"recounting", "reclosing", "stopped"}
            /\ Len(segs[segment].rows) = seen /\ InOrder(segs[segment])

RecordInv ==
    /\ RecordTypes /\ StopRow
    /\ ~early =>
         /\ QueueRow /\ BindingTakesPlace /\ BoundRow
         /\ \A s \in 1..2 : segs[s] \in Segment => SegmentRow(segs[s])

LEMMA RangeOf ==
    ASSUME NEW S, NEW s \in Seq(S)
    PROVE  RE!Range(s) = {s[i] : i \in 1..Len(s)}
  BY DEF RE!Range

\* What the recorder queues gets the next number, and nothing else changes; a
\* capture that has failed does not recover.
LEMMA Enqueued ==
    ASSUME RecordTypes, NEW q \in Seq(Row), RE!Enqueue(q)
    PROVE  /\ queue' \in Seq(Row) /\ seen' \in Nat /\ failed' \in BOOLEAN
           /\ seen <= seen' /\ (failed => failed')
           /\ RE!Stopped => queue' = q /\ seen' = seen
           /\ \/ queue' = q /\ (failed' \/ seen' = seen)
              \/ /\ ~RE!Stopped /\ ~failed' /\ seen' = seen + 1 /\ Len(queue') = Len(q) + 1
                 /\ queue'[Len(q) + 1] = [seq |-> seen + 1, link |-> None]
                 /\ \A i \in 1..Len(q) : queue'[i] = q[i]
<1>1. seen \in Nat /\ failed \in BOOLEAN
  BY DEF RecordTypes
<1> DEFINE e == [seq |-> seen + 1, link |-> None]
<1>2. e \in Row
  BY <1>1 DEF Row
<1> HIDE DEF e
<1>3. /\ Append(q, e) \in Seq(Row) /\ Len(Append(q, e)) = Len(q) + 1
      /\ Append(q, e)[Len(q) + 1] = e /\ \A i \in 1..Len(q) : Append(q, e)[i] = q[i]
  BY <1>2, AppendProperties
<1>4. seen' = IF RE!Stopped THEN seen ELSE seen + 1
  BY DEF RE!Enqueue
<1>5. \/ queue' = q /\ failed' = failed /\ (RE!Stopped \/ failed)
      \/ queue' = q /\ failed' = TRUE /\ ~RE!Stopped
      \/ queue' = Append(q, e) /\ failed' = failed /\ ~RE!Stopped /\ ~failed
  BY DEF RE!Enqueue, e
<1>6. seen' \in Nat /\ seen <= seen' /\ (RE!Stopped => seen' = seen)
  BY <1>1, <1>4
<1>7. CASE queue' = q /\ failed' = failed /\ (RE!Stopped \/ failed)
  BY <1>1, <1>6, <1>7
<1>8. CASE queue' = q /\ failed' = TRUE /\ ~RE!Stopped
  BY <1>6, <1>8
<1>9. CASE queue' = Append(q, e) /\ failed' = failed /\ ~RE!Stopped /\ ~failed
  BY <1>1, <1>3, <1>4, <1>6, <1>9 DEF e
<1> QED
  BY <1>5, <1>7, <1>8, <1>9

\* An event that is given its entry is given one the recorder has written.
LEMMA LinkedQueue ==
    ASSUME RecordTypes, StopRow
    PROVE  /\ RE!Linked \in Seq(Row) /\ Len(RE!Linked) = Len(queue)
           /\ \A i \in 1..Len(queue) : RE!Linked[i].seq = queue[i].seq
           /\ \A i \in 1..Len(queue) : RE!Linked[i].link \in {queue[i].link} \cup recorded
<1>1. queue \in Seq(Row) /\ DOMAIN queue = 1..Len(queue) /\ Len(queue) \in Nat
  BY LenProperties DEF RecordTypes
<1>2. pending \in Seq(Pending) /\ recorded \subseteq Int
  BY DEF RecordTypes
<1>3. RE!Range(pending) = {pending[i] : i \in 1..Len(pending)}
  BY <1>2, RangeOf
<1>4. \A p, r \in RE!Range(pending) : p.seq = r.seq => p = r
  BY <1>3 DEF StopRow
<1>5. DOMAIN RE!Linked = 1..Len(queue)
  BY <1>1 DEF RE!Linked
<1>6. ASSUME NEW i \in 1..Len(queue)
      PROVE  /\ RE!Linked[i] \in Row /\ RE!Linked[i].seq = queue[i].seq
             /\ RE!Linked[i].link \in {queue[i].link} \cup recorded
  <2>1. queue[i] \in Row
    BY <1>1, <1>6, ElementOfSeq
  <2>2. CASE \E p \in RE!Range(pending) : p.seq = queue[i].seq /\ p.message \in recorded
    <3> DEFINE c == CHOOSE p \in RE!Range(pending) : p.seq = queue[i].seq
    <3>1. PICK p \in RE!Range(pending) : p.seq = queue[i].seq /\ p.message \in recorded
      BY <2>2
    <3>2. c \in RE!Range(pending) /\ c.seq = queue[i].seq
      BY <3>1
    <3>3. c = p
      BY <1>4, <3>1, <3>2
    <3>4. RE!Linked[i] = [queue[i] EXCEPT !.link = c.message]
      BY <1>1, <1>6, <2>2 DEF RE!Linked
    <3> HIDE DEF c
    <3>5. c.message \in recorded /\ c.message \in Int
      BY <1>2, <3>1, <3>3
    <3> QED
      BY <2>1, <3>4, <3>5 DEF Row
  <2>3. CASE ~\E p \in RE!Range(pending) : p.seq = queue[i].seq /\ p.message \in recorded
    <3>1. RE!Linked[i] = queue[i]
      BY <1>1, <1>6, <2>3 DEF RE!Linked
    <3> QED
      BY <2>1, <3>1
  <2> QED
    BY <2>2, <2>3
<1>7. RE!Linked = [i \in 1..Len(queue) |-> RE!Linked[i]]
  BY <1>1 DEF RE!Linked
<1>8. RE!Linked \in [1..Len(queue) -> Row]
  BY <1>6, <1>7
<1>9. RE!Linked \in Seq(Row)
  BY <1>1, <1>8, SeqDef
<1>10. Len(RE!Linked) = Len(queue)
  BY <1>1, <1>5, <1>9, LenProperties
<1> QED
  BY <1>6, <1>9, <1>10

\* What the events of Pi leave alone.
Aside == UNCHANGED <<segs, bind, segment, recorded, inflight, counts, early>>

\* A queue with the same events, to some of which entries are added.
SameEvents(q) ==
    /\ q \in Seq(Row) /\ Len(q) = Len(queue)
    /\ \A i \in 1..Len(queue) : q[i].seq = queue[i].seq
    /\ \A i \in 1..Len(queue) : q[i].link \in {queue[i].link} \cup recorded

\* A finish that waits for the end of the turn goes on after it.
FinishKept == finish' = finish \/ (finish = "waiting" /\ finish' = "flushing")

\* A queue that is followed by the next event keeps its numbers and its entries.
LEMMA QueueGrows ==
    ASSUME RecordTypes, NEW q, SameEvents(q), RE!Enqueue(q), Aside,
           QueueRow
    PROVE  QueueRow' /\ (~failed' => Handed' = Handed)
<1> USE DEF SameEvents
<1>1. /\ seen \in Nat /\ queue \in Seq(Row) /\ inflight \in Seq(Row)
      /\ inflight' = inflight /\ recorded' = recorded
  BY DEF RecordTypes, Aside
<1>2. Len(queue) \in Nat /\ Len(inflight) \in Nat
  BY <1>1, LenProperties
<1>3. /\ queue' \in Seq(Row) /\ seen' \in Nat /\ (failed => failed')
      /\ \/ queue' = q /\ (failed' \/ seen' = seen)
         \/ /\ seen' = seen + 1 /\ Len(queue') = Len(q) + 1
            /\ queue'[Len(q) + 1] = [seq |-> seen + 1, link |-> None]
            /\ \A i \in 1..Len(q) : queue'[i] = q[i]
  BY Enqueued
<1>4. \A i \in 1..Len(q) : q[i].link \in {None} \cup recorded
  BY DEF QueueRow
<1>5. CASE queue' = q /\ (failed' \/ seen' = seen)
  <2>1. ~failed' => Handed' = Handed
    BY <1>1, <1>2, <1>5 DEF Handed
  <2>2. ~failed' => \A i \in 1..Len(queue') : queue'[i].seq = seen' - Len(queue') + i
    BY <1>3, <1>5 DEF QueueRow
  <2>3. \A i \in 1..Len(queue') : queue'[i].link \in {None} \cup recorded'
    BY <1>1, <1>4, <1>5
  <2> QED
    BY <1>1, <1>3, <2>1, <2>2, <2>3 DEF QueueRow
<1>6. CASE /\ seen' = seen + 1 /\ Len(queue') = Len(q) + 1
           /\ queue'[Len(q) + 1] = [seq |-> seen + 1, link |-> None]
           /\ \A i \in 1..Len(q) : queue'[i] = q[i]
  <2>1. Handed' = Handed
    BY <1>1, <1>2, <1>6 DEF Handed
  <2>2. ASSUME NEW i \in 1..Len(queue')
        PROVE  /\ ~failed' => queue'[i].seq = seen' - Len(queue') + i
               /\ queue'[i].link \in {None} \cup recorded'
    <3>1. CASE i = Len(q) + 1
      BY <1>1, <1>2, <1>6, <3>1
    <3>2. CASE i \in 1..Len(q)
      <4>1. queue'[i] = q[i] /\ q[i].seq = queue[i].seq
        BY <1>6, <3>2
      <4>2. ~failed' => queue[i].seq = seen - Len(queue) + i
        BY <1>3, <3>2 DEF QueueRow
      <4>3. seen' - Len(queue') + i = seen - Len(queue) + i
        BY <1>1, <1>2, <1>6, <3>2
      <4> QED
        BY <1>1, <1>4, <3>2, <4>1, <4>2, <4>3
    <3> QED
      BY <1>2, <1>6, <2>2, <3>1, <3>2
  <2> QED
    BY <1>1, <1>3, <2>1, <2>2 DEF QueueRow
<1> QED
  BY <1>3, <1>5, <1>6

\* An event of Pi.
LEMMA EventComes ==
    ASSUME RecordInv, NEW q, SameEvents(q), RE!Enqueue(q), Aside,
           FinishKept,
           RecordTypes', StopRow'
    PROVE  RecordInv'
<1> USE DEF SameEvents, FinishKept
<1>1. RecordTypes
  BY DEF RecordInv
<1> SUFFICES ASSUME ~early'
             PROVE  /\ QueueRow' /\ BindingTakesPlace' /\ BoundRow'
                    /\ \A s \in 1..2 : segs'[s] \in Segment => SegmentRow(segs'[s])
  BY DEF RecordInv
<1>2. /\ segs' = segs /\ bind' = bind /\ segment' = segment /\ recorded' = recorded
      /\ counts' = counts /\ early' = early
  BY DEF Aside
<1>3. /\ QueueRow /\ BindingTakesPlace /\ BoundRow
      /\ \A s \in 1..2 : segs[s] \in Segment => SegmentRow(segs[s])
  BY <1>2 DEF RecordInv
<1>4. QueueRow' /\ (~failed' => Handed' = Handed)
  BY <1>1, <1>3, QueueGrows
<1>5. (failed => failed') /\ (RE!Stopped => seen' = seen)
  BY <1>1, Enqueued
<1>6. finish' \in Closed => finish' = finish
  BY DEF Closed
<1>7. BindingTakesPlace'
  <2> SUFFICES ASSUME bind # "bound"
               PROVE  /\ bind # "failed" /\ recorded = {} /\ (~failed' => Handed' = 0)
                      /\ finish' \notin Closed \ {"counting"}
                      /\ bind = "asking" => segment = 1 /\ segs[2] = None
                      /\ bind = "binding" => segs[segment] = None
                      /\ bind = "opening" =>
                            /\ segs[segment] \in Segment
                            /\ segs[segment].rows = << >> /\ segs[segment].saved = << >>
                            /\ segs[segment].status # "complete"
    BY <1>2 DEF BindingTakesPlace
  <2>1. ~failed' => Handed' = 0
    BY <1>3, <1>4, <1>5 DEF BindingTakesPlace
  <2>2. finish' \notin Closed \ {"counting"}
    BY <1>3, <1>6 DEF BindingTakesPlace
  <2> QED
    BY <1>3, <2>1, <2>2 DEF BindingTakesPlace
<1>8. BoundRow'
  <2> SUFFICES ASSUME bind = "bound"
               PROVE  /\ segs[segment] \in Segment
                      /\ recorded \subseteq RE!Range(segs[segment].saved)
                      /\ ~failed' => Len(segs[segment].rows) = Handed' /\ InOrder(segs[segment])
                      /\ finish' \in {"closing", "reclosing"} =>
                            counts = [events |-> segs[segment].events,
                                      entries |-> segs[segment].entries]
                      /\ segs[segment].status = "complete" =>
                            /\ finish' \in {"recounting", "reclosing", "stopped"}
                            /\ Len(segs[segment].rows) = seen' /\ InOrder(segs[segment])
    BY <1>2 DEF BoundRow
  <2>1. ~failed' => Len(segs[segment].rows) = Handed' /\ InOrder(segs[segment])
    BY <1>3, <1>4, <1>5 DEF BoundRow
  <2>2. finish' \in {"closing", "reclosing"} => finish' = finish
    BY <1>6 DEF Closed
  <2>3. segs[segment].status = "complete" => RE!Stopped /\ finish' = finish
    BY <1>3 DEF BoundRow, RE!Stopped
  <2>4. segs[segment].status = "complete" => seen' = seen
    BY <1>5, <2>3
  <2> QED
    BY <1>3, <2>1, <2>2, <2>3, <2>4 DEF BoundRow
<1> QED
  BY <1>2, <1>3, <1>4, <1>7, <1>8

LEMMA TaskAdded ==
    ASSUME RecordTypes, NEW who \in {"start", "end", "finish"}, RE!Recording(who)
    PROVE  chain' \in Seq(Task)
<1> DEFINE t == [who |-> who, left |-> None, refused |-> FALSE]
<1>1. t \in Task
  BY DEF Task
<1>2. chain' = Append(chain, t)
  BY DEF RE!Recording
<1> HIDE DEF t
<1> QED
  BY <1>1, <1>2, AppendProperties DEF RecordTypes

\* A flushed recorder keeps nothing of what Pi shows it.
LEMMA FlushedStays ==
    ASSUME RecordTypes, StopRow, NEW q, SameEvents(q), RE!Enqueue(q), Aside,
           FinishKept,
           finish \in Closed => chain' = << >>
    PROVE  /\ finish' \in Closed => queue' = << >> /\ inflight' = << >> /\ chain' = << >>
           /\ finish' \in {"closing", "reclosing"} => counts' \in [events : Nat, entries : Nat]
           /\ RE!Stopped' => RE!Stopped \/ finish' = "flushing"
           /\ finish' \in Closed \cup {"no", "recording", "waiting", "flushing"}
<1> USE DEF SameEvents, FinishKept
<1>1. finish' \in Closed => finish' = finish /\ RE!Stopped
  BY DEF Closed, RE!Stopped
<1>2. RE!Stopped => queue' = q
  BY Enqueued
<1>3. inflight' = inflight /\ counts' = counts
  BY DEF Aside
<1>4. ASSUME finish' \in Closed
      PROVE  queue' = << >> /\ inflight' = << >> /\ chain' = << >>
  <2>1. Len(q) = 0 /\ inflight = << >> /\ chain' = << >>
    BY <1>1, <1>4, EmptySeq DEF StopRow
  <2> QED
    BY <1>1, <1>2, <1>3, <1>4, <2>1, EmptySeq
<1>5. finish' \in {"closing", "reclosing"} => finish' = finish
  BY DEF Closed
<1>6. finish' \in {"closing", "reclosing"} => counts' \in [events : Nat, entries : Nat]
  BY <1>3, <1>5 DEF StopRow
<1>7. RE!Stopped' => RE!Stopped \/ finish' = "flushing"
  BY DEF RE!Stopped
<1>8. finish' \in Closed \cup {"no", "recording", "waiting", "flushing"}
  BY DEF RecordTypes
<1> QED
  BY <1>4, <1>6, <1>7, <1>8

\* An event after which the same messages wait for their entries, or none.
LEMMA EventKeepsRows ==
    ASSUME RecordInv, NEW q, SameEvents(q), RE!Enqueue(q), Aside,
           FinishKept,
           pending' = << >> \/ (pending' = pending /\ finish' = finish),
           finish \in Closed => chain' = << >>,
           doing' \in Doing,
           turn' \in BOOLEAN, chain' \in Seq(Task), UNCHANGED <<branch, cursor>>
    PROVE  RecordInv'
<1> USE DEF SameEvents, FinishKept
<1>1. RecordTypes /\ StopRow
  BY DEF RecordInv
<1>2. queue' \in Seq(Row) /\ seen' \in Nat /\ failed' \in BOOLEAN /\ seen <= seen'
  BY <1>1, Enqueued
<1>3. /\ finish' \in Closed => queue' = << >> /\ inflight' = << >> /\ chain' = << >>
      /\ finish' \in {"closing", "reclosing"} => counts' \in [events : Nat, entries : Nat]
      /\ RE!Stopped' => RE!Stopped \/ finish' = "flushing"
      /\ finish' \in Closed \cup {"no", "recording", "waiting", "flushing"}
  BY <1>1, FlushedStays
<1>4. pending' \in Seq(Pending)
  BY <1>1, EmptySeq DEF RecordTypes
<1>5. RecordTypes'
  BY <1>1, <1>2, <1>3, <1>4 DEF RecordTypes, Aside
<1>6. StopRow'
  <2>1. CASE pending' = << >>
    BY <1>3, <2>1, EmptySeq DEF StopRow
  <2>2. CASE pending' = pending /\ finish' = finish
    <3>1. /\ \A i, j \in 1..Len(pending') : pending'[i].seq = pending'[j].seq => i = j
          /\ \A i \in 1..Len(pending) : pending[i].seq <= seen
          /\ RE!Stopped' => pending' = << >>
      BY <1>1, <2>2 DEF StopRow, RE!Stopped
    <3>2. \A i \in 1..Len(pending') : pending'[i].seq <= seen'
      <4> TAKE i \in 1..Len(pending')
      <4>1. pending[i] \in Pending
        BY <1>1, <2>2, ElementOfSeq DEF RecordTypes
      <4>2. pending[i].seq \in Nat /\ seen \in Nat
        BY <1>1, <4>1 DEF Pending, RecordTypes
      <4> QED
        BY <1>2, <2>2, <3>1, <4>2
    <3> QED
      BY <1>3, <3>1, <3>2 DEF StopRow
  <2> QED
    BY <2>1, <2>2
<1> QED
  BY <1>5, <1>6, EventComes

LEMMA SameQueue == RecordTypes => SameEvents(queue)
  BY DEF RecordTypes, SameEvents

LEMMA DoingMoves ==
    ASSUME NEW d \in Doing, NEW a \in {"idle", "turn", "message", "appending", "waiting"}
    PROVE  /\ [d EXCEPT !.at = a, !.turns = @ + 1] \in Doing
           /\ [d EXCEPT !.at = a, !.messages = @ + 1] \in Doing
<1> DEFINE e == [d EXCEPT !.at = a]
<1>1. e \in Doing /\ d.turns \in Nat /\ d.messages \in Nat
  BY DEF Doing
<1>2. e.turns = d.turns /\ e.messages = d.messages
  BY DEF Doing
<1>3. [e EXCEPT !.turns = d.turns + 1] \in Doing
  <2> HIDE DEF e
  <2> QED
    BY <1>1 DEF Doing
<1>4. [e EXCEPT !.messages = d.messages + 1] \in Doing
  <2> HIDE DEF e
  <2> QED
    BY <1>1 DEF Doing
<1>5. [d EXCEPT !.at = a, !.turns = @ + 1] = [e EXCEPT !.turns = d.turns + 1]
  BY <1>2
<1>6. [d EXCEPT !.at = a, !.messages = @ + 1] = [e EXCEPT !.messages = d.messages + 1]
  BY <1>2
<1> QED
  BY <1>3, <1>4, <1>5, <1>6

LEMMA TurnStarts ==
    ASSUME RecordInv, RE!TurnStart
    PROVE  RecordInv'
<1>1. RecordTypes /\ StopRow
  BY DEF RecordInv
<1>2. /\ RE!Enqueue(queue) /\ Aside /\ finish' = finish /\ pending' = pending /\ FinishKept
      /\ UNCHANGED <<branch, cursor>> /\ chain' = chain /\ turn' = TRUE
      /\ doing' = [doing EXCEPT !.at = "turn", !.turns = @ + 1]
  BY DEF RE!TurnStart, RE!bindVars, RE!entryVars, RE!stopVars, Aside, FinishKept
<1>3. doing' \in Doing
  <2>1. doing \in Doing
    BY <1>1 DEF RecordTypes
  <2> QED
    BY <1>2, <2>1, DoingMoves, Zenon
<1>4. /\ chain' \in Seq(Task) /\ (finish \in Closed => chain' = << >>) /\ turn' \in BOOLEAN
  BY <1>1, <1>2 DEF RecordTypes, StopRow
<1> QED
  BY <1>1, <1>2, <1>3, <1>4, SameQueue, EventKeepsRows

LEMMA ToolShown ==
    ASSUME RecordInv, RE!ToolEvent
    PROVE  RecordInv'
<1>1. RecordTypes /\ StopRow
  BY DEF RecordInv
<1>2. /\ RE!Enqueue(queue) /\ Aside /\ finish' = finish /\ pending' = pending /\ FinishKept
      /\ UNCHANGED <<branch, cursor>> /\ chain' = chain /\ turn' = turn
      /\ doing' = [doing EXCEPT !.tools = @ + 1]
  BY DEF RE!ToolEvent, RE!bindVars, RE!entryVars, RE!stopVars, Aside, FinishKept
<1>3. doing' \in Doing
  <2>1. doing \in Doing
    BY <1>1 DEF RecordTypes
  <2> QED
    BY <1>2, <2>1 DEF Doing
<1>4. /\ chain' \in Seq(Task) /\ (finish \in Closed => chain' = << >>) /\ turn' \in BOOLEAN
  BY <1>1, <1>2 DEF RecordTypes, StopRow
<1> QED
  BY <1>1, <1>2, <1>3, <1>4, SameQueue, EventKeepsRows

\* Nothing is shown to the recorder and it sends nothing.
Quiet == UNCHANGED <<segs, bind, segment, recorded, inflight, queue, seen, failed, pending,
                     finish, counts, early>>

LEMMA QuietStep ==
    ASSUME RecordInv, Quiet, doing' \in Doing, turn' \in BOOLEAN, branch' \in Seq(Int),
           branch' # << >>, cursor' \in Int, chain' \in Seq(Task),
           finish \in Closed => chain' = << >>
    PROVE  RecordInv'
<1>1. /\ segs' = segs /\ bind' = bind /\ segment' = segment /\ recorded' = recorded
      /\ inflight' = inflight /\ queue' = queue /\ seen' = seen /\ failed' = failed
      /\ pending' = pending /\ finish' = finish /\ counts' = counts /\ early' = early
  BY DEF Quiet
<1>2. RecordTypes'
  BY <1>1 DEF RecordInv, RecordTypes
<1>3. RE!Stopped' = RE!Stopped
  BY <1>1 DEF RE!Stopped
<1>4. StopRow'
  BY <1>1, <1>3 DEF RecordInv, StopRow
<1>5. QueueRow => QueueRow'
  BY <1>1 DEF QueueRow, Handed
<1>6. (BindingTakesPlace => BindingTakesPlace') /\ (BoundRow => BoundRow')
  BY <1>1 DEF BindingTakesPlace, BoundRow, Handed
<1> QED
  BY <1>1, <1>2, <1>4, <1>5, <1>6 DEF RecordInv

LEMMA MessageStarts ==
    ASSUME RecordInv, RE!MessageStart
    PROVE  RecordInv'
<1>1. RecordTypes /\ StopRow
  BY DEF RecordInv
<1>2. /\ Aside /\ finish' = finish /\ pending' = pending /\ FinishKept
      /\ UNCHANGED <<branch, cursor>> /\ turn' = turn
  BY DEF RE!MessageStart, RE!bindVars, RE!stopVars, Aside, FinishKept
<1>3. doing' \in Doing
  <2>1. doing \in Doing
    BY <1>1 DEF RecordTypes
  <2> QED
    BY <2>1, DoingMoves, Zenon DEF RE!MessageStart
<1>4. turn' \in BOOLEAN /\ branch' \in Seq(Int) /\ branch' # << >> /\ cursor' \in Int
  BY <1>1, <1>2 DEF RecordTypes
<1>5. CASE RE!Synchronized
  <2>1. RE!Enqueue(queue) /\ chain' = chain
    BY <1>5 DEF RE!MessageStart
  <2>2. chain' \in Seq(Task) /\ (finish \in Closed => chain' = << >>)
    BY <1>1, <2>1 DEF RecordTypes, StopRow
  <2> QED
    BY <1>1, <1>2, <1>3, <1>4, <2>1, <2>2, SameQueue, EventKeepsRows
<1>6. CASE ~RE!Synchronized
  <2>1. RE!Recording("start") /\ UNCHANGED <<queue, seen, failed>>
    BY <1>6 DEF RE!MessageStart
  <2>2. chain' \in Seq(Task)
    BY <1>1, <2>1, TaskAdded
  <2>3. finish \notin Closed
    BY <1>1, <1>6 DEF RE!Synchronized, StopRow, RE!Stopped, Closed
  <2>4. Quiet
    BY <1>2, <2>1 DEF Quiet, Aside
  <2> QED
    BY <1>3, <1>4, <2>2, <2>3, <2>4, QuietStep
<1> QED
  BY <1>5, <1>6

LEMMA EntryAppended ==
    ASSUME RecordInv, RE!AppendEntry \/ RE!LeaveBranch
    PROVE  RecordInv'
<1>1. RecordTypes /\ StopRow
  BY DEF RecordInv
<1>2. Quiet /\ turn' = turn /\ chain' = chain /\ cursor' = cursor
  BY DEF RE!AppendEntry, RE!LeaveBranch, RE!bindVars, RE!stopVars, RE!entryVars,
         RE!eventVars, Quiet
<1>3. doing \in Doing /\ doing.messages \in Int /\ branch \in Seq(Int)
  BY <1>1 DEF RecordTypes, Doing
<1>4. doing' \in Doing
  BY <1>3 DEF RE!AppendEntry, RE!LeaveBranch, Doing
<1>5. branch' \in Seq(Int) /\ branch' # << >>
  <2>1. <<0>> \in Seq(Int) /\ <<0>> # << >>
    OBVIOUS
  <2>2. Append(branch, doing.messages) \in Seq(Int) /\ Append(branch, doing.messages) # << >>
    BY <1>3, AppendProperties
  <2> QED
    BY <2>1, <2>2 DEF RE!AppendEntry, RE!LeaveBranch
<1>6. /\ turn' \in BOOLEAN /\ cursor' \in Int /\ chain' \in Seq(Task)
      /\ finish \in Closed => chain' = << >>
  BY <1>1, <1>2 DEF RecordTypes, StopRow
<1> QED
  BY <1>2, <1>4, <1>5, <1>6, QuietStep

\* The end of a message waits for its entry.
LEMMA MessageEnds ==
    ASSUME RecordInv, RE!MessageEnd
    PROVE  RecordInv'
<1>1. RecordTypes /\ StopRow
  BY DEF RecordInv
<1>2. /\ Aside /\ finish' = finish /\ FinishKept /\ RE!Enqueue(queue)
      /\ turn' = turn /\ chain' = chain /\ branch' = branch /\ cursor' = cursor
      /\ doing' = [doing EXCEPT !.at = "appending"]
  BY DEF RE!MessageEnd, RE!bindVars, RE!entryVars, RE!stopVars, Aside, FinishKept
<1>3. doing \in Doing /\ doing.messages \in Int
  BY <1>1 DEF RecordTypes, Doing
<1>4. doing' \in Doing
  BY <1>2, <1>3 DEF Doing
<1>5. /\ turn' \in BOOLEAN /\ chain' \in Seq(Task) /\ (finish \in Closed => chain' = << >>)
      /\ seen \in Nat /\ queue \in Seq(Row) /\ pending \in Seq(Pending)
  BY <1>1, <1>2 DEF RecordTypes, StopRow
<1>6. CASE queue' = queue
  <2>1. pending' = pending /\ UNCHANGED <<branch, cursor>>
    BY <1>2, <1>6 DEF RE!MessageEnd
  <2> QED
    BY <1>1, <1>2, <1>4, <1>5, <2>1, SameQueue, EventKeepsRows
<1>7. CASE queue' # queue
  <2> DEFINE p == [seq |-> seen + 1, message |-> doing.messages]
  <2>1. pending' = Append(pending, p)
    BY <1>7 DEF RE!MessageEnd
  <2>2. p \in Pending /\ p.seq = seen + 1
    BY <1>3, <1>5 DEF Pending
  <2> HIDE DEF p
  <2>3. ~RE!Stopped /\ seen' = seen + 1 /\ queue' \in Seq(Row) /\ failed' \in BOOLEAN
    BY <1>1, <1>2, <1>5, <1>7, Enqueued
  <2>4. /\ pending' \in Seq(Pending) /\ Len(pending') = Len(pending) + 1
        /\ pending'[Len(pending) + 1] = p
        /\ \A i \in 1..Len(pending) : pending'[i] = pending[i]
        /\ Len(pending) \in Nat
    BY <1>5, <2>1, <2>2, AppendProperties, LenProperties
  <2>5. ~RE!Stopped' /\ finish' \notin Closed
    BY <1>2, <2>3 DEF RE!Stopped, Closed
  <2>6. RecordTypes'
    BY <1>1, <1>2, <1>4, <1>5, <2>3, <2>4 DEF RecordTypes, Aside
  <2>7. \A i \in 1..Len(pending) : pending[i].seq \in Nat /\ pending[i].seq <= seen
    <3> TAKE i \in 1..Len(pending)
    <3>1. pending[i] \in Pending
      BY <1>5, ElementOfSeq
    <3> QED
      BY <1>1, <3>1 DEF Pending, StopRow
  <2>8. \A i \in 1..Len(pending') : pending'[i].seq <= seen'
    <3> TAKE i \in 1..Len(pending')
    <3>1. CASE i = Len(pending) + 1
      BY <1>5, <2>2, <2>3, <2>4, <3>1
    <3>2. CASE i \in 1..Len(pending)
      <4>1. pending'[i] = pending[i]
        BY <2>4, <3>2
      <4>2. pending[i].seq \in Nat /\ pending[i].seq <= seen
        BY <2>7, <3>2
      <4> QED
        BY <1>5, <2>3, <4>1, <4>2
    <3> QED
      BY <2>4, <3>1, <3>2
  <2>9. \A i, j \in 1..Len(pending') : pending'[i].seq = pending'[j].seq => i = j
    <3> TAKE i, j \in 1..Len(pending')
    <3>1. CASE i \in 1..Len(pending) /\ j \in 1..Len(pending)
      BY <1>1, <2>4, <3>1 DEF StopRow
    <3>2. CASE i = Len(pending) + 1 /\ j \in 1..Len(pending)
      <4>1. pending'[i].seq = seen + 1 /\ pending'[j].seq <= seen /\ pending'[j].seq \in Nat
        BY <2>2, <2>4, <2>7, <3>2
      <4> QED
        BY <1>5, <4>1
    <3>3. CASE j = Len(pending) + 1 /\ i \in 1..Len(pending)
      <4>1. pending'[j].seq = seen + 1 /\ pending'[i].seq <= seen /\ pending'[i].seq \in Nat
        BY <2>2, <2>4, <2>7, <3>3
      <4> QED
        BY <1>5, <4>1
    <3> QED
      BY <2>4, <3>1, <3>2, <3>3
  <2>10. StopRow'
    BY <2>5, <2>8, <2>9 DEF StopRow, Closed
  <2> QED
    BY <1>1, <1>2, <2>6, <2>10, SameQueue, EventComes
<1> QED
  BY <1>6, <1>7

LEMMA LinkedIsSame == RecordTypes /\ StopRow => SameEvents(RE!Linked)
  BY LinkedQueue DEF SameEvents

\* The end of a turn, after which a finish goes on.
LEMMA TurnGoesOver ==
    ASSUME RecordInv, NEW q, NEW b, SameEvents(q), RE!TurnIsOver(q, b), Aside,
           chain' \in Seq(Task), finish \in Closed => chain' = << >>,
           UNCHANGED <<branch, cursor>>
    PROVE  RecordInv'
<1>1. doing \in Doing /\ turn' \in BOOLEAN
  BY DEF RecordInv, RecordTypes, RE!TurnIsOver
<1>2. doing' \in Doing
  BY <1>1 DEF RE!TurnIsOver, Doing
<1>3. /\ RE!Enqueue(q) /\ FinishKept
      /\ pending' = << >> \/ (pending' = pending /\ finish' = finish)
  BY DEF RE!TurnIsOver, FinishKept
<1> QED
  BY <1>1, <1>2, <1>3, EventKeepsRows

LEMMA TurnEnds ==
    ASSUME RecordInv, RE!TurnEnd
    PROVE  RecordInv'
<1>1. RecordTypes /\ StopRow
  BY DEF RecordInv
<1>2. Aside /\ UNCHANGED <<branch, cursor>>
  BY DEF RE!TurnEnd, RE!bindVars, Aside
<1>3. CASE RE!Synchronized
  <2>1. RE!TurnIsOver(queue, FALSE) /\ chain' = chain
    BY <1>3 DEF RE!TurnEnd
  <2>2. chain' \in Seq(Task) /\ (finish \in Closed => chain' = << >>)
    BY <1>1, <2>1 DEF RecordTypes, StopRow
  <2> QED
    BY <1>1, <1>2, <2>1, <2>2, SameQueue, TurnGoesOver
<1>4. CASE ~RE!Synchronized
  <2>1. /\ RE!Recording("end") /\ doing' = [doing EXCEPT !.at = "waiting"]
        /\ UNCHANGED <<queue, seen, failed, turn, finish, pending>>
    BY <1>4 DEF RE!TurnEnd
  <2>2. chain' \in Seq(Task)
    BY <1>1, <2>1, TaskAdded
  <2>3. finish \notin Closed
    BY <1>1, <1>4 DEF RE!Synchronized, StopRow, RE!Stopped, Closed
  <2>4. Quiet
    BY <1>2, <2>1 DEF Quiet, Aside
  <2>5. doing \in Doing
    BY <1>1 DEF RecordTypes
  <2>6. doing' \in Doing
    BY <2>1, <2>5 DEF Doing
  <2>7. turn' \in BOOLEAN /\ branch' \in Seq(Int) /\ branch' # << >> /\ cursor' \in Int
    BY <1>1, <1>2, <2>1 DEF RecordTypes
  <2> QED
    BY <2>2, <2>3, <2>4, <2>6, <2>7, QuietStep
<1> QED
  BY <1>3, <1>4

\* A task of the chain that is over.
LEMMA TaskOver ==
    ASSUME RecordInv, NEW who, RE!Recorded(who)
    PROVE  /\ Aside /\ UNCHANGED <<branch, cursor>> /\ finish \notin Closed
           /\ chain' \in Seq(Task)
<1>1. Aside /\ UNCHANGED <<branch, cursor>> /\ chain # << >> /\ chain' = Tail(chain)
  BY DEF RE!Recorded, RE!bindVars, Aside
<1>2. chain \in Seq(Task) /\ StopRow
  BY DEF RecordInv, RecordTypes
<1> QED
  BY <1>1, <1>2, HeadTailProperties DEF StopRow

LEMMA RecordedSteps ==
    ASSUME RecordInv, RE!StartRecorded \/ RE!EndRecorded
    PROVE  RecordInv'
<1>1. RecordTypes /\ StopRow
  BY DEF RecordInv
<1> DEFINE q == IF chain[1].refused THEN queue ELSE RE!Linked
<1>2. SameEvents(q)
  BY <1>1, SameQueue, LinkedIsSame
<1>3. /\ RE!StartRecorded => RE!Enqueue(q)
      /\ RE!EndRecorded => RE!TurnIsOver(q, chain[1].refused)
  BY DEF RE!StartRecorded, RE!EndRecorded
<1> HIDE DEF q
<1>4. /\ Aside /\ UNCHANGED <<branch, cursor>> /\ finish \notin Closed
      /\ chain' \in Seq(Task)
  BY TaskOver DEF RE!StartRecorded, RE!EndRecorded
<1>5. CASE RE!StartRecorded
  <2>1. /\ doing' = [doing EXCEPT !.at = "message"] /\ turn' = turn /\ finish' = finish
        /\ pending' = pending \/ pending' = << >>
    BY <1>5 DEF RE!StartRecorded
  <2>2. doing \in Doing /\ turn' \in BOOLEAN
    BY <1>1, <2>1 DEF RecordTypes
  <2>3. doing' \in Doing
    BY <2>1, <2>2 DEF Doing
  <2>4. FinishKept /\ (pending' = << >> \/ (pending' = pending /\ finish' = finish))
    BY <2>1 DEF FinishKept
  <2> QED
    BY <1>2, <1>3, <1>4, <1>5, <2>2, <2>3, <2>4, EventKeepsRows
<1>6. CASE RE!EndRecorded
  BY <1>2, <1>3, <1>4, <1>6, TurnGoesOver
<1> QED
  BY <1>5, <1>6

\* Only what is done about the stop and the tasks changes.
Stopping == UNCHANGED <<segs, bind, segment, recorded, inflight, queue, seen, counts, early,
                        doing, turn, branch, cursor>>

LEMMA StopGoesOn ==
    ASSUME RecordInv, Stopping, failed' \in BOOLEAN, failed => failed',
           chain' \in Seq(Task),
           \/ RE!Stopped /\ finish' = finish /\ pending' = pending /\ finish \notin Closed
           \/ ~RE!Stopped /\ finish' \in {"no", "recording", "waiting"} /\ pending' = pending
           \/ ~RE!Stopped /\ finish' = "flushing" /\ pending' = << >>
           \/ /\ finish = "flushing" /\ finish' = "counting" /\ pending' = pending
              /\ queue = << >> /\ inflight = << >> /\ chain' = << >>
    PROVE  RecordInv'
<1>1. /\ segs' = segs /\ bind' = bind /\ segment' = segment /\ recorded' = recorded
      /\ inflight' = inflight /\ queue' = queue /\ seen' = seen /\ counts' = counts
      /\ early' = early /\ doing' = doing /\ turn' = turn /\ branch' = branch
      /\ cursor' = cursor
  BY DEF Stopping
<1>2. RecordTypes /\ StopRow
  BY DEF RecordInv
<1>3. /\ finish' \in Closed => /\ finish' = "counting" /\ queue = << >>
                               /\ inflight = << >> /\ chain' = << >>
      /\ finish' \in Closed \cup {"no", "recording", "waiting", "flushing"}
      /\ finish \notin Closed
      /\ RE!Stopped' => pending' = << >>
      /\ pending' = pending \/ pending' = << >>
  BY <1>2 DEF RE!Stopped, Closed, StopRow, RecordTypes
<1>4. RecordTypes'
  BY <1>1, <1>2, <1>3, EmptySeq DEF RecordTypes
<1>5. finish' \notin {"closing", "reclosing"}
  BY <1>3 DEF Closed
<1>6. StopRow'
  <2>1. CASE pending' = pending
    BY <1>1, <1>2, <1>3, <1>5, <2>1 DEF StopRow
  <2>2. CASE pending' = << >>
    BY <1>1, <1>3, <1>5, <2>2, EmptySeq DEF StopRow
  <2> QED
    BY <1>3, <2>1, <2>2
<1>7. QueueRow => QueueRow'
  BY <1>1 DEF QueueRow, Handed
<1>8. BindingTakesPlace => BindingTakesPlace'
  BY <1>1, <1>3 DEF BindingTakesPlace, Handed
<1>9. BoundRow => BoundRow'
  <2> SUFFICES ASSUME BoundRow, bind = "bound" PROVE BoundRow'
    BY <1>1 DEF BoundRow
  <2>1. segs[segment].status # "complete"
    BY <1>3 DEF BoundRow, Closed
  <2> QED
    BY <1>1, <1>5, <2>1 DEF BoundRow, Handed
<1> QED
  BY <1>1, <1>4, <1>6, <1>7, <1>8, <1>9 DEF RecordInv

LEMMA FinishingSteps ==
    ASSUME RecordInv,
           \/ RE!FinishRecorded \/ RE!FinishRecording \/ RE!FinishTimeout \/ RE!Shutdown
           \/ RE!StopFlushed
    PROVE  RecordInv'
<1>1. RecordTypes /\ StopRow
  BY DEF RecordInv
<1>2. failed \in BOOLEAN /\ turn \in BOOLEAN /\ chain \in Seq(Task)
  BY <1>1 DEF RecordTypes
<1>3. RE!Stop => finish' = "flushing" /\ pending' = << >> /\ failed' \in BOOLEAN
                 /\ (failed => failed')
  BY <1>2 DEF RE!Stop
<1>4. CASE RE!FinishRecorded
  <2>1. Aside /\ UNCHANGED <<branch, cursor>> /\ finish \notin Closed /\ chain' \in Seq(Task)
    BY <1>4, TaskOver DEF RE!FinishRecorded
  <2>2. Stopping
    BY <1>4, <2>1 DEF RE!FinishRecorded, Aside, Stopping
  <2>3. \/ RE!Stopped /\ UNCHANGED <<finish, pending, failed>>
        \/ ~RE!Stopped /\ finish' = "waiting" /\ UNCHANGED <<pending, failed>>
        \/ ~RE!Stopped /\ RE!Stop
    BY <1>4 DEF RE!FinishRecorded
  <2> QED
    BY <1>2, <1>3, <2>1, <2>2, <2>3, StopGoesOn
<1>5. CASE RE!FinishRecording
  <2>1. Stopping /\ ~RE!Stopped /\ UNCHANGED <<pending, failed>> /\ finish' = "recording"
    BY <1>5 DEF RE!FinishRecording, RE!StopStep, RE!bindVars, Stopping, RE!Stopped
  <2>2. chain' \in Seq(Task)
    BY <1>1, <1>5, TaskAdded DEF RE!FinishRecording
  <2> QED
    BY <1>2, <2>1, <2>2, StopGoesOn
<1>6. CASE RE!FinishTimeout \/ RE!Shutdown
  <2>1. Stopping /\ ~RE!Stopped /\ RE!Stop /\ chain' = chain
    BY <1>6 DEF RE!FinishTimeout, RE!Shutdown, RE!StopStep, RE!bindVars, Stopping, RE!Stopped
  <2> QED
    BY <1>2, <1>3, <2>1, StopGoesOn
<1>7. CASE RE!StopFlushed
  <2>1. /\ Stopping /\ finish = "flushing" /\ finish' = "counting" /\ queue = << >>
        /\ inflight = << >> /\ chain = << >> /\ UNCHANGED <<chain, pending, failed>>
    BY <1>7 DEF RE!StopFlushed, RE!StopStep, RE!bindVars, Stopping
  <2> QED
    BY <1>2, <2>1, StopGoesOn
<1> QED
  BY <1>4, <1>5, <1>6, <1>7

\* The entries to write are those of the branch after the cursor.
LEMMA RecordStarts ==
    ASSUME RecordInv, RE!StartRecord
    PROVE  RecordInv'
<1> DEFINE on == {i \in DOMAIN branch : branch[i] = cursor}
           after == IF on = {} THEN << >>
                    ELSE SubSeq(branch, (CHOOSE i \in on : TRUE) + 1, Len(branch))
<1>1. /\ chain # << >> /\ chain' = [chain EXCEPT ![1].left = after]
      /\ cursor' = IF on = {} THEN RE!Last(branch) ELSE cursor
      /\ UNCHANGED <<doing, turn, branch>> /\ Quiet
  BY DEF RE!StartRecord, RE!bindVars, RE!eventVars, RE!stopVars, Quiet
<1>2. RecordTypes /\ StopRow
  BY DEF RecordInv
<1>3. /\ branch \in Seq(Int) /\ branch # << >> /\ cursor \in Int /\ chain \in Seq(Task)
      /\ doing \in Doing /\ turn \in BOOLEAN
  BY <1>2 DEF RecordTypes
<1>4. Len(branch) \in Nat \ {0} /\ DOMAIN branch = 1..Len(branch)
  BY <1>3, EmptySeq, LenProperties
<1>5. after \in Seq(Int)
  <2>1. CASE on = {}
    BY <2>1
  <2>2. CASE on # {}
    <3> DEFINE c == CHOOSE i \in on : TRUE
    <3>1. c \in on
      BY <2>2
    <3>2. c \in 1..Len(branch)
      BY <1>4, <3>1
    <3> HIDE DEF c, on
    <3>3. \A i \in (c + 1)..Len(branch) : branch[i] \in Int
      <4> TAKE i \in (c + 1)..Len(branch)
      <4>1. i \in 1..Len(branch)
        BY <1>4, <3>2
      <4> QED
        BY <1>3, <4>1, ElementOfSeq
    <3>4. SubSeq(branch, c + 1, Len(branch)) \in Seq(Int)
      BY <1>4, <3>2, <3>3, SubSeqProperties
    <3> QED
      BY <2>2, <3>4 DEF c
  <2> QED
    BY <2>1, <2>2
<1>6. cursor' \in Int
  <2>1. branch[Len(branch)] \in Int
    BY <1>3, <1>4, ElementOfSeq
  <2> QED
    BY <1>1, <1>3, <2>1 DEF RE!Last
<1> HIDE DEF on, after
<1>7. chain' \in Seq(Task)
  <2>1. 1 \in 1..Len(chain) /\ chain[1] \in Task
    BY <1>1, <1>3, EmptySeq, ElementOfSeq
  <2>2. [chain[1] EXCEPT !.left = after] \in Task
    BY <1>5, <2>1 DEF Task
  <2>3. chain' = [chain EXCEPT ![1] = [chain[1] EXCEPT !.left = after]]
    BY <1>1
  <2> QED
    BY <1>3, <2>1, <2>2, <2>3, ExceptSeq
<1>8. finish \notin Closed
  BY <1>1, <1>2 DEF StopRow
<1> QED
  BY <1>1, <1>3, <1>6, <1>7, <1>8, QuietStep

\* The part of the invariant about what the recorder has sent is needed while
\* it has sent nothing before it was bound.
LEMMA SendsWhenBound ==
    ASSUME RecordInv, RE!Early, bind' = bind, ~early'
    PROVE  /\ ~early /\ bind = "bound" /\ bind' = "bound"
           /\ QueueRow /\ BoundRow
           /\ \A s \in 1..2 : segs[s] \in Segment => SegmentRow(segs[s])
<1>1. early' = (early \/ bind # "bound")
  BY DEF RE!Early
<1>2. early \in BOOLEAN
  BY DEF RecordInv, RecordTypes
<1> QED
  BY <1>1, <1>2 DEF RecordInv

LEMMA EarlyIsBoolean == RecordTypes /\ RE!Early => early' \in BOOLEAN
  BY DEF RecordTypes, RE!Early

\* A segment that is not None is one.
LEMMA SegmentThere ==
    ASSUME RecordTypes, NEW s \in 1..2, segs[s] # None
    PROVE  segs[s] \in Segment
  BY DEF RecordTypes

LEMMA NoneIsNoSegment == None \notin Segment
  BY RecordingAssumption DEF Segment, Row

\* An entry is saved with its segment and is recorded only then.
LEMMA EntryWritten ==
    ASSUME RecordInv, RE!WriteEntry
    PROVE  RecordInv'
<1> DEFINE entry == chain[1].left[1]
           fits == RE!EntryFits(segs[segment], entry)
           s == segs[segment]
           sn == [s EXCEPT !.saved = Append(@, entry), !.entries = @ + 1]
           next == [segs EXCEPT ![segment] = sn]
<1>1. /\ chain # << >> /\ chain[1].left \notin {None, << >>} /\ RE!Early
      /\ UNCHANGED <<bind, segment, doing, turn, branch, queue, pending, seen, inflight, finish,
                     counts>>
  BY DEF RE!WriteEntry, RE!Writes, RE!bindVars, RE!eventVars, RE!stopVars
<1>2. RecordTypes /\ StopRow
  BY DEF RecordInv
<1>3. finish \notin Closed
  BY <1>1, <1>2 DEF StopRow
<1>4. /\ chain \in Seq(Task) /\ 1 \in 1..Len(chain) /\ chain[1] \in Task
      /\ chain[1].left \in Seq(Int) /\ chain[1].left # << >>
  <2>1. chain \in Seq(Task) /\ 1 \in 1..Len(chain)
    BY <1>1, <1>2, EmptySeq DEF RecordTypes
  <2>2. chain[1] \in Task
    BY <2>1, ElementOfSeq
  <2> QED
    BY <1>1, <2>1, <2>2 DEF Task
<1>5. entry \in Int
  <2>1. 1 \in 1..Len(chain[1].left)
    BY <1>4, EmptySeq
  <2> QED
    BY <1>4, <2>1, ElementOfSeq
<1>6. /\ segs' = segs \/ (fits /\ segs' = next)
      /\ \/ /\ fits /\ segs' = next /\ chain' = [chain EXCEPT ![1].left = Tail(@)]
            /\ cursor' = entry /\ recorded' = recorded \cup {entry} /\ failed' = failed
         \/ /\ chain' = [chain EXCEPT ![1].left = << >>, ![1].refused = TRUE]
            /\ failed' = TRUE /\ cursor' = cursor /\ recorded' = recorded
  <2>1. next = [segs EXCEPT ![segment].saved = Append(@, entry), ![segment].entries = @ + 1]
    OBVIOUS
  <2> QED
    BY <2>1 DEF RE!WriteEntry
<1> HIDE DEF entry, next
<1>7. chain' \in Seq(Task)
  <2>1. Tail(chain[1].left) \in Seq(Int) /\ << >> \in Seq(Int)
    BY <1>4, HeadTailProperties, EmptySeq
  <2>2. CASE chain' = [chain EXCEPT ![1].left = Tail(@)]
    <3>1. [chain[1] EXCEPT !.left = Tail(chain[1].left)] \in Task
      BY <1>4, <2>1 DEF Task
    <3>2. chain' = [chain EXCEPT ![1] = [chain[1] EXCEPT !.left = Tail(chain[1].left)]]
      BY <2>2
    <3> QED
      BY <1>4, <3>1, <3>2, ExceptSeq
  <2>3. CASE chain' = [chain EXCEPT ![1].left = << >>, ![1].refused = TRUE]
    <3> DEFINE t == [chain[1] EXCEPT !.left = << >>]
    <3>1. t \in Task
      BY <1>4, <2>1 DEF Task
    <3>2. [t EXCEPT !.refused = TRUE] \in Task
      <4> HIDE DEF t
      <4> QED
        BY <3>1 DEF Task
    <3>3. chain' = [chain EXCEPT ![1] = [t EXCEPT !.refused = TRUE]]
      BY <1>4, <2>3
    <3> QED
      BY <1>4, <3>2, <3>3, ExceptSeq
  <2> QED
    BY <1>6, <2>2, <2>3
<1>8. fits => s # None /\ s \in Segment /\ s.entries = Len(s.saved)
  BY <1>2, SegmentThere DEF RE!EntryFits, RecordTypes
<1>9. fits => /\ sn \in Segment /\ sn.status = s.status /\ sn.events = s.events
              /\ sn.rows = s.rows /\ sn.saved = Append(s.saved, entry)
              /\ sn.entries = s.entries + 1
  <2> SUFFICES ASSUME fits
               PROVE /\ sn \in Segment /\ sn.status = s.status /\ sn.events = s.events
                     /\ sn.rows = s.rows /\ sn.saved = Append(s.saved, entry)
                     /\ sn.entries = s.entries + 1
    OBVIOUS
  <2> DEFINE m == [s EXCEPT !.saved = Append(s.saved, entry)]
  <2>1. s \in Segment /\ s.saved \in Seq(Int)
    BY <1>8 DEF Segment
  <2>2. Append(s.saved, entry) \in Seq(Int)
    BY <1>5, <2>1, AppendProperties
  <2> HIDE DEF s
  <2>3. /\ m \in Segment /\ m.status = s.status /\ m.events = s.events /\ m.rows = s.rows
        /\ m.saved = Append(s.saved, entry) /\ m.entries = s.entries /\ s.entries \in Nat
    BY <2>1, <2>2 DEF Segment
  <2>4. sn = [m EXCEPT !.entries = s.entries + 1]
    BY <2>1 DEF Segment
  <2> HIDE DEF m, sn
  <2>5. s.entries + 1 \in Nat
    BY <2>3
  <2>6. sn \in Segment
    BY <2>3, <2>4, <2>5 DEF Segment
  <2>7. sn.status = m.status /\ sn.events = m.events /\ sn.rows = m.rows /\ sn.saved = m.saved
    BY <2>3, <2>4 DEF Segment
  <2>8. sn.entries = s.entries + 1
    BY <2>3, <2>4 DEF Segment
  <2> QED
    BY <2>3, <2>6, <2>7, <2>8
<1> HIDE DEF sn, s, fits
<1>10. /\ segs \in [1..2 -> {None} \cup Segment] /\ segment \in 1..2 /\ recorded \subseteq Int
       /\ cursor \in Int /\ failed \in BOOLEAN
  BY <1>2 DEF RecordTypes
<1>11. fits => /\ next \in [1..2 -> {None} \cup Segment] /\ next[segment] = sn
               /\ \A x \in 1..2 : x # segment => next[x] = segs[x]
  BY <1>9, <1>10 DEF next
<1>12. RecordTypes'
  <2>1. segs' \in [1..2 -> {None} \cup Segment]
    BY <1>6, <1>10, <1>11
  <2>2. cursor' \in Int /\ recorded' \subseteq Int /\ failed' \in BOOLEAN
    BY <1>5, <1>6, <1>10
  <2>3. early' \in BOOLEAN
    BY <1>1, <1>2, EarlyIsBoolean
  <2>4. bind' = "opening" => segs'[segment'] \in Segment
    BY <1>1, <1>2, <1>6, <1>9, <1>11 DEF RecordTypes
  <2> QED
    BY <1>1, <1>2, <1>7, <2>1, <2>2, <2>3, <2>4 DEF RecordTypes
<1>13. StopRow'
  <2>1. RE!Stopped' = RE!Stopped
    BY <1>1 DEF RE!Stopped
  <2>2. finish' \notin {"closing", "reclosing"} /\ finish' \notin Closed
    BY <1>1, <1>3 DEF Closed
  <2> QED
    BY <1>1, <1>2, <2>1, <2>2 DEF StopRow
<1> SUFFICES ASSUME ~early'
             PROVE  /\ QueueRow' /\ BindingTakesPlace' /\ BoundRow'
                    /\ \A x \in 1..2 : segs'[x] \in Segment => SegmentRow(segs'[x])
  BY <1>12, <1>13 DEF RecordInv
<1>14. /\ bind = "bound" /\ bind' = "bound" /\ QueueRow /\ BoundRow
       /\ \A x \in 1..2 : segs[x] \in Segment => SegmentRow(segs[x])
  BY <1>1, SendsWhenBound
<1>15. failed' => failed' = TRUE
  OBVIOUS
<1>16. recorded \subseteq recorded' /\ (~failed' => ~failed)
  BY <1>6
<1>17. QueueRow'
  BY <1>1, <1>14, <1>16 DEF QueueRow, Handed
<1>18. fits => RE!Range(sn.saved) = RE!Range(s.saved) \cup {entry}
  <2> SUFFICES ASSUME fits PROVE RE!Range(sn.saved) = RE!Range(s.saved) \cup {entry}
    OBVIOUS
  <2>1. s.saved \in Seq(Int) /\ sn.saved \in Seq(Int)
    BY <1>8, <1>9 DEF Segment
  <2>2. /\ Len(sn.saved) = Len(s.saved) + 1 /\ Len(s.saved) \in Nat
        /\ sn.saved[Len(s.saved) + 1] = entry
        /\ \A i \in 1..Len(s.saved) : sn.saved[i] = s.saved[i]
    <3>1. sn.saved = Append(s.saved, entry) /\ s.saved \in Seq(Int)
      BY <1>9, <2>1
    <3> HIDE DEF sn, s
    <3> QED
      BY <1>5, <3>1, AppendProperties, LenProperties
  <2>3. /\ RE!Range(sn.saved) = {sn.saved[i] : i \in 1..Len(sn.saved)}
        /\ RE!Range(s.saved) = {s.saved[i] : i \in 1..Len(s.saved)}
    BY <2>1, RangeOf
  <2>4. \A x \in RE!Range(sn.saved) : x \in RE!Range(s.saved) \cup {entry}
    BY <2>2, <2>3
  <2>5. \A x \in RE!Range(s.saved) : x \in RE!Range(sn.saved)
    BY <2>2, <2>3
  <2>6. entry \in RE!Range(sn.saved)
    BY <2>2, <2>3
  <2> QED
    BY <2>4, <2>5, <2>6
<1>19. SegmentRow(s) /\ fits => SegmentRow(sn)
  <2> SUFFICES ASSUME SegmentRow(s), fits PROVE SegmentRow(sn)
    OBVIOUS
  <2>1. Len(sn.saved) = Len(s.saved) + 1
    BY <1>5, <1>8, <1>9, AppendProperties DEF Segment
  <2> QED
    BY <1>8, <1>9, <1>18, <2>1 DEF SegmentRow
<1>20. s \in Segment /\ s = segs[segment]
  BY <1>14 DEF BoundRow, s
<1>21. \A x \in 1..2 : segs'[x] \in Segment => SegmentRow(segs'[x])
  BY <1>6, <1>10, <1>11, <1>14, <1>19, <1>20
<1>22. BoundRow'
  <2>1. s.status # "complete" /\ recorded \subseteq RE!Range(s.saved)
        /\ (~failed => Len(s.rows) = Handed /\ InOrder(s))
    BY <1>3, <1>14, <1>20 DEF BoundRow, Closed
  <2>2. finish' \notin {"closing", "reclosing"} /\ Handed' = Handed /\ segment' = segment
    BY <1>1, <1>3 DEF Closed, Handed
  <2>3. CASE segs' = segs
    <3>1. segs'[segment'] = s
      BY <1>20, <2>2, <2>3
    <3>2. recorded' \subseteq RE!Range(s.saved)
      BY <1>6, <2>1, <2>3, <1>11, <1>18, <1>20
    <3> QED
      BY <1>16, <1>20, <2>1, <2>2, <3>1, <3>2 DEF BoundRow
  <2>4. CASE fits /\ segs' = next
    <3>1. segs'[segment'] = sn
      BY <1>11, <2>2, <2>4
    <3>2. recorded' \subseteq RE!Range(sn.saved)
      BY <1>6, <1>18, <2>1, <2>4
    <3>3. ~failed' => Len(sn.rows) = Handed /\ InOrder(sn)
      BY <1>9, <1>16, <2>1, <2>4 DEF InOrder
    <3> QED
      BY <1>9, <2>1, <2>2, <2>4, <3>1, <3>2, <3>3 DEF BoundRow
  <2> QED
    BY <1>6, <2>3, <2>4
<1> QED
  BY <1>14, <1>17, <1>21, <1>22 DEF BindingTakesPlace

\* A batch is the head of the queue.
LEMMA FlushTakes ==
    ASSUME RecordInv, RE!Flush
    PROVE  RecordInv'
<1>1. RecordTypes /\ StopRow
  BY DEF RecordInv
<1>2. /\ pending = << >> /\ inflight = << >> /\ queue # << >>
      /\ UNCHANGED <<segs, bind, segment, doing, turn, branch, cursor, recorded, chain, pending,
                     seen, failed, finish, counts, early>>
  BY DEF RE!Flush, RE!bindVars, RE!entryVars, RE!stopVars
<1>3. PICK n \in 1..MaxBatch : /\ n <= Len(queue) /\ inflight' = SubSeq(queue, 1, n)
                               /\ queue' = SubSeq(queue, n + 1, Len(queue))
  BY DEF RE!Flush
<1>4. n \in Nat /\ n > 0 /\ queue \in Seq(Row) /\ Len(queue) \in Nat /\ seen \in Nat
  BY <1>1, LenProperties, RecordingAssumption DEF RecordTypes
<1>5. /\ inflight' \in Seq(Row) /\ Len(inflight') = n
      /\ \A i \in 1..n : inflight'[i] = queue[i]
  <2>1. \A i \in 1..n : queue[i] \in Row
    BY <1>3, <1>4, ElementOfSeq
  <2>2. /\ SubSeq(queue, 1, n) \in Seq(Row) /\ Len(SubSeq(queue, 1, n)) = n
        /\ \A i \in 1..n : SubSeq(queue, 1, n)[i] = queue[i]
    BY <1>3, <1>4, <2>1, SubSeqProperties
  <2> QED
    BY <1>3, <2>2
<1>6. /\ queue' \in Seq(Row) /\ Len(queue') = Len(queue) - n
      /\ \A i \in 1..Len(queue') : queue'[i] = queue[n + i]
  <2>1. \A i \in (n + 1)..Len(queue) : queue[i] \in Row
    <3> TAKE i \in (n + 1)..Len(queue)
    <3>1. i \in 1..Len(queue)
      BY <1>4
    <3> QED
      BY <1>4, <3>1, ElementOfSeq
  <2>2. SubSeq(queue, n + 1, Len(queue)) \in Seq(Row)
    BY <1>4, <2>1, SubSeqProperties
  <2>3. /\ Len(SubSeq(queue, n + 1, Len(queue))) = Len(queue) - n
        /\ \A i \in 1..(Len(queue) - n) : SubSeq(queue, n + 1, Len(queue))[i] = queue[n + i]
    BY <1>3, <1>4
  <2> QED
    BY <1>3, <2>2, <2>3
<1>7. finish \notin Closed
  BY <1>1, <1>2 DEF StopRow
<1>8. RecordTypes'
  BY <1>1, <1>2, <1>5, <1>6 DEF RecordTypes
<1>9. StopRow'
  <2>1. RE!Stopped' = RE!Stopped
    BY <1>2 DEF RE!Stopped
  <2>2. finish' \notin Closed /\ finish' \notin {"closing", "reclosing"}
    BY <1>2, <1>7 DEF Closed
  <2> QED
    BY <1>1, <1>2, <2>1, <2>2 DEF StopRow
<1>10. Handed' = Handed
  <2>1. Len(inflight) = 0
    BY <1>2, EmptySeq
  <2> QED
    BY <1>2, <1>4, <1>5, <1>6, <2>1 DEF Handed
<1>11. Handed = seen - Len(queue)
  BY <1>2, <1>4, EmptySeq DEF Handed
<1>12. ASSUME QueueRow PROVE QueueRow'
  <2>1. ~failed' => Handed' >= 0
    BY <1>2, <1>10, <1>12 DEF QueueRow
  <2>2. ASSUME NEW i \in 1..Len(inflight')
        PROVE  /\ ~failed' => inflight'[i].seq = Handed' + i
               /\ inflight'[i].link \in {None} \cup recorded'
    <3>1. i \in 1..Len(queue) /\ inflight'[i] = queue[i]
      BY <1>3, <1>4, <1>5, <2>2
    <3> QED
      BY <1>2, <1>10, <1>11, <1>12, <3>1 DEF QueueRow
  <2>3. ASSUME NEW i \in 1..Len(queue')
        PROVE  /\ ~failed' => queue'[i].seq = seen' - Len(queue') + i
               /\ queue'[i].link \in {None} \cup recorded'
    <3>1. n + i \in 1..Len(queue) /\ queue'[i] = queue[n + i]
      BY <1>3, <1>4, <1>6, <2>3
    <3>2. seen' - Len(queue') + i = seen - Len(queue) + (n + i)
      BY <1>2, <1>4, <1>6, <2>3
    <3> QED
      BY <1>2, <1>12, <3>1, <3>2 DEF QueueRow
  <2> QED
    BY <2>1, <2>2, <2>3 DEF QueueRow
<1>13. (BindingTakesPlace => BindingTakesPlace') /\ (BoundRow => BoundRow')
  BY <1>2, <1>10 DEF BindingTakesPlace, BoundRow
<1> QED
  BY <1>2, <1>8, <1>9, <1>12, <1>13 DEF RecordInv

\* A batch is written whole where the last one ended, or the capture has failed.
LEMMA BatchWritten ==
    ASSUME RecordInv, RE!FlushDone
    PROVE  RecordInv'
<1> DEFINE s == segs[segment]
           fits == RE!BatchFits(s)
           sn == [s EXCEPT !.rows = @ \o inflight, !.events = @ + Len(inflight)]
           next == [segs EXCEPT ![segment] = sn]
<1>1. /\ inflight # << >> /\ inflight' = << >> /\ RE!Early
      /\ UNCHANGED <<bind, segment, doing, turn, branch, cursor, recorded, chain, pending, seen,
                     finish, counts>>
  BY DEF RE!FlushDone, RE!bindVars, RE!entryVars, RE!stopVars
<1>2. /\ segs' = segs \/ (fits /\ segs' = next)
      /\ \/ fits /\ segs' = next /\ queue' = queue /\ failed' = failed
         \/ queue' = << >> /\ failed' = TRUE
  <2>1. next = [segs EXCEPT ![segment].rows = @ \o inflight,
                            ![segment].events = @ + Len(inflight)]
    OBVIOUS
  <2> QED
    BY <2>1 DEF RE!FlushDone
<1> HIDE DEF next
<1>3. RecordTypes /\ StopRow
  BY DEF RecordInv
<1>4. /\ segs \in [1..2 -> {None} \cup Segment] /\ segment \in 1..2 /\ recorded \subseteq Int
      /\ failed \in BOOLEAN /\ inflight \in Seq(Row) /\ queue \in Seq(Row) /\ seen \in Nat
  BY <1>3 DEF RecordTypes
<1>5. finish \notin Closed
  BY <1>1, <1>3 DEF StopRow
<1>6. fits => s \in Segment /\ s.status = "recording" /\ inflight[1].seq = s.events + 1
  BY <1>4 DEF RE!BatchFits
<1>7. fits => /\ sn \in Segment /\ sn.status = s.status /\ sn.entries = s.entries
              /\ sn.saved = s.saved /\ sn.rows = s.rows \o inflight
              /\ sn.events = s.events + Len(inflight)
  <2> SUFFICES ASSUME fits
               PROVE /\ sn \in Segment /\ sn.status = s.status /\ sn.entries = s.entries
                     /\ sn.saved = s.saved /\ sn.rows = s.rows \o inflight
                     /\ sn.events = s.events + Len(inflight)
    OBVIOUS
  <2> DEFINE m == [s EXCEPT !.rows = s.rows \o inflight]
  <2>1. s \in Segment /\ s.rows \in Seq(Row)
    BY <1>6 DEF Segment
  <2>2. s.rows \o inflight \in Seq(Row) /\ Len(inflight) \in Nat
    BY <1>4, <2>1, ConcatProperties, LenProperties
  <2> HIDE DEF s
  <2>3. /\ m \in Segment /\ m.status = s.status /\ m.events = s.events
        /\ m.saved = s.saved /\ m.entries = s.entries /\ s.events \in Nat
    BY <2>1, <2>2 DEF Segment
  <2>4. m.rows = s.rows \o inflight
    BY <2>1 DEF Segment
  <2>5. sn = [m EXCEPT !.events = s.events + Len(inflight)]
    BY <2>1 DEF Segment
  <2> HIDE DEF m, sn
  <2>6. s.events + Len(inflight) \in Nat
    BY <2>2, <2>3
  <2>7. sn \in Segment
    BY <2>3, <2>5, <2>6 DEF Segment
  <2>8. sn.status = m.status /\ sn.entries = m.entries /\ sn.rows = m.rows /\ sn.saved = m.saved
    BY <2>3, <2>5 DEF Segment
  <2>9. sn.events = s.events + Len(inflight)
    BY <2>3, <2>5 DEF Segment
  <2> QED
    BY <2>3, <2>4, <2>7, <2>8, <2>9
<1> HIDE DEF sn, s, fits
<1>8. fits => /\ next \in [1..2 -> {None} \cup Segment] /\ next[segment] = sn
              /\ \A x \in 1..2 : x # segment => next[x] = segs[x]
  BY <1>4, <1>7 DEF next
<1>9. RecordTypes'
  <2>1. segs' \in [1..2 -> {None} \cup Segment]
    BY <1>2, <1>4, <1>8
  <2>2. queue' \in Seq(Row) /\ inflight' \in Seq(Row) /\ failed' \in BOOLEAN
    BY <1>1, <1>2, <1>4, EmptySeq
  <2>3. early' \in BOOLEAN
    BY <1>1, <1>3, EarlyIsBoolean
  <2>4. bind' = "opening" => segs'[segment'] \in Segment
    BY <1>1, <1>2, <1>3, <1>7, <1>8 DEF RecordTypes
  <2> QED
    BY <1>1, <1>3, <2>1, <2>2, <2>3, <2>4 DEF RecordTypes
<1>10. StopRow'
  <2>1. RE!Stopped' = RE!Stopped
    BY <1>1 DEF RE!Stopped
  <2>2. finish' \notin {"closing", "reclosing"} /\ finish' \notin Closed
    BY <1>1, <1>5 DEF Closed
  <2> QED
    BY <1>1, <1>3, <2>1, <2>2 DEF StopRow
<1> SUFFICES ASSUME ~early'
             PROVE  /\ QueueRow' /\ BindingTakesPlace' /\ BoundRow'
                    /\ \A x \in 1..2 : segs'[x] \in Segment => SegmentRow(segs'[x])
  BY <1>9, <1>10 DEF RecordInv
<1>11. /\ bind = "bound" /\ bind' = "bound" /\ QueueRow /\ BoundRow
       /\ \A x \in 1..2 : segs[x] \in Segment => SegmentRow(segs[x])
  BY <1>1, SendsWhenBound
<1>12. s \in Segment /\ s = segs[segment] /\ SegmentRow(s)
  BY <1>4, <1>11 DEF BoundRow, s
<1>13. /\ s.status # "complete" /\ recorded \subseteq RE!Range(s.saved)
       /\ (~failed => Len(s.rows) = Handed /\ InOrder(s))
  BY <1>5, <1>11, <1>12 DEF BoundRow, Closed
<1>14. Len(inflight) \in Nat /\ Len(queue) \in Nat /\ Len(inflight') = 0 /\ s.rows \in Seq(Row)
  BY <1>1, <1>4, <1>12, LenProperties, EmptySeq DEF Segment
<1>15. ~failed' => fits /\ ~failed /\ segs' = next /\ queue' = queue
                   /\ Handed' = Handed + Len(inflight)
  BY <1>1, <1>2, <1>4, <1>14 DEF Handed
<1>16. QueueRow'
  <2>1. ~failed' => Handed' >= 0
    BY <1>4, <1>11, <1>14, <1>15 DEF QueueRow, Handed
  <2>2. ~failed' => \A i \in 1..Len(queue') : queue'[i].seq = seen' - Len(queue') + i
    BY <1>1, <1>11, <1>15 DEF QueueRow
  <2>3. \A i \in 1..Len(queue') : queue'[i].link \in {None} \cup recorded'
    BY <1>1, <1>2, <1>11, EmptySeq DEF QueueRow
  <2> QED
    BY <1>14, <2>1, <2>2, <2>3 DEF QueueRow
<1>17. /\ Len(s.rows \o inflight) = Len(s.rows) + Len(inflight) /\ Len(s.rows) \in Nat
       /\ \A i \in 1..Len(s.rows) : (s.rows \o inflight)[i] = s.rows[i]
       /\ \A i \in (Len(s.rows) + 1)..(Len(s.rows) + Len(inflight)) :
             /\ (s.rows \o inflight)[i] = inflight[i - Len(s.rows)]
             /\ i - Len(s.rows) \in 1..Len(inflight)
  BY <1>4, <1>14, ConcatProperties, LenProperties
<1>18. ASSUME fits PROVE SegmentRow(sn)
  <2>1. sn.events = Len(sn.rows) /\ sn.entries = Len(sn.saved)
    BY <1>7, <1>12, <1>17, <1>18 DEF SegmentRow
  <2>2. ASSUME NEW i \in 1..Len(sn.rows), sn.rows[i].link # None
        PROVE  sn.rows[i].link \in RE!Range(sn.saved) \cup {-1}
    <3>1. CASE i \in 1..Len(s.rows)
      BY <1>7, <1>12, <1>17, <1>18, <2>2, <3>1 DEF SegmentRow
    <3>2. CASE i \in (Len(s.rows) + 1)..(Len(s.rows) + Len(inflight))
      <4>1. /\ sn.rows[i] = inflight[i - Len(s.rows)] /\ sn.saved = s.saved
            /\ i - Len(s.rows) \in 1..Len(inflight)
        BY <1>7, <1>17, <1>18, <3>2
      <4>2. sn.rows[i].link \in {None} \cup recorded
        BY <1>11, <4>1 DEF QueueRow
      <4> QED
        BY <1>13, <2>2, <4>1, <4>2
    <3> QED
      BY <1>7, <1>14, <1>17, <1>18, <2>2, <3>1, <3>2
  <2> QED
    BY <2>1, <2>2 DEF SegmentRow
<1>19. \A x \in 1..2 : segs'[x] \in Segment => SegmentRow(segs'[x])
  BY <1>2, <1>4, <1>8, <1>11, <1>18
<1>20. ASSUME ~failed' PROVE Len(sn.rows) = Handed' /\ InOrder(sn)
  <2>1. /\ Len(sn.rows) = Handed + Len(inflight) /\ Handed = Len(s.rows)
        /\ sn.rows = s.rows \o inflight
    BY <1>7, <1>13, <1>15, <1>17, <1>20
  <2>2. ASSUME NEW i \in 1..Len(sn.rows) PROVE sn.rows[i].seq = i
    <3>1. CASE i \in 1..Len(s.rows)
      BY <1>13, <1>15, <1>17, <1>20, <2>1, <3>1 DEF InOrder
    <3>2. CASE i \in (Len(s.rows) + 1)..(Len(s.rows) + Len(inflight))
      <4>1. /\ sn.rows[i] = inflight[i - Len(s.rows)]
            /\ i - Len(s.rows) \in 1..Len(inflight)
        BY <1>17, <2>1, <3>2
      <4>2. inflight[i - Len(s.rows)].seq = Handed + (i - Len(s.rows))
        BY <1>11, <1>15, <1>20, <4>1 DEF QueueRow
      <4> QED
        BY <1>17, <2>1, <4>1, <4>2
    <3> QED
      BY <1>14, <1>17, <2>1, <2>2, <3>1, <3>2
  <2> QED
    BY <1>15, <1>20, <2>1, <2>2 DEF InOrder
<1>21. BoundRow'
  <2>1. finish' \notin {"closing", "reclosing"} /\ segment' = segment /\ recorded' = recorded
    BY <1>1, <1>5 DEF Closed
  <2>2. CASE fits /\ segs' = next
    <3>1. segs'[segment'] = sn
      BY <1>8, <2>1, <2>2
    <3> QED
      BY <1>7, <1>13, <1>20, <2>1, <2>2, <3>1 DEF BoundRow
  <2>3. CASE segs' = segs /\ failed'
    <3>1. segs'[segment'] = s
      BY <1>12, <2>1, <2>3
    <3> QED
      BY <1>12, <1>13, <2>1, <2>3, <3>1 DEF BoundRow
  <2> QED
    BY <1>2, <2>2, <2>3
<1> QED
  BY <1>11, <1>16, <1>19, <1>21 DEF BindingTakesPlace

LEMMA ClosingFails ==
    ASSUME RecordTypes, RE!CloseFailed, finish \in Closed
    PROVE  /\ finish' \in {"recounting", "stopped"} /\ failed' \in BOOLEAN
           /\ failed => failed'
           /\ finish = "recounting" \/ finish = "reclosing" => finish' = "stopped"
  BY DEF RE!CloseFailed, Closed, RecordTypes

\* The counters that the closing of the capture is to write.
LEMMA CountsRead ==
    ASSUME RecordInv, RE!ReadCounts
    PROVE  RecordInv'
<1>1. RecordTypes /\ StopRow
  BY DEF RecordInv
<1>2. /\ finish \in {"counting", "recounting"} /\ finish \in Closed /\ RE!Early
      /\ UNCHANGED <<segs, bind, segment, doing, turn, branch, cursor, recorded, chain, queue,
                     inflight, pending, seen>>
  BY DEF RE!ReadCounts, RE!StopStep, RE!bindVars, Closed
<1>3. /\ segs \in [1..2 -> {None} \cup Segment] /\ segment \in 1..2 /\ failed \in BOOLEAN
  BY <1>1 DEF RecordTypes
<1>4. \/ /\ counts' = IF segs[segment] = None THEN [events |-> 0, entries |-> 0]
                      ELSE [events |-> segs[segment].events, entries |-> segs[segment].entries]
         /\ finish' = IF finish = "counting" THEN "closing" ELSE "reclosing"
         /\ failed' = failed
      \/ RE!CloseFailed /\ counts' = counts
  BY DEF RE!ReadCounts
<1>5. /\ finish' \in {"closing", "reclosing"} => counts' \in [events : Nat, entries : Nat]
      /\ finish' \in Closed /\ failed' \in BOOLEAN /\ (failed => failed')
      /\ finish = "recounting" => finish' \in {"reclosing", "stopped"}
  <2>1. CASE /\ counts' = IF segs[segment] = None THEN [events |-> 0, entries |-> 0]
                          ELSE [events |-> segs[segment].events,
                                entries |-> segs[segment].entries]
             /\ finish' = IF finish = "counting" THEN "closing" ELSE "reclosing"
             /\ failed' = failed
    <3>1. counts' \in [events : Nat, entries : Nat]
      BY <1>3, <2>1 DEF Segment
    <3> QED
      BY <1>2, <1>3, <2>1, <3>1 DEF Closed
  <2>2. CASE RE!CloseFailed /\ counts' = counts
    BY <1>1, <1>2, <2>2, ClosingFails DEF Closed
  <2> QED
    BY <1>4, <2>1, <2>2
<1>6. early' \in BOOLEAN
  BY <1>1, <1>2, EarlyIsBoolean
<1>7. RecordTypes'
  BY <1>1, <1>2, <1>5, <1>6 DEF RecordTypes
<1>8. StopRow'
  <2>1. RE!Stopped /\ RE!Stopped'
    BY <1>2, <1>5 DEF RE!Stopped, Closed
  <2> QED
    BY <1>1, <1>2, <1>5, <2>1 DEF StopRow
<1> SUFFICES ASSUME ~early'
             PROVE  /\ QueueRow' /\ BindingTakesPlace' /\ BoundRow'
                    /\ \A x \in 1..2 : segs'[x] \in Segment => SegmentRow(segs'[x])
  BY <1>7, <1>8 DEF RecordInv
<1>9. /\ bind = "bound" /\ bind' = "bound" /\ QueueRow /\ BoundRow
      /\ \A x \in 1..2 : segs[x] \in Segment => SegmentRow(segs[x])
  BY <1>2, SendsWhenBound
<1>10. QueueRow'
  BY <1>2, <1>5, <1>9 DEF QueueRow, Handed
<1>11. segs[segment] \in Segment /\ segs[segment] # None
  BY <1>9, NoneIsNoSegment DEF BoundRow
<1>12. finish' \in {"closing", "reclosing"} =>
          counts' = [events |-> segs[segment].events, entries |-> segs[segment].entries]
  <2>1. CASE /\ counts' = IF segs[segment] = None THEN [events |-> 0, entries |-> 0]
                          ELSE [events |-> segs[segment].events,
                                entries |-> segs[segment].entries]
    BY <1>11, <2>1
  <2>2. CASE RE!CloseFailed
    BY <1>1, <1>2, <2>2, ClosingFails
  <2> QED
    BY <1>4, <2>1, <2>2
<1>13. segs[segment].status = "complete" => finish' \in {"recounting", "reclosing", "stopped"}
  BY <1>2, <1>5, <1>9 DEF BoundRow
<1>14. BoundRow'
  BY <1>2, <1>5, <1>9, <1>12, <1>13 DEF BoundRow, Handed
<1> QED
  BY <1>2, <1>9, <1>10, <1>14 DEF BindingTakesPlace

\* What writeSessionCapture makes of a segment: its rows are those it had.
CapturedAs(new, old, st, ev, en) ==
    /\ new \in Segment /\ new.rows = old.rows /\ new.saved = old.saved
    /\ new = old \/ (new.status = st /\ new.events = ev /\ new.entries = en)

LEMMA CapturedSegment ==
    ASSUME NEW old \in Segment, NEW st \in {"recording", "failed", "complete"},
           NEW ev \in Nat, NEW en \in Nat
    PROVE  CapturedAs(RE!Captured(old, st, ev, en), old, st, ev, en)
<1> DEFINE a == [old EXCEPT !.status = st]
           b == [a EXCEPT !.events = ev]
           c == [b EXCEPT !.entries = en]
<1>1. a \in Segment /\ a.rows = old.rows /\ a.saved = old.saved /\ a.status = st
  BY DEF Segment
<1>2. b \in Segment /\ b.rows = a.rows /\ b.saved = a.saved /\ b.status = a.status /\ b.events = ev
  <2> HIDE DEF a
  <2> QED
    BY <1>1 DEF Segment
<1>3. /\ c \in Segment /\ c.rows = b.rows /\ c.saved = b.saved /\ c.status = b.status
      /\ c.events = b.events /\ c.entries = en
  <2> HIDE DEF b
  <2> QED
    BY <1>2 DEF Segment
<1>4. c = [old EXCEPT !.status = st, !.events = ev, !.entries = en]
  OBVIOUS
<1> HIDE DEF a, b, c
<1>5. RE!Captured(old, st, ev, en) \in {old, c}
  BY <1>4 DEF RE!Captured
<1>6. CapturedAs(old, old, st, ev, en) /\ CapturedAs(c, old, st, ev, en)
  BY <1>1, <1>2, <1>3 DEF CapturedAs
<1> QED
  BY <1>5, <1>6

\* A capture is complete only when all the recorder was shown is in it.
LEMMA CaptureClosed ==
    ASSUME RecordInv, RE!CloseCapture
    PROVE  RecordInv'
<1>0. PICK s, st : s = segs[segment] /\ st = IF failed THEN "failed" ELSE "complete"
  OBVIOUS
<1> DEFINE sn == RE!Captured(s, st, counts.events, counts.entries)
           next == [segs EXCEPT ![segment] = sn]
<1>1. RecordTypes /\ StopRow
  BY DEF RecordInv
<1>2. /\ finish \in {"closing", "reclosing"} /\ finish \in Closed /\ RE!Early
      /\ UNCHANGED <<bind, segment, doing, turn, branch, cursor, recorded, chain, queue,
                     inflight, pending, seen, counts>>
  BY DEF RE!CloseCapture, RE!StopStep, RE!bindVars, Closed
<1>3. /\ segs' = segs \/ (s # None /\ segs' = next)
      /\ (finish' = "stopped" /\ failed' = failed) \/ RE!CloseFailed
  <2>1. next = [segs EXCEPT ![segment] =
                  RE!Captured(@, IF failed THEN "failed" ELSE "complete",
                              counts.events, counts.entries)]
    BY <1>0
  <2> QED
    BY <1>0, <2>1 DEF RE!CloseCapture
<1> HIDE DEF next
<1>4. /\ segs \in [1..2 -> {None} \cup Segment] /\ segment \in 1..2 /\ failed \in BOOLEAN
      /\ counts \in [events : Nat, entries : Nat]
      /\ queue = << >> /\ inflight = << >> /\ seen \in Nat
  BY <1>1, <1>2 DEF RecordTypes, StopRow
<1>5. st \in {"recording", "failed", "complete"} /\ (st = "complete" => ~failed)
  BY <1>0, <1>4
<1>6. counts.events \in Nat /\ counts.entries \in Nat
  BY <1>4
<1>7. s # None => s \in Segment
  BY <1>0, <1>4
<1>8. s # None =>
        /\ sn \in Segment /\ sn.rows = s.rows /\ sn.saved = s.saved
        /\ \/ sn = s
           \/ sn.status = st /\ sn.events = counts.events /\ sn.entries = counts.entries
  <2> SUFFICES ASSUME s # None
               PROVE  /\ sn \in Segment /\ sn.rows = s.rows /\ sn.saved = s.saved
                      /\ \/ sn = s
                         \/ /\ sn.status = st /\ sn.events = counts.events
                            /\ sn.entries = counts.entries
    OBVIOUS
  <2>1. CapturedAs(sn, s, st, counts.events, counts.entries)
    BY <1>5, <1>6, <1>7, CapturedSegment
  <2> HIDE DEF sn
  <2> QED
    BY <2>1 DEF CapturedAs
<1> HIDE DEF sn
<1>9. s # None => /\ next \in [1..2 -> {None} \cup Segment] /\ next[segment] = sn
                  /\ \A x \in 1..2 : x # segment => next[x] = segs[x]
  BY <1>0, <1>4, <1>8 DEF next
<1>10. /\ finish' \in {"recounting", "stopped"} /\ failed' \in BOOLEAN /\ (failed => failed')
       /\ finish = "reclosing" => finish' = "stopped"
  BY <1>1, <1>2, <1>3, <1>4, ClosingFails
<1>11. RecordTypes'
  <2>1. segs' \in [1..2 -> {None} \cup Segment]
    BY <1>3, <1>4, <1>9
  <2>2. early' \in BOOLEAN
    BY <1>1, <1>2, EarlyIsBoolean
  <2>3. finish' \in Closed
    BY <1>10 DEF Closed
  <2>4. bind' = "opening" => segs'[segment'] \in Segment
    BY <1>1, <1>2, <1>3, <1>8, <1>9 DEF RecordTypes
  <2> QED
    BY <1>1, <1>2, <1>10, <2>1, <2>2, <2>3, <2>4 DEF RecordTypes
<1>12. StopRow'
  <2>1. RE!Stopped /\ RE!Stopped' /\ finish' \notin {"closing", "reclosing"}
    BY <1>2, <1>10 DEF RE!Stopped
  <2> QED
    BY <1>1, <1>2, <2>1 DEF StopRow
<1> SUFFICES ASSUME ~early'
             PROVE  /\ QueueRow' /\ BindingTakesPlace' /\ BoundRow'
                    /\ \A x \in 1..2 : segs'[x] \in Segment => SegmentRow(segs'[x])
  BY <1>11, <1>12 DEF RecordInv
<1>13. /\ bind = "bound" /\ bind' = "bound" /\ QueueRow /\ BoundRow
       /\ \A x \in 1..2 : segs[x] \in Segment => SegmentRow(segs[x])
  BY <1>2, SendsWhenBound
<1>14. QueueRow'
  BY <1>2, <1>10, <1>13 DEF QueueRow, Handed
<1>15. s \in Segment /\ s = segs[segment] /\ s # None /\ SegmentRow(s)
  BY <1>0, <1>4, <1>13, NoneIsNoSegment DEF BoundRow
<1>16. counts = [events |-> s.events, entries |-> s.entries]
  BY <1>2, <1>13, <1>15 DEF BoundRow
<1>17. /\ sn \in Segment /\ sn.rows = s.rows /\ sn.saved = s.saved
       /\ sn.events = s.events /\ sn.entries = s.entries
       /\ sn.status \in {s.status, st}
  BY <1>8, <1>15, <1>16
<1>18. SegmentRow(sn)
  BY <1>15, <1>17 DEF SegmentRow
<1>19. \A x \in 1..2 : segs'[x] \in Segment => SegmentRow(segs'[x])
  BY <1>3, <1>4, <1>9, <1>13, <1>18
<1>20. /\ recorded \subseteq RE!Range(s.saved)
       /\ (~failed => Len(s.rows) = Handed /\ InOrder(s))
       /\ s.status = "complete" => Len(s.rows) = seen /\ InOrder(s)
  BY <1>13, <1>15 DEF BoundRow
<1>21. Handed = seen /\ Handed' = Handed
  BY <1>2, <1>4, EmptySeq DEF Handed
<1>22. sn.status = "complete" => Len(sn.rows) = seen /\ InOrder(sn)
  BY <1>5, <1>17, <1>20, <1>21 DEF InOrder
<1>23. BoundRow'
  <2>1. segs'[segment'] = s \/ segs'[segment'] = sn
    BY <1>2, <1>3, <1>9, <1>15
  <2>2. recorded' = recorded /\ seen' = seen /\ (~failed' => ~failed)
    BY <1>2, <1>10
  <2>3. InOrder(s) => InOrder(sn)
    BY <1>17 DEF InOrder
  <2>4. CASE segs'[segment'] = s
    BY <1>10, <1>15, <1>20, <1>21, <2>2, <2>4 DEF BoundRow
  <2>5. CASE segs'[segment'] = sn
    BY <1>10, <1>17, <1>20, <1>21, <1>22, <2>2, <2>3, <2>5 DEF BoundRow
  <2> QED
    BY <2>1, <2>4, <2>5
<1> QED
  BY <1>13, <1>14, <1>19, <1>23 DEF BindingTakesPlace

\* An interrupted run fails the captures that are still open.
LEMMA RunIsInterrupted ==
    ASSUME RecordInv, RE!RunInterrupted
    PROVE  RecordInv'
<1>1. RecordTypes /\ StopRow
  BY DEF RecordInv
<1>2. /\ segs' = [s \in 1..2 |-> IF segs[s] # None /\ segs[s].status = "recording"
                                 THEN [segs[s] EXCEPT !.status = "failed"] ELSE segs[s]]
      /\ UNCHANGED <<bind, segment, doing, turn, branch, cursor, recorded, chain, queue,
                     inflight, pending, seen, failed, finish, counts, early>>
  BY DEF RE!RunInterrupted, RE!StopStep, RE!bindVars, RE!stopVars
<1>3. segs \in [1..2 -> {None} \cup Segment] /\ segment \in 1..2
  BY <1>1 DEF RecordTypes
<1>4. ASSUME NEW s \in 1..2
      PROVE  /\ segs[s] = None => segs'[s] = None
             /\ segs[s] # None => /\ segs[s] \in Segment /\ segs'[s] \in Segment
                                  /\ segs'[s].rows = segs[s].rows /\ segs'[s].saved = segs[s].saved
                                  /\ segs'[s].events = segs[s].events
                                  /\ segs'[s].entries = segs[s].entries
                                  /\ segs'[s].status \in {segs[s].status, "failed"}
  <2>1. segs[s] = None \/ segs[s] \in Segment
    BY <1>3
  <2>2. segs'[s] = IF segs[s] # None /\ segs[s].status = "recording"
                   THEN [segs[s] EXCEPT !.status = "failed"] ELSE segs[s]
    BY <1>2
  <2> QED
    BY <2>1, <2>2 DEF Segment
<1>5. segs' \in [1..2 -> {None} \cup Segment]
  <2>1. \A s \in 1..2 : segs'[s] \in {None} \cup Segment
    BY <1>4
  <2>2. segs' = [s \in 1..2 |-> segs'[s]]
    BY <1>2
  <2> QED
    BY <2>1, <2>2
<1>6. RecordTypes'
  <2>1. bind' = "opening" => segs'[segment'] \in Segment
    BY <1>1, <1>2, <1>3, <1>4, NoneIsNoSegment DEF RecordTypes
  <2> QED
    BY <1>1, <1>2, <1>5, <2>1 DEF RecordTypes
<1>7. StopRow'
  <2>1. RE!Stopped' = RE!Stopped
    BY <1>2 DEF RE!Stopped
  <2> QED
    BY <1>1, <1>2, <2>1 DEF StopRow
<1> SUFFICES ASSUME ~early'
             PROVE  /\ QueueRow' /\ BindingTakesPlace' /\ BoundRow'
                    /\ \A x \in 1..2 : segs'[x] \in Segment => SegmentRow(segs'[x])
  BY <1>6, <1>7 DEF RecordInv
<1>8. /\ QueueRow /\ BindingTakesPlace /\ BoundRow
      /\ \A s \in 1..2 : segs[s] \in Segment => SegmentRow(segs[s])
  BY <1>2 DEF RecordInv
<1>9. QueueRow' /\ Handed' = Handed
  BY <1>2, <1>8 DEF QueueRow, Handed
<1>10. \A x \in 1..2 : segs'[x] \in Segment => SegmentRow(segs'[x])
  <2> TAKE x \in 1..2
  <2> HAVE segs'[x] \in Segment
  <2>1. segs[x] # None
    BY <1>4, NoneIsNoSegment
  <2>2. SegmentRow(segs[x])
    BY <1>4, <1>8, <2>1
  <2> QED
    BY <1>4, <2>1, <2>2 DEF SegmentRow
<1>11. BindingTakesPlace'
  <2>1. bind = "asking" => segment' = 1 /\ segs'[2] = None
    BY <1>2, <1>4, <1>8 DEF BindingTakesPlace
  <2>2. bind = "binding" => segs'[segment'] = None
    BY <1>2, <1>3, <1>4, <1>8 DEF BindingTakesPlace
  <2>3. bind = "opening" => /\ segs'[segment'] \in Segment
                            /\ segs'[segment'].rows = << >> /\ segs'[segment'].saved = << >>
                            /\ segs'[segment'].status # "complete"
    <3> SUFFICES ASSUME bind = "opening"
                 PROVE  /\ segs'[segment'] \in Segment
                        /\ segs'[segment'].rows = << >> /\ segs'[segment'].saved = << >>
                        /\ segs'[segment'].status # "complete"
      OBVIOUS
    <3>1. /\ segs[segment] \in Segment /\ segs[segment].rows = << >>
          /\ segs[segment].saved = << >> /\ segs[segment].status # "complete"
      BY <1>8 DEF BindingTakesPlace
    <3> QED
      BY <1>2, <1>3, <1>4, <3>1, NoneIsNoSegment
  <2> QED
    BY <1>2, <1>8, <1>9, <2>1, <2>2, <2>3 DEF BindingTakesPlace
<1>12. BoundRow'
  <2> SUFFICES ASSUME bind = "bound" PROVE BoundRow'
    BY <1>2 DEF BoundRow
  <2> DEFINE s == segs[segment]
             sn == segs'[segment']
  <2>1. s \in Segment /\ s # None
    BY <1>8, NoneIsNoSegment DEF BoundRow
  <2>2. /\ sn \in Segment /\ sn.rows = s.rows /\ sn.saved = s.saved
        /\ sn.events = s.events /\ sn.entries = s.entries
        /\ (sn.status = "complete" => s.status = "complete")
    BY <1>2, <1>3, <1>4, <2>1
  <2>3. /\ recorded \subseteq RE!Range(s.saved)
        /\ ~failed => Len(s.rows) = Handed /\ InOrder(s)
        /\ finish \in {"closing", "reclosing"} =>
              counts = [events |-> s.events, entries |-> s.entries]
        /\ s.status = "complete" =>
              /\ finish \in {"recounting", "reclosing", "stopped"}
              /\ Len(s.rows) = seen /\ InOrder(s)
    BY <1>8 DEF BoundRow
  <2> HIDE DEF s
  <2>4. InOrder(s) => InOrder(sn)
    BY <2>2 DEF InOrder
  <2> QED
    BY <1>2, <1>9, <2>2, <2>3, <2>4 DEF BoundRow
<1> QED
  BY <1>9, <1>10, <1>11, <1>12

\* A step of bind(): the requests that were made have changed only the segment.
LEMMA BindMoves ==
    ASSUME RecordInv,
           UNCHANGED <<doing, turn, branch, cursor, recorded, chain, queue, pending, seen,
                       inflight, failed, finish, counts>>,
           segs' \in [1..2 -> {None} \cup Segment], segment' \in 1..2, early' \in BOOLEAN,
           bind' \in {"asking", "binding", "opening", "bound", "failed"},
           bind' = "opening" => segs'[segment'] \in Segment,
           ~early' =>
              /\ ~early /\ bind # "bound"
              /\ BindingTakesPlace => BindingTakesPlace' /\ BoundRow'
              /\ (\A s \in 1..2 : segs[s] \in Segment => SegmentRow(segs[s])) =>
                 (\A s \in 1..2 : segs'[s] \in Segment => SegmentRow(segs'[s]))
    PROVE  RecordInv'
<1>1. RecordTypes'
  BY DEF RecordInv, RecordTypes
<1>2. StopRow'
  <2>1. RE!Stopped' = RE!Stopped
    BY DEF RE!Stopped
  <2> QED
    BY <2>1 DEF RecordInv, StopRow
<1>3. QueueRow => QueueRow'
  BY DEF QueueRow, Handed
<1> QED
  BY <1>1, <1>2, <1>3 DEF RecordInv

LEMMA NewSegmentRow ==
    /\ RE!NewSegment \in Segment /\ SegmentRow(RE!NewSegment)
    /\ RE!NewSegment.rows = << >> /\ RE!NewSegment.saved = << >>
    /\ RE!NewSegment.status = "recording"
<1>1. /\ RE!NewSegment = [status |-> "recording", events |-> 0, entries |-> 0,
                          rows |-> << >>, saved |-> << >>]
  BY DEF RE!NewSegment
<1>2. << >> \in Seq(Row) /\ << >> \in Seq(Int) /\ Len(<< >>) = 0
  BY EmptySeq
<1> QED
  BY <1>1, <1>2 DEF Segment, SegmentRow

LEMMA BindAsked ==
    ASSUME RecordInv, RE!AskBinding
    PROVE  RecordInv'
<1>1. RecordTypes
  BY DEF RecordInv
<1>2. UNCHANGED <<doing, turn, branch, cursor, recorded, chain, queue, pending, seen,
                  inflight, failed, finish, counts>>
  BY DEF RE!AskBinding, RE!entryVars, RE!eventVars, RE!stopVars
<1>3. /\ bind = "asking" /\ segs' = segs
      /\ \/ /\ bind' = "binding" /\ early' = early
            /\ segment' = IF segs[1] = None THEN 1 ELSE 2
         \/ bind' = "failed" /\ early' = TRUE /\ segment' = segment
  BY DEF RE!AskBinding, RE!BindFails
<1>4. /\ segs' \in [1..2 -> {None} \cup Segment] /\ segment' \in 1..2 /\ early' \in BOOLEAN
      /\ bind' \in {"asking", "binding", "opening", "bound", "failed"} /\ bind' # "opening"
  <2>1. segs' \in [1..2 -> {None} \cup Segment]
    BY <1>1, <1>3 DEF RecordTypes
  <2>2. segment' \in 1..2 /\ early' \in BOOLEAN
    <3>1. segment \in 1..2 /\ early \in BOOLEAN
      BY <1>1 DEF RecordTypes
    <3>2. segment' \in 1..2
      BY <1>3, <3>1
    <3>3. early' = early \/ early' = TRUE
      BY <1>3
    <3> QED
      BY <3>1, <3>2, <3>3
  <2>3. bind' \in {"binding", "failed"}
    BY <1>3
  <2> QED
    BY <2>1, <2>2, <2>3
<1>5. ASSUME ~early', BindingTakesPlace
      PROVE  BindingTakesPlace' /\ BoundRow'
  <2>1. bind' = "binding" /\ segment' = IF segs[1] = None THEN 1 ELSE 2
    BY <1>3, <1>5
  <2>2. segs'[segment'] = None
    BY <1>3, <1>5, <2>1 DEF BindingTakesPlace
  <2>3. recorded = {} /\ (~failed => Handed = 0) /\ finish \notin Closed \ {"counting"}
    BY <1>3, <1>5 DEF BindingTakesPlace
  <2>4. Handed' = Handed
    BY <1>2 DEF Handed
  <2> QED
    BY <1>2, <2>1, <2>2, <2>3, <2>4 DEF BindingTakesPlace, BoundRow
<1>6. ~early' => ~early /\ bind # "bound"
  BY <1>3
<1>7. (\A s \in 1..2 : segs[s] \in Segment => SegmentRow(segs[s])) =>
      (\A s \in 1..2 : segs'[s] \in Segment => SegmentRow(segs'[s]))
  BY <1>3
<1> QED
  BY <1>2, <1>4, <1>5, <1>6, <1>7, BindMoves

LEMMA BindWritten ==
    ASSUME RecordInv, RE!WriteBinding
    PROVE  RecordInv'
<1> DEFINE new == IF segs[segment] = None THEN RE!NewSegment ELSE segs[segment]
           next == [segs EXCEPT ![segment] = new]
<1>1. RecordTypes
  BY DEF RecordInv
<1>2. UNCHANGED <<doing, turn, branch, cursor, recorded, chain, queue, pending, seen,
                  inflight, failed, finish, counts>>
  BY DEF RE!WriteBinding, RE!entryVars, RE!eventVars, RE!stopVars
<1>3. /\ bind = "binding" /\ segment' = segment
      /\ \/ bind' = "opening" /\ early' = early /\ segs' = next
         \/ bind' = "failed" /\ early' = TRUE /\ segs' = segs
  BY DEF RE!WriteBinding, RE!BindFails
<1>4. segs \in [1..2 -> {None} \cup Segment] /\ segment \in 1..2
  BY <1>1 DEF RecordTypes
<1>5. new \in Segment /\ (segs[segment] = None => new = RE!NewSegment)
  BY <1>4, NewSegmentRow
<1> HIDE DEF new
<1>6. /\ next \in [1..2 -> {None} \cup Segment] /\ next[segment] = new
      /\ \A x \in 1..2 : x # segment => next[x] = segs[x]
  BY <1>4, <1>5
<1> HIDE DEF next
<1>7. /\ segs' \in [1..2 -> {None} \cup Segment] /\ segment' \in 1..2 /\ early' \in BOOLEAN
      /\ bind' \in {"asking", "binding", "opening", "bound", "failed"}
      /\ bind' = "opening" => segs'[segment'] \in Segment
  BY <1>1, <1>3, <1>4, <1>5, <1>6 DEF RecordTypes
<1>8. ASSUME ~early', BindingTakesPlace
      PROVE  /\ BindingTakesPlace' /\ BoundRow' /\ segs' = next /\ SegmentRow(new)
  <2>1. bind' = "opening" /\ segs' = next
    BY <1>3, <1>8
  <2>2. /\ segs[segment] = None /\ recorded = {} /\ (~failed => Handed = 0)
        /\ finish \notin Closed \ {"counting"}
    BY <1>3, <1>8 DEF BindingTakesPlace
  <2>3. segs'[segment'] = RE!NewSegment
    BY <1>3, <1>5, <1>6, <2>1, <2>2
  <2>4. Handed' = Handed
    BY <1>2 DEF Handed
  <2>5. BindingTakesPlace'
    BY <1>2, <2>1, <2>2, <2>3, <2>4, NewSegmentRow DEF BindingTakesPlace
  <2>6. BoundRow'
    BY <2>1 DEF BoundRow
  <2> QED
    BY <1>5, <2>1, <2>2, <2>5, <2>6, NewSegmentRow
<1>9. ~early' => ~early /\ bind # "bound"
  BY <1>3
<1>10. BindingTakesPlace \/ early'
  BY <1>3 DEF RecordInv
<1>11. ~early' => ((\A s \in 1..2 : segs[s] \in Segment => SegmentRow(segs[s])) =>
                   (\A s \in 1..2 : segs'[s] \in Segment => SegmentRow(segs'[s])))
  BY <1>4, <1>6, <1>8, <1>10
<1> QED
  BY <1>2, <1>7, <1>8, <1>9, <1>11, BindMoves

LEMMA CaptureOpened ==
    ASSUME RecordInv, RE!OpenCapture
    PROVE  RecordInv'
<1>0. PICK s : s = segs[segment]
  OBVIOUS
<1> DEFINE new == RE!Captured(s, "recording", 0, 0)
           next == [segs EXCEPT ![segment] = new]
<1>1. RecordTypes
  BY DEF RecordInv
<1>2. UNCHANGED <<doing, turn, branch, cursor, recorded, chain, queue, pending, seen,
                  inflight, failed, finish, counts>>
  BY DEF RE!OpenCapture, RE!entryVars, RE!eventVars, RE!stopVars
<1>3. /\ bind = "opening" /\ segment' = segment
      /\ \/ bind' = "bound" /\ early' = early /\ segs' = next
         \/ bind' = "failed" /\ early' = TRUE /\ segs' = segs
  BY <1>0 DEF RE!OpenCapture, RE!BindFails
<1>4. segs \in [1..2 -> {None} \cup Segment] /\ segment \in 1..2 /\ s \in Segment
  BY <1>0, <1>1, <1>3 DEF RecordTypes
<1>5. CapturedAs(new, s, "recording", 0, 0)
  BY <1>4, CapturedSegment
<1> HIDE DEF new
<1>6. /\ next \in [1..2 -> {None} \cup Segment] /\ next[segment] = new
      /\ \A x \in 1..2 : x # segment => next[x] = segs[x]
  BY <1>4, <1>5 DEF CapturedAs
<1> HIDE DEF next
<1>7. /\ segs' \in [1..2 -> {None} \cup Segment] /\ segment' \in 1..2 /\ early' \in BOOLEAN
      /\ bind' \in {"asking", "binding", "opening", "bound", "failed"} /\ bind' # "opening"
  BY <1>1, <1>3, <1>4, <1>6 DEF RecordTypes
<1>8. ASSUME ~early', BindingTakesPlace
      PROVE  BindingTakesPlace' /\ BoundRow'
  <2>1. bind' = "bound" /\ segs' = next
    BY <1>3, <1>8
  <2>2. /\ recorded = {} /\ (~failed => Handed = 0) /\ finish \notin Closed \ {"counting"}
        /\ s.rows = << >> /\ s.saved = << >> /\ s.status # "complete"
    BY <1>0, <1>3, <1>8 DEF BindingTakesPlace
  <2>3. /\ segs'[segment'] = new /\ new \in Segment /\ new.rows = << >>
        /\ new.status # "complete"
    BY <1>3, <1>5, <1>6, <2>1, <2>2 DEF CapturedAs
  <2>4. Handed' = Handed /\ finish' \notin {"closing", "reclosing"}
    BY <1>2, <2>2 DEF Handed, Closed
  <2>5. Len(new.rows) = 0 /\ InOrder(new)
    BY <2>3, EmptySeq DEF InOrder
  <2> QED
    BY <1>2, <2>1, <2>2, <2>3, <2>4, <2>5 DEF BindingTakesPlace, BoundRow
<1>9. ~early' => ~early /\ bind # "bound"
  BY <1>3
<1>10. BindingTakesPlace \/ early'
  BY <1>3 DEF RecordInv
<1>11. ~early' => ((\A x \in 1..2 : segs[x] \in Segment => SegmentRow(segs[x])) =>
                   (\A x \in 1..2 : segs'[x] \in Segment => SegmentRow(segs'[x])))
  <2> SUFFICES ASSUME ~early', \A x \in 1..2 : segs[x] \in Segment => SegmentRow(segs[x])
               PROVE  \A x \in 1..2 : segs'[x] \in Segment => SegmentRow(segs'[x])
    OBVIOUS
  <2>1. s.rows = << >> /\ s.saved = << >> /\ SegmentRow(s)
    BY <1>0, <1>3, <1>4, <1>10 DEF BindingTakesPlace
  <2>2. /\ new.rows = << >> /\ new.saved = << >>
        /\ new = s \/ (new.events = 0 /\ new.entries = 0)
    BY <1>5, <2>1 DEF CapturedAs
  <2>3. SegmentRow(new)
    BY <2>1, <2>2, EmptySeq DEF SegmentRow
  <2>4. segs' = next
    BY <1>3
  <2> QED
    BY <1>4, <1>6, <2>3, <2>4
<1> QED
  BY <1>2, <1>7, <1>8, <1>9, <1>11, BindMoves

LEMMA RecordInvariant == Spec => []RecordInv
<1>1. Init => RecordInv
  <2> SUFFICES ASSUME Init PROVE RecordInv
    OBVIOUS
  <2>1. /\ \E first \in RE!Earlier : segs = <<first, None>>
        /\ bind = "asking" /\ segment = 1
        /\ doing = [at |-> "idle", turns |-> 0, messages |-> 0, tools |-> 0]
        /\ turn = FALSE /\ branch = <<0>> /\ cursor = 0 /\ recorded = {} /\ chain = << >>
        /\ queue = << >> /\ inflight = << >> /\ pending = << >> /\ failed = FALSE
        /\ finish = "no" /\ counts = None /\ seen = 0 /\ early = FALSE
    BY DEF Init, RE!RecordingInit
  <2> DEFINE event == [seq |-> 1, link |-> -1]
             old == [status |-> "complete", events |-> 1, entries |-> 1,
                     rows |-> <<event>>, saved |-> << -1 >>]
  <2>2. old \in Segment /\ SegmentRow(old)
    <3>1. event \in Row
      BY DEF Row
    <3> HIDE DEF event
    <3>2. /\ <<event>> \in Seq(Row) /\ Len(<<event>>) = 1 /\ <<event>>[1] = event
          /\ << -1 >> \in Seq(Int) /\ Len(<< -1 >>) = 1
      BY <3>1
    <3>3. old \in Segment
      BY <3>2 DEF Segment
    <3>4. old.events = 1 /\ old.entries = 1 /\ old.rows = <<event>> /\ old.saved = << -1 >>
      OBVIOUS
    <3> HIDE DEF old
    <3>5. event.link = -1
      BY DEF event
    <3> QED
      BY <3>2, <3>3, <3>4, <3>5 DEF SegmentRow
  <2>3. RE!Earlier = {None, RE!NewSegment, old}
    BY DEF RE!Earlier
  <2> HIDE DEF old
  <2>4. PICK first \in {None, RE!NewSegment, old} : segs = <<first, None>>
    BY <2>1, <2>3
  <2>5. first \in {None} \cup Segment /\ (first # None => SegmentRow(first))
    BY <2>2, NewSegmentRow
  <2>6. segs \in [1..2 -> {None} \cup Segment] /\ segs[1] = first /\ segs[2] = None
    BY <2>4, <2>5
  <2>7. Len(pending) = 0 /\ Len(queue) = 0 /\ Len(inflight) = 0
    BY <2>1, EmptySeq
  <2>8. RecordTypes
    <3>1. doing \in Doing
      BY <2>1 DEF Doing
    <3>2. branch \in Seq(Int) /\ branch # << >> /\ cursor \in Int
      BY <2>1
    <3>3. chain \in Seq(Task) /\ queue \in Seq(Row) /\ inflight \in Seq(Row)
          /\ pending \in Seq(Pending)
      BY <2>1, EmptySeq
    <3>4. bind = "asking" /\ segment \in 1..2 /\ seen \in Nat /\ recorded \subseteq Int
      BY <2>1
    <3>5. finish = "no" /\ failed \in BOOLEAN /\ early \in BOOLEAN /\ turn \in BOOLEAN
      BY <2>1
    <3> QED
      BY <2>1, <2>6, <3>1, <3>2, <3>3, <3>4, <3>5 DEF RecordTypes
  <2>9. StopRow
    <3>1. finish \notin Closed /\ finish \notin {"closing", "reclosing"} /\ pending = << >>
      BY <2>1 DEF Closed
    <3>2. 1..Len(pending) = {}
      BY <2>7
    <3> QED
      BY <3>1, <3>2 DEF StopRow
  <2>10. QueueRow
    BY <2>1, <2>7 DEF QueueRow, Handed
  <2>11. BindingTakesPlace /\ BoundRow
    <3>1. Handed = 0 /\ finish \notin Closed
      <4>1. seen = 0 /\ finish = "no"
        BY <2>1
      <4>2. Handed = 0
        BY <2>7, <4>1 DEF Handed
      <4>3. finish \notin Closed
        BY <4>1 DEF Closed
      <4> QED
        BY <4>2, <4>3
    <3>2. bind = "asking" /\ segment = 1 /\ recorded = {} /\ segs[2] = None
      BY <2>1, <2>6
    <3>3. BindingTakesPlace
      BY <3>1, <3>2 DEF BindingTakesPlace
    <3> QED
      BY <3>2, <3>3 DEF BoundRow
  <2>12. \A s \in 1..2 : segs[s] \in Segment => SegmentRow(segs[s])
    BY <2>5, <2>6, NoneIsNoSegment
  <2> QED
    BY <2>8, <2>9, <2>11, <2>12, <2>10 DEF RecordInv
<1>2. RecordInv /\ [Next]_vars => RecordInv'
  <2> SUFFICES ASSUME RecordInv, [Next]_vars PROVE RecordInv'
    OBVIOUS
  <2>1. CASE RecordingStep
    <3>1. RE!RecordingNext
      BY <2>1 DEF RecordingStep
    <3>2. CASE RE!AskBinding \/ RE!WriteBinding \/ RE!OpenCapture
      BY <3>2, BindAsked, BindWritten, CaptureOpened
    <3>3. CASE \/ RE!TurnStart \/ RE!MessageStart \/ RE!MessageEnd \/ RE!AppendEntry
               \/ RE!ToolEvent \/ RE!TurnEnd \/ RE!LeaveBranch
      BY <3>3, TurnStarts, MessageStarts, MessageEnds, EntryAppended, ToolShown, TurnEnds
    <3>4. CASE \/ RE!StartRecord \/ RE!WriteEntry \/ RE!StartRecorded \/ RE!EndRecorded
      BY <3>4, RecordStarts, EntryWritten, RecordedSteps
    <3>5. CASE RE!Flush \/ RE!FlushDone
      BY <3>5, FlushTakes, BatchWritten
    <3>6. CASE \/ RE!FinishRecorded \/ RE!FinishRecording \/ RE!FinishTimeout \/ RE!Shutdown
               \/ RE!StopFlushed
      BY <3>6, FinishingSteps
    <3>7. CASE RE!ReadCounts \/ RE!CloseCapture \/ RE!RunInterrupted
      BY <3>7, CountsRead, CaptureClosed, RunIsInterrupted
    <3> QED
      BY <3>1, <3>2, <3>3, <3>4, <3>5, <3>6, <3>7 DEF RE!RecordingNext
  <2>2. CASE ~RecordingStep
    <3>1. UNCHANGED recordingVars
      BY <2>2 DEF Next, vars, TurnsStep, SettingsStep, FollowUpStep, ViewStep,
                  PruneStep, HeadlessStep, ReplayStep
    <3>2. /\ Quiet /\ UNCHANGED <<doing, turn, branch, cursor, chain>>
      BY <3>1 DEF recordingVars, Quiet
    <3>3. /\ doing' \in Doing /\ turn' \in BOOLEAN /\ branch' \in Seq(Int)
          /\ branch' # << >> /\ cursor' \in Int /\ chain' \in Seq(Task)
          /\ finish \in Closed => chain' = << >>
      BY <3>2 DEF RecordInv, RecordTypes, StopRow
    <3> QED
      BY <3>2, <3>3, QuietStep
  <2> QED
    BY <2>1, <2>2
<1> QED
  BY <1>1, <1>2, PTL DEF Spec

\* A capture that is marked complete is whole (SessionRecorder.stop and
\* writeSessionCapture): its counters are those of its rows, it has every event
\* the recorder was shown until it was stopped, once and in order, and its
\* events name entries that were saved, whichever requests were lost or applied
\* without an answer, as long as bind() was done before the others.
THEOREM CapturesAreWhole == Spec => []CompleteCaptureIsWhole
<1>1. RecordInv => CompleteCaptureIsWhole
  <2> SUFFICES ASSUME RecordInv, NEW s \in 1..2, RE!Complete(s), ~early
               PROVE  LET rows == segs[s].rows IN
                      /\ segs[s].events = Len(rows) /\ segs[s].entries = Len(segs[s].saved)
                      /\ \A i \in DOMAIN rows : rows[i].link # None =>
                            rows[i].link \in RE!Range(segs[s].saved) \cup {-1}
                      /\ s = segment /\ bind = "bound" =>
                           /\ Len(rows) = seen
                           /\ \A i \in DOMAIN rows : rows[i].seq = i
    BY DEF CompleteCaptureIsWhole, RE!CompleteCaptureIsWhole
  <2>1. segs[s] \in Segment /\ segs[s].status = "complete"
    BY DEF RE!Complete, RecordInv, RecordTypes
  <2>2. segs[s].rows \in Seq(Row)
    BY <2>1 DEF Segment
  <2>3. DOMAIN segs[s].rows = 1..Len(segs[s].rows)
    BY <2>2, LenProperties
  <2>4. SegmentRow(segs[s]) /\ BoundRow
    BY <2>1 DEF RecordInv
  <2>5. s = segment /\ bind = "bound" => Len(segs[s].rows) = seen /\ InOrder(segs[s])
    BY <2>1, <2>4 DEF BoundRow
  <2> QED
    BY <2>3, <2>4, <2>5 DEF SegmentRow, InOrder
<1> QED
  BY <1>1, RecordInvariant, PTL

-----------------------------------------------------------------------------
(* The turns: their invariant.                                             *)

Reasons == {"initial", "resumed", "reminder", "done", "failed", "cancelled"}
Ends    == {"completed", "error", "aborted"}
Message == [kind : {"step", "terminal"}, why : Reasons, rev : Nat, turn : Nat,
            trigger : BOOLEAN, status : {"pending", "sent", "cancelled"}, entry : BOOLEAN]
TurnRow == [msg : Nat, st : {"none", "started", "lost"} \cup Ends]
Rows == [run : {"handoff", "running", "waiting", "done", "failed", "cancelled"},
         req : {"pending", "settled", "cancelled"}, msgs : Seq(Message),
         turns : [1..MaxTurns -> TurnRow], paused : BOOLEAN, rev : Nat, on : BOOLEAN,
         anchor : BOOLEAN, attempt : {"waiting", "interrupted"}, stop : BOOLEAN,
         watch : BOOLEAN, err : BOOLEAN, busy : BOOLEAN]

Coordinator == [epoch : Nat, reported : BOOLEAN, active : BOOLEAN, needs : BOOLEAN]
SessionView == [epoch : Nat, required : BOOLEAN, msg : Nat,
                status : {"none", "pending", "sent", "cancelled"}, triggers : BOOLEAN,
                cancelled : BOOLEAN, open : Nat]
OwnedTurn == [id : Nat, msg : Nat, phase : {"none", "delivering", "running", "settled"},
              started : BOOLEAN, entered : BOOLEAN, stop : BOOLEAN, aborted : BOOLEAN,
              end : {"none"} \cup Ends]
Memory == [turn : OwnedTurn, next : Nat \ {0}, queued : SUBSET Nat, last : Nat, fenced : BOOLEAN]
Report == [kind : {"none", "branch", "started", "ended"}, msg : Nat, entry : BOOLEAN,
           idle : BOOLEAN, pend : {FALSE}, turn : Nat, end : {"none"} \cup Ends,
           epoch : Nat, owned : BOOLEAN]
Progress == [at : {"idle", "owned", "settle", "branch", "flush", "deliver", "present",
                   "sent", "final"},
             view : SessionView, call : Report,
             reply : {"none", "ok", "error", "active", "settled", "absent"}]
Session == [branch : SUBSET Nat, log : SUBSET Nat, busy : {"idle", "model"},
            flight : Nat, input : Nat]

TurnTypes ==
    /\ db \in Rows /\ co \in Coordinator /\ view \in SessionView /\ wmc \in Memory
    /\ sync \in Progress /\ pi \in Session
    /\ spent \in [faults : Nat, controls : Nat, epochs : Nat]

IsStep(D, m) == m \in 1..Len(D.msgs) /\ D.msgs[m].kind = "step"

\* A turn is of a message that was sent, and one is open at a time.
TurnRows(D) ==
    /\ \A t \in 1..MaxTurns : D.turns[t].st # "none" => D.turns[t].msg \in 1..Len(D.msgs)
    /\ \A t \in TU!OpenTurns(D) : D.msgs[D.turns[t].msg].status = "sent"
    /\ \A t, u \in TU!OpenTurns(D) : t = u

\* The run of a request, and its clock.
RunRow(D) ==
    /\ TU!Pending(D) => D.run \in {"handoff", "waiting"}
    /\ D.req = "cancelled" => TU!Over(D)
    /\ ~D.err /\ ~D.busy /\ (D.on => D.anchor)
    /\ D.on /\ TU!Pending(D) => TU!OpenStepTurn(D) /\ ~D.paused

\* A reminder names a turn that ended on an earlier prompt, and each another one.
ReminderRows(D) ==
    /\ \A m \in TU!Reminders(D) :
          LET t == D.msgs[m].turn IN
          t \in 1..MaxTurns /\ D.turns[t].st \in {"completed", "error"} /\ D.turns[t].msg < m
    /\ \A m, n \in TU!Reminders(D) : D.msgs[m].turn = D.msgs[n].turn => m = n

GoodRows(D) == D \in Rows /\ TurnRows(D) /\ RunRow(D) /\ ReminderRows(D)

\* Who may be working, by what the server knows of the connected Pi.
CoordinatorRow(D, c) ==
    /\ c.epoch = 0 => c = TU!NoCoordinator
    /\ c.epoch # 0 => c.needs = ~c.reported
    /\ D.on /\ TU!Pending(D) => c.epoch # 0
    /\ ~c.reported /\ TU!OpenStepTurn(D) /\ TU!Pending(D) => D.attempt = "interrupted"
    /\ c.reported /\ ~c.active => ~TU!OpenStepTurn(D)
    /\ c.reported /\ c.active /\ TU!Pending(D) /\ ~D.paused /\ TU!OpenStepTurn(D) => D.on

\* Once a message was sent, it is, or it was reopened to be shown again.
WasSent(D, m) ==
    /\ m \in 1..Len(D.msgs)
    /\ D.msgs[m].status = "sent" \/ (D.msgs[m].kind = "step" /\ D.msgs[m].why = "resumed")

ViewRow(D, v) ==
    /\ v.msg \in 0..Len(D.msgs) /\ (v.triggers => v.msg # 0)
    /\ v.status = "sent" => WasSent(D, v.msg)
    /\ v.open # 0 => v.open \in 1..MaxTurns /\ D.turns[v.open].st # "none"

\* The turn that Pi owns.
OwnedRow(D, w) ==
    /\ w.turn.id = 0 => w.turn.msg = 0 /\ w.turn.phase = "none"
    /\ w.turn.id # 0 => /\ w.turn.id \in 1..MaxTurns /\ w.turn.id < w.next
                        /\ w.turn.msg \in 1..Len(D.msgs) /\ w.turn.phase # "none"
                        /\ TU!OpenTurns(D) \subseteq {w.turn.id}
                        /\ D.turns[w.turn.id].st \in Ends =>
                              w.turn.phase = "settled" /\ w.turn.end = D.turns[w.turn.id].st
    /\ w.turn.phase = "settled" => w.turn.end # "none"
    /\ w.turn.entered => WasSent(D, w.turn.msg)
    /\ \A t \in 1..MaxTurns : w.next <= t => D.turns[t].st = "none"

\* What Pi was shown of turns it does not own.
ShownRow(D, w, v) ==
    /\ v.open # 0 /\ v.open # w.turn.id => D.turns[v.open].st \in {"started", "lost"}
    /\ w.turn.id = 0 /\ v.epoch # 0 /\ TU!OpenTurns(D) # {} =>
          v.open \in TU!OpenTurns(D) /\ v.status # "pending"

CallRow(D, w, s) ==
    LET c == s.call IN
    /\ c.kind # "none" => c.epoch # 0
    /\ c.entry => c.msg # 0
    /\ c.msg \in 0..Len(D.msgs)
    /\ c.kind = "branch" /\ ~c.owned => c.msg = s.view.msg
    /\ c.kind = "branch" /\ s.reply = "ok" /\ c.entry => WasSent(D, c.msg)
    /\ c.kind \in {"started", "ended"} => c.turn # 0 /\ c.turn = w.turn.id /\ c.msg = w.turn.msg
    /\ c.kind = "started" => WasSent(D, c.msg)
    /\ c.kind = "ended" => /\ w.turn.phase = "settled" /\ c.end = w.turn.end
                           /\ s.reply \notin {"none", "error"} =>
                                 D.turns[c.turn].st # "started"

SyncRow(D, w, s) ==
    /\ s = TU!NoSync \/ s.view.epoch # 0
    /\ ViewRow(D, s.view) /\ CallRow(D, w, s)

PiRow(D, p) ==
    /\ p.branch \subseteq 1..Len(D.msgs) /\ p.log \subseteq 1..Len(D.msgs)
    /\ p.flight \in 0..Len(D.msgs)

\* What Pi knows of the rows D, or will be told of them.
PiRows(D, v, w, s, p) ==
    /\ ViewRow(D, v) /\ OwnedRow(D, w) /\ ShownRow(D, w, v) /\ SyncRow(D, w, s)
    /\ PiRow(D, p)

TurnInv ==
    /\ TurnTypes /\ GoodRows(db) /\ CoordinatorRow(db, co)
    /\ PiRows(db, view, wmc, sync, pi)

-----------------------------------------------------------------------------
\* A nonempty set of numbers has a first one, and one with a bound a last one.
LEMMA FirstOf ==
    ASSUME NEW S, S \subseteq Nat, S # {}
    PROVE  TU!First(S) \in S /\ \A y \in S : TU!First(S) <= y
<1> DEFINE Less == OpToRel(<, Nat)
<1>1. IsWellFoundedOn(Less, Nat)
  BY NatLessThanWellFounded, Zenon
<1>2. \A n, m \in Nat : <<m, n>> \in Less <=> m < n
  BY DEF OpToRel
<1> HIDE DEF Less
<1>3. PICK x \in S : \A y \in S : ~(<<y, x>> \in Less)
  BY <1>1, WFMin
<1>4. ASSUME NEW y \in S PROVE x <= y
  <2>1. x \in Nat /\ y \in Nat /\ ~(y < x)
    BY <1>2, <1>3
  <2> QED
    BY <2>1
<1> QED
  BY <1>4 DEF TU!First

LEMMA LatestOf ==
    ASSUME NEW n \in Nat, NEW S, S \subseteq 1..n, S # {}
    PROVE  TU!Latest(S) \in S /\ \A y \in S : y <= TU!Latest(S)
<1> DEFINE R == {n - y : y \in S}
<1>1. R \subseteq Nat /\ R # {}
  <2>1. \A y \in S : n - y \in Nat
    OBVIOUS
  <2> QED
    BY <2>1
<1>2. TU!First(R) \in R /\ \A z \in R : TU!First(R) <= z
  BY <1>1, FirstOf
<1>3. PICK x \in S : TU!First(R) = n - x
  BY <1>2
<1>4. ASSUME NEW y \in S PROVE y <= x
  <2>1. n - x <= n - y
    BY <1>2, <1>3
  <2> QED
    BY <2>1
<1> QED
  BY <1>4 DEF TU!Latest

LEMMA OpenTurnsOf ==
    ASSUME NEW D
    PROVE  /\ TU!OpenTurns(D) \subseteq 1..MaxTurns /\ TU!OpenTurns(D) \subseteq Nat
           /\ \A t \in 1..MaxTurns : t \in TU!OpenTurns(D) <=> D.turns[t].st = "started"
           /\ 0 \notin TU!OpenTurns(D)
BY SessionDataAssumption DEF TU!OpenTurns, TU!Turns

-----------------------------------------------------------------------------
(* What the transactions do to prompts and turns.                          *)

\* Prompts stay what they are; one that was sent is, or is shown again.
MsgsFollow(A, B) ==
    /\ Len(A) <= Len(B)
    /\ \A m \in 1..Len(A) :
          /\ B[m].kind = A[m].kind /\ B[m].why = A[m].why /\ B[m].turn = A[m].turn
          /\ A[m].status = "sent" =>
                B[m].status = "sent" \/ (A[m].kind = "step" /\ A[m].why = "resumed")

NoReminder(A, B) == \A m \in 1..Len(B) : Len(A) < m => B[m].why # "reminder"

\* Only the turn own starts or ends with an answer; others may be lost.
TurnFollows(a, b, isOwn) ==
    /\ a.st # "none" => b.msg = a.msg
    /\ a.st \in {"lost"} \cup Ends => b.st = a.st
    /\ a.st = "started" => b.st \in {"started", "lost"} \/ (isOwn /\ b.st \in Ends)
    /\ a.st = "none" => b = a \/ (isOwn /\ b.st # "none")

Follows(D, E, own) ==
    /\ MsgsFollow(D.msgs, E.msgs)
    /\ \A t \in 1..MaxTurns : TurnFollows(D.turns[t], E.turns[t], t = own)

\* The turns are the same, and the message of the open one is still sent.
SameTurns(D, E) ==
    /\ E \in Rows /\ E.turns = D.turns /\ MsgsFollow(D.msgs, E.msgs)
    /\ \A t \in TU!OpenTurns(D) : E.msgs[D.turns[t].msg].status = "sent"

LEMMA StepsOf ==
    ASSUME NEW D \in Rows
    PROVE  /\ D.msgs \in Seq(Message) /\ Len(D.msgs) \in Nat
           /\ DOMAIN D.msgs = 1..Len(D.msgs)
           /\ \A m \in 1..Len(D.msgs) : D.msgs[m] \in Message
           /\ TU!Steps(D) = {m \in 1..Len(D.msgs) : D.msgs[m].kind = "step"}
           /\ \A t \in 1..MaxTurns : D.turns[t] \in TurnRow
<1>1. D.msgs \in Seq(Message) /\ D.turns \in [1..MaxTurns -> TurnRow]
  BY DEF Rows
<1>2. Len(D.msgs) \in Nat /\ DOMAIN D.msgs = 1..Len(D.msgs)
  BY <1>1, LenProperties
<1>3. \A m \in 1..Len(D.msgs) : D.msgs[m] \in Message
  BY <1>1, ElementOfSeq
<1> QED
  BY <1>1, <1>2, <1>3 DEF TU!Steps

LEMMA FollowsOn ==
    ASSUME NEW D \in Rows, NEW E \in Rows, NEW F \in Rows, NEW own,
           Follows(D, E, own), Follows(E, F, own)
    PROVE  Follows(D, F, own)
<1>1. MsgsFollow(D.msgs, F.msgs)
  BY StepsOf DEF Follows, MsgsFollow
<1>2. ASSUME NEW t \in 1..MaxTurns PROVE TurnFollows(D.turns[t], F.turns[t], t = own)
  <2>1. /\ TurnFollows(D.turns[t], E.turns[t], t = own)
        /\ TurnFollows(E.turns[t], F.turns[t], t = own)
    BY DEF Follows
  <2>2. D.turns[t] \in TurnRow /\ E.turns[t] \in TurnRow /\ F.turns[t] \in TurnRow
    BY StepsOf
  <2>3. CASE D.turns[t].st = "none"
    BY <2>1, <2>2, <2>3 DEF TurnFollows, TurnRow, Ends
  <2>4. CASE D.turns[t].st = "started"
    BY <2>1, <2>2, <2>4 DEF TurnFollows, TurnRow, Ends
  <2>5. CASE D.turns[t].st \in {"lost"} \cup Ends
    BY <2>1, <2>2, <2>5 DEF TurnFollows, TurnRow, Ends
  <2> QED
    BY <2>2, <2>3, <2>4, <2>5 DEF TurnRow
<1> QED
  BY <1>1, <1>2 DEF Follows

LEMMA SameTurnsFollow ==
    ASSUME NEW D \in Rows, NEW E, SameTurns(D, E), NEW own
    PROVE  Follows(D, E, own)
BY StepsOf DEF SameTurns, Follows, TurnFollows, TurnRow, Ends

LEMMA SameTurnsGood ==
    ASSUME NEW D \in Rows, NEW E, TurnRows(D), SameTurns(D, E)
    PROVE  /\ TurnRows(E) /\ TU!OpenTurns(E) = TU!OpenTurns(D)
           /\ TU!OpenStepTurn(E) <=> TU!OpenStepTurn(D)
<1>1. E \in Rows /\ TU!OpenTurns(E) = TU!OpenTurns(D)
  BY DEF SameTurns, TU!OpenTurns
<1>2. \A t \in TU!OpenTurns(D) : /\ D.turns[t].msg \in 1..Len(D.msgs)
                                 /\ E.turns[t].msg = D.turns[t].msg
  BY OpenTurnsOf DEF TurnRows, SameTurns
<1>3. TurnRows(E)
  <2>1. \A t \in 1..MaxTurns : E.turns[t].st # "none" => E.turns[t].msg \in 1..Len(E.msgs)
    BY <1>1, StepsOf DEF TurnRows, SameTurns, MsgsFollow
  <2>2. \A t \in TU!OpenTurns(E) : E.msgs[E.turns[t].msg].status = "sent"
    BY <1>1, <1>2 DEF SameTurns
  <2> QED
    BY <1>1, <2>1, <2>2 DEF TurnRows
<1>4. \A t \in TU!OpenTurns(D) : E.turns[t].msg \in TU!Steps(E) <=> D.turns[t].msg \in TU!Steps(D)
  BY <1>1, <1>2, StepsOf DEF SameTurns, MsgsFollow
<1> QED
  BY <1>1, <1>3, <1>4 DEF TU!OpenStepTurn

LEMMA RemindersStay ==
    ASSUME NEW D \in Rows, NEW E \in Rows, NEW own, ReminderRows(D), Follows(D, E, own),
           NoReminder(D.msgs, E.msgs)
    PROVE  ReminderRows(E)
<1>1. /\ TU!Reminders(D) = {m \in TU!Steps(D) : D.msgs[m].why = "reminder"}
      /\ TU!Reminders(E) = {m \in TU!Steps(E) : E.msgs[m].why = "reminder"}
  BY DEF TU!Reminders
<1>2. ASSUME NEW m \in TU!Reminders(E)
      PROVE  m \in TU!Reminders(D) /\ E.msgs[m].turn = D.msgs[m].turn
  <2>1. m \in 1..Len(D.msgs)
    BY <1>1, StepsOf DEF NoReminder
  <2> QED
    BY <1>1, <2>1, StepsOf DEF Follows, MsgsFollow
<1>3. ASSUME NEW t \in 1..MaxTurns, D.turns[t].st \in {"completed", "error"}
      PROVE  E.turns[t].st = D.turns[t].st /\ E.turns[t].msg = D.turns[t].msg
  BY <1>3 DEF Follows, TurnFollows, Ends
<1> QED
  BY <1>2, <1>3 DEF ReminderRows

\* Prompts and turns are kept; a prompt may come that reminds of nothing.
Keeps(D, E) ==
    /\ E \in Rows /\ E.turns = D.turns /\ MsgsFollow(D.msgs, E.msgs)
    /\ NoReminder(D.msgs, E.msgs)
    /\ \A m \in 1..Len(D.msgs) : D.msgs[m].status = "sent" => E.msgs[m].status = "sent"

SameClock(D, E) ==
    /\ E.run = D.run /\ E.req = D.req /\ E.paused = D.paused /\ E.on = D.on
    /\ E.anchor = D.anchor /\ E.attempt = D.attempt /\ E.err = D.err /\ E.busy = D.busy

LEMMA SeqOfFunction ==
    ASSUME NEW S, NEW n \in Nat, NEW f \in [1..n -> S]
    PROVE  f \in Seq(S) /\ Len(f) = n
<1>1. f \in Seq(S)
  BY SeqDef
<1>2. DOMAIN f = 1..n /\ DOMAIN f = 1..Len(f) /\ Len(f) \in Nat
  BY <1>1, LenProperties
<1> QED
  BY <1>2

LEMMA KeepsOn ==
    ASSUME NEW D \in Rows, NEW E, NEW F, Keeps(D, E), Keeps(E, F)
    PROVE  Keeps(D, F)
<1>1. E \in Rows /\ F \in Rows
  BY DEF Keeps
<1> QED
  BY <1>1, StepsOf DEF Keeps, MsgsFollow, NoReminder

LEMMA KeepsSame ==
    ASSUME NEW D \in Rows, NEW E, TurnRows(D), Keeps(D, E)
    PROVE  SameTurns(D, E)
BY OpenTurnsOf DEF Keeps, SameTurns, TurnRows

\* With one set of messages in the place of another.
LEMMA Reworded ==
    ASSUME NEW D \in Rows, NEW ms \in Seq(Message)
    PROVE  LET E == [D EXCEPT !.msgs = ms] IN
           /\ E \in Rows /\ E.msgs = ms /\ E.turns = D.turns /\ SameClock(D, E)
BY DEF Rows, SameClock

LEMMA PendingCancelled ==
    ASSUME NEW D \in Rows
    PROVE  Keeps(D, TU!CancelPending(D)) /\ SameClock(D, TU!CancelPending(D))
<1> DEFINE Of(m) == IF D.msgs[m].kind = "step" /\ D.msgs[m].status = "pending"
                    THEN [D.msgs[m] EXCEPT !.status = "cancelled"] ELSE D.msgs[m]
           ms == [m \in 1..Len(D.msgs) |-> Of(m)]
<1>1. \A m \in 1..Len(D.msgs) : Of(m) \in Message
  BY StepsOf DEF Message
<1>2. ms \in Seq(Message) /\ Len(ms) = Len(D.msgs)
  <2>1. ms \in [1..Len(D.msgs) -> Message] /\ Len(D.msgs) \in Nat
    BY <1>1, StepsOf
  <2> HIDE DEF ms
  <2> QED
    BY <2>1, SeqOfFunction
<1>3. TU!CancelPending(D) = [D EXCEPT !.msgs = ms]
  BY StepsOf DEF TU!CancelPending
<1>4. \A m \in 1..Len(D.msgs) : ms[m] = Of(m)
  OBVIOUS
<1> HIDE DEF ms
<1>5. /\ TU!CancelPending(D) \in Rows /\ TU!CancelPending(D).msgs = ms
      /\ TU!CancelPending(D).turns = D.turns /\ SameClock(D, TU!CancelPending(D))
  BY <1>2, <1>3, Reworded
<1>6. \A m \in 1..Len(D.msgs) : /\ ms[m].kind = D.msgs[m].kind /\ ms[m].why = D.msgs[m].why
                                /\ ms[m].turn = D.msgs[m].turn
                                /\ D.msgs[m].status = "sent" => ms[m].status = "sent"
  BY <1>4, StepsOf DEF Message
<1> QED
  BY <1>2, <1>5, <1>6, StepsOf DEF Keeps, MsgsFollow, NoReminder

LEMMA Appended ==
    ASSUME NEW D \in Rows, NEW x \in Message
    PROVE  LET E == [D EXCEPT !.msgs = Append(@, x)] IN
           /\ E \in Rows /\ E.turns = D.turns /\ SameClock(D, E)
           /\ Len(E.msgs) = Len(D.msgs) + 1 /\ E.msgs[Len(D.msgs) + 1] = x
           /\ \A m \in 1..Len(D.msgs) : E.msgs[m] = D.msgs[m]
           /\ x.why # "reminder" => Keeps(D, E)
<1> DEFINE ms == Append(D.msgs, x)
           E == [D EXCEPT !.msgs = ms]
<1>1. /\ ms \in Seq(Message) /\ Len(ms) = Len(D.msgs) + 1 /\ ms[Len(D.msgs) + 1] = x
      /\ \A m \in 1..Len(D.msgs) : ms[m] = D.msgs[m]
  BY StepsOf, AppendProperties
<1> HIDE DEF ms
<1>2. E \in Rows /\ E.msgs = ms /\ E.turns = D.turns /\ SameClock(D, E)
  BY <1>1, Reworded
<1> HIDE DEF E
<1>3. x.why # "reminder" => Keeps(D, E)
  BY <1>1, <1>2, StepsOf DEF Keeps, MsgsFollow, NoReminder
<1>4. [D EXCEPT !.msgs = Append(@, x)] = E
  BY DEF E, ms
<1> QED
  BY <1>1, <1>2, <1>3, <1>4

LEMMA ItKeeps ==
    ASSUME NEW D \in Rows
    PROVE  Keeps(D, D) /\ SameClock(D, D)
BY StepsOf DEF Keeps, SameClock, MsgsFollow, NoReminder

LEMMA PromptEnsured ==
    ASSUME NEW D \in Rows
    PROVE  LET E == TU!EnsurePrompt(D, "resumed", TU!NoId)
           IN Keeps(D, E) /\ SameClock(D, E)
<1> DEFINE x == TU!Row("step", "resumed", D.rev, TU!NoId, TRUE)
           E == TU!EnsurePrompt(D, "resumed", TU!NoId)
<1>1. x \in Message /\ x.why # "reminder"
  BY DEF Rows, Message, Reasons, TU!Row, TU!NoId
<1>2. E = D \/ E = [D EXCEPT !.msgs = Append(@, x)]
  BY DEF TU!EnsurePrompt
<1> HIDE DEF x, E
<1> QED
  BY <1>1, <1>2, Appended, ItKeeps DEF E

LEMMA TerminalEnsured ==
    ASSUME NEW D \in Rows
    PROVE  Keeps(D, TU!EnsureTerminal(D)) /\ SameClock(D, TU!EnsureTerminal(D))
<1> DEFINE x == TU!Row("terminal", D.run, D.rev, TU!NoId, D.run # "cancelled")
           E == TU!EnsureTerminal(D)
<1>1. TU!Over(D) => x \in Message /\ x.why # "reminder"
  BY DEF Rows, Message, Reasons, TU!Row, TU!NoId, TU!Over
<1>2. E = D \/ (TU!Over(D) /\ E = [D EXCEPT !.msgs = Append(@, x)])
  BY DEF TU!EnsureTerminal
<1> HIDE DEF x, E
<1> QED
  BY <1>1, <1>2, Appended, ItKeeps DEF E

\* With one message in the place of another.
LEMMA MessageReplaced ==
    ASSUME NEW D \in Rows, NEW m \in 1..Len(D.msgs), NEW x \in Message,
           NEW E, E = [D EXCEPT !.msgs = [D.msgs EXCEPT ![m] = x]]
    PROVE  /\ E \in Rows /\ E.turns = D.turns /\ SameClock(D, E) /\ Len(E.msgs) = Len(D.msgs)
           /\ E.msgs[m] = x /\ \A n \in 1..Len(D.msgs) : n # m => E.msgs[n] = D.msgs[n]
<1> DEFINE ms == [D.msgs EXCEPT ![m] = x]
<1>1. /\ ms \in Seq(Message) /\ Len(ms) = Len(D.msgs)
      /\ \A n \in 1..Len(D.msgs) : ms[n] = IF n = m THEN x ELSE D.msgs[n]
  BY StepsOf, ExceptSeq
<1> HIDE DEF ms
<1>2. E \in Rows /\ E.msgs = ms /\ E.turns = D.turns /\ SameClock(D, E)
  BY <1>1, Reworded DEF ms
<1> QED
  BY <1>1, <1>2

LEMMA EntryAdopted ==
    ASSUME NEW D \in Rows, NEW r, r.entry => r.msg \in 1..Len(D.msgs)
    PROVE  /\ Keeps(D, TU!Adopt(D, r)) /\ SameClock(D, TU!Adopt(D, r))
           /\ r.entry => TU!Adopt(D, r).msgs[r.msg].status = "sent"
<1>1. CASE r.entry /\ D.msgs[r.msg].status # "sent"
  <2> DEFINE m == r.msg
             E == TU!Adopt(D, r)
  <2>1. m \in 1..Len(D.msgs)
    BY <1>1
  <2> DEFINE x == [D.msgs[m] EXCEPT !.status = "sent", !.entry = TRUE]
  <2>2. E = [D EXCEPT !.msgs = [D.msgs EXCEPT ![m] = x]]
    <3> DEFINE D1 == [D EXCEPT !.msgs[m].status = "sent"]
               y == [D.msgs[m] EXCEPT !.status = "sent"]
               ms == [D.msgs EXCEPT ![m] = y]
    <3>1. E = [D1 EXCEPT !.msgs[m].entry = TRUE]
      BY <1>1 DEF TU!Adopt
    <3>2. D1 = [D EXCEPT !.msgs = ms]
      BY DEF Rows
    <3>3. D1.msgs = ms /\ ms[m] = y
      BY <2>1, <3>2, StepsOf DEF Rows
    <3>4. [ms EXCEPT ![m] = [y EXCEPT !.entry = TRUE]] = [D.msgs EXCEPT ![m] = x]
      BY <2>1, StepsOf DEF Message
    <3> HIDE DEF D1, E, x, y, ms
    <3>5. E = [D1 EXCEPT !.msgs = [ms EXCEPT ![m] = [y EXCEPT !.entry = TRUE]]]
      BY <3>1, <3>3
    <3>6. [D1 EXCEPT !.msgs = [D.msgs EXCEPT ![m] = x]]
              = [D EXCEPT !.msgs = [D.msgs EXCEPT ![m] = x]]
      BY <3>2 DEF Rows
    <3> QED
      BY <3>4, <3>5, <3>6
  <2>3. D.msgs[m] \in Message
    BY <2>1, StepsOf
  <2>4. D.msgs[m] \in Message /\ x \in Message
    <3> HIDE DEF m
    <3> QED
      BY <2>3 DEF Message
  <2>5. x.status = "sent" /\ x.kind = D.msgs[m].kind /\ x.why = D.msgs[m].why
        /\ x.turn = D.msgs[m].turn
    BY <2>4 DEF Message
  <2> HIDE DEF E, m, x
  <2>6. /\ E \in Rows /\ E.turns = D.turns /\ SameClock(D, E) /\ Len(E.msgs) = Len(D.msgs)
        /\ E.msgs[m] = x /\ \A n \in 1..Len(D.msgs) : n # m => E.msgs[n] = D.msgs[n]
    BY <2>1, <2>2, <2>4, MessageReplaced
  <2>7. \A n \in 1..Len(D.msgs) :
           /\ E.msgs[n].kind = D.msgs[n].kind /\ E.msgs[n].why = D.msgs[n].why
           /\ E.msgs[n].turn = D.msgs[n].turn
           /\ D.msgs[n].status = "sent" => E.msgs[n].status = "sent"
    BY <2>6, <2>5
  <2>8. Keeps(D, E)
    BY <2>6, <2>7, StepsOf DEF Keeps, MsgsFollow, NoReminder
  <2> QED
    BY <2>6, <2>5, <2>8 DEF E, m
<1>2. CASE ~(r.entry /\ D.msgs[r.msg].status # "sent")
  BY <1>2, ItKeeps DEF TU!Adopt
<1> QED
  BY <1>1, <1>2

\* A prompt is shown again only when no turn is open.
LEMMA PromptNamed ==
    ASSUME NEW D \in Rows, NEW why, NEW t, TU!Prompt(D, why, t) # 0
    PROVE  LET m == TU!Prompt(D, why, t) IN
           /\ m \in 1..Len(D.msgs) /\ D.msgs[m].kind = "step" /\ D.msgs[m].why = why
           /\ D.msgs[m].turn = t
<1> DEFINE S == {m \in TU!Steps(D) : D.msgs[m].why = why /\ D.msgs[m].rev = D.rev
                                     /\ D.msgs[m].turn = t}
<1>1. S \subseteq Nat /\ TU!Prompt(D, why, t) = TU!First(S)
  BY StepsOf DEF TU!Prompt
<1>2. S # {}
  <2>1. TU!First({}) = 0
    BY DEF TU!First, TU!NoId
  <2> HIDE DEF S
  <2> QED
    BY <1>1, <2>1
<1>3. TU!First(S) \in S
  <2> HIDE DEF S
  <2> QED
    BY <1>1, <1>2, FirstOf
<1> QED
  BY <1>1, <1>3, StepsOf

LEMMA PromptThere ==
    ASSUME NEW D \in Rows
    PROVE  TU!Prompt(TU!EnsurePrompt(D, "resumed", TU!NoId), "resumed", TU!NoId) # 0
<1> DEFINE x == TU!Row("step", "resumed", D.rev, TU!NoId, TRUE)
           E == [D EXCEPT !.msgs = Append(@, x)]
           n == Len(D.msgs) + 1
           S == {m \in TU!Steps(E) : E.msgs[m].why = "resumed" /\ E.msgs[m].rev = E.rev
                                     /\ E.msgs[m].turn = TU!NoId}
<1>1. CASE TU!Prompt(D, "resumed", TU!NoId) # 0
  BY <1>1 DEF TU!EnsurePrompt, TU!NoId
<1>2. CASE TU!Prompt(D, "resumed", TU!NoId) = 0
  <2>1. x \in Message /\ x.kind = "step" /\ x.why = "resumed" /\ x.rev = D.rev
        /\ x.turn = TU!NoId
    BY DEF Rows, Message, Reasons, TU!Row, TU!NoId
  <2>2. TU!EnsurePrompt(D, "resumed", TU!NoId) = E
    BY <1>2 DEF TU!EnsurePrompt, TU!NoId
  <2>3. E.rev = D.rev
    BY DEF Rows
  <2> HIDE DEF x
  <2>4. E \in Rows /\ Len(E.msgs) = n /\ E.msgs[n] = x
    BY <2>1, Appended
  <2> HIDE DEF E
  <2>5. S \subseteq Nat /\ n \in S /\ \A m \in S : m # 0
    BY <2>1, <2>3, <2>4, StepsOf
  <2>6. TU!Prompt(E, "resumed", TU!NoId) = TU!First(S)
    BY DEF TU!Prompt
  <2> HIDE DEF S
  <2>7. TU!First(S) \in S
    BY <2>5, FirstOf
  <2> QED
    BY <2>2, <2>5, <2>6, <2>7
<1> QED
  BY <1>1, <1>2

\* A prompt is shown again only when no turn is open.
LEMMA Reopened ==
    ASSUME NEW D \in Rows, NEW m \in 1..Len(D.msgs), D.msgs[m].kind = "step",
           D.msgs[m].why = "resumed", TU!OpenTurns(D) = {}
    PROVE  /\ SameTurns(D, TU!Reopen(D, m)) /\ SameClock(D, TU!Reopen(D, m))
           /\ NoReminder(D.msgs, TU!Reopen(D, m).msgs)
<1> DEFINE E == TU!Reopen(D, m)
<1>1. CASE D.msgs[m].status = "pending"
  <2>1. E = D
    BY <1>1 DEF TU!Reopen
  <2> HIDE DEF E
  <2>2. Keeps(D, E) /\ SameClock(D, E)
    BY <2>1, ItKeeps
  <2> QED
    BY <2>2 DEF E, Keeps, SameTurns
<1>2. CASE D.msgs[m].status # "pending"
  <2> DEFINE x == [D.msgs[m] EXCEPT !.status = "pending", !.entry = FALSE]
  <2>1. E = [D EXCEPT !.msgs = [D.msgs EXCEPT ![m] = x]]
    BY <1>2, StepsOf DEF TU!Reopen, Rows, Message
  <2>2. D.msgs[m] \in Message
    BY StepsOf
  <2>3. x \in Message
    BY <2>2 DEF Message
  <2>4. x.kind = D.msgs[m].kind /\ x.why = D.msgs[m].why /\ x.turn = D.msgs[m].turn
    BY <2>2 DEF Message
  <2> HIDE DEF E, x
  <2>5. /\ E \in Rows /\ E.turns = D.turns /\ SameClock(D, E) /\ Len(E.msgs) = Len(D.msgs)
        /\ E.msgs[m] = x /\ \A n \in 1..Len(D.msgs) : n # m => E.msgs[n] = D.msgs[n]
    BY <2>1, <2>3, MessageReplaced
  <2>6. MsgsFollow(D.msgs, E.msgs)
    BY <2>4, <2>5, StepsOf DEF MsgsFollow
  <2>7. NoReminder(D.msgs, E.msgs)
    BY <2>5, StepsOf DEF NoReminder
  <2> QED
    BY <2>5, <2>6, <2>7 DEF E, SameTurns
<1> QED
  BY <1>1, <1>2

LEMMA ShownAgain ==
    ASSUME NEW D \in Rows, NEW r, TurnRows(D), TU!OpenTurns(D) = {}
    PROVE  /\ SameTurns(D, TU!ShowAgain(D, r)) /\ SameClock(D, TU!ShowAgain(D, r))
           /\ NoReminder(D.msgs, TU!ShowAgain(D, r).msgs)
<1> DEFINE C == TU!CancelPending(D)
           B == TU!EnsurePrompt(C, "resumed", TU!NoId)
           m == TU!Prompt(B, "resumed", TU!NoId)
           E == TU!Reopen(B, m)
<1>1. Keeps(D, D) /\ SameClock(D, D) /\ SameTurns(D, D)
  BY ItKeeps, KeepsSame
<1>2. Keeps(D, C) /\ SameClock(D, C) /\ C \in Rows
  BY PendingCancelled DEF Keeps
<1>3. Keeps(C, B) /\ SameClock(C, B) /\ B \in Rows /\ m # 0
  BY <1>2, PromptEnsured, PromptThere DEF Keeps
<1>4. Keeps(D, B) /\ SameClock(D, B) /\ TU!OpenTurns(B) = {}
  <2>1. Keeps(D, B)
    BY <1>2, <1>3, KeepsOn
  <2> QED
    BY <1>2, <1>3, <2>1 DEF Keeps, SameClock, TU!OpenTurns
<1>5. m \in 1..Len(B.msgs) /\ B.msgs[m].kind = "step" /\ B.msgs[m].why = "resumed"
  BY <1>3, PromptNamed
<1>6. SameTurns(B, E) /\ SameClock(B, E) /\ NoReminder(B.msgs, E.msgs)
  BY <1>3, <1>4, <1>5, Reopened
<1>7. TU!ShowAgain(D, r) \in {D, E}
  BY DEF TU!ShowAgain
<1> HIDE DEF C, B, m, E
<1>8. E \in Rows
  BY <1>6 DEF SameTurns
<1>9. MsgsFollow(D.msgs, E.msgs)
  BY <1>3, <1>4, <1>6, <1>8, StepsOf DEF Keeps, SameTurns, MsgsFollow
<1>10. NoReminder(D.msgs, E.msgs)
  BY <1>3, <1>4, <1>6, <1>8, StepsOf DEF Keeps, SameTurns, MsgsFollow, NoReminder
<1>11. SameTurns(D, E) /\ SameClock(D, E)
  BY <1>4, <1>6, <1>8, <1>9 DEF Keeps, SameTurns, SameClock
<1> QED
  BY <1>1, <1>7, <1>10, <1>11 DEF Keeps

-----------------------------------------------------------------------------
(* The clocks, and the ends of turns.                                      *)

SameRun(D, E) ==
    /\ E.run = D.run /\ E.req = D.req /\ E.paused = D.paused
    /\ E.err = D.err /\ E.busy = D.busy

LEMMA ItKeepsFields ==
    ASSUME NEW D \in Rows, NEW E \in Rows, E.msgs = D.msgs, E.turns = D.turns
    PROVE  Keeps(D, E)
BY StepsOf DEF Keeps, MsgsFollow, NoReminder

LEMMA ClockStarted ==
    ASSUME NEW D \in Rows, D.on => D.anchor
    PROVE  LET E == TU!StartClock(D) IN
           /\ Keeps(D, E) /\ SameRun(D, E) /\ E.on /\ E.anchor /\ E.attempt = D.attempt
<1> DEFINE E == TU!StartClock(D)
<1>1. /\ E \in Rows /\ E.msgs = D.msgs /\ E.turns = D.turns /\ SameRun(D, E)
      /\ E.on /\ E.anchor /\ E.attempt = D.attempt
  BY DEF TU!StartClock, Rows, SameRun
<1> HIDE DEF E
<1> QED
  BY <1>1, ItKeepsFields DEF E

LEMMA ClockStopped ==
    ASSUME NEW D \in Rows, D.on => D.anchor
    PROVE  LET E == TU!StopClock(D) IN
           Keeps(D, E) /\ SameRun(D, E) /\ ~E.on /\ E.attempt = D.attempt
<1> DEFINE E == TU!StopClock(D)
<1>1. /\ E \in Rows /\ E.msgs = D.msgs /\ E.turns = D.turns /\ SameRun(D, E) /\ ~E.on
      /\ E.attempt = D.attempt
  <2>1. (E = D /\ ~D.on) \/ E = [D EXCEPT !.on = FALSE]
    BY DEF TU!StopClock
  <2> HIDE DEF E
  <2>2. CASE E = D /\ ~D.on
    BY <2>2 DEF SameRun
  <2>3. CASE E = [D EXCEPT !.on = FALSE]
    BY <2>3 DEF Rows, SameRun
  <2> QED
    BY <2>1, <2>2, <2>3
<1> HIDE DEF E
<1> QED
  BY <1>1, ItKeepsFields DEF E

LEMMA RunPaused ==
    ASSUME NEW D \in Rows
    PROVE  LET E == TU!PauseParked(D) IN
           /\ Keeps(D, E) /\ E.run = D.run /\ E.req = D.req /\ E.err = D.err
           /\ E.busy = D.busy /\ E.attempt = D.attempt /\ E.paused
           /\ E.anchor = D.anchor /\ (E.on => D.on /\ D.paused)
<1> DEFINE E == TU!PauseParked(D)
<1>1. /\ E \in Rows /\ E.msgs = D.msgs /\ E.turns = D.turns /\ E.run = D.run
      /\ E.req = D.req /\ E.err = D.err /\ E.busy = D.busy /\ E.attempt = D.attempt
      /\ E.paused /\ E.anchor = D.anchor /\ (E.on => D.on /\ D.paused)
  BY DEF TU!PauseParked, TU!CloseClock, Rows
<1> HIDE DEF E
<1> QED
  BY <1>1, ItKeepsFields DEF E

\* What holds of rows also does after a transaction that keeps the turns.
LEMMA KeepsGood ==
    ASSUME NEW D \in Rows, NEW E, TurnRows(D), ReminderRows(D), Keeps(D, E), NEW own
    PROVE  /\ E \in Rows /\ TurnRows(E) /\ ReminderRows(E)
           /\ TU!OpenTurns(E) = TU!OpenTurns(D)
           /\ TU!OpenStepTurn(E) <=> TU!OpenStepTurn(D)
           /\ Follows(D, E, own)
<1>1. SameTurns(D, E) /\ E \in Rows /\ NoReminder(D.msgs, E.msgs)
  BY KeepsSame DEF Keeps
<1>2. Follows(D, E, own)
  BY <1>1, SameTurnsFollow
<1> QED
  BY <1>1, <1>2, SameTurnsGood, RemindersStay

LEMMA TurnMarked ==
    ASSUME NEW D \in Rows, TurnRows(D), ReminderRows(D), NEW t \in TU!OpenTurns(D),
           NEW why \in {"lost"} \cup Ends, NEW own, own = t \/ why = "lost"
    PROVE  LET E == [D EXCEPT !.turns[t].st = why] IN
           /\ E \in Rows /\ E.msgs = D.msgs /\ SameClock(D, E) /\ E.turns[t].st = why
           /\ TU!OpenTurns(E) = {} /\ TurnRows(E) /\ ReminderRows(E) /\ Follows(D, E, own)
<1> DEFINE x == [D.turns[t] EXCEPT !.st = why]
           E == [D EXCEPT !.turns[t].st = why]
<1>1. t \in 1..MaxTurns /\ D.turns[t].st = "started" /\ D.turns[t] \in TurnRow
  BY OpenTurnsOf, StepsOf
<1>2. x \in TurnRow /\ x.st = why /\ x.msg = D.turns[t].msg
  BY <1>1 DEF TurnRow
<1>3. E = [D EXCEPT !.turns = [D.turns EXCEPT ![t] = x]]
  BY <1>1 DEF Rows
<1> HIDE DEF x, E
<1>4. /\ E \in Rows /\ E.msgs = D.msgs /\ SameClock(D, E) /\ E.turns[t] = x
      /\ \A u \in 1..MaxTurns : u # t => E.turns[u] = D.turns[u]
  BY <1>1, <1>2, <1>3 DEF Rows, SameClock
<1>5. TU!OpenTurns(E) = {}
  <2>1. ASSUME NEW u \in TU!OpenTurns(E) PROVE FALSE
    <3>1. u \in 1..MaxTurns /\ E.turns[u].st = "started"
      BY OpenTurnsOf
    <3>2. CASE u = t
      BY <1>2, <1>4, <3>1, <3>2 DEF Ends
    <3>3. CASE u # t
      BY <1>4, <3>1, <3>3, OpenTurnsOf DEF TurnRows
    <3> QED
      BY <3>2, <3>3
  <2> QED
    BY <2>1
<1>6. TurnRows(E)
  BY <1>1, <1>2, <1>4, <1>5 DEF TurnRows
<1>7. Follows(D, E, own)
  <2>1. MsgsFollow(D.msgs, E.msgs)
    BY <1>4, StepsOf DEF MsgsFollow
  <2>2. ASSUME NEW u \in 1..MaxTurns PROVE TurnFollows(D.turns[u], E.turns[u], u = own)
    <3>1. CASE u = t
      BY <1>1, <1>2, <1>4, <3>1 DEF TurnFollows, Ends
    <3>2. CASE u # t
      BY <1>4, <3>2, StepsOf DEF TurnFollows, TurnRow, Ends
    <3> QED
      BY <3>1, <3>2
  <2> QED
    BY <2>1, <2>2 DEF Follows
<1>8. NoReminder(D.msgs, E.msgs)
  BY <1>4, StepsOf DEF NoReminder
<1>9. ReminderRows(E)
  BY <1>4, <1>7, <1>8, RemindersStay
<1> QED
  BY <1>2, <1>4, <1>5, <1>6, <1>7, <1>9 DEF E

LEMMA TurnEnded ==
    ASSUME NEW D, GoodRows(D), NEW t \in TU!OpenTurns(D),
           NEW why \in {"lost"} \cup Ends, NEW own, own = t \/ why = "lost"
    PROVE  LET E == TU!EndTurn(D, t, why) IN
           /\ ~E.err /\ (E.busy => why = "aborted")
           /\ ~E.busy => /\ GoodRows(E) /\ TU!OpenTurns(E) = {} /\ Follows(D, E, own)
                         /\ E.turns[t].st = why
<1> DEFINE m == D.turns[t].msg
           D1 == [D EXCEPT !.turns[t].st = why]
           D2 == [D1 EXCEPT !.watch = FALSE,
                            !.stop = @ \/ (why # "completed" /\ ~TU!Stopped(D))]
           D3 == TU!StopClock(D1)
           D4 == TU!PauseParked(D3)
           D5 == TU!CancelPending(D4)
           E == TU!EndTurn(D, t, why)
<1>1. D \in Rows /\ TurnRows(D) /\ ReminderRows(D) /\ RunRow(D)
  BY DEF GoodRows
<1>2. t \in 1..MaxTurns /\ D.turns[t].st = "started"
  BY OpenTurnsOf
<1>3. /\ D1 \in Rows /\ D1.msgs = D.msgs /\ SameClock(D, D1) /\ D1.turns[t].st = why
      /\ TU!OpenTurns(D1) = {} /\ TurnRows(D1) /\ ReminderRows(D1) /\ Follows(D, D1, own)
  BY <1>1, TurnMarked
<1>4. \/ E = D2 /\ m \notin TU!Steps(D)
      \/ E = D3 \/ E = D5
      \/ E = [D EXCEPT !.busy = TRUE] /\ why = "aborted"
  BY <1>2 DEF TU!EndTurn
<1> HIDE DEF D1, E, m
<1>5. Keeps(D1, D2) /\ SameClock(D1, D2)
  <2>1. D2 \in Rows /\ D2.msgs = D1.msgs /\ D2.turns = D1.turns /\ SameClock(D1, D2)
    BY <1>3 DEF Rows, SameClock
  <2> HIDE DEF D2
  <2> QED
    BY <1>3, <2>1, ItKeepsFields
<1> HIDE DEF D2
<1>6. D1.on => D1.anchor
  BY <1>1, <1>3 DEF RunRow, SameClock
<1>7. Keeps(D1, D3) /\ SameRun(D1, D3) /\ ~D3.on
  BY <1>3, <1>6, ClockStopped
<1> HIDE DEF D3
<1>8. /\ Keeps(D3, D4) /\ D4.run = D3.run /\ D4.req = D3.req /\ D4.err = D3.err
      /\ D4.busy = D3.busy /\ ~D4.on
  BY <1>7, RunPaused DEF Keeps
<1> HIDE DEF D4
<1>9. Keeps(D4, D5) /\ SameClock(D4, D5)
  BY <1>8, PendingCancelled DEF Keeps
<1> HIDE DEF D5
<1>10. /\ Keeps(D1, D5) /\ D5.run = D.run /\ D5.req = D.req /\ ~D5.err /\ ~D5.busy /\ ~D5.on
  <2>1. Keeps(D3, D5)
    BY <1>7, <1>8, <1>9, KeepsOn DEF Keeps
  <2>2. Keeps(D1, D5)
    BY <1>3, <1>7, <2>1, KeepsOn
  <2> QED
    BY <1>1, <1>3, <1>7, <1>8, <1>9, <2>2 DEF SameClock, SameRun, RunRow
<1>11. /\ Keeps(D1, D3) /\ D3.run = D.run /\ D3.req = D.req /\ ~D3.err /\ ~D3.busy /\ ~D3.on
  BY <1>1, <1>3, <1>7 DEF SameClock, SameRun, RunRow
<1>12. ASSUME E = D2, m \notin TU!Steps(D)
       PROVE  /\ Keeps(D1, D2) /\ D2.run = D.run /\ D2.req = D.req /\ ~D2.err /\ ~D2.busy
              /\ (D2.on => D2.anchor) /\ ~(D2.on /\ TU!Pending(D2))
  <2>1. ~(D.on /\ TU!Pending(D))
    BY <1>1, <1>12 DEF RunRow, TurnRows, TU!OpenStepTurn, m
  <2> QED
    BY <1>1, <1>3, <1>5, <2>1 DEF SameClock, RunRow, TU!Pending
<1>13. CASE E = [D EXCEPT !.busy = TRUE] /\ why = "aborted"
  <2>1. E.err = D.err /\ E.busy
    BY <1>1, <1>13 DEF Rows
  <2> QED
    BY <1>1, <1>13, <2>1 DEF RunRow, E
<1>14. ASSUME /\ Keeps(D1, E) /\ E.run = D.run /\ E.req = D.req /\ ~E.err /\ ~E.busy
              /\ (E.on => E.anchor) /\ ~(E.on /\ TU!Pending(E))
       PROVE  GoodRows(E) /\ TU!OpenTurns(E) = {} /\ Follows(D, E, own) /\ E.turns[t].st = why
  <2>1. /\ E \in Rows /\ TurnRows(E) /\ ReminderRows(E) /\ TU!OpenTurns(E) = {}
        /\ Follows(D1, E, own)
    BY <1>3, <1>14, KeepsGood
  <2>2. Follows(D, E, own)
    BY <1>1, <1>3, <2>1, FollowsOn
  <2>3. RunRow(E)
    BY <1>1, <1>14 DEF RunRow, TU!Pending, TU!Over
  <2> QED
    BY <1>3, <1>14, <2>1, <2>2, <2>3 DEF GoodRows, Keeps
<1>15. CASE E = D2 /\ m \notin TU!Steps(D)
  BY <1>12, <1>14, <1>15 DEF E
<1>16. CASE E = D3
  BY <1>11, <1>14, <1>16 DEF E
<1>17. CASE E = D5
  BY <1>10, <1>14, <1>17 DEF E
<1> QED
  BY <1>4, <1>13, <1>15, <1>16, <1>17

LEMMA TurnLost ==
    ASSUME NEW D, GoodRows(D), NEW own
    PROVE  LET E == TU!LoseTurn(D) IN
           GoodRows(E) /\ TU!OpenTurns(E) = {} /\ Follows(D, E, own)
<1> DEFINE S == TU!OpenTurns(D)
           t == TU!First(S)
<1>1. S \subseteq Nat /\ 0 \notin S
  BY OpenTurnsOf
<1>2. CASE S = {}
  <2>1. t = 0
    BY <1>2 DEF TU!First, TU!NoId
  <2>2. TU!LoseTurn(D) = D
    BY <2>1 DEF TU!LoseTurn, TU!NoId
  <2>3. Follows(D, D, own)
    BY ItKeeps, KeepsGood DEF GoodRows
  <2> QED
    BY <1>2, <2>2, <2>3
<1>3. CASE S # {}
  <2>1. t \in S
    <3> HIDE DEF S
    <3> QED
      BY <1>1, <1>3, FirstOf
  <2>2. TU!LoseTurn(D) = TU!EndTurn(D, t, "lost")
    BY <1>1, <2>1 DEF TU!LoseTurn, TU!NoId
  <2> QED
    BY <2>1, <2>2, TurnEnded
<1> QED
  BY <1>2, <1>3

\* With no turn open nothing is measured, whatever the server knows of Pi.
LEMMA NothingMeasured ==
    ASSUME NEW D, GoodRows(D), TU!OpenTurns(D) = {}, NEW c,
           c.epoch = 0 => c = TU!NoCoordinator, c.epoch # 0 => c.needs = ~c.reported
    PROVE  CoordinatorRow(D, c)
BY DEF CoordinatorRow, GoodRows, RunRow, TU!OpenStepTurn

-----------------------------------------------------------------------------
(* The reports.                                                            *)

LEMMA WasSentStays ==
    ASSUME NEW D \in Rows, NEW E \in Rows, MsgsFollow(D.msgs, E.msgs), NEW m, WasSent(D, m)
    PROVE  WasSent(E, m)
BY StepsOf DEF MsgsFollow, WasSent

LEMMA Watched ==
    ASSUME NEW D \in Rows
    PROVE  Keeps(D, TU!Watch(D)) /\ SameClock(D, TU!Watch(D))
<1> DEFINE w == \E t \in TU!OpenTurns(D) : D.turns[t].msg = TU!Terminal(D) /\ ~D.stop
           E == TU!Watch(D)
<1>1. w \in BOOLEAN
  OBVIOUS
<1>2. E = [D EXCEPT !.watch = w]
  BY DEF TU!Watch
<1> HIDE DEF w, E
<1>3. E \in Rows /\ E.msgs = D.msgs /\ E.turns = D.turns /\ SameClock(D, E)
  BY <1>1, <1>2 DEF Rows, SameClock
<1> QED
  BY <1>3, ItKeepsFields DEF E

LEMMA TimersResumed ==
    ASSUME NEW D, GoodRows(D), NEW c, CoordinatorRow(D, c), ~c.reported
    PROVE  LET E == TU!ResumeTimers(D) IN
           /\ GoodRows(E) /\ Keeps(D, E)
           /\ TU!Pending(E) /\ ~E.paused /\ TU!OpenStepTurn(E) => E.on
<1> DEFINE late == TU!OpenStepTurn(D) /\ TU!Pending(D) /\ ~D.paused /\ D.attempt = "interrupted"
           D1 == TU!StartClock(D)
           D2 == [D1 EXCEPT !.attempt = "waiting"]
           B == IF late THEN D2 ELSE D
           E == TU!Watch(B)
<1>1. D \in Rows /\ TurnRows(D) /\ ReminderRows(D) /\ RunRow(D)
  BY DEF GoodRows
<1>2. Keeps(D, D1) /\ SameRun(D, D1) /\ D1.on /\ D1.anchor
  BY <1>1, ClockStarted DEF RunRow
<1>3. TU!ResumeTimers(D) = E
  BY DEF TU!ResumeTimers
<1> HIDE DEF D1
<1>4. Keeps(D, D2) /\ SameRun(D, D2) /\ D2.on /\ D2.anchor
  <2>1. D2 \in Rows /\ D2.msgs = D1.msgs /\ D2.turns = D1.turns /\ SameRun(D1, D2)
        /\ D2.on = D1.on /\ D2.anchor = D1.anchor
    BY <1>2 DEF Keeps, Rows, SameRun
  <2> HIDE DEF D2
  <2>2. Keeps(D1, D2)
    BY <1>2, <2>1, ItKeepsFields DEF Keeps
  <2>3. Keeps(D, D2)
    BY <1>1, <1>2, <2>2, KeepsOn
  <2> QED
    BY <1>2, <2>1, <2>3 DEF SameRun
<1> HIDE DEF D2
<1>5. Keeps(D, B) /\ SameRun(D, B) /\ (B.on => B.anchor)
      /\ (TU!Pending(B) /\ ~B.paused /\ TU!OpenStepTurn(D) => B.on)
      /\ (B.on /\ TU!Pending(B) => TU!OpenStepTurn(D) /\ ~B.paused)
  <2>1. CASE late
    BY <1>1, <1>4, <2>1 DEF SameRun, TU!Pending
  <2>2. CASE ~late
    <3>1. Keeps(D, D) /\ SameRun(D, D)
      BY <1>1, ItKeeps DEF SameRun
    <3>2. ~(TU!Pending(D) /\ ~D.paused /\ TU!OpenStepTurn(D))
      BY <2>2 DEF CoordinatorRow
    <3> QED
      BY <1>1, <2>2, <3>1, <3>2 DEF RunRow
  <2> QED
    BY <2>1, <2>2
<1> HIDE DEF B, late
<1>6. Keeps(B, E) /\ SameClock(B, E)
  BY <1>5, Watched DEF Keeps
<1> HIDE DEF E
<1>7. Keeps(D, E)
  BY <1>1, <1>5, <1>6, KeepsOn
<1>8. /\ E \in Rows /\ TurnRows(E) /\ ReminderRows(E)
      /\ TU!OpenStepTurn(E) <=> TU!OpenStepTurn(D)
  BY <1>1, <1>7, KeepsGood
<1>9. RunRow(E)
  BY <1>1, <1>5, <1>6, <1>8 DEF RunRow, SameClock, SameRun, TU!Pending, TU!Over
<1> QED
  BY <1>3, <1>5, <1>6, <1>7, <1>8, <1>9 DEF GoodRows, SameClock, TU!Pending

\* The rows of a coordinator after a transaction that keeps turns and clock.
LEMMA StillGood ==
    ASSUME NEW D, NEW E, GoodRows(D), Keeps(D, E), SameClock(D, E), NEW own
    PROVE  /\ GoodRows(E) /\ Follows(D, E, own)
           /\ TU!OpenTurns(E) = TU!OpenTurns(D)
           /\ TU!OpenStepTurn(E) <=> TU!OpenStepTurn(D)
           /\ \A c : CoordinatorRow(D, c) => CoordinatorRow(E, c)
<1>1. D \in Rows /\ TurnRows(D) /\ ReminderRows(D) /\ RunRow(D)
  BY DEF GoodRows
<1>2. /\ E \in Rows /\ TurnRows(E) /\ ReminderRows(E) /\ Follows(D, E, own)
      /\ TU!OpenTurns(E) = TU!OpenTurns(D)
      /\ TU!OpenStepTurn(E) <=> TU!OpenStepTurn(D)
  BY <1>1, KeepsGood
<1>3. RunRow(E)
  BY <1>1, <1>2 DEF RunRow, SameClock, TU!Pending, TU!Over
<1>4. ASSUME NEW c, CoordinatorRow(D, c) PROVE CoordinatorRow(E, c)
  BY <1>2, <1>4 DEF CoordinatorRow, SameClock, TU!Pending
<1> QED
  BY <1>2, <1>3, <1>4 DEF GoodRows

LEMMA BranchReported ==
    ASSUME NEW D, GoodRows(D), NEW c \in Coordinator, CoordinatorRow(D, c), c.epoch # 0,
           NEW r \in Report, r.entry => r.msg \in 1..Len(D.msgs)
    PROVE  LET E == TU!ReportBranch(D, c, r) IN
           /\ GoodRows(E) /\ Follows(D, E, 0) /\ (r.entry => WasSent(E, r.msg))
           /\ CoordinatorRow(E, [c EXCEPT !.reported = TRUE, !.active = ~r.idle,
                                          !.needs = FALSE])
<1> DEFINE D1 == IF c.needs THEN TU!ResumeTimers(D) ELSE D
           D2 == TU!Adopt(D1, r)
           D3 == TU!LoseTurn(D2)
           D4 == TU!ShowAgain(D3, r)
           E == TU!ReportBranch(D, c, r)
           a == [c EXCEPT !.reported = TRUE, !.active = ~r.idle, !.needs = FALSE]
<1>1. /\ D \in Rows /\ c.needs = ~c.reported /\ r.pend = FALSE /\ r.idle \in BOOLEAN
      /\ r.entry \in BOOLEAN
  BY DEF GoodRows, CoordinatorRow, Report
<1>2. E = IF r.idle THEN D4 ELSE D2
  BY <1>1 DEF TU!ReportBranch
<1>3. /\ GoodRows(D1) /\ Keeps(D, D1)
      /\ ~r.idle => (TU!Pending(D1) /\ ~D1.paused /\ TU!OpenStepTurn(D1) => D1.on)
  <2>1. CASE c.needs
    BY <1>1, <2>1, TimersResumed
  <2>2. CASE ~c.needs
    BY <1>1, <2>2, ItKeeps DEF CoordinatorRow
  <2> QED
    BY <2>1, <2>2
<1>4. D1 \in Rows /\ (r.entry => r.msg \in 1..Len(D1.msgs))
  BY <1>1, <1>3, StepsOf DEF Keeps, MsgsFollow, GoodRows
<1> HIDE DEF D1
<1>5. /\ Keeps(D1, D2) /\ SameClock(D1, D2)
      /\ r.entry => D2.msgs[r.msg].status = "sent" /\ r.msg \in 1..Len(D2.msgs)
  BY <1>4, EntryAdopted, StepsOf DEF Keeps, MsgsFollow
<1> HIDE DEF D2
<1>6. /\ GoodRows(D2) /\ (r.entry => WasSent(D2, r.msg)) /\ D2 \in Rows
      /\ TU!OpenStepTurn(D2) <=> TU!OpenStepTurn(D1)
  BY <1>3, <1>5, StillGood DEF WasSent, GoodRows
<1>7. Follows(D, D2, 0)
  <2>1. Keeps(D, D2)
    BY <1>1, <1>3, <1>5, KeepsOn
  <2> QED
    BY <1>1, <2>1, KeepsGood DEF GoodRows
<1>8. /\ a.epoch # 0 /\ a.reported /\ ~a.needs /\ a.needs = ~a.reported
      /\ (~r.idle => a.active)
  BY <1>1 DEF Coordinator
<1> HIDE DEF a
<1>9. CASE ~r.idle
  <2>1. TU!Pending(D2) /\ ~D2.paused /\ TU!OpenStepTurn(D2) => D2.on
    BY <1>3, <1>5, <1>6, <1>9 DEF SameClock, TU!Pending
  <2>2. CoordinatorRow(D2, a)
    BY <1>8, <1>9, <2>1 DEF CoordinatorRow
  <2> QED
    BY <1>2, <1>6, <1>7, <1>9, <2>2 DEF a
<1>10. CASE r.idle
  <2>1. GoodRows(D3) /\ TU!OpenTurns(D3) = {} /\ Follows(D2, D3, 0)
    BY <1>6, TurnLost
  <2>2. D3 \in Rows /\ TurnRows(D3) /\ ReminderRows(D3) /\ RunRow(D3)
    BY <2>1 DEF GoodRows
  <2> HIDE DEF D3
  <2>3. SameTurns(D3, D4) /\ SameClock(D3, D4) /\ NoReminder(D3.msgs, D4.msgs)
    BY <2>1, <2>2, ShownAgain
  <2> HIDE DEF D4
  <2>4. D4 \in Rows
    BY <2>3 DEF SameTurns
  <2>5. /\ Follows(D3, D4, 0) /\ TurnRows(D4) /\ TU!OpenTurns(D4) = {}
        /\ TU!OpenStepTurn(D4) <=> TU!OpenStepTurn(D3)
    BY <2>1, <2>2, <2>3, SameTurnsFollow, SameTurnsGood
  <2>6. ReminderRows(D4)
    BY <2>2, <2>3, <2>4, <2>5, RemindersStay
  <2>7. RunRow(D4)
    BY <2>2, <2>3, <2>5 DEF RunRow, SameClock, TU!Pending, TU!Over
  <2>8. GoodRows(D4)
    BY <2>4, <2>5, <2>6, <2>7 DEF GoodRows
  <2>9. Follows(D2, D4, 0)
    BY <1>6, <2>1, <2>2, <2>4, <2>5, FollowsOn
  <2>10. Follows(D, D4, 0)
    BY <1>1, <1>6, <1>7, <2>4, <2>9, FollowsOn
  <2>11. r.entry => WasSent(D4, r.msg)
    BY <1>6, <2>4, <2>9, WasSentStays DEF Follows
  <2>12. CoordinatorRow(D4, a)
    BY <1>8, <2>5, <2>8, NothingMeasured
  <2> QED
    BY <1>2, <1>10, <2>8, <2>10, <2>11, <2>12 DEF a
<1> QED
  BY <1>1, <1>9, <1>10

LEMMA FirstIn ==
    ASSUME NEW S, S \subseteq Nat
    PROVE  TU!First(S) \in S \cup {0} /\ (S # {} => TU!First(S) \in S)
<1>1. S = {} => TU!First(S) = 0
  BY DEF TU!First, TU!NoId
<1> QED
  BY <1>1, FirstOf

LEMMA LatestIn ==
    ASSUME NEW n \in Nat, NEW S, S \subseteq 1..n
    PROVE  TU!Latest(S) \in S \cup {0} /\ (S # {} => TU!Latest(S) \in S)
<1>1. S = {} => TU!Latest(S) = 0
  BY DEF TU!Latest, TU!NoId
<1> QED
  BY <1>1, LatestOf

\* The message Pi must act on.
LEMMA CurrentOf ==
    ASSUME NEW D \in Rows, TurnRows(D)
    PROVE  LET m == TU!Current(D) IN
           /\ m \in 0..Len(D.msgs)
           /\ TU!OpenTurns(D) # {} => \E t \in TU!OpenTurns(D) : m = D.turns[t].msg
           /\ TU!OpenTurns(D) = {} /\ m # 0 =>
                 \/ TU!Eligible(D, m) \/ TU!NeedsPiWork(D, m) \/ TU!CancelledStep(D, m)
                 \/ D.msgs[m].kind = "terminal"
<1> DEFINE m     == TU!Current(D)
           open  == {D.turns[t].msg : t \in TU!OpenTurns(D)}
           next  == {n \in DOMAIN D.msgs : TU!Eligible(D, n)}
           owed  == {n \in DOMAIN D.msgs : TU!NeedsPiWork(D, n)}
           undone == {n \in DOMAIN D.msgs : TU!CancelledStep(D, n)}
           last  == {n \in DOMAIN D.msgs : D.msgs[n].kind = "terminal"}
           k     == Len(D.msgs)
<1>1. /\ k \in Nat /\ open \subseteq 1..k /\ next \subseteq 1..k /\ owed \subseteq 1..k
      /\ undone \subseteq 1..k /\ last \subseteq 1..k
  BY StepsOf, OpenTurnsOf DEF TurnRows
<1>2. m = IF open # {} THEN TU!First(open)
          ELSE IF next # {} THEN TU!First(next)
          ELSE IF owed # {} THEN TU!Latest(owed)
          ELSE IF undone # {} THEN TU!Latest(undone)
          ELSE IF TU!Over(D) THEN TU!First(last) ELSE 0
  BY DEF TU!Current, TU!Terminal, TU!NoId
<1>3. open = {} <=> TU!OpenTurns(D) = {}
  OBVIOUS
<1>4. \A n \in open : \E t \in TU!OpenTurns(D) : n = D.turns[t].msg
  OBVIOUS
<1>5. /\ \A n \in next : TU!Eligible(D, n)
      /\ \A n \in owed : TU!NeedsPiWork(D, n)
      /\ \A n \in undone : TU!CancelledStep(D, n)
      /\ \A n \in last : D.msgs[n].kind = "terminal"
  OBVIOUS
<1> HIDE DEF m, open, next, owed, undone, last
<1>6. 1..k \subseteq Nat /\ 1..k \subseteq 0..k
  BY <1>1
<1>7. /\ open # {} => TU!First(open) \in open
      /\ next # {} => TU!First(next) \in next
      /\ TU!First(last) \in last \cup {0}
  BY <1>1, <1>6, FirstIn
<1>8. /\ owed # {} => TU!Latest(owed) \in owed
      /\ undone # {} => TU!Latest(undone) \in undone
  BY <1>1, LatestIn
<1>9. m \in open \/ (open = {} /\ m \in next \cup owed \cup undone \cup last \cup {0})
  BY <1>2, <1>7, <1>8
<1> HIDE DEF k
<1>10. m \in 0..k
  <2>1. 0 \in 0..k
    BY <1>1
  <2> QED
    BY <1>1, <1>6, <1>9, <2>1
<1> QED
  BY <1>3, <1>4, <1>5, <1>9, <1>10 DEF m, k

LEMMA TurnStarted ==
    ASSUME NEW D, GoodRows(D), NEW c \in Coordinator, c.epoch # 0, c.reported, ~c.needs,
           NEW r, r.turn \in 1..MaxTurns, D.turns[r.turn].st = "none",
           r.msg \in 1..Len(D.msgs)
    PROVE  LET E == TU!StartTurn(D, r) IN
           /\ ~E.busy
           /\ E.err => \/ r.msg \in TU!Steps(D) /\ (~TU!Pending(D) \/ D.paused)
                       \/ D.msgs[r.msg].status # "sent" \/ TU!OpenTurns(D) # {}
           /\ ~E.err => /\ GoodRows(E) /\ Follows(D, E, r.turn)
                        /\ E.turns[r.turn].st = "started"
                        /\ CoordinatorRow(E, [c EXCEPT !.active = TRUE])
<1> DEFINE t  == r.turn
           x  == [msg |-> r.msg, st |-> "started"]
           D1 == [D EXCEPT !.turns[t] = x]
           D2 == TU!StartClock(D1)
           D3 == TU!CancelPending(D2)
           D4 == TU!Watch(D1)
           E  == TU!StartTurn(D, r)
           a  == [c EXCEPT !.active = TRUE]
           step == r.msg \in TU!Steps(D)
           bad == \/ step /\ (~TU!Pending(D) \/ D.paused)
                  \/ D.msgs[r.msg].status # "sent" \/ TU!OpenTurns(D) # {}
<1>1. D \in Rows /\ TurnRows(D) /\ ReminderRows(D) /\ RunRow(D)
  BY DEF GoodRows
<1>2. E = IF bad THEN [D EXCEPT !.err = TRUE] ELSE IF step THEN D3 ELSE D4
  BY DEF TU!StartTurn, x
<1>3. a.epoch # 0 /\ a.reported /\ a.active /\ a.needs = ~a.reported
  BY DEF Coordinator
<1> HIDE DEF a
<1>4. CASE bad
  BY <1>1, <1>2, <1>4 DEF Rows, RunRow
<1>5. CASE ~bad
  <2>1. TU!OpenTurns(D) = {} /\ D.msgs[r.msg].status = "sent"
        /\ (step => TU!Pending(D) /\ ~D.paused)
    BY <1>5
  <2>2. x \in TurnRow /\ x.msg = r.msg /\ x.st = "started"
    BY <1>1, StepsOf DEF TurnRow
  <2>3. /\ D1 \in Rows /\ D1.msgs = D.msgs /\ SameClock(D, D1) /\ D1.turns[t] = x
        /\ \A u \in 1..MaxTurns : u # t => D1.turns[u] = D.turns[u]
    <3> HIDE DEF x
    <3> QED
      BY <1>1, <2>2 DEF Rows, SameClock
  <2> HIDE DEF x, D1
  <2>4. TU!OpenTurns(D1) = {t}
    BY <2>1, <2>2, <2>3, OpenTurnsOf
  <2>5. TurnRows(D1)
    BY <1>1, <2>1, <2>2, <2>3, <2>4 DEF TurnRows
  <2>6. Follows(D, D1, t)
    <3>1. MsgsFollow(D.msgs, D1.msgs)
      BY <1>1, <2>3, StepsOf DEF MsgsFollow
    <3>2. ASSUME NEW u \in 1..MaxTurns PROVE TurnFollows(D.turns[u], D1.turns[u], u = t)
      <4>1. CASE u = t
        BY <2>2, <2>3, <4>1 DEF TurnFollows, Ends
      <4>2. CASE u # t
        BY <1>1, <2>3, <4>2, StepsOf DEF TurnFollows, TurnRow, Ends
      <4> QED
        BY <4>1, <4>2
    <3> QED
      BY <3>1, <3>2 DEF Follows
  <2>7. ReminderRows(D1)
    <3>1. NoReminder(D.msgs, D1.msgs)
      BY <1>1, <2>3, StepsOf DEF NoReminder
    <3> QED
      BY <1>1, <2>3, <2>6, <3>1, RemindersStay
  <2>8. TU!Steps(D1) = TU!Steps(D) /\ (TU!OpenStepTurn(D1) <=> step)
    <3>1. TU!Steps(D1) = TU!Steps(D)
      BY <1>1, <2>3, StepsOf
    <3> QED
      BY <1>1, <2>2, <2>3, <2>4, <3>1 DEF TU!OpenStepTurn
  <2>9. ~(D.on /\ TU!Pending(D))
    BY <1>1, <2>1 DEF RunRow, TU!OpenStepTurn
  <2>10. D1.on => D1.anchor
    BY <1>1, <2>3 DEF RunRow, SameClock
  <2>11. Keeps(D1, D2) /\ SameRun(D1, D2) /\ D2.on /\ D2.anchor
    BY <2>3, <2>10, ClockStarted
  <2> HIDE DEF D2
  <2>12. Keeps(D2, D3) /\ SameClock(D2, D3)
    BY <2>11, PendingCancelled DEF Keeps
  <2> HIDE DEF D3
  <2>13. Keeps(D1, D3)
    BY <2>3, <2>11, <2>12, KeepsOn
  <2>14. Keeps(D1, D4) /\ SameClock(D1, D4)
    BY <2>3, Watched
  <2> HIDE DEF D4
  <2>15. ASSUME NEW F, Keeps(D1, F), SameRun(D1, F), F.on => F.anchor,
                step => F.on, ~step => F.on = D1.on
         PROVE  /\ GoodRows(F) /\ Follows(D, F, t) /\ F.turns[t].st = "started"
                /\ ~F.err /\ ~F.busy /\ CoordinatorRow(F, a)
    <3>1. /\ F \in Rows /\ TurnRows(F) /\ ReminderRows(F) /\ Follows(D1, F, t)
          /\ TU!OpenStepTurn(F) <=> step
      BY <2>3, <2>5, <2>7, <2>8, <2>15, KeepsGood
    <3>2. Follows(D, F, t)
      BY <1>1, <2>3, <2>6, <3>1, FollowsOn
    <3>3. RunRow(F)
      BY <1>1, <2>1, <2>3, <2>9, <2>15, <3>1
         DEF RunRow, SameClock, SameRun, TU!Pending, TU!Over
    <3>4. CoordinatorRow(F, a)
      BY <1>3, <2>15, <3>1 DEF CoordinatorRow
    <3> QED
      BY <2>2, <2>3, <2>15, <3>1, <3>2, <3>3, <3>4 DEF GoodRows, RunRow, Keeps
  <2>16. CASE step
    <3>1. SameRun(D1, D3) /\ D3.on /\ D3.anchor
      BY <2>11, <2>12 DEF SameRun, SameClock
    <3>2. E = D3
      BY <1>2, <1>5, <2>16
    <3> QED
      BY <2>13, <2>15, <2>16, <3>1, <3>2 DEF E, a
  <2>17. CASE ~step
    <3>1. SameRun(D1, D4) /\ (D4.on => D4.anchor) /\ D4.on = D1.on
      BY <2>10, <2>14 DEF SameRun, SameClock
    <3>2. E = D4
      BY <1>2, <1>5, <2>17
    <3> QED
      BY <2>14, <2>15, <2>17, <3>1, <3>2 DEF E, a
  <2> QED
    BY <2>16, <2>17
<1> QED
  BY <1>4, <1>5

\* Pi reports the start of the turn it owns, the only one that may be open.
LEMMA StartReported ==
    ASSUME NEW D, GoodRows(D), NEW c \in Coordinator, CoordinatorRow(D, c), c.reported,
           NEW r, r.turn \in 1..MaxTurns, WasSent(D, r.msg), TU!OpenTurns(D) \subseteq {r.turn}
    PROVE  LET x == TU!ReportStart(D, r)
               E == x.D IN
           /\ x.own \in {"active", "settled", "absent"} /\ ~E.busy
           /\ E.err => D.msgs[r.msg].why = "resumed" /\ D.msgs[r.msg].status = "pending"
           /\ ~E.err => /\ GoodRows(E) /\ Follows(D, E, r.turn)
                        /\ E.turns[r.turn].st \in Ends => D.turns[r.turn].st = E.turns[r.turn].st
                        /\ CoordinatorRow(E, [c EXCEPT !.active = x.own = "active"])
<1> DEFINE t == r.turn
           x == TU!ReportStart(D, r)
           E == x.D
           a == [c EXCEPT !.active = x.own = "active"]
           S == TU!StartTurn(D, r)
<1>1. D \in Rows /\ TurnRows(D) /\ RunRow(D) /\ ReminderRows(D)
  BY DEF GoodRows
<1>2. r.msg \in 1..Len(D.msgs) /\ D.msgs[r.msg] \in Message
  BY <1>1, StepsOf DEF WasSent
<1>3. c.epoch # 0 /\ ~c.needs
  <2>1. ~TU!NoCoordinator.reported
    BY DEF TU!NoCoordinator
  <2>2. c.epoch # 0
    BY <2>1 DEF CoordinatorRow
  <2>3. c.needs = ~c.reported
    BY <2>2 DEF CoordinatorRow
  <2> QED
    BY <2>2, <2>3
<1>4. /\ a.epoch # 0 /\ a.reported /\ a.needs = ~a.reported
      /\ (x.own = "active" <=> a.active)
  BY <1>3 DEF Coordinator
<1>5. Follows(D, D, t) /\ ~D.err /\ ~D.busy
  BY <1>1, ItKeeps, KeepsGood DEF RunRow
<1>6. CASE D.turns[t].st = "started"
  <2>1. x.D = D /\ x.own = "active"
    BY <1>6 DEF TU!ReportStart
  <2>2. CoordinatorRow(D, a)
    <3>1. c.active \/ ~TU!OpenStepTurn(D)
      BY DEF CoordinatorRow
    <3> HIDE DEF a, x
    <3> QED
      BY <1>4, <2>1, <3>1 DEF CoordinatorRow, TU!OpenStepTurn
  <2> HIDE DEF a
  <2> QED
    BY <1>5, <2>1, <2>2 DEF a
<1>7. ASSUME D.turns[t].st # "started", x.D = D, x.own \in {"settled", "absent"}
      PROVE  CoordinatorRow(D, a)
  <2>1. TU!OpenTurns(D) = {}
    BY <1>7, OpenTurnsOf
  <2> HIDE DEF a
  <2> QED
    BY <1>4, <2>1, NothingMeasured
<1>8. CASE D.turns[t].st \notin {"none", "started"}
  <2>1. x.D = D /\ x.own = "settled"
    BY <1>8 DEF TU!ReportStart
  <2>2. CoordinatorRow(D, a)
    BY <1>7, <1>8, <2>1
  <2> HIDE DEF a
  <2> QED
    BY <1>5, <2>1, <2>2 DEF a
<1> DEFINE away == \/ D.paused \/ TU!Current(D) # r.msg
                   \/ r.msg \in TU!Steps(D) /\ TU!Over(D)
<1>9. CASE D.turns[t].st = "none" /\ away
  <2>1. x.D = D /\ x.own = "absent"
    BY <1>9 DEF TU!ReportStart
  <2>2. CoordinatorRow(D, a)
    BY <1>7, <1>9, <2>1
  <2> HIDE DEF a
  <2> QED
    BY <1>5, <2>1, <2>2 DEF a
<1>10. CASE D.turns[t].st = "none" /\ ~away
  <2>1. x.D = S /\ x.own = "active"
    BY <1>10 DEF TU!ReportStart
  <2>2. TU!OpenTurns(D) = {}
    BY <1>10, OpenTurnsOf
  <2>3. a = [c EXCEPT !.active = TRUE]
    BY <2>1
  <2>4. /\ ~S.busy
        /\ S.err => \/ r.msg \in TU!Steps(D) /\ (~TU!Pending(D) \/ D.paused)
                    \/ D.msgs[r.msg].status # "sent" \/ TU!OpenTurns(D) # {}
        /\ ~S.err => /\ GoodRows(S) /\ Follows(D, S, t) /\ S.turns[t].st = "started"
                     /\ CoordinatorRow(S, a)
    BY <1>2, <1>3, <1>10, <2>3, TurnStarted
  <2> HIDE DEF S, a
  <2>5. r.msg = TU!Current(D) /\ ~D.paused /\ ~(r.msg \in TU!Steps(D) /\ TU!Over(D))
    BY <1>10
  <2>6. \/ TU!Eligible(D, r.msg) \/ TU!NeedsPiWork(D, r.msg) \/ TU!CancelledStep(D, r.msg)
        \/ D.msgs[r.msg].kind = "terminal"
    BY <1>1, <1>2, <2>2, <2>5, CurrentOf
  <2>7. ASSUME S.err
        PROVE  D.msgs[r.msg].why = "resumed" /\ D.msgs[r.msg].status = "pending"
    <3>1. r.msg \in TU!Steps(D) => TU!Pending(D) \/ TU!CancelledStep(D, r.msg)
      BY <1>1, <1>2, <2>6, StepsOf DEF TU!Eligible, TU!NeedsPiWork
    <3>2. r.msg \in TU!Steps(D) => TU!Pending(D)
      BY <1>1, <2>5, <3>1 DEF TU!CancelledStep, RunRow
    <3>3. D.msgs[r.msg].status # "sent"
      BY <2>2, <2>4, <2>5, <2>7, <3>2
    <3>4. D.msgs[r.msg].kind = "step" /\ D.msgs[r.msg].why = "resumed"
      BY <3>3 DEF WasSent
    <3> QED
      BY <2>6, <3>3, <3>4 DEF TU!Eligible, TU!NeedsPiWork, TU!CancelledStep
  <2>8. "started" \notin Ends
    BY DEF Ends
  <2> QED
    BY <2>1, <2>4, <2>7, <2>8 DEF a
<1>11. D.turns[t].st = "none" \/ D.turns[t].st = "started" \/ D.turns[t].st \notin {"none", "started"}
  OBVIOUS
<1> QED
  BY <1>6, <1>8, <1>9, <1>10, <1>11

\* Pi reports the end of the turn it owns; the rows know another end of no turn.
LEMMA EndReported ==
    ASSUME NEW D, GoodRows(D), NEW c \in Coordinator, CoordinatorRow(D, c),
           NEW r, r.turn \in 1..MaxTurns, r.end \in Ends, TU!OpenTurns(D) \subseteq {r.turn},
           D.turns[r.turn].st \in Ends => D.turns[r.turn].st = r.end
    PROVE  LET x == TU!ReportEnd(D, r)
               E == x.D IN
           /\ x.own \in {"settled", "absent"} /\ ~E.err
           /\ ~E.busy => /\ GoodRows(E) /\ Follows(D, E, r.turn)
                         /\ E.turns[r.turn].st # "started"
                         /\ E.turns[r.turn].st \in Ends => E.turns[r.turn].st = r.end
                         /\ c.epoch # 0 =>
                               CoordinatorRow(E, [c EXCEPT !.active = x.own = "active"])
<1> DEFINE t == r.turn
           x == TU!ReportEnd(D, r)
           E == x.D
           a == [c EXCEPT !.active = x.own = "active"]
           S == TU!EndTurn(D, t, r.end)
           B == IF TU!CanPauseParked(D) THEN TU!PauseParked(D) ELSE D
           C == TU!CancelPending(B)
<1>1. D \in Rows /\ TurnRows(D) /\ RunRow(D) /\ ReminderRows(D) /\ D.turns[t] \in TurnRow
  BY StepsOf DEF GoodRows
<1>2. c.epoch # 0 => a.epoch # 0 /\ a.needs = ~a.reported
  BY DEF Coordinator, CoordinatorRow
<1>3. ASSUME NEW F, GoodRows(F), TU!OpenTurns(F) = {}, c.epoch # 0 PROVE CoordinatorRow(F, a)
  <2> HIDE DEF a
  <2> QED
    BY <1>2, <1>3, NothingMeasured
<1>4. Follows(D, D, t) /\ ~D.err /\ ~D.busy
  BY <1>1, ItKeeps, KeepsGood DEF RunRow
<1>5. D.turns[t].st # "started" => TU!OpenTurns(D) = {}
  BY OpenTurnsOf
<1>6. ASSUME D.turns[t].st \in {"none"} \cup Ends \cup {"lost"}, E = D,
             x.own \in {"settled", "absent"}
      PROVE  /\ ~E.err /\ GoodRows(E) /\ Follows(D, E, t) /\ E.turns[t].st # "started"
             /\ E.turns[t].st \in Ends => E.turns[t].st = r.end
             /\ c.epoch # 0 => CoordinatorRow(E, a)
  BY <1>3, <1>4, <1>5, <1>6 DEF Ends
<1>7. CASE D.turns[t].st = "none"
  <2>1. E = D /\ x.own = "absent"
    BY <1>7 DEF TU!ReportEnd
  <2> QED
    BY <1>6, <1>7, <2>1
<1>8. CASE D.turns[t].st \in Ends
  <2>1. E = S /\ x.own = "settled"
    BY <1>8 DEF TU!ReportEnd, Ends
  <2>2. S = D
    BY <1>8 DEF TU!EndTurn, Ends
  <2> QED
    BY <1>6, <1>8, <2>1, <2>2
<1>9. CASE D.turns[t].st = "started"
  <2>1. E = S /\ x.own = "settled"
    BY <1>9 DEF TU!ReportEnd
  <2>2. /\ ~S.err
        /\ ~S.busy => /\ GoodRows(S) /\ TU!OpenTurns(S) = {} /\ Follows(D, S, t)
                      /\ S.turns[t].st = r.end
    BY <1>9, OpenTurnsOf, TurnEnded
  <2> HIDE DEF S, a, x
  <2> QED
    BY <1>3, <2>1, <2>2 DEF a, x, Ends
<1>10. CASE D.turns[t].st = "lost"
  <2>1. (E = D \/ E = C) /\ x.own = "settled"
    BY <1>10 DEF TU!ReportEnd
  <2>2. TU!OpenTurns(D) = {} /\ ~(D.on /\ TU!Pending(D))
    BY <1>1, <1>5, <1>10 DEF RunRow, TU!OpenStepTurn
  <2>3. /\ Keeps(D, B) /\ B.run = D.run /\ B.req = D.req /\ B.err = D.err /\ B.busy = D.busy
        /\ B.anchor = D.anchor /\ (B.on => D.on)
    BY <1>1, ItKeeps, RunPaused DEF SameClock
  <2> HIDE DEF B
  <2>4. Keeps(B, C) /\ SameClock(B, C)
    BY <2>3, PendingCancelled DEF Keeps
  <2> HIDE DEF C
  <2>5. Keeps(D, C)
    BY <1>1, <2>3, <2>4, KeepsOn
  <2>6. /\ C \in Rows /\ TurnRows(C) /\ ReminderRows(C) /\ TU!OpenTurns(C) = {}
        /\ Follows(D, C, t) /\ C.turns = D.turns
    BY <1>1, <2>2, <2>5, KeepsGood DEF Keeps
  <2>7. RunRow(C)
    BY <1>1, <2>2, <2>3, <2>4 DEF RunRow, SameClock, TU!Pending, TU!Over
  <2>8. GoodRows(C) /\ ~C.err
    BY <2>6, <2>7 DEF GoodRows, RunRow
  <2>9. CASE E = C
    <3> HIDE DEF a, x
    <3> QED
      BY <1>3, <1>10, <2>1, <2>6, <2>8, <2>9 DEF a, x, Ends
  <2>10. CASE E = D
    BY <1>6, <1>10, <2>1, <2>10
  <2> QED
    BY <2>1, <2>9, <2>10
<1> QED
  BY <1>1, <1>7, <1>8, <1>9, <1>10 DEF TurnRow

-----------------------------------------------------------------------------
(* What Pi knows, while the rows change.                                   *)

LEMMA ViewStays ==
    ASSUME NEW D \in Rows, NEW E \in Rows, NEW own, Follows(D, E, own),
           NEW v \in SessionView, ViewRow(D, v)
    PROVE  ViewRow(E, v)
<1>1. MsgsFollow(D.msgs, E.msgs) /\ v.msg \in Nat
  BY DEF Follows, SessionView
<1>2. v.msg \in 0..Len(E.msgs) /\ (v.triggers => v.msg # 0)
  BY <1>1, StepsOf DEF ViewRow, MsgsFollow
<1>3. v.status = "sent" => WasSent(E, v.msg)
  BY <1>1, WasSentStays DEF ViewRow
<1>4. v.open # 0 => v.open \in 1..MaxTurns /\ E.turns[v.open].st # "none"
  <2>1. ASSUME v.open # 0 PROVE v.open \in 1..MaxTurns /\ E.turns[v.open].st # "none"
    <3>1. v.open \in 1..MaxTurns /\ D.turns[v.open].st # "none"
      BY <2>1 DEF ViewRow
    <3>2. TurnFollows(D.turns[v.open], E.turns[v.open], v.open = own)
      BY <3>1 DEF Follows
    <3>3. D.turns[v.open] \in TurnRow
      BY <3>1, StepsOf
    <3> QED
      BY <3>1, <3>2, <3>3 DEF TurnFollows, TurnRow, Ends
  <2> QED
    BY <2>1
<1> QED
  BY <1>2, <1>3, <1>4 DEF ViewRow

\* Only the turn that Pi owns is started or ended by a report.
LEMMA PiStays ==
    ASSUME NEW D \in Rows, NEW E \in Rows, TurnRows(D), NEW v \in SessionView,
           NEW w \in Memory, NEW s \in Progress, NEW p \in Session,
           PiRows(D, v, w, s, p), Follows(D, E, w.turn.id),
           w.turn.id # 0 /\ E.turns[w.turn.id].st \in Ends =>
              \/ D.turns[w.turn.id].st = E.turns[w.turn.id].st
              \/ w.turn.phase = "settled" /\ w.turn.end = E.turns[w.turn.id].st,
           s.call.kind = "ended" /\ s.reply \notin {"none", "error"} =>
              E.turns[s.call.turn].st # "started"
    PROVE  PiRows(E, v, w, s, p)
<1> DEFINE id == w.turn.id
<1>1. /\ ViewRow(D, v) /\ OwnedRow(D, w) /\ ShownRow(D, w, v) /\ SyncRow(D, w, s)
      /\ PiRow(D, p)
  BY DEF PiRows
<1>2. MsgsFollow(D.msgs, E.msgs) /\ Len(D.msgs) \in Nat /\ Len(E.msgs) \in Nat
      /\ Len(D.msgs) <= Len(E.msgs)
  BY StepsOf DEF Follows, MsgsFollow
<1>3. ASSUME NEW t \in 1..MaxTurns
      PROVE  TurnFollows(D.turns[t], E.turns[t], t = id) /\ D.turns[t] \in TurnRow
  BY StepsOf DEF Follows
<1>4. w.turn \in OwnedTurn /\ id \in Nat /\ w.next \in Nat \ {0} /\ v.open \in Nat
  BY DEF Memory, OwnedTurn, SessionView
<1>5. ASSUME NEW t \in TU!OpenTurns(E), t # id PROVE t \in TU!OpenTurns(D)
  BY <1>3, <1>5, OpenTurnsOf DEF TurnFollows, TurnRow, Ends
<1>6. ViewRow(E, v)
  BY <1>1, ViewStays
<1>7. OwnedRow(E, w)
  <2>1. ASSUME id # 0
        PROVE  /\ id \in 1..MaxTurns /\ id < w.next
               /\ w.turn.msg \in 1..Len(E.msgs) /\ w.turn.phase # "none"
               /\ TU!OpenTurns(E) \subseteq {id}
               /\ E.turns[id].st \in Ends =>
                     w.turn.phase = "settled" /\ w.turn.end = E.turns[id].st
    BY <1>1, <1>2, <1>5, <2>1 DEF OwnedRow
  <2>2. w.turn.entered => WasSent(E, w.turn.msg)
    BY <1>1, <1>2, WasSentStays DEF OwnedRow
  <2>3. ASSUME NEW t \in 1..MaxTurns, w.next <= t PROVE E.turns[t].st = "none"
    <3>1. t # id
      BY <1>1, <1>4, <2>3 DEF OwnedRow
    <3> QED
      BY <1>1, <1>3, <2>3, <3>1 DEF OwnedRow, TurnFollows
  <2> QED
    BY <1>1, <2>1, <2>2, <2>3 DEF OwnedRow
<1>8. ShownRow(E, w, v)
  <2>1. ASSUME v.open # 0, v.open # id PROVE E.turns[v.open].st \in {"started", "lost"}
    <3>1. v.open \in 1..MaxTurns
      BY <1>1, <2>1 DEF ViewRow
    <3>2. D.turns[v.open].st \in {"started", "lost"}
      BY <1>1, <2>1 DEF ShownRow
    <3> QED
      BY <1>3, <2>1, <3>1, <3>2 DEF TurnFollows
  <2>2. ASSUME id = 0, v.epoch # 0, TU!OpenTurns(E) # {}
        PROVE  v.open \in TU!OpenTurns(E) /\ v.status # "pending"
    <3>1. PICK t \in TU!OpenTurns(E) : t # 0
      BY <2>2, OpenTurnsOf
    <3>2. t \in TU!OpenTurns(D)
      BY <1>5, <2>2, <3>1
    <3>3. v.open \in TU!OpenTurns(D) /\ v.status # "pending"
      BY <1>1, <2>2, <3>2 DEF ShownRow
    <3>4. v.open = t
      BY <3>2, <3>3 DEF TurnRows
    <3> QED
      BY <3>1, <3>3, <3>4
  <2> QED
    BY <2>1, <2>2 DEF ShownRow
<1>9. SyncRow(E, w, s)
  <2>1. s.view \in SessionView /\ s.call \in Report
    BY DEF Progress
  <2>2. ViewRow(D, s.view) /\ CallRow(D, w, s)
    BY <1>1 DEF SyncRow
  <2>3. ViewRow(E, s.view)
    BY <2>1, <2>2, ViewStays
  <2>4. \A m : WasSent(D, m) => WasSent(E, m)
    BY <1>2, WasSentStays
  <2>5. s.call.msg \in 0..Len(E.msgs)
    BY <1>2, <2>1, <2>2 DEF CallRow, Report
  <2>6. CallRow(E, w, s)
    BY <2>2, <2>4, <2>5 DEF CallRow
  <2> QED
    BY <1>1, <2>3, <2>6 DEF SyncRow
<1>10. PiRow(E, p)
  BY <1>1, <1>2 DEF PiRow, Session
<1> QED
  BY <1>6, <1>7, <1>8, <1>9, <1>10 DEF PiRows

LEMMA PiStaysAside ==
    ASSUME NEW D \in Rows, NEW E \in Rows, TurnRows(D), NEW v \in SessionView,
           NEW w \in Memory, NEW s \in Progress, NEW p \in Session,
           PiRows(D, v, w, s, p), Follows(D, E, 0)
    PROVE  PiRows(E, v, w, s, p)
<1>1. ASSUME NEW t \in 1..MaxTurns
      PROVE  /\ TurnFollows(D.turns[t], E.turns[t], FALSE)
             /\ \A b \in BOOLEAN : TurnFollows(D.turns[t], E.turns[t], b)
             /\ D.turns[t] \in TurnRow
  <2>1. TurnFollows(D.turns[t], E.turns[t], t = 0) /\ t # 0
    BY DEF Follows
  <2>2. D.turns[t] \in TurnRow
    BY StepsOf
  <2> QED
    BY <2>1, <2>2 DEF TurnFollows, TurnRow, Ends
<1>2. Follows(D, E, w.turn.id)
  BY <1>1 DEF Follows
<1>3. OwnedRow(D, w) /\ SyncRow(D, w, s)
  BY DEF PiRows
<1>4. ASSUME NEW t \in 1..MaxTurns
      PROVE  /\ E.turns[t].st \in Ends => D.turns[t].st = E.turns[t].st
             /\ E.turns[t].st = "started" => D.turns[t].st = "started"
  BY <1>1 DEF TurnFollows, TurnRow, Ends
<1>5. w.turn.id # 0 /\ E.turns[w.turn.id].st \in Ends =>
         D.turns[w.turn.id].st = E.turns[w.turn.id].st
  BY <1>3, <1>4 DEF OwnedRow
<1>6. s.call.kind = "ended" /\ s.reply \notin {"none", "error"} =>
         E.turns[s.call.turn].st # "started"
  BY <1>3, <1>4 DEF OwnedRow, SyncRow, CallRow
<1> QED
  BY <1>2, <1>5, <1>6, PiStays

-----------------------------------------------------------------------------
(* The steps of the server and of the run.                                 *)

LEMMA RowsChange ==
    ASSUME TurnInv, GoodRows(db'), CoordinatorRow(db', co'), Follows(db, db', 0),
           co' \in Coordinator, spent' \in [faults : Nat, controls : Nat, epochs : Nat],
           UNCHANGED <<view, wmc, sync, pi>>
    PROVE  TurnInv'
<1>1. /\ GoodRows(db) /\ db \in Rows /\ TurnRows(db) /\ view \in SessionView /\ wmc \in Memory
      /\ sync \in Progress /\ pi \in Session /\ PiRows(db, view, wmc, sync, pi)
  BY DEF TurnInv, TurnTypes, GoodRows
<1>2. db' \in Rows
  BY DEF GoodRows
<1>3. PiRows(db', view, wmc, sync, pi)
  BY <1>1, <1>2, PiStaysAside
<1>4. TurnTypes'
  BY <1>1, <1>2 DEF TurnTypes
<1>5. PiRows(db', view', wmc', sync', pi')
  BY <1>3
<1> QED
  BY <1>4, <1>5 DEF TurnInv

\* The server ends the run, fails it or takes the request back.
LEMMA ServerStep ==
    ASSUME TurnInv, Keeps(db, db'), RunRow(db'), CoordinatorRow(db', co), TU!Server,
           spent' \in [faults : Nat, controls : Nat, epochs : Nat]
    PROVE  TurnInv'
<1>1. GoodRows(db) /\ db \in Rows /\ TurnRows(db) /\ ReminderRows(db)
  BY DEF TurnInv, GoodRows
<1>2. GoodRows(db') /\ Follows(db, db', 0)
  BY <1>1, KeepsGood DEF GoodRows
<1>3. co' = co /\ co \in Coordinator /\ UNCHANGED <<view, wmc, sync, pi>>
  BY DEF TU!Server, TurnInv, TurnTypes
<1> QED
  BY <1>2, <1>3, RowsChange

LEMMA KnownRows ==
    ASSUME TurnInv
    PROVE  /\ GoodRows(db) /\ db \in Rows /\ TurnRows(db) /\ ReminderRows(db) /\ RunRow(db)
           /\ CoordinatorRow(db, co) /\ co \in Coordinator
           /\ spent \in [faults : Nat, controls : Nat, epochs : Nat]
BY DEF TurnInv, TurnTypes, GoodRows

\* Once its request is over nothing of a run is measured.
LEMMA NothingPending ==
    ASSUME TurnInv, NEW E, Keeps(db, E), ~TU!Pending(E), E.req = "cancelled" => TU!Over(E),
           ~E.err, ~E.busy, E.on => E.anchor
    PROVE  RunRow(E) /\ CoordinatorRow(E, co)
<1>1. TU!OpenStepTurn(E) <=> TU!OpenStepTurn(db)
  BY KnownRows, KeepsGood
<1>2. CoordinatorRow(E, co)
  BY <1>1, KnownRows DEF CoordinatorRow
<1> QED
  BY <1>2 DEF RunRow

LEMMA RunEnded ==
    ASSUME NEW D \in Rows, NEW how \in {"failed", "cancelled"}
    PROVE  LET E == TU!EndRun(D, how) IN
           /\ Keeps(D, E) /\ E.run = how /\ E.req # "pending" /\ ~E.on
           /\ E.err = D.err /\ E.busy = D.busy
<1> DEFINE D1 == [D EXCEPT !.run = how, !.paused = FALSE,
                           !.req = IF @ = "pending" THEN "cancelled" ELSE @]
           D2 == TU!CancelPending(D1)
           D3 == TU!CloseClock(D2)
           D4 == TU!EnsureTerminal(D3)
<1>1. D1 \in Rows /\ D1.msgs = D.msgs /\ D1.turns = D.turns /\ D1.run = how
      /\ D1.req # "pending" /\ D1.err = D.err /\ D1.busy = D.busy
  BY DEF Rows
<1>2. TU!EndRun(D, how) = D4
  BY DEF TU!EndRun
<1> HIDE DEF D1
<1>3. Keeps(D, D1)
  BY <1>1, ItKeepsFields
<1>4. Keeps(D1, D2) /\ SameClock(D1, D2) /\ D2 \in Rows
  BY <1>1, PendingCancelled DEF Keeps
<1> HIDE DEF D2
<1>5. D3 \in Rows /\ D3.msgs = D2.msgs /\ D3.turns = D2.turns /\ SameRun(D2, D3) /\ ~D3.on
  BY <1>4 DEF TU!CloseClock, Rows, SameRun
<1> HIDE DEF D3
<1>6. Keeps(D2, D3)
  BY <1>4, <1>5, ItKeepsFields
<1>7. Keeps(D3, D4) /\ SameClock(D3, D4)
  BY <1>5, TerminalEnsured
<1> HIDE DEF D4
<1>8. Keeps(D2, D4)
  BY <1>4, <1>6, <1>7, KeepsOn
<1>9. Keeps(D1, D4)
  BY <1>1, <1>4, <1>8, KeepsOn
<1>10. Keeps(D, D4)
  BY <1>3, <1>9, KeepsOn
<1> QED
  BY <1>1, <1>2, <1>4, <1>5, <1>7, <1>10 DEF SameClock, SameRun

LEMMA RunEndsStep ==
    ASSUME TurnInv, NEW how \in {"failed", "cancelled"}, db' = TU!EndRun(db, how), TU!Server,
           spent' \in [faults : Nat, controls : Nat, epochs : Nat]
    PROVE  TurnInv'
<1>1. /\ Keeps(db, db') /\ db'.run = how /\ db'.req # "pending" /\ ~db'.on
      /\ db'.err = db.err /\ db'.busy = db.busy
  BY KnownRows, RunEnded
<1>2. ~TU!Pending(db') /\ TU!Over(db')
  BY <1>1 DEF TU!Pending, TU!Over
<1>3. ~db'.err /\ ~db'.busy
  BY <1>1, KnownRows DEF RunRow
<1>4. RunRow(db') /\ CoordinatorRow(db', co)
  BY <1>1, <1>2, <1>3, NothingPending
<1> QED
  BY <1>1, <1>4, ServerStep

LEMMA ParkStep == TurnInv /\ TU!Park => TurnInv'
<1> SUFFICES ASSUME TurnInv, TU!Park PROVE TurnInv'
  OBVIOUS
<1> DEFINE how == IF TU!Pending(db) THEN "waiting" ELSE "running"
           E == [db EXCEPT !.run = how]
<1>1. db' = E /\ db.run = "handoff" /\ TU!Server /\ spent' = spent
  BY DEF TU!Park
<1>2. /\ E \in Rows /\ E.msgs = db.msgs /\ E.turns = db.turns /\ E.run = how
      /\ E.req = db.req /\ E.paused = db.paused /\ E.on = db.on /\ E.anchor = db.anchor
      /\ E.attempt = db.attempt /\ E.err = db.err /\ E.busy = db.busy
  BY KnownRows DEF Rows
<1> HIDE DEF E
<1>3. Keeps(db, E)
  BY <1>2, KnownRows, ItKeepsFields
<1>4. TU!OpenStepTurn(E) <=> TU!OpenStepTurn(db)
  BY <1>3, KnownRows, KeepsGood
<1>5. ~TU!Over(db)
  BY <1>1 DEF TU!Over
<1>6. RunRow(E)
  BY <1>2, <1>4, <1>5, KnownRows DEF RunRow, TU!Pending
<1>7. CoordinatorRow(E, co)
  BY <1>2, <1>4, KnownRows DEF CoordinatorRow, TU!Pending
<1> QED
  BY <1>1, <1>3, <1>6, <1>7, KnownRows, ServerStep

LEMMA SubmitStep == TurnInv /\ TU!Submit => TurnInv'
<1> SUFFICES ASSUME TurnInv, TU!Submit PROVE TurnInv'
  OBVIOUS
<1> DEFINE D1 == [db EXCEPT !.req = "settled",
                            !.run = IF @ = "waiting" THEN "running" ELSE @]
           E == TU!CancelPending(D1)
<1>1. db' = E /\ TU!Server /\ spent' = spent
  BY DEF TU!Submit
<1>2. /\ D1 \in Rows /\ D1.msgs = db.msgs /\ D1.turns = db.turns /\ D1.req = "settled"
      /\ D1.on = db.on /\ D1.anchor = db.anchor /\ D1.err = db.err /\ D1.busy = db.busy
  BY KnownRows DEF Rows
<1> HIDE DEF D1
<1>3. Keeps(db, D1) /\ Keeps(D1, E) /\ SameClock(D1, E)
  BY <1>2, KnownRows, ItKeepsFields, PendingCancelled
<1>4. Keeps(db, E)
  BY <1>3, KnownRows, KeepsOn
<1> HIDE DEF E
<1>5. RunRow(E) /\ CoordinatorRow(E, co)
  <2>1. E.req = "settled" /\ ~E.err /\ ~E.busy /\ (E.on => E.anchor)
    BY <1>2, <1>3, KnownRows DEF SameClock, RunRow
  <2> QED
    BY <1>4, <2>1, NothingPending DEF TU!Pending
<1> QED
  BY <1>1, <1>4, <1>5, KnownRows, ServerStep

LEMMA CompleteStep == TurnInv /\ TU!Complete => TurnInv'
<1> SUFFICES ASSUME TurnInv, TU!Complete PROVE TurnInv'
  OBVIOUS
<1> DEFINE D1 == TU!CloseClock([db EXCEPT !.run = "done"])
           E == TU!EnsureTerminal(D1)
<1>1. db' = E /\ TU!Server /\ spent' = spent /\ db.run = "running"
  BY DEF TU!Complete
<1>2. /\ D1 \in Rows /\ D1.msgs = db.msgs /\ D1.turns = db.turns /\ D1.req = db.req
      /\ D1.run = "done" /\ ~D1.on /\ D1.err = db.err /\ D1.busy = db.busy
  BY KnownRows DEF Rows, TU!CloseClock
<1> HIDE DEF D1
<1>3. Keeps(db, D1) /\ Keeps(D1, E) /\ SameClock(D1, E)
  BY <1>2, KnownRows, ItKeepsFields, TerminalEnsured
<1>4. Keeps(db, E)
  BY <1>3, KnownRows, KeepsOn
<1> HIDE DEF E
<1>5. ~TU!Pending(db)
  BY <1>1, KnownRows DEF RunRow
<1>6. RunRow(E) /\ CoordinatorRow(E, co)
  <2>1. ~TU!Pending(E) /\ TU!Over(E) /\ ~E.err /\ ~E.busy /\ ~E.on
    BY <1>2, <1>3, <1>5, KnownRows DEF SameClock, RunRow, TU!Pending, TU!Over
  <2> QED
    BY <1>4, <2>1, NothingPending
<1> QED
  BY <1>1, <1>4, <1>6, KnownRows, ServerStep

\* The turn a reminder is about ended on the last prompt, so no earlier reminder
\* is about it.
LEMMA UnproductiveOf ==
    ASSUME NEW D, GoodRows(D), TU!Unproductive(D) # 0
    PROVE  LET t == TU!Unproductive(D) IN
           /\ t \in 1..MaxTurns /\ D.turns[t].st \in {"completed", "error"}
           /\ D.turns[t].msg \in 1..Len(D.msgs)
           /\ \A n \in TU!Steps(D) : n <= D.turns[t].msg
           /\ \A n \in TU!Reminders(D) : D.msgs[n].turn # t
<1> DEFINE m == TU!Latest(TU!Steps(D))
           T == TU!TurnsOf(D, m)
           t == TU!Latest(T)
<1>1. D \in Rows /\ TurnRows(D) /\ ReminderRows(D)
  BY DEF GoodRows
<1>2. TU!Unproductive(D) = t /\ t # 0 /\ D.turns[t].st \in {"completed", "error"}
  BY DEF TU!Unproductive, TU!UnproductiveEnd, TU!NoId
<1>3. T \subseteq 1..MaxTurns /\ \A u \in T : D.turns[u].msg = m /\ D.turns[u].st # "none"
  BY DEF TU!TurnsOf, TU!Turns
<1> HIDE DEF T
<1>4. t \in T
  BY <1>2, <1>3, LatestIn, SessionDataAssumption
<1> HIDE DEF t
<1>5. t \in 1..MaxTurns /\ D.turns[t].msg = m /\ m \in 1..Len(D.msgs)
  BY <1>1, <1>3, <1>4 DEF TurnRows
<1>6. TU!Steps(D) \subseteq 1..Len(D.msgs) /\ Len(D.msgs) \in Nat
  BY <1>1, StepsOf
<1>7. ASSUME NEW n \in TU!Steps(D) PROVE n <= m
  BY <1>6, <1>7, LatestOf
<1> HIDE DEF m
<1>8. ASSUME NEW n \in TU!Reminders(D) PROVE D.msgs[n].turn # t
  <2>1. n \in TU!Steps(D) /\ D.turns[D.msgs[n].turn].msg < n
    BY <1>1, <1>8 DEF ReminderRows, TU!Reminders
  <2>2. n \in Nat /\ m \in Nat /\ n <= m
    BY <1>5, <1>6, <1>7, <2>1
  <2> QED
    BY <1>5, <2>1, <2>2
<1> QED
  BY <1>2, <1>5, <1>7, <1>8

LEMMA RemindStep == TurnInv /\ TU!Remind => TurnInv'
<1> SUFFICES ASSUME TurnInv, TU!Remind PROVE TurnInv'
  OBVIOUS
<1> DEFINE t == TU!Unproductive(db)
           x == TU!Row("step", "reminder", db.rev, t, TRUE)
           E == [db EXCEPT !.msgs = Append(@, x)]
           n == Len(db.msgs) + 1
<1>1. t # 0 /\ TU!Server /\ spent' = spent
  BY DEF TU!Remind, TU!NoId
<1>2. db' = TU!EndRun(db, "failed") \/ db' = db \/ db' = E
  BY DEF TU!Remind, TU!EnsurePrompt
<1>3. /\ t \in 1..MaxTurns /\ db.turns[t].st \in {"completed", "error"}
      /\ db.turns[t].msg \in 1..Len(db.msgs)
      /\ \A m \in TU!Reminders(db) : db.msgs[m].turn # t
  BY <1>1, KnownRows, UnproductiveOf
<1> HIDE DEF t
<1>4. CASE db' = TU!EndRun(db, "failed")
  BY <1>1, <1>4, KnownRows, RunEndsStep
<1>5. CASE db' = db
  BY <1>1, <1>5, KnownRows, ItKeeps, ServerStep
<1>6. CASE db' = E
  <2>1. db \in Rows /\ TurnRows(db) /\ ReminderRows(db) /\ RunRow(db) /\ CoordinatorRow(db, co)
    BY KnownRows
  <2>2. x \in Message /\ x.why = "reminder" /\ x.turn = t
    BY <1>3, <2>1, SessionDataAssumption DEF Rows, Message, Reasons, TU!Row
  <2> HIDE DEF x
  <2>3. /\ E \in Rows /\ E.turns = db.turns /\ SameClock(db, E)
        /\ Len(E.msgs) = n /\ E.msgs[n] = x
        /\ \A m \in 1..Len(db.msgs) : E.msgs[m] = db.msgs[m]
    BY <2>1, <2>2, Appended
  <2> HIDE DEF E
  <2>4. Len(db.msgs) \in Nat /\ n \in Nat /\ Len(db.msgs) < n
    BY <2>1, StepsOf
  <2>5. MsgsFollow(db.msgs, E.msgs)
    BY <2>3, <2>4 DEF MsgsFollow
  <2>6. SameTurns(db, E)
    BY <2>1, <2>3, <2>5, OpenTurnsOf DEF SameTurns, TurnRows
  <2>7. TurnRows(E) /\ (TU!OpenStepTurn(E) <=> TU!OpenStepTurn(db)) /\ Follows(db, E, 0)
    BY <2>1, <2>6, SameTurnsGood, SameTurnsFollow
  <2>8. ASSUME NEW m \in TU!Reminders(E)
        PROVE  (m \in TU!Reminders(db) /\ E.msgs[m] = db.msgs[m]) \/ m = n
    BY <2>1, <2>3, <2>4, StepsOf DEF TU!Reminders
  <2>9. ReminderRows(E)
    <3>1. ASSUME NEW m \in TU!Reminders(E)
          PROVE  /\ E.msgs[m].turn \in 1..MaxTurns
                 /\ E.turns[E.msgs[m].turn].st \in {"completed", "error"}
                 /\ E.turns[E.msgs[m].turn].msg < m
      <4>1. CASE m = n
        BY <1>3, <2>2, <2>3, <2>4, <4>1
      <4>2. CASE m \in TU!Reminders(db) /\ E.msgs[m] = db.msgs[m]
        BY <2>1, <2>3, <4>2 DEF ReminderRows
      <4> QED
        BY <2>8, <4>1, <4>2
    <3>2. ASSUME NEW m \in TU!Reminders(E), NEW k \in TU!Reminders(E),
                 E.msgs[m].turn = E.msgs[k].turn
          PROVE  m = k
      BY <1>3, <2>1, <2>2, <2>3, <2>8, <3>2 DEF ReminderRows
    <3> QED
      BY <3>1, <3>2 DEF ReminderRows
  <2>10. RunRow(E)
    BY <2>1, <2>3, <2>7 DEF RunRow, SameClock, TU!Pending, TU!Over
  <2>11. CoordinatorRow(E, co)
    BY <2>1, <2>3, <2>7 DEF CoordinatorRow, SameClock, TU!Pending
  <2>12. GoodRows(E)
    BY <2>3, <2>7, <2>9, <2>10 DEF GoodRows
  <2>13. co' = co /\ UNCHANGED <<view, wmc, sync, pi>>
    BY <1>1 DEF TU!Server
  <2> QED
    BY <1>1, <1>6, <2>7, <2>11, <2>12, <2>13, KnownRows, RowsChange
<1> QED
  BY <1>2, <1>4, <1>5, <1>6

LEMMA Spends ==
    ASSUME TurnInv, NEW k, TU!Spend(k) \/ TU!Control(k)
    PROVE  spent' \in [faults : Nat, controls : Nat, epochs : Nat]
BY KnownRows DEF TU!Spend, TU!Control

LEMMA PauseStep == TurnInv /\ TU!Pause => TurnInv'
<1> SUFFICES ASSUME TurnInv, TU!Pause PROVE TurnInv'
  OBVIOUS
<1> DEFINE E == TU!PauseParked(db)
<1>1. db' = E /\ TU!Server /\ ~db.paused
      /\ spent' \in [faults : Nat, controls : Nat, epochs : Nat]
  BY Spends DEF TU!Pause
<1>2. /\ Keeps(db, E) /\ E.run = db.run /\ E.req = db.req /\ E.err = db.err
      /\ E.busy = db.busy /\ E.attempt = db.attempt /\ E.paused
      /\ E.anchor = db.anchor /\ (E.on => db.on /\ db.paused)
  BY KnownRows, RunPaused
<1> HIDE DEF E
<1>3. TU!OpenStepTurn(E) <=> TU!OpenStepTurn(db)
  BY <1>2, KnownRows, KeepsGood
<1>4. ~E.on
  BY <1>1, <1>2
<1>5. RunRow(E)
  BY <1>2, <1>4, KnownRows DEF RunRow, TU!Pending, TU!Over
<1>6. CoordinatorRow(E, co)
  BY <1>2, <1>3, <1>4, KnownRows DEF CoordinatorRow, TU!Pending
<1> QED
  BY <1>1, <1>2, <1>5, <1>6, ServerStep

LEMMA ResumeStep == TurnInv /\ TU!Resume => TurnInv'
<1> SUFFICES ASSUME TurnInv, TU!Resume PROVE TurnInv'
  OBVIOUS
<1> DEFINE D1 == [db EXCEPT !.paused = FALSE]
           busy == co.reported /\ co.active /\ TU!OpenStepTurn(db)
           D2 == TU!StartClock(D1)
           D3 == [D2 EXCEPT !.attempt = "waiting"]
           D4 == IF busy THEN D3 ELSE D1
           D5 == TU!CancelPending(D4)
           D6 == [D5 EXCEPT !.rev = @ + 1]
           E  == TU!EnsurePrompt(D6, "resumed", TU!NoId)
<1>1. db' = E /\ TU!Server /\ spent' = spent /\ TU!Pending(db) /\ db.paused
  BY DEF TU!Resume
<1>2. /\ D1 \in Rows /\ D1.msgs = db.msgs /\ D1.turns = db.turns /\ ~D1.paused
      /\ D1.run = db.run /\ D1.req = db.req /\ D1.err = db.err /\ D1.busy = db.busy
      /\ D1.on = db.on /\ D1.anchor = db.anchor /\ D1.attempt = db.attempt
  BY KnownRows DEF Rows
<1> HIDE DEF D1
<1>3. Keeps(db, D1)
  BY <1>2, KnownRows, ItKeepsFields
<1>4. ~db.on
  BY <1>1, KnownRows DEF RunRow
<1>5. Keeps(D1, D2) /\ SameRun(D1, D2) /\ D2.on /\ D2.anchor
  BY <1>2, <1>4, ClockStarted
<1> HIDE DEF D2
<1>6. D3 \in Rows /\ D3.msgs = D2.msgs /\ D3.turns = D2.turns /\ SameRun(D2, D3)
      /\ D3.on = D2.on /\ D3.anchor = D2.anchor
  BY <1>5 DEF Keeps, Rows, SameRun
<1> HIDE DEF D3
<1>7. Keeps(D2, D3)
  BY <1>5, <1>6, ItKeepsFields DEF Keeps
<1>8. Keeps(D1, D3)
  BY <1>2, <1>5, <1>7, KeepsOn
<1>9. /\ Keeps(D1, D4) /\ SameRun(D1, D4) /\ D4 \in Rows
      /\ (busy => D4.on /\ D4.anchor)
      /\ (~busy => ~D4.on /\ D4.attempt = db.attempt)
  <2>1. CASE busy
    BY <1>5, <1>6, <1>8, <2>1 DEF SameRun
  <2>2. CASE ~busy
    <3>1. Keeps(D1, D1)
      BY <1>2, ItKeeps
    <3> QED
      BY <1>2, <1>4, <2>2, <3>1 DEF SameRun
  <2> QED
    BY <2>1, <2>2
<1> HIDE DEF D4
<1>10. Keeps(D4, D5) /\ SameClock(D4, D5) /\ D5 \in Rows
  BY <1>9, PendingCancelled DEF Keeps
<1> HIDE DEF D5
<1>11. D6 \in Rows /\ D6.msgs = D5.msgs /\ D6.turns = D5.turns /\ SameClock(D5, D6)
  BY <1>10 DEF Rows, SameClock
<1> HIDE DEF D6
<1>12. Keeps(D5, D6)
  BY <1>10, <1>11, ItKeepsFields
<1>13. Keeps(D6, E) /\ SameClock(D6, E)
  BY <1>11, PromptEnsured
<1> HIDE DEF E
<1>14. Keeps(db, E)
  <2>1. Keeps(D5, E)
    BY <1>10, <1>12, <1>13, KeepsOn
  <2>2. Keeps(D4, E)
    BY <1>9, <1>10, <2>1, KeepsOn
  <2>3. Keeps(D1, E)
    BY <1>2, <1>9, <2>2, KeepsOn
  <2> QED
    BY <1>3, <2>3, KnownRows, KeepsOn
<1>15. TU!OpenStepTurn(E) <=> TU!OpenStepTurn(db)
  BY <1>14, KnownRows, KeepsGood
<1>16. /\ E.run = db.run /\ E.req = db.req /\ ~E.err /\ ~E.busy /\ ~E.paused
       /\ (busy => E.on /\ E.anchor) /\ (~busy => ~E.on /\ E.attempt = db.attempt)
  BY <1>2, <1>9, <1>10, <1>11, <1>13, KnownRows DEF SameClock, SameRun, RunRow
<1>17. RunRow(E)
  BY <1>15, <1>16, KnownRows DEF RunRow, TU!Pending, TU!Over
<1>18. CoordinatorRow(E, co)
  <2>1. co.reported => co.epoch # 0
    <3>1. ~TU!NoCoordinator.reported
      BY DEF TU!NoCoordinator
    <3> QED
      BY <3>1, KnownRows DEF CoordinatorRow
  <2> QED
    BY <1>15, <1>16, <2>1, KnownRows DEF CoordinatorRow, TU!Pending
<1> QED
  BY <1>1, <1>14, <1>17, <1>18, KnownRows, ServerStep

\* The recovery of a run that has ended is stopped.
LEMMA StopStep ==
    ASSUME TurnInv, db' = [db EXCEPT !.stop = TRUE], TU!Server,
           spent' \in [faults : Nat, controls : Nat, epochs : Nat]
    PROVE  TurnInv'
<1> DEFINE E == [db EXCEPT !.stop = TRUE]
<1>1. E \in Rows /\ E.msgs = db.msgs /\ E.turns = db.turns /\ SameClock(db, E)
  BY KnownRows DEF Rows, SameClock
<1>2. db' = E
  OBVIOUS
<1> HIDE DEF E
<1>3. Keeps(db, E)
  BY <1>1, KnownRows, ItKeepsFields
<1>4. GoodRows(E) /\ CoordinatorRow(E, co)
  BY <1>1, <1>3, KnownRows, StillGood
<1> QED
  BY <1>2, <1>3, <1>4, ServerStep DEF GoodRows

LEMMA CancelStep == TurnInv /\ TU!Cancel => TurnInv'
<1> SUFFICES ASSUME TurnInv, TU!Cancel PROVE TurnInv'
  OBVIOUS
<1>1. TU!Server /\ spent' \in [faults : Nat, controls : Nat, epochs : Nat]
  BY Spends DEF TU!Cancel
<1>2. db' = [db EXCEPT !.stop = TRUE] \/ db' = TU!EndRun(db, "cancelled")
  BY DEF TU!Cancel
<1> QED
  BY <1>1, <1>2, StopStep, RunEndsStep

LEMMA ExpireStep == TurnInv /\ TU!Expire => TurnInv'
<1> SUFFICES ASSUME TurnInv, TU!Expire PROVE TurnInv'
  OBVIOUS
<1>1. TU!Server /\ spent' \in [faults : Nat, controls : Nat, epochs : Nat]
  BY Spends DEF TU!Expire
<1>2. db' = [db EXCEPT !.stop = TRUE] \/ db' = TU!EndRun(db, "failed")
  BY DEF TU!Expire
<1> QED
  BY <1>1, <1>2, StopStep, RunEndsStep

-----------------------------------------------------------------------------
(* The connection.                                                         *)

\* When its Pi is gone the attempt is not measured, and says so.
LEMMA Suspended ==
    ASSUME NEW D, GoodRows(D)
    PROVE  LET E == TU!Suspend(D) IN
           /\ GoodRows(E) /\ Follows(D, E, 0) /\ ~(E.on /\ TU!Pending(E))
           /\ TU!OpenStepTurn(E) /\ TU!Pending(E) => E.attempt = "interrupted"
<1> DEFINE C == TU!StopClock(D)
           A == [C EXCEPT !.attempt = "interrupted", !.watch = FALSE]
           B == [D EXCEPT !.watch = FALSE]
           E == TU!Suspend(D)
<1>1. D \in Rows /\ TurnRows(D) /\ RunRow(D) /\ ReminderRows(D)
  BY DEF GoodRows
<1>2. CASE TU!OpenStepTurn(D) /\ TU!Pending(D)
  <2>1. E = A
    BY <1>2 DEF TU!Suspend
  <2>2. Keeps(D, C) /\ SameRun(D, C) /\ ~C.on /\ C \in Rows
    BY <1>1, ClockStopped DEF RunRow, Keeps
  <2> HIDE DEF C
  <2>3. /\ A \in Rows /\ A.msgs = C.msgs /\ A.turns = C.turns /\ SameRun(C, A)
        /\ A.on = C.on /\ A.attempt = "interrupted"
    BY <2>2 DEF Rows, SameRun
  <2> HIDE DEF A, E
  <2>4. Keeps(D, A)
    <3>1. Keeps(C, A)
      BY <2>2, <2>3, ItKeepsFields
    <3> QED
      BY <1>1, <2>2, <3>1, KeepsOn
  <2>5. /\ TurnRows(A) /\ ReminderRows(A) /\ Follows(D, A, 0)
        /\ (TU!OpenStepTurn(A) <=> TU!OpenStepTurn(D))
    BY <1>1, <2>4, KeepsGood
  <2>6. /\ A.run = D.run /\ A.req = D.req /\ ~A.err /\ ~A.busy /\ ~A.on
    BY <1>1, <2>2, <2>3 DEF SameRun, RunRow
  <2>7. RunRow(A)
    BY <1>1, <2>6 DEF RunRow, TU!Pending, TU!Over
  <2> QED
    BY <2>1, <2>3, <2>5, <2>6, <2>7 DEF GoodRows, E
<1>3. CASE ~(TU!OpenStepTurn(D) /\ TU!Pending(D))
  <2>1. E = B
    BY <1>3 DEF TU!Suspend
  <2>2. B \in Rows /\ B.msgs = D.msgs /\ B.turns = D.turns /\ SameClock(D, B)
    BY <1>1 DEF Rows, SameClock
  <2> HIDE DEF B, E
  <2>3. Keeps(D, B)
    BY <1>1, <2>2, ItKeepsFields
  <2>4. GoodRows(B) /\ Follows(D, B, 0) /\ (TU!OpenStepTurn(B) <=> TU!OpenStepTurn(D))
    BY <2>2, <2>3, StillGood
  <2>5. TU!Pending(B) <=> TU!Pending(D)
    BY <2>2 DEF SameClock, TU!Pending
  <2>6. B.on /\ TU!Pending(B) => TU!OpenStepTurn(B)
    BY <2>4 DEF GoodRows, RunRow
  <2> QED
    BY <1>3, <2>1, <2>4, <2>5, <2>6 DEF E
<1> QED
  BY <1>2, <1>3

LEMMA ConnectStep == TurnInv /\ TU!Connect => TurnInv'
<1> SUFFICES ASSUME TurnInv, TU!Connect PROVE TurnInv'
  OBVIOUS
<1> DEFINE c == [epoch |-> spent.epochs + 1, reported |-> FALSE, active |-> FALSE,
                 needs |-> TRUE]
<1>1. /\ db' = IF co.epoch # 0 THEN TU!Suspend(db) ELSE db
      /\ co' = c /\ UNCHANGED <<view, wmc, sync, pi>>
      /\ spent' = [spent EXCEPT !.epochs = @ + 1]
  BY DEF TU!Connect
<1>2. spent \in [faults : Nat, controls : Nat, epochs : Nat]
  BY KnownRows
<1>3. c \in Coordinator /\ c.epoch # 0 /\ ~c.reported /\ c.needs
  BY <1>2 DEF Coordinator
<1>4. spent' \in [faults : Nat, controls : Nat, epochs : Nat]
  BY <1>1, <1>2
<1> HIDE DEF c
<1>5. /\ GoodRows(db') /\ Follows(db, db', 0)
      /\ TU!OpenStepTurn(db') /\ TU!Pending(db') => db'.attempt = "interrupted"
  <2>1. CASE co.epoch # 0
    BY <1>1, <2>1, KnownRows, Suspended
  <2>2. CASE co.epoch = 0
    <3>1. co = TU!NoCoordinator /\ ~TU!NoCoordinator.reported
      BY <2>2, KnownRows DEF CoordinatorRow, TU!NoCoordinator
    <3>2. db' = db /\ Follows(db, db, 0)
      BY <1>1, <2>2, KnownRows, ItKeeps, KeepsGood
    <3> QED
      BY <3>1, <3>2, KnownRows DEF CoordinatorRow
  <2> QED
    BY <2>1, <2>2
<1>6. CoordinatorRow(db', c)
  BY <1>3, <1>5 DEF CoordinatorRow
<1> QED
  BY <1>1, <1>3, <1>4, <1>5, <1>6, RowsChange

\* What holds of the rows when no Pi is connected.
LEMMA NobodyConnected ==
    ASSUME NEW D, GoodRows(D), ~(D.on /\ TU!Pending(D)),
           TU!OpenStepTurn(D) /\ TU!Pending(D) => D.attempt = "interrupted"
    PROVE  CoordinatorRow(D, TU!NoCoordinator) /\ TU!NoCoordinator \in Coordinator
<1>1. /\ TU!NoCoordinator.epoch = 0 /\ ~TU!NoCoordinator.reported
      /\ TU!NoCoordinator \in Coordinator
  BY DEF TU!NoCoordinator, Coordinator
<1> QED
  BY <1>1 DEF CoordinatorRow

LEMMA DetachStep == TurnInv /\ TU!Detach => TurnInv'
<1> SUFFICES ASSUME TurnInv, TU!Detach PROVE TurnInv'
  OBVIOUS
<1>1. /\ db' = TU!Suspend(db) /\ co' = TU!NoCoordinator /\ spent' = spent
      /\ UNCHANGED <<view, wmc, sync, pi>>
  BY DEF TU!Detach
<1>2. /\ GoodRows(db') /\ Follows(db, db', 0) /\ ~(db'.on /\ TU!Pending(db'))
      /\ TU!OpenStepTurn(db') /\ TU!Pending(db') => db'.attempt = "interrupted"
  BY <1>1, KnownRows, Suspended
<1>3. CoordinatorRow(db', co') /\ co' \in Coordinator
  BY <1>1, <1>2, NobodyConnected
<1> QED
  BY <1>1, <1>2, <1>3, KnownRows, RowsChange

\* Before a view was received, and without a call, anything goes.
LEMMA NothingShown ==
    ASSUME NEW D \in Rows, NEW w
    PROVE  /\ TU!NoView \in SessionView /\ ViewRow(D, TU!NoView)
           /\ TU!NoView.open = 0 /\ TU!NoView.epoch = 0
           /\ TU!NoSync \in Progress /\ SyncRow(D, w, TU!NoSync)
<1>1. TU!NoSync.call = TU!NoCall /\ TU!NoSync.view = TU!NoView
  BY DEF TU!NoSync
<1>2. TU!NoCall.kind = "none" /\ ~TU!NoCall.entry /\ TU!NoCall.msg = 0
  BY DEF TU!NoCall, TU!NoId
<1>3. /\ TU!NoView.msg = 0 /\ ~TU!NoView.triggers /\ TU!NoView.open = 0
      /\ TU!NoView.status = "none" /\ TU!NoView.epoch = 0
  BY DEF TU!NoView, TU!NoId
<1>4. 0 \in 0..Len(D.msgs)
  BY StepsOf
<1>5. CallRow(D, w, TU!NoSync)
  BY <1>1, <1>2, <1>4 DEF CallRow
<1>6. ViewRow(D, TU!NoView)
  BY <1>3, <1>4 DEF ViewRow
<1>7. TU!NoSync \in Progress /\ TU!NoView \in SessionView
  BY DEF Progress, TU!NoSync, TU!NoView, TU!NoCall, TU!NoId, SessionView, Report
<1> QED
  BY <1>1, <1>3, <1>5, <1>6, <1>7 DEF SyncRow

\* Pi gives its call up.
LEMMA CallGivenUp ==
    ASSUME NEW D \in Rows, NEW v, NEW w \in Memory, NEW s, NEW p, PiRows(D, v, w, s, p)
    PROVE  LET x == [w EXCEPT !.fenced = TRUE] IN
           x \in Memory /\ PiRows(D, v, x, TU!NoSync, p) /\ TU!NoSync \in Progress
<1> DEFINE x == [w EXCEPT !.fenced = TRUE]
<1>1. x \in Memory /\ x.turn = w.turn /\ x.next = w.next
  BY DEF Memory
<1> HIDE DEF x
<1>2. TU!NoSync \in Progress /\ SyncRow(D, x, TU!NoSync)
  BY NothingShown
<1>3. OwnedRow(D, x) /\ ShownRow(D, x, v)
  BY <1>1 DEF PiRows, OwnedRow, ShownRow
<1> QED
  BY <1>1, <1>2, <1>3 DEF PiRows, x

\* As RowsChange, when Pi gives its call up.
LEMMA RowsChangeAlone ==
    ASSUME TurnInv, GoodRows(db'), CoordinatorRow(db', co'), co' \in Coordinator,
           spent' \in [faults : Nat, controls : Nat, epochs : Nat],
           PiRows(db', view, wmc, sync, pi),
           wmc' = [wmc EXCEPT !.fenced = TRUE], sync' = TU!NoSync, UNCHANGED <<view, pi>>
    PROVE  TurnInv'
<1>1. view \in SessionView /\ wmc \in Memory /\ pi \in Session /\ db' \in Rows
  BY DEF TurnInv, TurnTypes, GoodRows
<1>2. wmc' \in Memory /\ PiRows(db', view', wmc', sync', pi') /\ sync' \in Progress
  BY <1>1, CallGivenUp
<1> QED
  BY <1>1, <1>2 DEF TurnInv, TurnTypes

LEMMA RestartServerStep == TurnInv /\ TU!RestartServer => TurnInv'
<1> SUFFICES ASSUME TurnInv, TU!RestartServer PROVE TurnInv'
  OBVIOUS
<1> DEFINE lost == TU!OpenStepTurn(db) /\ TU!Pending(db)
           E == [TU!CloseClock(db) EXCEPT !.anchor = FALSE, !.watch = FALSE,
                     !.attempt = IF lost THEN "interrupted" ELSE @]
<1>1. /\ db' = E /\ co' = TU!NoCoordinator /\ sync' = TU!NoSync
      /\ wmc' = [wmc EXCEPT !.fenced = TRUE] /\ UNCHANGED <<view, pi>>
      /\ spent' \in [faults : Nat, controls : Nat, epochs : Nat]
  BY Spends DEF TU!RestartServer
<1>2. /\ E \in Rows /\ E.msgs = db.msgs /\ E.turns = db.turns /\ E.run = db.run
      /\ E.req = db.req /\ E.err = db.err /\ E.busy = db.busy /\ ~E.on
      /\ (lost => E.attempt = "interrupted")
  BY KnownRows DEF Rows, TU!CloseClock
<1> HIDE DEF E
<1>3. Keeps(db, E)
  BY <1>2, KnownRows, ItKeepsFields
<1>4. /\ TurnRows(E) /\ ReminderRows(E) /\ Follows(db, E, 0)
      /\ (TU!OpenStepTurn(E) <=> TU!OpenStepTurn(db))
  BY <1>3, KnownRows, KeepsGood
<1>5. RunRow(E)
  BY <1>2, KnownRows DEF RunRow, TU!Pending, TU!Over
<1>6. GoodRows(E)
  BY <1>2, <1>4, <1>5 DEF GoodRows
<1>7. CoordinatorRow(E, co') /\ co' \in Coordinator
  BY <1>1, <1>2, <1>4, <1>6, NobodyConnected DEF TU!Pending
<1>8. PiRows(E, view, wmc, sync, pi)
  BY <1>2, <1>4, KnownRows, PiStaysAside DEF TurnInv, TurnTypes
<1> QED
  BY <1>1, <1>6, <1>7, <1>8, RowsChangeAlone

-----------------------------------------------------------------------------
(* What Pi is told.                                                        *)

\* A view of the rows fits them, whatever turn Pi owns.
LEMMA ViewOf ==
    ASSUME NEW D, GoodRows(D), NEW c \in Coordinator, NEW v \in TU!SessionViews(D, c), NEW w
    PROVE  v \in SessionView /\ ViewRow(D, v) /\ ShownRow(D, w, v)
<1> DEFINE m == TU!Current(D)
           t == TU!First(TU!OpenTurns(D))
<1>1. D \in Rows /\ TurnRows(D)
  BY DEF GoodRows
<1>2. /\ v.epoch = c.epoch /\ v.msg = m /\ v.open = t
      /\ v.status = IF m = 0 THEN "none" ELSE D.msgs[m].status
      /\ v.triggers \in BOOLEAN /\ (v.triggers => m # 0) /\ v.cancelled \in BOOLEAN
      /\ v.required \in BOOLEAN
      /\ v = [epoch |-> v.epoch, required |-> v.required, msg |-> v.msg, status |-> v.status,
              triggers |-> v.triggers, cancelled |-> v.cancelled, open |-> v.open]
  <2>1. PICK n \in {m} : v = [epoch |-> c.epoch, required |-> ~c.reported, msg |-> n,
            status |-> IF n = TU!NoId THEN "none" ELSE D.msgs[n].status,
            triggers |-> n # TU!NoId /\ TU!Triggers(D, n),
            cancelled |-> n # TU!NoId /\ TU!DeliveryCancelled(D, n),
            open |-> t]
    BY DEF TU!SessionViews
  <2> QED
    BY <2>1 DEF TU!NoId
<1>3. /\ m \in 0..Len(D.msgs)
      /\ TU!OpenTurns(D) # {} => \E u \in TU!OpenTurns(D) : m = D.turns[u].msg
  BY <1>1, CurrentOf
<1> HIDE DEF m
<1>4. t \in TU!OpenTurns(D) \cup {0} /\ (TU!OpenTurns(D) # {} => t \in TU!OpenTurns(D))
  BY OpenTurnsOf, FirstIn
<1> HIDE DEF t
<1>5. Len(D.msgs) \in Nat /\ \A n \in 1..Len(D.msgs) : D.msgs[n] \in Message
  BY <1>1, StepsOf
<1>6. v.status \in {"none", "pending", "sent", "cancelled"} /\ v.msg \in Nat
  BY <1>2, <1>3, <1>5 DEF Message
<1>7. t \in Nat /\ (t # 0 => t \in 1..MaxTurns /\ D.turns[t].st = "started")
  BY <1>4, OpenTurnsOf
<1>8. v \in SessionView
  BY <1>2, <1>6, <1>7 DEF SessionView, Coordinator
<1>9. ViewRow(D, v)
  BY <1>2, <1>3, <1>5, <1>7 DEF ViewRow, WasSent
<1>10. ASSUME TU!OpenTurns(D) # {} PROVE v.open \in TU!OpenTurns(D) /\ v.status # "pending"
  <2>1. PICK u \in TU!OpenTurns(D) : m = D.turns[u].msg
    BY <1>3, <1>10
  <2>2. D.msgs[m].status = "sent" /\ m \in 1..Len(D.msgs)
    BY <1>1, <2>1, OpenTurnsOf DEF TurnRows
  <2>3. m # 0
    BY <1>5, <2>2
  <2> QED
    BY <1>2, <1>4, <1>10, <2>2, <2>3
<1> QED
  BY <1>2, <1>7, <1>8, <1>9, <1>10 DEF ShownRow

\* What the report of Pi and its end depend on in the memory of Pi.
SameOwned(w, x) ==
    /\ x.next = w.next /\ x.turn.id = w.turn.id /\ x.turn.msg = w.turn.msg
    /\ x.turn.phase = w.turn.phase /\ x.turn.end = w.turn.end
    /\ (x.turn.entered => w.turn.entered)

LEMMA OwnedKept ==
    ASSUME NEW w, NEW x, SameOwned(w, x), NEW D
    PROVE  /\ OwnedRow(D, w) => OwnedRow(D, x)
           /\ \A s : SyncRow(D, w, s) => SyncRow(D, x, s)
           /\ \A v : ShownRow(D, w, v) => ShownRow(D, x, v)
<1>1. OwnedRow(D, w) => OwnedRow(D, x)
  BY DEF SameOwned, OwnedRow
<1>2. ASSUME NEW s, SyncRow(D, w, s) PROVE SyncRow(D, x, s)
  BY <1>2 DEF SameOwned, SyncRow, CallRow
<1>3. ASSUME NEW v, ShownRow(D, w, v) PROVE ShownRow(D, x, v)
  BY <1>3 DEF SameOwned, ShownRow
<1> QED
  BY <1>1, <1>2, <1>3

LEMMA SeenOf ==
    ASSUME NEW w \in Memory, NEW v
    PROVE  TU!Seen(w, v) \in Memory /\ SameOwned(w, TU!Seen(w, v))
<1> DEFINE b == w.turn.stop \/ (w.turn.id # 0 /\ v.cancelled /\ v.msg = w.turn.msg)
           q == {m \in w.queued : m = v.msg /\ v.status \notin {"sent", "cancelled"}}
           u == [w.turn EXCEPT !.stop = b]
           x == [w EXCEPT !.fenced = FALSE, !.turn = u, !.queued = q]
<1>1. TU!Seen(w, v) = x
  <2>1. [w EXCEPT !.turn.stop = b] = [w EXCEPT !.turn = u]
    BY DEF Memory
  <2> QED
    BY <2>1 DEF TU!Seen, TU!NoId, Memory
<1>2. b \in BOOLEAN /\ q \in SUBSET Nat
  <2>1. w.turn.stop \in BOOLEAN /\ w.queued \in SUBSET Nat
    BY DEF Memory, OwnedTurn
  <2> QED
    BY <2>1
<1>3. /\ u \in OwnedTurn /\ u.id = w.turn.id /\ u.msg = w.turn.msg /\ u.phase = w.turn.phase
      /\ u.end = w.turn.end /\ u.entered = w.turn.entered
  <2>1. w.turn \in OwnedTurn
    BY DEF Memory
  <2> HIDE DEF b
  <2> QED
    BY <1>2, <2>1 DEF OwnedTurn
<1> HIDE DEF u, q, b
<1>4. x \in Memory /\ x.turn = u /\ x.next = w.next
  BY <1>2, <1>3 DEF Memory
<1> QED
  BY <1>1, <1>3, <1>4 DEF SameOwned

LEMMA PublishStep == TurnInv /\ TU!Publish => TurnInv'
<1> SUFFICES ASSUME TurnInv, TU!Publish PROVE TurnInv'
  OBVIOUS
<1>1. PICK v \in TU!SessionViews(db, co) : view' = v /\ wmc' = TU!Seen(wmc, v)
  BY DEF TU!Publish
<1>2. UNCHANGED <<db, co, sync, pi, spent>>
  BY DEF TU!Publish
<1>3. /\ TurnTypes /\ PiRows(db, view, wmc, sync, pi) /\ wmc \in Memory
      /\ OwnedRow(db, wmc) /\ SyncRow(db, wmc, sync) /\ PiRow(db, pi)
  BY DEF TurnInv, TurnTypes, PiRows
<1>4. v \in SessionView /\ ViewRow(db, v) /\ ShownRow(db, wmc, v)
  BY KnownRows, ViewOf
<1>5. wmc' \in Memory /\ SameOwned(wmc, wmc')
  BY <1>1, <1>3, SeenOf
<1>6. OwnedRow(db, wmc') /\ SyncRow(db, wmc', sync) /\ ShownRow(db, wmc', v)
  BY <1>3, <1>4, <1>5, OwnedKept
<1>7. PiRows(db, view', wmc', sync, pi)
  BY <1>1, <1>3, <1>4, <1>6 DEF PiRows
<1>8. TurnTypes'
  BY <1>1, <1>2, <1>3, <1>4, <1>5 DEF TurnTypes
<1>9. GoodRows(db') /\ CoordinatorRow(db', co') /\ PiRows(db', view', wmc', sync', pi')
  BY <1>2, <1>7, KnownRows
<1> QED
  BY <1>8, <1>9 DEF TurnInv

-----------------------------------------------------------------------------
(* The reports of Pi.                                                      *)

LEMMA FollowsMore ==
    ASSUME NEW D \in Rows, NEW E \in Rows, Follows(D, E, 0), NEW own
    PROVE  /\ Follows(D, E, own)
           /\ \A t \in 1..MaxTurns : E.turns[t].st \in Ends => D.turns[t].st = E.turns[t].st
<1>1. ASSUME NEW t \in 1..MaxTurns
      PROVE  /\ TurnFollows(D.turns[t], E.turns[t], t = own)
             /\ E.turns[t].st \in Ends => D.turns[t].st = E.turns[t].st
  <2>1. TurnFollows(D.turns[t], E.turns[t], t = 0) /\ t # 0
    BY SessionDataAssumption DEF Follows
  <2>2. TurnFollows(D.turns[t], E.turns[t], FALSE)
    BY <2>1 DEF TurnFollows
  <2>3. D.turns[t] \in TurnRow /\ E.turns[t] \in TurnRow
    BY StepsOf
  <2> QED
    BY <2>2, <2>3 DEF TurnFollows, TurnRow, Ends
<1> QED
  BY <1>1 DEF Follows

\* What a report that fits the call is about.
LEMMA CallMade ==
    ASSUME TurnInv, TU!Asking
    PROVE  /\ sync.call \in Report /\ sync.call.kind \in {"branch", "started", "ended"}
           /\ sync.call.epoch # 0 /\ sync.reply = "none"
           /\ sync.call.entry => sync.call.msg \in 1..Len(db.msgs)
           /\ sync.call.kind # "branch" =>
                 /\ sync.call.turn \in 1..MaxTurns /\ sync.call.turn = wmc.turn.id
                 /\ TU!OpenTurns(db) \subseteq {sync.call.turn}
           /\ sync.call.kind = "started" => WasSent(db, sync.call.msg)
           /\ sync.call.kind = "ended" =>
                 /\ sync.call.end \in Ends /\ wmc.turn.phase = "settled"
                 /\ sync.call.end = wmc.turn.end
                 /\ db.turns[sync.call.turn].st \in Ends =>
                       db.turns[sync.call.turn].st = sync.call.end
<1>1. sync \in Progress /\ wmc \in Memory /\ CallRow(db, wmc, sync) /\ OwnedRow(db, wmc)
  BY DEF TurnInv, TurnTypes, PiRows, SyncRow
<1>2. sync.call \in Report /\ sync.call.kind # "none" /\ sync.reply = "none"
  BY <1>1 DEF Progress, TU!Asking
<1>3. sync.call.kind \in {"branch", "started", "ended"} /\ wmc.turn.end \in {"none"} \cup Ends
  BY <1>1, <1>2 DEF Report, Memory, OwnedTurn
<1>4. Len(db.msgs) \in Nat
  BY KnownRows, StepsOf
<1>5. sync.call.entry => sync.call.msg \in 1..Len(db.msgs)
  BY <1>1, <1>4 DEF CallRow
<1>6. ASSUME sync.call.kind # "branch"
      PROVE  /\ sync.call.turn \in 1..MaxTurns /\ sync.call.turn = wmc.turn.id
             /\ TU!OpenTurns(db) \subseteq {sync.call.turn}
  BY <1>1, <1>3, <1>6 DEF CallRow, OwnedRow
<1>7. ASSUME sync.call.kind = "ended"
      PROVE  /\ sync.call.end \in Ends /\ wmc.turn.phase = "settled"
             /\ sync.call.end = wmc.turn.end
             /\ db.turns[sync.call.turn].st \in Ends =>
                   db.turns[sync.call.turn].st = sync.call.end
  BY <1>1, <1>3, <1>7 DEF CallRow, OwnedRow
<1> QED
  BY <1>1, <1>2, <1>3, <1>5, <1>6, <1>7 DEF CallRow

\* A report leaves rows in order or throws, and it throws for one reason only.
ReportFits(r, s) ==
    /\ s.D.err => /\ r.kind = "started" /\ r.turn = wmc.turn.id
                  /\ db.msgs[r.msg].why = "resumed" /\ db.msgs[r.msg].status = "pending"
    /\ s.reply \in {"ok", "active", "settled", "absent"}
    /\ ~s.D.err /\ ~s.D.busy =>
          /\ GoodRows(s.D) /\ s.co \in Coordinator /\ CoordinatorRow(s.D, s.co)
          /\ Follows(db, s.D, wmc.turn.id)
          /\ wmc.turn.id # 0 /\ s.D.turns[wmc.turn.id].st \in Ends =>
                \/ db.turns[wmc.turn.id].st = s.D.turns[wmc.turn.id].st
                \/ wmc.turn.phase = "settled" /\ wmc.turn.end = s.D.turns[wmc.turn.id].st
          /\ r.kind = "branch" /\ r.entry => WasSent(s.D, r.msg)
          /\ r.kind = "ended" => s.D.turns[r.turn].st # "started"

LEMMA ReportServed ==
    ASSUME TurnInv, TU!Asking
    PROVE  LET s == TU!Served(sync.call)
           IN s = [D |-> db, co |-> co, reply |-> "error"] \/ ReportFits(sync.call, s)
<1> DEFINE r == sync.call
           s == TU!Served(r)
           B == [D  |-> TU!ReportBranch(db, co, r), reply |-> "ok",
                 co |-> [co EXCEPT !.reported = TRUE, !.active = ~r.idle, !.needs = FALSE]]
           W(x) == [D |-> x.D, co |-> [co EXCEPT !.active = x.own = "active"], reply |-> x.own]
           x1 == TU!ReportStart(db, r)
           x2 == TU!ReportEnd(db, r)
<1>1. /\ r \in Report /\ r.kind \in {"branch", "started", "ended"} /\ r.epoch # 0
      /\ r.entry => r.msg \in 1..Len(db.msgs)
      /\ r.kind # "branch" => /\ r.turn \in 1..MaxTurns /\ r.turn = wmc.turn.id
                              /\ TU!OpenTurns(db) \subseteq {r.turn}
      /\ r.kind = "started" => WasSent(db, r.msg)
      /\ r.kind = "ended" => /\ r.end \in Ends /\ wmc.turn.phase = "settled"
                             /\ r.end = wmc.turn.end
                             /\ db.turns[r.turn].st \in Ends => db.turns[r.turn].st = r.end
  BY CallMade
<1> SUFFICES ASSUME r.epoch = co.epoch /\ (r.kind # "branch" => co.reported)
             PROVE  ReportFits(r, s)
  BY DEF TU!Served
<1>2. r.epoch = co.epoch /\ (r.kind # "branch" => co.reported)
  OBVIOUS
<1>3. /\ r.kind = "branch" => s = B
      /\ r.kind = "started" => s = W(x1)
      /\ r.kind = "ended" => s = W(x2)
  BY <1>2 DEF TU!Served
<1> HIDE DEF r, s
<1>4. /\ GoodRows(db) /\ db \in Rows /\ co \in Coordinator /\ CoordinatorRow(db, co)
      /\ co.epoch # 0 /\ wmc \in Memory /\ OwnedRow(db, wmc)
  BY <1>1, <1>2, KnownRows DEF TurnInv, TurnTypes, PiRows
<1>5. wmc.turn.id # 0 => wmc.turn.id \in 1..MaxTurns
  BY <1>4 DEF OwnedRow
<1>6. CASE r.kind = "branch"
  <2> DEFINE E == TU!ReportBranch(db, co, r)
             k == [co EXCEPT !.reported = TRUE, !.active = ~r.idle, !.needs = FALSE]
  <2>1. /\ GoodRows(E) /\ Follows(db, E, 0) /\ (r.entry => WasSent(E, r.msg))
        /\ CoordinatorRow(E, k)
    BY <1>1, <1>4, BranchReported
  <2>2. s.D = E /\ s.co = k /\ s.reply = "ok"
    BY <1>3, <1>6
  <2>3. r.idle \in BOOLEAN
    BY <1>1 DEF Report
  <2>4. k \in Coordinator
    BY <1>4, <2>3 DEF Coordinator
  <2> HIDE DEF E, k
  <2>5. E \in Rows /\ ~E.err
    BY <2>1 DEF GoodRows, RunRow
  <2>6. /\ Follows(db, E, wmc.turn.id)
        /\ wmc.turn.id # 0 /\ E.turns[wmc.turn.id].st \in Ends =>
              db.turns[wmc.turn.id].st = E.turns[wmc.turn.id].st
    BY <1>4, <1>5, <2>1, <2>5, FollowsMore
  <2> QED
    BY <1>6, <2>1, <2>2, <2>4, <2>5, <2>6 DEF ReportFits, r, s
<1>7. CASE r.kind = "started"
  <2> DEFINE E == x1.D
             k == [co EXCEPT !.active = x1.own = "active"]
  <2>1. /\ x1.own \in {"active", "settled", "absent"} /\ ~E.busy
        /\ E.err => db.msgs[r.msg].why = "resumed" /\ db.msgs[r.msg].status = "pending"
        /\ ~E.err => /\ GoodRows(E) /\ Follows(db, E, r.turn)
                     /\ E.turns[r.turn].st \in Ends => db.turns[r.turn].st = E.turns[r.turn].st
                     /\ CoordinatorRow(E, k)
    BY <1>1, <1>2, <1>4, <1>7, StartReported
  <2>2. s.D = E /\ s.co = k /\ s.reply = x1.own
    BY <1>3, <1>7
  <2>3. k \in Coordinator
    BY <1>4 DEF Coordinator
  <2> HIDE DEF E, k, x1
  <2> QED
    BY <1>1, <1>7, <2>1, <2>2, <2>3 DEF ReportFits, r, s
<1>8. CASE r.kind = "ended"
  <2> DEFINE E == x2.D
             k == [co EXCEPT !.active = x2.own = "active"]
  <2>1. /\ x2.own \in {"settled", "absent"} /\ ~E.err
        /\ ~E.busy => /\ GoodRows(E) /\ Follows(db, E, r.turn)
                      /\ E.turns[r.turn].st # "started"
                      /\ E.turns[r.turn].st \in Ends => E.turns[r.turn].st = r.end
                      /\ CoordinatorRow(E, k)
    BY <1>1, <1>4, <1>8, EndReported
  <2>2. s.D = E /\ s.co = k /\ s.reply = x2.own
    BY <1>3, <1>8
  <2>3. k \in Coordinator
    BY <1>4 DEF Coordinator
  <2> HIDE DEF E, k, x2
  <2> QED
    BY <1>1, <1>8, <2>1, <2>2, <2>3 DEF ReportFits, r, s
<1> QED
  BY <1>1, <1>6, <1>7, <1>8 DEF r

\* The rows with an accepted report, and the answer on its way.
LEMMA ReportStored ==
    ASSUME TurnInv, TU!Asking, NEW s, s = TU!Served(sync.call), s.reply # "error",
           ~s.D.err, ~s.D.busy, NEW E, E = TU!EnsureTerminal(s.D)
    PROVE  LET x == [sync EXCEPT !.reply = s.reply] IN
           /\ GoodRows(E) /\ s.co \in Coordinator /\ CoordinatorRow(E, s.co)
           /\ PiRows(E, view, wmc, sync, pi) /\ PiRows(E, view, wmc, x, pi) /\ x \in Progress
<1> DEFINE r == sync.call
           D == s.D
           own == wmc.turn.id
           x == [sync EXCEPT !.reply = s.reply]
<1>1. /\ s.reply \in {"ok", "active", "settled", "absent"}
      /\ GoodRows(D) /\ s.co \in Coordinator /\ CoordinatorRow(D, s.co)
      /\ Follows(db, D, own)
      /\ own # 0 /\ D.turns[own].st \in Ends =>
            \/ db.turns[own].st = D.turns[own].st
            \/ wmc.turn.phase = "settled" /\ wmc.turn.end = D.turns[own].st
      /\ r.kind = "branch" /\ r.entry => WasSent(D, r.msg)
      /\ r.kind = "ended" => D.turns[r.turn].st # "started"
  BY ReportServed DEF ReportFits
<1>2. /\ view \in SessionView /\ wmc \in Memory /\ sync \in Progress /\ pi \in Session
      /\ PiRows(db, view, wmc, sync, pi) /\ db \in Rows /\ TurnRows(db)
  BY KnownRows DEF TurnInv, TurnTypes
<1>3. sync.reply = "none"
  BY CallMade
<1> HIDE DEF D, own, r
<1>4. D \in Rows /\ Keeps(D, E) /\ SameClock(D, E)
  BY <1>1, TerminalEnsured DEF GoodRows, D
<1>5. GoodRows(E) /\ CoordinatorRow(E, s.co) /\ Follows(D, E, own) /\ E \in Rows
  BY <1>1, <1>4, StillGood DEF Keeps
<1>6. Follows(db, E, own)
  BY <1>1, <1>2, <1>4, <1>5, FollowsOn
<1>7. E.turns = D.turns /\ (\A m : WasSent(D, m) => WasSent(E, m))
  BY <1>4, <1>5, WasSentStays DEF Keeps
<1>8. PiRows(E, view, wmc, sync, pi)
  <2>1. own # 0 /\ E.turns[own].st \in Ends =>
            \/ db.turns[own].st = E.turns[own].st
            \/ wmc.turn.phase = "settled" /\ wmc.turn.end = E.turns[own].st
    BY <1>1, <1>7
  <2> QED
    BY <1>2, <1>3, <1>5, <1>6, <2>1, PiStays DEF own
<1>9. x \in Progress /\ x.view = sync.view /\ x.call = r /\ x.reply = s.reply /\ x.at = sync.at
  BY <1>1, <1>2 DEF Progress, r
<1> HIDE DEF x
<1>10. CallRow(E, wmc, x)
  <2>1. CallRow(E, wmc, sync)
    BY <1>8 DEF PiRows, SyncRow
  <2>2. r.kind = "branch" /\ r.entry => WasSent(E, r.msg)
    BY <1>1, <1>7
  <2>3. r.kind = "ended" => E.turns[r.turn].st # "started"
    BY <1>1, <1>7
  <2> QED
    BY <1>9, <2>1, <2>2, <2>3 DEF CallRow, r
<1>11. SyncRow(E, wmc, x)
  <2>1. SyncRow(E, wmc, sync) /\ sync # TU!NoSync
    <3>1. TU!NoSync.call.kind = "none"
      BY DEF TU!NoSync, TU!NoCall
    <3>2. sync.call.kind # "none"
      BY DEF TU!Asking
    <3> QED
      BY <1>8, <3>1, <3>2 DEF PiRows
  <2> QED
    BY <1>9, <1>10, <2>1 DEF SyncRow
<1>12. PiRows(E, view, wmc, x, pi)
  BY <1>8, <1>11 DEF PiRows
<1> QED
  BY <1>1, <1>5, <1>8, <1>9, <1>12 DEF x

LEMMA ServeStep == TurnInv /\ TU!Serve => TurnInv'
<1> SUFFICES ASSUME TurnInv, TU!Serve PROVE TurnInv'
  OBVIOUS
<1> DEFINE s == TU!Served(sync.call)
           E == TU!EnsureTerminal(s.D)
<1>1. /\ view \in SessionView /\ wmc \in Memory /\ sync \in Progress /\ pi \in Session
      /\ PiRows(db, view, wmc, sync, pi) /\ pi' = pi /\ spent' = spent
  BY DEF TurnInv, TurnTypes, TU!Serve
<1>2. CASE sync' = [sync EXCEPT !.reply = "error"] /\ UNCHANGED <<db, co, view, wmc>>
  <2> DEFINE x == [sync EXCEPT !.reply = "error"]
  <2>1. x \in Progress /\ x.view = sync.view /\ x.call = sync.call /\ x.reply = "error"
    BY <1>1 DEF Progress
  <2>2. sync' = x
    BY <1>2
  <2> HIDE DEF x
  <2>3. SyncRow(db, wmc, sync) /\ sync # TU!NoSync
    <3>1. TU!NoSync.call.kind = "none"
      BY DEF TU!NoSync, TU!NoCall
    <3>2. sync.call.kind # "none"
      BY DEF TU!Asking, TU!Serve
    <3> QED
      BY <1>1, <3>1, <3>2 DEF PiRows
  <2>4. CallRow(db, wmc, x)
    BY <2>1, <2>3 DEF SyncRow, CallRow
  <2>5. SyncRow(db, wmc, x)
    BY <2>1, <2>3, <2>4 DEF SyncRow
  <2>6. PiRows(db, view, wmc, x, pi)
    BY <1>1, <2>5 DEF PiRows
  <2>7. TurnTypes'
    BY <1>1, <1>2, <2>1, <2>2 DEF TurnInv, TurnTypes
  <2> QED
    BY <1>1, <1>2, <2>2, <2>6, <2>7 DEF TurnInv
<1>3. CASE /\ s.reply # "error" /\ ~s.D.err /\ ~s.D.busy
           /\ sync' = [sync EXCEPT !.reply = s.reply]
           /\ \E v \in TU!SessionViews(E, s.co) :
                 db' = E /\ co' = s.co /\ view' = v /\ wmc' = TU!Seen(wmc, v)
  <2> DEFINE x == [sync EXCEPT !.reply = s.reply]
  <2>1. PICK v \in TU!SessionViews(E, s.co) :
            db' = E /\ co' = s.co /\ view' = v /\ wmc' = TU!Seen(wmc, v)
    BY <1>3
  <2>2. TU!Asking
    BY DEF TU!Serve
  <2>3. /\ GoodRows(E) /\ s.co \in Coordinator /\ CoordinatorRow(E, s.co)
        /\ PiRows(E, view, wmc, x, pi) /\ x \in Progress
    BY <1>3, <2>2, ReportStored
  <2>4. sync' = x
    BY <1>3
  <2> HIDE DEF x, E, s
  <2>5. v \in SessionView /\ ViewRow(E, v) /\ ShownRow(E, wmc, v)
    BY <2>3, ViewOf
  <2>6. wmc' \in Memory /\ SameOwned(wmc, wmc')
    BY <1>1, <2>1, SeenOf
  <2>7. OwnedRow(E, wmc) /\ SyncRow(E, wmc, x) /\ PiRow(E, pi)
    BY <2>3 DEF PiRows
  <2>8. OwnedRow(E, wmc') /\ SyncRow(E, wmc', x) /\ ShownRow(E, wmc', v)
    BY <2>5, <2>6, <2>7, OwnedKept
  <2>9. PiRows(E, v, wmc', x, pi)
    BY <2>5, <2>7, <2>8 DEF PiRows
  <2>10. TurnTypes'
    BY <1>1, <2>1, <2>3, <2>4, <2>5, <2>6, KnownRows DEF TurnTypes, GoodRows
  <2> QED
    BY <1>1, <2>1, <2>3, <2>4, <2>9, <2>10 DEF TurnInv
<1> QED
  BY <1>2, <1>3 DEF TU!Serve

LEMMA LoseConnectionStep == TurnInv /\ TU!LoseConnection => TurnInv'
<1> SUFFICES ASSUME TurnInv, TU!LoseConnection PROVE TurnInv'
  OBVIOUS
<1> DEFINE s == TU!Served(sync.call)
           E == TU!EnsureTerminal(s.D)
<1>1. /\ sync' = TU!NoSync /\ wmc' = [wmc EXCEPT !.fenced = TRUE] /\ UNCHANGED <<view, pi>>
      /\ spent' \in [faults : Nat, controls : Nat, epochs : Nat]
  BY Spends DEF TU!LoseConnection
<1>2. PiRows(db, view, wmc, sync, pi)
  BY DEF TurnInv
<1>3. CASE UNCHANGED <<db, co>>
  <2>1. PiRows(db', view, wmc, sync, pi)
    BY <1>2, <1>3
  <2> QED
    BY <1>1, <1>3, <2>1, KnownRows, RowsChangeAlone
<1>4. CASE TU!Asking /\ ~s.D.err /\ ~s.D.busy /\ db' = E /\ co' = s.co
  <2>1. CASE s.reply # "error"
    <3>1. /\ GoodRows(E) /\ s.co \in Coordinator /\ CoordinatorRow(E, s.co)
          /\ PiRows(E, view, wmc, sync, pi)
      BY <1>4, <2>1, ReportStored
    <3> QED
      BY <1>1, <1>4, <3>1, RowsChangeAlone
  <2>2. CASE s.reply = "error"
    <3>1. s.D = db /\ s.co = co
      BY <1>4, <2>2, ReportServed DEF ReportFits
    <3> HIDE DEF s
    <3>2. Keeps(db, E) /\ SameClock(db, E)
      BY <3>1, KnownRows, TerminalEnsured
    <3> HIDE DEF E
    <3>3. GoodRows(E) /\ CoordinatorRow(E, co) /\ Follows(db, E, 0) /\ E \in Rows
      BY <3>2, KnownRows, StillGood DEF GoodRows
    <3>4. PiRows(E, view, wmc, sync, pi)
      BY <1>2, <3>3, KnownRows, PiStaysAside DEF TurnInv, TurnTypes
    <3> QED
      BY <1>1, <1>4, <3>1, <3>3, <3>4, KnownRows, RowsChangeAlone
  <2> QED
    BY <2>1, <2>2
<1> QED
  BY <1>3, <1>4 DEF TU!LoseConnection

-----------------------------------------------------------------------------
(* Pi.                                                                     *)

Stages == {"idle", "owned", "settle", "branch", "flush", "deliver", "present", "sent", "final"}

\* A call of the poll, at one of its awaits.
LEMMA CallAt ==
    ASSUME NEW D, NEW w, NEW v \in SessionView, ViewRow(D, v), v.epoch # 0,
           NEW c \in Report, NEW at \in Stages,
           CallRow(D, w, TU!At(at, v, c))
    PROVE  TU!At(at, v, c) \in Progress /\ SyncRow(D, w, TU!At(at, v, c))
<1> DEFINE s == TU!At(at, v, c)
<1>1. s \in Progress /\ s.view = v
  BY DEF TU!At, Progress, Stages
<1> HIDE DEF s
<1> QED
  BY <1>1 DEF s, SyncRow

LEMMA NoCallAt ==
    ASSUME NEW D \in Rows, NEW w, NEW v \in SessionView, ViewRow(D, v), v.epoch # 0
    PROVE  LET s == TU!At("deliver", v, TU!NoCall) IN s \in Progress /\ SyncRow(D, w, s)
<1> DEFINE s == TU!At("deliver", v, TU!NoCall)
<1>1. s.call = TU!NoCall /\ s.view = v
  BY DEF TU!At
<1>2. /\ TU!NoCall.kind = "none" /\ ~TU!NoCall.entry /\ TU!NoCall.msg = 0
      /\ TU!NoCall \in Report
  BY DEF TU!NoCall, TU!NoId, Report
<1> HIDE DEF s
<1>3. 0 \in 0..Len(D.msgs)
  BY StepsOf
<1>4. CallRow(D, w, s)
  BY <1>1, <1>2, <1>3 DEF CallRow
<1> QED
  BY <1>2, <1>4, CallAt DEF s, Stages

LEMMA BranchCall ==
    ASSUME NEW D \in Rows, PiRow(D, pi), NEW w, NEW v \in SessionView, ViewRow(D, v),
           v.epoch # 0, NEW m \in 0..Len(D.msgs), NEW at \in Stages, NEW x
    PROVE  LET c == TU!Call(w, v, "branch", m)
               s == TU!At(at, v, c)
               k == TU!At(at, v, [c EXCEPT !.owned = TRUE]) IN
           /\ m = v.msg => s \in Progress /\ SyncRow(D, x, s)
           /\ k \in Progress /\ SyncRow(D, x, k)
<1> DEFINE c == TU!Call(w, v, "branch", m)
           o == [c EXCEPT !.owned = TRUE]
           s == TU!At(at, v, c)
           k == TU!At(at, v, o)
<1>1. m \in Nat /\ v.epoch \in Nat
  BY StepsOf DEF SessionView
<1>2. /\ c \in Report /\ c.kind = "branch" /\ c.msg = m /\ c.epoch = v.epoch
      /\ (c.entry => m \in pi.branch) /\ ~c.owned
  BY <1>1 DEF TU!Call, TU!NoCall, TU!NoId, TU!Idle, Report
<1> HIDE DEF c
<1>3. /\ o \in Report /\ o.kind = "branch" /\ o.msg = m /\ o.epoch = v.epoch
      /\ (o.entry => m \in pi.branch) /\ o.owned
  BY <1>2 DEF Report
<1> HIDE DEF o
<1>4. m \in pi.branch => m # 0
  BY StepsOf DEF PiRow
<1>5. /\ s.call = c /\ s.view = v /\ s.reply = "none"
      /\ k.call = o /\ k.view = v /\ k.reply = "none"
  BY DEF TU!At
<1> HIDE DEF s, k
<1>6. m = v.msg => CallRow(D, x, s)
  BY <1>2, <1>4, <1>5 DEF CallRow
<1>7. CallRow(D, x, k)
  BY <1>3, <1>4, <1>5 DEF CallRow
<1>8. m = v.msg => s \in Progress /\ SyncRow(D, x, s)
  BY <1>2, <1>6, CallAt DEF s
<1>9. k \in Progress /\ SyncRow(D, x, k)
  BY <1>3, <1>7, CallAt DEF k
<1> QED
  BY <1>8, <1>9 DEF s, k, o, c

LEMMA TurnCall ==
    ASSUME NEW D \in Rows, NEW w \in Memory, OwnedRow(D, w), w.turn.id # 0,
           NEW v \in SessionView, ViewRow(D, v), v.epoch # 0, NEW at \in Stages,
           IF TU!MustStart(w) THEN TU!EntryKnown(w, v) ELSE w.turn.phase = "settled"
    PROVE  LET s == TU!At(at, v, TU!Flush(w, v)) IN s \in Progress /\ SyncRow(D, w, s)
<1> DEFINE kind == IF TU!MustStart(w) THEN "started" ELSE "ended"
           c == TU!Call(w, v, kind, w.turn.msg)
           s == TU!At(at, v, c)
<1>1. TU!Flush(w, v) = c
  BY DEF TU!Flush
<1>2. w.turn \in OwnedTurn /\ v.epoch \in Nat
  BY DEF Memory, SessionView
<1>3. kind \in {"started", "ended"}
  OBVIOUS
<1>4. kind = "started" => WasSent(D, w.turn.msg)
  BY DEF TU!EntryKnown, ViewRow, OwnedRow
<1>5. kind = "ended" => w.turn.phase = "settled"
  OBVIOUS
<1> HIDE DEF kind
<1>6. /\ c \in Report /\ c.kind = kind /\ c.msg = w.turn.msg /\ c.epoch = v.epoch
      /\ ~c.entry /\ c.turn = w.turn.id /\ (kind = "ended" => c.end = w.turn.end)
  BY <1>2, <1>3 DEF TU!Call, TU!NoCall, TU!NoId, TU!Idle, Report, OwnedTurn
<1> HIDE DEF c
<1>7. s.call = c /\ s.view = v /\ s.reply = "none"
  BY DEF TU!At
<1> HIDE DEF s
<1>8. w.turn.msg \in 0..Len(D.msgs)
  BY StepsOf DEF OwnedRow
<1>9. CallRow(D, w, s)
  BY <1>3, <1>4, <1>5, <1>6, <1>7, <1>8 DEF CallRow
<1> QED
  BY <1>1, <1>6, <1>9, CallAt DEF s

\* Whatever the poll does next fits the rows.
LEMMA OnwardFits ==
    ASSUME NEW D \in Rows, PiRow(D, pi), NEW w \in Memory, OwnedRow(D, w),
           NEW v \in SessionView, ViewRow(D, v), v.epoch # 0, NEW stage
    PROVE  LET s == TU!Onward(stage, w, v) IN s \in Progress /\ SyncRow(D, w, s)
<1> DEFINE s == TU!Onward(stage, w, v)
           s1 == TU!At("settle", v, TU!Flush(w, v))
           s2 == TU!At("branch", v, TU!Call(w, v, "branch", v.msg))
           s3 == TU!At("flush", v, TU!Flush(w, v))
           s4 == TU!At("deliver", v, TU!NoCall)
<1>1. \/ s = s1 /\ TU!CanFlush(w, v)
      \/ s = s2
      \/ s = s3 /\ TU!CanFlush(w, v)
      \/ s = s4
      \/ s = TU!NoSync
  BY DEF TU!Onward
<1>2. ASSUME TU!CanFlush(w, v)
      PROVE  /\ s1 \in Progress /\ SyncRow(D, w, s1)
             /\ s3 \in Progress /\ SyncRow(D, w, s3)
  <2>1. /\ w.turn.id # 0
        /\ IF TU!MustStart(w) THEN TU!EntryKnown(w, v) ELSE w.turn.phase = "settled"
    BY <1>2 DEF TU!CanFlush, OwnedRow
  <2>2. "settle" \in Stages /\ "flush" \in Stages
    BY DEF Stages
  <2> QED
    BY <2>1, <2>2, TurnCall
<1>3. s2 \in Progress /\ SyncRow(D, w, s2)
  <2>1. v.msg \in 0..Len(D.msgs) /\ "branch" \in Stages
    BY DEF ViewRow, Stages
  <2> QED
    BY <2>1, BranchCall
<1>4. s4 \in Progress /\ SyncRow(D, w, s4)
  BY NoCallAt
<1>5. TU!NoSync \in Progress /\ SyncRow(D, w, TU!NoSync)
  BY NothingShown
<1> HIDE DEF s, s1, s2, s3, s4
<1>6. s \in Progress /\ SyncRow(D, w, s)
  BY <1>1, <1>2, <1>3, <1>4, <1>5
<1> QED
  BY <1>6 DEF s

LEMMA PiStep ==
    ASSUME TurnInv, UNCHANGED <<db, co>>, view' \in SessionView, wmc' \in Memory,
           sync' \in Progress, pi' \in Session,
           spent' \in [faults : Nat, controls : Nat, epochs : Nat],
           ViewRow(db, view'), OwnedRow(db, wmc'), ShownRow(db, wmc', view'),
           SyncRow(db, wmc', sync'), PiRow(db, pi')
    PROVE  TurnInv'
<1>1. GoodRows(db') /\ CoordinatorRow(db', co')
  BY KnownRows
<1>2. TurnTypes'
  BY KnownRows DEF TurnTypes
<1>3. PiRows(db', view', wmc', sync', pi')
  BY DEF PiRows
<1> QED
  BY <1>1, <1>2, <1>3 DEF TurnInv

LEMMA KnownToPi ==
    ASSUME TurnInv
    PROVE  /\ view \in SessionView /\ wmc \in Memory /\ sync \in Progress /\ pi \in Session
           /\ ViewRow(db, view) /\ OwnedRow(db, wmc) /\ ShownRow(db, wmc, view)
           /\ SyncRow(db, wmc, sync) /\ PiRow(db, pi)
           /\ spent \in [faults : Nat, controls : Nat, epochs : Nat]
           /\ db \in Rows /\ TurnRows(db)
BY KnownRows DEF TurnInv, TurnTypes, PiRows

LEMMA BeginStep == TurnInv /\ TU!Begin => TurnInv'
<1> SUFFICES ASSUME TurnInv, TU!Begin PROVE TurnInv'
  OBVIOUS
<1> DEFINE w == TU!Adopted(wmc, view)
           u == [TU!NoTurn EXCEPT !.id = view.open, !.msg = view.msg, !.phase = "running",
                                  !.started = TRUE, !.stop = view.cancelled]
           lost == wmc.turn.id = 0 /\ view.open # 0 /\ view.triggers
           own == TU!At("owned", view, [TU!Call(w, view, "branch", w.turn.msg)
                                        EXCEPT !.owned = TRUE])
<1>1. /\ wmc' = w /\ view.epoch # 0 /\ UNCHANGED <<db, co, view, pi, spent>>
      /\ \/ sync' = own /\ TU!UnreportedDelivery(w, view)
         \/ sync' = TU!Onward(0, w, view)
  BY DEF TU!Begin
<1>2. w = wmc \/ (lost /\ w = [wmc EXCEPT !.turn = u])
  BY DEF TU!Adopted, TU!NoId
<1>3. /\ view \in SessionView /\ wmc \in Memory /\ pi \in Session /\ db \in Rows
      /\ ViewRow(db, view) /\ OwnedRow(db, wmc) /\ ShownRow(db, wmc, view) /\ PiRow(db, pi)
      /\ TurnRows(db)
  BY KnownToPi
<1>4. w \in Memory /\ OwnedRow(db, w) /\ ShownRow(db, w, view)
  <2>1. CASE w = wmc
    BY <1>3, <2>1
  <2>2. CASE lost /\ w = [wmc EXCEPT !.turn = u]
    <3>1. /\ u \in OwnedTurn /\ u.id = view.open /\ u.msg = view.msg /\ u.phase = "running"
          /\ ~u.entered
      BY <1>3 DEF TU!NoTurn, TU!NoId, OwnedTurn, SessionView
    <3> HIDE DEF u, w
    <3>2. w \in Memory /\ w.turn = u /\ w.next = wmc.next
      BY <1>3, <2>2, <3>1 DEF Memory
    <3>3. /\ view.open \in 1..MaxTurns /\ db.turns[view.open].st # "none"
          /\ db.turns[view.open].st \in {"started", "lost"}
          /\ view.msg \in 1..Len(db.msgs)
      BY <1>3, <2>2, StepsOf DEF ViewRow, ShownRow
    <3>4. view.open < wmc.next /\ wmc.next \in Nat
      <4>1. wmc.next \in Nat /\ view.open \in Nat
        BY <1>3 DEF Memory, SessionView
      <4>2. ~(wmc.next <= view.open)
        BY <1>3, <3>3 DEF OwnedRow
      <4> QED
        BY <4>1, <4>2
    <3>5. TU!OpenTurns(db) \subseteq {view.open}
      BY <1>1, <1>3, <2>2 DEF ShownRow, TurnRows
    <3>6. db.turns[view.open].st \notin Ends
      BY <3>3 DEF Ends
    <3>7. \A t \in 1..MaxTurns : w.next <= t => db.turns[t].st = "none"
      BY <1>3, <3>2 DEF OwnedRow
    <3>8. OwnedRow(db, w)
      BY <2>2, <3>1, <3>2, <3>3, <3>4, <3>5, <3>6, <3>7 DEF OwnedRow
    <3>9. ShownRow(db, w, view)
      BY <2>2, <3>1, <3>2 DEF ShownRow
    <3> QED
      BY <3>2, <3>8, <3>9
  <2> QED
    BY <1>2, <2>1, <2>2
<1> HIDE DEF w
<1>5. ASSUME TU!UnreportedDelivery(w, view) PROVE own \in Progress /\ SyncRow(db, w, own)
  <2>1. w.turn.msg \in 0..Len(db.msgs)
    BY <1>3, <1>4, <1>5, StepsOf DEF TU!UnreportedDelivery, TU!NoId, OwnedRow
  <2>2. "owned" \in Stages
    BY DEF Stages
  <2> QED
    BY <1>1, <1>3, <2>1, <2>2, BranchCall
<1>6. TU!Onward(0, w, view) \in Progress /\ SyncRow(db, w, TU!Onward(0, w, view))
  BY <1>1, <1>3, <1>4, OnwardFits
<1> HIDE DEF own
<1>7. sync' \in Progress /\ SyncRow(db, w, sync')
  BY <1>1, <1>5, <1>6
<1> QED
  BY <1>1, <1>3, <1>4, <1>7, KnownToPi, PiStep

LEMMA BranchAnsweredStep == TurnInv /\ TU!BranchAnswered => TurnInv'
<1> SUFFICES ASSUME TurnInv, TU!BranchAnswered PROVE TurnInv'
  OBVIOUS
<1> DEFINE c == sync.call
           ok == sync.reply = "ok"
           v1 == [sync.view EXCEPT !.status = "sent"]
           adopted == ok /\ ~c.owned /\ c.entry
           v == IF adopted THEN v1 ELSE sync.view
           e == wmc.turn.entered \/ (c.entry /\ wmc.turn.msg = c.msg)
           u == [wmc.turn EXCEPT !.entered = e]
           w1 == [wmc EXCEPT !.turn = u]
           q == IF c.entry THEN wmc.queued \ {c.msg} ELSE wmc.queued
           w2 == [wmc EXCEPT !.last = v.epoch, !.queued = q]
           w == IF ~ok THEN wmc ELSE IF c.owned THEN w1 ELSE w2
           s3 == TU!At("final", v, TU!Flush(w, v))
           s4 == TU!Onward(TU!StageOf(sync.at), w, v)
<1>1. /\ view \in SessionView /\ wmc \in Memory /\ pi \in Session /\ db \in Rows
      /\ sync \in Progress
      /\ ViewRow(db, view) /\ OwnedRow(db, wmc) /\ ShownRow(db, wmc, view) /\ PiRow(db, pi)
      /\ SyncRow(db, wmc, sync)
  BY KnownToPi
<1>2. /\ c.kind = "branch" /\ UNCHANGED <<db, co, pi, spent>>
      /\ wmc' = w /\ view' = IF view = sync.view THEN v ELSE view
      /\ sync' = TU!NoSync \/ (sync' = s3 /\ TU!CanFlush(w, v)) \/ sync' = s4
  <2>1. [wmc EXCEPT !.turn.entered = @ \/ (c.entry /\ wmc.turn.msg = c.msg)] = w1
    BY <1>1 DEF Memory
  <2> QED
    BY <2>1 DEF TU!BranchAnswered
<1>3. sync.view \in SessionView /\ sync.view.epoch # 0 /\ ViewRow(db, sync.view)
  <2>1. TU!NoSync.call.kind = "none"
    BY DEF TU!NoSync, TU!NoCall
  <2>2. sync # TU!NoSync
    BY <1>2, <2>1
  <2> QED
    BY <1>1, <2>2 DEF SyncRow, Progress
<1>4. /\ ok /\ c.entry => WasSent(db, c.msg) /\ c.msg # 0
      /\ ~c.owned => c.msg = sync.view.msg
  BY <1>1, <1>2 DEF SyncRow, CallRow
<1>5. /\ v1 \in SessionView /\ v1.epoch = sync.view.epoch /\ v1.msg = sync.view.msg
      /\ v1.triggers = sync.view.triggers /\ v1.open = sync.view.open /\ v1.status = "sent"
  BY <1>3 DEF SessionView
<1> HIDE DEF v1
<1>6. v \in SessionView /\ v.epoch # 0 /\ ViewRow(db, v)
  <2>1. CASE adopted
    BY <1>3, <1>4, <1>5, <2>1 DEF ViewRow
  <2>2. CASE ~adopted
    BY <1>3, <2>2
  <2> QED
    BY <2>1, <2>2
<1>7. /\ u \in OwnedTurn /\ u.id = wmc.turn.id /\ u.msg = wmc.turn.msg /\ u.end = wmc.turn.end
      /\ u.phase = wmc.turn.phase
      /\ u.entered => wmc.turn.entered \/ (c.entry /\ wmc.turn.msg = c.msg)
  <2>1. wmc.turn \in OwnedTurn
    BY <1>1 DEF Memory
  <2>2. e \in BOOLEAN
    BY <2>1 DEF OwnedTurn
  <2>3. e => wmc.turn.entered \/ (c.entry /\ wmc.turn.msg = c.msg)
    OBVIOUS
  <2> HIDE DEF e
  <2> QED
    BY <2>1, <2>2, <2>3 DEF OwnedTurn
<1> HIDE DEF u
<1>8. w1 \in Memory /\ w1.turn = u /\ w1.next = wmc.next
  BY <1>1, <1>7 DEF Memory
<1>9. w2 \in Memory /\ w2.turn = wmc.turn /\ w2.next = wmc.next
  <2>1. q \in SUBSET Nat /\ v.epoch \in Nat
    BY <1>1, <1>6 DEF Memory, SessionView
  <2> HIDE DEF q, v
  <2> QED
    BY <1>1, <2>1 DEF Memory
<1> HIDE DEF w1, w2
<1>10. w \in Memory /\ OwnedRow(db, w) /\ w.turn.id = wmc.turn.id
  <2>1. CASE ok /\ c.owned
    <3>1. w1.turn.entered => WasSent(db, w1.turn.msg)
      BY <1>1, <1>4, <1>7, <1>8, <2>1 DEF OwnedRow
    <3>2. OwnedRow(db, w1)
      BY <1>1, <1>7, <1>8, <3>1 DEF OwnedRow
    <3> QED
      BY <1>7, <1>8, <2>1, <3>2
  <2>2. CASE ok /\ ~c.owned
    <3>1. SameOwned(wmc, w2)
      BY <1>9 DEF SameOwned
    <3> QED
      BY <1>1, <1>9, <2>2, <3>1, OwnedKept
  <2>3. CASE ~ok
    BY <1>1, <2>3
  <2> QED
    BY <2>1, <2>2, <2>3
<1> HIDE DEF w
<1>11. ShownRow(db, w, view') /\ view' \in SessionView /\ ViewRow(db, view')
  <2>1. CASE view = sync.view /\ adopted
    BY <1>1, <1>2, <1>5, <1>6, <1>10, <2>1 DEF ShownRow
  <2>2. CASE ~(view = sync.view /\ adopted)
    <3>1. view' = view
      BY <1>2, <2>2
    <3> QED
      BY <1>1, <1>10, <3>1 DEF ShownRow
  <2> QED
    BY <2>1, <2>2
<1> HIDE DEF v
<1>12. sync' \in Progress /\ SyncRow(db, w, sync')
  <2>1. TU!NoSync \in Progress /\ SyncRow(db, w, TU!NoSync)
    BY <1>1, NothingShown
  <2>2. ASSUME TU!CanFlush(w, v) PROVE s3 \in Progress /\ SyncRow(db, w, s3)
    <3>1. /\ w.turn.id # 0 /\ "final" \in Stages
          /\ IF TU!MustStart(w) THEN TU!EntryKnown(w, v) ELSE w.turn.phase = "settled"
      BY <1>10, <2>2 DEF TU!CanFlush, OwnedRow, Stages
    <3> QED
      BY <1>1, <1>6, <1>10, <3>1, TurnCall
  <2>3. s4 \in Progress /\ SyncRow(db, w, s4)
    BY <1>1, <1>6, <1>10, OnwardFits
  <2> HIDE DEF s3, s4
  <2> QED
    BY <1>2, <2>1, <2>2, <2>3
<1>13. wmc' = w /\ pi' \in Session /\ PiRow(db, pi') /\ UNCHANGED <<db, co>>
       /\ spent' \in [faults : Nat, controls : Nat, epochs : Nat]
  BY <1>1, <1>2, KnownToPi
<1> QED
  BY <1>10, <1>11, <1>12, <1>13, PiStep

LEMMA TurnAnsweredStep == TurnInv /\ TU!TurnAnswered => TurnInv'
<1> SUFFICES ASSUME TurnInv, TU!TurnAnswered PROVE TurnInv'
  OBVIOUS
<1> DEFINE c == sync.call
           stage == TU!StageOf(sync.at)
           started == [wmc EXCEPT !.turn.started = TRUE]
           refused == [wmc EXCEPT !.turn.stop = TRUE]
           ended   == [wmc EXCEPT !.turn = TU!NoTurn]
           Shut(v) == IF v.open = c.turn THEN [v EXCEPT !.open = TU!NoId] ELSE v
           s1 == TU!Onward(stage, ended, Shut(sync.view))
           s2 == TU!Onward(stage, wmc, sync.view)
           s3 == TU!Onward(stage, refused, sync.view)
           s4 == TU!Onward(stage, started, sync.view)
           s5 == TU!At(sync.at, sync.view, TU!Flush(started, sync.view))
<1>1. /\ view \in SessionView /\ wmc \in Memory /\ pi \in Session /\ db \in Rows
      /\ sync \in Progress
      /\ ViewRow(db, view) /\ OwnedRow(db, wmc) /\ ShownRow(db, wmc, view) /\ PiRow(db, pi)
      /\ SyncRow(db, wmc, sync)
  BY KnownToPi
<1>2. /\ c.kind \in {"started", "ended"} /\ sync.reply # "none"
      /\ UNCHANGED <<db, co, pi, spent>>
  BY DEF TU!TurnAnswered
<1>3. \/ sync' = TU!NoSync /\ UNCHANGED <<wmc, view>>
      \/ /\ c.kind = "ended" /\ sync.reply # "error"
         /\ wmc' = ended /\ view' = Shut(view) /\ sync' = s1
      \/ sync' = s2 /\ UNCHANGED <<wmc, view>>
      \/ wmc' = refused /\ sync' = s3 /\ UNCHANGED view
      \/ wmc' = started /\ sync' = s4 /\ UNCHANGED view
      \/ wmc' = started /\ sync' = s5 /\ UNCHANGED view /\ wmc.turn.phase = "settled"
  BY DEF TU!TurnAnswered
<1>4. /\ sync.view \in SessionView /\ sync.view.epoch # 0 /\ ViewRow(db, sync.view)
      /\ c.turn # 0 /\ c.turn = wmc.turn.id
  <2>1. TU!NoSync.call.kind = "none"
    BY DEF TU!NoSync, TU!NoCall
  <2>2. sync # TU!NoSync
    BY <1>2, <2>1
  <2> QED
    BY <1>1, <1>2, <2>2 DEF SyncRow, CallRow, Progress
<1>5. sync.at \in Stages
  BY <1>1 DEF Progress, Stages
<1>6. started \in Memory /\ SameOwned(wmc, started) /\ started.turn.started
  BY <1>1 DEF Memory, OwnedTurn, SameOwned
<1>7. refused \in Memory /\ SameOwned(wmc, refused)
  BY <1>1 DEF Memory, OwnedTurn, SameOwned
<1>8. OwnedRow(db, started) /\ OwnedRow(db, refused)
      /\ ShownRow(db, started, view) /\ ShownRow(db, refused, view)
  BY <1>1, <1>6, <1>7, OwnedKept
<1>9. /\ ended \in Memory /\ ended.turn = TU!NoTurn /\ ended.next = wmc.next
      /\ TU!NoTurn.id = 0 /\ TU!NoTurn.msg = 0 /\ TU!NoTurn.phase = "none" /\ ~TU!NoTurn.entered
  BY <1>1 DEF Memory, OwnedTurn, TU!NoTurn, TU!NoId
<1> HIDE DEF started, refused, ended
<1>10. OwnedRow(db, ended)
  BY <1>1, <1>9 DEF OwnedRow
<1>11. ASSUME NEW x \in SessionView, ViewRow(db, x)
       PROVE  /\ Shut(x) \in SessionView /\ ViewRow(db, Shut(x)) /\ Shut(x).epoch = x.epoch
              /\ Shut(x).open # 0 => Shut(x).open = x.open /\ x.open # c.turn
              /\ Shut(x).status = x.status
  <2> DEFINE y == [x EXCEPT !.open = TU!NoId]
  <2>1. /\ y \in SessionView /\ y.epoch = x.epoch /\ y.msg = x.msg /\ y.status = x.status
        /\ y.triggers = x.triggers /\ y.open = 0
    BY DEF SessionView, TU!NoId
  <2> HIDE DEF y
  <2>2. ViewRow(db, y)
    BY <1>11, <2>1 DEF ViewRow
  <2>3. Shut(x) = IF x.open = c.turn THEN y ELSE x
    BY DEF y
  <2> HIDE DEF Shut
  <2>4. CASE x.open = c.turn
    BY <2>1, <2>2, <2>3, <2>4
  <2>5. CASE x.open # c.turn
    BY <1>11, <2>3, <2>5
  <2> QED
    BY <2>4, <2>5
<1> HIDE DEF Shut
<1>12. ASSUME c.kind = "ended", sync.reply # "error" PROVE ShownRow(db, ended, Shut(view))
  <2>1. Shut(view).open # 0 => db.turns[Shut(view).open].st \in {"started", "lost"}
    BY <1>1, <1>4, <1>11 DEF ShownRow
  <2>2. db.turns[c.turn].st # "started"
    BY <1>1, <1>2, <1>12 DEF SyncRow, CallRow
  <2>3. TU!OpenTurns(db) = {}
    BY <1>1, <1>4, <2>2, OpenTurnsOf DEF OwnedRow
  <2> QED
    BY <2>1, <2>3 DEF ShownRow
<1>13. s1 \in Progress /\ SyncRow(db, ended, s1)
  BY <1>1, <1>4, <1>9, <1>10, <1>11, OnwardFits
<1>14. s2 \in Progress /\ SyncRow(db, wmc, s2)
  BY <1>1, <1>4, OnwardFits
<1>15. s3 \in Progress /\ SyncRow(db, refused, s3)
  BY <1>1, <1>4, <1>7, <1>8, OnwardFits
<1>16. s4 \in Progress /\ SyncRow(db, started, s4)
  BY <1>1, <1>4, <1>6, <1>8, OnwardFits
<1>17. ASSUME wmc.turn.phase = "settled" PROVE s5 \in Progress /\ SyncRow(db, started, s5)
  <2>1. ~TU!MustStart(started) /\ started.turn.phase = "settled" /\ started.turn.id # 0
    BY <1>4, <1>6, <1>17 DEF SameOwned, TU!MustStart
  <2> QED
    BY <1>1, <1>4, <1>5, <1>6, <1>8, <2>1, TurnCall
<1>18. TU!NoSync \in Progress /\ SyncRow(db, wmc, TU!NoSync)
  BY <1>1, NothingShown
<1> HIDE DEF s1, s2, s3, s4, s5
<1>19. /\ wmc' \in Memory /\ OwnedRow(db, wmc') /\ sync' \in Progress
       /\ SyncRow(db, wmc', sync') /\ view' \in SessionView /\ ViewRow(db, view')
       /\ ShownRow(db, wmc', view')
  <2>1. CASE UNCHANGED <<wmc, view>> /\ sync' \in {TU!NoSync, s2}
    <3>1. wmc' = wmc /\ view' = view
      BY <2>1
    <3> QED
      BY <1>1, <1>14, <1>18, <2>1, <3>1
  <2>2. CASE /\ c.kind = "ended" /\ sync.reply # "error"
             /\ wmc' = ended /\ view' = Shut(view) /\ sync' = s1
    BY <1>1, <1>9, <1>10, <1>11, <1>12, <1>13, <2>2
  <2>3. CASE wmc' = refused /\ sync' = s3 /\ UNCHANGED view
    BY <1>1, <1>7, <1>8, <1>15, <2>3
  <2>4. CASE wmc' = started /\ sync' = s4 /\ UNCHANGED view
    BY <1>1, <1>6, <1>8, <1>16, <2>4
  <2>5. CASE wmc' = started /\ sync' = s5 /\ UNCHANGED view /\ wmc.turn.phase = "settled"
    BY <1>1, <1>6, <1>8, <1>17, <2>5
  <2> QED
    BY <1>3, <2>1, <2>2, <2>3, <2>4, <2>5
<1> QED
  BY <1>1, <1>2, <1>19, KnownToPi, PiStep

LEMMA DeliverStep == TurnInv /\ TU!Deliver => TurnInv'
<1> SUFFICES ASSUME TurnInv, TU!Deliver PROVE TurnInv'
  OBVIOUS
<1> DEFINE v == sync.view
           m == v.msg
           queued == [wmc EXCEPT !.queued = @ \cup {m}]
           u == [TU!NoTurn EXCEPT !.id = wmc.next, !.msg = m, !.phase = "delivering"]
           owning == [queued EXCEPT !.next = @ + 1, !.turn = u]
           w == IF ~v.triggers THEN queued ELSE owning
           s1 == TU!At("present", v, TU!Call(wmc, v, "branch", m))
           s2 == TU!At("sent", v, TU!Call(w, v, "branch", m))
           q == [pi EXCEPT !.flight = m]
<1>1. /\ view \in SessionView /\ wmc \in Memory /\ pi \in Session /\ db \in Rows
      /\ sync \in Progress
      /\ ViewRow(db, view) /\ OwnedRow(db, wmc) /\ ShownRow(db, wmc, view) /\ PiRow(db, pi)
      /\ SyncRow(db, wmc, sync)
  BY KnownToPi
<1>2. /\ UNCHANGED <<db, co, view, spent>> /\ sync.at = "deliver"
      /\ \/ sync' = TU!NoSync /\ UNCHANGED <<wmc, pi>>
         \/ sync' = s1 /\ wmc' = queued /\ UNCHANGED pi
         \/ sync' = s2 /\ wmc' = w /\ pi' = q /\ view = v /\ TU!CanDeliver(wmc, v)
  BY DEF TU!Deliver
<1>3. v \in SessionView /\ v.epoch # 0 /\ ViewRow(db, v) /\ m \in 0..Len(db.msgs) /\ m \in Nat
  <2>1. TU!NoSync.at = "idle"
    BY DEF TU!NoSync
  <2>2. sync # TU!NoSync
    BY <1>2, <2>1
  <2>3. v \in SessionView /\ v.epoch # 0 /\ ViewRow(db, v)
    BY <1>1, <2>2 DEF SyncRow, Progress
  <2> QED
    BY <2>3 DEF ViewRow, SessionView
<1> HIDE DEF v
<1>4. queued \in Memory /\ SameOwned(wmc, queued) /\ queued.next = wmc.next
  BY <1>1, <1>3 DEF Memory, SameOwned
<1>5. OwnedRow(db, queued) /\ ShownRow(db, queued, view)
  BY <1>1, <1>4, OwnedKept
<1> HIDE DEF queued
<1>6. q \in Session /\ PiRow(db, q)
  BY <1>1, <1>3 DEF Session, PiRow
<1>7. s1 \in Progress /\ SyncRow(db, queued, s1)
  <2>1. "present" \in Stages
    BY DEF Stages
  <2> QED
    BY <1>1, <1>3, <2>1, BranchCall
<1>8. s2 \in Progress /\ SyncRow(db, w, s2)
  <2>1. "sent" \in Stages
    BY DEF Stages
  <2> QED
    BY <1>1, <1>3, <2>1, BranchCall
<1>9. ASSUME view = v, TU!CanDeliver(wmc, v)
      PROVE  w \in Memory /\ OwnedRow(db, w) /\ ShownRow(db, w, view)
  <2>1. CASE ~v.triggers
    BY <1>4, <1>5, <2>1
  <2>2. CASE v.triggers
    <3>1. wmc.turn.id = 0 /\ m # 0 /\ v.status = "pending" /\ wmc.next <= MaxTurns
      BY <1>9, <2>2 DEF TU!CanDeliver, TU!NoId
    <3>2. wmc.next \in Nat \ {0} /\ wmc.next \in 1..MaxTurns
      BY <1>1, <3>1, SessionDataAssumption DEF Memory
    <3>3. TU!OpenTurns(db) = {}
      BY <1>1, <1>3, <1>9, <3>1 DEF ShownRow
    <3>4. /\ u \in OwnedTurn /\ u.id = wmc.next /\ u.msg = m /\ u.phase = "delivering"
          /\ ~u.entered
      BY <1>3, <3>2 DEF TU!NoTurn, TU!NoId, OwnedTurn
    <3> HIDE DEF u
    <3>5. owning \in Memory /\ owning.turn = u /\ owning.next = wmc.next + 1
      <4> DEFINE n == wmc.next + 1
      <4>1. owning = [queued EXCEPT !.next = n, !.turn = u]
        BY <1>4
      <4>2. n \in Nat \ {0}
        BY <3>2
      <4> HIDE DEF n, owning
      <4>3. owning \in Memory /\ owning.turn = u /\ owning.next = n
        BY <1>4, <3>4, <4>1, <4>2 DEF Memory
      <4> QED
        BY <4>3 DEF n
    <3> HIDE DEF owning
    <3>6. db.turns[wmc.next].st = "none"
      BY <1>1, <3>2 DEF OwnedRow
    <3>7. \A t \in 1..MaxTurns : wmc.next + 1 <= t => db.turns[t].st = "none"
      BY <1>1, <3>2 DEF OwnedRow
    <3>8. m \in 1..Len(db.msgs)
      BY <1>1, <1>3, <3>1, StepsOf
    <3>9. db.turns[wmc.next].st \notin Ends /\ wmc.next # 0 /\ wmc.next < wmc.next + 1
      BY <3>2, <3>6 DEF Ends
    <3>10. OwnedRow(db, owning)
      BY <3>2, <3>3, <3>4, <3>5, <3>7, <3>8, <3>9 DEF OwnedRow
    <3>11. ShownRow(db, owning, view)
      BY <1>1, <3>1, <3>4, <3>5, <3>9 DEF ShownRow
    <3> QED
      BY <2>2, <3>5, <3>10, <3>11
  <2> QED
    BY <2>1, <2>2
<1>10. TU!NoSync \in Progress /\ SyncRow(db, wmc, TU!NoSync)
  BY <1>1, NothingShown
<1> HIDE DEF w, s1, s2, q
<1>11. /\ sync' \in Progress /\ wmc' \in Memory /\ pi' \in Session /\ OwnedRow(db, wmc')
       /\ ShownRow(db, wmc', view) /\ SyncRow(db, wmc', sync') /\ PiRow(db, pi')
  <2>1. CASE sync' = TU!NoSync /\ UNCHANGED <<wmc, pi>>
    <3>1. wmc' = wmc /\ pi' = pi
      BY <2>1
    <3> QED
      BY <1>1, <1>10, <2>1, <3>1
  <2>2. CASE sync' = s1 /\ wmc' = queued /\ UNCHANGED pi
    BY <1>1, <1>4, <1>5, <1>7, <2>2
  <2>3. CASE sync' = s2 /\ wmc' = w /\ pi' = q /\ view = v /\ TU!CanDeliver(wmc, v)
    BY <1>6, <1>8, <1>9, <2>3
  <2> QED
    BY <1>2, <2>1, <2>2, <2>3
<1>12. view' = view /\ UNCHANGED <<db, co>> /\ spent' \in [faults : Nat, controls : Nat, epochs : Nat]
  BY <1>2, KnownToPi
<1> QED
  BY <1>1, <1>11, <1>12, PiStep

LEMMA AbortStep == TurnInv /\ TU!Abort => TurnInv'
<1> SUFFICES ASSUME TurnInv, TU!Abort PROVE TurnInv'
  OBVIOUS
<1> DEFINE w == [wmc EXCEPT !.turn.aborted = TRUE]
<1>1. wmc' = w /\ UNCHANGED <<db, co, view, sync, pi, spent>>
  BY DEF TU!Abort
<1>2. w \in Memory /\ SameOwned(wmc, w)
  BY KnownToPi DEF Memory, OwnedTurn, SameOwned
<1> HIDE DEF w
<1>3. OwnedRow(db, w) /\ ShownRow(db, w, view) /\ SyncRow(db, w, sync)
  BY <1>2, KnownToPi, OwnedKept
<1> QED
  BY <1>1, <1>2, <1>3, KnownToPi, PiStep

LEMMA PiAppendStep == TurnInv /\ TU!PiAppend => TurnInv'
<1> SUFFICES ASSUME TurnInv, TU!PiAppend PROVE TurnInv'
  OBVIOUS
<1> DEFINE phase == IF wmc.turn.phase = "delivering" THEN "running" ELSE wmc.turn.phase
           w == [wmc EXCEPT !.turn.phase = phase]
           busy == IF wmc.turn.phase = "delivering" THEN "model" ELSE pi.busy
           p == [pi EXCEPT !.flight = TU!NoId, !.input = pi.flight,
                           !.branch = @ \cup {pi.flight}, !.log = @ \cup {pi.flight},
                           !.busy = busy]
<1>1. wmc' = w /\ pi' = p /\ pi.flight # 0 /\ UNCHANGED <<db, co, view, sync, spent>>
  BY DEF TU!PiAppend, TU!NoId
<1>2. /\ view \in SessionView /\ wmc \in Memory /\ pi \in Session /\ db \in Rows
      /\ sync \in Progress
      /\ ViewRow(db, view) /\ OwnedRow(db, wmc) /\ ShownRow(db, wmc, view) /\ PiRow(db, pi)
      /\ SyncRow(db, wmc, sync)
  BY KnownToPi
<1>3. p \in Session
  BY <1>2 DEF Session, TU!NoId
<1>4. PiRow(db, p)
  <2>1. /\ p.branch = pi.branch \cup {pi.flight} /\ p.log = pi.log \cup {pi.flight}
        /\ p.flight = 0
    BY <1>2 DEF Session, TU!NoId
  <2>2. Len(db.msgs) \in Nat
    BY <1>2, StepsOf
  <2> QED
    BY <1>1, <1>2, <2>1, <2>2 DEF PiRow
<1>5. /\ phase \in {"none", "delivering", "running", "settled"}
      /\ (phase = "settled" <=> wmc.turn.phase = "settled")
      /\ (phase = "none" <=> wmc.turn.phase = "none")
  BY <1>2 DEF Memory, OwnedTurn
<1> HIDE DEF phase
<1>6. /\ w \in Memory /\ w.next = wmc.next /\ w.turn.id = wmc.turn.id
      /\ w.turn.msg = wmc.turn.msg /\ w.turn.phase = phase /\ w.turn.end = wmc.turn.end
      /\ w.turn.entered = wmc.turn.entered
  BY <1>2, <1>5 DEF Memory, OwnedTurn
<1> HIDE DEF w, p
<1>7. OwnedRow(db, w)
  BY <1>2, <1>5, <1>6 DEF OwnedRow
<1>8. ShownRow(db, w, view)
  BY <1>2, <1>6 DEF ShownRow
<1>9. SyncRow(db, w, sync)
  BY <1>2, <1>5, <1>6 DEF SyncRow, CallRow
<1> QED
  BY <1>1, <1>2, <1>3, <1>4, <1>6, <1>7, <1>8, <1>9, KnownToPi, PiStep

LEMMA ChatStep == TurnInv /\ TU!Chat => TurnInv'
<1> SUFFICES ASSUME TurnInv, TU!Chat PROVE TurnInv'
  OBVIOUS
<1> DEFINE p == [pi EXCEPT !.busy = "model", !.input = TU!NoId]
<1>1. pi' = p /\ UNCHANGED <<db, co, view, wmc, sync, spent>>
  BY DEF TU!Chat
<1>2. p \in Session /\ PiRow(db, p)
  BY KnownToPi DEF Session, PiRow, TU!NoId
<1> QED
  BY <1>1, <1>2, KnownToPi, PiStep

LEMMA PiSettleStep == TurnInv /\ TU!PiSettle => TurnInv'
<1> SUFFICES ASSUME TurnInv, TU!PiSettle PROVE TurnInv'
  OBVIOUS
<1> DEFINE p == [pi EXCEPT !.busy = "idle"]
           W(why) == [wmc EXCEPT !.turn.phase = "settled", !.turn.end = why]
<1>1. PICK why \in Ends : wmc' = IF wmc.turn.phase = "running" THEN W(why) ELSE wmc
  BY DEF TU!PiSettle, Ends
<1>2. pi' = p /\ UNCHANGED <<db, co, view, sync, spent>>
  BY DEF TU!PiSettle
<1>3. /\ view \in SessionView /\ wmc \in Memory /\ db \in Rows /\ sync \in Progress
      /\ ViewRow(db, view) /\ OwnedRow(db, wmc) /\ ShownRow(db, wmc, view)
      /\ SyncRow(db, wmc, sync)
  BY KnownToPi
<1>4. p \in Session /\ PiRow(db, p)
  BY KnownToPi DEF Session, PiRow
<1>5. /\ wmc' \in Memory /\ OwnedRow(db, wmc') /\ ShownRow(db, wmc', view)
      /\ SyncRow(db, wmc', sync)
  <2>1. CASE wmc.turn.phase = "running"
    <3> DEFINE w == W(why)
    <3>1. /\ w \in Memory /\ w.next = wmc.next /\ w.turn.id = wmc.turn.id
          /\ w.turn.msg = wmc.turn.msg /\ w.turn.phase = "settled" /\ w.turn.end = why
          /\ w.turn.entered = wmc.turn.entered
      BY <1>3 DEF Memory, OwnedTurn
    <3>2. wmc' = w /\ why # "none"
      BY <1>1, <2>1 DEF Ends
    <3> HIDE DEF w
    <3>3. OwnedRow(db, w)
      BY <1>3, <2>1, <3>1, <3>2 DEF OwnedRow
    <3>4. ShownRow(db, w, view)
      BY <1>3, <3>1 DEF ShownRow
    <3>5. SyncRow(db, w, sync)
      BY <1>3, <2>1, <3>1 DEF SyncRow, CallRow
    <3> QED
      BY <3>1, <3>2, <3>3, <3>4, <3>5
  <2>2. CASE wmc.turn.phase # "running"
    BY <1>1, <1>3, <2>2
  <2> QED
    BY <2>1, <2>2
<1> QED
  BY <1>2, <1>3, <1>4, <1>5, KnownToPi, PiStep

LEMMA MoveBranchStep == TurnInv /\ TU!MoveBranch => TurnInv'
<1> SUFFICES ASSUME TurnInv, TU!MoveBranch PROVE TurnInv'
  OBVIOUS
<1> DEFINE w == [wmc EXCEPT !.last = 0]
<1>1. PICK b \in SUBSET pi.log : pi' = [pi EXCEPT !.branch = b]
  BY DEF TU!MoveBranch
<1>2. /\ wmc' = w /\ UNCHANGED <<db, co, view, sync>>
      /\ spent' \in [faults : Nat, controls : Nat, epochs : Nat]
  BY Spends DEF TU!MoveBranch
<1>3. pi' \in Session /\ PiRow(db, pi')
  BY <1>1, KnownToPi DEF Session, PiRow
<1>4. w \in Memory /\ SameOwned(wmc, w)
  BY KnownToPi DEF Memory, SameOwned
<1> HIDE DEF w
<1>5. OwnedRow(db, w) /\ ShownRow(db, w, view) /\ SyncRow(db, w, sync)
  BY <1>4, KnownToPi, OwnedKept
<1> QED
  BY <1>2, <1>3, <1>4, <1>5, KnownToPi, PiStep

LEMMA RestartPiStep == TurnInv /\ TU!RestartPi => TurnInv'
<1> SUFFICES ASSUME TurnInv, TU!RestartPi PROVE TurnInv'
  OBVIOUS
<1> DEFINE w == [turn |-> TU!NoTurn, next |-> wmc.next, queued |-> {}, last |-> 0,
                 fenced |-> FALSE]
<1>1. /\ wmc' = w /\ view' = TU!NoView /\ sync' = TU!NoSync /\ UNCHANGED <<db, co>>
      /\ pi' = [pi EXCEPT !.busy = "idle", !.flight = TU!NoId]
      /\ spent' \in [faults : Nat, controls : Nat, epochs : Nat]
  BY Spends DEF TU!RestartPi
<1>2. w \in Memory /\ w.turn = TU!NoTurn /\ w.next = wmc.next
  BY KnownToPi DEF Memory, OwnedTurn, TU!NoTurn, TU!NoId
<1> HIDE DEF w
<1>3. TU!NoTurn.id = 0 /\ TU!NoTurn.msg = 0 /\ TU!NoTurn.phase = "none" /\ ~TU!NoTurn.entered
  BY DEF TU!NoTurn, TU!NoId
<1>4. OwnedRow(db, w)
  BY <1>2, <1>3, KnownToPi DEF OwnedRow
<1>5. /\ TU!NoView \in SessionView /\ ViewRow(db, TU!NoView)
      /\ TU!NoView.open = 0 /\ TU!NoView.epoch = 0
      /\ TU!NoSync \in Progress /\ SyncRow(db, w, TU!NoSync)
  BY KnownToPi, NothingShown
<1>6. ShownRow(db, w, TU!NoView)
  BY <1>5 DEF ShownRow
<1>7. pi' \in Session /\ PiRow(db, pi')
  <2>1. 0 \in 0..Len(db.msgs)
    BY KnownToPi, StepsOf
  <2> QED
    BY <1>1, <2>1, KnownToPi DEF Session, PiRow, TU!NoId
<1> QED
  BY <1>1, <1>2, <1>4, <1>5, <1>6, <1>7, PiStep

-----------------------------------------------------------------------------
(* The invariant.                                                          *)

LEMMA TurnNextStep == TurnInv /\ [TU!Next]_turnsVars => TurnInv'
<1> SUFFICES ASSUME TurnInv, [TU!Next]_turnsVars PROVE TurnInv'
  OBVIOUS
<1>1. CASE TU!Next
  BY <1>1, ConnectStep, DetachStep, PublishStep, ServeStep, LoseConnectionStep,
     RestartServerStep, BeginStep, BranchAnsweredStep, TurnAnsweredStep, DeliverStep,
     AbortStep, PiAppendStep, ChatStep, PiSettleStep, MoveBranchStep, RestartPiStep,
     ParkStep, SubmitStep, CompleteStep, RemindStep, PauseStep, ResumeStep, CancelStep,
     ExpireStep DEF TU!Next
<1>2. CASE UNCHANGED turnsVars
  BY <1>2 DEF turnsVars, TurnInv, TurnTypes
<1> QED
  BY <1>1, <1>2

\* At first one prompt may be pending, and nothing was reported.
LEMMA TurnInvInit == TU!Init => TurnInv
<1> SUFFICES ASSUME TU!Init PROVE TurnInv
  OBVIOUS
<1> DEFINE x == TU!Row("step", "initial", 0, TU!NoId, TRUE)
           none == [msg |-> TU!NoId, st |-> "none"]
<1>1. PICK asks \in BOOLEAN :
          db = [run |-> IF asks THEN "handoff" ELSE "running",
                req |-> IF asks THEN "pending" ELSE "settled",
                msgs |-> IF asks THEN <<x>> ELSE <<>>,
                turns |-> [t \in TU!Turns |-> none],
                paused |-> FALSE, rev |-> 0, on |-> FALSE, anchor |-> FALSE,
                attempt |-> "waiting", stop |-> FALSE, watch |-> FALSE,
                err |-> FALSE, busy |-> FALSE]
  BY DEF TU!Init
<1>2. /\ co = TU!NoCoordinator /\ view = TU!NoView /\ sync = TU!NoSync
      /\ wmc = [turn |-> TU!NoTurn, next |-> 1, queued |-> {}, last |-> 0, fenced |-> FALSE]
      /\ pi = [branch |-> {}, log |-> {}, busy |-> "idle", flight |-> TU!NoId,
               input |-> TU!NoId]
      /\ spent = [faults |-> 0, controls |-> 0, epochs |-> 0]
  BY DEF TU!Init
<1>3. x \in Message /\ x.why = "initial" /\ none \in TurnRow /\ none.st = "none"
  BY DEF Message, Reasons, TU!Row, TU!NoId, TurnRow
<1> HIDE DEF x, none
<1>4. <<x>> \in Seq(Message) /\ <<>> \in Seq(Message)
  BY <1>3
<1>5. /\ db.run \in {"handoff", "running"} /\ db.req \in {"pending", "settled"}
      /\ (db.req = "pending" => db.run = "handoff") /\ db.msgs \in {<<x>>, <<>>}
      /\ db.turns = [t \in 1..MaxTurns |-> none]
      /\ ~db.on /\ ~db.err /\ ~db.busy
  BY <1>1 DEF TU!Turns
<1>6. db \in Rows
  BY <1>1, <1>3, <1>4 DEF Rows, TU!Turns
<1>7. \A m \in 1..Len(db.msgs) : db.msgs[m] = x
  <2>1. CASE db.msgs = <<x>>
    BY <2>1
  <2>2. CASE db.msgs = <<>>
    BY <2>2
  <2> QED
    BY <1>5, <2>1, <2>2
<1>8. (\A t \in 1..MaxTurns : db.turns[t].st = "none") /\ TU!OpenTurns(db) = {}
  BY <1>3, <1>5 DEF TU!OpenTurns, TU!Turns
<1>9. TU!Reminders(db) = {}
  BY <1>3, <1>6, <1>7, StepsOf DEF TU!Reminders
<1>10. GoodRows(db)
  <2>1. TurnRows(db) /\ ReminderRows(db)
    BY <1>8, <1>9 DEF TurnRows, ReminderRows
  <2>2. RunRow(db)
    BY <1>5 DEF RunRow, TU!Pending
  <2> QED
    BY <1>6, <2>1, <2>2 DEF GoodRows
<1>11. CoordinatorRow(db, co) /\ co \in Coordinator
  <2>1. co.epoch = 0 /\ co \in Coordinator
    BY <1>2 DEF TU!NoCoordinator, Coordinator
  <2> QED
    BY <1>2, <1>8, <1>10, <2>1, NothingMeasured
<1>12. /\ wmc \in Memory /\ wmc.turn = TU!NoTurn /\ wmc.next = 1
       /\ TU!NoTurn.id = 0 /\ TU!NoTurn.msg = 0 /\ TU!NoTurn.phase = "none"
       /\ ~TU!NoTurn.entered
  BY <1>2 DEF Memory, OwnedTurn, TU!NoTurn, TU!NoId
<1>13. OwnedRow(db, wmc)
  BY <1>8, <1>12 DEF OwnedRow
<1>14. /\ view \in SessionView /\ ViewRow(db, view) /\ view.open = 0 /\ view.epoch = 0
       /\ sync \in Progress /\ SyncRow(db, wmc, sync)
  BY <1>2, <1>6, NothingShown
<1>15. ShownRow(db, wmc, view)
  BY <1>14 DEF ShownRow
<1>16. pi \in Session /\ PiRow(db, pi)
  <2>1. 0 \in 0..Len(db.msgs)
    BY <1>6, StepsOf
  <2> QED
    BY <1>2, <2>1 DEF Session, PiRow, TU!NoId
<1>17. spent \in [faults : Nat, controls : Nat, epochs : Nat]
  BY <1>2
<1>18. TurnTypes
  BY <1>6, <1>11, <1>12, <1>14, <1>16, <1>17 DEF TurnTypes
<1>19. PiRows(db, view, wmc, sync, pi)
  BY <1>13, <1>14, <1>15, <1>16 DEF PiRows
<1> QED
  BY <1>10, <1>11, <1>18, <1>19 DEF TurnInv

\* The rows, the server's entry of the connected Pi, what Pi knows and what it
\* was told stay in agreement through every call, lost answer, restart and
\* decision of the user (reportWorkflowBranch, reportWorkflowTurn, synchronize).
THEOREM TurnsAgree == Spec => []TurnInv
<1>1. Init => TurnInv
  BY TurnInvInit DEF Init
<1>2. TurnInv /\ [Next]_vars => TurnInv'
  <2> SUFFICES ASSUME TurnInv, [Next]_vars PROVE TurnInv'
    OBVIOUS
  <2>1. [TU!Next]_turnsVars
    BY DEF Next, vars, TurnsStep, SettingsStep, FollowUpStep, RecordingStep, PruneStep,
       ViewStep, HeadlessStep, ReplayStep
  <2> QED
    BY <2>1, TurnNextStep
<1> QED
  BY <1>1, <1>2, PTL DEF Spec

\* The clock of an attempt (attempt_time intervals) is open exactly while a
\* connected Pi works for the request, AttemptTime throws nothing, and no report
\* of Pi contradicts the rows but a start whose prompt was reopened
\* (startTurn, endTurn).
THEOREM ClockMatchesTurnHolds == Spec => []ClockMatchesTurn
<1>1. TurnInv => ClockMatchesTurn
  <2> SUFFICES ASSUME TurnInv PROVE ClockMatchesTurn
    OBVIOUS
  <2>1. GoodRows(db) /\ RunRow(db) /\ CoordinatorRow(db, co) /\ ~db.err
    BY KnownRows DEF RunRow
  <2>2. ASSUME TU!Asking, TU!Served(sync.call).D.err
        PROVE  /\ sync.call.kind = "started" /\ sync.call.turn = wmc.turn.id
               /\ db.msgs[sync.call.msg].why = "resumed"
               /\ db.msgs[sync.call.msg].status = "pending"
    <3> DEFINE s == TU!Served(sync.call)
    <3>1. s = [D |-> db, co |-> co, reply |-> "error"] \/ ReportFits(sync.call, s)
      BY <2>2, ReportServed
    <3>2. s.D.err
      BY <2>2
    <3> HIDE DEF s
    <3>3. ReportFits(sync.call, s)
      BY <2>1, <3>1, <3>2
    <3> QED
      BY <3>2, <3>3 DEF ReportFits
  <2>3. TU!ReportsFit
    BY <2>2 DEF TU!ReportsFit
  <2>4. /\ db.on /\ TU!Pending(db) =>
              TU!OpenStepTurn(db) /\ ~db.paused /\ db.anchor /\ co.epoch # 0
        /\ co.reported /\ co.active /\ TU!Pending(db) /\ ~db.paused /\ TU!OpenStepTurn(db)
              => db.on
    BY <2>1 DEF RunRow, CoordinatorRow
  <2> QED
    BY <2>1, <2>3, <2>4 DEF ClockMatchesTurn, TU!ClockMatchesTurn
<1> QED
  BY <1>1, TurnsAgree, PTL

\* The turns are counted as sets are.
LEMMA SameTurnCardinality == \A S : TU!Cardinality(S) = Cardinality(S)
BY DEF TU!Cardinality, Cardinality

\* Reminders name different turns that ended without a submission, and the turn
\* that calls for the next one is none of them; a run that fails for want of a
\* submission had more of them than MAX_SUBMISSION_REMINDERS
\* (reconcileSubmissionReminders).
LEMMA RemindersSpent ==
    ASSUME TurnInv, TU!Remind, TU!Over(db')
    PROVE  TU!Cardinality({t \in TU!Turns : db.turns[t].st \in {"completed", "error"}})
               > MaxReminders
<1> DEFINE Done == {t \in TU!Turns : db.turns[t].st \in {"completed", "error"}}
           R == TU!Reminders(db)
           u == TU!Unproductive(db)
           f == [m \in R |-> db.msgs[m].turn]
<1>1. u # 0 /\ TU!Pending(db)
  BY DEF TU!Remind, TU!NoId
<1>2. db \in Rows /\ RunRow(db) /\ ReminderRows(db) /\ GoodRows(db)
  BY KnownRows
<1>3. Cardinality(R) >= MaxReminders
  <2>1. CASE db' = TU!EnsurePrompt(db, "reminder", u)
    <3>1. db'.run = db.run
      <4> DEFINE E == [db EXCEPT !.msgs = Append(@, TU!Row("step", "reminder", db.rev, u, TRUE))]
      <4>1. db' = db \/ db' = E
        BY <2>1 DEF TU!EnsurePrompt
      <4>2. E.run = db.run
        BY <1>2 DEF Rows
      <4> QED
        BY <4>1, <4>2
    <3> QED
      BY <1>1, <1>2, <3>1 DEF RunRow, TU!Over
  <2>2. TU!Cardinality(R) >= MaxReminders \/ db' = TU!EnsurePrompt(db, "reminder", u)
    BY DEF TU!Remind
  <2> QED
    BY <2>1, <2>2, SameTurnCardinality
<1>4. /\ u \in 1..MaxTurns /\ db.turns[u].st \in {"completed", "error"}
      /\ \A n \in R : db.msgs[n].turn # u
  BY <1>1, <1>2, UnproductiveOf
<1> HIDE DEF R, u
<1>5. IsFiniteSet(Done) /\ u \in Done
  <2>1. IsFiniteSet(1..MaxTurns)
    BY SessionDataAssumption, FS_Interval
  <2>2. Done \in SUBSET (1..MaxTurns)
    BY DEF TU!Turns
  <2> QED
    BY <1>4, <2>1, <2>2, FS_Subset DEF TU!Turns
<1>6. \A m \in R : db.msgs[m].turn \in Done
  BY <1>2 DEF R, ReminderRows, TU!Turns
<1> HIDE DEF Done
<1>7. f \in Injection(R, Done \ {u})
  <2>1. f \in [R -> Done \ {u}]
    BY <1>4, <1>6
  <2>2. \A m, n \in R : f[m] = f[n] => m = n
    BY <1>2 DEF R, ReminderRows
  <2> QED
    BY <2>1, <2>2 DEF Injection, IsInjective
<1>8. /\ IsFiniteSet(Done \ {u}) /\ Cardinality(Done \ {u}) = Cardinality(Done) - 1
      /\ Cardinality(Done) \in Nat
  BY <1>5, FS_RemoveElement, FS_CardinalityType
<1>9. IsFiniteSet(R) /\ Cardinality(R) <= Cardinality(Done) - 1
  BY <1>7, <1>8, FS_Injection
<1>10. Cardinality(R) \in Nat /\ MaxReminders \in Nat
  BY <1>9, FS_CardinalityType, SessionDataAssumption
<1>11. Cardinality(Done) > MaxReminders
  BY <1>3, <1>8, <1>9, <1>10
<1> QED
  BY <1>11, SameTurnCardinality DEF Done

\* A run is failed for missing submissions only after more real turns than the
\* reminders it is allowed (reconcileSubmissionReminders).
THEOREM FailsAfterRemindersHolds == Spec => FailsAfterReminders
<1>1. TurnInv => [ TU!Remind /\ TU!Over(db') =>
          TU!Cardinality({t \in TU!Turns : db.turns[t].st \in {"completed", "error"}})
              > MaxReminders ]_(TU!vars)
  BY RemindersSpent
<1> QED
  BY <1>1, TurnsAgree, PTL DEF FailsAfterReminders, TU!FailsAfterReminders
==============================================================================
