---------------------------- MODULE ChannelsProofs ----------------------------
(***************************************************************************)
(* Proofs about Channels: for any decisions, faults and reloads, Telegram  *)
(* is called once for each attempt of a send that the server or the        *)
(* operator started.  The invariant says who may know of an attempt that   *)
(* was made and not confirmed: the server, as long as it is up, has it in  *)
(* flight (SendRows), and its adapter has no other one (AdapterRow).       *)
(***************************************************************************)
EXTENDS Channels, WellFoundedInduction, TLAPS

Effect   == [st : {"none", "applying", "applied", "ambiguous"},
             attempt : 0 .. MaxAttempts]
Effects  == [Decisions -> [Purposes -> Effect]]
Counts   == [Decisions -> [Purposes -> Nat]]
Items    == Decisions \X Purposes \X Nat
Actives  == [ready : BOOLEAN, stopping : BOOLEAN, inFlight : SUBSET Items,
             running : BOOLEAN]

\* Where an adapter is while it has no send in hand.
Unladen == {"none", "start", "ready", "poll", "updates", "answers"}

\* An attempt under way reached Telegram only if it is in flight, or if the
\* server that knew is down.
SendRow(e, n, unknown) ==
  /\ e.st = "none" => e.attempt = 0
  /\ e.st = "applying" => e.attempt > 0 /\ (n < e.attempt \/ unknown)
  /\ n <= e.attempt

SendRows(eff, cnt, isUp, flight) ==
  \A d \in Decisions, p \in Purposes :
    SendRow(eff[d][p], cnt[d][p], ~ isUp \/ <<d, p, eff[d][p].attempt>> \in flight)

\* An adapter about to send has an attempt that was not made yet.
ToSend(eff, cnt, w) ==
  cnt[w[1]][w[2]] < w[3] /\ w[3] <= eff[w[1]][w[2]].attempt

\* A server that is up knows what its adapter has in hand.
AdapterRow(eff, cnt, isUp, act, ad) ==
  /\ ad.at \in Unladen \cup {"send", "sent", "exited"}
  /\ isUp => (act.running <=> ad.at # "none")
  /\ isUp /\ ad.at \in Unladen => act.inFlight = {}
  /\ ~ act.ready => act.inFlight = {}
  /\ ~ isUp => act = NoActive
  /\ ad.at \in {"send", "sent"} =>
       ad.work \in Items /\ (isUp => act.inFlight = {ad.work})
  /\ ad.at = "send" => ToSend(eff, cnt, ad.work)
  /\ ad.at = "updates" => "at" \in DOMAIN ad

Inv(eff, cnt, isUp, act, ad) ==
  /\ eff \in Effects /\ cnt \in Counts /\ isUp \in BOOLEAN /\ act \in Actives
  /\ SendRows(eff, cnt, isUp, act.inFlight)
  /\ AdapterRow(eff, cnt, isUp, act, ad)

ChannelInv == Inv(effect, sends, up, active, adapter)

-----------------------------------------------------------------------------
(* The operators of the model.                                             *)

\* A nonempty set of decisions has a first one.
LEMMA FirstIsMember ==
  ASSUME NEW S, S \subseteq Decisions, S # {}
  PROVE  First(S) \in S
<1> DEFINE Less == OpToRel(<, Nat)
<1>1. \A n, m \in Nat : <<m, n>> \in Less <=> m < n
  BY DEF OpToRel
<1>2. IsWellFoundedOn(Less, Nat)
  BY NatLessThanWellFounded
<1> HIDE DEF Less
<1>3. S \subseteq Nat
  BY ChannelsAssumption
<1>4. PICK d \in S : \A e \in S : ~ (<<e, d>> \in Less)
  BY <1>2, <1>3, WFMin
<1>5. ASSUME NEW e \in S PROVE d <= e
  <2>1. d \in Nat /\ e \in Nat /\ ~ (e < d)
    BY <1>1, <1>3, <1>4
  <2> QED
    BY <2>1
<1> QED
  BY <1>5 DEF First

\* The first attempt of a send, or the one that is still to be made.
LEMMA AttemptIsNew ==
  ASSUME NEW e \in Effect, NEW n \in Nat, SendRow(e, n, FALSE),
         e.st \in {"none", "applying"}
  PROVE  /\ Attempt(e) \in Effect /\ Attempt(e).st = "applying"
         /\ n < Attempt(e).attempt /\ Attempt(e).attempt \in Nat
<1>1. CASE e.st = "none"
  <2>1. Attempt(e) = [st |-> "applying", attempt |-> 1]
    BY <1>1 DEF Attempt
  <2>2. 1 \in 0 .. MaxAttempts
    BY ChannelsAssumption
  <2>3. n < 1
    BY <1>1 DEF SendRow
  <2> QED
    BY <2>1, <2>2, <2>3 DEF Effect
<1>2. CASE e.st = "applying"
  <2>1. Attempt(e) = e
    BY <1>2 DEF Attempt
  <2>2. n < e.attempt /\ e.attempt \in Nat
    BY <1>2, ChannelsAssumption DEF SendRow, Effect
  <2> QED
    BY <1>2, <2>1, <2>2
<1> QED
  BY <1>1, <1>2

\* What Uncertain leaves applying was not in the set, and no count changes.
LEMMA UncertainEffects ==
  ASSUME NEW S, effect \in Effects
  PROVE  /\ Uncertain(S) \in Effects
         /\ \A d \in Decisions, p \in Purposes :
              /\ Uncertain(S)[d][p].attempt = effect[d][p].attempt
              /\ Uncertain(S)[d][p].st = "none" => effect[d][p].st = "none"
              /\ Uncertain(S)[d][p].st = "applying" =>
                   /\ effect[d][p].st = "applying"
                   /\ <<d, p, effect[d][p].attempt>> \notin S
<1>1. ASSUME NEW d \in Decisions, NEW p \in Purposes
      PROVE  /\ Uncertain(S)[d][p] \in Effect
             /\ Uncertain(S)[d][p].attempt = effect[d][p].attempt
             /\ Uncertain(S)[d][p].st = "none" => effect[d][p].st = "none"
             /\ Uncertain(S)[d][p].st = "applying" =>
                  /\ effect[d][p].st = "applying"
                  /\ <<d, p, effect[d][p].attempt>> \notin S
  <2>1. effect[d][p] \in Effect
    BY <1>1 DEF Effects
  <2>2. Uncertain(S)[d][p] =
          IF effect[d][p].st = "applying" /\ <<d, p, effect[d][p].attempt>> \in S
          THEN [effect[d][p] EXCEPT !.st = "ambiguous"] ELSE effect[d][p]
    BY <1>1 DEF Uncertain
  <2> HIDE DEF Uncertain
  <2>3. CASE effect[d][p].st = "applying" /\ <<d, p, effect[d][p].attempt>> \in S
    BY <2>1, <2>2, <2>3 DEF Effect
  <2>4. CASE ~ (effect[d][p].st = "applying" /\ <<d, p, effect[d][p].attempt>> \in S)
    BY <2>1, <2>2, <2>4
  <2> QED
    BY <2>3, <2>4
<1>2. Uncertain(S) \in Effects
  BY <1>1 DEF Uncertain, Effects
<1> QED
  BY <1>1, <1>2

\* When the server marks what was in flight, nothing else is unknown.
LEMMA FlightForgotten ==
  ASSUME NEW isUp, NEW flight, effect \in Effects, sends \in Counts,
         SendRows(effect, sends, isUp, flight),
         NEW S, S = EveryAttempt \/ (isUp /\ S = flight)
  PROVE  Uncertain(S) \in Effects /\ SendRows(Uncertain(S), sends, TRUE, {})
<1>1. ASSUME NEW d \in Decisions, NEW p \in Purposes
      PROVE  SendRow(Uncertain(S)[d][p], sends[d][p], FALSE)
  <2> DEFINE e == effect[d][p]
  <2> DEFINE u == Uncertain(S)[d][p]
  <2>1. /\ u.attempt = e.attempt /\ (u.st = "none" => e.st = "none")
        /\ u.st = "applying" => e.st = "applying" /\ <<d, p, e.attempt>> \notin S
    BY <1>1, UncertainEffects
  <2>2. SendRow(e, sends[d][p], ~ isUp \/ <<d, p, e.attempt>> \in flight)
    BY <1>1 DEF SendRows
  <2>3. e.attempt \in 0 .. MaxAttempts
    BY <1>1 DEF Effects, Effect
  <2> HIDE DEF e, u
  <2>4. CASE S = EveryAttempt
    <3>1. e.st = "applying" => <<d, p, e.attempt>> \in S
      BY <1>1, <2>2, <2>3, <2>4, ChannelsAssumption DEF SendRow, EveryAttempt
    <3> QED
      BY <2>1, <2>2, <3>1 DEF SendRow, u
  <2>5. CASE isUp /\ S = flight
    BY <2>1, <2>2, <2>5 DEF SendRow, u
  <2> QED
    BY <2>4, <2>5
<1> QED
  BY <1>1, UncertainEffects DEF SendRows

-----------------------------------------------------------------------------
(* The steps.                                                              *)

\* A command is a new attempt, or none: nothing else may be in flight.
LEMMA CommandStep ==
  ASSUME NEW eff \in Effects, sends \in Counts, active \in Actives,
         active.running, SendRows(eff, sends, TRUE, {}), Command(eff, {})
  PROVE  Inv(effect', sends, TRUE, active', adapter')
<1> DEFINE p == IF Waiting("delivery", eff) # {} THEN "delivery" ELSE "settlement"
           d == First(Waiting(p, eff))
           a == Attempt(eff[d][p])
           item == <<d, p, a.attempt>>
<1>1. CASE config /\ Waiting(p, eff) # {}
  <2>1. /\ effect' = [eff EXCEPT ![d][p] = a]
        /\ active' = [active EXCEPT !.ready = TRUE, !.inFlight = {} \cup {item}]
        /\ adapter' = [at |-> "send", work |-> item]
    BY <1>1 DEF Command
  <2>2. d \in Waiting(p, eff)
    BY <1>1, FirstIsMember DEF Waiting
  <2>3. /\ d \in Decisions /\ p \in Purposes
        /\ eff[d][p].st \in {"none", "applying"}
    BY <2>2 DEF Waiting, Purposes
  <2> HIDE DEF p, d
  <2>4. /\ eff[d][p] \in Effect /\ sends[d][p] \in Nat
        /\ SendRow(eff[d][p], sends[d][p], FALSE)
    BY <2>3 DEF Effects, Counts, SendRows
  <2>5. /\ a \in Effect /\ a.st = "applying" /\ sends[d][p] < a.attempt
        /\ a.attempt \in Nat
    BY <2>3, <2>4, AttemptIsNew
  <2> HIDE DEF a
  <2>6. /\ effect' \in Effects /\ effect'[d][p] = a
        /\ \A e \in Decisions, q \in Purposes :
             effect'[e][q] = IF e = d /\ q = p THEN a ELSE eff[e][q]
    BY <2>1, <2>3, <2>5 DEF Effects
  <2>7. item \in Items
    BY <2>3, <2>5 DEF Items
  <2>8. /\ active' \in Actives /\ active'.inFlight = {item} /\ active'.running
        /\ active'.ready
    BY <2>1, <2>7 DEF Actives
  <2>9. SendRows(effect', sends, TRUE, {item})
    <3>1. ASSUME NEW e \in Decisions, NEW q \in Purposes
          PROVE  SendRow(effect'[e][q], sends[e][q],
                         <<e, q, effect'[e][q].attempt>> \in {item})
      <4>1. CASE e = d /\ q = p
        BY <2>4, <2>5, <2>6, <4>1 DEF SendRow, Effect
      <4>2. CASE ~ (e = d /\ q = p)
        BY <2>6, <4>2 DEF SendRow, SendRows
      <4> QED
        BY <4>1, <4>2
    <3> QED
      BY <3>1 DEF SendRows
  <2>10. ToSend(effect', sends, item)
    BY <2>5, <2>6 DEF ToSend, Effect
  <2>11. /\ adapter'.at = "send" /\ adapter'.work = item
    BY <2>1
  <2>12. AdapterRow(effect', sends, TRUE, active', adapter')
    BY <2>7, <2>8, <2>10, <2>11 DEF AdapterRow, Unladen
  <2> QED
    BY <2>6, <2>8, <2>9, <2>12 DEF Inv
<1>2. CASE ~ (config /\ Waiting(p, eff) # {})
  <2>1. /\ effect' = eff
        /\ active' = [active EXCEPT !.ready = TRUE, !.inFlight = {}]
        /\ adapter'.at = "poll"
    BY <1>2 DEF Command
  <2>2. /\ active' \in Actives /\ active'.inFlight = {} /\ active'.running
        /\ active'.ready
    BY <2>1 DEF Actives
  <2>3. AdapterRow(effect', sends, TRUE, active', adapter')
    BY <2>1, <2>2 DEF AdapterRow, Unladen
  <2> QED
    BY <2>1, <2>2, <2>3 DEF Inv
<1> QED
  BY <1>1, <1>2

LEMMA ReadyStep == ASSUME ChannelInv, Ready PROVE ChannelInv'
<1>1. /\ up /\ active.running /\ active.inFlight = {}
      /\ effect \in Effects /\ sends \in Counts /\ active \in Actives
      /\ SendRows(effect, sends, TRUE, {}) /\ up = TRUE
  BY DEF ChannelInv, Inv, AdapterRow, Ready, Unladen
<1>2. Command(effect, {}) /\ sends' = sends /\ up' = up
  BY <1>1 DEF Ready, ghosts, server
<1>3. Inv(effect', sends, TRUE, active', adapter')
  BY <1>1, <1>2, CommandStep
<1> QED
  BY <1>1, <1>2, <1>3 DEF ChannelInv

\* Telegram is called for an attempt that was not made yet; it is now.
LEMMA SendStep ==
  ASSUME ChannelInv, NEW known \in BOOLEAN, Send(known) PROVE ChannelInv'
<1>1. PICK d \in Decisions, p \in Purposes, n \in Nat : adapter.work = <<d, p, n>>
  BY DEF ChannelInv, Inv, AdapterRow, Send, Items
<1>2. /\ effect \in Effects /\ sends \in Counts /\ active \in Actives
      /\ up \in BOOLEAN /\ sends[d][p] < n /\ n <= effect[d][p].attempt
      /\ up => active.inFlight = {<<d, p, n>>} /\ active.running
      /\ ~ active.ready => active.inFlight = {}
      /\ ~ up => active = NoActive
  BY <1>1 DEF ChannelInv, Inv, AdapterRow, Send, ToSend
<1>3. /\ sends' = [sends EXCEPT ![d][p] = @ + 1]
      /\ adapter'.at = "sent" /\ adapter'.work = <<d, p, n>>
      /\ effect' = effect /\ active' = active /\ up' = up
  BY <1>1 DEF Send, server
<1>4. /\ sends' \in Counts
      /\ \A e \in Decisions, q \in Purposes :
           sends'[e][q] = IF e = d /\ q = p THEN sends[e][q] + 1 ELSE sends[e][q]
  BY <1>2, <1>3 DEF Counts
<1>5. SendRows(effect, sends', up, active.inFlight)
  <2>1. ASSUME NEW e \in Decisions, NEW q \in Purposes
        PROVE  SendRow(effect[e][q], sends'[e][q],
                       ~ up \/ <<e, q, effect[e][q].attempt>> \in active.inFlight)
    <3>1. SendRow(effect[e][q], sends[e][q],
                  ~ up \/ <<e, q, effect[e][q].attempt>> \in active.inFlight)
      BY DEF ChannelInv, Inv, SendRows
    <3>2. CASE ~ (e = d /\ q = p)
      BY <1>4, <3>1, <3>2
    <3>3. CASE e = d /\ q = p
      <4>1. /\ sends'[d][p] = sends[d][p] + 1 /\ sends[d][p] \in Nat
            /\ effect[d][p].attempt \in Nat
        BY <1>2, <1>4, <3>3, ChannelsAssumption DEF Counts, Effects, Effect
      <4>2. /\ sends'[d][p] <= effect[d][p].attempt
            /\ effect[d][p].attempt > 0
            /\ sends'[d][p] < effect[d][p].attempt \/ effect[d][p].attempt = n
        BY <1>2, <4>1
      <4>3. effect[d][p].st # "none"
        BY <3>1, <3>3, <4>2, <4>1 DEF SendRow
      <4> QED
        BY <1>2, <3>3, <4>2, <4>3 DEF SendRow
    <3> QED
      BY <3>2, <3>3
  <2> QED
    BY <2>1 DEF SendRows
<1>6. <<d, p, n>> \in Items
  BY DEF Items
<1>7. AdapterRow(effect, sends', up, active, adapter')
  BY <1>2, <1>3, <1>6 DEF AdapterRow, Unladen
<1> QED
  BY <1>2, <1>3, <1>4, <1>5, <1>7 DEF ChannelInv, Inv

\* A receipt takes its attempt out of flight, so the next command finds
\* nothing in flight.
LEMMA ReceiptStep == ASSUME ChannelInv, Receipt PROVE ChannelInv'
<1> DEFINE d == adapter.work[1]
           p == adapter.work[2]
           n == adapter.work[3]
<1>1. /\ d \in Decisions /\ p \in Purposes /\ n \in Nat
      /\ adapter.work = <<d, p, n>>
  BY DEF ChannelInv, Inv, AdapterRow, Receipt, Items
<1>2. /\ effect \in Effects /\ sends \in Counts /\ active \in Actives
      /\ up /\ up = TRUE /\ active.inFlight = {<<d, p, n>>} /\ active.running
      /\ SendRows(effect, sends, TRUE, active.inFlight)
      /\ sends' = sends /\ up' = up
  BY <1>1 DEF ChannelInv, Inv, AdapterRow, Receipt, server, ghosts
<1>3. CASE effect[d][p] = [st |-> "applying", attempt |-> n]
  <2> DEFINE o == Outcome(effect[d][p], adapter.known)
             eff == [effect EXCEPT ![d][p] = Outcome(@, adapter.known)]
  <2>1. Command(eff, active.inFlight \ {<<d, p, n>>})
    BY <1>3 DEF Receipt
  <2>2. active.inFlight \ {<<d, p, n>>} = {}
    BY <1>2
  <2>3. /\ effect[d][p] \in Effect /\ sends[d][p] \in Nat
        /\ SendRow(effect[d][p], sends[d][p],
                   ~ TRUE \/ <<d, p, effect[d][p].attempt>> \in active.inFlight)
    BY <1>1, <1>2 DEF Effects, Counts, SendRows
  <2>4. /\ o \in Effect /\ o.st \in {"applied", "ambiguous"}
        /\ o.attempt = effect[d][p].attempt
    BY <2>3 DEF Outcome, Effect
  <2>8. eff = [effect EXCEPT ![d][p] = o]
    OBVIOUS
  <2> HIDE DEF o, d, p, n, eff
  <2>5. /\ eff \in Effects
        /\ \A e \in Decisions, q \in Purposes :
             eff[e][q] = IF e = d /\ q = p THEN o ELSE effect[e][q]
    BY <1>1, <1>2, <2>4, <2>8 DEF Effects
  <2>6. SendRows(eff, sends, TRUE, {})
    <3>1. ASSUME NEW e \in Decisions, NEW q \in Purposes
          PROVE  SendRow(eff[e][q], sends[e][q], FALSE)
      <4>1. CASE e = d /\ q = p
        BY <2>3, <2>4, <2>5, <4>1 DEF SendRow
      <4>2. CASE ~ (e = d /\ q = p)
        <5>1. SendRow(effect[e][q], sends[e][q],
                      ~ TRUE \/ <<e, q, effect[e][q].attempt>> \in active.inFlight)
          BY <1>2 DEF SendRows
        <5> QED
          BY <1>2, <2>5, <4>2, <5>1
      <4> QED
        BY <4>1, <4>2
    <3> QED
      BY <3>1 DEF SendRows
  <2>7. Inv(effect', sends, TRUE, active', adapter')
    BY <1>2, <2>1, <2>2, <2>5, <2>6, CommandStep
  <2> QED
    BY <1>2, <2>7 DEF ChannelInv
<1>4. CASE effect[d][p] # [st |-> "applying", attempt |-> n]
  <2>1. adapter' = Exited /\ effect' = effect /\ active' = active
    BY <1>4 DEF Receipt
  <2>2. AdapterRow(effect, sends, up, active, Exited)
    BY <1>2 DEF ChannelInv, Inv, AdapterRow, Exited, Unladen
  <2> QED
    BY <1>2, <2>1, <2>2 DEF ChannelInv, Inv
<1> QED
  BY <1>3, <1>4

\* An adapter that has nothing in hand, or is gone, is of no consequence.
LEMMA AdapterOnly ==
  ASSUME ChannelInv, UNCHANGED <<effect, sends, up, active>>,
         adapter'.at \in Unladen \cup {"exited"},
         adapter'.at = "updates" => "at" \in DOMAIN adapter',
         up => (adapter'.at # "none" <=> adapter.at # "none"),
         up /\ adapter'.at # "exited" => adapter.at \in Unladen
  PROVE  ChannelInv'
<1>1. AdapterRow(effect, sends, up, active, adapter')
  BY DEF ChannelInv, Inv, AdapterRow, Unladen
<1> QED
  BY <1>1 DEF ChannelInv, Inv

LEMMA PollSteps == ASSUME ChannelInv, Fetch \/ Update \/ Answer PROVE ChannelInv'
<1>1. UNCHANGED <<effect, sends, up, active>>
  BY DEF Fetch, Update, Answer, server, ghosts
<1>2. adapter.at \in {"poll", "updates", "answers"}
  BY DEF Fetch, Update, Answer
<1>3. ASSUME NEW batch, NEW end
      PROVE  Reporting(batch, end).at \in {"ready", "answers"}
  BY DEF Reporting
<1>4. /\ adapter'.at \in {"ready", "updates", "answers", "exited"}
      /\ adapter'.at = "updates" => "at" \in DOMAIN adapter'
  <2>1. CASE Fetch
    BY <2>1 DEF Fetch
  <2>2. CASE Update
    <3>1. CASE \E batch : adapter' = Reporting(batch, adapter.end)
      BY <1>3, <3>1
    <3>2. CASE \E i, batch : adapter' = [adapter EXCEPT !.next = i, !.batch = batch]
      <4>1. "at" \in DOMAIN adapter /\ adapter.at = "updates"
        BY <2>2 DEF ChannelInv, Inv, AdapterRow, Update
      <4> QED
        BY <3>2, <4>1
    <3> QED
      BY <2>2, <3>1, <3>2 DEF Update
  <2>3. CASE Answer
    <3>1. CASE adapter' = Exited
      BY <3>1 DEF Exited
    <3>2. CASE adapter' = Reporting(Tail(adapter.batch), adapter.end)
      BY <1>3, <3>2
    <3> QED
      BY <2>3, <3>1, <3>2 DEF Answer
  <2> QED
    BY <2>1, <2>2, <2>3
<1> QED
  BY <1>1, <1>2, <1>4, AdapterOnly DEF Unladen

LEMMA AdapterEnds ==
  ASSUME ChannelInv, AdapterCrash \/ Terminate \/ OrphanExits PROVE ChannelInv'
<1>1. UNCHANGED <<effect, sends, up, active>>
  BY DEF AdapterCrash, Terminate, OrphanExits, server, ghosts
<1>2. /\ adapter'.at \in {"exited", "none"}
      /\ up => adapter'.at = "exited" /\ adapter.at # "none"
  BY DEF AdapterCrash, Terminate, OrphanExits, Exited, Gone, Live
<1> QED
  BY <1>1, <1>2, AdapterOnly DEF Unladen

\* The server starts an adapter, or has one.
LEMMA StartStep ==
  ASSUME ChannelInv, Start, up, UNCHANGED <<effect, sends, up>> PROVE ChannelInv'
<1>1. CASE active.running
  BY <1>1 DEF Start, ChannelInv
<1>2. CASE ~ active.running
  <2>1. /\ active.inFlight = {} /\ active' = Started
        /\ adapter' = [at |-> "start", end |-> 0]
    BY <1>2 DEF Start, ChannelInv, Inv, AdapterRow, Unladen
  <2>2. /\ Started \in Actives /\ Started.inFlight = {} /\ Started.running
    BY DEF Started, NoActive, Actives
  <2>3. AdapterRow(effect, sends, up, Started, adapter')
    BY <2>1, <2>2 DEF AdapterRow, Unladen
  <2> QED
    BY <2>1, <2>2, <2>3 DEF ChannelInv, Inv
<1> QED
  BY <1>1, <1>2

\* An adapter that ended is taken away, with all that was in flight.
LEMMA NoAdapter ==
  ASSUME NEW eff \in Effects, sends \in Counts, SendRows(eff, sends, TRUE, {})
  PROVE  Inv(eff, sends, TRUE, NoActive, Gone)
<1>1. NoActive \in Actives /\ NoActive.inFlight = {} /\ ~ NoActive.running
  BY DEF NoActive, Actives
<1>2. AdapterRow(eff, sends, TRUE, NoActive, Gone)
  BY <1>1 DEF AdapterRow, Unladen, Gone
<1> QED
  BY <1>1, <1>2 DEF Inv

LEMMA HandleExitStep == ASSUME ChannelInv, HandleExit PROVE ChannelInv'
<1>1. /\ effect \in Effects /\ sends \in Counts /\ up = TRUE
      /\ SendRows(effect, sends, TRUE, active.inFlight)
      /\ active' = NoActive /\ adapter' = Gone /\ sends' = sends /\ up' = TRUE
      /\ ~ active.ready => active.inFlight = {}
  BY DEF ChannelInv, Inv, AdapterRow, HandleExit, ghosts
<1>2. effect' \in Effects /\ SendRows(effect', sends, TRUE, {})
  <2>1. CASE active.ready
    BY <1>1, <2>1, FlightForgotten DEF HandleExit, InFlightUncertain
  <2>2. CASE ~ active.ready
    BY <1>1, <2>2 DEF HandleExit
  <2> QED
    BY <2>1, <2>2
<1> QED
  BY <1>1, <1>2, NoAdapter DEF ChannelInv

\* The configuration is reloaded: the adapter is stopped first.
LEMMA ReloadSteps ==
  ASSUME ChannelInv, (\E written \in BOOLEAN : Reload(written)) \/ ReloadStopped
  PROVE  ChannelInv'
<1>1. /\ effect \in Effects /\ sends \in Counts /\ up = TRUE
      /\ active \in Actives /\ active.running \in BOOLEAN
      /\ SendRows(effect, sends, TRUE, active.inFlight)
      /\ sends' = sends /\ up' = TRUE
  BY DEF ChannelInv, Inv, Reload, ReloadStopped, ghosts, Actives
<1>2. /\ Uncertain(EveryAttempt) \in Effects
      /\ SendRows(Uncertain(EveryAttempt), sends, TRUE, {})
  BY <1>1, FlightForgotten
<1>3. CASE ReloadStopped
  BY <1>1, <1>2, <1>3, NoAdapter DEF ReloadStopped, ChannelInv
<1>4. ASSUME NEW written \in BOOLEAN, Reload(written), active.running
      PROVE  ChannelInv'
  <2>1. /\ active' = [active EXCEPT !.stopping = TRUE] /\ effect' = effect
        /\ adapter' = adapter
    BY <1>4 DEF Reload
  <2>2. /\ active' \in Actives /\ active'.inFlight = active.inFlight
        /\ active'.running = active.running /\ active'.ready = active.ready
    BY <1>1, <2>1 DEF Actives
  <2>3. AdapterRow(effect, sends, TRUE, active', adapter)
    BY <1>1, <2>2 DEF ChannelInv, Inv, AdapterRow
  <2> QED
    BY <1>1, <2>1, <2>2, <2>3 DEF ChannelInv, Inv
<1>5. ASSUME NEW written \in BOOLEAN, Reload(written), ~ active.running
      PROVE  ChannelInv'
  <2>1. /\ active' = active /\ effect' = Uncertain(EveryAttempt)
        /\ adapter' = adapter
    BY <1>5 DEF Reload
  <2>2. adapter.at = "none" /\ active.inFlight = {}
    BY <1>1, <1>5 DEF ChannelInv, Inv, AdapterRow, Unladen
  <2>3. AdapterRow(effect', sends, TRUE, active, adapter)
    BY <1>1, <2>2, <1>5 DEF ChannelInv, Inv, AdapterRow, Unladen
  <2> QED
    BY <1>1, <1>2, <2>1, <2>2, <2>3 DEF ChannelInv, Inv
<1> QED
  BY <1>3, <1>4, <1>5

LEMMA ServerSteps ==
  ASSUME ChannelInv, FireTimer \/ ReloadLoad PROVE ChannelInv'
<1>1. up /\ UNCHANGED <<effect, sends, up>>
  BY DEF FireTimer, ReloadLoad, ghosts
<1>2. CASE Start
  BY <1>1, <1>2, StartStep
<1>3. CASE UNCHANGED <<active, adapter>>
  BY <1>1, <1>3 DEF ChannelInv
<1> QED
  BY <1>2, <1>3 DEF FireTimer, ReloadLoad

\* The server that knew what was in flight dies; the next one calls every
\* attempt uncertain.
LEMMA CrashSteps ==
  ASSUME ChannelInv, ServerCrash \/ ServerStart PROVE ChannelInv'
<1>1. effect \in Effects /\ sends \in Counts /\ sends' = sends
  BY DEF ChannelInv, Inv, ServerCrash, ServerStart, ghosts
<1>2. CASE ServerCrash
  <2>1. /\ effect' = effect /\ up' = FALSE /\ active' = NoActive
        /\ adapter' = adapter \/ adapter' = Gone
    BY <1>2 DEF ServerCrash
  <2>2. NoActive \in Actives /\ NoActive.inFlight = {}
    BY DEF NoActive, Actives
  <2>3. SendRows(effect, sends, FALSE, {})
    BY DEF ChannelInv, Inv, SendRows, SendRow
  <2>4. AdapterRow(effect, sends, FALSE, NoActive, adapter)
    BY <2>2 DEF ChannelInv, Inv, AdapterRow
  <2>5. AdapterRow(effect, sends, FALSE, NoActive, Gone)
    BY <2>2 DEF AdapterRow, Gone, Unladen
  <2> QED
    BY <1>1, <2>1, <2>2, <2>3, <2>4, <2>5 DEF ChannelInv, Inv
<1>3. CASE ServerStart
  <2>1. /\ effect' = Uncertain(EveryAttempt) /\ up' = TRUE
        /\ active' = NoActive /\ adapter' = Gone
    BY <1>3 DEF ServerStart, ChannelInv, Inv, AdapterRow
  <2>2. /\ Uncertain(EveryAttempt) \in Effects
        /\ SendRows(Uncertain(EveryAttempt), sends, TRUE, {})
    BY <1>1, FlightForgotten DEF ChannelInv, Inv
  <2> QED
    BY <1>1, <2>1, <2>2, NoAdapter DEF ChannelInv
<1> QED
  BY <1>2, <1>3

\* Only the operator starts a further attempt, of a send that is uncertain.
LEMMA RecoverStep ==
  ASSUME ChannelInv, NEW d \in Decisions, NEW p \in Purposes,
         NEW retry \in BOOLEAN, Recover(d, p, retry)
  PROVE  ChannelInv'
<1> DEFINE e == effect[d][p]
           x == IF retry THEN NextAttempt(e) ELSE Outcome(e, TRUE)
<1>1. /\ effect \in Effects /\ sends \in Counts /\ active \in Actives
      /\ e \in Effect /\ sends[d][p] \in Nat /\ e.attempt \in Nat
      /\ e.st = "ambiguous" /\ (retry => e.attempt < MaxAttempts)
      /\ sends[d][p] <= e.attempt
      /\ SendRows(effect, sends, up, active.inFlight)
  <2>1. /\ effect \in Effects /\ sends \in Counts /\ active \in Actives
        /\ SendRows(effect, sends, up, active.inFlight)
    BY DEF ChannelInv, Inv
  <2>2. e \in Effect /\ sends[d][p] \in Nat
    BY <2>1 DEF Effects, Counts
  <2>3. e.attempt \in Nat
    BY <2>2, ChannelsAssumption DEF Effect
  <2>4. sends[d][p] <= e.attempt
    BY <2>1 DEF SendRows, SendRow
  <2> QED
    BY <2>1, <2>2, <2>3, <2>4 DEF Recover
<1>2. UNCHANGED <<sends, up, active, adapter>>
  BY DEF Recover, server, ghosts
<1>3. effect' = [effect EXCEPT ![d][p] = x]
  BY DEF Recover
<1>4. /\ x \in Effect /\ x.st \in {"applying", "applied"}
      /\ x.attempt \in Nat /\ e.attempt <= x.attempt
      /\ x.st = "applying" => sends[d][p] < x.attempt
  <2>1. CASE retry
    <3>1. x = [st |-> "applying", attempt |-> e.attempt + 1]
      BY <2>1 DEF NextAttempt
    <3>2. e.attempt + 1 \in 0 .. MaxAttempts
      BY <1>1, <2>1, ChannelsAssumption
    <3> HIDE DEF x, e
    <3> QED
      BY <1>1, <3>1, <3>2 DEF Effect
  <2>2. CASE ~ retry
    <3>1. x = [e EXCEPT !.st = "applied"]
      BY <2>2 DEF Outcome
    <3> HIDE DEF x, e
    <3> QED
      BY <1>1, <3>1 DEF Effect
  <2> QED
    BY <2>1, <2>2
<1> HIDE DEF x
<1>5. /\ effect' \in Effects
      /\ \A b \in Decisions, q \in Purposes :
           effect'[b][q] = IF b = d /\ q = p THEN x ELSE effect[b][q]
  BY <1>1, <1>3, <1>4 DEF Effects
<1>6. SendRows(effect', sends, up, active.inFlight)
  <2>1. ASSUME NEW b \in Decisions, NEW q \in Purposes
        PROVE  SendRow(effect'[b][q], sends[b][q],
                       ~ up \/ <<b, q, effect'[b][q].attempt>> \in active.inFlight)
    <3>1. CASE b = d /\ q = p
      BY <1>1, <1>4, <1>5, <3>1 DEF SendRow
    <3>2. CASE ~ (b = d /\ q = p)
      BY <1>1, <1>5, <3>2 DEF SendRows
    <3> QED
      BY <3>1, <3>2
  <2> QED
    BY <2>1 DEF SendRows
<1>7. AdapterRow(effect', sends, up, active, adapter)
  <2>1. ASSUME adapter.at = "send" PROVE ToSend(effect', sends, adapter.work)
    <3>1. PICK b \in Decisions, q \in Purposes, n \in Nat :
              adapter.work = <<b, q, n>>
      BY <2>1 DEF ChannelInv, Inv, AdapterRow, Items
    <3>2. sends[b][q] < n /\ n <= effect[b][q].attempt
      BY <2>1, <3>1 DEF ChannelInv, Inv, AdapterRow, ToSend
    <3>3. n <= effect'[b][q].attempt
      <4>1. CASE b = d /\ q = p
        BY <1>1, <1>4, <1>5, <3>2, <4>1
      <4>2. CASE ~ (b = d /\ q = p)
        BY <1>5, <3>2, <4>2
      <4> QED
        BY <4>1, <4>2
    <3> QED
      BY <3>1, <3>2, <3>3 DEF ToSend
  <2> QED
    BY <2>1 DEF ChannelInv, Inv, AdapterRow
<1> QED
  BY <1>1, <1>2, <1>5, <1>6, <1>7 DEF ChannelInv, Inv

\* Decisions are asked, resolved and answered beside the channel.
LEMMA DecisionSteps ==
  ASSUME ChannelInv,
         \E d \in Decisions : \/ Ask(d) \/ DeadlinePasses(d) \/ Press(d)
                              \/ AnswerInPi(d) \/ TimeoutPolicy(d) \/ CancelRun(d)
  PROVE  ChannelInv'
<1>1. UNCHANGED <<effect, sends, up, active, adapter>>
  BY DEF Ask, DeadlinePasses, Press, AnswerInPi, TimeoutPolicy, CancelRun,
         Resolve, server, ghosts
<1> QED
  BY <1>1 DEF ChannelInv

-----------------------------------------------------------------------------
(* The theorem.                                                            *)

LEMMA InitChannelInv == Init => ChannelInv
<1> SUFFICES ASSUME Init PROVE ChannelInv
  OBVIOUS
<1>1. /\ effect \in Effects /\ sends \in Counts
      /\ SendRows(effect, sends, TRUE, {})
  BY ChannelsAssumption
     DEF Init, Effects, Effect, Counts, SendRows, SendRow
<1>2. Started \in Actives /\ Started.inFlight = {} /\ Started.running
  BY DEF Started, NoActive, Actives
<1>3. AdapterRow(effect, sends, TRUE, Started, adapter)
  BY <1>2 DEF Init, AdapterRow, Unladen
<1> QED
  BY <1>1, <1>2, <1>3 DEF Init, ChannelInv, Inv

LEMMA ChannelInvStep == ChannelInv /\ [Next]_vars => ChannelInv'
<1> SUFFICES ASSUME ChannelInv, [Next]_vars PROVE ChannelInv'
  OBVIOUS
<1>1. CASE UNCHANGED vars
  BY <1>1 DEF vars, ChannelInv
<1>2. CASE AdapterStep
  BY <1>2, ReadyStep, SendStep, ReceiptStep, PollSteps DEF AdapterStep
<1>3. CASE ServerStep
  BY <1>3, HandleExitStep, ServerSteps, ReloadSteps DEF ServerStep
<1>4. CASE AdapterCrash \/ Terminate \/ OrphanExits
  BY <1>4, AdapterEnds
<1>5. CASE ServerCrash \/ ServerStart
  BY <1>5, CrashSteps
<1>6. CASE \E written \in BOOLEAN : Reload(written)
  BY <1>6, ReloadSteps
<1>7. CASE \E d \in Decisions, p \in Purposes, retry \in BOOLEAN : Recover(d, p, retry)
  BY <1>7, RecoverStep
<1>8. CASE \E d \in Decisions : \/ Ask(d) \/ DeadlinePasses(d) \/ Press(d)
                                \/ AnswerInPi(d) \/ TimeoutPolicy(d) \/ CancelRun(d)
  BY <1>8, DecisionSteps
<1> QED
  BY <1>1, <1>2, <1>3, <1>4, <1>5, <1>6, <1>7, <1>8 DEF Next

\* Each attempt of a send reaches Telegram at most once, whatever dies,
\* restarts or is reloaded, and only the operator starts a further one
\* (nextChannelCommand, handleChannelExit, recoverPreviousServer).
THEOREM SentOncePerAttempt == Spec => []NeverResentAlone
<1>1. ChannelInv => NeverResentAlone
  BY DEF ChannelInv, Inv, SendRows, SendRow, NeverResentAlone
<1> QED
  BY <1>1, InitChannelInv, ChannelInvStep, PTL DEF Spec
=============================================================================
