--------------------------- MODULE SessionDataProofs ---------------------------
(***************************************************************************)
(* Proofs about the parts of SessionData.  A behaviour is one of one part, *)
(* so each part has an inductive invariant of its own variables, which the *)
(* steps of the other parts leave alone.                                   *)
(***************************************************************************)
EXTENDS SessionData, FiniteSetTheorems, SequenceTheorems, WellFoundedInduction, TLAPS

-----------------------------------------------------------------------------
(* Settings: the history of a scope, and the requests that made it.        *)

Patch  == [test : Nat \cup {None}, set : Nat]
Change == [request : ChangeRequests, patch : Patch, number : Nat, before : Nat,
           after : Nat]
CallState == {SE!Idle}
        \cup [phase : {"answering"}, outcome : {"accepted", "rejected"}]
        \cup [phase : {"resolving", "committing"}, number : Nat, value : Nat]

HistoryTypes ==
    /\ scope \in {None} \cup [value : Nat, revision : Nat]
    /\ changes \in Seq(Change)
    /\ sent \in [ChangeRequests -> Contents \cup {None}]
    /\ call \in [ChangeRequests -> CallState]
    /\ answer \in [ChangeRequests -> {None, "accepted", "rejected"}]

\* The document after n changes.
Doc(n) == IF n = 0 THEN 0 ELSE changes[n].after

\* The scope holds the end of the chain.
ChainRow ==
    /\ scope = None => changes = << >>
    /\ scope # None => scope.revision = Len(changes) /\ scope.value = Doc(Len(changes))
    /\ \A i \in 1..Len(changes) :
          /\ changes[i].number = i /\ changes[i].before = Doc(i - 1)
          /\ SE!Applies(changes[i].patch, Doc(i - 1))

Done(q) == \E i \in 1..Len(changes) : changes[i].request = q

\* How far a request is, and whether its change is in the history.
RequestRow(q) ==
    /\ call[q].phase # "idle" => answer[q] = None /\ sent[q] # None
    /\ call[q].phase \in {"resolving", "committing"} => scope # None
    /\ call[q].phase = "committing" =>
          /\ ~Done(q)
          /\ SE!Applies(sent[q].patch, call[q].value)
          /\ sent[q].expected \in {None, call[q].number}
    /\ call[q].phase = "answering" =>
          /\ call[q].outcome = "accepted" => Done(q)
          /\ call[q].outcome = "rejected" /\ q \notin broken => ~Done(q)
    /\ call[q].phase \in {"idle", "resolving"} /\ answer[q] = None /\ q \notin broken
          => ~Done(q)
    /\ answer[q] = "accepted" => Done(q)
    /\ answer[q] = "rejected" /\ q \notin broken => ~Done(q)
    /\ \A i, j \in 1..Len(changes) :
          changes[i].request = q /\ changes[j].request = q => i = j
    /\ \A i \in 1..Len(changes) :
          changes[i].request = q => sent[q] # None /\ sent[q].expected \in {None, i - 1}

HistoryInv == HistoryTypes /\ ChainRow /\ \A q \in ChangeRequests : RequestRow(q)

-----------------------------------------------------------------------------
(* Settings: what an attempt is bound to.                                  *)

Attempt == [id : Nat, kind : {"route", "agent", "message"}, number : Nat,
            value : Nat, answered : BOOLEAN]
Settled == [id : Nat, kind : {"route", "agent", "message"}, number : Nat,
            current : Nat]
Engine  == {[phase |-> "ready"], SE!Stopped}
      \cup [phase : {"captured", "executing", "rebound"}, number : Nat, value : Nat,
            retries : Nat]

AttemptTypes ==
    /\ attempt \in Attempt \cup {None} /\ engine \in Engine
    /\ finished \in Seq(Settled) /\ stops \in Nat /\ given \subseteq Nat \X Nat

\* Change number n was the document v.
Bound(n, v) == scope # None /\ n \in 0..Len(changes) /\ v = Doc(n)

\* The id of the next attempt.
NextId == Len(finished) + stops

Working == engine.phase \in {"executing", "rebound"}

BindingRow ==
    /\ attempt # None => Bound(attempt.number, attempt.value)
    /\ engine.phase \in {"captured", "executing", "rebound"} =>
          Bound(engine.number, engine.value)
    /\ Working \/ status = "waiting" => attempt # None
    /\ engine.phase \in {"ready", "captured"} => attempt = None
    /\ status = "waiting" => engine.phase = "stopped"
    /\ engine.phase = "executing" =>
          engine.number = attempt.number /\ <<attempt.id, engine.value>> \in given
    /\ engine.phase = "rebound" => attempt.kind = "route"

\* What was given belongs to attempts so far; one that is over or cut off gets
\* no more.
GivenRow ==
    /\ \A g \in given : g[1] <= NextId
    /\ attempt = None \/ (engine.phase = "stopped" /\ status = "running") =>
          \A g \in given : g[1] < NextId
    /\ attempt # None /\ attempt.kind # "route" =>
          \A g \in given : g[1] = attempt.id => g[2] = attempt.value
    /\ attempt # None => attempt.id <= NextId

SettledRow(s) ==
    /\ s.id < NextId /\ (attempt # None => s.id # attempt.id)
    /\ Bound(s.number, Doc(s.number)) /\ <<s.id, Doc(s.number)>> \in given
    /\ s.kind # "route" => \A g \in given : g[1] = s.id => g[2] = Doc(s.number)
    /\ s.kind = "route" => s.number = s.current

AttemptInv ==
    /\ AttemptTypes /\ BindingRow /\ GivenRow
    /\ \A i \in 1..Len(finished) : SettledRow(finished[i])

SettingsInv == HistoryInv /\ AttemptInv

-----------------------------------------------------------------------------
(* What the history shows.                                                 *)

\* A number of the history names the document after that many changes.
LEMMA DocumentAt ==
    ASSUME HistoryTypes, ChainRow, scope # None, NEW n \in 0..Len(changes)
    PROVE  SE!ValueAt(n) = Doc(n)
BY DEF HistoryTypes, ChainRow, SE!ValueAt, SE!First, Doc

\* A change is added behind the others.
LEMMA HistoryGrows ==
    ASSUME changes \in Seq(Change), NEW c \in Change, changes' = Append(changes, c)
    PROVE  /\ changes' \in Seq(Change) /\ Len(changes) \in Nat
           /\ Len(changes') = Len(changes) + 1
           /\ changes'[Len(changes) + 1] = c
           /\ \A i \in 1..Len(changes) : changes'[i] = changes[i]
           /\ \A n \in 0..Len(changes) : n \in 0..Len(changes') /\ Doc(n)' = Doc(n)
           /\ Doc(Len(changes))' = c.after
<1>1. /\ changes' \in Seq(Change) /\ Len(changes) \in Nat
      /\ Len(changes') = Len(changes) + 1
      /\ changes'[Len(changes) + 1] = c
      /\ \A i \in 1..Len(changes) : changes'[i] = changes[i]
  BY AppendProperties, LenProperties
<1>2. ASSUME NEW n \in 0..Len(changes)
      PROVE  n \in 0..Len(changes') /\ Doc(n)' = Doc(n)
  <2>1. n \in 0..Len(changes') /\ (n # 0 => n \in 1..Len(changes))
    BY <1>1
  <2> QED
    BY <1>1, <2>1 DEF Doc
<1>3. Doc(Len(changes))' = c.after
  <2>1. Len(changes') # 0 /\ changes'[Len(changes')] = c
    BY <1>1
  <2> QED
    BY <1>1, <2>1 DEF Doc
<1> QED
  BY <1>1, <1>2, <1>3

\* The attempt and what it was given depend on the history only through the
\* documents its numbers name.
LEMMA AttemptStays ==
    ASSUME AttemptInv, UNCHANGED <<status, attempt, engine, given, finished, stops>>,
           scope # None => scope' # None,
           \A n \in 0..Len(changes) : n \in 0..Len(changes') /\ Doc(n)' = Doc(n)
    PROVE  AttemptInv'
<1>1. ASSUME NEW n, NEW v, Bound(n, v) PROVE Bound(n, v)'
  BY <1>1 DEF Bound
<1>2. AttemptTypes' /\ GivenRow'
  BY DEF AttemptInv, AttemptTypes, GivenRow, NextId
<1>3. BindingRow'
  BY <1>1 DEF AttemptInv, BindingRow, Working
<1>4. ASSUME NEW i \in 1..Len(finished) PROVE SettledRow(finished[i])'
  <2> DEFINE s == finished[i]
  <2>1. SettledRow(s) /\ Bound(s.number, Doc(s.number))
    BY DEF AttemptInv, SettledRow
  <2>2. s.number \in 0..Len(changes) /\ Bound(s.number, Doc(s.number))'
    BY <2>1 DEF Bound
  <2>3. Doc(s.number)' = Doc(s.number)
    BY <2>2
  <2> QED
    BY <2>1, <2>2, <2>3 DEF SettledRow, NextId
<1> QED
  BY <1>2, <1>3, <1>4 DEF AttemptInv

-----------------------------------------------------------------------------
(* What the steps of a request do to the history.                          *)

LEMMA OneRequest ==
    ASSUME HistoryInv, HistoryTypes', UNCHANGED <<scope, changes, broken>>,
           NEW q \in ChangeRequests, RequestRow(q)',
           \A p \in ChangeRequests \ {q} :
              sent'[p] = sent[p] /\ call'[p] = call[p] /\ answer'[p] = answer[p]
    PROVE  HistoryInv'
<1>1. \A n : Doc(n)' = Doc(n)
  BY DEF Doc
<1>2. ChainRow'
  BY <1>1 DEF HistoryInv, ChainRow
<1>3. ASSUME NEW p \in ChangeRequests \ {q} PROVE RequestRow(p)'
  <2>1. RequestRow(p) /\ (Done(p)' <=> Done(p))
    BY DEF HistoryInv, Done
  <2> QED
    BY <2>1 DEF RequestRow
<1> QED
  BY <1>2, <1>3 DEF HistoryInv

\* The server's memory of one request.
LEMMA CallMoves ==
    ASSUME HistoryInv, UNCHANGED <<scope, changes, broken, sent, answer>>,
           NEW q \in ChangeRequests, NEW x \in CallState, call' = [call EXCEPT ![q] = x],
           answer[q] = None, sent[q] # None,
           x.phase \in {"resolving", "committing"} => scope # None,
           x.phase = "resolving" /\ q \notin broken => ~Done(q),
           x.phase = "committing" =>
              /\ ~Done(q)
              /\ SE!Applies(sent[q].patch, x.value)
              /\ sent[q].expected \in {None, x.number},
           x.phase = "answering" =>
              /\ x.outcome = "accepted" => Done(q)
              /\ x.outcome = "rejected" /\ q \notin broken => ~Done(q),
           x.phase # "idle"
    PROVE  HistoryInv'
<1>1. HistoryTypes'
  BY DEF HistoryInv, HistoryTypes
<1>2. call'[q] = x /\ \A p \in ChangeRequests \ {q} : call'[p] = call[p]
  BY DEF HistoryInv, HistoryTypes
<1>3. RequestRow(q) /\ (Done(q)' <=> Done(q))
  BY DEF HistoryInv, Done
<1>4. None \notin {"accepted", "rejected"}
  BY SettingsAssumption
<1>5. RequestRow(q)'
  BY <1>2, <1>3, <1>4 DEF RequestRow
<1> QED
  BY <1>1, <1>2, <1>5, OneRequest

\* The server's answer to a request that is not in the history, or is.
LEMMA AnswerGiven ==
    ASSUME HistoryInv, UNCHANGED <<scope, changes, broken, sent, answer>>,
           NEW q \in ChangeRequests, answer[q] = None, sent[q] # None,
           \/ call' = SE!Refusing(q) /\ (q \notin broken => ~Done(q))
           \/ call' = SE!Granting(q) /\ Done(q)
    PROVE  HistoryInv'
<1>1. CASE call' = SE!Refusing(q) /\ (q \notin broken => ~Done(q))
  <2> DEFINE x == [phase |-> "answering", outcome |-> "rejected"]
  <2>1. /\ x \in CallState /\ x.phase = "answering" /\ x.outcome = "rejected"
        /\ call' = [call EXCEPT ![q] = x]
    BY <1>1 DEF CallState, SE!Refusing
  <2> HIDE DEF x
  <2> QED
    BY <1>1, <2>1, CallMoves
<1>2. CASE call' = SE!Granting(q) /\ Done(q)
  <2> DEFINE x == [phase |-> "answering", outcome |-> "accepted"]
  <2>1. /\ x \in CallState /\ x.phase = "answering" /\ x.outcome = "accepted"
        /\ call' = [call EXCEPT ![q] = x]
    BY <1>2 DEF CallState, SE!Granting
  <2> HIDE DEF x
  <2> QED
    BY <1>2, <2>1, CallMoves
<1> QED
  BY <1>1, <1>2

LEMMA RequestStep ==
    ASSUME HistoryInv, NEW q \in ChangeRequests,
           SE!SendChange(q) \/ SE!ReadScope(q) \/ SE!EnterStore(q) \/ SE!StoreAnswer(q)
    PROVE  HistoryInv'
<1>1. UNCHANGED <<scope, changes, broken>> /\ HistoryTypes /\ RequestRow(q)
  BY DEF HistoryInv, SE!SendChange, SE!ReadScope, SE!EnterStore, SE!StoreAnswer
<1>2. /\ None \notin {"accepted", "rejected"} /\ None \notin Contents
      /\ Contents \subseteq [patch : Patch, expected : Nat \cup {None}]
  BY SettingsAssumption DEF Patch
<1>3. Done(q)' <=> Done(q)
  BY <1>1 DEF Done
<1>4. CASE SE!SendChange(q)
  <2>1. PICK c \in Contents : sent[q] = None /\ sent' = [sent EXCEPT ![q] = c]
    BY <1>4 DEF SE!SendChange
  <2>2. UNCHANGED <<call, answer>>
    BY <1>4 DEF SE!SendChange
  <2>3. HistoryTypes' /\ \A p \in ChangeRequests \ {q} : sent'[p] = sent[p]
    BY <1>1, <2>1, <2>2 DEF HistoryTypes
  <2>4. sent'[q] = c /\ c # None
    BY <1>1, <1>2, <2>1 DEF HistoryTypes
  <2>5. RequestRow(q)'
    BY <1>1, <1>3, <2>1, <2>2, <2>4 DEF RequestRow
  <2> QED
    BY <1>1, <2>2, <2>3, <2>5, OneRequest
<1>5. CASE SE!ReadScope(q)
  <2>1. /\ sent[q] # None /\ answer[q] = None /\ call[q].phase = "idle"
        /\ UNCHANGED <<sent, answer>>
    BY <1>5 DEF SE!ReadScope
  <2>2. q \notin broken => ~Done(q)
    BY <1>1, <2>1 DEF RequestRow
  <2>3. CASE scope = None
    <3>1. call' = SE!Refusing(q)
      BY <1>5, <2>3 DEF SE!ReadScope
    <3> QED
      BY <1>1, <2>1, <2>2, <3>1, AnswerGiven
  <2>4. CASE scope # None
    <3> DEFINE x == [phase |-> "resolving", number |-> scope.revision,
                     value |-> scope.value]
    <3>1. /\ x \in CallState /\ x.phase = "resolving"
          /\ call' = [call EXCEPT ![q] = x]
      BY <1>1, <1>5, <2>4 DEF SE!ReadScope, HistoryTypes, CallState
    <3> HIDE DEF x
    <3> QED
      BY <1>1, <2>1, <2>2, <2>4, <3>1, CallMoves
  <2> QED
    BY <2>3, <2>4
<1>6. CASE SE!EnterStore(q)
  <2>1. call[q].phase = "resolving" /\ UNCHANGED <<sent, answer>>
    BY <1>6 DEF SE!EnterStore
  <2>2. /\ sent[q] # None /\ answer[q] = None /\ scope # None
        /\ q \notin broken => ~Done(q)
    BY <1>1, <2>1 DEF RequestRow
  <2>3. Done(q) <=> \E i \in DOMAIN changes : changes[i].request = q
    BY <1>1, LenProperties DEF HistoryTypes, Done
  <2>4. CASE call' = SE!Refusing(q)
    BY <1>1, <2>1, <2>2, <2>4, AnswerGiven
  <2>5. CASE call' = SE!Granting(q) /\ Done(q)
    BY <1>1, <2>1, <2>2, <2>5, AnswerGiven
  <2>6. CASE /\ ~Done(q) /\ SE!ExpectedOf(q) = scope.revision
             /\ SE!Applies(sent[q].patch, scope.value)
             /\ call' = [call EXCEPT ![q] = [phase |-> "committing",
                                             number |-> scope.revision,
                                             value |-> scope.value]]
    <3> DEFINE x == [phase |-> "committing", number |-> scope.revision,
                     value |-> scope.value]
    <3>1. /\ x \in CallState /\ x.phase = "committing" /\ x.number = scope.revision
          /\ x.value = scope.value /\ call' = [call EXCEPT ![q] = x]
      BY <1>1, <2>2, <2>6 DEF HistoryTypes, CallState
    <3>2. sent[q].expected \in {None, scope.revision}
      BY <2>6 DEF SE!ExpectedOf
    <3> HIDE DEF x
    <3> QED
      BY <1>1, <2>1, <2>2, <2>6, <3>1, <3>2, CallMoves
  <2> QED
    BY <1>6, <2>3, <2>4, <2>5, <2>6 DEF SE!EnterStore
<1>7. CASE SE!StoreAnswer(q)
  <2>1. /\ call[q].phase = "answering" /\ UNCHANGED sent
        /\ answer' = [answer EXCEPT ![q] = call[q].outcome]
        /\ call' = [call EXCEPT ![q] = SE!Idle]
    BY <1>7 DEF SE!StoreAnswer
  <2>2. call[q] \in CallState /\ call[q].outcome \in {"accepted", "rejected"}
    BY <1>1, <2>1 DEF HistoryTypes, CallState, SE!Idle
  <2>3. SE!Idle \in CallState /\ SE!Idle.phase = "idle"
    BY DEF CallState, SE!Idle
  <2>4. /\ HistoryTypes'
        /\ \A p \in ChangeRequests \ {q} : call'[p] = call[p] /\ answer'[p] = answer[p]
    BY <1>1, <2>1, <2>2, <2>3 DEF HistoryTypes
  <2>5. call'[q] = SE!Idle /\ answer'[q] = call[q].outcome
    BY <1>1, <2>1 DEF HistoryTypes
  <2>6. RequestRow(q)'
    BY <1>1, <1>2, <1>3, <2>1, <2>2, <2>3, <2>5 DEF RequestRow
  <2> QED
    BY <1>1, <2>1, <2>4, <2>6, OneRequest
<1> QED
  BY <1>4, <1>5, <1>6, <1>7

\* The transaction of a change.
LEMMA CommitStep ==
    ASSUME HistoryInv, NEW q \in ChangeRequests, SE!CommitChange(q)
    PROVE  /\ HistoryInv'
           /\ scope # None => scope' # None
           /\ \A n \in 0..Len(changes) : n \in 0..Len(changes') /\ Doc(n)' = Doc(n)
<1>1. /\ call[q].phase = "committing" /\ UNCHANGED <<sent, answer, broken>>
      /\ HistoryTypes /\ ChainRow /\ RequestRow(q)
  BY DEF HistoryInv, SE!CommitChange
<1>2. /\ sent[q] # None /\ answer[q] = None /\ scope # None /\ ~Done(q)
      /\ SE!Applies(sent[q].patch, call[q].value)
      /\ sent[q].expected \in {None, call[q].number}
  BY <1>1, SettingsAssumption DEF RequestRow
<1>3. CASE ~SE!Unchanged(q)
  <2>1. call' = SE!Refusing(q) /\ UNCHANGED <<scope, changes>>
    BY <1>3 DEF SE!CommitChange
  <2>2. HistoryInv'
    BY <1>1, <1>2, <2>1, AnswerGiven
  <2> QED
    BY <2>1, <2>2 DEF Doc
<1>4. CASE SE!Unchanged(q)
  <2> DEFINE c == [request |-> q, patch |-> sent[q].patch, number |-> scope.revision + 1,
                   before |-> call[q].value, after |-> sent[q].patch.set]
             L == Len(changes)
  <2>1. /\ scope.revision = call[q].number /\ scope.value = call[q].value
        /\ changes' = Append(changes, c)
        /\ scope' = [value |-> sent[q].patch.set, revision |-> scope.revision + 1]
        /\ call' = SE!Granting(q)
    BY <1>4 DEF SE!CommitChange, SE!Unchanged
  <2>2. /\ sent[q] \in [patch : Patch, expected : Nat \cup {None}]
        /\ scope \in [value : Nat, revision : Nat]
        /\ changes \in Seq(Change) /\ L \in Nat
    BY <1>1, <1>2, SettingsAssumption, LenProperties DEF HistoryTypes, Patch
  <2>3. /\ c \in Change
        /\ c.request = q /\ c.patch = sent[q].patch /\ c.number = L + 1
        /\ c.before = Doc(L) /\ c.after = sent[q].patch.set
    BY <1>1, <1>2, <2>1, <2>2 DEF ChainRow, Change, Patch
  <2>4. scope' = [value |-> c.after, revision |-> L + 1]
    BY <1>1, <1>2, <2>1, <2>3 DEF ChainRow
  <2>4a. SE!Applies(c.patch, Doc(L)) /\ sent[q].expected \in {None, L}
    BY <1>1, <1>2, <2>1, <2>3 DEF ChainRow
  <2>4b. c.after \in Nat
    BY <2>3 DEF Change
  <2> HIDE DEF c
  <2>5. /\ changes' \in Seq(Change) /\ Len(changes') = L + 1 /\ changes'[L + 1] = c
        /\ \A i \in 1..L : changes'[i] = changes[i]
        /\ \A n \in 0..L : n \in 0..Len(changes') /\ Doc(n)' = Doc(n)
        /\ Doc(Len(changes))' = c.after
    BY <2>1, <2>2, <2>3, HistoryGrows
  <2> HIDE DEF L
  <2>6. scope' # None /\ scope' \in [value : Nat, revision : Nat]
    BY <2>2, <2>4, <2>4b, SettingsAssumption
  <2> DEFINE x == [phase |-> "answering", outcome |-> "accepted"]
  <2>7. x \in CallState /\ call' = [call EXCEPT ![q] = x]
    BY <2>1 DEF SE!Granting, CallState
  <2>8. call'[q] = x /\ \A p \in ChangeRequests \ {q} : call'[p] = call[p]
    BY <1>1, <2>7 DEF HistoryTypes
  <2>9. HistoryTypes'
    BY <1>1, <2>5, <2>6, <2>7 DEF HistoryTypes
  <2>10. ChainRow'
    <3>1. scope' # None => scope'.revision = Len(changes') /\ scope'.value = Doc(Len(changes))'
      BY <2>4, <2>5
    <3>2. ASSUME NEW i \in 1..Len(changes')
          PROVE  /\ changes'[i].number = i /\ changes'[i].before = Doc(i - 1)'
                 /\ SE!Applies(changes'[i].patch, Doc(i - 1)')
      <4>1. CASE i = L + 1
        <5>1. Doc(i - 1)' = Doc(L) /\ i - 1 = L
          BY <2>2, <2>5, <4>1
        <5> QED
          BY <2>3, <2>4a, <2>5, <4>1, <5>1
      <4>2. CASE i # L + 1
        <5>1. i \in 1..L /\ i - 1 \in 0..L
          BY <2>2, <2>5, <4>2
        <5>2. changes'[i] = changes[i] /\ Doc(i - 1)' = Doc(i - 1)
          BY <2>5, <5>1
        <5> QED
          BY <1>1, <5>1, <5>2 DEF ChainRow, L
      <4> QED
        BY <4>1, <4>2
    <3> QED
      BY <2>6, <3>1, <3>2 DEF ChainRow, SE!Applies
  <2>11. ASSUME NEW p \in ChangeRequests \ {q} PROVE RequestRow(p)'
    <3>1. RequestRow(p) /\ c.request # p
      BY <2>3 DEF HistoryInv
    <3>2. \A i \in 1..Len(changes') : changes'[i].request = p =>
              i \in 1..L /\ changes[i].request = p
      BY <2>2, <2>5, <3>1
    <3>3. Done(p)' <=> Done(p)
      BY <2>2, <2>5, <3>2 DEF Done, L
    <3> QED
      BY <1>1, <2>6, <2>8, <3>1, <3>2, <3>3 DEF RequestRow, L
  <2>12. RequestRow(q)'
    <3>1. \A i \in 1..Len(changes') : changes'[i].request = q => i = L + 1
      BY <1>2, <2>2, <2>5 DEF Done, L
    <3>2. Done(q)'
      BY <2>2, <2>3, <2>5 DEF Done
    <3>3. call'[q].phase = "answering" /\ call'[q].outcome = "accepted"
      BY <2>8
    <3>4. \A i \in 1..Len(changes') :
             changes'[i].request = q => sent'[q] # None /\ sent'[q].expected \in {None, i - 1}
      BY <1>1, <1>2, <2>2, <2>4a, <3>1
    <3> QED
      BY <1>1, <1>2, <3>1, <3>2, <3>3, <3>4, SettingsAssumption DEF RequestRow
  <2>13. \A p \in ChangeRequests : RequestRow(p)'
    BY <2>11, <2>12
  <2> QED
    BY <2>5, <2>6, <2>9, <2>10, <2>13 DEF HistoryInv, L
<1> QED
  BY <1>3, <1>4

\* A step of the run: at most the scope comes to be.
LEMMA HistoryStays ==
    ASSUME HistoryInv, UNCHANGED SE!editVars,
           scope' = scope \/ (scope = None /\ scope' = SE!First)
    PROVE  /\ HistoryInv'
           /\ scope # None => scope' # None
           /\ \A n \in 0..Len(changes) : n \in 0..Len(changes') /\ Doc(n)' = Doc(n)
<1>1. UNCHANGED <<changes, sent, call, answer, broken>>
  BY DEF SE!editVars
<1>2. SE!First \in [value : Nat, revision : Nat] /\ SE!First # None
  BY SettingsAssumption DEF SE!First
<1>3. \A n : Doc(n)' = Doc(n)
  BY <1>1 DEF Doc
<1>4. HistoryTypes'
  BY <1>1, <1>2 DEF HistoryInv, HistoryTypes
<1>5. ChainRow'
  <2>1. CASE scope' = scope
    BY <1>1, <1>3, <2>1 DEF HistoryInv, ChainRow
  <2>2. CASE scope = None /\ scope' = SE!First
    <3>1. changes = << >> /\ changes' = << >> /\ Len(changes) = 0
      BY <1>1, <2>2 DEF HistoryInv, ChainRow
    <3>2. Doc(Len(changes))' = 0
      BY <1>1, <3>1 DEF Doc
    <3> QED
      BY <1>2, <2>2, <3>1, <3>2 DEF ChainRow, SE!First
  <2> QED
    BY <2>1, <2>2
<1>6. ASSUME NEW q \in ChangeRequests PROVE RequestRow(q)'
  <2>1. RequestRow(q) /\ (Done(q)' <=> Done(q))
    BY <1>1 DEF HistoryInv, Done
  <2> QED
    BY <1>1, <1>2, <2>1 DEF RequestRow
<1> QED
  BY <1>1, <1>2, <1>3, <1>4, <1>5, <1>6 DEF HistoryInv

\* A crash forgets the calls; the history and the answers stay.
LEMMA CrashKeepsHistory ==
    ASSUME HistoryInv, SE!CrashServer
    PROVE  HistoryInv'
<1>1. /\ UNCHANGED <<scope, changes, sent, answer>>
      /\ call' = [q \in ChangeRequests |-> SE!Idle]
      /\ broken' = broken \cup {q \in ChangeRequests : call[q].phase = "answering"}
  BY DEF SE!CrashServer
<1>2. \A n : Doc(n)' = Doc(n)
  BY <1>1 DEF Doc
<1>3. HistoryTypes'
  BY <1>1 DEF HistoryInv, HistoryTypes, CallState
<1>4. ChainRow'
  BY <1>1, <1>2 DEF HistoryInv, ChainRow
<1>5. ASSUME NEW q \in ChangeRequests PROVE RequestRow(q)'
  <2>1. RequestRow(q) /\ (Done(q)' <=> Done(q)) /\ call[q] \in CallState
    BY <1>1 DEF HistoryInv, Done, HistoryTypes
  <2>2. /\ call'[q].phase = "idle" /\ sent'[q] = sent[q] /\ answer'[q] = answer[q]
        /\ q \notin broken' => q \notin broken /\ call[q].phase # "answering"
    BY <1>1 DEF SE!Idle
  <2>3. call[q].phase \in {"idle", "resolving", "committing", "answering"}
    BY <2>1 DEF CallState, SE!Idle
  <2> QED
    BY <1>1, <2>1, <2>2, <2>3 DEF RequestRow
<1> QED
  BY <1>3, <1>4, <1>5 DEF HistoryInv

-----------------------------------------------------------------------------
(* What the steps of the run do to the attempt.                            *)

\* What is current is the end of the history.
LEMMA LatestIsBound ==
    ASSUME HistoryTypes, ChainRow, scope # None
    PROVE  scope.revision \in Nat /\ scope.value \in Nat
           /\ Bound(scope.revision, scope.value)
BY LenProperties DEF HistoryTypes, ChainRow, Bound

\* Only an attempt in flight is given more: what settled keeps its row.
LEMMA SettledStay ==
    ASSUME AttemptInv, AttemptTypes', UNCHANGED <<changes, finished>>,
           scope # None => scope' # None, NextId <= NextId',
           attempt' = None \/ (attempt # None /\ attempt'.id = attempt.id)
              \/ attempt'.id = NextId,
           given \subseteq given',
           \A g \in given' \ given : attempt' # None /\ g[1] = attempt'.id
    PROVE  (\A i \in 1..Len(finished) : SettledRow(finished[i]))'
<1>1. \A n : Doc(n)' = Doc(n)
  BY DEF Doc
<1>2. ASSUME NEW n, NEW v, Bound(n, v) PROVE Bound(n, v)'
  BY <1>1, <1>2 DEF Bound
<1>3. NextId \in Nat /\ NextId' \in Nat /\ finished \in Seq(Settled)
  BY LenProperties DEF AttemptInv, AttemptTypes, NextId
<1>4. ASSUME NEW i \in 1..Len(finished) PROVE SettledRow(finished[i])'
  <2> DEFINE s == finished[i]
  <2>1. SettledRow(s) /\ s \in Settled
    BY <1>3 DEF AttemptInv
  <2>2. Bound(s.number, Doc(s.number))' /\ Doc(s.number)' = Doc(s.number)
    BY <1>1, <1>2, <2>1 DEF SettledRow
  <2>3. s.id \in Nat /\ s.id < NextId /\ (attempt # None => s.id # attempt.id)
    BY <2>1 DEF SettledRow, Settled
  <2>4. s.id < NextId'
    BY <1>3, <2>3
  <2>5. attempt' # None => s.id # attempt'.id
    BY <1>3, <2>3
  <2>6. \A g \in given' : g[1] = s.id => g \in given
    BY <2>5
  <2> QED
    BY <2>1, <2>2, <2>4, <2>5, <2>6 DEF SettledRow
<1> QED
  BY <1>4

LEMMA CaptureKeeps ==
    ASSUME SettingsInv, SE!Capture
    PROVE  SettingsInv'
<1>1. /\ engine.phase = "ready" /\ status = "running"
      /\ scope' = IF scope = None THEN SE!First ELSE scope
      /\ engine' = [phase |-> "captured", number |-> scope'.revision,
                    value |-> scope'.value, retries |-> 0]
      /\ UNCHANGED <<status, attempt, given, finished, local, stops>>
      /\ UNCHANGED SE!editVars
  BY DEF SE!Capture, SE!Runs
<1>2. HistoryInv' /\ (scope # None => scope' # None)
  BY <1>1, HistoryStays DEF SettingsInv
<1>3. UNCHANGED <<changes, sent, call, answer, broken>> /\ scope' # None
  BY <1>1, SettingsAssumption DEF SE!editVars, SE!First
<1>4. scope'.revision \in Nat /\ scope'.value \in Nat /\ Bound(scope.revision, scope.value)'
  <2>1. scope' \in [value : Nat, revision : Nat]
    BY <1>2, <1>3 DEF HistoryInv, HistoryTypes
  <2>2. scope'.revision = Len(changes') /\ scope'.value = Doc(Len(changes))'
    BY <1>2, <1>3 DEF HistoryInv, ChainRow
  <2>3. Bound(Len(changes), Doc(Len(changes)))'
    BY <1>2, <1>3, LenProperties DEF HistoryInv, HistoryTypes, Bound
  <2> QED
    BY <2>1, <2>2, <2>3
<1>5. AttemptTypes'
  BY <1>1, <1>4 DEF SettingsInv, AttemptInv, AttemptTypes, Engine
<1>6. attempt = None /\ attempt' = None /\ status' = "running"
  BY <1>1 DEF SettingsInv, AttemptInv, BindingRow
<1>7. BindingRow'
  <2>1. /\ engine'.phase = "captured" /\ engine'.number = scope'.revision
        /\ engine'.value = scope'.value
    BY <1>1
  <2> QED
    BY <1>4, <1>6, <2>1 DEF BindingRow, Working
<1>8. GivenRow'
  BY <1>1, <1>6 DEF SettingsInv, AttemptInv, GivenRow, NextId
<1>9. (\A i \in 1..Len(finished) : SettledRow(finished[i]))'
  <2>1. NextId' = NextId /\ NextId \in Nat
    BY <1>1, LenProperties DEF NextId, SettingsInv, AttemptInv, AttemptTypes
  <2>2. /\ NextId <= NextId' /\ AttemptInv /\ given \subseteq given'
        /\ \A g \in given' \ given : attempt' # None /\ g[1] = attempt'.id
        /\ UNCHANGED <<changes, finished>>
    BY <1>1, <1>3, <2>1 DEF SettingsInv
  <2> QED
    BY <1>2, <1>5, <1>6, <2>2, SettledStay
<1> QED
  BY <1>2, <1>5, <1>7, <1>8, <1>9 DEF SettingsInv, AttemptInv

LEMMA StartKeeps ==
    ASSUME SettingsInv, SE!StartNode
    PROVE  SettingsInv'
<1>1. /\ engine.phase = "captured" /\ status = "running"
      /\ engine' = [engine EXCEPT !.phase = "executing"]
      /\ given' = given \cup {<<attempt'.id, engine.value>>}
      /\ UNCHANGED <<scope, status, finished, local, stops>> /\ UNCHANGED SE!editVars
  BY DEF SE!StartNode, SE!Runs, SE!Give
<1>2. PICK kind \in {"route", "agent", "message"} :
         attempt' = [id |-> NextId, kind |-> kind, number |-> engine.number,
                     value |-> engine.value, answered |-> FALSE]
  BY DEF SE!StartNode, SE!NewAttempt, NextId
<1>3. UNCHANGED <<changes, sent, call, answer, broken>> /\ HistoryInv'
  BY <1>1, HistoryStays DEF SettingsInv, SE!editVars
<1>4. NextId' = NextId /\ NextId \in Nat
  BY <1>1, LenProperties DEF NextId, SettingsInv, AttemptInv, AttemptTypes
<1>5. /\ engine \in [phase : {"captured", "executing", "rebound"}, number : Nat,
                     value : Nat, retries : Nat]
      /\ Bound(engine.number, engine.value) /\ attempt = None
  BY <1>1 DEF SettingsInv, AttemptInv, AttemptTypes, BindingRow, Engine, SE!Stopped
<1>6. /\ attempt' \in Attempt /\ attempt' # None
      /\ attempt'.id = NextId /\ attempt'.number = engine.number
      /\ attempt'.value = engine.value
  <2>1. engine.number \in Nat /\ engine.value \in Nat
    BY <1>5
  <2>2. attempt' \in Attempt
    BY <1>2, <1>4, <2>1 DEF Attempt
  <2> QED
    BY <1>2, <2>2, SettingsAssumption DEF Attempt
<1>7. /\ engine' \in Engine /\ engine'.phase = "executing"
      /\ engine'.number = engine.number /\ engine'.value = engine.value
  <2>1. /\ engine' \in [phase : {"captured", "executing", "rebound"}, number : Nat,
                        value : Nat, retries : Nat]
        /\ engine'.phase = "executing"
        /\ engine'.number = engine.number /\ engine'.value = engine.value
    BY <1>1, <1>5
  <2> QED
    BY <2>1 DEF Engine
<1>8. AttemptTypes'
  BY <1>1, <1>4, <1>5, <1>6, <1>7 DEF SettingsInv, AttemptInv, AttemptTypes
<1>9. Bound(engine.number, engine.value)'
  <2>1. \A n : Doc(n)' = Doc(n)
    BY <1>3 DEF Doc
  <2> QED
    BY <1>1, <1>3, <1>5, <1>7, <2>1 DEF Bound
<1>10. BindingRow'
  <2>1. <<attempt'.id, engine'.value>> \in given'
    BY <1>1, <1>7
  <2> QED
    BY <1>1, <1>6, <1>7, <1>9, <2>1 DEF BindingRow, Working
<1>11. GivenRow'
  <2>1. \A g \in given : g[1] < NextId
    BY <1>5 DEF SettingsInv, AttemptInv, GivenRow
  <2>2. given \subseteq Nat \X Nat
    BY DEF SettingsInv, AttemptInv, AttemptTypes
  <2>3. \A g \in given' : g[1] < NextId \/ (g[1] = NextId /\ g[2] = engine.value)
    BY <1>1, <1>6, <2>1
  <2>4. \A g \in given' : g[1] <= NextId /\ (g[1] = NextId => g[2] = engine.value)
    BY <1>4, <2>1, <2>2, <2>3, <1>1, <1>6
  <2> QED
    BY <1>1, <1>4, <1>6, <1>7, <2>4 DEF GivenRow
<1>12. (\A i \in 1..Len(finished) : SettledRow(finished[i]))'
  <2>1. \A g \in given' \ given : attempt' # None /\ g[1] = attempt'.id
    BY <1>1, <1>6
  <2> QED
    BY <1>1, <1>3, <1>4, <1>6, <1>8, <2>1, SettledStay DEF SettingsInv
<1> QED
  BY <1>3, <1>8, <1>10, <1>11, <1>12 DEF SettingsInv, AttemptInv

\* The runner stops, is parked or dies, the server crashes, the run ends, or
\* an answer arrives: the attempt keeps its binding and is given nothing.
LEMMA StopKeeps ==
    ASSUME SettingsInv, UNCHANGED <<scope, changes, given, finished>>,
           \/ /\ UNCHANGED <<attempt, engine, status>> /\ stops' = stops + 1
           \/ /\ engine' = SE!Stopped /\ UNCHANGED attempt
              /\ status' = "waiting" => attempt # None
              /\ stops' = stops + 1 \/ (stops' = stops /\ status' # "running")
           \/ /\ UNCHANGED <<engine, status, stops>> /\ engine = SE!Stopped
              /\ attempt # None /\ attempt' = [attempt EXCEPT !.answered = TRUE]
    PROVE  AttemptInv'
<1>1. UNCHANGED <<scope, changes>> /\ stops' \in Nat /\ (stops' = stops \/ stops' = stops + 1)
  BY DEF SettingsInv, AttemptInv, AttemptTypes
<1>2. /\ NextId \in Nat /\ NextId' \in Nat /\ NextId <= NextId'
      /\ NextId' = NextId \/ NextId' = NextId + 1
      /\ given \subseteq Nat \X Nat /\ attempt \in Attempt \cup {None}
  BY LenProperties DEF NextId, SettingsInv, AttemptInv, AttemptTypes
<1>3. /\ attempt' \in Attempt \cup {None} /\ (attempt' = None <=> attempt = None)
      /\ attempt # None => /\ attempt'.id = attempt.id /\ attempt'.number = attempt.number
                           /\ attempt'.value = attempt.value /\ attempt'.kind = attempt.kind
  BY <1>2, SettingsAssumption DEF Attempt
<1>4. AttemptTypes'
  <2>1. engine' \in Engine
    BY DEF SettingsInv, AttemptInv, AttemptTypes, Engine
  <2> QED
    BY <1>1, <1>3, <2>1 DEF SettingsInv, AttemptInv, AttemptTypes
<1>5. \/ UNCHANGED <<attempt, engine, status>> /\ stops' = stops + 1
      \/ engine'.phase = "stopped" /\ (status' = "waiting" => attempt # None)
  BY DEF SE!Stopped, SettingsInv, AttemptInv, BindingRow
<1>6. BindingRow'
  <2>1. ASSUME NEW n, NEW v, Bound(n, v) PROVE Bound(n, v)'
    BY <1>1, <2>1 DEF Bound, Doc
  <2>2. attempt' # None => Bound(attempt.number, attempt.value)'
    BY <1>1, <1>3, <2>1 DEF SettingsInv, AttemptInv, BindingRow
  <2>3. CASE UNCHANGED <<attempt, engine, status>>
    BY <2>1, <2>2, <2>3 DEF SettingsInv, AttemptInv, BindingRow, Working
  <2>4. CASE engine'.phase = "stopped" /\ (status' = "waiting" => attempt # None)
    BY <1>3, <2>2, <2>4 DEF BindingRow, Working
  <2> QED
    BY <1>5, <2>3, <2>4
<1>7. GivenRow'
  <2>1. \A g \in given : g[1] \in Nat /\ g[1] <= NextId
    BY <1>2 DEF SettingsInv, AttemptInv, GivenRow
  <2>2. \A g \in given' : g[1] <= NextId'
    BY <1>2, <2>1
  <2>3. attempt' = None \/ (engine'.phase = "stopped" /\ status' = "running") =>
           \A g \in given' : g[1] < NextId'
    <3>1. CASE stops' = stops + 1
      <4>1. NextId' = NextId + 1
        BY <3>1, LenProperties DEF NextId, SettingsInv, AttemptInv, AttemptTypes
      <4> QED
        BY <1>2, <2>1, <4>1
    <3>2. CASE stops' = stops
      <4>1. /\ NextId' = NextId
            /\ status' = "running" => status = "running" /\ engine.phase = "stopped"
        BY <1>1, <3>2 DEF NextId, SE!Stopped, SettingsInv, AttemptInv, AttemptTypes
      <4> QED
        BY <1>3, <3>2, <4>1 DEF SettingsInv, AttemptInv, GivenRow
    <3> QED
      BY <1>1, <3>1, <3>2
  <2>4. attempt' # None /\ attempt'.kind # "route" =>
           \A g \in given' : g[1] = attempt'.id => g[2] = attempt'.value
    BY <1>3 DEF SettingsInv, AttemptInv, GivenRow
  <2>5. attempt' # None => attempt'.id <= NextId'
    <3>1. attempt' # None => attempt'.id \in Nat /\ attempt'.id <= NextId
      BY <1>2, <1>3 DEF SettingsInv, AttemptInv, GivenRow, Attempt
    <3> QED
      BY <1>2, <3>1
  <2> QED
    BY <2>2, <2>3, <2>4, <2>5 DEF GivenRow
<1>8. (\A i \in 1..Len(finished) : SettledRow(finished[i]))'
  BY <1>1, <1>2, <1>3, <1>4, SettledStay DEF SettingsInv
<1> QED
  BY <1>1, <1>4, <1>6, <1>7, <1>8 DEF SettingsInv, AttemptInv

LEMMA ResumeKeeps ==
    ASSUME SettingsInv, SE!ResumeRun
    PROVE  SettingsInv'
<1>1. /\ engine.phase = "stopped" /\ status' = "running"
      /\ status = "running" \/ (status = "waiting" /\ attempt.answered)
      /\ UNCHANGED <<scope, finished, local, stops>> /\ UNCHANGED SE!editVars
  BY DEF SE!ResumeRun, SE!Runs
<1>2. UNCHANGED <<changes, sent, call, answer, broken>> /\ HistoryInv'
  BY <1>1, HistoryStays DEF SettingsInv, SE!editVars
<1>3. NextId' = NextId /\ NextId \in Nat /\ given \subseteq Nat \X Nat
  BY <1>1, LenProperties DEF NextId, SettingsInv, AttemptInv, AttemptTypes
<1>4. CASE SE!KeepsAttempt
  <2>1. /\ attempt # None /\ attempt' = attempt
        /\ engine' = [phase |-> "executing", number |-> attempt.number,
                      value |-> SE!ValueAt(attempt.number), retries |-> 0]
        /\ given' = given \cup {<<attempt.id, SE!ValueAt(attempt.number)>>}
    BY <1>1, <1>4 DEF SE!ResumeRun, SE!KeepsAttempt, SE!SavedBinding, SE!Give
  <2>2. attempt \in Attempt /\ Bound(attempt.number, attempt.value)
    BY <2>1 DEF SettingsInv, AttemptInv, AttemptTypes, BindingRow
  <2>3. SE!ValueAt(attempt.number) = attempt.value
    BY <2>2, DocumentAt DEF SettingsInv, HistoryInv, Bound
  <2>4. /\ engine' \in Engine /\ engine'.phase = "executing"
        /\ engine'.number = attempt.number /\ engine'.value = attempt.value
    BY <2>1, <2>2, <2>3 DEF Engine, Attempt
  <2>5. given' = given \cup {<<attempt.id, attempt.value>>}
    BY <2>1, <2>3
  <2>6. AttemptTypes'
    BY <1>1, <1>3, <2>1, <2>2, <2>4, <2>5 DEF SettingsInv, AttemptInv, AttemptTypes, Attempt
  <2>7. Bound(attempt.number, attempt.value)'
    <3>1. \A n : Doc(n)' = Doc(n)
      BY <1>2 DEF Doc
    <3> QED
      BY <1>1, <1>2, <2>1, <2>2, <3>1 DEF Bound
  <2>8. BindingRow'
    BY <1>1, <2>1, <2>4, <2>5, <2>7 DEF BindingRow, Working
  <2>9. GivenRow'
    <3>1. /\ \A g \in given : g[1] <= NextId
          /\ attempt.kind # "route" =>
                \A g \in given : g[1] = attempt.id => g[2] = attempt.value
          /\ attempt.id <= NextId
      BY <2>1 DEF SettingsInv, AttemptInv, GivenRow
    <3> QED
      BY <1>3, <2>1, <2>4, <2>5, <3>1 DEF GivenRow
  <2>10. (\A i \in 1..Len(finished) : SettledRow(finished[i]))'
    BY <1>1, <1>2, <1>3, <2>1, <2>5, <2>6, SettledStay DEF SettingsInv
  <2> QED
    BY <1>2, <2>6, <2>8, <2>9, <2>10 DEF SettingsInv, AttemptInv
<1>5. CASE ~SE!KeepsAttempt
  <2>1. /\ engine' = [phase |-> "ready"] /\ attempt' = None /\ given' = given
    BY <1>5 DEF SE!ResumeRun
  <2>2. AttemptTypes'
    BY <1>1, <2>1 DEF SettingsInv, AttemptInv, AttemptTypes, Engine
  <2>3. BindingRow'
    BY <1>1, <2>1 DEF BindingRow, Working
  <2>4. GivenRow'
    <3>1. attempt = None \/ status = "running"
      BY <1>1, <1>5 DEF SE!KeepsAttempt, SettingsInv, AttemptInv, BindingRow
    <3>2. \A g \in given : g[1] < NextId /\ g[1] <= NextId
      BY <1>1, <3>1 DEF SettingsInv, AttemptInv, GivenRow
    <3> QED
      BY <1>3, <2>1, <3>2 DEF GivenRow
  <2>5. (\A i \in 1..Len(finished) : SettledRow(finished[i]))'
    BY <1>1, <1>2, <1>3, <2>1, <2>2, SettledStay DEF SettingsInv
  <2> QED
    BY <1>2, <2>2, <2>3, <2>4, <2>5 DEF SettingsInv, AttemptInv
<1> QED
  BY <1>4, <1>5

LEMMA SettleKeeps ==
    ASSUME SettingsInv, SE!SettleStep
    PROVE  SettingsInv'
<1>0. PICK s : s = [id |-> attempt.id, kind |-> attempt.kind, number |-> engine.number,
                    current |-> scope.revision]
  OBVIOUS
<1>1. /\ engine.phase = "executing" /\ status = "running" /\ ~SE!Stale
      /\ finished' = Append(finished, s)
      /\ attempt' = None /\ engine' = [phase |-> "ready"]
      /\ UNCHANGED <<scope, status, given, local, stops>> /\ UNCHANGED SE!editVars
  BY <1>0 DEF SE!SettleStep, SE!Runs
<1>2. UNCHANGED <<changes, sent, call, answer, broken>> /\ HistoryInv'
  BY <1>1, HistoryStays DEF SettingsInv, SE!editVars
<1>3. /\ engine \in [phase : {"captured", "executing", "rebound"}, number : Nat,
                     value : Nat, retries : Nat]
      /\ Bound(engine.number, engine.value) /\ attempt \in Attempt /\ attempt # None
      /\ Bound(attempt.number, attempt.value)
      /\ engine.number = attempt.number /\ <<attempt.id, engine.value>> \in given
  BY <1>1 DEF SettingsInv, AttemptInv, AttemptTypes, BindingRow, Engine, SE!Stopped, Working
<1>4. /\ scope # None /\ scope.revision \in Nat
      /\ engine.value = Doc(engine.number) /\ attempt.value = engine.value
  BY <1>3, LatestIsBound DEF SettingsInv, HistoryInv, Bound
<1>5. /\ s \in Settled /\ s.id = attempt.id /\ s.kind = attempt.kind
      /\ s.number = engine.number
      /\ s.kind = "route" => s.number = s.current
  BY <1>0, <1>1, <1>3, <1>4 DEF Settled, Attempt, SE!Stale
<1>6. /\ finished \in Seq(Settled) /\ Len(finished) \in Nat /\ finished' \in Seq(Settled)
      /\ Len(finished') = Len(finished) + 1 /\ finished'[Len(finished) + 1] = s
      /\ \A i \in 1..Len(finished) : finished'[i] = finished[i]
  <2>1. finished \in Seq(Settled) /\ s \in Settled /\ finished' = Append(finished, s)
    BY <1>1, <1>5 DEF SettingsInv, AttemptInv, AttemptTypes
  <2> QED
    BY <2>1, AppendProperties, LenProperties
<1>7. NextId \in Nat /\ NextId' = NextId + 1 /\ given \subseteq Nat \X Nat
  <2>1. stops \in Nat /\ stops' = stops /\ given \subseteq Nat \X Nat
    BY <1>1 DEF SettingsInv, AttemptInv, AttemptTypes
  <2>2. Len(finished) \in Nat /\ Len(finished') = Len(finished) + 1
    BY <1>6
  <2> QED
    BY <2>1, <2>2 DEF NextId
<1>8. AttemptTypes'
  BY <1>1, <1>6 DEF SettingsInv, AttemptInv, AttemptTypes, Engine
<1>9. BindingRow'
  BY <1>1 DEF BindingRow, Working
<1>10. GivenRow'
  <2>1. \A g \in given : g[1] \in Nat /\ g[1] <= NextId
    BY <1>7 DEF SettingsInv, AttemptInv, GivenRow
  <2>2. \A g \in given' : g[1] <= NextId' /\ g[1] < NextId'
    BY <1>1, <1>7, <2>1
  <2> QED
    BY <1>1, <2>2 DEF GivenRow
<1>11. \A n : Doc(n)' = Doc(n)
  BY <1>2 DEF Doc
<1>12. (\A i \in 1..Len(finished) : SettledRow(finished[i]))'
  <2>1. ASSUME NEW t \in Settled, SettledRow(t) PROVE SettledRow(t)'
    <3>1. t.id \in Nat /\ t.id < NextId'
      BY <1>7, <2>1 DEF SettledRow, Settled
    <3>2. Bound(t.number, Doc(t.number))' /\ Doc(t.number)' = Doc(t.number)
      BY <1>1, <1>2, <1>11, <2>1 DEF SettledRow, Bound
    <3> QED
      BY <1>1, <2>1, <3>1, <3>2 DEF SettledRow
  <2>2. SettledRow(s)'
    <3>1. s.id < NextId'
      BY <1>3, <1>5, <1>7 DEF SettingsInv, AttemptInv, GivenRow, Attempt
    <3>2. Bound(s.number, Doc(s.number))' /\ Doc(s.number)' = engine.value
      BY <1>1, <1>2, <1>3, <1>4, <1>5, <1>11 DEF Bound
    <3>3. s.kind # "route" => \A g \in given : g[1] = s.id => g[2] = engine.value
      BY <1>3, <1>4, <1>5 DEF SettingsInv, AttemptInv, GivenRow
    <3>4. <<s.id, engine.value>> \in given
      BY <1>3, <1>5
    <3> QED
      BY <1>1, <1>5, <3>1, <3>2, <3>3, <3>4 DEF SettledRow
  <2>3. ASSUME NEW i \in (1..Len(finished))' PROVE SettledRow(finished[i])'
    <3>1. CASE i \in 1..Len(finished)
      <4>1. finished[i] \in Settled /\ SettledRow(finished[i])
        BY <1>6, <3>1 DEF SettingsInv, AttemptInv
      <4>2. finished'[i] = finished[i]
        BY <1>6, <3>1
      <4> QED
        BY <2>1, <4>1, <4>2
    <3>2. CASE i = Len(finished) + 1
      BY <1>6, <2>2, <3>2
    <3> QED
      BY <1>6, <3>1, <3>2
  <2> QED
    BY <2>3
<1> QED
  BY <1>2, <1>8, <1>9, <1>10, <1>12 DEF SettingsInv, AttemptInv

\* A stale route takes the latest settings, keeping its attempt.
LEMMA RouteKeeps ==
    ASSUME SettingsInv, SE!RouteIsStale \/ SE!RepeatRoute
    PROVE  SettingsInv'
<1>1. /\ status = "running" /\ UNCHANGED <<scope, finished, local, stops>>
      /\ UNCHANGED SE!editVars
  BY DEF SE!RouteIsStale, SE!RepeatRoute
<1>2. UNCHANGED <<changes, sent, call, answer, broken>> /\ HistoryInv'
  BY <1>1, HistoryStays DEF SettingsInv, SE!editVars
<1>3. NextId' = NextId /\ NextId \in Nat /\ given \subseteq Nat \X Nat
  BY <1>1, LenProperties DEF NextId, SettingsInv, AttemptInv, AttemptTypes
<1>4. \A n : Doc(n)' = Doc(n)
  BY <1>2 DEF Doc
<1>5. ASSUME NEW n, NEW v, Bound(n, v) PROVE Bound(n, v)'
  BY <1>1, <1>2, <1>4, <1>5 DEF Bound
<1>6. engine.phase \in {"executing", "rebound"} =>
        /\ engine \in [phase : {"captured", "executing", "rebound"}, number : Nat,
                       value : Nat, retries : Nat]
        /\ Bound(engine.number, engine.value) /\ attempt \in Attempt /\ attempt # None
  BY DEF SettingsInv, AttemptInv, AttemptTypes, BindingRow, Engine, SE!Stopped, Working
<1>7. CASE SE!RouteIsStale
  <2>1. /\ engine.phase = "executing" /\ attempt.kind = "route"
        /\ UNCHANGED <<attempt, given, finished>>
    BY <1>7 DEF SE!RouteIsStale, SE!Runs, SE!Stale
  <2>2. CASE engine' = SE!Stopped /\ status' = "failed"
    <3>1. AttemptInv'
      BY <1>1, <1>2, <2>1, <2>2, StopKeeps
    <3> QED
      BY <1>2, <3>1 DEF SettingsInv
  <2>3. CASE /\ engine' = [phase |-> "rebound", number |-> scope.revision,
                           value |-> scope.value, retries |-> engine.retries + 1]
             /\ UNCHANGED status
    <3>1. attempt # None /\ scope # None
      BY <1>6, <2>1 DEF Bound
    <3>2. /\ scope.revision \in Nat /\ scope.value \in Nat
          /\ Bound(scope.revision, scope.value)
      BY <3>1, LatestIsBound DEF SettingsInv, HistoryInv
    <3>3. /\ engine' \in [phase : {"captured", "executing", "rebound"}, number : Nat,
                          value : Nat, retries : Nat]
          /\ engine'.phase = "rebound" /\ engine'.number = scope.revision
          /\ engine'.value = scope.value
      BY <1>6, <2>1, <2>3, <3>2
    <3>4. AttemptTypes'
      BY <1>1, <2>1, <3>3 DEF SettingsInv, AttemptInv, AttemptTypes, Engine
    <3>5. BindingRow'
      <4>1. Bound(scope.revision, scope.value)' /\ Bound(attempt.number, attempt.value)'
        BY <1>1, <1>5, <2>1, <3>1, <3>2 DEF SettingsInv, AttemptInv, BindingRow
      <4> QED
        BY <1>1, <2>1, <2>3, <3>1, <3>3, <4>1 DEF BindingRow, Working
    <3>6. GivenRow'
      BY <1>3, <2>1, <3>1, <3>3 DEF SettingsInv, AttemptInv, GivenRow
    <3>7. (\A i \in 1..Len(finished) : SettledRow(finished[i]))'
      BY <1>1, <1>2, <1>3, <2>1, <3>1, <3>4, SettledStay DEF SettingsInv
    <3> QED
      BY <1>2, <3>4, <3>5, <3>6, <3>7 DEF SettingsInv, AttemptInv
  <2> QED
    BY <1>7, <2>2, <2>3 DEF SE!RouteIsStale
<1>8. CASE SE!RepeatRoute
  <2>1. /\ engine.phase = "rebound"
        /\ attempt' = [attempt EXCEPT !.number = engine.number, !.value = engine.value]
        /\ engine' = [engine EXCEPT !.phase = "executing"]
        /\ given' = given \cup {<<attempt'.id, engine.value>>} /\ UNCHANGED status
    BY <1>8 DEF SE!RepeatRoute, SE!Runs, SE!Give
  <2>2. attempt.kind = "route" /\ attempt.id <= NextId
    BY <1>6, <2>1 DEF SettingsInv, AttemptInv, BindingRow, GivenRow
  <2>3. engine.number \in Nat /\ engine.value \in Nat
    BY <1>6, <2>1
  <2>4. /\ attempt' \in Attempt /\ attempt'.id = attempt.id /\ attempt'.kind = "route"
        /\ attempt'.number = engine.number /\ attempt'.value = engine.value
        /\ attempt.id \in Nat
    BY <1>6, <2>1, <2>2, <2>3 DEF Attempt
  <2>5. attempt' # None
    BY <2>4, SettingsAssumption DEF Attempt
  <2>6. /\ engine' \in [phase : {"captured", "executing", "rebound"}, number : Nat,
                        value : Nat, retries : Nat]
        /\ engine'.phase = "executing" /\ engine'.number = engine.number
        /\ engine'.value = engine.value
    BY <1>6, <2>1
  <2>7. AttemptTypes'
    BY <1>1, <1>3, <2>1, <2>3, <2>4, <2>6 DEF SettingsInv, AttemptInv, AttemptTypes, Engine
  <2>8. BindingRow'
    <3>1. Bound(engine.number, engine.value)'
      BY <1>5, <1>6, <2>1
    <3>2. <<attempt'.id, engine'.value>> \in given'
      BY <2>1, <2>6
    <3> QED
      BY <1>1, <2>1, <2>4, <2>5, <2>6, <3>1, <3>2 DEF BindingRow, Working
  <2>9. GivenRow'
    <3>1. \A g \in given : g[1] <= NextId
      BY DEF SettingsInv, AttemptInv, GivenRow
    <3>2. \A g \in given' : g[1] <= NextId
      BY <2>1, <2>2, <2>4, <3>1
    <3> QED
      BY <1>3, <2>1, <2>2, <2>4, <2>5, <2>6, <3>2 DEF GivenRow
  <2>10. (\A i \in 1..Len(finished) : SettledRow(finished[i]))'
    <3>1. /\ given \subseteq given'
          /\ \A g \in given' \ given : attempt' # None /\ g[1] = attempt'.id
      BY <2>1, <2>5
    <3> QED
      BY <1>1, <1>2, <1>3, <1>6, <2>1, <2>4, <2>7, <3>1, SettledStay DEF SettingsInv
  <2> QED
    BY <1>2, <2>7, <2>8, <2>9, <2>10 DEF SettingsInv, AttemptInv
<1> QED
  BY <1>7, <1>8

-----------------------------------------------------------------------------
(* The invariant of the part, and what it shows.                           *)

LEMMA SettingsInitInv == Init => SettingsInv
<1> SUFFICES ASSUME Init PROVE SettingsInv
  OBVIOUS
<1>1. /\ scope \in {None, SE!First} /\ changes = << >>
      /\ sent = [q \in ChangeRequests |-> None]
      /\ call = [q \in ChangeRequests |-> SE!Idle]
      /\ answer = [q \in ChangeRequests |-> None]
      /\ status = "running" /\ attempt = None /\ engine = [phase |-> "ready"]
      /\ given = {} /\ finished = << >> /\ broken = {} /\ stops = 0
  BY DEF Init, SE!SettingsInit
<1>2. SE!First.revision = 0 /\ SE!First.value = 0 /\ SE!Idle.phase = "idle"
  BY DEF SE!First, SE!Idle
<1>3. Len(changes) = 0 /\ Len(finished) = 0 /\ Doc(0) = 0
  BY <1>1 DEF Doc
<1>4. HistoryTypes
  BY <1>1 DEF HistoryTypes, CallState, SE!First
<1>5. ChainRow
  BY <1>1, <1>2, <1>3 DEF ChainRow
<1>6. ASSUME NEW q \in ChangeRequests PROVE RequestRow(q)
  BY <1>1, <1>2, <1>3, SettingsAssumption DEF RequestRow, Done
<1>7. AttemptInv
  BY <1>1, <1>3 DEF AttemptInv, AttemptTypes, BindingRow, GivenRow, Working, Engine
<1> QED
  BY <1>4, <1>5, <1>6, <1>7 DEF SettingsInv, HistoryInv

LEMMA SettingsNextInv ==
    ASSUME SettingsInv, SE!SettingsNext
    PROVE  SettingsInv'
<1>1. ASSUME NEW q \in ChangeRequests,
             SE!SendChange(q) \/ SE!ReadScope(q) \/ SE!EnterStore(q) \/ SE!StoreAnswer(q)
      PROVE  SettingsInv'
  <2>1. /\ UNCHANGED <<scope, changes>>
        /\ UNCHANGED <<status, attempt, engine, given, finished, stops>>
    BY <1>1 DEF SE!SendChange, SE!ReadScope, SE!EnterStore, SE!StoreAnswer, SE!graphVars
  <2>2. HistoryInv'
    BY <1>1, RequestStep DEF SettingsInv
  <2>3. AttemptInv'
    BY <2>1, AttemptStays DEF SettingsInv, Doc
  <2> QED
    BY <2>2, <2>3 DEF SettingsInv
<1>2. ASSUME NEW q \in ChangeRequests, SE!CommitChange(q)
      PROVE  SettingsInv'
  <2>1. UNCHANGED <<status, attempt, engine, given, finished, stops>>
    BY <1>2 DEF SE!CommitChange, SE!graphVars
  <2>2. /\ HistoryInv' /\ (scope # None => scope' # None)
        /\ \A n \in 0..Len(changes) : n \in 0..Len(changes') /\ Doc(n)' = Doc(n)
    BY <1>2, CommitStep DEF SettingsInv
  <2>3. AttemptInv'
    BY <2>1, <2>2, AttemptStays DEF SettingsInv
  <2> QED
    BY <2>2, <2>3 DEF SettingsInv
<1>3. CASE SE!Ask \/ SE!TakeAnswer \/ SE!EndRun \/ SE!StopRunner
  <2>1. /\ UNCHANGED <<scope, changes, given, finished>> /\ HistoryInv'
        /\ attempt \in Attempt \cup {None} /\ engine \in Engine
    <3>1. UNCHANGED <<scope, given, finished>> /\ UNCHANGED SE!editVars
      BY <1>3 DEF SE!Ask, SE!TakeAnswer, SE!EndRun, SE!StopRunner
    <3> QED
      BY <3>1, HistoryStays DEF SE!editVars, SettingsInv, AttemptInv, AttemptTypes
  <2>2. AttemptInv'
    <3>1. CASE SE!Ask
      <4>1. /\ engine' = SE!Stopped /\ UNCHANGED <<attempt, stops>> /\ status' = "waiting"
            /\ attempt # None
        BY <3>1 DEF SE!Ask, SE!Runs, SettingsInv, AttemptInv, BindingRow, Working
      <4> QED
        BY <2>1, <4>1, StopKeeps
    <3>2. CASE SE!TakeAnswer
      <4>1. /\ UNCHANGED <<engine, status, stops>> /\ status = "waiting"
            /\ attempt' = [attempt EXCEPT !.answered = TRUE]
        BY <3>2 DEF SE!TakeAnswer
      <4>2. engine.phase = "stopped" /\ attempt # None
        BY <4>1 DEF SettingsInv, AttemptInv, BindingRow
      <4>3. engine = SE!Stopped
        BY <2>1, <4>2 DEF Engine, SE!Stopped
      <4> QED
        BY <2>1, <4>1, <4>2, <4>3, StopKeeps
    <3>3. CASE SE!EndRun
      <4>1. engine' = SE!Stopped /\ UNCHANGED <<attempt, stops>> /\ status' = "ended"
        BY <3>3 DEF SE!EndRun
      <4> QED
        BY <2>1, <4>1, StopKeeps
    <3>4. CASE SE!StopRunner
      <4>1. engine' = SE!Stopped /\ UNCHANGED <<attempt, status>> /\ stops' = stops + 1
        BY <3>4 DEF SE!StopRunner
      <4>2. status' = "waiting" => attempt # None
        BY <4>1 DEF SettingsInv, AttemptInv, BindingRow
      <4> QED
        BY <2>1, <4>1, <4>2, StopKeeps
    <3> QED
      BY <1>3, <3>1, <3>2, <3>3, <3>4
  <2> QED
    BY <2>1, <2>2 DEF SettingsInv
<1>4. CASE SE!CrashServer
  <2>1. /\ UNCHANGED <<scope, changes, given, finished, attempt, status>>
        /\ stops' = stops + 1 /\ (engine' = engine \/ engine' = SE!Stopped)
    BY <1>4 DEF SE!CrashServer
  <2>2. status' = "waiting" => attempt # None
    BY <2>1 DEF SettingsInv, AttemptInv, BindingRow
  <2>3. AttemptInv'
    BY <2>1, <2>2, StopKeeps
  <2>4. HistoryInv'
    BY <1>4, CrashKeepsHistory DEF SettingsInv
  <2> QED
    BY <2>3, <2>4 DEF SettingsInv
<1> QED
  BY <1>1, <1>2, <1>3, <1>4, CaptureKeeps, StartKeeps, ResumeKeeps, SettleKeeps, RouteKeeps
  DEF SE!SettingsNext

\* The steps of the other parts leave the settings alone.
LEMMA SettingsInvariant == Spec => []SettingsInv
<1>1. SettingsInv /\ [Next]_vars => SettingsInv'
  <2> SUFFICES ASSUME SettingsInv, [Next]_vars PROVE SettingsInv'
    OBVIOUS
  <2>1. CASE SettingsStep
    BY <2>1, SettingsNextInv DEF SettingsStep
  <2>2. CASE ~SettingsStep
    <3>1. UNCHANGED settingsVars
      BY <2>2 DEF Next, vars, TurnsStep, FollowUpStep, RecordingStep, PruneStep, ViewStep,
                  HeadlessStep, ReplayStep
    <3>2. UNCHANGED <<scope, changes, sent, call, answer, status, attempt, engine, given,
                      finished, broken, stops>>
      BY <3>1 DEF settingsVars
    <3>3. HistoryInv'
      BY <3>2, HistoryStays DEF SettingsInv, SE!editVars
    <3>4. AttemptInv'
      BY <3>2, AttemptStays DEF SettingsInv, Doc
    <3> QED
      BY <3>3, <3>4 DEF SettingsInv
  <2> QED
    BY <2>1, <2>2
<1> QED
  BY <1>1, SettingsInitInv, PTL DEF Spec

\* The sets of the part are counted as sets are.
LEMMA SameCardinality == \A S : SE!Cardinality(S) = Cardinality(S)
BY DEF SE!Cardinality, Cardinality

\* A set with at most one member.
LEMMA AtMostOne ==
    ASSUME NEW S, \A x, y \in S : x = y
    PROVE  IsFiniteSet(S) /\ Cardinality(S) <= 1
<1>1. CASE S = {}
  BY <1>1, FS_EmptySet
<1>2. CASE S # {}
  <2>1. PICK x : x \in S
    BY <1>2
  <2>2. S = {x}
    BY <2>1
  <2>3. IsFiniteSet({x}) /\ Cardinality({x}) = 1
    BY FS_Singleton
  <2>4. IsFiniteSet(S) /\ Cardinality(S) = 1
    BY <2>2, <2>3
  <2> QED
    BY <2>4
<1> QED
  BY <1>1, <1>2

\* Changes of the settings and the answers to them agree: the history is a
\* chain from the first document to the current one (verifySettingsProjections),
\* a request is applied at most once and at the number it expected, whatever
\* awaits, other requests and crashes lie between its steps, and its stored
\* answer says what became of it, unless a crash fell between the two.
THEOREM ChangesAndAnswersAgree == Spec => []SettingsHistory
<1>1. SettingsInv => SettingsHistory
  <2> SUFFICES ASSUME SettingsInv PROVE SE!SettingsHistory
    BY DEF SettingsHistory
  <2>1. HistoryTypes /\ ChainRow /\ Len(changes) \in Nat /\ DOMAIN changes = 1..Len(changes)
    BY LenProperties DEF SettingsInv, HistoryInv, HistoryTypes
  <2>2. scope # None =>
          /\ scope.revision = Len(changes) /\ scope.value = SE!ValueAt(Len(changes))
          /\ \A i \in DOMAIN changes :
                /\ changes[i].number = i /\ changes[i].before = SE!ValueAt(i - 1)
                /\ SE!Applies(changes[i].patch, SE!ValueAt(i - 1))
    <3> SUFFICES ASSUME scope # None
                 PROVE  /\ scope.revision = Len(changes)
                        /\ scope.value = SE!ValueAt(Len(changes))
                        /\ \A i \in DOMAIN changes :
                              /\ changes[i].number = i
                              /\ changes[i].before = SE!ValueAt(i - 1)
                              /\ SE!Applies(changes[i].patch, SE!ValueAt(i - 1))
      OBVIOUS
    <3>1. SE!ValueAt(Len(changes)) = Doc(Len(changes))
      BY <2>1, DocumentAt
    <3>2. ASSUME NEW i \in DOMAIN changes PROVE SE!ValueAt(i - 1) = Doc(i - 1)
      BY <2>1, DocumentAt
    <3> QED
      BY <2>1, <3>1, <3>2 DEF ChainRow
  <2>3. ASSUME NEW q \in ChangeRequests
        PROVE  /\ SE!Cardinality(SE!Committed(q)) <= 1
               /\ \A i \in SE!Committed(q) : sent[q].expected \in {None, i - 1}
               /\ answer[q] = "accepted" => SE!Committed(q) # {}
               /\ answer[q] = "rejected" /\ q \notin broken => SE!Committed(q) = {}
    <3>1. RequestRow(q)
      BY DEF SettingsInv, HistoryInv
    <3>2. SE!Committed(q) # {} <=> Done(q)
      BY <2>1 DEF SE!Committed, Done
    <3>3. \A i, j \in SE!Committed(q) : i = j
      BY <2>1, <3>1 DEF SE!Committed, RequestRow
    <3>4. SE!Cardinality(SE!Committed(q)) <= 1
      BY <3>3, AtMostOne, SameCardinality
    <3> QED
      BY <2>1, <3>1, <3>2, <3>4 DEF SE!Committed, RequestRow
  <2> QED
    BY <2>2, <2>3 DEF SE!SettingsHistory
<1> QED
  BY <1>1, SettingsInvariant, PTL

\* An attempt works with one document: its node is given the settings of the
\* change number saved with it (persistedSettingsBinding), before and after a
\* park, a stop or a crash; a settled step was given the document it is bound
\* to and, if it is no route, no other; a settled route was current when it
\* settled (assertSettingsRouteCurrent).
THEOREM AttemptsKeepTheirSettings == Spec => []AttemptKeepsItsSettings
<1>1. SettingsInv => AttemptKeepsItsSettings
  <2> SUFFICES ASSUME SettingsInv PROVE SE!AttemptKeepsItsSettings
    BY DEF AttemptKeepsItsSettings
  <2>1. ASSUME NEW n, NEW v, Bound(n, v) PROVE SE!ValueAt(n) = v /\ v = Doc(n)
    BY <2>1, DocumentAt DEF Bound, SettingsInv, HistoryInv
  <2>2. attempt # None => attempt.value = SE!ValueAt(attempt.number)
    BY <2>1 DEF SettingsInv, AttemptInv, BindingRow
  <2>3. SE!Runs("executing") /\ attempt.kind # "route" =>
           \A g \in given : g[1] = attempt.id => g[2] = attempt.value
    BY DEF SE!Runs, SettingsInv, AttemptInv, BindingRow, GivenRow, Working
  <2>4. ASSUME NEW i \in DOMAIN finished
        PROVE  LET s == finished[i] IN
               /\ <<s.id, SE!ValueAt(s.number)>> \in given
               /\ s.kind # "route" => SE!Cardinality({g \in given : g[1] = s.id}) = 1
               /\ s.kind = "route" => s.number = s.current
    <3> DEFINE s == finished[i]
               d == Doc(s.number)
    <3>1. SettledRow(s)
      BY LenProperties DEF SettingsInv, AttemptInv, AttemptTypes
    <3>2. SE!ValueAt(s.number) = d
      BY <2>1, <3>1 DEF SettledRow
    <3>3. ASSUME s.kind # "route" PROVE SE!Cardinality({g \in given : g[1] = s.id}) = 1
      <4>1. given \subseteq Nat \X Nat
        BY DEF SettingsInv, AttemptInv, AttemptTypes
      <4>2. \A g \in given : g[1] = s.id => g = <<s.id, d>>
        BY <3>1, <3>3, <4>1 DEF SettledRow
      <4>3. {g \in given : g[1] = s.id} = {<<s.id, d>>}
        BY <3>1, <4>2 DEF SettledRow
      <4> QED
        BY <4>3, FS_Singleton, SameCardinality
    <3> QED
      BY <3>1, <3>2, <3>3 DEF SettledRow
  <2> QED
    BY <2>2, <2>3, <2>4 DEF SE!AttemptKeepsItsSettings
<1> QED
  BY <1>1, SettingsInvariant, PTL

-----------------------------------------------------------------------------
(* What CHOOSE finds.                                                      *)

LEMMA LeastNumber ==
    ASSUME NEW S \in SUBSET Nat, S # {}
    PROVE  \E x \in S : \A y \in S : x <= y
<1> DEFINE R == OpToRel(<, Nat)
<1>1. IsWellFoundedOn(R, Nat)
  BY NatLessThanWellFounded, Zenon
<1>2. \A x, y \in Nat : <<y, x>> \in R <=> y < x
  BY Zenon DEF OpToRel
<1> HIDE DEF R
<1>3. \E x \in S : \A y \in S : ~ (<<y, x>> \in R)
  BY <1>1, WFMin
<1>4. PICK x \in S : \A y \in S : ~ (<<y, x>> \in R)
  BY <1>3
<1>5. \A y \in S : ~ (y < x)
  BY <1>2, <1>4
<1> QED
  BY <1>5

-----------------------------------------------------------------------------
(* Follow-ups: one is delivered and has its turn only when it is ready.    *)

MessageStates == {"none", "pending", "sent", "cancelled"}
TurnStates == {"none", "started", "completed", "error", "aborted", "lost"}
FollowUp == [row : {"queued", "removed", "cancelled"}, msg : MessageStates,
             turn : TurnStates]
OwnTurn == [msg : Nat \cup {None}, phase : {"none", "running", "settled"},
            started : BOOLEAN, stop : BOOLEAN]

FollowTypes ==
    /\ runState \in {"running", "completed", "failed", "cancelled"}
    /\ followUps \in Seq(FollowUp) /\ Len(followUps) <= MaxFollowUps
    /\ terminal \in [msg : MessageStates, turn : TurnStates]
    /\ piView \in {None} \cup [msg : Nat, status : MessageStates, cancelled : BOOLEAN]
    /\ piSession \in [branch : SUBSET Nat, own : OwnTurn]

\* What follow-up i waits for has come; it does not go away again.
Ready(i) ==
    /\ i \in 1..Len(followUps)
    /\ runState = "completed" /\ terminal.turn = "completed"
    /\ \A j \in 1..i - 1 : FU!SettledBefore(j)
MayGo(m) == m = 0 \/ Ready(m)

FollowInv ==
    /\ FollowTypes
    /\ \A i \in 1..Len(followUps) :
          followUps[i].msg = "sent" \/ followUps[i].turn # "none" => Ready(i)
    /\ \A m \in piSession.branch : MayGo(m)
    /\ piView # None /\ piView.status = "pending" => MayGo(piView.msg)
    /\ piSession.own.msg # None => MayGo(piSession.own.msg)
    /\ piSession.own.phase # "none" => piSession.own.msg # None

\* Follow-ups that are settled stay so, and the run stays completed; what is
\* new is ready.
LEMMA FollowKeeps ==
    ASSUME FollowInv, FollowTypes',
           1..Len(followUps) \subseteq (1..Len(followUps))',
           \A j \in 1..Len(followUps) : FU!SettledBefore(j) => FU!SettledBefore(j)',
           runState = "completed" => runState' = "completed",
           terminal.turn = "completed" => terminal'.turn = "completed",
           \A i \in (1..Len(followUps))' :
              followUps'[i].msg = "sent" \/ followUps'[i].turn # "none" => Ready(i),
           \A m \in piSession'.branch : MayGo(m),
           piView' # None /\ piView'.status = "pending" => MayGo(piView'.msg),
           piSession'.own.msg # None => MayGo(piSession'.own.msg),
           piSession'.own.phase # "none" => piSession'.own.msg # None
    PROVE  FollowInv'
<1>1. ASSUME NEW i, Ready(i) PROVE Ready(i)'
  <2>1. /\ i \in 1..Len(followUps) /\ runState = "completed"
        /\ terminal.turn = "completed" /\ \A j \in 1..i - 1 : FU!SettledBefore(j)
    BY <1>1 DEF Ready
  <2>2. \A j \in 1..i - 1 : j \in 1..Len(followUps)
    BY <2>1, LenProperties DEF FollowInv, FollowTypes
  <2>3. \A j \in 1..i - 1 : FU!SettledBefore(j)'
    BY <2>1, <2>2
  <2> QED
    BY <2>1, <2>3 DEF Ready
<1>2. ASSUME NEW m, MayGo(m) PROVE MayGo(m)'
  BY <1>1, <1>2 DEF MayGo
<1>3. \A i \in (1..Len(followUps))' :
         followUps'[i].msg = "sent" \/ followUps'[i].turn # "none" => Ready(i)'
  BY <1>1
<1>4. \A m \in piSession'.branch : MayGo(m)'
  BY <1>2
<1>5. piView' # None /\ piView'.status = "pending" => MayGo(piView.msg)'
  BY <1>2 DEF MayGo
<1>6. piSession'.own.msg # None => MayGo(piSession.own.msg)'
  BY <1>2 DEF MayGo
<1> QED
  BY <1>3, <1>4, <1>5, <1>6 DEF FollowInv

\* Steps that leave the follow-ups themselves alone.
LEMMA RowsStay ==
    ASSUME FollowInv, FollowTypes', UNCHANGED <<runState, followUps>>,
           terminal.turn = "completed" => terminal'.turn = "completed",
           \A m \in piSession'.branch : MayGo(m),
           piView' # None /\ piView'.status = "pending" => MayGo(piView'.msg),
           piSession'.own.msg # None => MayGo(piSession'.own.msg),
           piSession'.own.phase # "none" => piSession'.own.msg # None
    PROVE  FollowInv'
<1>1. \A j \in 1..Len(followUps) : FU!SettledBefore(j) => FU!SettledBefore(j)'
  <2> SUFFICES ASSUME NEW j \in 1..Len(followUps), FU!SettledBefore(j)
               PROVE  FU!SettledBefore(j)'
    OBVIOUS
  <2>1. j # 0
    BY LenProperties DEF FollowInv, FollowTypes
  <2> QED
    BY <2>1 DEF FU!SettledBefore, FU!TurnEnded, FU!TurnOf
<1>2. \A i \in (1..Len(followUps))' :
         followUps'[i].msg = "sent" \/ followUps'[i].turn # "none" => Ready(i)
  BY DEF FollowInv
<1> QED
  BY <1>1, <1>2, FollowKeeps

\* A step changes one follow-up.
LEMMA OneRow ==
    ASSUME FollowInv, NEW i \in 1..Len(followUps), NEW r \in FollowUp,
           followUps' = [followUps EXCEPT ![i] = r],
           UNCHANGED <<runState, terminal, piView>>,
           piSession' \in [branch : SUBSET Nat, own : OwnTurn],
           piSession'.branch = piSession.branch,
           piSession'.own.msg # None => MayGo(piSession'.own.msg),
           piSession'.own.phase # "none" => piSession'.own.msg # None,
           r.msg = "sent" \/ r.turn # "none" => Ready(i),
           followUps[i].row \in {"removed", "cancelled"} => r.row = followUps[i].row,
           followUps[i].turn \in {"completed", "error", "aborted", "lost"} =>
              r.turn = followUps[i].turn
    PROVE  FollowInv'
<1>1. /\ followUps' \in Seq(FollowUp) /\ Len(followUps') = Len(followUps)
      /\ followUps'[i] = r
      /\ \A j \in 1..Len(followUps) : j # i => followUps'[j] = followUps[j]
  BY ExceptSeq DEF FollowInv, FollowTypes
<1>2. FollowTypes'
  BY <1>1 DEF FollowInv, FollowTypes
<1>3. \A j \in 1..Len(followUps) : FU!SettledBefore(j) => FU!SettledBefore(j)'
  <2> SUFFICES ASSUME NEW j \in 1..Len(followUps), FU!SettledBefore(j)
               PROVE  FU!SettledBefore(j)'
    OBVIOUS
  <2>1. j # 0
    BY LenProperties DEF FollowInv, FollowTypes
  <2> QED
    BY <1>1, <2>1 DEF FU!SettledBefore, FU!TurnEnded, FU!TurnOf
<1>4. \A j \in (1..Len(followUps))' :
         followUps'[j].msg = "sent" \/ followUps'[j].turn # "none" => Ready(j)
  BY <1>1 DEF FollowInv
<1>5. /\ \A m \in piSession'.branch : MayGo(m)
      /\ piView' # None /\ piView'.status = "pending" => MayGo(piView'.msg)
      /\ 1..Len(followUps) \subseteq (1..Len(followUps))'
  BY <1>1 DEF FollowInv
<1> QED
  BY <1>2, <1>3, <1>4, <1>5, FollowKeeps

LEMMA FirstOf ==
    ASSUME FollowInv, NEW S \in SUBSET (0..Len(followUps)), S # {}
    PROVE  (CHOOSE m \in S : \A n \in S : FU!OrderOf(m) <= FU!OrderOf(n)) \in S
<1> DEFINE T == {FU!OrderOf(m) : m \in S}
<1>1. Len(followUps) \in Nat /\ MaxFollowUps \in Nat
  BY FollowUpsAssumption, LenProperties DEF FollowInv, FollowTypes
<1>2. \A m \in S : FU!OrderOf(m) \in Nat
  BY <1>1 DEF FU!OrderOf
<1>3. T \in SUBSET Nat /\ T # {}
  BY <1>2
<1>4. PICK x \in T : \A y \in T : x <= y
  BY <1>3, LeastNumber
<1>5. \E m \in S : \A n \in S : FU!OrderOf(m) <= FU!OrderOf(n)
  BY <1>4
<1> QED
  BY <1>5

LEMMA LastOf ==
    ASSUME FollowInv, NEW S \in SUBSET (0..Len(followUps)), S # {}
    PROVE  (CHOOSE m \in S : \A n \in S : FU!OrderOf(n) <= FU!OrderOf(m)) \in S
<1> DEFINE Rank(m) == MaxFollowUps + 1 - FU!OrderOf(m)
           T == {Rank(m) : m \in S}
<1>1. Len(followUps) \in Nat /\ MaxFollowUps \in Nat /\ Len(followUps) <= MaxFollowUps
  BY FollowUpsAssumption, LenProperties DEF FollowInv, FollowTypes
<1>2. \A m \in S : FU!OrderOf(m) \in Nat /\ Rank(m) \in Nat
  BY <1>1 DEF FU!OrderOf
<1>3. T \in SUBSET Nat /\ T # {}
  BY <1>2
<1>4. PICK x \in T : \A y \in T : x <= y
  BY <1>3, LeastNumber
<1>5. PICK m \in S : x = Rank(m)
  BY <1>4
<1>6. \A n \in S : Rank(m) <= Rank(n)
  BY <1>4, <1>5
<1>7. \A n \in S : FU!OrderOf(n) <= FU!OrderOf(m)
  BY <1>1, <1>2, <1>6
<1> QED
  BY <1>7

\* What Pi is to send may be sent: isMessageEligible is only asked for
\* messages without an open turn, and the current one is open, eligible or
\* owed.
LEMMA CurrentMayGo ==
    ASSUME FollowInv, FU!CurrentMessage # None
    PROVE  /\ FU!CurrentMessage \in 0..Len(followUps)
           /\ FU!MessageOf(FU!CurrentMessage) = "pending" => MayGo(FU!CurrentMessage)
<1> DEFINE messages == {m \in {0} \cup FU!Items : FU!MessageOf(m) # "none"}
           open == {m \in messages : FU!TurnOf(m) = "started"}
           next == {m \in messages : FU!EligibleMessage(m)}
           owed == {m \in messages : FU!OwedMessage(m)}
           first(S) == CHOOSE m \in S : \A n \in S : FU!OrderOf(m) <= FU!OrderOf(n)
           last(S)  == CHOOSE m \in S : \A n \in S : FU!OrderOf(n) <= FU!OrderOf(m)
           c == FU!CurrentMessage
<1>1. c = IF open # {} THEN first(open) ELSE IF next # {} THEN first(next)
          ELSE IF owed # {} THEN last(owed) ELSE None
  BY DEF FU!CurrentMessage
<1>2. Len(followUps) \in Nat /\ FU!Items = 1..Len(followUps)
  BY LenProperties DEF FollowInv, FollowTypes, FU!Items
<1>3. messages \in SUBSET (0..Len(followUps))
  BY <1>2
<1> HIDE DEF messages
<1>4. /\ open \in SUBSET (0..Len(followUps)) /\ next \in SUBSET (0..Len(followUps))
      /\ owed \in SUBSET (0..Len(followUps))
  BY <1>3
<1>5. /\ open # {} => first(open) \in open
      /\ next # {} => first(next) \in next
      /\ owed # {} => last(owed) \in owed
  <2>1. open # {} => first(open) \in open
    BY <1>4, FirstOf
  <2>2. next # {} => first(next) \in next
    BY <1>4, FirstOf
  <2>3. owed # {} => last(owed) \in owed
    BY <1>4, LastOf
  <2> QED
    BY <2>1, <2>2, <2>3
<1> HIDE DEF first, last
<1>6. c \in open \/ c \in next \/ c \in owed
  BY <1>1, <1>5
<1>7. c \in 0..Len(followUps)
  BY <1>4, <1>6
<1>8. ASSUME NEW m \in 0..Len(followUps), m # 0,
             \/ FU!TurnOf(m) = "started"
             \/ FU!EligibleMessage(m)
             \/ FU!OwedMessage(m) /\ FU!MessageOf(m) = "pending"
      PROVE  Ready(m)
  <2>1. m \in 1..Len(followUps)
    BY <1>2, <1>8
  <2>2. CASE FU!TurnOf(m) = "started"
    BY <1>8, <2>1, <2>2 DEF FU!TurnOf, FollowInv
  <2>3. CASE FU!EligibleMessage(m)
    BY <1>8, <2>1, <2>3 DEF FU!EligibleMessage, Ready
  <2> QED
    BY <1>8, <2>2, <2>3 DEF FU!OwedMessage
<1> QED
  BY <1>6, <1>7, <1>8 DEF MayGo

\* A message becomes sent, or a turn gets a state: the source that is not
\* ready keeps what it has.
LEMMA SetKeeps ==
    ASSUME FollowInv, NEW m \in 0..Len(followUps),
           UNCHANGED <<runState, piView>>,
           piSession' \in [branch : SUBSET Nat, own : OwnTurn],
           piSession'.branch = piSession.branch,
           piSession'.own.msg # None => MayGo(piSession'.own.msg),
           piSession'.own.phase # "none" => piSession'.own.msg # None,
           MayGo(m),
           \/ FU!SetMessage(m, "sent")
           \/ \E t \in TurnStates : FU!SetTurn(m, t) /\ FU!TurnOf(m) \in {"none", "started"}
    PROVE  FollowInv'
<1>1. terminal \in [msg : MessageStates, turn : TurnStates] /\ followUps \in Seq(FollowUp)
  BY DEF FollowInv, FollowTypes
<1>2. CASE m = 0
  <2>1. UNCHANGED followUps
    BY <1>2 DEF FU!SetMessage, FU!SetTurn
  <2>2. terminal' \in [msg : MessageStates, turn : TurnStates]
    BY <1>1, <1>2 DEF FU!SetMessage, FU!SetTurn, MessageStates
  <2>3. terminal.turn = "completed" => terminal'.turn = "completed"
    BY <1>1, <1>2 DEF FU!SetMessage, FU!SetTurn, FU!TurnOf
  <2>4. FollowTypes'
    BY <2>1, <2>2 DEF FollowInv, FollowTypes
  <2>5. /\ \A n \in piSession'.branch : MayGo(n)
        /\ piView' # None /\ piView'.status = "pending" => MayGo(piView'.msg)
    BY DEF FollowInv
  <2> QED
    BY <2>1, <2>3, <2>4, <2>5, RowsStay
<1>3. CASE m # 0
  <2>1. m \in 1..Len(followUps) /\ Ready(m) /\ UNCHANGED terminal
    BY <1>1, <1>3, LenProperties DEF MayGo, FU!SetMessage, FU!SetTurn
  <2>2. followUps[m] \in FollowUp /\ DOMAIN followUps = 1..Len(followUps)
    BY <1>1, <2>1, LenProperties
  <2>3. CASE FU!SetMessage(m, "sent")
    <3> DEFINE r == [followUps[m] EXCEPT !.msg = "sent"]
    <3>1. /\ r \in FollowUp /\ r.row = followUps[m].row /\ r.turn = followUps[m].turn
          /\ followUps' = [followUps EXCEPT ![m] = r]
      BY <1>3, <2>2, <2>3 DEF FollowUp, MessageStates, FU!SetMessage
    <3> HIDE DEF r
    <3> QED
      BY <2>1, <3>1, OneRow
  <2>4. ASSUME NEW t \in TurnStates, FU!SetTurn(m, t), FU!TurnOf(m) \in {"none", "started"}
        PROVE  FollowInv'
    <3> DEFINE r == [followUps[m] EXCEPT !.turn = t]
    <3>1. /\ r \in FollowUp /\ r.row = followUps[m].row
          /\ followUps' = [followUps EXCEPT ![m] = r]
      BY <1>3, <2>2, <2>4 DEF FollowUp, FU!SetTurn
    <3>2. followUps[m].turn \in {"none", "started"}
      BY <1>3, <2>4 DEF FU!TurnOf
    <3> HIDE DEF r
    <3> QED
      BY <2>1, <3>1, <3>2, OneRow
  <2> QED
    BY <2>3, <2>4
<1> QED
  BY <1>2, <1>3

\* Steps of Pi that leave what the server keeps alone.
LEMMA PiStep ==
    ASSUME FollowInv,
           \/ FU!ShowView \/ FU!SendMessage \/ FU!SettleTurn \/ FU!LosePi
    PROVE  FollowInv'
<1>1. /\ UNCHANGED <<runState, followUps, terminal>> /\ FollowTypes
      /\ None \notin Nat
      /\ piSession.branch \in SUBSET Nat /\ piSession.own \in OwnTurn
      /\ piSession = [branch |-> piSession.branch, own |-> piSession.own]
  BY FollowUpsAssumption
  DEF FollowInv, FollowTypes, FU!ShowView, FU!SendMessage, FU!SettleTurn, FU!LosePi
<1>2. FU!NoOwn \in OwnTurn /\ FU!NoOwn.msg = None /\ FU!NoOwn.phase = "none"
  BY DEF FU!NoOwn, OwnTurn
<1>3. CASE FU!ShowView
  <2> DEFINE c == FU!CurrentMessage
             v == IF c = None THEN None
                  ELSE [msg |-> c, status |-> FU!MessageOf(c),
                        cancelled |-> FU!SourceCancelled(c)]
             stop == piSession.own.stop
                        \/ (v # None /\ piSession.own.msg = v.msg /\ v.cancelled)
  <2>1. piView' = v /\ piSession' = [piSession EXCEPT !.own.stop = stop]
    BY <1>3 DEF FU!ShowView
  <2>2. c # None => /\ c \in 0..Len(followUps) /\ c \in Nat
                    /\ FU!MessageOf(c) = "pending" => MayGo(c)
                    /\ FU!MessageOf(c) \in MessageStates
                    /\ FU!SourceCancelled(c) \in BOOLEAN
    <3>1. c # None => /\ c \in 0..Len(followUps)
                      /\ FU!MessageOf(c) = "pending" => MayGo(c)
      BY CurrentMayGo
    <3>2. ASSUME NEW m \in 0..Len(followUps)
          PROVE  m \in Nat /\ FU!MessageOf(m) \in MessageStates
                 /\ FU!SourceCancelled(m) \in BOOLEAN
      <4>1. m \in Nat /\ (m # 0 => m \in 1..Len(followUps) /\ followUps[m] \in FollowUp)
        BY <1>1, LenProperties DEF FollowTypes
      <4>2. FU!MessageOf(m) \in MessageStates
        BY <1>1, <4>1 DEF FollowTypes, FollowUp, FU!MessageOf
      <4>3. FU!SourceCancelled(m) \in BOOLEAN
        <5>1. CASE m = 0
          BY <5>1, Zenon DEF FU!SourceCancelled, FU!RecoveryStopped
        <5>2. CASE m # 0
          BY <5>2 DEF FU!SourceCancelled
        <5> QED
          BY <5>1, <5>2
      <4> QED
        BY <4>1, <4>2, <4>3
    <3> QED
      BY <3>1, <3>2
  <2> HIDE DEF c
  <2>3. v \in {None} \cup [msg : Nat, status : MessageStates, cancelled : BOOLEAN]
    BY <2>2
  <2>4. v # None /\ v.status = "pending" => MayGo(v.msg)
    BY <2>2
  <2>5. stop \in BOOLEAN
    BY <1>1, <2>3 DEF OwnTurn
  <2> HIDE DEF v, stop
  <2>6. /\ piSession' \in [branch : SUBSET Nat, own : OwnTurn]
        /\ piSession'.branch = piSession.branch
        /\ piSession'.own.msg = piSession.own.msg
        /\ piSession'.own.phase = piSession.own.phase
    BY <1>1, <2>1, <2>5 DEF OwnTurn
  <2>7. FollowTypes'
    BY <1>1, <2>1, <2>3, <2>6 DEF FollowTypes
  <2> QED
    BY <1>1, <2>1, <2>4, <2>6, <2>7, RowsStay DEF FollowInv
<1>4. CASE FU!SendMessage
  <2>1. /\ piView # None /\ piView.status = "pending" /\ piView.msg \in Nat
        /\ MayGo(piView.msg) /\ UNCHANGED piView
    BY <1>1, <1>4 DEF FU!SendMessage, FollowInv, FollowTypes
  <2> DEFINE own == IF FU!Triggering(piView.msg)
                    THEN [FU!NoOwn EXCEPT !.msg = piView.msg, !.phase = "running"]
                    ELSE FU!NoOwn
             branch2 == piSession.branch \cup {piView.msg}
  <2>2. piSession' = [branch |-> branch2, own |-> own]
    BY <1>4 DEF FU!SendMessage
  <2>3. /\ own \in OwnTurn /\ (own.phase # "none" => own.msg # None)
        /\ own.msg = None \/ own.msg = piView.msg
    BY <1>1, <1>2, <2>1 DEF OwnTurn, FU!NoOwn
  <2>4. branch2 \in SUBSET Nat /\ \A m \in branch2 : MayGo(m)
    BY <1>1, <2>1 DEF FollowInv
  <2> HIDE DEF own, branch2
  <2>5. /\ piSession' \in [branch : SUBSET Nat, own : OwnTurn]
        /\ piSession'.branch = branch2 /\ piSession'.own = own
    BY <2>2, <2>3, <2>4
  <2>6. FollowTypes'
    BY <1>1, <2>1, <2>5 DEF FollowTypes
  <2> QED
    BY <1>1, <2>1, <2>3, <2>4, <2>5, <2>6, RowsStay
<1>5. CASE FU!SettleTurn
  <2>1. /\ piSession.own.phase = "running" /\ UNCHANGED piView
        /\ piSession' = [piSession EXCEPT !.own.phase = "settled"]
    BY <1>5 DEF FU!SettleTurn, FU!PiOwn
  <2>2. piSession.own.msg # None
    BY <2>1 DEF FollowInv
  <2>3. /\ piSession' \in [branch : SUBSET Nat, own : OwnTurn]
        /\ piSession'.branch = piSession.branch
        /\ piSession'.own.msg = piSession.own.msg
    BY <1>1, <2>1 DEF OwnTurn
  <2>4. FollowTypes'
    BY <1>1, <2>1, <2>3 DEF FollowTypes
  <2> QED
    BY <1>1, <2>1, <2>2, <2>3, <2>4, RowsStay DEF FollowInv
<1>6. CASE FU!LosePi
  <2>1. PICK kept \in {piSession.branch, piSession.branch \ {piSession.own.msg}} :
           piSession' = [branch |-> kept, own |-> FU!NoOwn]
    BY <1>6 DEF FU!LosePi, FU!PiOwn
  <2>2. piView' = None /\ kept \subseteq piSession.branch
    BY <1>6 DEF FU!LosePi
  <2>3. /\ piSession' \in [branch : SUBSET Nat, own : OwnTurn]
        /\ piSession'.branch = kept /\ piSession'.own = FU!NoOwn
    BY <1>1, <1>2, <2>1, <2>2
  <2>4. FollowTypes'
    BY <1>1, <2>2, <2>3 DEF FollowTypes
  <2> QED
    BY <1>1, <1>2, <2>2, <2>3, <2>4, RowsStay DEF FollowInv
<1> QED
  BY <1>3, <1>4, <1>5, <1>6

\* What Pi reports of messages and turns.
LEMMA ReportStep ==
    ASSUME FollowInv,
           \/ \E m \in {0} \cup FU!Items : FU!ReportEntry(m) \/ FU!ReportIdle(m)
           \/ FU!ReportTurnStart \/ FU!ReportTurnEnd
    PROVE  FollowInv'
<1>1. /\ UNCHANGED <<runState, piView>> /\ FollowTypes
      /\ piSession \in [branch : SUBSET Nat, own : OwnTurn]
      /\ Len(followUps) \in Nat /\ FU!Items = 1..Len(followUps)
  BY LenProperties DEF FollowInv, FollowTypes, FU!ReportEntry, FU!ReportIdle,
                       FU!ReportTurnStart, FU!ReportTurnEnd, FU!Items
<1>2. ASSUME NEW m \in 0..Len(followUps), FU!TurnOf(m) # "none" \/ FU!MessageOf(m) = "sent"
      PROVE  MayGo(m)
  <2>1. m = 0 \/ m \in 1..Len(followUps)
    BY <1>1
  <2> QED
    BY <1>2, <2>1 DEF FollowInv, MayGo, FU!TurnOf, FU!MessageOf
<1>3. ASSUME NEW m \in {0} \cup FU!Items, FU!ReportEntry(m)
      PROVE  FollowInv'
  <2>1. m \in 0..Len(followUps) /\ MayGo(m)
    BY <1>1, <1>3 DEF FU!ReportEntry, FollowInv
  <2>2. FU!SetMessage(m, "sent") /\ UNCHANGED piSession
    BY <1>3 DEF FU!ReportEntry
  <2> QED
    BY <1>1, <2>1, <2>2, SetKeeps DEF FollowInv
<1>4. ASSUME NEW m \in {0} \cup FU!Items, FU!ReportIdle(m)
      PROVE  FollowInv'
  <2>1. /\ m \in 0..Len(followUps) /\ FU!TurnOf(m) = "started" /\ FU!SetTurn(m, "lost")
        /\ UNCHANGED piSession /\ "lost" \in TurnStates
    BY <1>1, <1>4 DEF FU!ReportIdle, TurnStates
  <2>2. MayGo(m)
    BY <1>2, <2>1
  <2> QED
    BY <1>1, <2>1, <2>2, SetKeeps DEF FollowInv
<1>5. ASSUME piSession.own.msg # None PROVE piSession.own.msg \in 0..Len(followUps)
  BY <1>1, <1>5 DEF FollowInv, MayGo, Ready
<1>6. CASE FU!ReportTurnStart
  <2> DEFINE m == piSession.own.msg
  <2>1. m # None /\ m \in 0..Len(followUps) /\ MayGo(m)
    BY <1>5, <1>6 DEF FU!ReportTurnStart, FU!PiOwn, FollowInv
  <2>2. CASE FU!CurrentMessage = m /\ FU!TurnOf(m) = "none"
    <3>1. /\ FU!SetTurn(m, "started")
          /\ piSession' = [piSession EXCEPT !.own.started = TRUE]
      BY <1>6, <2>2 DEF FU!ReportTurnStart, FU!PiOwn
    <3>2. /\ piSession' \in [branch : SUBSET Nat, own : OwnTurn]
          /\ piSession'.branch = piSession.branch
          /\ piSession'.own.msg = m
      BY <1>1, <3>1 DEF OwnTurn
    <3>3. \E t \in TurnStates : FU!SetTurn(m, t) /\ FU!TurnOf(m) \in {"none", "started"}
      BY <2>2, <3>1 DEF TurnStates
    <3> HIDE DEF m
    <3> QED
      BY <1>1, <2>1, <3>2, <3>3, SetKeeps
  <2>3. CASE ~(FU!CurrentMessage = m /\ FU!TurnOf(m) = "none")
    <3>1. /\ UNCHANGED <<followUps, terminal>>
          /\ piSession' = [piSession EXCEPT !.own.stop = TRUE]
      BY <1>6, <2>3 DEF FU!ReportTurnStart, FU!PiOwn
    <3>2. /\ piSession' \in [branch : SUBSET Nat, own : OwnTurn]
          /\ piSession'.branch = piSession.branch
          /\ piSession'.own.msg = m
      BY <1>1, <3>1 DEF OwnTurn
    <3>3. FollowTypes'
      BY <1>1, <3>1, <3>2 DEF FollowTypes
    <3> QED
      BY <1>1, <2>1, <3>1, <3>2, <3>3, RowsStay DEF FollowInv
  <2> QED
    BY <2>2, <2>3
<1>7. CASE FU!ReportTurnEnd
  <2> DEFINE m == piSession.own.msg
  <2>1. m \in 0..Len(followUps) /\ MayGo(m)
    BY <1>5, <1>7 DEF FU!ReportTurnEnd, FU!PiOwn, FollowInv
  <2>2. /\ piSession' = [piSession EXCEPT !.own = FU!NoOwn]
        /\ FU!NoOwn \in OwnTurn /\ FU!NoOwn.msg = None /\ FU!NoOwn.phase = "none"
    BY <1>7 DEF FU!ReportTurnEnd, FU!NoOwn, OwnTurn
  <2>3. /\ piSession' \in [branch : SUBSET Nat, own : OwnTurn]
        /\ piSession'.branch = piSession.branch
        /\ piSession'.own = FU!NoOwn
    BY <1>1, <2>2
  <2>4. CASE FU!TurnOf(m) = "started"
    <3>1. PICK why \in {"completed", "error", "aborted"} : FU!SetTurn(m, why)
      BY <1>7, <2>4 DEF FU!ReportTurnEnd, FU!PiOwn
    <3>2. \E t \in TurnStates : FU!SetTurn(m, t) /\ FU!TurnOf(m) \in {"none", "started"}
      BY <2>4, <3>1 DEF TurnStates
    <3> HIDE DEF m
    <3> QED
      BY <1>1, <2>1, <2>2, <2>3, <3>2, SetKeeps
  <2>5. CASE FU!TurnOf(m) # "started"
    <3>1. UNCHANGED <<followUps, terminal>>
      BY <1>7, <2>5 DEF FU!ReportTurnEnd, FU!PiOwn
    <3>2. FollowTypes'
      BY <1>1, <2>3, <3>1 DEF FollowTypes
    <3> QED
      BY <1>1, <2>2, <2>3, <3>1, <3>2, RowsStay DEF FollowInv
  <2> QED
    BY <2>4, <2>5
<1> QED
  BY <1>3, <1>4, <1>6, <1>7

\* What the server does on its own: before the run is completed no follow-up
\* is ready.
LEMMA ServerStep ==
    ASSUME FollowInv,
           \/ FU!QueueFollowUp \/ FU!OtherRun
           \/ \E how \in {"completed", "failed", "cancelled"} : FU!RunEndsFollowUps(how)
           \/ \E i \in FU!Items : FU!RemoveFollowUp(i)
    PROVE  FollowInv'
<1>1. /\ UNCHANGED <<piView, piSession>> /\ FollowTypes
      /\ Len(followUps) \in Nat /\ FU!Items = 1..Len(followUps)
      /\ piSession \in [branch : SUBSET Nat, own : OwnTurn]
  BY LenProperties DEF FollowInv, FollowTypes, FU!QueueFollowUp, FU!OtherRun,
                       FU!RunEndsFollowUps, FU!RemoveFollowUp, FU!Items
<1>2. /\ \A m \in piSession'.branch : MayGo(m)
      /\ piView' # None /\ piView'.status = "pending" => MayGo(piView'.msg)
      /\ piSession'.own.msg # None => MayGo(piSession'.own.msg)
      /\ piSession'.own.phase # "none" => piSession'.own.msg # None
  BY <1>1 DEF FollowInv
<1>3. CASE FU!QueueFollowUp
  <2> DEFINE r == [row |-> "queued", msg |-> "pending", turn |-> "none"]
  <2>1. /\ r \in FollowUp /\ runState = "running" /\ Len(followUps) < MaxFollowUps
        /\ followUps' = Append(followUps, r) /\ UNCHANGED <<runState, terminal>>
        /\ r.msg = "pending" /\ r.turn = "none"
    BY <1>3 DEF FU!QueueFollowUp, FollowUp, MessageStates, TurnStates
  <2> HIDE DEF r
  <2>2. /\ followUps' \in Seq(FollowUp) /\ Len(followUps') = Len(followUps) + 1
        /\ followUps'[Len(followUps) + 1] = r
        /\ \A i \in 1..Len(followUps) : followUps'[i] = followUps[i]
    BY <1>1, <2>1, AppendProperties DEF FollowTypes
  <2>3. FollowTypes'
    BY <1>1, <2>1, <2>2, FollowUpsAssumption DEF FollowTypes
  <2>4. \A j \in 1..Len(followUps) : FU!SettledBefore(j) => FU!SettledBefore(j)'
    BY <1>1, <2>2 DEF FU!SettledBefore, FU!TurnEnded, FU!TurnOf
  <2>5. \A i \in (1..Len(followUps))' :
           followUps'[i].msg = "sent" \/ followUps'[i].turn # "none" => Ready(i)
    <3> SUFFICES ASSUME NEW i \in (1..Len(followUps))'
                 PROVE followUps'[i].msg = "sent" \/ followUps'[i].turn # "none" => Ready(i)
      OBVIOUS
    <3>1. i = Len(followUps) + 1 \/ (i \in 1..Len(followUps) /\ followUps'[i] = followUps[i])
      BY <1>1, <2>2
    <3> QED
      BY <2>1, <2>2, <3>1 DEF FollowInv
  <2>6. 1..Len(followUps) \subseteq (1..Len(followUps))'
    BY <1>1, <2>2
  <2> QED
    BY <1>2, <2>1, <2>3, <2>4, <2>5, <2>6, FollowKeeps
<1>4. CASE FU!OtherRun
  <2>1. UNCHANGED <<runState, followUps, terminal>>
    BY <1>4 DEF FU!OtherRun
  <2>2. FollowTypes'
    BY <1>1, <2>1 DEF FollowTypes
  <2> QED
    BY <1>2, <2>1, <2>2, RowsStay
<1>5. ASSUME NEW how \in {"completed", "failed", "cancelled"}, FU!RunEndsFollowUps(how)
      PROVE  FollowInv'
  <2>1. /\ runState = "running" /\ runState' = how
        /\ terminal' = [terminal EXCEPT !.msg = "pending"]
    BY <1>5 DEF FU!RunEndsFollowUps
  <2>2. \/ followUps' = followUps
        \/ followUps' = [i \in 1..Len(followUps) |->
                           IF followUps[i].row # "queued" THEN followUps[i]
                           ELSE [followUps[i] EXCEPT !.row = "cancelled",
                                                     !.msg = "cancelled"]]
    BY <1>1, <1>5 DEF FU!RunEndsFollowUps
  <2>3. /\ terminal' \in [msg : MessageStates, turn : TurnStates]
        /\ terminal'.turn = terminal.turn
    BY <1>1, <2>1 DEF FollowTypes, MessageStates
  <2>4. \A i \in 1..Len(followUps) : followUps[i] \in FollowUp
    BY <1>1 DEF FollowTypes
  <2>5. /\ followUps' \in Seq(FollowUp) /\ Len(followUps') = Len(followUps)
        /\ \A i \in 1..Len(followUps) :
              \/ followUps'[i] = followUps[i]
              \/ /\ followUps'[i].msg = "cancelled" /\ followUps'[i].turn = followUps[i].turn
                 /\ followUps[i].row = "queued"
    <3>1. CASE followUps' = followUps
      BY <1>1, <3>1 DEF FollowTypes
    <3>2. CASE followUps' # followUps
      <4> DEFINE e(i) == IF followUps[i].row # "queued" THEN followUps[i]
                         ELSE [followUps[i] EXCEPT !.row = "cancelled",
                                                   !.msg = "cancelled"]
      <4>1. followUps' = [i \in 1..Len(followUps) |-> e(i)]
        BY <2>2, <3>2
      <4>2. ASSUME NEW i \in 1..Len(followUps)
            PROVE  /\ e(i) \in FollowUp
                   /\ \/ e(i) = followUps[i]
                      \/ /\ e(i).msg = "cancelled" /\ e(i).turn = followUps[i].turn
                         /\ followUps[i].row = "queued"
        BY <2>4 DEF FollowUp, MessageStates
      <4> HIDE DEF e
      <4>3. followUps' \in [1..Len(followUps) -> FollowUp]
        BY <4>1, <4>2
      <4>4. followUps' \in Seq(FollowUp)
        BY <1>1, <4>3, SeqDef
      <4>5. Len(followUps') = Len(followUps)
        BY <1>1, <4>3, <4>4, LenProperties
      <4> QED
        BY <4>1, <4>2, <4>4, <4>5
    <3> QED
      BY <3>1, <3>2
  <2>6. FollowTypes'
    BY <1>1, <2>1, <2>3, <2>5 DEF FollowTypes
  <2>7. \A j \in 1..Len(followUps) : FU!SettledBefore(j) => FU!SettledBefore(j)'
    <3> SUFFICES ASSUME NEW j \in 1..Len(followUps), FU!SettledBefore(j)
                 PROVE  FU!SettledBefore(j)'
      OBVIOUS
    <3>1. j # 0 /\ (\/ followUps'[j] = followUps[j]
                    \/ followUps'[j].turn = followUps[j].turn /\ followUps[j].row = "queued")
      BY <1>1, <2>5
    <3> QED
      BY <3>1 DEF FU!SettledBefore, FU!TurnEnded, FU!TurnOf
  <2>8. \A i \in (1..Len(followUps))' :
           followUps'[i].msg = "sent" \/ followUps'[i].turn # "none" => Ready(i)
    BY <2>5 DEF FollowInv
  <2> QED
    BY <1>2, <2>1, <2>3, <2>5, <2>6, <2>7, <2>8, FollowKeeps
<1>6. ASSUME NEW i \in FU!Items, FU!RemoveFollowUp(i)
      PROVE  FollowInv'
  <2>1. /\ i \in 1..Len(followUps) /\ followUps[i] \in FollowUp
        /\ DOMAIN followUps = 1..Len(followUps)
    BY <1>1, LenProperties DEF FollowTypes
  <2> DEFINE r == [followUps[i] EXCEPT !.row = "removed", !.msg = "cancelled"]
  <2>2. /\ r \in FollowUp /\ r.msg = "cancelled" /\ r.turn = followUps[i].turn
        /\ followUps[i].row = "queued" /\ followUps' = [followUps EXCEPT ![i] = r]
        /\ UNCHANGED <<runState, terminal>>
    BY <1>6, <2>1 DEF FU!RemoveFollowUp, FollowUp, MessageStates
  <2>3. r.turn # "none" => Ready(i)
    BY <2>1, <2>2 DEF FollowInv
  <2> HIDE DEF r
  <2> QED
    BY <1>1, <1>2, <2>1, <2>2, <2>3, OneRow
<1> QED
  BY <1>3, <1>4, <1>5, <1>6

LEMMA FollowInvariant == Spec => []FollowInv
<1>1. Init => FollowInv
  <2> SUFFICES ASSUME Init PROVE FollowInv
    OBVIOUS
  <2>1. /\ runState = "running" /\ followUps = << >> /\ Len(followUps) = 0
        /\ terminal = [msg |-> "none", turn |-> "none"] /\ piView = None
        /\ piSession = [branch |-> {}, own |-> FU!NoOwn]
        /\ FU!NoOwn.msg = None /\ FU!NoOwn.phase = "none" /\ FU!NoOwn \in OwnTurn
    BY DEF Init, FU!FollowUpsInit, FU!NoOwn, OwnTurn
  <2>2. FollowTypes
    BY <2>1, FollowUpsAssumption DEF FollowTypes, MessageStates, TurnStates
  <2> QED
    BY <2>1, <2>2 DEF FollowInv
<1>2. FollowInv /\ [Next]_vars => FollowInv'
  <2> SUFFICES ASSUME FollowInv, [Next]_vars PROVE FollowInv'
    OBVIOUS
  <2>1. CASE FollowUpStep
    BY <2>1, ServerStep, PiStep, ReportStep DEF FollowUpStep, FU!FollowUpsNext
  <2>2. CASE ~FollowUpStep
    <3>1. UNCHANGED followVars
      BY <2>2 DEF Next, vars, TurnsStep, SettingsStep, RecordingStep, PruneStep, ViewStep,
                  HeadlessStep, ReplayStep
    <3>2. UNCHANGED <<runState, followUps, terminal, piView, piSession>>
      BY <3>1 DEF followVars
    <3>3. FollowTypes'
      BY <3>2 DEF FollowInv, FollowTypes
    <3> QED
      BY <3>2, <3>3, RowsStay DEF FollowInv
  <2> QED
    BY <2>1, <2>2
<1> QED
  BY <1>1, <1>2, PTL DEF Spec

\* A follow-up has a turn only when its run has completed, the turn of the
\* terminal message has completed and every earlier follow-up is settled,
\* removed or cancelled (isMessageEligible), although Pi sends what an old
\* view showed (synchronize) and the server takes what a branch holds
\* (adoptBranch), in whatever order these arrive and however often Pi is lost.
THEOREM FollowUpsComeInOrder == Spec => []FollowUpsInOrder
<1>1. FollowInv => FollowUpsInOrder
  <2> SUFFICES ASSUME FollowInv PROVE FU!FollowUpsInOrder
    BY DEF FollowUpsInOrder
  <2>1. FU!Items = 1..Len(followUps)
    BY LenProperties DEF FollowInv, FollowTypes, FU!Items
  <2> QED
    BY <2>1 DEF FollowInv, Ready, FU!FollowUpsInOrder, FU!SettledBefore
<1> QED
  BY <1>1, FollowInvariant, PTL

-----------------------------------------------------------------------------
(* Headless runs.                                                          *)

Outcome == [attempt : Nat, outcome : {"none", "ok", "failed", "timed_out"},
            of : Nat, why : {"none", "exited", "closed"}]
Runner == [at : {"none", "boot", "route", "agent", "register", "wait", "accept",
                 "command", "killing", "record", "fail", "closing"},
           attempt : Nat, out : Outcome, child : BOOLEAN,
           reg : {"none", "asked", "done"}, seen : BOOLEAN,
           close : {"no", "killing", "unregister", "done"}, reports : Seq(Nat)]

HeadlessTypes ==
    /\ srv \in {"up", "stopping", "down"} /\ sup \in {"none", "running", "stopping"}
    /\ row \in [status : {"queued", "running", "paused", "completed", "failed"},
                holder : Nat, last : Outcome]
    /\ gen \in 0..MaxRunners /\ ex \in Runner /\ attempts \in 0..MaxSteps
    /\ asked \in [HR!Gens -> SUBSET Nat]

\* An output that is taken is of the step that waits for it.
OutputRow ==
    /\ ex.at = "accept" => ex.out.of = ex.attempt
    /\ ex.at = "record" /\ ex.out.outcome = "ok" => ex.out.of = ex.out.attempt
    /\ row.last.outcome = "ok" => row.last.of = row.last.attempt

NoPi(g) == HR!PiOf(g) \notin live /\ HR!ToolOf(g) \notin live

\* The runner that lives is in the register and supervised, and so is its Pi
\* once that was asked for anything; what it closed is gone.
RunnerRow ==
    HR!RunnerLives =>
      /\ HR!RunnerOf(gen) \in registry /\ gen \notin left
      /\ srv # "down" => sup # "none"
      /\ ex.child => ex.reg # "none" /\ ex.close = "no"
      /\ ex.reg = "done" /\ ex.close # "done" =>
            HR!PiOf(gen) \in registry /\ (srv # "down" => owned)
      /\ ~ex.child /\ ex.close = "no" => NoPi(gen) /\ asked[gen] = {}
      /\ ex.close \in {"unregister", "done"} => NoPi(gen)
      /\ ex.reg = "asked" => asked[gen] = {}
      /\ ex.at \in {"wait", "accept"} => asked[gen] # {}
      /\ \A a \in HR!Attempts : HR!Command(gen, a) \in live =>
            ex.at \in {"command", "killing"} /\ ex.attempt = a

\* Nothing is there of runners that are still to come.
FutureRow ==
    \A g \in HR!Gens : g > gen =>
        /\ asked[g] = {} /\ g \notin left /\ HR!RunnerOf(g) \notin live /\ NoPi(g)
        /\ \A a \in HR!Attempts : HR!Command(g, a) \notin live

WorkRow ==
    /\ \A g \in left : NoPi(g)
    /\ \A g \in HR!Gens, a, b \in HR!Attempts :
          HR!Command(g, a) \in live /\ HR!Command(g, b) \in live => a = b
    /\ \A g, h \in HR!Gens : HR!Working(g) /\ HR!Working(h) => g = h

HeadlessInv == HeadlessTypes /\ OutputRow /\ RunnerRow /\ FutureRow /\ HR!Known /\ WorkRow

LEMMA ProcessesDiffer ==
    /\ \A g, h : HR!RunnerOf(g) = HR!RunnerOf(h) => g = h
    /\ \A g, h : HR!PiOf(g) = HR!PiOf(h) => g = h
    /\ \A g, h : HR!ToolOf(g) = HR!ToolOf(h) => g = h
    /\ \A g, h, a, b : HR!Command(g, a) = HR!Command(h, b) => g = h /\ a = b
    /\ \A g, h : HR!RunnerOf(g) # HR!PiOf(h) /\ HR!RunnerOf(g) # HR!ToolOf(h)
                  /\ HR!PiOf(g) # HR!ToolOf(h)
    /\ \A g, h, a : HR!Command(g, a) # HR!RunnerOf(h) /\ HR!Command(g, a) # HR!PiOf(h)
                  /\ HR!Command(g, a) # HR!ToolOf(h)
    /\ \A g : HR!RunnerOf(g)[1] # "command" /\ HR!PiOf(g)[1] # "command"
    /\ \A g, a : HR!Command(g, a)[1] = "command"
BY DEF HR!RunnerOf, HR!PiOf, HR!ToolOf, HR!Command

\* takeMatchingAction: what is taken was reported for the step.
LEMMA TakeMatches ==
    ASSUME NEW e \in Runner
    PROVE  /\ HR!Take(e) \in Runner /\ HR!Take(e).at \in {"wait", "accept"}
           /\ HR!Take(e).attempt = e.attempt /\ HR!Take(e).child = e.child
           /\ HR!Take(e).reg = e.reg /\ HR!Take(e).close = e.close
           /\ HR!Take(e).seen = e.seen
           /\ HR!Take(e).at = "accept" => HR!Take(e).out.of = e.attempt
<1> DEFINE found == {i \in 1 .. Len(e.reports) : HR!Matching(e, i)}
           first == CHOOSE i \in found : \A j \in found : i <= j
           rest == HR!SeqExt!RemoveAt(e.reports, first)
<1>1. e.reports \in Seq(Nat) /\ Len(e.reports) \in Nat
  BY LenProperties DEF Runner
<1>2. CASE found = {}
  <2>1. HR!Take(e) = [e EXCEPT !.at = "wait"]
    BY <1>2 DEF HR!Take
  <2> QED
    BY <2>1 DEF Runner
<1>3. CASE found # {}
  <2>1. found \in SUBSET Nat
    BY <1>1
  <2>2. \E i \in found : \A j \in found : i <= j
    BY <1>3, <2>1, LeastNumber
  <2>3. first \in found
    BY <2>2
  <2>4. first \in 1..Len(e.reports) /\ e.reports[first] = e.attempt /\ first \in Nat
    BY <2>3, <1>1 DEF HR!Matching
  <2>5. HR!Take(e) = [e EXCEPT !.at = "accept", !.out.of = e.reports[first],
                               !.reports = rest]
    BY <1>3 DEF HR!Take
  <2> HIDE DEF first
  <2>6. rest \in Seq(Nat)
    <3>1. /\ SubSeq(e.reports, 1, first - 1) \in Seq(Nat)
          /\ SubSeq(e.reports, first + 1, Len(e.reports)) \in Seq(Nat)
      BY <1>1, <2>4, SubSeqProperties
    <3> QED
      BY <3>1, ConcatProperties DEF HR!SeqExt!RemoveAt
  <2> HIDE DEF rest
  <2> DEFINE o == [e.out EXCEPT !.of = e.attempt]
  <2>7. o \in Outcome /\ o.of = e.attempt
    BY DEF Runner, Outcome
  <2>8. HR!Take(e) = [e EXCEPT !.at = "accept", !.out = o, !.reports = rest]
    BY <2>4, <2>5
  <2> HIDE DEF o
  <2> QED
    BY <2>6, <2>7, <2>8 DEF Runner
<1> QED
  BY <1>2, <1>3

\* promptForSubmission
LEMMA PromptMoves ==
    ASSUME NEW e \in Runner, HR!Prompt(e)
    PROVE  /\ ex' \in Runner /\ ex'.attempt = e.attempt /\ ex'.child = e.child
           /\ ex'.reg = e.reg /\ ex'.close = e.close
           /\ \/ /\ ex'.at = "record" /\ ex'.out.outcome = "failed" /\ UNCHANGED asked
              \/ /\ e.child /\ ex'.at \in {"wait", "accept"}
                 /\ ex'.at = "accept" => ex'.out.of = ex'.attempt
                 /\ asked' = [asked EXCEPT ![gen] = @ \cup {e.attempt}]
<1>1. CASE ~e.child \/ e.seen
  <2>1. /\ ex' = [e EXCEPT !.at = "record",
                    !.out = [attempt |-> e.attempt, outcome |-> "failed", of |-> 0,
                             why |-> HR!Blame(e)]]
        /\ UNCHANGED asked
    BY <1>1 DEF HR!Prompt, HR!Failed, HR!Result
  <2>2. HR!Blame(e) \in {"exited", "closed"}
    BY DEF HR!Blame
  <2> QED
    BY <2>1, <2>2 DEF Runner, Outcome
<1>2. CASE e.child /\ ~e.seen
  BY <1>2, TakeMatches DEF HR!Prompt
<1> QED
  BY <1>1, <1>2 DEF Runner

\* What dies cannot break what was about the living.
LEMMA Shrinks ==
    ASSUME HeadlessInv, HeadlessTypes', OutputRow', RunnerRow', HR!Known',
           UNCHANGED <<gen, asked, left>>, live' \subseteq live
    PROVE  HeadlessInv'
<1>1. \A g : NoPi(g) => NoPi(g)'
  BY DEF NoPi
<1>2. FutureRow'
  BY <1>1 DEF HeadlessInv, FutureRow
<1>3. WorkRow'
  BY <1>1 DEF HeadlessInv, WorkRow, HR!Working
<1> QED
  BY <1>2, <1>3 DEF HeadlessInv

\* While the server stays as it is, what works stays known to it.
LEMMA StaysKnown ==
    ASSUME HeadlessInv, UNCHANGED <<srv, registry, owned, sup, gen, asked>>,
           live' \subseteq live
    PROVE  HR!Known'
BY DEF HeadlessInv, HR!Known, HR!Working, HR!Answering

\* A step of the engine that does not touch its Pi.
LEMMA EngineMoves ==
    ASSUME HeadlessInv, UNCHANGED <<srv, registry, owned, sup, gen, asked, left, attempts>>,
           live' \subseteq live, ex' \in Runner, OutputRow',
           row' \in [status : {"queued", "running", "paused", "completed", "failed"},
                     holder : Nat, last : Outcome],
           ex'.child = ex.child, ex'.reg = ex.reg, ex'.close = ex.close,
           ex'.at \in {"wait", "accept"} => ex.at \in {"wait", "accept"},
           HR!RunnerLives => \A a \in HR!Attempts : HR!Command(gen, a) \in live' =>
              ex'.at \in {"command", "killing"} /\ ex'.attempt = a
    PROVE  HeadlessInv'
<1>1. HeadlessTypes'
  BY DEF HeadlessInv, HeadlessTypes
<1>2. RunnerRow'
  BY DEF HeadlessInv, RunnerRow, HR!RunnerLives, NoPi
<1> QED
  BY <1>1, <1>2, StaysKnown, Shrinks

\* The runner dies.
LEMMA RunnerDies ==
    ASSUME HeadlessInv, UNCHANGED <<srv, registry, owned, sup, gen, asked, attempts, row>>,
           HR!RunnerGone, left' = left \/ (left' = left \cup {gen} /\ NoPi(gen))
    PROVE  HeadlessInv'
<1>1. HR!Fresh \in Runner /\ HR!Fresh.at = "none"
  <2>1. << >> \in Seq(Nat)
    OBVIOUS
  <2> QED
    BY <2>1 DEF HR!Fresh, HR!NoResult, Runner, Outcome
<1>2. live' = live \ {HR!RunnerOf(gen)} /\ ex' = HR!Fresh
  BY DEF HR!RunnerGone
<1>3. HeadlessTypes' /\ OutputRow'
  BY <1>1, <1>2 DEF HeadlessInv, HeadlessTypes, OutputRow
<1>4. RunnerRow'
  BY <1>2 DEF RunnerRow, HR!RunnerLives
<1>5. HR!Known'
  BY <1>2, StaysKnown
<1>6. \A g : NoPi(g) => NoPi(g)'
  BY <1>2 DEF NoPi
<1>7. gen \in Nat
  BY HeadlessAssumption DEF HeadlessInv, HeadlessTypes
<1>8. FutureRow'
  BY <1>2, <1>6, <1>7, HeadlessAssumption DEF HeadlessInv, FutureRow, HR!Gens
<1>9. WorkRow'
  BY <1>2, <1>6 DEF HeadlessInv, WorkRow, HR!Working
<1> QED
  BY <1>3, <1>4, <1>5, <1>8, <1>9 DEF HeadlessInv

\* Steps of the runner that neither start nor stop a process but a command.
LEMMA EngineStep ==
    ASSUME HeadlessInv, HR!RunnerLives,
           \/ HR!Boot \/ HR!Accept(TRUE) \/ HR!NodeTimesOut \/ HR!KillCommand
           \/ HR!Record \/ HR!Finish \/ HR!ClaimLost \/ HR!SeeExit
    PROVE  HeadlessInv'
<1>1. /\ UNCHANGED <<srv, registry, owned, sup, gen, asked, left, attempts>>
      /\ live' \subseteq live /\ ex \in Runner
      /\ row \in [status : {"queued", "running", "paused", "completed", "failed"},
                  holder : Nat, last : Outcome]
  BY DEF HeadlessInv, HeadlessTypes, HR!Boot, HR!Accept, HR!NodeTimesOut, HR!KillCommand,
         HR!Record, HR!Finish, HR!ClaimLost, HR!SeeExit, HR!Serving, HR!Bounds
<1>2. /\ \A a \in HR!Attempts : HR!Command(gen, a) \in live =>
            ex.at \in {"command", "killing"} /\ ex.attempt = a
      /\ OutputRow
  BY DEF HeadlessInv, RunnerRow
<1>3. ex.out \in Outcome /\ row.last \in Outcome /\ HR!NoResult \in Outcome
  BY <1>1 DEF Runner, Outcome, HR!NoResult
<1>4. CASE HR!Boot
  <2>1. /\ ex.at = "boot" /\ ex' = [ex EXCEPT !.at = "route"] /\ UNCHANGED <<row, live>>
    BY <1>4 DEF HR!Boot
  <2>2. /\ ex' \in Runner /\ ex'.child = ex.child /\ ex'.reg = ex.reg
        /\ ex'.close = ex.close /\ ex'.at = "route"
    BY <1>1, <2>1 DEF Runner
  <2>3. OutputRow'
    BY <1>2, <2>1, <2>2 DEF OutputRow
  <2> QED
    BY <1>1, <1>2, <2>1, <2>2, <2>3, EngineMoves
<1>5. CASE HR!Accept(TRUE)
  <2>1. /\ ex.at = "accept" /\ UNCHANGED <<row, live>>
        /\ ex' = [ex EXCEPT !.at = "record",
                            !.out = [attempt |-> ex.attempt, outcome |-> "ok",
                                     of |-> ex.out.of, why |-> "none"]]
    BY <1>5 DEF HR!Accept, HR!Result
  <2>2. /\ ex' \in Runner /\ ex'.child = ex.child /\ ex'.reg = ex.reg
        /\ ex'.close = ex.close /\ ex'.at = "record"
        /\ ex'.out.of = ex.out.of /\ ex'.out.attempt = ex.attempt
    BY <1>1, <2>1 DEF Runner, Outcome
  <2>3. OutputRow'
    BY <1>2, <2>1, <2>2 DEF OutputRow
  <2> QED
    BY <1>1, <1>2, <2>1, <2>2, <2>3, EngineMoves
<1>6. CASE HR!NodeTimesOut
  <2>1. ex.at \in {"register", "wait", "accept", "command"} /\ UNCHANGED <<row, live>>
    BY <1>6 DEF HR!NodeTimesOut
  <2>2. CASE ex.at = "command"
    <3>1. ex' = [ex EXCEPT !.at = "killing"]
      BY <1>6, <2>2 DEF HR!NodeTimesOut
    <3>2. /\ ex' \in Runner /\ ex'.child = ex.child /\ ex'.reg = ex.reg
          /\ ex'.close = ex.close /\ ex'.at = "killing" /\ ex'.attempt = ex.attempt
      BY <1>1, <3>1 DEF Runner
    <3>3. OutputRow'
      BY <1>2, <2>1, <3>2 DEF OutputRow
    <3> QED
      BY <1>1, <1>2, <2>1, <3>2, <3>3, EngineMoves
  <2>3. CASE ex.at # "command"
    <3>1. ex' = [ex EXCEPT !.at = "record",
                           !.out = [attempt |-> ex.attempt, outcome |-> "timed_out",
                                    of |-> 0, why |-> "none"]]
      BY <1>6, <2>3 DEF HR!NodeTimesOut, HR!Result
    <3>2. /\ ex' \in Runner /\ ex'.child = ex.child /\ ex'.reg = ex.reg
          /\ ex'.close = ex.close /\ ex'.at = "record" /\ ex'.out.outcome = "timed_out"
      BY <1>1, <3>1 DEF Runner, Outcome
    <3>3. OutputRow'
      BY <1>2, <2>1, <3>2 DEF OutputRow
    <3>4. \A a \in HR!Attempts : HR!Command(gen, a) \notin live
      BY <1>2, <2>1, <2>3
    <3> QED
      BY <1>1, <2>1, <3>2, <3>3, <3>4, EngineMoves
  <2> QED
    BY <2>2, <2>3
<1>7. CASE HR!KillCommand
  <2>1. /\ ex.at = "killing" /\ live' = live \ {HR!Command(gen, ex.attempt)}
        /\ ex' = [ex EXCEPT !.at = "record",
                            !.out = [attempt |-> ex.attempt, outcome |-> "timed_out",
                                     of |-> 0, why |-> "none"]]
        /\ UNCHANGED row
    BY <1>7 DEF HR!KillCommand, HR!Result
  <2>2. /\ ex' \in Runner /\ ex'.child = ex.child /\ ex'.reg = ex.reg
        /\ ex'.close = ex.close /\ ex'.at = "record" /\ ex'.out.outcome = "timed_out"
    BY <1>1, <2>1 DEF Runner, Outcome
  <2>3. OutputRow'
    BY <1>2, <2>1, <2>2 DEF OutputRow
  <2>4. \A a \in HR!Attempts : HR!Command(gen, a) \notin live'
    BY <1>2, <2>1
  <2> QED
    BY <1>1, <2>1, <2>2, <2>3, <2>4, EngineMoves
<1>8. CASE HR!Record
  <2>1. /\ ex.at = "record" /\ row' = [row EXCEPT !.last = ex.out] /\ UNCHANGED live
    BY <1>8 DEF HR!Record
  <2>2. PICK next \in {"route", "fail"} :
           ex' = [ex EXCEPT !.at = next, !.out = HR!NoResult]
    BY <1>8 DEF HR!Record
  <2>3. /\ ex' \in Runner /\ ex'.child = ex.child /\ ex'.reg = ex.reg
        /\ ex'.close = ex.close /\ ex'.at = next
    BY <1>1, <1>3, <2>2 DEF Runner
  <2>4. /\ row' \in [status : {"queued", "running", "paused", "completed", "failed"},
                     holder : Nat, last : Outcome]
        /\ row'.last = ex.out
    BY <1>1, <1>3, <2>1
  <2>5. OutputRow'
    BY <1>2, <2>1, <2>3, <2>4 DEF OutputRow
  <2>6. \A a \in HR!Attempts : HR!Command(gen, a) \notin live'
    BY <1>2, <2>1
  <2> QED
    BY <1>1, <2>3, <2>4, <2>5, <2>6, EngineMoves
<1>9. CASE HR!Finish \/ HR!ClaimLost
  <2>1. /\ ex.at \in {"boot", "route", "agent", "record", "fail"}
        /\ ex' = [ex EXCEPT !.at = "closing"] /\ UNCHANGED live
    BY <1>9 DEF HR!Finish, HR!ClaimLost, HR!Commits
  <2>2. /\ ex' \in Runner /\ ex'.child = ex.child /\ ex'.reg = ex.reg
        /\ ex'.close = ex.close /\ ex'.at = "closing"
    BY <1>1, <2>1 DEF Runner
  <2>3. /\ row' \in [status : {"queued", "running", "paused", "completed", "failed"},
                     holder : Nat, last : Outcome]
        /\ row'.last = row.last
    <3>1. CASE HR!Finish
      <4>1. row' = [row EXCEPT !.holder = 0,
                               !.status = IF ex.at = "route" THEN "completed" ELSE "failed"]
        BY <3>1 DEF HR!Finish
      <4> QED
        BY <1>1, <4>1
    <3>2. CASE HR!ClaimLost
      BY <1>1, <3>2 DEF HR!ClaimLost
    <3> QED
      BY <1>9, <3>1, <3>2
  <2>4. OutputRow'
    BY <1>2, <2>2, <2>3 DEF OutputRow
  <2>5. \A a \in HR!Attempts : HR!Command(gen, a) \notin live'
    BY <1>2, <2>1
  <2> QED
    BY <1>1, <2>2, <2>3, <2>4, <2>5, EngineMoves
<1>10. CASE HR!SeeExit
  <2> DEFINE known == [ex EXCEPT !.seen = TRUE]
  <2>1. /\ UNCHANGED <<row, live>>
        /\ ex' = IF ex.at = "wait" THEN HR!Failed(known, HR!Blame(ex)) ELSE known
    BY <1>10 DEF HR!SeeExit
  <2>2. /\ known \in Runner /\ known.child = ex.child /\ known.reg = ex.reg
        /\ known.close = ex.close /\ known.at = ex.at /\ known.attempt = ex.attempt
        /\ known.out = ex.out
    BY <1>1 DEF Runner
  <2> HIDE DEF known
  <2>3. CASE ex.at = "wait"
    <3>1. /\ ex' = [known EXCEPT !.at = "record",
                        !.out = [attempt |-> known.attempt, outcome |-> "failed", of |-> 0,
                                 why |-> HR!Blame(ex)]]
          /\ HR!Blame(ex) \in {"exited", "closed"}
      BY <2>1, <2>3 DEF HR!Failed, HR!Result, HR!Blame
    <3>2. /\ ex' \in Runner /\ ex'.child = ex.child /\ ex'.reg = ex.reg
          /\ ex'.close = ex.close /\ ex'.at = "record" /\ ex'.out.outcome = "failed"
      BY <2>2, <3>1 DEF Runner, Outcome
    <3>3. OutputRow'
      BY <1>2, <2>1, <3>2 DEF OutputRow
    <3>4. \A a \in HR!Attempts : HR!Command(gen, a) \notin live'
      BY <1>2, <2>1, <2>3
    <3> QED
      BY <1>1, <2>1, <3>2, <3>3, <3>4, EngineMoves
  <2>4. CASE ex.at # "wait"
    <3>1. ex' = known
      BY <2>1, <2>4
    <3>2. OutputRow'
      BY <1>2, <2>1, <2>2, <3>1 DEF OutputRow
    <3> QED
      BY <1>1, <1>2, <2>1, <2>2, <3>1, <3>2, EngineMoves
  <2> QED
    BY <2>3, <2>4
<1> QED
  BY <1>4, <1>5, <1>6, <1>7, <1>8, <1>9, <1>10

\* The steps of the engine that ask Pi.
LEMMA PromptKeeps ==
    ASSUME HeadlessInv, HR!RunnerLives, NEW e \in Runner, HR!Prompt(e),
           UNCHANGED <<srv, sup, gen, live, left, attempts, row>>,
           e.child = ex.child, e.close = ex.close, e.reg # "asked",
           e.reg = "done" /\ e.close # "done" =>
              HR!PiOf(gen) \in registry' /\ (srv # "down" => owned'),
           e.child => e.reg = "done",
           registry \subseteq registry', owned => owned' = TRUE,
           srv # "down" \/ asked[gen] # {},
           ex.at \notin {"command", "killing"}
    PROVE  HeadlessInv'
<1>1. /\ gen \in HR!Gens /\ gen \in Nat /\ asked \in [HR!Gens -> SUBSET Nat]
      /\ e.attempt \in Nat
  BY HeadlessAssumption DEF HeadlessInv, HeadlessTypes, HR!RunnerLives, HR!Gens, Runner
<1>2. /\ HR!RunnerOf(gen) \in registry /\ gen \notin left /\ (srv # "down" => sup # "none")
      /\ e.child => e.close = "no"
      /\ ~e.child /\ e.close = "no" => NoPi(gen) /\ asked[gen] = {}
      /\ e.close \in {"unregister", "done"} => NoPi(gen)
      /\ \A a \in HR!Attempts : HR!Command(gen, a) \notin live
  BY DEF HeadlessInv, RunnerRow
<1>3. /\ ex' \in Runner /\ ex'.child = e.child /\ ex'.reg = e.reg /\ ex'.close = e.close
      /\ \/ /\ ex'.at = "record" /\ ex'.out.outcome = "failed" /\ UNCHANGED asked
         \/ /\ e.child /\ ex'.at \in {"wait", "accept"}
            /\ ex'.at = "accept" => ex'.out.of = ex'.attempt
            /\ asked' = [asked EXCEPT ![gen] = @ \cup {e.attempt}]
  BY PromptMoves
<1>4. /\ asked' \in [HR!Gens -> SUBSET Nat]
      /\ \A g \in HR!Gens \ {gen} : asked'[g] = asked[g]
      /\ ~e.child => asked' = asked
      /\ ex'.at \in {"wait", "accept"} => asked'[gen] # {}
  BY <1>1, <1>3
<1>5. HeadlessTypes'
  BY <1>3, <1>4 DEF HeadlessInv, HeadlessTypes
<1>6. OutputRow'
  BY <1>3 DEF HeadlessInv, OutputRow
<1>7. RunnerRow'
  BY <1>2, <1>3, <1>4 DEF RunnerRow, HR!RunnerLives, NoPi
<1>8. FutureRow'
  BY <1>1, <1>4 DEF HeadlessInv, FutureRow, NoPi
<1>9. ASSUME NEW g \in HR!Gens, HR!Working(g)'
      PROVE  /\ HR!PiOf(g) \in registry'
             /\ HR!Answering' => owned' /\ g = gen' /\ sup' # "none"
             /\ HR!Working(g) \/ (g = gen /\ srv # "down")
  <2>1. CASE HR!Working(g)
    BY <2>1, <1>9 DEF HeadlessInv, HR!Known, HR!Answering
  <2>2. CASE ~HR!Working(g)
    <3>1. g = gen /\ e.child /\ srv # "down"
      BY <1>4, <1>9, <2>2 DEF HR!Working
    <3> QED
      BY <1>2, <3>1 DEF HR!Answering
  <2> QED
    BY <2>1, <2>2
<1>10. HR!Known'
  BY <1>9 DEF HR!Known
<1>11. WorkRow'
  <2>1. ASSUME NEW g \in HR!Gens, NEW h \in HR!Gens, HR!Working(g)', HR!Working(h)'
        PROVE  g = h
    <3>1. /\ HR!Working(g) \/ (g = gen /\ srv # "down")
          /\ HR!Working(h) \/ (h = gen /\ srv # "down")
      BY <1>9, <2>1
    <3>2. \A k \in HR!Gens : HR!Working(k) /\ srv # "down" => k = gen
      BY DEF HeadlessInv, HR!Known, HR!Answering
    <3> QED
      BY <3>1, <3>2 DEF HeadlessInv, WorkRow
  <2> QED
    BY <2>1 DEF HeadlessInv, WorkRow, NoPi
<1> QED
  BY <1>5, <1>6, <1>7, <1>8, <1>10, <1>11 DEF HeadlessInv

\* The runner's executor closes its Pi.
LEMMA ClosingKeeps ==
    ASSUME HeadlessInv, HR!RunnerLives, ex.close = "no", ex' = HR!Closing(ex),
           UNCHANGED <<srv, registry, owned, sup, gen, live, asked, left, attempts, row>>
    PROVE  HeadlessInv'
<1>1. ex \in Runner
  BY DEF HeadlessInv, HeadlessTypes
<1>2. ex' = [ex EXCEPT !.child = FALSE, !.close = IF ex.child THEN "killing" ELSE "done"]
  BY DEF HR!Closing
<1>3. /\ ex' \in Runner /\ ex'.child = FALSE /\ ex'.reg = ex.reg /\ ex'.at = ex.at
      /\ ex'.attempt = ex.attempt /\ ex'.out = ex.out
      /\ ex'.close = IF ex.child THEN "killing" ELSE "done"
  BY <1>1, <1>2 DEF Runner
<1>4. HeadlessTypes' /\ OutputRow'
  BY <1>3 DEF HeadlessInv, HeadlessTypes, OutputRow
<1>5. RunnerRow'
  BY <1>3 DEF HeadlessInv, RunnerRow, HR!RunnerLives, NoPi
<1> QED
  BY <1>4, <1>5, StaysKnown, Shrinks

LEMMA CloseStep ==
    ASSUME HeadlessInv, HR!RunnerLives,
           \/ HR!Close \/ HR!GroupGone \/ HR!Unregister \/ HR!Leave \/ HR!BrokenPipe
    PROVE  HeadlessInv'
<1>1. ex \in Runner
  BY DEF HeadlessInv, HeadlessTypes
<1>2. CASE HR!Close
  BY <1>2, ClosingKeeps DEF HR!Close, HR!Serving, HR!Bounds
<1>3. CASE HR!GroupGone
  <2>1. /\ ex.close = "killing" /\ live' = live \ HR!Group(gen)
        /\ ex' = [ex EXCEPT !.close = IF ex.reg = "done" THEN "unregister" ELSE "done"]
        /\ UNCHANGED <<srv, registry, owned, sup, gen, asked, left, attempts, row>>
    BY <1>3 DEF HR!GroupGone, HR!Serving, HR!Bounds
  <2>2. /\ ex' \in Runner /\ ex'.child = ex.child /\ ex'.reg = ex.reg /\ ex'.at = ex.at
        /\ ex'.attempt = ex.attempt /\ ex'.out = ex.out
        /\ ex'.close \in {"unregister", "done"}
        /\ ex'.close # "done" => ex.close # "done"
    BY <1>1, <2>1 DEF Runner
  <2>3. HeadlessTypes' /\ OutputRow'
    BY <2>1, <2>2 DEF HeadlessInv, HeadlessTypes, OutputRow
  <2>4. NoPi(gen)' /\ live' \subseteq live
    BY <2>1 DEF NoPi, HR!Group
  <2>5. RunnerRow'
    BY <2>1, <2>2, <2>4 DEF HeadlessInv, RunnerRow, HR!RunnerLives
  <2> QED
    BY <2>1, <2>3, <2>4, <2>5, StaysKnown, Shrinks
<1>4. CASE HR!Unregister
  <2>1. /\ ex.close = "unregister" /\ HR!Answering
        /\ registry' \in {registry, registry \ {HR!PiOf(gen)}}
        /\ ex' = [ex EXCEPT !.close = "done"]
        /\ UNCHANGED <<srv, sup, gen, live, asked, left, attempts, row>>
        /\ owned' = FALSE
    BY <1>4 DEF HR!Unregister, HR!Bounds
  <2>2. /\ ex' \in Runner /\ ex'.child = ex.child /\ ex'.reg = ex.reg /\ ex'.at = ex.at
        /\ ex'.attempt = ex.attempt /\ ex'.out = ex.out /\ ex'.close = "done"
    BY <1>1, <2>1 DEF Runner
  <2>3. HeadlessTypes' /\ OutputRow'
    BY <2>1, <2>2 DEF HeadlessInv, HeadlessTypes, OutputRow
  <2>4. NoPi(gen) /\ HR!RunnerOf(gen) \in registry'
    BY <2>1, ProcessesDiffer DEF HeadlessInv, RunnerRow
  <2>5. RunnerRow'
    BY <2>1, <2>2, <2>4 DEF HeadlessInv, RunnerRow, HR!RunnerLives, NoPi
  <2>6. \A g \in HR!Gens : ~HR!Working(g)'
    BY <2>1, <2>4 DEF HeadlessInv, HR!Known, HR!Working, NoPi
  <2>7. HR!Known'
    BY <2>6 DEF HR!Known
  <2> QED
    BY <2>1, <2>3, <2>5, <2>7, Shrinks
<1>5. CASE HR!Leave
  <2>1. NoPi(gen)
    BY <1>5 DEF HR!Leave, HeadlessInv, RunnerRow
  <2> QED
    BY <1>5, <2>1, RunnerDies DEF HR!Leave, HR!Serving
<1>6. CASE HR!BrokenPipe
  BY <1>6, RunnerDies DEF HR!BrokenPipe, HR!Serving, HR!Bounds
<1> QED
  BY <1>2, <1>3, <1>4, <1>5, <1>6

LEMMA AskStep ==
    ASSUME HeadlessInv, HR!RunnerLives,
           \/ HR!StartNode("agent") \/ HR!StartNode("command") \/ HR!StartAgentStep
           \/ HR!Register \/ HR!Accept(FALSE)
    PROVE  HeadlessInv'
<1>1. /\ ex \in Runner /\ gen \in HR!Gens /\ gen \in Nat
      /\ attempts \in 0..MaxSteps /\ attempts \in Nat /\ MaxSteps \in Nat
  BY HeadlessAssumption DEF HeadlessInv, HeadlessTypes, HR!RunnerLives, HR!Gens
<1>2. /\ HR!RunnerOf(gen) \in registry /\ gen \notin left
      /\ srv # "down" => sup # "none"
      /\ ex.child => ex.reg # "none" /\ ex.close = "no"
      /\ ex.reg = "done" /\ ex.close # "done" =>
            HR!PiOf(gen) \in registry /\ (srv # "down" => owned)
      /\ ~ex.child /\ ex.close = "no" => NoPi(gen) /\ asked[gen] = {}
      /\ ex.close \in {"unregister", "done"} => NoPi(gen)
      /\ ex.reg = "asked" => asked[gen] = {}
      /\ ex.at \in {"wait", "accept"} => asked[gen] # {}
      /\ \A a \in HR!Attempts : HR!Command(gen, a) \in live =>
            ex.at \in {"command", "killing"} /\ ex.attempt = a
      /\ ex.reg \in {"none", "asked", "done"}
  BY <1>1 DEF HeadlessInv, RunnerRow, Runner
<1>3. ASSUME NEW kind \in {"agent", "command"}, HR!StartNode(kind)
      PROVE  HeadlessInv'
  <2>1. /\ ex.at = "route" /\ attempts < MaxSteps /\ attempts' = attempts + 1
        /\ ex' = [ex EXCEPT !.at = kind, !.attempt = attempts + 1]
        /\ live' = IF kind = "command" THEN live \cup {HR!Command(gen, attempts + 1)}
                   ELSE live
        /\ UNCHANGED <<srv, registry, owned, sup, gen, asked, left, row>>
    BY <1>3 DEF HR!StartNode, HR!Serving, HR!Bounds
  <2>2. /\ ex' \in Runner /\ ex'.child = ex.child /\ ex'.reg = ex.reg /\ ex'.at = kind
        /\ ex'.close = ex.close /\ ex'.attempt = attempts + 1
    <3> DEFINE n == attempts + 1
    <3>1. n \in Nat /\ ex' = [ex EXCEPT !.at = kind, !.attempt = n]
      BY <1>1, <2>1
    <3> HIDE DEF n
    <3>2. ex' \in Runner /\ ex'.child = ex.child /\ ex'.reg = ex.reg /\ ex'.at = kind
          /\ ex'.close = ex.close /\ ex'.attempt = n
      BY <1>1, <3>1 DEF Runner
    <3> QED
      BY <3>2 DEF n
  <2>3. HeadlessTypes' /\ OutputRow'
    BY <1>1, <2>1, <2>2 DEF HeadlessInv, HeadlessTypes, OutputRow
  <2>4. \A g : /\ NoPi(g)' <=> NoPi(g)
               /\ HR!RunnerOf(g) \in live' <=> HR!RunnerOf(g) \in live
               /\ HR!PiOf(g) \in live' <=> HR!PiOf(g) \in live
    BY <2>1, ProcessesDiffer DEF NoPi
  <2>5. \A g, a : HR!Command(g, a) \in live' =>
                     HR!Command(g, a) \in live
                        \/ (kind = "command" /\ g = gen /\ a = attempts + 1)
    BY <2>1, ProcessesDiffer
  <2>6. RunnerRow'
    <3>1. \A a \in HR!Attempts : HR!Command(gen, a) \in live' =>
             ex'.at \in {"command", "killing"} /\ ex'.attempt = a
      BY <1>2, <2>1, <2>2, <2>5
    <3> QED
      BY <1>2, <2>1, <2>2, <2>4, <3>1 DEF RunnerRow, HR!RunnerLives
  <2>7. FutureRow'
    BY <1>1, <2>1, <2>4, <2>5 DEF HeadlessInv, FutureRow
  <2>8. WorkRow'
    <3>1. \A g \in HR!Gens, a, b \in HR!Attempts :
             HR!Command(g, a) \in live' /\ HR!Command(g, b) \in live' => a = b
      BY <1>2, <2>1, <2>5 DEF HeadlessInv, WorkRow
    <3> QED
      BY <2>1, <2>4, <3>1 DEF HeadlessInv, WorkRow, HR!Working
  <2>9. HR!Known'
    BY <2>1, <2>4 DEF HeadlessInv, HR!Known, HR!Working, HR!Answering
  <2> QED
    BY <2>3, <2>6, <2>7, <2>8, <2>9 DEF HeadlessInv
<1>4. CASE HR!StartAgentStep
  <2>1. /\ ex.at = "agent" /\ srv # "down" /\ ex.reg # "asked"
        /\ UNCHANGED <<srv, registry, owned, sup, gen, left, attempts, row>>
    BY <1>4 DEF HR!StartAgentStep, HR!Granted, HR!Answering, HR!InOrder, HR!Serving,
                HR!Bounds
  <2>2. CASE ex.close = "no" /\ ~ex.child
    <3>1. /\ ex' = [ex EXCEPT !.at = "register", !.child = TRUE, !.reg = "asked"]
          /\ live' = live \cup {HR!PiOf(gen)} /\ UNCHANGED asked
      BY <1>4, <2>2 DEF HR!StartAgentStep
    <3>2. /\ ex' \in Runner /\ ex'.child = TRUE /\ ex'.reg = "asked" /\ ex'.at = "register"
          /\ ex'.close = "no"
      BY <1>1, <2>2, <3>1 DEF Runner
    <3>3. HeadlessTypes' /\ OutputRow'
      BY <2>1, <3>1, <3>2 DEF HeadlessInv, HeadlessTypes, OutputRow
    <3>4. /\ \A g : HR!RunnerOf(g) \in live' <=> HR!RunnerOf(g) \in live
          /\ \A g, a : HR!Command(g, a) \in live' <=> HR!Command(g, a) \in live
          /\ \A g : g # gen => (NoPi(g)' <=> NoPi(g))
          /\ \A g : HR!PiOf(g) \in live' => HR!PiOf(g) \in live \/ g = gen
          /\ asked[gen] = {}
      BY <1>2, <2>2, <3>1, ProcessesDiffer DEF NoPi
    <3>5. RunnerRow'
      BY <1>2, <2>1, <3>1, <3>2, <3>4 DEF RunnerRow, HR!RunnerLives
    <3>6. \A g \in HR!Gens : HR!Working(g)' => HR!Working(g)
      BY <3>1, <3>4 DEF HR!Working
    <3>7. HR!Known'
      BY <2>1, <3>6 DEF HeadlessInv, HR!Known, HR!Answering
    <3>8. FutureRow'
      BY <1>1, <2>1, <3>1, <3>4 DEF HeadlessInv, FutureRow
    <3>9. WorkRow'
      BY <1>2, <2>1, <3>4, <3>6 DEF HeadlessInv, WorkRow
    <3> QED
      BY <3>3, <3>5, <3>7, <3>8, <3>9 DEF HeadlessInv
  <2>3. CASE ~(ex.close = "no" /\ ~ex.child)
    <3>1. HR!Prompt(ex) /\ UNCHANGED live
      BY <1>4, <2>3 DEF HR!StartAgentStep
    <3> QED
      BY <1>1, <1>2, <2>1, <3>1, PromptKeeps
  <2> QED
    BY <2>2, <2>3
<1>5. CASE HR!Accept(FALSE)
  <2>1. /\ ex.at = "accept" /\ HR!Prompt(ex)
        /\ UNCHANGED <<srv, registry, owned, sup, gen, live, left, attempts, row>>
    BY <1>5 DEF HR!Accept, HR!Serving, HR!Bounds
  <2> QED
    BY <1>1, <1>2, <2>1, PromptKeeps
<1>6. CASE HR!Register
  <2> DEFINE registered == [ex EXCEPT !.reg = "done"]
             refused == [ex EXCEPT !.reg = "none", !.child = FALSE, !.seen = TRUE]
  <2>1. /\ ex.reg = "asked" /\ srv # "down"
        /\ UNCHANGED <<srv, sup, gen, left, attempts, row>>
    BY <1>6 DEF HR!Register, HR!Answering, HR!Bounds
  <2>2. /\ registered \in Runner /\ registered.child = ex.child
        /\ registered.reg = "done" /\ registered.close = ex.close
        /\ registered.at = ex.at /\ registered.attempt = ex.attempt
        /\ registered.out = ex.out
    BY <1>1 DEF Runner
  <2>3. /\ refused \in Runner /\ refused.child = FALSE /\ refused.reg = "none"
        /\ refused.close = ex.close /\ refused.at = ex.at /\ refused.attempt = ex.attempt
        /\ refused.out = ex.out
    BY <1>1 DEF Runner
  <2>4. CASE /\ HR!PiOf(gen) \in live /\ registry' = registry \cup {HR!PiOf(gen)}
             /\ owned' = TRUE /\ UNCHANGED live
             /\ IF ex.at = "register" THEN HR!Prompt(registered)
                ELSE ex' = registered /\ UNCHANGED asked
    <3> HIDE DEF registered, refused
    <3>1. CASE ex.at = "register"
      BY <1>2, <2>1, <2>2, <2>4, <3>1, PromptKeeps
    <3>2. CASE ex.at # "register"
      <4>1. ex' = registered /\ UNCHANGED <<asked, live>>
        BY <2>4, <3>2
      <4>2. HeadlessTypes' /\ OutputRow'
        BY <2>1, <2>2, <4>1 DEF HeadlessInv, HeadlessTypes, OutputRow
      <4>3. RunnerRow'
        BY <1>2, <2>1, <2>2, <2>4, <4>1 DEF RunnerRow, HR!RunnerLives, NoPi
      <4>4. HR!Known'
        BY <2>1, <2>4, <4>1 DEF HeadlessInv, HR!Known, HR!Working, HR!Answering
      <4> QED
        BY <2>1, <4>1, <4>2, <4>3, <4>4, Shrinks
    <3> QED
      BY <3>1, <3>2
  <2>5. CASE /\ live' = live \ HR!Group(gen) /\ UNCHANGED <<registry, owned, asked>>
             /\ ex' = IF ex.at # "register" THEN refused
                      ELSE IF row.holder = gen THEN HR!Failed(refused, HR!Blame(ex))
                      ELSE [refused EXCEPT !.at = "closing"]
    <3>1. NoPi(gen)' /\ live' \subseteq live
      BY <2>1, <2>5 DEF NoPi, HR!Group
    <3>2. /\ ex' \in Runner /\ ex'.child = FALSE /\ ex'.reg = "none"
          /\ ex'.close = ex.close
          /\ \/ ex.at # "register" /\ ex'.at = ex.at /\ ex'.attempt = ex.attempt
                /\ ex'.out = ex.out
             \/ ex.at = "register" /\ ex'.at = "record" /\ ex'.out.outcome = "failed"
             \/ ex.at = "register" /\ ex'.at = "closing"
      <4> HIDE DEF refused
      <4>1. CASE ex.at # "register"
        <5>1. ex' = refused
          BY <2>5, <4>1
        <5> QED
          BY <2>3, <4>1, <5>1
      <4>2. CASE ex.at = "register" /\ ex' = HR!Failed(refused, HR!Blame(ex))
        <5> DEFINE o == [attempt |-> refused.attempt, outcome |-> "failed", of |-> 0,
                         why |-> HR!Blame(ex)]
        <5>1. ex' = [refused EXCEPT !.at = "record", !.out = o]
          BY <4>2 DEF HR!Failed, HR!Result
        <5>2. HR!Blame(ex) \in {"exited", "closed"} /\ refused.attempt \in Nat
          BY <2>3 DEF HR!Blame, Runner
        <5>3. o \in Outcome /\ o.outcome = "failed"
          BY <5>2 DEF Outcome
        <5> HIDE DEF o
        <5> QED
          BY <2>3, <4>2, <5>1, <5>3 DEF Runner
      <4>3. CASE ex.at = "register" /\ ex' = [refused EXCEPT !.at = "closing"]
        BY <2>3, <4>3 DEF Runner
      <4> QED
        BY <2>5, <4>1, <4>2, <4>3
    <3>3. HeadlessTypes' /\ OutputRow'
      BY <2>1, <2>5, <3>2 DEF HeadlessInv, HeadlessTypes, OutputRow
    <3>4. RunnerRow'
      BY <1>2, <2>1, <2>5, <3>1, <3>2 DEF RunnerRow, HR!RunnerLives
    <3> QED
      BY <2>1, <2>5, <3>1, <3>3, <3>4, StaysKnown, Shrinks
  <2> QED
    BY <1>6, <2>4, <2>5 DEF HR!Register
<1> QED
  BY <1>3, <1>4, <1>5, <1>6

\* What Pi, its tools and the commands do, and deaths.
LEMMA OutsideStep ==
    ASSUME HeadlessInv,
           \/ \E a \in HR!Attempts : HR!Report(a)
           \/ \E g \in HR!Gens : \/ HR!StartTool(g)
                                 \/ \E a \in HR!Attempts : HR!CommandEnds(g, a)
           \/ \E p \in live : HR!Dies(p)
    PROVE  HeadlessInv'
<1>1. /\ ex \in Runner
      /\ row \in [status : {"queued", "running", "paused", "completed", "failed"},
                  holder : Nat, last : Outcome]
      /\ OutputRow /\ HR!Attempts \subseteq Nat
  BY HeadlessAssumption DEF HeadlessInv, HeadlessTypes, HR!Attempts
<1>2. HR!RunnerLives => \A a \in HR!Attempts : HR!Command(gen, a) \in live =>
         ex.at \in {"command", "killing"} /\ ex.attempt = a
  BY DEF HeadlessInv, RunnerRow
<1>3. ASSUME NEW a \in HR!Attempts, HR!Report(a) PROVE HeadlessInv'
  <2> DEFINE kept == [ex EXCEPT !.reports = Append(@, a)]
  <2>1. /\ ex' = IF ex.at = "wait" THEN HR!Take(kept) ELSE kept
        /\ UNCHANGED <<srv, registry, owned, sup, row, gen, live, asked, attempts, left>>
    BY <1>3 DEF HR!Report, HR!Serving, HR!Bounds
  <2>2. kept \in Runner /\ kept.child = ex.child /\ kept.reg = ex.reg /\ kept.close = ex.close
        /\ kept.at = ex.at /\ kept.attempt = ex.attempt /\ kept.out = ex.out
    <3>1. Append(ex.reports, a) \in Seq(Nat)
      BY <1>1, AppendProperties DEF Runner
    <3> QED
      BY <1>1, <3>1 DEF Runner
  <2> HIDE DEF kept
  <2>3. CASE ex.at = "wait"
    <3>1. /\ ex' \in Runner /\ ex'.at \in {"wait", "accept"} /\ ex'.attempt = kept.attempt
          /\ ex'.child = kept.child /\ ex'.reg = kept.reg /\ ex'.close = kept.close
          /\ ex'.at = "accept" => ex'.out.of = kept.attempt
      BY <2>1, <2>2, <2>3, TakeMatches
    <3>2. OutputRow'
      BY <1>1, <2>1, <3>1 DEF OutputRow
    <3> QED
      BY <1>1, <1>2, <2>1, <2>2, <2>3, <3>1, <3>2, EngineMoves
  <2>4. CASE ex.at # "wait"
    <3>1. ex' = kept
      BY <2>1, <2>4
    <3>2. OutputRow'
      BY <1>1, <2>1, <2>2, <3>1 DEF OutputRow
    <3> QED
      BY <1>1, <1>2, <2>1, <2>2, <3>1, <3>2, EngineMoves
  <2> QED
    BY <2>3, <2>4
<1>4. ASSUME NEW g \in HR!Gens, HR!StartTool(g) PROVE HeadlessInv'
  <2>1. /\ HR!Working(g) /\ ~NoPi(g) /\ live' = live \cup {HR!ToolOf(g)}
        /\ UNCHANGED <<srv, registry, owned, sup, row, gen, ex, asked, attempts, left>>
    BY <1>4 DEF HR!StartTool, HR!Serving, HR!Bounds, HR!Working, NoPi
  <2>2. /\ \A h : NoPi(h) => NoPi(h)'
        /\ \A h : HR!RunnerOf(h) \in live' <=> HR!RunnerOf(h) \in live
        /\ \A h : HR!PiOf(h) \in live' <=> HR!PiOf(h) \in live
        /\ \A h, a : HR!Command(h, a) \in live' <=> HR!Command(h, a) \in live
    BY <2>1, ProcessesDiffer DEF NoPi
  <2>3. HeadlessTypes' /\ OutputRow'
    BY <2>1 DEF HeadlessInv, HeadlessTypes, OutputRow
  <2>4. RunnerRow'
    BY <2>1, <2>2 DEF HeadlessInv, RunnerRow, HR!RunnerLives
  <2>5. FutureRow'
    BY <2>1, <2>2 DEF HeadlessInv, FutureRow
  <2>6. HR!Known'
    BY <2>1, <2>2 DEF HeadlessInv, HR!Known, HR!Working, HR!Answering
  <2>7. WorkRow'
    BY <2>1, <2>2 DEF HeadlessInv, WorkRow, HR!Working
  <2> QED
    BY <2>3, <2>4, <2>5, <2>6, <2>7 DEF HeadlessInv
<1>5. ASSUME NEW g \in HR!Gens, NEW a \in HR!Attempts, HR!CommandEnds(g, a)
      PROVE  HeadlessInv'
  <2>1. /\ live' = live \ {HR!Command(g, a)} /\ live' \subseteq live
        /\ UNCHANGED <<srv, registry, owned, sup, row, gen, asked, attempts, left>>
    BY <1>5 DEF HR!CommandEnds, HR!Serving, HR!Bounds
  <2>2. CASE HR!RunnerLives /\ gen = g /\ ex.at = "command" /\ ex.attempt = a
    <3>1. PICK outcome \in {"ok", "failed"} : ex' = HR!Result(ex, outcome, a, "none")
      BY <1>5, <2>2 DEF HR!CommandEnds
    <3> DEFINE o == [attempt |-> ex.attempt, outcome |-> outcome, of |-> a, why |-> "none"]
    <3>2. ex' = [ex EXCEPT !.at = "record", !.out = o]
      BY <3>1 DEF HR!Result
    <3>3. o \in Outcome /\ o.of = o.attempt
      BY <1>1, <2>2 DEF Outcome
    <3> HIDE DEF o
    <3>4. /\ ex' \in Runner /\ ex'.at = "record" /\ ex'.out = o
          /\ ex'.child = ex.child /\ ex'.reg = ex.reg /\ ex'.close = ex.close
      BY <1>1, <3>2, <3>3 DEF Runner
    <3>5. OutputRow'
      BY <1>1, <2>1, <3>3, <3>4 DEF OutputRow
    <3>6. \A b \in HR!Attempts : HR!Command(gen, b) \notin live'
      BY <1>2, <2>1, <2>2
    <3> QED
      BY <1>1, <2>1, <3>4, <3>5, <3>6, EngineMoves
  <2>3. CASE ~(HR!RunnerLives /\ gen = g /\ ex.at = "command" /\ ex.attempt = a)
    <3>1. ex' = ex
      BY <1>5, <2>3 DEF HR!CommandEnds
    <3>2. OutputRow'
      BY <1>1, <2>1, <3>1 DEF OutputRow
    <3> QED
      BY <1>1, <1>2, <2>1, <3>1, <3>2, EngineMoves
  <2> QED
    BY <2>2, <2>3
<1>6. ASSUME NEW p \in live, HR!Dies(p) PROVE HeadlessInv'
  <2>1. UNCHANGED <<srv, registry, owned, sup, row, gen, asked, attempts, left>>
    BY <1>6 DEF HR!Dies, HR!Serving, HR!Bounds
  <2>2. CASE p = HR!RunnerOf(gen)
    BY <1>6, <2>1, <2>2, RunnerDies DEF HR!Dies
  <2>3. CASE p # HR!RunnerOf(gen)
    <3>1. live' \subseteq live /\ ex' = ex
      BY <1>6, <2>3 DEF HR!Dies
    <3>2. OutputRow'
      BY <1>1, <2>1, <3>1 DEF OutputRow
    <3> QED
      BY <1>1, <1>2, <2>1, <3>1, <3>2, EngineMoves
  <2> QED
    BY <2>2, <2>3
<1> QED
  BY <1>3, <1>4, <1>5, <1>6

\* registry.killAll and reapOrphans: what was registered is dead.
LEMMA Reaps ==
    ASSUME NEW ps, live' \in HR!Reaped(ps)
    PROVE  live' \subseteq live /\ \A p \in ps : p \notin live'
BY DEF HR!Reaped

\* The server's steps but for the launch of a runner.
LEMMA SupervisorStep ==
    ASSUME HeadlessInv,
           \/ HR!Control \/ HR!Resume \/ HR!StartupTimesOut \/ HR!Terminated \/ HR!Killed
           \/ HR!ExitSeen \/ HR!StopServer \/ HR!EndServer \/ HR!CrashServer
           \/ HR!StartServer
    PROVE  HeadlessInv'
<1>1. /\ ex \in Runner /\ HeadlessTypes /\ OutputRow
      /\ row \in [status : {"queued", "running", "paused", "completed", "failed"},
                  holder : Nat, last : Outcome]
  BY DEF HeadlessInv, HeadlessTypes
<1>2. \A r : r = [row EXCEPT !.holder = 0, !.status = "paused"]
               \/ r = [row EXCEPT !.status = "queued"] \/ r = HR!Released \/ r = row
             => /\ r \in [status : {"queued", "running", "paused", "completed", "failed"},
                          holder : Nat, last : Outcome]
                /\ r.last = row.last
  <2> SUFFICES ASSUME NEW r,
                      \/ r = [row EXCEPT !.holder = 0, !.status = "paused"]
                      \/ r = [row EXCEPT !.status = "queued"]
                      \/ r = HR!Released \/ r = row
               PROVE  /\ r \in [status : {"queued", "running", "paused", "completed",
                                          "failed"}, holder : Nat, last : Outcome]
                      /\ r.last = row.last
    OBVIOUS
  <2>1. CASE r = HR!Released
    <3>1. PICK s \in {"queued", "running", "paused", "completed", "failed"} :
            r = [row EXCEPT !.holder = 0, !.status = s]
      BY <1>1, <2>1 DEF HR!Released
    <3> QED
      BY <1>1, <3>1
  <2>2. CASE r = [row EXCEPT !.holder = 0, !.status = "paused"]
    BY <1>1, <2>2
  <2>3. CASE r = [row EXCEPT !.status = "queued"] \/ r = row
    BY <1>1, <2>3
  <2> QED
    BY <2>1, <2>2, <2>3
<1>3. CASE HR!Control \/ HR!Resume \/ HR!StartupTimesOut \/ HR!StopServer \/ HR!CrashServer
  <2>1. /\ UNCHANGED <<registry, gen, live, ex, asked, attempts, left>>
        /\ \/ row' = [row EXCEPT !.holder = 0, !.status = "paused"]
           \/ row' = [row EXCEPT !.status = "queued"] \/ row' = HR!Released \/ row' = row
        /\ \/ srv' = "down" /\ sup' = "none"
           \/ /\ srv # "down" /\ srv' \in {"up", "stopping"} /\ owned' = owned
              /\ sup' \in {sup, "stopping"}
    BY <1>1, <1>3 DEF HR!Control, HR!Resume, HR!StartupTimesOut, HR!StopServer,
                      HR!CrashServer, HR!Serving, HR!Bounds, HR!Answering, HeadlessTypes
  <2>2. HeadlessTypes' /\ OutputRow'
    BY <1>1, <1>2, <2>1 DEF HeadlessTypes, OutputRow
  <2>3. RunnerRow'
    BY <2>1 DEF HeadlessInv, RunnerRow, HR!RunnerLives, NoPi
  <2>4. HR!Known'
    BY <2>1 DEF HeadlessInv, HR!Known, HR!Working, HR!Answering
  <2> QED
    BY <2>1, <2>2, <2>3, <2>4, Shrinks
<1>4. CASE HR!Terminated
  <2>1. CASE HR!RunnerGone
    BY <1>4, <2>1, RunnerDies DEF HR!Terminated, HR!Serving, HR!Bounds
  <2>2. CASE ~HR!RunnerGone
    BY <1>4, <2>2, ClosingKeeps DEF HR!Terminated, HR!Serving, HR!Bounds
  <2> QED
    BY <2>1, <2>2
<1>5. CASE HR!Killed
  BY <1>5, RunnerDies DEF HR!Killed, HR!Serving, HR!Bounds
<1>6. ASSUME ~HR!RunnerLives', UNCHANGED <<gen, asked, attempts, left>>,
             live' \subseteq live, ex' \in Runner,
             ex'.at \notin {"accept", "record"} \/ ex' = ex,
             row' = HR!Released \/ row' = row, srv' \in {"up", "stopping", "down"},
             sup' \in {"none", "running", "stopping"},
             \A g \in HR!Gens : ~HR!Working(g)'
      PROVE  HeadlessInv'
  <2>1. HeadlessTypes' /\ OutputRow'
    BY <1>1, <1>2, <1>6 DEF HeadlessTypes, OutputRow
  <2>2. RunnerRow' /\ HR!Known'
    BY <1>6 DEF RunnerRow, HR!Known
  <2> QED
    BY <1>6, <2>1, <2>2, Shrinks
<1>7. CASE HR!ExitSeen
  <2> DEFINE ps == IF owned THEN {HR!PiOf(gen)} ELSE {}
  <2>1. /\ srv # "down" /\ ~HR!RunnerLives /\ live' \in HR!Reaped(ps)
        /\ sup' = "none" /\ (row' = HR!Released \/ row' = row)
        /\ UNCHANGED <<srv, gen, ex, asked, attempts, left>>
    BY <1>7 DEF HR!ExitSeen, HR!Answering, HR!Bounds
  <2>2. live' \subseteq live /\ \A p \in ps : p \notin live'
    BY <2>1, Reaps
  <2>3. \A g \in HR!Gens : HR!Working(g) => owned /\ g = gen
    BY <2>1 DEF HeadlessInv, HR!Known, HR!Answering
  <2>4. \A g \in HR!Gens : ~HR!Working(g)'
    BY <2>1, <2>2, <2>3 DEF HR!Working
  <2>5. ~HR!RunnerLives'
    BY <2>1, <2>2 DEF HR!RunnerLives
  <2> QED
    BY <1>1, <1>6, <2>1, <2>2, <2>4, <2>5 DEF HeadlessTypes
<1>8. CASE HR!EndServer
  <2>1. /\ ~HR!RunnerLives /\ live' \in HR!Reaped(registry) /\ srv' = "down"
        /\ sup' = "none" /\ row' = HR!Released
        /\ UNCHANGED <<gen, ex, asked, attempts, left>>
    BY <1>8 DEF HR!EndServer, HR!Bounds
  <2>2. live' \subseteq live /\ \A p \in registry : p \notin live'
    BY <2>1, Reaps
  <2>3. \A g \in HR!Gens : HR!Working(g) => HR!PiOf(g) \in registry
    BY DEF HeadlessInv, HR!Known
  <2>4. \A g \in HR!Gens : ~HR!Working(g)'
    BY <2>1, <2>2, <2>3 DEF HR!Working
  <2>5. ~HR!RunnerLives'
    BY <2>1, <2>2 DEF HR!RunnerLives
  <2> QED
    BY <1>1, <1>6, <2>1, <2>2, <2>4, <2>5
<1>9. CASE HR!StartServer
  <2>1. /\ live' \subseteq live /\ (\A p \in registry : p \notin live')
        /\ srv' = "up" /\ ex' = HR!Fresh
        /\ UNCHANGED <<sup, row, gen, asked, attempts, left>>
    BY <1>9 DEF HR!StartServer, HR!Bounds
  <2>2. \A g \in HR!Gens : HR!Working(g) => HR!PiOf(g) \in registry
    BY DEF HeadlessInv, HR!Known
  <2>3. \A g \in HR!Gens : ~HR!Working(g)'
    BY <2>1, <2>2 DEF HR!Working
  <2>4. HR!RunnerLives => HR!RunnerOf(gen) \in registry
    BY DEF HeadlessInv, RunnerRow
  <2>5. ~HR!RunnerLives'
    BY <2>1, <2>4 DEF HR!RunnerLives
  <2>6. ex' \in Runner /\ ex'.at = "none"
    <3>1. << >> \in Seq(Nat)
      OBVIOUS
    <3> QED
      BY <2>1, <3>1 DEF HR!Fresh, HR!NoResult, Runner, Outcome
  <2> QED
    BY <1>1, <1>6, <2>1, <2>3, <2>5, <2>6 DEF HeadlessTypes
<1> QED
  BY <1>3, <1>4, <1>5, <1>7, <1>8, <1>9

\* A runner is launched: nothing of the one before is at work any more.
LEMMA LaunchStep ==
    ASSUME HeadlessInv, HR!Launch
    PROVE  HeadlessInv'
<1> DEFINE g == gen + 1
<1>1. /\ gen' = g /\ sup = "none" /\ srv = "up" /\ gen < MaxRunners
      /\ row' = [row EXCEPT !.status = "running", !.holder = g]
      /\ live' = live \cup {HR!RunnerOf(g)} /\ registry' = registry \cup {HR!RunnerOf(g)}
      /\ sup' = "running" /\ ex' = [HR!Fresh EXCEPT !.at = "boot"]
      /\ UNCHANGED <<srv, asked, attempts, left>>
  BY DEF HR!Launch
<1>2. gen \in 0..MaxRunners /\ gen \in Nat /\ MaxRunners \in Nat
  BY HeadlessAssumption DEF HeadlessInv, HeadlessTypes
<1>3. g \in HR!Gens /\ g \in 0..MaxRunners /\ g > gen /\ g \in Nat
      /\ \A h \in HR!Gens : h > g => h > gen /\ h # g
  BY <1>1, <1>2 DEF HR!Gens
<1> HIDE DEF g
<1>4. /\ asked[g] = {} /\ g \notin left /\ NoPi(g)
      /\ \A a \in HR!Attempts : HR!Command(g, a) \notin live
  BY <1>3 DEF HeadlessInv, FutureRow
<1>5. /\ \A h : NoPi(h)' <=> NoPi(h)
      /\ \A h : HR!PiOf(h) \in live' <=> HR!PiOf(h) \in live
      /\ \A h, a : HR!Command(h, a) \in live' <=> HR!Command(h, a) \in live
      /\ \A h : h # g => (HR!RunnerOf(h) \in live' <=> HR!RunnerOf(h) \in live)
  BY <1>1, ProcessesDiffer DEF NoPi
<1>6. /\ ex' \in Runner /\ ex'.at = "boot" /\ ex'.child = FALSE /\ ex'.reg = "none"
      /\ ex'.close = "no"
  <2>1. << >> \in Seq(Nat)
    OBVIOUS
  <2> QED
    BY <1>1, <2>1 DEF HR!Fresh, HR!NoResult, Runner, Outcome
<1>7. /\ row' \in [status : {"queued", "running", "paused", "completed", "failed"},
                   holder : Nat, last : Outcome]
      /\ row'.last = row.last
  BY <1>1, <1>3 DEF HeadlessInv, HeadlessTypes
<1>8. HeadlessTypes' /\ OutputRow'
  BY <1>1, <1>3, <1>6, <1>7 DEF HeadlessInv, HeadlessTypes, OutputRow
<1>9. RunnerRow'
  BY <1>1, <1>4, <1>5, <1>6 DEF RunnerRow
<1>10. FutureRow'
  BY <1>1, <1>3, <1>5 DEF HeadlessInv, FutureRow
<1>11. \A h \in HR!Gens : ~HR!Working(h) /\ ~HR!Working(h)'
  BY <1>1, <1>5 DEF HeadlessInv, HR!Known, HR!Answering, HR!Working
<1>12. HR!Known'
  BY <1>11 DEF HR!Known
<1>13. WorkRow'
  BY <1>1, <1>5, <1>11 DEF HeadlessInv, WorkRow
<1> QED
  BY <1>8, <1>9, <1>10, <1>12, <1>13 DEF HeadlessInv

LEMMA HeadlessInvariant == Spec => []HeadlessInv
<1>1. Init => HeadlessInv
  <2> SUFFICES ASSUME Init PROVE HeadlessInv
    OBVIOUS
  <2>1. /\ srv = "up" /\ registry = {} /\ sup = "none" /\ gen = 0 /\ live = {}
        /\ row = [status |-> "queued", holder |-> 0, last |-> HR!NoResult]
        /\ ex = HR!Fresh /\ asked = [g \in HR!Gens |-> {}] /\ attempts = 0 /\ left = {}
    BY DEF Init, HR!HeadlessInit
  <2>2. HR!NoResult \in Outcome /\ HR!NoResult.outcome = "none"
    BY DEF HR!NoResult, Outcome
  <2>3. ex \in Runner /\ ex.at = "none"
    <3>1. << >> \in Seq(Nat)
      OBVIOUS
    <3> QED
      BY <2>1, <2>2, <3>1 DEF HR!Fresh, Runner
  <2>4. HeadlessTypes /\ OutputRow
    <3>1. row \in [status : {"queued", "running", "paused", "completed", "failed"},
                   holder : Nat, last : Outcome] /\ row.last = HR!NoResult
      BY <2>1, <2>2
    <3>2. 0 \in 0..MaxRunners /\ 0 \in 0..MaxSteps
      BY HeadlessAssumption
    <3> QED
      BY <2>1, <2>2, <2>3, <3>1, <3>2 DEF HeadlessTypes, OutputRow
  <2>5. RunnerRow
    BY <2>1 DEF RunnerRow, HR!RunnerLives
  <2>6. FutureRow
    BY <2>1 DEF FutureRow, NoPi
  <2>7. HR!Known /\ WorkRow
    BY <2>1 DEF HR!Known, WorkRow, HR!Working
  <2> QED
    BY <2>4, <2>5, <2>6, <2>7 DEF HeadlessInv
<1>2. HeadlessInv /\ [Next]_vars => HeadlessInv'
  <2> SUFFICES ASSUME HeadlessInv, [Next]_vars PROVE HeadlessInv'
    OBVIOUS
  <2>1. CASE HeadlessStep
    <3>1. CASE HR!RunnerStep
      BY <3>1, EngineStep, CloseStep, AskStep DEF HR!RunnerStep
    <3>2. CASE HR!Launch
      BY <3>2, LaunchStep
    <3> QED
      BY <2>1, <3>1, <3>2, OutsideStep, SupervisorStep DEF HeadlessStep, HR!HeadlessNext
  <2>2. CASE ~HeadlessStep
    <3>1. UNCHANGED headlessVars
      BY <2>2 DEF Next, vars, TurnsStep, SettingsStep, FollowUpStep, RecordingStep,
                  PruneStep, ViewStep, ReplayStep
    <3>2. UNCHANGED <<srv, registry, owned, sup, row, gen, live, ex, asked, attempts, left>>
      BY <3>1 DEF headlessVars
    <3>3. HeadlessTypes' /\ OutputRow'
      BY <3>2 DEF HeadlessInv, HeadlessTypes, OutputRow
    <3>4. RunnerRow'
      BY <3>2 DEF HeadlessInv, RunnerRow, HR!RunnerLives, NoPi
    <3> QED
      BY <3>2, <3>3, <3>4, StaysKnown, Shrinks
  <2> QED
    BY <2>1, <2>2
<1> QED
  BY <1>1, <1>2, PTL DEF Spec

\* A step that was accepted got an output submitted for its own request
\* (takeMatchingAction), although the Pi of a runner serves all its steps and
\* still answers steps that timed out or were asked again.
THEOREM OutputsAreOfTheirStep == Spec => []OutputIsOfStep
<1>1. HeadlessInv => OutputIsOfStep
  BY DEF HeadlessInv, OutputRow, OutputIsOfStep, HR!OutputIsOfStep
<1> QED
  BY <1>1, HeadlessInvariant, PTL

\* A Pi that works is in server.children.json, and in a server that is up it
\* is the Pi of the runner that is supervised; so at most one works for the
\* run, whichever process died in between; one runner's commands come one
\* after the other, and a runner that closed its executor left nothing of Pi.
THEOREM OneWorks == Spec => []OneAtWork
<1>1. HeadlessInv => OneAtWork
  <2> SUFFICES ASSUME HeadlessInv PROVE HR!OneAtWork
    BY DEF OneAtWork
  <2>1. \A g \in left : HR!Group(g) \cap live = {}
    BY DEF HeadlessInv, WorkRow, NoPi, HR!Group
  <2> QED
    BY <2>1 DEF HeadlessInv, WorkRow, HR!OneAtWork
<1> QED
  BY <1>1, HeadlessInvariant, PTL

-----------------------------------------------------------------------------
(* State retention.                                                        *)

RunRows == [status : {"absent", "live", "ended", "deleted"}, old : BOOLEAN,
            parent : PrunedRuns \cup {None}, told : BOOLEAN, blob : Blobs \cup {None}]

\* A runner is active on a live run only, so no prune meets one in its tree.
RunRow(r) ==
    /\ PR!Present(r) => run[r].blob \in blobs
    /\ PR!Active(r) => run[r].status = "live" /\ held[r] \subseteq blobs
    /\ PR!Present(r) /\ run[r].parent # None => PR!Present(run[r].parent)
    /\ run[r].status = "deleted" => run[r].told

PruneInv ==
    /\ run \in [PrunedRuns -> RunRows]
    /\ held \in [PrunedRuns -> {None} \cup SUBSET Blobs]
    /\ \A r \in PrunedRuns : RunRow(r)

\* A step that writes the row of one run and deletes nothing.
LEMMA OneRunChanges ==
    ASSUME PruneInv, NEW r \in PrunedRuns, NEW new \in RunRows,
           run' = [run EXCEPT ![r] = new], blobs \subseteq blobs',
           held' \in [PrunedRuns -> {None} \cup SUBSET Blobs],
           \A q \in PrunedRuns \ {r} : held'[q] = held[q],
           PR!Present(r) => new.status \in {"live", "ended"},
           new.status \in {"live", "ended"} =>
              new.blob \in blobs' /\ (new.parent # None =>
                 PR!Present(new.parent) \/ new.parent = r),
           held'[r] # None => new.status = "live" /\ held'[r] \subseteq blobs',
           new.status # "deleted"
    PROVE  PruneInv'
<1>1. /\ run' \in [PrunedRuns -> RunRows] /\ run'[r] = new
      /\ \A q \in PrunedRuns \ {r} : run'[q] = run[q]
  BY DEF PruneInv
<1>2. \A q \in PrunedRuns : PR!Present(q) => PR!Present(q)'
  BY <1>1 DEF PR!Present
<1>3. ASSUME NEW q \in PrunedRuns PROVE RunRow(q)'
  <2>0. /\ run[q] \in RunRows /\ run'[q] \in RunRows /\ RunRow(q)
        /\ new.parent \in PrunedRuns \cup {None}
    BY <1>1 DEF PruneInv, RunRows
  <2>1. CASE q = r
    <3>1. PR!Present(r)' /\ new.parent # None => PR!Present(new.parent)'
      BY <1>1, <1>2, <2>0 DEF PR!Present
    <3> QED
      BY <1>1, <2>1, <3>1 DEF RunRow, PR!Present, PR!Active
  <2>2. CASE q # r
    <3>1. run'[q] = run[q] /\ held'[q] = held[q]
      BY <1>1, <2>2
    <3>2. run[q].parent \in PrunedRuns \cup {None}
      BY <2>0 DEF RunRows
    <3>3. (PR!Present(q) /\ run[q].parent # None => PR!Present(run[q].parent))'
      <4> SUFFICES ASSUME PR!Present(q), run[q].parent # None
                   PROVE  (PR!Present(run[q].parent))'
        BY <3>1 DEF PR!Present
      <4>1. PICK p \in PrunedRuns : p = run[q].parent
        BY <3>2
      <4>2. PR!Present(p)'
        BY <1>2, <2>0, <4>1 DEF RunRow
      <4> QED
        BY <3>1, <4>1, <4>2 DEF PR!Present
    <3> QED
      BY <2>0, <3>1, <3>3 DEF RunRow, PR!Present, PR!Active
  <2> QED
    BY <2>1, <2>2
<1> QED
  BY <1>1, <1>3 DEF PruneInv

\* selectRunTrees: a selected tree is whole, and none of it is in use.
LEMMA SelectedTrees ==
    ASSUME NEW old, NEW t \in PR!Selected(old)
    PROVE  /\ t \subseteq PrunedRuns /\ PR!Closed(t)
           /\ \A r \in t : run[r].status = "ended" /\ run[r].told
<1>1. PICK r \in PrunedRuns : t = PR!Tree(r)
  BY DEF PR!Selected
<1>2. \A q \in t : run[q].status = "ended" /\ run[q].told
  BY DEF PR!Selected, PR!Eligible, PR!Blocked
<1> DEFINE least == {q \in PrunedRuns : \A u \in SUBSET PrunedRuns :
                                            r \in u /\ PR!Closed(u) => q \in u}
<1>3. /\ least \in SUBSET PrunedRuns /\ r \in least
      /\ \A u \in SUBSET PrunedRuns : r \in u /\ PR!Closed(u) => least \subseteq u
  OBVIOUS
<1>4. PR!Closed(least)
  BY DEF PR!Closed
<1> HIDE DEF least
<1>5. t \in SUBSET PrunedRuns /\ PR!Closed(t)
  BY <1>1, <1>3, <1>4 DEF PR!Tree
<1> QED
  BY <1>2, <1>5

\* The transaction of a deletion.
LEMMA DeletionKeeps ==
    ASSUME PruneInv, NEW d \in SUBSET PrunedRuns, PR!Closed(d),
           \A r \in d : run[r].status = "ended" /\ run[r].told,
           run' = PR!Without(d), held' = held, blobs' = blobs \/ blobs' = PR!Kept(run')
    PROVE  PruneInv'
<1>1. ASSUME NEW r \in PrunedRuns
      PROVE  /\ run[r] \in RunRows /\ run'[r] \in RunRows /\ RunRow(r)
             /\ r \notin d => run'[r] = run[r]
             /\ r \in d => run'[r].status = "deleted" /\ run'[r].told
  <2>1. run[r] \in RunRows /\ RunRow(r)
    BY DEF PruneInv
  <2>2. run'[r] = IF r \notin d THEN run[r]
                  ELSE [PR!Absent EXCEPT !.status = "deleted", !.told = run[r].told]
    BY DEF PR!Without
  <2>3. CASE r \in d
    <3>1. run'[r] = [PR!Absent EXCEPT !.status = "deleted", !.told = TRUE]
      BY <2>1, <2>2, <2>3 DEF RunRows
    <3> QED
      BY <2>1, <2>3, <3>1 DEF PR!Absent, RunRows
  <2>4. CASE r \notin d
    BY <2>1, <2>2, <2>4
  <2> QED
    BY <2>3, <2>4
<1>2. run' \in [PrunedRuns -> RunRows]
  <2>1. run' = [r \in PrunedRuns |-> run'[r]]
    BY DEF PR!Without
  <2> QED
    BY <1>1, <2>1
<1>3. ASSUME NEW r \in PrunedRuns PROVE RunRow(r)'
  <2>1. CASE r \in d
    <3>1. ~PR!Active(r)
      BY <1>1, <2>1 DEF RunRow
    <3> QED
      BY <1>1, <2>1, <3>1 DEF RunRow, PR!Present, PR!Active
  <2>2. CASE r \notin d
    <3>1. run'[r] = run[r] /\ RunRow(r) /\ run[r].parent \in PrunedRuns \cup {None}
      BY <1>1, <2>2 DEF RunRows
    <3>2. PR!Present(r)' => run'[r].blob \in blobs'
      BY <3>1 DEF RunRow, PR!Present, PR!Kept
    <3>3. PR!Active(r)' => run'[r].status = "live" /\ held'[r] \subseteq blobs'
      BY <3>1 DEF RunRow, PR!Active, PR!Kept
    <3>4. (PR!Present(r) /\ run[r].parent # None => PR!Present(run[r].parent))'
      <4> SUFFICES ASSUME PR!Present(r), run[r].parent # None
                   PROVE  (PR!Present(run[r].parent))'
        BY <3>1 DEF PR!Present
      <4>1. PICK p \in PrunedRuns : p = run[r].parent
        BY <3>1
      <4>2. PR!Present(p)
        BY <3>1, <4>1 DEF RunRow
      <4>3. p \notin d
        BY <2>2, <4>1, <4>2 DEF PR!Closed, PR!Linked
      <4> QED
        BY <1>1, <3>1, <4>1, <4>2, <4>3 DEF PR!Present
    <3> QED
      BY <3>1, <3>2, <3>3, <3>4 DEF RunRow
  <2> QED
    BY <2>1, <2>2
<1> QED
  BY <1>2, <1>3 DEF PruneInv

\* What goes on in a server beside a prune.
LEMMA RunsKeep ==
    ASSUME PruneInv, NEW r \in PrunedRuns,
           \/ PR!StartRun(r) \/ PR!ClaimRun(r) \/ PR!SendContent(r) \/ PR!CommitRows(r)
           \/ PR!RunnerExits(r) \/ PR!SendTerminal(r) \/ PR!Ages(r)
    PROVE  PruneInv'
<1>1. /\ run \in [PrunedRuns -> RunRows] /\ run[r] \in RunRows
      /\ held \in [PrunedRuns -> {None} \cup SUBSET Blobs]
      /\ held[r] \in {None} \cup SUBSET Blobs
      /\ PR!Present(r) => run[r].blob \in blobs
      /\ held[r] # None => run[r].status = "live" /\ held[r] \subseteq blobs
      /\ PR!Present(r) /\ run[r].parent # None => PR!Present(run[r].parent)
  BY DEF PruneInv, RunRow, PR!Active
<1>2. run = [run EXCEPT ![r] = run[r]]
  BY <1>1
<1>3. CASE PR!StartRun(r)
  <2>1. /\ run[r].status = "absent" /\ held' = held
        /\ \E p \in {None} \cup {q \in PrunedRuns : run[q].status = "ended"}, b \in Blobs :
             /\ run' = [run EXCEPT ![r] = [PR!Absent EXCEPT !.status = "live",
                                                            !.parent = p, !.blob = b]]
             /\ blobs' = blobs \cup {b}
    BY <1>3 DEF PR!StartRun
  <2>2. PICK p \in {None} \cup {q \in PrunedRuns : run[q].status = "ended"}, b \in Blobs :
             /\ run' = [run EXCEPT ![r] = [PR!Absent EXCEPT !.status = "live",
                                                            !.parent = p, !.blob = b]]
             /\ blobs' = blobs \cup {b}
    BY <2>1
  <2> DEFINE new == [PR!Absent EXCEPT !.status = "live", !.parent = p, !.blob = b]
  <2>3. /\ new \in RunRows /\ new.status = "live" /\ new.parent = p /\ new.blob = b
        /\ p # None => PR!Present(p)
    BY <2>2 DEF PR!Absent, RunRows, PR!Present
  <2> HIDE DEF new
  <2>4. run' = [run EXCEPT ![r] = new]
    BY <2>2 DEF new
  <2> QED
    BY <1>1, <2>1, <2>2, <2>3, <2>4, OneRunChanges DEF PR!Present
<1>4. CASE PR!ClaimRun(r)
  <2>1. /\ run[r].status = "live" /\ held' = [held EXCEPT ![r] = {}]
        /\ run' = run /\ blobs' = blobs
    BY <1>4 DEF PR!ClaimRun
  <2> QED
    BY <1>1, <1>2, <2>1, OneRunChanges DEF PR!Present
<1>5. CASE PR!SendContent(r)
  <2>1. PICK b \in Blobs :
             blobs' = blobs \cup {b} /\ held' = [held EXCEPT ![r] = @ \cup {b}]
    BY <1>5 DEF PR!SendContent
  <2>2. held[r] # None /\ run' = run
    BY <1>5 DEF PR!SendContent, PR!Active
  <2> QED
    BY <1>1, <1>2, <2>1, <2>2, OneRunChanges DEF PR!Present
<1>6. CASE PR!CommitRows(r)
  <2>1. PICK b \in Blobs : run' = [run EXCEPT ![r].blob = b] /\ blobs' = blobs \cup {b}
    BY <1>6 DEF PR!CommitRows
  <2> DEFINE new == [run[r] EXCEPT !.blob = b]
  <2>2. /\ new \in RunRows /\ new.status = run[r].status /\ new.parent = run[r].parent
        /\ new.blob = b
    BY <1>1 DEF RunRows
  <2>3. run' = [run EXCEPT ![r] = new] /\ held' = held /\ held[r] # None
    BY <1>6, <2>1 DEF PR!CommitRows, PR!Active
  <2> HIDE DEF new
  <2>4. /\ new.status = "live" /\ new.blob \in blobs' /\ blobs \subseteq blobs'
        /\ held[r] \subseteq blobs'
        /\ new.parent # None => PR!Present(new.parent)
    BY <1>1, <2>1, <2>2, <2>3 DEF PR!Present
  <2> QED
    BY <1>1, <2>2, <2>3, <2>4, OneRunChanges
<1>7. CASE PR!RunnerExits(r)
  <2>1. /\ held' = [held EXCEPT ![r] = None] /\ blobs' = blobs /\ held[r] # None
        /\ \/ run' = run
           \/ \E old \in BOOLEAN : run' = [run EXCEPT ![r].status = "ended", ![r].old = old]
    BY <1>7 DEF PR!RunnerExits, PR!Active
  <2>2. CASE run' = run
    BY <1>1, <1>2, <2>1, <2>2, OneRunChanges DEF PR!Present
  <2>3. CASE run' # run
    <3>1. PICK old \in BOOLEAN : run' = [run EXCEPT ![r].status = "ended", ![r].old = old]
      BY <2>1, <2>3
    <3> DEFINE new == [run[r] EXCEPT !.status = "ended", !.old = old]
    <3>2. /\ new \in RunRows /\ new.status = "ended" /\ new.parent = run[r].parent
          /\ new.blob = run[r].blob
      BY <1>1 DEF RunRows
    <3>3. run' = [run EXCEPT ![r] = new]
      BY <1>1, <3>1
    <3> HIDE DEF new
    <3> QED
      BY <1>1, <2>1, <3>2, <3>3, OneRunChanges DEF PR!Present
  <2> QED
    BY <2>2, <2>3
<1>8. CASE PR!SendTerminal(r) \/ PR!Ages(r)
  <2> DEFINE new == IF PR!SendTerminal(r) THEN [run[r] EXCEPT !.told = TRUE]
                    ELSE [run[r] EXCEPT !.old = TRUE]
  <2>1. /\ new \in RunRows /\ new.status = run[r].status /\ new.parent = run[r].parent
        /\ new.blob = run[r].blob
    BY <1>1 DEF RunRows
  <2>2. /\ run' = [run EXCEPT ![r] = new] /\ held' = held /\ blobs' = blobs
        /\ run[r].status = "ended"
    BY <1>1, <1>8 DEF PR!SendTerminal, PR!Ages
  <2> HIDE DEF new
  <2> QED
    BY <1>1, <2>1, <2>2, OneRunChanges DEF PR!Present
<1> QED
  BY <1>3, <1>4, <1>5, <1>6, <1>7, <1>8

\* A manual and an automatic prune, and crashes.
LEMMA PrunesKeep ==
    ASSUME PruneInv,
           \/ PR!SelectManually \/ PR!DeleteManually \/ PR!StartAutomatic
           \/ PR!ContinueAutomatic \/ PR!CrashInPrune
    PROVE  PruneInv'
<1>1. ASSUME run' = run, held' = held, blobs' = blobs \/ blobs' = PR!Kept(run)
      PROVE  PruneInv'
  <2>1. PR!Closed({}) /\ run' = PR!Without({})
    BY <1>1 DEF PR!Closed, PR!Without, PruneInv
  <2> QED
    BY <1>1, <2>1, DeletionKeeps
<1>2. ASSUME NEW t, NEW old, PR!DeleteTree(t, old), t \in PR!Selected(old), held' = held
      PROVE  PruneInv'
  <2>1. run' = PR!Without(t) /\ blobs' = blobs
    BY <1>2 DEF PR!DeleteTree
  <2> QED
    BY <1>2, <2>1, SelectedTrees, DeletionKeeps
<1>3. ASSUME PR!DeleteBlobs, held' = held PROVE PruneInv'
  BY <1>1, <1>3 DEF PR!DeleteBlobs
<1>4. CASE PR!SelectManually
  BY <1>1, <1>4 DEF PR!SelectManually
<1>5. CASE PR!DeleteManually
  <2> DEFINE d == UNION prune.trees
  <2>1. CASE PR!SameSelection
    <3>1. /\ run' = PR!Without(d) /\ blobs' = PR!Kept(run') /\ held' = held
          /\ prune.trees = PR!Selected(prune.old)
      BY <1>5, <2>1 DEF PR!DeleteManually, PR!SameSelection
    <3>2. \A t \in prune.trees : /\ t \subseteq PrunedRuns /\ PR!Closed(t)
                                 /\ \A r \in t : run[r].status = "ended" /\ run[r].told
      BY <3>1, SelectedTrees
    <3>3. /\ d \in SUBSET PrunedRuns /\ PR!Closed(d)
          /\ \A r \in d : run[r].status = "ended" /\ run[r].told
      BY <3>2 DEF PR!Closed
    <3> HIDE DEF d
    <3> QED
      BY <3>1, <3>3, DeletionKeeps
  <2>2. CASE ~PR!SameSelection
    BY <1>1, <1>5, <2>2 DEF PR!DeleteManually
  <2> QED
    BY <2>1, <2>2
<1>6. CASE PR!StartAutomatic
  BY <1>2, <1>3, <1>6 DEF PR!StartAutomatic
<1>7. CASE PR!ContinueAutomatic
  BY <1>1, <1>2, <1>3, <1>7 DEF PR!ContinueAutomatic
<1>8. CASE PR!CrashInPrune
  <2>1. held' = [r \in PrunedRuns |-> None] /\ run' = run /\ blobs' = blobs
    BY <1>8 DEF PR!CrashInPrune
  <2>2. ASSUME NEW r \in PrunedRuns PROVE RunRow(r)'
    <3>1. RunRow(r) /\ held'[r] = None
      BY <2>1 DEF PruneInv
    <3> QED
      BY <2>1, <3>1 DEF RunRow, PR!Present, PR!Active
  <2> QED
    BY <2>1, <2>2 DEF PruneInv
<1> QED
  BY <1>4, <1>5, <1>6, <1>7, <1>8

LEMMA PruneInvariant == Spec => []PruneInv
<1>1. Init => PruneInv
  <2> SUFFICES ASSUME Init PROVE PruneInv
    OBVIOUS
  <2> DEFINE over(b) == [status |-> "ended", old |-> TRUE, parent |-> None, told |-> TRUE,
                         blob |-> b]
  <2>1. PICK r \in PrunedRuns, b \in Blobs :
          /\ run \in {[q \in PrunedRuns |-> PR!Absent],
                      [q \in PrunedRuns |-> IF q # r THEN PR!Absent ELSE over(b)]}
          /\ blobs \in {{b}, {}} /\ (blobs = {}) = (run[r] = PR!Absent)
    BY DEF Init, PR!PruneInit
  <2>2. held = [q \in PrunedRuns |-> None]
    BY DEF Init, PR!PruneInit
  <2>3. /\ PR!Absent \in RunRows /\ PR!Absent.status = "absent" /\ over(b) \in RunRows
        /\ over(b).status = "ended" /\ over(b).blob = b /\ over(b).parent = None
        /\ over(b) # PR!Absent
    BY DEF PR!Absent, RunRows
  <2> HIDE DEF over
  <2>4. ASSUME NEW q \in PrunedRuns
        PROVE  /\ run[q] \in RunRows /\ held[q] = None
               /\ run[q] = PR!Absent \/ (run[q] = over(b) /\ b \in blobs)
    BY <2>1, <2>2, <2>3
  <2>5. run = [q \in PrunedRuns |-> run[q]]
    BY <2>1
  <2>6. \A q \in PrunedRuns : RunRow(q)
    BY <2>3, <2>4 DEF RunRow, PR!Present, PR!Active
  <2> QED
    BY <2>2, <2>4, <2>5, <2>6 DEF PruneInv
<1>2. PruneInv /\ [Next]_vars => PruneInv'
  <2> SUFFICES ASSUME PruneInv, [Next]_vars PROVE PruneInv'
    OBVIOUS
  <2>1. CASE PruneStep
    BY <2>1, RunsKeep, PrunesKeep DEF PruneStep, PR!PruneNext
  <2>2. CASE ~PruneStep
    <3>1. UNCHANGED pruneVars
      BY <2>2 DEF Next, vars, TurnsStep, SettingsStep, FollowUpStep, RecordingStep,
                  HeadlessStep, ViewStep, ReplayStep
    <3>2. UNCHANGED <<run, blobs, held>>
      BY <3>1 DEF pruneVars
    <3> QED
      BY <3>2 DEF PruneInv, RunRow, PR!Present, PR!Active
  <2> QED
    BY <2>1, <2>2
<1> QED
  BY <1>1, <1>2, PTL DEF Spec

\* A prune takes nothing that is in use, although a manual one waits for its
\* backup between the selection and the deletion (pruneState) and an automatic
\* one yields between the trees (pruneStateAutomatically): no blob that a row
\* cites or a runner was promised, no run whose restart stays, and no run that
\* did not tell its session how it ended.
THEOREM PrunesAreSafe == Spec => []PruneKeepsWhatIsUsed
<1>1. PruneInv => PruneKeepsWhatIsUsed
  BY DEF PruneInv, RunRow, PruneKeepsWhatIsUsed, PR!PruneKeepsWhatIsUsed
<1> QED
  BY <1>1, PruneInvariant, PTL

-----------------------------------------------------------------------------
(* Views.                                                                  *)

ToServer == [op : {"watch"}, id : Nat] \cup [op : {"unwatch"}]
       \cup [op : {"page"}, load : Nat, kind : {"runs", "run"}, rev : Nat]
ToClient == [op : {"event"}, id : Nat, rev : Nat \cup {None}]
       \cup [op : {"watched", "unwatched"}]
       \cup [op : {"page"}, load : Nat, rev : Nat \cup {None}]
Load == [gen : Nat, kind : {"runs", "run"}, rev : Nat, got : SUBSET Nat, left : Nat]
Viewer == [mode : {"runs", "run"}, id : Nat, gen : Nat,
           at : {"subscribing", "watching", "unwatching", "gone"}]

ViewTypes ==
    /\ source \in Nat /\ newest \in Nat /\ tui \in Viewer
    /\ serverSub \in {None} \cup [id : Nat, sent : Nat \cup {None}]
    /\ toServer \in Seq(ToServer) /\ toClient \in Seq(ToClient)
    /\ loads \subseteq Load

IsSnapshot(m) == m.op = "event" /\ m.rev # None

\* Snapshots arrive in the order of their revisions, and what arrives is not
\* older than what is shown or being collected.
WireRow ==
    /\ \A i \in 1..Len(toClient) : IsSnapshot(toClient[i]) =>
          /\ newest <= toClient[i].rev /\ toClient[i].rev <= source
          /\ \A l \in loads : l.rev <= toClient[i].rev
    /\ \A i, j \in 1..Len(toClient) :
          i <= j /\ IsSnapshot(toClient[i]) /\ IsSnapshot(toClient[j])
             => toClient[i].rev <= toClient[j].rev

\* What is collected is of one revision, and what is still wanted is not older
\* than what is shown.
LoadsRow ==
    /\ \A l \in loads : /\ l.got = {l.rev} /\ l.gen <= tui.gen /\ l.rev <= source
                        /\ l.gen = tui.gen => newest <= l.rev
    /\ \A k, l \in loads : k.gen = l.gen => k = l

DisplayRow ==
    /\ newest <= source
    /\ display.kind \in {"run", "runs"} => display.revs = {newest}
    /\ display.whole => display.kind \in {"run", "runs"}

ViewInv == ViewTypes /\ WireRow /\ LoadsRow /\ DisplayRow

\* A step that collects and shows nothing new.
LEMMA NothingNew ==
    ASSUME ViewInv, ViewTypes', WireRow', source <= source', newest' = newest,
           loads' \subseteq loads, tui.gen <= tui'.gen,
           display' \in {display, VI!Unavailable}
    PROVE  ViewInv'
<1>1. /\ source \in Nat /\ source' \in Nat /\ newest \in Nat /\ newest <= source
      /\ tui.gen \in Nat /\ tui'.gen \in Nat
      /\ \A l \in loads : l.gen \in Nat /\ l.rev \in Nat
  BY DEF ViewInv, ViewTypes, DisplayRow, Viewer, Load
<1>2. LoadsRow'
  <2> SUFFICES ASSUME NEW l \in loads'
               PROVE  /\ l.got = {l.rev} /\ l.gen <= tui'.gen /\ l.rev <= source'
                      /\ l.gen = tui'.gen => newest' <= l.rev
    BY DEF ViewInv, LoadsRow
  <2>1. /\ l \in loads /\ l.got = {l.rev} /\ l.gen <= tui.gen /\ l.rev <= source
        /\ l.gen = tui.gen => newest <= l.rev
    BY DEF ViewInv, LoadsRow
  <2> QED
    BY <1>1, <2>1
<1>3. DisplayRow'
  BY <1>1 DEF ViewInv, DisplayRow, VI!Unavailable
<1> QED
  BY <1>2, <1>3 DEF ViewInv

\* A message of the server that is a snapshot of now, if it is one.
LEMMA ServerSends ==
    ASSUME ViewInv, NEW m \in ToClient, IsSnapshot(m) => m.rev = source,
           toClient' = Append(toClient, m), UNCHANGED <<source, newest, loads>>
    PROVE  toClient' \in Seq(ToClient) /\ WireRow'
<1> DEFINE n == Len(toClient)
<1>1. toClient \in Seq(ToClient) /\ n \in Nat
  BY LenProperties DEF ViewInv, ViewTypes
<1>2. /\ toClient' \in Seq(ToClient) /\ Len(toClient') = n + 1 /\ toClient'[n + 1] = m
      /\ \A i \in 1..n : toClient'[i] = toClient[i]
  BY <1>1, AppendProperties
<1> HIDE DEF n
<1>3. \A i \in 1..Len(toClient') : i = n + 1 \/ i \in 1..n
  BY <1>1, <1>2
<1>4. /\ newest <= source /\ \A l \in loads : l.rev <= source
      /\ source \in Nat
  BY DEF ViewInv, ViewTypes, LoadsRow, DisplayRow
<1>5. \A i \in 1..n : IsSnapshot(toClient[i]) =>
          /\ newest <= toClient[i].rev /\ toClient[i].rev <= source
          /\ \A l \in loads : l.rev <= toClient[i].rev
  BY DEF ViewInv, WireRow, n
<1>6. \A i, j \in 1..n : i <= j /\ IsSnapshot(toClient[i]) /\ IsSnapshot(toClient[j])
             => toClient[i].rev <= toClient[j].rev
  BY DEF ViewInv, WireRow, n
<1>7. ASSUME NEW i \in 1..Len(toClient'), IsSnapshot(toClient'[i])
      PROVE  /\ newest <= toClient'[i].rev /\ toClient'[i].rev <= source
             /\ \A l \in loads : l.rev <= toClient'[i].rev
  <2>1. CASE i = n + 1
    BY <1>2, <1>4, <1>7, <2>1
  <2>2. CASE i \in 1..n
    BY <1>2, <1>5, <1>7, <2>2
  <2> QED
    BY <1>3, <2>1, <2>2
<1>8. ASSUME NEW i \in 1..Len(toClient'), NEW j \in 1..Len(toClient'), i <= j,
             IsSnapshot(toClient'[i]), IsSnapshot(toClient'[j])
      PROVE  toClient'[i].rev <= toClient'[j].rev
  <2>1. CASE j = n + 1
    BY <1>2, <1>7, <1>8, <2>1
  <2>2. CASE j \in 1..n
    <3>1. i \in 1..n
      BY <1>1, <1>3, <1>8, <2>2
    <3> QED
      BY <1>2, <1>6, <1>8, <2>2, <3>1
  <2> QED
    BY <1>3, <2>1, <2>2
<1> QED
  BY <1>2, <1>7, <1>8 DEF WireRow

\* The client has read a message.
LEMMA ClientReads ==
    ASSUME ViewInv, toClient # << >>, toClient' = Tail(toClient)
    PROVE  /\ toClient' \in Seq(ToClient) /\ VI!Message \in ToClient
           /\ IsSnapshot(VI!Message) => newest <= VI!Message.rev /\ VI!Message.rev <= source
           /\ \A i \in 1..Len(toClient') : IsSnapshot(toClient'[i]) =>
                /\ newest <= toClient'[i].rev /\ toClient'[i].rev <= source
                /\ IsSnapshot(VI!Message) => VI!Message.rev <= toClient'[i].rev
                /\ \A l \in loads : l.rev <= toClient'[i].rev
           /\ \A i, j \in 1..Len(toClient') :
                i <= j /\ IsSnapshot(toClient'[i]) /\ IsSnapshot(toClient'[j])
                   => toClient'[i].rev <= toClient'[j].rev
<1> DEFINE n == Len(toClient)
<1>1. toClient \in Seq(ToClient) /\ n \in Nat /\ n # 0
  BY LenProperties, EmptySeq DEF ViewInv, ViewTypes
<1>2. /\ toClient' \in Seq(ToClient) /\ Len(toClient') = n - 1
      /\ \A i \in 1..Len(toClient') : toClient'[i] = toClient[i + 1] /\ i + 1 \in 1..n
      /\ VI!Message = toClient[1] /\ 1 \in 1..n
  BY <1>1, HeadTailProperties DEF VI!Message
<1>3. toClient[1] \in ToClient
  BY <1>1, <1>2, ElementOfSeq
<1>4. \A i \in 1..n : IsSnapshot(toClient[i]) =>
          /\ newest <= toClient[i].rev /\ toClient[i].rev <= source
          /\ \A l \in loads : l.rev <= toClient[i].rev
  BY DEF ViewInv, WireRow
<1>5. \A i, j \in 1..n : i <= j /\ IsSnapshot(toClient[i]) /\ IsSnapshot(toClient[j])
             => toClient[i].rev <= toClient[j].rev
  BY DEF ViewInv, WireRow
<1> HIDE DEF n
<1>6. \A i \in 1..Len(toClient') : 1 <= i + 1 /\ i \in Nat
  BY <1>1, <1>2
<1>7. ASSUME NEW i \in 1..Len(toClient'), IsSnapshot(toClient'[i])
      PROVE  /\ newest <= toClient'[i].rev /\ toClient'[i].rev <= source
             /\ IsSnapshot(VI!Message) => VI!Message.rev <= toClient'[i].rev
             /\ \A l \in loads : l.rev <= toClient'[i].rev
  BY <1>2, <1>4, <1>5, <1>6, <1>7
<1>8. ASSUME NEW i \in 1..Len(toClient'), NEW j \in 1..Len(toClient'), i <= j,
             IsSnapshot(toClient'[i]), IsSnapshot(toClient'[j])
      PROVE  toClient'[i].rev <= toClient'[j].rev
  <2>1. i + 1 <= j + 1
    BY <1>6, <1>8
  <2> QED
    BY <1>2, <1>5, <1>8, <2>1
<1> QED
  BY <1>2, <1>3, <1>4, <1>7, <1>8

LEMMA RequestIs ==
    ASSUME ViewInv, toServer # << >>
    PROVE  VI!Request \in ToServer /\ Tail(toServer) \in Seq(ToServer)
<1>1. toServer \in Seq(ToServer)
  BY DEF ViewInv, ViewTypes
<1>2. Head(toServer) \in ToServer /\ Tail(toServer) \in Seq(ToServer)
  BY <1>1, HeadTailProperties
<1> QED
  BY <1>2 DEF VI!Request

\* What the server does for a viewer.
LEMMA ViewServerStep ==
    ASSUME ViewInv,
           \/ VI!ChangeSource \/ VI!PublishSnapshot \/ VI!FailSubscription \/ VI!Handle
           \/ VI!ServerBack
    PROVE  ViewInv'
<1>1. /\ source \in Nat /\ tui.gen \in Nat /\ ViewTypes /\ WireRow
      /\ newest \in Nat /\ toServer \in Seq(ToServer) /\ toClient \in Seq(ToClient)
      /\ None \notin Nat
  BY SettingsAssumption DEF ViewInv, ViewTypes, Viewer
<1>2. ASSUME NEW m \in ToClient, IsSnapshot(m) => m.rev = source,
             toClient' = Append(toClient, m),
             serverSub' \in {None} \cup [id : Nat, sent : Nat \cup {None}],
             toServer' \in Seq(ToServer), UNCHANGED <<source, newest, tui, loads, display>>
      PROVE  ViewInv'
  <2>1. toClient' \in Seq(ToClient) /\ WireRow'
    BY <1>2, ServerSends
  <2>2. ViewTypes'
    BY <1>1, <1>2, <2>1 DEF ViewTypes
  <2> QED
    BY <1>1, <1>2, <2>1, <2>2, NothingNew
<1>3. CASE VI!ChangeSource \/ VI!ServerBack
  <2>1. /\ UNCHANGED <<serverSub, toServer, toClient, tui, loads, display, newest>>
        /\ source' = source + 1 \/ source' = source
    BY <1>3 DEF VI!ChangeSource, VI!ServerBack, VI!wireVars, VI!viewerVars
  <2>2. ViewTypes' /\ source <= source'
    BY <1>1, <2>1 DEF ViewTypes
  <2>3. WireRow'
    <3>1. \A i \in 1..Len(toClient) : IsSnapshot(toClient[i]) => toClient[i].rev <= source'
      <4> SUFFICES ASSUME NEW i \in 1..Len(toClient), IsSnapshot(toClient[i])
                   PROVE  toClient[i].rev <= source'
        OBVIOUS
      <4>1. toClient[i] \in ToClient
        BY <1>1, ElementOfSeq
      <4>2. toClient[i].rev \in Nat /\ toClient[i].rev <= source
        BY <1>1, <4>1 DEF WireRow, IsSnapshot, ToClient
      <4> QED
        BY <1>1, <2>1, <4>2
    <3> QED
      BY <1>1, <2>1, <3>1 DEF WireRow
  <2> QED
    BY <1>1, <2>1, <2>2, <2>3, NothingNew
<1>4. CASE VI!PublishSnapshot
  <2> DEFINE m == [op |-> "event", id |-> serverSub.id, rev |-> source]
  <2>1. /\ serverSub # None /\ serverSub' = [serverSub EXCEPT !.sent = source]
        /\ toClient' = Append(toClient, m)
        /\ UNCHANGED <<source, toServer, newest, tui, loads, display>>
    BY <1>4 DEF VI!PublishSnapshot, VI!viewerVars
  <2>2. serverSub \in [id : Nat, sent : Nat \cup {None}]
    BY <1>1, <2>1 DEF ViewTypes
  <2>3. serverSub' \in [id : Nat, sent : Nat \cup {None}]
    BY <1>1, <2>1, <2>2
  <2>4. m \in ToClient /\ m.rev = source
    BY <1>1, <2>2 DEF ToClient
  <2> HIDE DEF m
  <2> QED
    BY <1>1, <1>2, <2>1, <2>3, <2>4
<1>5. CASE VI!FailSubscription
  <2> DEFINE m == [op |-> "event", id |-> serverSub.id, rev |-> None]
  <2>1. /\ serverSub # None /\ serverSub' = None /\ toClient' = Append(toClient, m)
        /\ UNCHANGED <<source, toServer, newest, tui, loads, display>>
    BY <1>5 DEF VI!FailSubscription, VI!viewerVars
  <2>2. serverSub \in [id : Nat, sent : Nat \cup {None}]
    BY <1>1, <2>1 DEF ViewTypes
  <2>3. m \in ToClient /\ ~IsSnapshot(m)
    BY <2>2 DEF ToClient, IsSnapshot
  <2> HIDE DEF m
  <2> QED
    BY <1>1, <1>2, <2>1, <2>3
<1>6. CASE VI!AddSubscription
  <2> DEFINE m == [op |-> "watched"]
  <2>1. /\ toServer # << >> /\ VI!Request.op = "watch" /\ toServer' = Tail(toServer)
        /\ serverSub' = [id |-> VI!Request.id, sent |-> None]
        /\ toClient' = Append(toClient, m)
        /\ UNCHANGED <<source, newest, tui, loads, display>>
    BY <1>6 DEF VI!AddSubscription, VI!viewerVars
  <2>2. VI!Request \in ToServer /\ toServer' \in Seq(ToServer)
    BY <2>1, RequestIs
  <2>3. serverSub' \in [id : Nat, sent : Nat \cup {None}]
    BY <2>1, <2>2 DEF ToServer
  <2>4. m \in ToClient /\ ~IsSnapshot(m)
    BY DEF ToClient, IsSnapshot
  <2> HIDE DEF m
  <2> QED
    BY <1>2, <2>1, <2>2, <2>3, <2>4
<1>7. CASE VI!Unwatch
  <2> DEFINE m == [op |-> "unwatched"]
  <2>1. /\ toServer # << >> /\ toServer' = Tail(toServer) /\ serverSub' = None
        /\ toClient' = Append(toClient, m)
        /\ UNCHANGED <<source, newest, tui, loads, display>>
    BY <1>7 DEF VI!Unwatch, VI!viewerVars
  <2>2. toServer' \in Seq(ToServer)
    BY <2>1, RequestIs
  <2>3. m \in ToClient /\ ~IsSnapshot(m)
    BY DEF ToClient, IsSnapshot
  <2> HIDE DEF m
  <2> QED
    BY <1>2, <2>1, <2>2, <2>3
<1>8. CASE VI!ServePage
  <2> DEFINE v == IF VI!Request.kind = "runs" /\ VI!Request.rev # source THEN None ELSE source
             m == [op |-> "page", load |-> VI!Request.load, rev |-> v]
  <2>1. /\ toServer # << >> /\ VI!Request.op = "page" /\ toServer' = Tail(toServer)
        /\ toClient' = Append(toClient, m)
        /\ UNCHANGED <<source, serverSub, newest, tui, loads, display>>
    BY <1>8 DEF VI!ServePage, VI!viewerVars
  <2>2. VI!Request \in ToServer /\ toServer' \in Seq(ToServer)
    BY <2>1, RequestIs
  <2>3. v \in Nat \cup {None}
    BY <1>1
  <2> HIDE DEF v
  <2>4. m \in ToClient /\ ~IsSnapshot(m)
    BY <2>1, <2>2, <2>3 DEF ToClient, ToServer, IsSnapshot
  <2>5. serverSub' \in {None} \cup [id : Nat, sent : Nat \cup {None}]
    BY <1>1, <2>1 DEF ViewTypes
  <2> HIDE DEF m
  <2> QED
    BY <1>2, <2>1, <2>2, <2>4, <2>5
<1> QED
  BY <1>3, <1>4, <1>5, <1>6, <1>7, <1>8 DEF VI!Handle

\* What the viewer does without a new view: subscriptions, and the connection.
LEMMA ViewerMoves ==
    ASSUME ViewInv,
           \/ VI!ReceiveWatched \/ VI!ReceiveFailure \/ VI!ReceiveUnwatched
           \/ VI!SwitchView \/ VI!LoseView \/ VI!Reconnect
    PROVE  ViewInv'
<1>1. /\ ViewTypes /\ WireRow /\ source \in Nat /\ tui \in Viewer
      /\ toServer \in Seq(ToServer) /\ toClient \in Seq(ToClient)
      /\ tui.gen \in Nat /\ tui.id \in Nat /\ << >> \in Seq(ToServer)
      /\ << >> \in Seq(ToClient)
  BY DEF ViewInv, ViewTypes, Viewer
<1>2. ASSUME NEW t \in Viewer, VI!Subscribe(t)
      PROVE  /\ tui' \in Viewer /\ tui'.gen = t.gen /\ toServer' \in Seq(ToServer)
  <2>1. VI!Watch(t.id + 1) \in ToServer /\ t.id + 1 \in Nat
    BY DEF VI!Watch, ToServer, Viewer
  <2>2. /\ toServer' = Append(toServer, VI!Watch(t.id + 1))
        /\ tui' = [t EXCEPT !.mode = VI!Other(@), !.id = @ + 1, !.at = "subscribing"]
    BY <1>2 DEF VI!Subscribe
  <2>3. toServer' \in Seq(ToServer)
    BY <1>1, <2>1, <2>2, AppendProperties
  <2>4. tui' \in Viewer /\ tui'.gen = t.gen
    BY <2>1, <2>2 DEF Viewer, VI!Other
  <2> QED
    BY <2>3, <2>4
<1>3. /\ UNCHANGED <<source, newest>> /\ loads' \in {loads, {}}
      /\ serverSub' \in {serverSub, None}
      /\ display' \in {display, VI!Unavailable}
  BY <1>1 DEF VI!ReceiveWatched, VI!ReceiveFailure, VI!ReceiveUnwatched, VI!Receive,
              VI!SwitchView, VI!LoseView, VI!Reconnect, VI!viewerVars
<1>4. toClient' \in Seq(ToClient) /\ WireRow'
  <2>1. CASE toClient # << >> /\ toClient' = Tail(toClient) /\ loads' = loads
    BY <1>3, <2>1, ClientReads DEF WireRow
  <2>2. CASE toClient' = toClient
    BY <1>1, <1>3, <2>2 DEF WireRow
  <2>3. CASE toClient' = << >>
    BY <1>1, <2>3, EmptySeq DEF WireRow
  <2> QED
    BY <2>1, <2>2, <2>3
    DEF VI!ReceiveWatched, VI!ReceiveFailure, VI!ReceiveUnwatched, VI!Receive,
        VI!SwitchView, VI!LoseView, VI!Reconnect, VI!viewerVars
<1>5. tui' \in Viewer /\ tui.gen <= tui'.gen /\ toServer' \in Seq(ToServer)
  <2>1. CASE VI!ReceiveWatched
    BY <1>1, <2>1 DEF VI!ReceiveWatched, Viewer
  <2>2. CASE VI!ReceiveFailure
    BY <1>1, <2>2 DEF VI!ReceiveFailure, Viewer
  <2>3. CASE VI!ReceiveUnwatched
    <3>1. VI!Subscribe(tui) \/ UNCHANGED <<tui, toServer>>
      BY <2>3 DEF VI!ReceiveUnwatched
    <3> QED
      BY <1>1, <1>2, <3>1
  <2>4. CASE VI!SwitchView
    <3> DEFINE t == [tui EXCEPT !.gen = @ + 1]
    <3>1. t \in Viewer /\ tui.gen <= t.gen
      BY <1>1 DEF Viewer
    <3>2. \/ tui' = [t EXCEPT !.at = "unwatching"]
             /\ toServer' = Append(toServer, [op |-> "unwatch"])
          \/ VI!Subscribe(t)
          \/ tui' = [t EXCEPT !.at = "gone"] /\ UNCHANGED toServer
      BY <2>4 DEF VI!SwitchView
    <3> HIDE DEF t
    <3>3. [op |-> "unwatch"] \in ToServer
      BY DEF ToServer
    <3>4. CASE VI!Subscribe(t)
      BY <1>2, <3>1, <3>4
    <3>5. CASE ~VI!Subscribe(t)
      <4>1. toServer' \in Seq(ToServer)
        BY <1>1, <3>2, <3>3, <3>5, AppendProperties
      <4>2. tui' \in Viewer /\ tui'.gen = t.gen
        BY <3>1, <3>2, <3>5 DEF Viewer
      <4> QED
        BY <3>1, <4>1, <4>2
    <3> QED
      BY <3>4, <3>5
  <2>5. CASE VI!LoseView
    BY <1>1, <2>5 DEF VI!LoseView, Viewer
  <2>6. CASE VI!Reconnect
    <3>1. VI!Watch(tui.id) \in ToServer
      BY <1>1 DEF VI!Watch, ToServer
    <3> DEFINE restored == <<VI!Watch(tui.id)>>
    <3>2. restored \in Seq(ToServer)
      BY <3>1
    <3>3. tui' = tui /\ toServer' \in {toServer, restored}
      BY <2>6 DEF VI!Reconnect, VI!viewerVars
    <3> HIDE DEF restored
    <3> QED
      BY <1>1, <3>2, <3>3
  <2> QED
    BY <2>1, <2>2, <2>3, <2>4, <2>5, <2>6
<1>6. ViewTypes'
  BY <1>1, <1>3, <1>4, <1>5 DEF ViewTypes
<1>7. loads' \subseteq loads /\ source <= source'
  BY <1>1, <1>3
<1> QED
  BY <1>3, <1>4, <1>5, <1>6, <1>7, NothingNew

\* A snapshot is what the viewer collects from now on.
LEMMA SnapshotComes ==
    ASSUME ViewInv, VI!ReceiveSnapshot
    PROVE  ViewInv'
<1>1. /\ ViewTypes /\ LoadsRow /\ DisplayRow /\ tui \in Viewer /\ tui.gen \in Nat
      /\ source \in Nat /\ newest \in Nat /\ toServer \in Seq(ToServer)
      /\ loads \subseteq Load
  BY DEF ViewInv, ViewTypes, Viewer
<1>2. /\ toClient # << >> /\ toClient' = Tail(toClient) /\ IsSnapshot(VI!Message)
      /\ UNCHANGED <<source, serverSub>>
  BY DEF VI!ReceiveSnapshot, VI!Receive, IsSnapshot
<1>3. /\ toClient' \in Seq(ToClient) /\ VI!Message \in ToClient
      /\ newest <= VI!Message.rev /\ VI!Message.rev <= source
      /\ \A i \in 1..Len(toClient') : IsSnapshot(toClient'[i]) =>
           /\ newest <= toClient'[i].rev /\ toClient'[i].rev <= source
           /\ VI!Message.rev <= toClient'[i].rev
           /\ \A l \in loads : l.rev <= toClient'[i].rev
      /\ \A i, j \in 1..Len(toClient') :
           i <= j /\ IsSnapshot(toClient'[i]) /\ IsSnapshot(toClient'[j])
              => toClient'[i].rev <= toClient'[j].rev
  BY <1>2, ClientReads
<1> DEFINE l == [gen |-> tui.gen + 1, kind |-> tui.mode, rev |-> VI!Message.rev,
                 got |-> {VI!Message.rev}, left |-> MaxPages]
<1>4. VI!Message.rev \in Nat
  BY <1>2, <1>3 DEF IsSnapshot, ToClient
<1>5. /\ l \in Load /\ l.gen = tui.gen + 1 /\ l.rev = VI!Message.rev /\ l.got = {l.rev}
      /\ l.kind = tui.mode
  BY <1>1, <1>4, ViewsAssumption DEF Load, Viewer
<1>6. CASE VI!Subscribed /\ VI!Message.id = tui.id
  <2>1. /\ tui' = [tui EXCEPT !.gen = l.gen] /\ loads' = loads \cup {l} /\ VI!Ask(l)
        /\ IF tui.mode = "run"
           THEN display' = [kind |-> "run", revs |-> l.got, whole |-> FALSE]
                /\ VI!Newer(l.rev)
           ELSE UNCHANGED <<display, newest>>
    BY <1>6 DEF VI!ReceiveSnapshot
  <2> HIDE DEF l
  <2>2. \/ UNCHANGED <<newest, display>>
        \/ /\ newest' = l.rev /\ display'.kind = "run" /\ display'.revs = {l.rev}
           /\ ~display'.whole
    BY <1>1, <1>3, <1>4, <1>5, <2>1 DEF VI!Newer
  <2>3. newest' \in Nat /\ newest' <= l.rev /\ newest' <= source
    BY <1>1, <1>3, <1>4, <1>5, <2>2
  <2>4. toServer' \in Seq(ToServer)
    <3>1. [op |-> "page", load |-> l.gen, kind |-> l.kind, rev |-> l.rev] \in ToServer
      BY <1>5 DEF Load, ToServer
    <3> QED
      BY <1>1, <2>1, <3>1, AppendProperties DEF VI!Ask
  <2>5. tui' \in Viewer /\ tui'.gen = l.gen /\ tui'.gen > tui.gen
    BY <1>1, <1>5, <2>1 DEF Viewer
  <2>6. ViewTypes'
    BY <1>1, <1>2, <1>3, <1>5, <2>1, <2>3, <2>4, <2>5 DEF ViewTypes
  <2>7. WireRow'
    BY <1>2, <1>3, <1>5, <2>1, <2>2 DEF WireRow
  <2>8. \A k \in loads : k.gen \in Nat /\ k.gen <= tui.gen /\ k.got = {k.rev}
                         /\ k.rev <= source
    BY <1>1 DEF LoadsRow, Load
  <2>9. LoadsRow'
    <3>1. \A k \in loads : k.gen # l.gen /\ k.gen <= tui'.gen
      BY <1>1, <1>5, <2>5, <2>8
    <3>2. l.gen <= tui'.gen /\ l.rev <= source
      BY <1>1, <1>3, <1>5, <2>5
    <3> QED
      BY <1>1, <1>2, <1>5, <2>1, <2>3, <2>5, <2>8, <3>1, <3>2 DEF LoadsRow
  <2>10. DisplayRow'
    <3>1. newest' <= source' /\ DisplayRow
      BY <1>1, <1>2, <2>3
    <3>2. CASE UNCHANGED <<newest, display>>
      BY <3>1, <3>2 DEF DisplayRow
    <3>3. CASE ~UNCHANGED <<newest, display>>
      BY <2>2, <3>1, <3>3 DEF DisplayRow
    <3> QED
      BY <3>2, <3>3
  <2> QED
    BY <2>6, <2>7, <2>9, <2>10 DEF ViewInv
<1>7. CASE ~(VI!Subscribed /\ VI!Message.id = tui.id)
  <2>1. UNCHANGED <<toServer, tui, loads, display, newest>>
    BY <1>7 DEF VI!ReceiveSnapshot, VI!viewerVars
  <2>2. ViewTypes'
    BY <1>1, <1>2, <1>3, <2>1 DEF ViewTypes
  <2>3. WireRow'
    BY <1>2, <1>3, <2>1 DEF WireRow
  <2> QED
    BY <1>1, <1>2, <2>1, <2>2, <2>3, NothingNew
<1> QED
  BY <1>6, <1>7

\* A page continues the snapshot it belongs to, or ends its collection.
LEMMA PageComes ==
    ASSUME ViewInv, VI!ReceivePage
    PROVE  ViewInv'
<1>1. /\ ViewTypes /\ LoadsRow /\ DisplayRow /\ tui \in Viewer /\ tui.gen \in Nat
      /\ source \in Nat /\ newest \in Nat /\ toServer \in Seq(ToServer)
      /\ loads \subseteq Load
  BY DEF ViewInv, ViewTypes, Viewer
<1>2. /\ toClient # << >> /\ toClient' = Tail(toClient) /\ VI!Message.op = "page"
      /\ UNCHANGED <<source, serverSub, tui>>
  BY DEF VI!ReceivePage, VI!Receive
<1>3. /\ toClient' \in Seq(ToClient)
      /\ \A i \in 1..Len(toClient') : IsSnapshot(toClient'[i]) =>
           /\ newest <= toClient'[i].rev /\ toClient'[i].rev <= source
           /\ \A k \in loads : k.rev <= toClient'[i].rev
      /\ \A i, j \in 1..Len(toClient') :
           i <= j /\ IsSnapshot(toClient'[i]) /\ IsSnapshot(toClient'[j])
              => toClient'[i].rev <= toClient'[j].rev
  BY <1>2, ClientReads
<1> DEFINE l == CHOOSE x \in loads : x.gen = VI!Message.load
           more == [l EXCEPT !.got = @ \cup {VI!Message.rev}, !.left = @ - 1]
<1>4. l \in loads
  BY DEF VI!ReceivePage
<1>5. \/ loads' = loads \ {l} /\ UNCHANGED <<toServer, display, newest>>
      \/ /\ VI!Continues(l, VI!Message.rev) /\ more.left > 0
         /\ loads' = (loads \ {l}) \cup {more} /\ VI!Ask(more)
         /\ UNCHANGED <<display, newest>>
      \/ /\ VI!Continues(l, VI!Message.rev) /\ VI!StillWanted(l)
         /\ loads' = loads \ {l} /\ UNCHANGED toServer
         /\ display' = [kind |-> l.kind, revs |-> more.got, whole |-> TRUE]
         /\ VI!Newer(l.rev)
  BY DEF VI!ReceivePage
<1> HIDE DEF l
<1>6. /\ l \in Load /\ l.got = {l.rev} /\ l.gen <= tui.gen /\ l.rev <= source
      /\ l.gen = tui.gen => newest <= l.rev
      /\ \A k \in loads : k.gen = l.gen => k = l
  BY <1>1, <1>4 DEF LoadsRow
<1>7. ASSUME VI!Continues(l, VI!Message.rev)
      PROVE  /\ more.gen = l.gen /\ more.kind = l.kind /\ more.rev = l.rev
             /\ more.got = {l.rev}
             /\ more.left > 0 => more \in Load
  <2>1. more = [l EXCEPT !.got = {l.rev}, !.left = @ - 1] /\ l.left \in Nat
    BY <1>6, <1>7 DEF VI!Continues, Load
  <2> HIDE DEF more
  <2>2. more.left = l.left - 1 /\ l.rev \in Nat
    BY <1>6, <2>1 DEF Load
  <2>3. more = [l EXCEPT !.got = {l.rev}, !.left = more.left]
    BY <2>1, <2>2
  <2>4. more.left > 0 => more.left \in Nat
    BY <2>1, <2>2
  <2> QED
    BY <1>6, <2>2, <2>3, <2>4 DEF Load
<1> HIDE DEF more
<1>8. CASE loads' = loads \ {l} /\ UNCHANGED <<toServer, display, newest>>
  <2>1. ViewTypes'
    BY <1>1, <1>2, <1>3, <1>8 DEF ViewTypes
  <2>2. WireRow'
    BY <1>2, <1>3, <1>8 DEF WireRow
  <2> QED
    BY <1>1, <1>2, <1>8, <2>1, <2>2, NothingNew
<1>9. CASE /\ VI!Continues(l, VI!Message.rev) /\ more.left > 0
           /\ loads' = (loads \ {l}) \cup {more} /\ VI!Ask(more)
           /\ UNCHANGED <<display, newest>>
  <2>1. toServer' \in Seq(ToServer)
    <3>1. [op |-> "page", load |-> more.gen, kind |-> more.kind, rev |-> more.rev]
             \in ToServer
      BY <1>6, <1>7, <1>9 DEF Load, ToServer
    <3> QED
      BY <1>1, <1>9, <3>1, AppendProperties DEF VI!Ask
  <2>2. ViewTypes'
    BY <1>1, <1>2, <1>3, <1>7, <1>9, <2>1 DEF ViewTypes
  <2>3. WireRow'
    BY <1>2, <1>3, <1>4, <1>7, <1>9 DEF WireRow
  <2>4. LoadsRow'
    BY <1>1, <1>2, <1>6, <1>7, <1>9 DEF LoadsRow
  <2>5. DisplayRow'
    BY <1>1, <1>2, <1>9 DEF DisplayRow
  <2> QED
    BY <2>2, <2>3, <2>4, <2>5 DEF ViewInv
<1>10. CASE /\ VI!Continues(l, VI!Message.rev) /\ VI!StillWanted(l)
            /\ loads' = loads \ {l} /\ UNCHANGED toServer
            /\ display' = [kind |-> l.kind, revs |-> more.got, whole |-> TRUE]
            /\ VI!Newer(l.rev)
  <2>1. l.gen = tui.gen /\ newest <= l.rev /\ l.rev \in Nat /\ l.kind \in {"runs", "run"}
    BY <1>6, <1>10 DEF VI!StillWanted, Load
  <2>2. newest' = l.rev
    BY <1>1, <1>10, <2>1 DEF VI!Newer
  <2>3. ViewTypes'
    BY <1>1, <1>2, <1>3, <1>10, <2>1, <2>2 DEF ViewTypes
  <2>4. WireRow'
    BY <1>2, <1>3, <1>4, <1>10, <2>2 DEF WireRow
  <2>5. LoadsRow'
    BY <1>1, <1>2, <1>6, <1>10, <2>1, <2>2 DEF LoadsRow
  <2>6. DisplayRow'
    BY <1>2, <1>6, <1>7, <1>10, <2>1, <2>2 DEF DisplayRow
  <2> QED
    BY <2>3, <2>4, <2>5, <2>6 DEF ViewInv
<1> QED
  BY <1>5, <1>8, <1>9, <1>10

LEMMA ViewInvariant == Spec => []ViewInv
<1>1. Init => ViewInv
  <2> SUFFICES ASSUME Init PROVE ViewInv
    OBVIOUS
  <2>1. /\ source = 1 /\ serverSub = None /\ toServer = <<VI!Watch(1)>> /\ toClient = << >>
        /\ tui = [mode |-> "runs", id |-> 1, gen |-> 0, at |-> "subscribing"]
        /\ loads = {} /\ display = [kind |-> "empty", revs |-> {}, whole |-> FALSE]
        /\ newest = 0
    BY DEF Init, VI!ViewsInit
  <2>2. VI!Watch(1) \in ToServer
    BY DEF VI!Watch, ToServer
  <2>3. ViewTypes
    BY <2>1, <2>2 DEF ViewTypes, Viewer
  <2>4. WireRow /\ LoadsRow
    BY <2>1, EmptySeq DEF WireRow, LoadsRow
  <2>5. DisplayRow
    BY <2>1 DEF DisplayRow
  <2> QED
    BY <2>3, <2>4, <2>5 DEF ViewInv
<1>2. ViewInv /\ [Next]_vars => ViewInv'
  <2> SUFFICES ASSUME ViewInv, [Next]_vars PROVE ViewInv'
    OBVIOUS
  <2>1. CASE ViewStep
    <3>1. VI!ViewsNext
      BY <2>1 DEF ViewStep
    <3> QED
      BY <3>1, ViewServerStep, ViewerMoves, SnapshotComes, PageComes
      DEF VI!ViewsNext, VI!Read
  <2>2. CASE ~ViewStep
    <3>1. UNCHANGED viewVars
      BY <2>2 DEF Next, vars, TurnsStep, SettingsStep, FollowUpStep, RecordingStep,
                  PruneStep, HeadlessStep, ReplayStep
    <3>2. UNCHANGED <<source, serverSub, toServer, toClient, tui, loads, display, newest>>
      BY <3>1 DEF viewVars
    <3>3. ViewTypes' /\ WireRow' /\ LoadsRow' /\ DisplayRow'
      BY <3>2 DEF ViewInv, ViewTypes, WireRow, LoadsRow, DisplayRow
    <3> QED
      BY <3>3 DEF ViewInv
  <2> QED
    BY <2>1, <2>2
<1> QED
  BY <1>1, <1>2, PTL DEF Spec

\* A set with one member.
LEMMA OneMember == \A x : VI!Cardinality({x}) = 1
<1>1. \A S : VI!Cardinality(S) = Cardinality(S)
  BY DEF VI!Cardinality, Cardinality
<1> QED
  BY <1>1, FS_Singleton

\* A view that is shown as complete is of one revision, although it was read
\* page by page (completePage, deliverSubscriptionEvent) while the run went on,
\* and no view replaces a newer one, whatever connections and subscriptions were
\* lost and made again in between.
THEOREM ViewsAreWhole == Spec => []ShownIsWhole
<1>1. ViewInv => ShownIsWhole
  BY OneMember DEF ViewInv, DisplayRow, ShownIsWhole, VI!ShownIsWhole
<1> QED
  BY <1>1, ViewInvariant, PTL
=============================================================================
