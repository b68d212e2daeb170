------------------------ MODULE ResourceManagerProofs ------------------------
(***************************************************************************)
(* Proofs about ResourceManagers for any number of spec generations and    *)
(* any number of faults: an effect reaches the other system once, a status *)
(* that reports it is true of the generation it names, and a resource that *)
(* is gone left nothing behind.  All three follow from what a pass may     *)
(* assume of the effect records while it is at a given step (PassInv).     *)
(***************************************************************************)
EXTENDS ResourceManagers, TLAPS

Steps ==
    {"none", "start", "ensure", "create", "resolve", "asked", "reserve",
     "observe", "apply", "settle", "report", "failed", "exit", "orphan"}

\* Steps of a pass that asks for its child run and its effect.
Working ==
    {"ensure", "create", "resolve", "asked", "reserve", "observe", "apply",
     "settle"}

\* Steps of a pass that is given up: its code may still be running.
GivenUp == {"failed", "exit", "orphan"}

ChildRecord == {"none", "pending", "running", "waiting", "succeeded", "failed"}
Word        == {"new", "none", "pending"} \cup ChildRecord \cup Final

Resource ==
    [ here : BOOLEAN, gen : Gens, del : BOOLEAN, fin : BOOLEAN,
      seen : Nat, said : Word ]

Job ==
    [ phase : Steps, gen : Gens, del : BOOLEAN, fin : BOOLEAN,
      fresh : BOOLEAN, sameQueue : BOOLEAN, late : {"no", "observe", "apply"},
      answer : Word, kind : {"settled", "later", "requeue"}, keep : BOOLEAN ]

Effect == [ rec : {"none", "pending"} \cup Final, count : Nat, left : BOOLEAN ]

Child ==
    [ rec : ChildRecord, linked : BOOLEAN,
      run : {"none", "queued", "parked", "done", "failed", "cancelled"} ]

\* An effect is recorded before it can reach the other system, does so once,
\* and is recorded as applied only then.
EffectRow(x) ==
    /\ x.count <= 1
    /\ x.rec = "none" => x.count = 0
    /\ x.rec = "applied" => x.count = 1

\* A pass that is about to apply its effect, or whose code still may, finds it
\* recorded and not applied; only a pass that is given up left such code.
ApplyOnce(j, x) ==
    /\ j.late # "no" => j.phase \in GivenUp
    /\ j.phase = "apply" \/ j.late = "apply" => x.count = 0
    /\ j.phase \in {"observe", "apply", "settle"} \/ j.late # "no" =>
           x.rec # "none"
    /\ j.phase = "settle" => j.answer \in Final
    /\ j.answer = "applied" => x.count = 1

\* A status that says applied names the generation whose effect was.
TrueStatus(r, f) ==
    r.said = "applied" => r.seen \in Gens /\ f[r.seen].count = 1

\* A pass that works has the finalizer; one that removes it has cleaned up,
\* and a resource that is gone has no pass that could do anything.
CleanDeletion(r, j, f) ==
    /\ j.phase = "start" => j.keep = j.fin
    /\ j.phase \in Working => j.keep
    /\ j.phase = "report" /\ ~j.keep => \A g \in Gens : ~f[g].left
    /\ ~r.here => /\ j.phase \in {"none", "exit", "orphan"}
                  /\ j.late = "no"
                  /\ \A g \in Gens : ~f[g].left

PassInv(r, j, f) ==
    /\ r \in Resource
    /\ j \in Job
    /\ f \in [Gens -> Effect]
    /\ \A g \in Gens : EffectRow(f[g])
    /\ ApplyOnce(j, f[j.gen])
    /\ TrueStatus(r, f)
    /\ CleanDeletion(r, j, f)

ManagerInv ==
    /\ PassInv(res, job, fx)
    /\ child \in [Gens -> Child]

-----------------------------------------------------------------------------
(* Steps that leave the effects alone.                                     *)

\* Every field of a pass that a lemma below does not speak of is as it was.
SamePass(y, j) ==
    y.gen = j.gen /\ y.del = j.del /\ y.fin = j.fin /\ y.keep = j.keep

\* A pass that goes on, or is given up with its code still running, keeps
\* what it knows of its effect.
LEMMA GoesOn ==
    ASSUME NEW r, NEW j, NEW f, PassInv(r, j, f),
           NEW y \in Job, SamePass(y, j),
           y.answer = "applied" => f[j.gen].count = 1,
           y.late # "no" => y.phase \in GivenUp,
           y.phase = "apply" \/ y.late = "apply" => f[j.gen].count = 0,
           y.phase \in {"observe", "apply", "settle"} \/ y.late # "no" =>
               f[j.gen].rec # "none",
           y.phase = "settle" => y.answer \in Final,
           y.phase = "start" => j.phase = "start",
           y.phase \in Working => j.keep,
           y.phase = "report" => j.phase = "report" \/ j.keep,
           r.here \/ (y.phase \in {"none", "exit", "orphan"} /\ y.late = "no")
    PROVE  PassInv(r, y, f)
<1>1. ApplyOnce(y, f[y.gen])
  BY DEF PassInv, ApplyOnce, SamePass
<1>2. CleanDeletion(r, y, f)
  BY DEF PassInv, CleanDeletion, SamePass
<1> QED
  BY <1>1, <1>2 DEF PassInv

\* A write to the row by another than the pass marks the pass, no more.
LEMMA Marked ==
    ASSUME NEW r, NEW j, NEW f, PassInv(r, j, f)
    PROVE  PassInv(r, Foreign(j), f) /\ PassInv(r, Enqueued(j), f)
<1>1. Foreign(j) \in Job /\ Enqueued(j) \in Job
  BY DEF PassInv, Job, Foreign, Enqueued
<1>2. /\ SamePass(Foreign(j), j) /\ SamePass(Enqueued(j), j)
      /\ Foreign(j).phase = j.phase /\ Enqueued(j).phase = j.phase
      /\ Foreign(j).late = j.late /\ Enqueued(j).late = j.late
      /\ Foreign(j).answer = j.answer /\ Enqueued(j).answer = j.answer
  BY DEF PassInv, Job, SamePass, Foreign, Enqueued
<1> HIDE DEF Foreign, Enqueued
<1>3. /\ j.answer = "applied" => f[j.gen].count = 1
      /\ j.late # "no" => j.phase \in GivenUp
      /\ j.phase = "apply" \/ j.late = "apply" => f[j.gen].count = 0
      /\ j.phase \in {"observe", "apply", "settle"} \/ j.late # "no" =>
             f[j.gen].rec # "none"
      /\ j.phase = "settle" => j.answer \in Final
      /\ j.phase \in Working => j.keep
      /\ r.here \/ (j.phase \in {"none", "exit", "orphan"} /\ j.late = "no")
  BY DEF PassInv, ApplyOnce, CleanDeletion
<1>4. PassInv(r, Foreign(j), f)
  BY <1>1, <1>2, <1>3, GoesOn
<1>5. PassInv(r, Enqueued(j), f)
  BY <1>1, <1>2, <1>3, GoesOn
<1> QED
  BY <1>4, <1>5

\* A pass given up keeps its effect: what it was doing goes on without it.
LEMMA LeftRunning ==
    ASSUME NEW y, NEW q \in GivenUp, PassInv(res, job, fx),
           y = [job EXCEPT !.phase = q, !.late = InFlight],
           res.here \/ (q # "failed" /\ job.phase # "failed")
    PROVE  PassInv(res, y, fx)
<1>1. InFlight \in {"no", "observe", "apply"}
  BY DEF PassInv, Job, InFlight
<1>2. y \in Job
  BY <1>1 DEF PassInv, Job, GivenUp, Steps
<1>3. /\ SamePass(y, job) /\ y.phase = q /\ y.late = InFlight
      /\ y.answer = job.answer
  BY DEF PassInv, Job, SamePass
<1>4. /\ InFlight = "apply" => fx[job.gen].count = 0
      /\ InFlight # "no" => fx[job.gen].rec # "none"
      /\ job.answer = "applied" => fx[job.gen].count = 1
  BY DEF PassInv, ApplyOnce, InFlight
<1>5. ~ res.here => InFlight = "no"
  BY DEF PassInv, CleanDeletion, InFlight
<1>6. q \notin Working /\ q \notin {"observe", "apply", "settle", "start", "report", "none"}
  BY DEF GivenUp, Working
<1>7. q # "failed" => q \in {"none", "exit", "orphan"}
  BY DEF GivenUp
<1> QED
  BY <1>2, <1>3, <1>4, <1>5, <1>6, <1>7, GoesOn

\* What the invariant says of the pass at hand, for the steps below.
LEMMA Facts ==
    ASSUME PassInv(res, job, fx)
    PROVE  /\ job \in Job /\ job.gen \in Gens /\ res \in Resource
           /\ job.answer = "applied" => fx[job.gen].count = 1
           /\ job.late # "no" => job.phase \in GivenUp
           /\ job.phase = "apply" \/ job.late = "apply" => fx[job.gen].count = 0
           /\ job.phase \in {"observe", "apply", "settle"} \/ job.late # "no" =>
                  fx[job.gen].rec # "none"
           /\ job.phase = "start" => job.keep = job.fin
           /\ job.phase \in Working => job.keep
           /\ res.here \/ (job.phase \in {"none", "exit", "orphan"} /\ job.late = "no")
BY DEF PassInv, ApplyOnce, CleanDeletion, Job

\* A pass still at work goes to another step of its work, or reports.
LEMMA WorksOn ==
    ASSUME NEW y \in Job, PassInv(res, job, fx), SamePass(y, job),
           job.phase \in Working, y.late = job.late,
           y.phase \in (Working \ {"apply"}) \cup {"report"},
           y.phase \in {"observe", "settle"} => fx[job.gen].rec # "none",
           y.answer = "applied" => fx[job.gen].count = 1,
           y.phase = "settle" => y.answer \in Final
    PROVE  PassInv(res, y, fx)
<1>1. job.late = "no" /\ res.here /\ job.keep
  BY Facts DEF Working, GivenUp
<1>2. y.phase # "apply" /\ y.phase # "start"
  BY DEF Working
<1> QED
  BY <1>1, <1>2, GoesOn

\* The pass begins: with what it read of the resource.
LEMMA ClaimStep == ASSUME PassInv(res, job, fx), Claim
                   PROVE  PassInv(res', job', fx')
<1>1. job.late = "no"
  BY Facts DEF Claim, GivenUp
<1>2. /\ job' = Pass("start", "no") /\ res.here
      /\ res' = res /\ fx' = fx
  BY <1>1 DEF Claim
<1>3. Pass("start", "no") \in Job
  BY DEF PassInv, Pass, Job, Resource, Steps, Word
<1>4. ApplyOnce(Pass("start", "no"), fx[Pass("start", "no").gen])
  BY DEF ApplyOnce, Pass
<1>5. CleanDeletion(res, Pass("start", "no"), fx)
  BY <1>2 DEF CleanDeletion, Pass, Working
<1> QED
  BY <1>2, <1>3, <1>4, <1>5 DEF PassInv

\* The answer of a child run is none of the words for an effect.
LEMMA ResultIsChild ==
    ASSUME NEW run
    PROVE  Result(run) \in {"running", "waiting", "succeeded", "failed"}
BY DEF Result

\* Linking the child run answers the pass.
LEMMA LinkStep ==
    ASSUME PassInv(res, job, fx), child \in [Gens -> Child],
           NEW g \in Gens, NEW created \in BOOLEAN,
           NEW run \in {"none", "queued", "parked", "done", "failed", "cancelled"},
           job.phase \in Working, Link(g, created, run)
    PROVE  PassInv(res, job', fx) /\ child' \in [Gens -> Child]
<1>1. Result(run) \in {"running", "waiting", "succeeded", "failed"}
  BY ResultIsChild
<1>2. child' \in [Gens -> Child]
  BY <1>1 DEF Link, Child, ChildRecord
<1>3. PICK b \in BOOLEAN : job' = [job EXCEPT !.phase = "asked",
                                              !.answer = Result(run), !.fresh = b]
  <2>1. (job.fresh \/ created \/ Result(run) # "running") \in BOOLEAN
    OBVIOUS
  <2> QED
    BY <2>1 DEF Link
<1>4. job \in Job
  BY Facts
<1> HIDE DEF Result
<1>5. job' \in Job
  BY <1>1, <1>3, <1>4 DEF Job, Word, ChildRecord, Steps
<1>6. /\ SamePass(job', job) /\ job'.late = job.late
      /\ job'.phase = "asked" /\ job'.answer = Result(run)
  BY <1>3, <1>4 DEF Job, SamePass
<1>7. PassInv(res, job', fx)
  BY <1>1, <1>5, <1>6, WorksOn DEF Working
<1> QED
  BY <1>2, <1>7

LEMMA EnsureStep == ASSUME PassInv(res, job, fx), child \in [Gens -> Child],
                           EnsureChild
                    PROVE  PassInv(res', job', fx') /\ child' \in [Gens -> Child]
<1> DEFINE c == child[job.gen]
<1>1. /\ res' = res /\ fx' = fx /\ job.phase = "ensure" /\ job \in Job
      /\ job.gen \in Gens /\ c \in Child /\ job.phase \in Working
  BY Facts DEF EnsureChild, At, Working
<1>2. CASE c.rec \in {"succeeded", "failed", "waiting"}
  <2>1. /\ job' = [job EXCEPT !.phase = "asked", !.answer = c.rec]
        /\ child' = child
    BY <1>2 DEF EnsureChild
  <2>2. job' \in Job
    BY <1>1, <1>2, <2>1 DEF Job, Word, ChildRecord, Steps
  <2>3. /\ SamePass(job', job) /\ job'.late = job.late
        /\ job'.phase = "asked" /\ job'.answer = c.rec
    BY <1>1, <2>1 DEF Job, SamePass
  <2>4. PassInv(res, job', fx)
    BY <1>1, <1>2, <2>2, <2>3, WorksOn DEF Working
  <2> QED
    BY <1>1, <2>1, <2>4
<1>3. CASE c.rec \in {"none", "pending", "running"} /\ c.run = "none"
  <2>1. PICK q \in {"create", "resolve"} : job' = [job EXCEPT !.phase = q]
    BY <1>3 DEF EnsureChild
  <2>2. child' = [child EXCEPT ![job.gen].rec = "pending"]
    BY <1>3 DEF EnsureChild
  <2>3. child' \in [Gens -> Child]
    BY <1>1, <2>2 DEF Child, ChildRecord
  <2>4. job' \in Job
    BY <1>1, <2>1 DEF Job, Steps
  <2>5. /\ SamePass(job', job) /\ job'.late = job.late
        /\ job'.phase = q /\ job'.answer = job.answer
    BY <1>1, <2>1 DEF Job, SamePass
  <2>6. PassInv(res, job', fx)
    BY <1>1, <2>4, <2>5, WorksOn, Facts DEF Working
  <2> QED
    BY <1>1, <2>3, <2>6
<1>4. CASE ~ (c.rec \in {"succeeded", "failed", "waiting"})
           /\ ~ (c.rec \in {"none", "pending", "running"} /\ c.run = "none")
  <2>1. Link(job.gen, FALSE, c.run)
    BY <1>4 DEF EnsureChild
  <2>2. c.run \in {"none", "queued", "parked", "done", "failed", "cancelled"}
    BY <1>1 DEF Child
  <2> QED
    BY <1>1, <2>1, <2>2, LinkStep
<1> QED
  BY <1>2, <1>3, <1>4

LEMMA ResolvedStep == ASSUME PassInv(res, job, fx), child \in [Gens -> Child],
                             Resolved
                      PROVE  PassInv(res', job', fx') /\ child' \in [Gens -> Child]
<1> DEFINE run == IF child[job.gen].run = "none" THEN "queued"
                  ELSE child[job.gen].run
<1>1. /\ res' = res /\ fx' = fx /\ job.phase \in {"create", "resolve"}
      /\ job \in Job /\ job.gen \in Gens /\ job.phase \in Working
  BY Facts DEF Resolved, Working
<1>2. run \in {"none", "queued", "parked", "done", "failed", "cancelled"}
  BY <1>1 DEF Child
<1>3. CASE lease = "live"
  <2>1. Link(job.gen, job.phase = "create", run)
    BY <1>3 DEF Resolved
  <2> QED
    BY <1>1, <1>2, <2>1, LinkStep
<1>4. CASE lease # "live"
  <2>1. /\ child' = [child EXCEPT ![job.gen].run = run]
        /\ job' = [job EXCEPT !.phase = "exit"]
    BY <1>4 DEF Resolved
  <2>2. child' \in [Gens -> Child]
    BY <1>1, <1>2, <2>1 DEF Child
  <2>3. job' = [job EXCEPT !.phase = "exit", !.late = InFlight]
    BY <1>1, <2>1, Facts DEF Job, InFlight, GivenUp
  <2>4. PassInv(res, job', fx)
    BY <1>1, <2>3, LeftRunning DEF GivenUp
  <2> QED
    BY <1>1, <2>2, <2>4
<1> QED
  BY <1>3, <1>4

LEMMA StrayStep == ASSUME PassInv(res, job, fx), child \in [Gens -> Child],
                          StrayResolved
                   PROVE  PassInv(res', job', fx') /\ child' \in [Gens -> Child]
<1>1. child' \in [Gens -> Child]
  BY DEF StrayResolved, Child
<1> QED
  BY <1>1 DEF StrayResolved

LEMMA AnsweredStep == ASSUME PassInv(res, job, fx), ChildAnswered
                      PROVE  PassInv(res', job', fx')
<1>1. /\ res' = res /\ fx' = fx /\ job.phase \in Working /\ job \in Job
      /\ job.answer = "applied" => fx[job.gen].count = 1
  BY Facts DEF ChildAnswered, Working
<1>2. /\ job' \in Job /\ SamePass(job', job) /\ job'.late = job.late
      /\ job'.phase \in {"reserve", "report"} /\ job'.answer = job.answer
  <2>1. CASE job' = [job EXCEPT !.phase = "reserve"]
    BY <1>1, <2>1 DEF Job, Steps, SamePass
  <2>2. CASE \E kind \in {"settled", "later"} :
                 job' = [job EXCEPT !.phase = "report", !.kind = kind]
    BY <1>1, <2>2 DEF Job, Steps, SamePass
  <2> QED
    BY <2>1, <2>2 DEF ChildAnswered
<1>3. /\ job'.phase \in (Working \ {"apply"}) \cup {"report"}
      /\ job'.phase \notin {"observe", "settle"}
  BY <1>2 DEF Working
<1>4. PassInv(res, job', fx)
  BY <1>1, <1>2, <1>3, WorksOn
<1> QED
  BY <1>1, <1>4

LEMMA ObserveStep == ASSUME PassInv(res, job, fx), ObserveEffect
                     PROVE  PassInv(res', job', fx')
<1>1. /\ res' = res /\ fx' = fx /\ job.phase = "observe" /\ job \in Job
      /\ job.phase \in Working /\ job.gen \in Gens
      /\ fx[job.gen].rec # "none" /\ job.late = "no" /\ res.here /\ job.keep
      /\ job.answer = "applied" => fx[job.gen].count = 1
  BY Facts DEF ObserveEffect, Working, GivenUp
<1>2. CASE fx[job.gen].count = 0 /\ job' = [job EXCEPT !.phase = "apply"]
  <2>1. job' \in Job
    BY <1>1, <1>2 DEF Job, Steps
  <2>2. /\ SamePass(job', job) /\ job'.late = job.late
        /\ job'.phase = "apply" /\ job'.answer = job.answer
    BY <1>1, <1>2 DEF Job, SamePass
  <2> QED
    BY <1>1, <1>2, <2>1, <2>2, GoesOn
<1>3. CASE \E w \in {"applied", "indeterminate"} :
              /\ w = "applied" => fx[job.gen].count # 0
              /\ job' = [job EXCEPT !.phase = "settle", !.answer = w]
  <2>1. PICK w \in {"applied", "indeterminate"} :
              /\ w = "applied" => fx[job.gen].count # 0
              /\ job' = [job EXCEPT !.phase = "settle", !.answer = w]
    BY <1>3
  <2>2. job' \in Job
    BY <1>1, <2>1 DEF Job, Steps, Word, Final
  <2>3. /\ SamePass(job', job) /\ job'.late = job.late
        /\ job'.phase = "settle" /\ job'.answer = w
    BY <1>1, <2>1 DEF Job, SamePass
  <2>4. w = "applied" => fx[job.gen].count = 1
    BY <1>1, <2>1 DEF PassInv, EffectRow, Effect
  <2> QED
    BY <1>1, <2>1, <2>2, <2>3, <2>4, WorksOn DEF Working, Final
<1> QED
  BY <1>2, <1>3 DEF ObserveEffect

-----------------------------------------------------------------------------
(* Steps that change the effect of the pass's generation.                  *)

\* Writing one record of the pass's generation, from one that is not applied
\* or of the same effect, leaves the rest of the invariant to the pass.
LEMMA OneEffect ==
    ASSUME PassInv(res, job, fx), NEW x \in Effect, NEW y \in Job,
           SamePass(y, job), EffectRow(x), ApplyOnce(y, x),
           x.count = fx[job.gen].count \/ fx[job.gen].count = 0,
           ~ x.left \/ fx[job.gen].left \/ (res.here /\ ~ (y.phase = "report" /\ ~y.keep)),
           y.phase = "start" => job.phase = "start",
           y.phase \in Working => job.keep,
           y.phase = "report" => job.phase = "report" \/ job.keep,
           res.here \/ (y.phase \in {"none", "exit", "orphan"} /\ y.late = "no")
    PROVE  PassInv(res, y, [fx EXCEPT ![job.gen] = x])
<1> DEFINE f == [fx EXCEPT ![job.gen] = x]
<1>1. /\ job.gen \in Gens /\ fx \in [Gens -> Effect] /\ y.gen = job.gen
      /\ y.keep = job.keep
  BY DEF PassInv, Job, SamePass
<1>2. /\ f \in [Gens -> Effect] /\ f[job.gen] = x
      /\ \A g \in Gens : g # job.gen => f[g] = fx[g]
  BY <1>1
<1> HIDE DEF f
<1>3. \A g \in Gens : EffectRow(f[g])
  BY <1>2 DEF PassInv
<1>4. TrueStatus(res, f)
  <2>1. ASSUME res.said = "applied"
        PROVE  res.seen \in Gens /\ f[res.seen].count = 1
    <3>1. res.seen \in Gens /\ fx[res.seen].count = 1
      BY <2>1 DEF PassInv, TrueStatus
    <3> QED
      BY <1>2, <3>1
  <2> QED
    BY <2>1 DEF TrueStatus
<1>5. CleanDeletion(res, y, f)
  <2>1. y.phase = "start" => y.keep = y.fin
    BY DEF PassInv, CleanDeletion, SamePass
  <2>2. ASSUME NEW g \in Gens, \A h \in Gens : ~ fx[h].left,
               (y.phase = "report" /\ ~ y.keep) \/ ~ res.here
        PROVE  ~ f[g].left
    BY <1>1, <1>2, <2>2
  <2>3. (y.phase = "report" /\ ~ y.keep) \/ ~ res.here =>
            \A h \in Gens : ~ fx[h].left
    BY <1>1 DEF PassInv, CleanDeletion
  <2> QED
    BY <1>1, <2>1, <2>2, <2>3 DEF CleanDeletion
<1>6. ApplyOnce(y, f[y.gen])
  BY <1>1, <1>2
<1> QED
  BY <1>2, <1>3, <1>4, <1>5, <1>6 DEF PassInv, f

LEMMA ReserveStep == ASSUME PassInv(res, job, fx), ReserveEffect
                     PROVE  PassInv(res', job', fx')
<1> DEFINE rec == fx[job.gen].rec
<1> DEFINE x == [fx[job.gen] EXCEPT !.rec = IF @ = "none" THEN "pending" ELSE @]
<1>1. /\ res' = res /\ job.phase = "reserve" /\ job \in Job /\ res.here
      /\ job.gen \in Gens /\ fx[job.gen] \in Effect /\ job.late = "no"
      /\ job.keep /\ EffectRow(fx[job.gen]) /\ job.phase \in Working
      /\ job.answer = "applied" => fx[job.gen].count = 1
      /\ fx \in [Gens -> Effect]
  BY Facts DEF ReserveEffect, At, GivenUp, Working, PassInv
<1>2. /\ x \in Effect /\ x.rec # "none" /\ x.count = fx[job.gen].count
      /\ x.left = fx[job.gen].left /\ EffectRow(x)
      /\ rec = "none" => x.count = 0
  BY <1>1 DEF Effect, EffectRow, Final
<1>3. fx' = [fx EXCEPT ![job.gen] = x]
  BY <1>1 DEF ReserveEffect, Effect
<1> HIDE DEF x
<1>4. CASE rec \in Final
  <2>1. job' = [job EXCEPT !.phase = "report", !.answer = rec]
    BY <1>4 DEF ReserveEffect
  <2>2. job' \in Job
    BY <1>1, <1>4, <2>1 DEF Job, Steps, Word
  <2>3. /\ SamePass(job', job) /\ job'.late = "no"
        /\ job'.phase = "report" /\ job'.answer = rec
    BY <1>1, <2>1 DEF Job, SamePass
  <2>4. rec = "applied" => x.count = 1
    BY <1>1, <1>2 DEF EffectRow
  <2>5. ApplyOnce(job', x)
    BY <2>3, <2>4 DEF ApplyOnce
  <2> QED
    BY <1>1, <1>2, <1>3, <2>2, <2>3, <2>5, OneEffect DEF Working
<1>5. CASE rec \notin Final
  <2>1. PICK q \in {"apply", "observe"} :
            /\ job' = [job EXCEPT !.phase = q]
            /\ q = "apply" => rec = "none"
    BY <1>5 DEF ReserveEffect
  <2>2. job' \in Job
    BY <1>1, <2>1 DEF Job, Steps
  <2>3. /\ SamePass(job', job) /\ job'.late = "no"
        /\ job'.phase = q /\ job'.answer = job.answer
    BY <1>1, <2>1 DEF Job, SamePass
  <2>4. ApplyOnce(job', x)
    BY <1>1, <1>2, <2>1, <2>3 DEF ApplyOnce
  <2> QED
    BY <1>1, <1>2, <1>3, <2>1, <2>2, <2>3, <2>4, OneEffect DEF Working
<1> QED
  BY <1>4, <1>5

\* The effect reaches the other system: for the first time.
LEMMA Reached ==
    ASSUME PassInv(res, job, fx), fx[job.gen].count = 0,
           fx[job.gen].rec # "none", Reach(job.gen)
    PROVE  \E x \in Effect :
             /\ fx' = [fx EXCEPT ![job.gen] = x]
             /\ x.count = 1 /\ x.rec = fx[job.gen].rec /\ EffectRow(x)
<1> DEFINE x == [fx[job.gen] EXCEPT !.count = @ + 1, !.left = TRUE]
<1>1. fx[job.gen] \in Effect /\ job.gen \in Gens /\ fx \in [Gens -> Effect]
      /\ EffectRow(fx[job.gen])
  BY Facts DEF PassInv
<1>2. x.count = 1 /\ x.left = TRUE /\ x.rec = fx[job.gen].rec
  BY <1>1 DEF Effect
<1>5. x \in Effect
  <2>1. PICK e \in Effect : e = fx[job.gen]
    BY <1>1
  <2>2. [e EXCEPT !.count = 1, !.left = TRUE] \in Effect
    BY <2>1 DEF Effect
  <2>3. x = [e EXCEPT !.count = 1, !.left = TRUE]
    BY <2>1
  <2> QED
    BY <2>2, <2>3
<1>3. EffectRow(x)
  BY <1>1, <1>2 DEF EffectRow
<1>4. fx' = [fx EXCEPT ![job.gen] = x]
  BY <1>1 DEF Reach, Effect
<1> QED
  BY <1>2, <1>3, <1>4, <1>5

LEMMA ApplyStep == ASSUME PassInv(res, job, fx), ApplyEffect
                   PROVE  PassInv(res', job', fx')
<1>1. PICK out \in Final :
          /\ job' = [job EXCEPT !.phase = "settle", !.answer = out]
          /\ \/ out # "rejected" /\ Reach(job.gen)
             \/ out # "applied" /\ UNCHANGED fx
  BY DEF ApplyEffect
<1>2. /\ res' = res /\ job.phase = "apply" /\ job \in Job /\ res.here
      /\ job.gen \in Gens /\ job.late = "no" /\ job.keep
      /\ fx[job.gen].count = 0 /\ fx[job.gen].rec # "none"
      /\ job.phase \in Working
  BY Facts DEF ApplyEffect, GivenUp, Working
<1>3. job' \in Job
  BY <1>1, <1>2 DEF Job, Steps, Word
<1>4. /\ SamePass(job', job) /\ job'.late = "no"
      /\ job'.phase = "settle" /\ job'.answer = out
  BY <1>1, <1>2 DEF Job, SamePass
<1>5. CASE Reach(job.gen)
  <2>1. PICK x \in Effect : /\ fx' = [fx EXCEPT ![job.gen] = x]
                            /\ x.count = 1 /\ x.rec = fx[job.gen].rec
                            /\ EffectRow(x)
    BY <1>2, <1>5, Reached
  <2>2. ApplyOnce(job', x)
    BY <1>2, <1>4, <2>1 DEF ApplyOnce
  <2>3. PassInv(res, job', [fx EXCEPT ![job.gen] = x])
    BY <1>2, <1>3, <1>4, <2>1, <2>2, OneEffect
  <2> QED
    BY <1>2, <2>1, <2>3
<1>6. CASE out # "applied" /\ UNCHANGED fx
  <2>1. PassInv(res, job', fx)
    BY <1>2, <1>3, <1>4, <1>6, WorksOn DEF Working
  <2> QED
    BY <1>2, <1>6, <2>1
<1> QED
  BY <1>1, <1>5, <1>6

LEMMA LateStep == ASSUME PassInv(res, job, fx), LateApply
                  PROVE  PassInv(res', job', fx')
<1>1. /\ job' = [job EXCEPT !.late = "no"] /\ res' = res /\ Reach(job.gen)
      /\ job.late # "no" /\ fx[job.gen].count = 0 /\ fx[job.gen].rec # "none"
      /\ job \in Job /\ job.phase \in GivenUp /\ res.here
      /\ job.answer # "applied"
  BY Facts DEF LateApply
<1>2. PICK x \in Effect : /\ fx' = [fx EXCEPT ![job.gen] = x]
                          /\ x.count = 1 /\ x.rec = fx[job.gen].rec
                          /\ EffectRow(x)
  BY <1>1, Reached
<1>3. job' \in Job
  BY <1>1 DEF Job
<1>4. /\ SamePass(job', job) /\ job'.late = "no"
      /\ job'.phase = job.phase /\ job'.answer = job.answer
  BY <1>1 DEF Job, SamePass
<1>5. ApplyOnce(job', x)
  BY <1>1, <1>2, <1>4 DEF ApplyOnce, GivenUp
<1>6. PassInv(res, job', [fx EXCEPT ![job.gen] = x])
  BY <1>1, <1>2, <1>3, <1>4, <1>5, OneEffect DEF GivenUp, Working
<1> QED
  BY <1>1, <1>2, <1>6

LEMMA SettleStep == ASSUME PassInv(res, job, fx), SettleEffect
                    PROVE  PassInv(res', job', fx')
<1>1. PICK k \in {"settled", "requeue"} :
          job' = [job EXCEPT !.phase = "report", !.kind = k, !.fresh = TRUE]
  BY DEF SettleEffect
<1> DEFINE x == [fx[job.gen] EXCEPT !.rec = job.answer]
<1>2. /\ res' = res /\ job.phase = "settle" /\ job \in Job /\ res.here
      /\ job.gen \in Gens /\ job.late = "no" /\ job.keep
      /\ job.answer \in Final /\ fx[job.gen] \in Effect
      /\ EffectRow(fx[job.gen]) /\ fx \in [Gens -> Effect]
      /\ job.answer = "applied" => fx[job.gen].count = 1
  BY Facts DEF SettleEffect, At, GivenUp, Working, PassInv, ApplyOnce
<1>3. /\ x \in Effect /\ x.count = fx[job.gen].count
      /\ x.left = fx[job.gen].left /\ EffectRow(x)
  BY <1>2 DEF Effect, EffectRow, Final
<1>4. fx' = [fx EXCEPT ![job.gen] = x]
  BY <1>2 DEF SettleEffect
<1> HIDE DEF x
<1>5. job' \in Job
  BY <1>1, <1>2 DEF Job, Steps
<1>6. /\ SamePass(job', job) /\ job'.late = "no"
      /\ job'.phase = "report" /\ job'.answer = job.answer
  BY <1>1, <1>2 DEF Job, SamePass
<1>7. ApplyOnce(job', x)
  BY <1>2, <1>3, <1>6 DEF ApplyOnce
<1>8. PassInv(res, job', [fx EXCEPT ![job.gen] = x])
  BY <1>2, <1>3, <1>5, <1>6, <1>7, OneEffect DEF Working
<1> QED
  BY <1>2, <1>4, <1>8

-----------------------------------------------------------------------------
(* The beginning and the end of a pass, and of the server.                 *)

LEMMA BeginStep == ASSUME PassInv(res, job, fx), Begin
                   PROVE  PassInv(res', job', fx')
<1>1. /\ res' = res /\ job.phase = "start" /\ job \in Job /\ res.here
      /\ job.gen \in Gens /\ job.late = "no" /\ job.keep = job.fin
      /\ job.answer = "applied" => fx[job.gen].count = 1
  BY Facts DEF Begin, At, GivenUp
<1>2. CASE job.del
  <2>1. /\ fx' = [g \in Gens |-> [fx[g] EXCEPT !.left = FALSE]]
        /\ job' = [job EXCEPT !.phase = "report", !.keep = FALSE]
    BY <1>2 DEF Begin
  <2>2. job' \in Job
    BY <1>1, <2>1 DEF Job, Steps
  <2>3. /\ job'.gen = job.gen /\ job'.late = "no" /\ job'.keep = FALSE
        /\ job'.phase = "report" /\ job'.answer = job.answer
    BY <1>1, <2>1 DEF Job
  <2>4. \A g \in Gens : /\ fx'[g] \in Effect /\ fx'[g].count = fx[g].count
                        /\ fx'[g].rec = fx[g].rec /\ ~ fx'[g].left
    BY <2>1 DEF PassInv, Effect
  <2>5. fx' \in [Gens -> Effect]
    BY <2>1, <2>4
  <2>6. \A g \in Gens : EffectRow(fx'[g])
    BY <2>4 DEF PassInv, EffectRow
  <2>7. ApplyOnce(job', fx'[job'.gen])
    BY <1>1, <2>3, <2>4 DEF ApplyOnce
  <2>8. TrueStatus(res, fx')
    BY <2>4 DEF PassInv, TrueStatus
  <2>9. CleanDeletion(res, job', fx')
    BY <1>1, <2>3, <2>4 DEF CleanDeletion, Working
  <2> QED
    BY <1>1, <2>2, <2>5, <2>6, <2>7, <2>8, <2>9 DEF PassInv
<1>3. CASE ~ job.del /\ job.fin
  <2>1. fx' = fx /\ job' = [job EXCEPT !.phase = "ensure"]
    BY <1>3 DEF Begin
  <2>2. job' \in Job
    BY <1>1, <2>1 DEF Job, Steps
  <2>3. /\ SamePass(job', job) /\ job'.late = "no"
        /\ job'.phase = "ensure" /\ job'.answer = job.answer
    BY <1>1, <2>1 DEF Job, SamePass
  <2> QED
    BY <1>1, <1>3, <2>1, <2>2, <2>3, GoesOn
<1>4. CASE ~ job.del /\ ~ job.fin
  <2>1. /\ fx' = fx
        /\ job' = [job EXCEPT !.phase = "report", !.keep = TRUE,
                              !.kind = "requeue"]
    BY <1>4 DEF Begin
  <2>2. job' \in Job
    BY <1>1, <2>1 DEF Job, Steps
  <2>3. /\ job'.gen = job.gen /\ job'.late = "no" /\ job'.keep
        /\ job'.phase = "report" /\ job'.answer = job.answer
    BY <1>1, <2>1 DEF Job
  <2>4. ApplyOnce(job', fx[job'.gen])
    BY <1>1, <2>3 DEF ApplyOnce
  <2>5. CleanDeletion(res, job', fx)
    BY <1>1, <2>3 DEF CleanDeletion, Working
  <2> QED
    BY <1>1, <2>1, <2>2, <2>4, <2>5 DEF PassInv
<1> QED
  BY <1>2, <1>3, <1>4

\* A report is saved while its version is current; a deletion it completes
\* leaves nothing, for the pass that dropped the finalizer had cleaned up.
LEMMA FinishStep ==
    ASSUME PassInv(res, job, fx), child \in [Gens -> Child], Finish
    PROVE  PassInv(res', job', fx') /\ child' \in [Gens -> Child]
<1>1. /\ fx' = fx /\ job.phase = "report" /\ job \in Job /\ res.here
      /\ res \in Resource /\ job.gen \in Gens /\ job.late = "no"
      /\ job.answer = "applied" => fx[job.gen].count = 1
      /\ job' = [job EXCEPT !.phase = "exit"]
  BY Facts DEF Finish, At, GivenUp
<1>2. PassInv(res, job', fx)
  <2>1. job' = [job EXCEPT !.phase = "exit", !.late = InFlight]
    BY <1>1 DEF Job, InFlight
  <2> QED
    BY <2>1, <1>1, LeftRunning DEF GivenUp
<1>3. /\ job'.phase = "exit" /\ job'.late = "no"
  BY <1>1 DEF Job
<1>4. /\ Saved \in Resource /\ Saved.said = job.answer /\ Saved.seen = job.gen
      /\ Saved.fin = job.keep /\ Saved.here
  <2>1. job.gen \in Nat /\ job.keep \in BOOLEAN /\ job.answer \in Word
    BY <1>1, ResourceManagersAssumption DEF Job, Gens
  <2> QED
    BY <1>1, <2>1 DEF Saved, Resource
<1>5. TrueStatus(Saved, fx)
  BY <1>1, <1>4 DEF TrueStatus
<1>6. CASE ~ job.fresh
  BY <1>1, <1>2, <1>6 DEF Finish
<1>7. CASE job.fresh /\ ~ Deletes(Saved)
  <2>1. res' = Saved /\ child' = child
    BY <1>7 DEF Finish
  <2>2. CleanDeletion(Saved, job', fx)
    BY <1>2, <1>3, <1>4 DEF PassInv, CleanDeletion
  <2> QED
    BY <1>1, <1>2, <1>4, <1>5, <2>1, <2>2 DEF PassInv
<1>8. CASE job.fresh /\ Deletes(Saved)
  <2>1. /\ res' = [Saved EXCEPT !.here = FALSE]
        /\ child' = [g \in Gens |-> [child[g] EXCEPT !.rec = "none",
                                                     !.linked = FALSE]]
    BY <1>8 DEF Finish
  <2>2. child' \in [Gens -> Child]
    BY <2>1 DEF Child, ChildRecord
  <2> HIDE DEF Saved
  <2>3. /\ res' \in Resource /\ res'.said = Saved.said
        /\ res'.seen = Saved.seen
    BY <1>4, <2>1 DEF Resource
  <2>4. ~ job.keep
    BY <1>4, <1>8 DEF Deletes
  <2>5. \A g \in Gens : ~ fx[g].left
    BY <1>1, <2>4 DEF PassInv, CleanDeletion
  <2>6. CleanDeletion(res', job', fx)
    BY <1>3, <2>5 DEF CleanDeletion, Working
  <2>7. TrueStatus(res', fx)
    BY <1>5, <2>3 DEF TrueStatus
  <2>8. PassInv(res', job', fx)
    BY <1>2, <2>3, <2>6, <2>7 DEF PassInv
  <2> QED
    BY <1>1, <2>2, <2>8
<1> QED
  BY <1>6, <1>7, <1>8

\* A pass that is given up: it throws, runs out of time, is told that its
\* claim is lost, or loses its server.
LEMMA GiveUpStep ==
    ASSUME PassInv(res, job, fx), Fails \/ Failed \/ ClaimLost
    PROVE  PassInv(res', job', fx')
<1>1. /\ res' = res /\ fx' = fx /\ job \in Job
  BY Facts DEF Fails, Failed, ClaimLost
<1>2. CASE Fails
  <2>1. /\ job' = [job EXCEPT !.phase = "failed", !.late = InFlight]
        /\ res.here
    BY <1>2, Facts DEF Fails
  <2> QED
    BY <1>1, <2>1, LeftRunning DEF GivenUp
<1>3. CASE Failed
  <2>1. job' = [job EXCEPT !.phase = "exit"] /\ job.phase = "failed" /\ res.here
    BY <1>3, Facts DEF Failed, At
  <2>2. job' \in Job
    BY <1>1, <2>1 DEF Job, Steps
  <2>3. /\ SamePass(job', job) /\ job'.late = job.late
        /\ job'.phase = "exit" /\ job'.answer = job.answer
    BY <1>1, <2>1 DEF Job, SamePass
  <2>4. job'.phase \in GivenUp /\ job'.phase \notin Working
    BY <2>3 DEF GivenUp, Working
  <2> QED
    BY <1>1, <2>1, <2>2, <2>3, <2>4, Facts, GoesOn
<1>4. CASE ClaimLost
  <2>1. /\ job' = [job EXCEPT !.phase = "exit", !.late = InFlight]
        /\ res.here
    BY <1>4, Facts DEF ClaimLost, Active
  <2> QED
    BY <1>1, <2>1, LeftRunning DEF GivenUp
<1> QED
  BY <1>2, <1>3, <1>4

\* When the process is gone, so is what it was doing.
LEMMA NoPass ==
    ASSUME PassInv(res, job, fx), NEW y,
           y = [job EXCEPT !.phase = "none", !.late = "no"]
    PROVE  PassInv(res, y, fx)
<1>1. job \in Job /\ (job.answer = "applied" => fx[job.gen].count = 1)
  BY Facts
<1>2. y \in Job
  BY <1>1 DEF Job, Steps
<1>3. /\ SamePass(y, job) /\ y.late = "no" /\ y.phase = "none"
      /\ y.answer = job.answer
  BY <1>1 DEF Job, SamePass
<1>4. "none" \notin Working
  BY DEF Working
<1> QED
  BY <1>1, <1>2, <1>3, <1>4, GoesOn

LEMMA ServerStopStep ==
    ASSUME PassInv(res, job, fx), child \in [Gens -> Child],
           ServerDies \/ ServerStops \/ ServerStarts \/ RunnerExits \/ RunnerDies
    PROVE  PassInv(res', job', fx') /\ child' \in [Gens -> Child]
<1>1. /\ res' = res /\ fx' = fx /\ job \in Job /\ job.gen \in Gens
  BY Facts DEF ServerDies, ServerStops, ServerStarts, RunnerExits, RunnerDies,
               Exited
<1>4. ASSUME LastInsertions PROVE child' \in [Gens -> Child]
  <2>1. PICK S \in SUBSET Gens :
          child' = [g \in Gens |-> IF g \in S THEN [child[g] EXCEPT !.run = "queued"]
                                              ELSE child[g]]
    BY <1>4 DEF LastInsertions, Resolving
  <2>2. ASSUME NEW g \in Gens
        PROVE  child[g] \in Child /\ [child[g] EXCEPT !.run = "queued"] \in Child
    BY DEF Child
  <2> QED
    BY <2>1, <2>2
<1>2. CASE ServerDies
  <2>1. child' \in [Gens -> Child]
    BY <1>2, <1>4 DEF ServerDies
  <2>2. CASE Active
    <3>1. /\ job' = [job EXCEPT !.phase = "orphan", !.late = InFlight]
      BY <1>2, <2>2 DEF ServerDies
    <3>2. job.phase = "failed" => res.here
      BY Facts
    <3> QED
      BY <1>1, <2>1, <3>1, LeftRunning, <3>2 DEF GivenUp
  <2>3. CASE ~ Active
    <3>1. /\ job.phase = "none" \/ job.phase = "orphan"
          /\ job' = [job EXCEPT !.phase = job.phase, !.late = InFlight]
          /\ InFlight = job.late
      BY <1>2, <2>3 DEF ServerDies, Active, InFlight
    <3>2. job' = job
      BY <1>1, <3>1 DEF Job
    <3> QED
      BY <1>1, <2>1, <3>2
  <2> QED
    BY <2>2, <2>3
<1>3. CASE ServerStops \/ ServerStarts \/ RunnerExits \/ RunnerDies
  <2>1. job' = [job EXCEPT !.phase = "none", !.late = "no"]
    BY <1>3 DEF ServerStops, ServerStarts, RunnerExits, RunnerDies, Exited
  <2>2. child' \in [Gens -> Child]
    <3>1. LastInsertions \/ child' = child
      BY <1>3 DEF ServerStops, ServerStarts, RunnerExits, RunnerDies, Exited
    <3> QED
      BY <1>4, <3>1
  <2> QED
    BY <1>1, <2>1, <2>2, NoPass
<1> QED
  BY <1>2, <1>3

\* Clients, the delay of a key and the child run write beside the pass.
LEMMA BesideStep ==
    ASSUME PassInv(res, job, fx), child \in [Gens -> Child],
           ApplySpec \/ RequestDeletion \/ Reconcile \/ DelayEnds \/ LeaseExpires
           \/ (\E g \in Gens : ChildStops(g) \/ ChildResumes(g) \/ ChildCancelled(g))
    PROVE  PassInv(res', job', fx') /\ child' \in [Gens -> Child]
<1>1. /\ PassInv(res, Foreign(job), fx) /\ PassInv(res, Enqueued(job), fx)
  BY Marked
<1>2. PassInv(res, Enqueued(Foreign(job)), fx)
  BY <1>1, Marked
<1> HIDE DEF Foreign, Enqueued
<1>3. ASSUME NEW r \in Resource, NEW j, PassInv(res, j, fx),
             r.here = res.here, r.said = res.said, r.seen = res.seen
      PROVE  PassInv(r, j, fx)
  BY <1>3 DEF PassInv, TrueStatus, CleanDeletion
<1>4. CASE ApplySpec
  <2>1. /\ res' = [res EXCEPT !.gen = @ + 1] /\ child' = child /\ fx' = fx
        /\ job' = Enqueued(Foreign(job)) /\ res.gen < MaxGens
    BY <1>4 DEF ApplySpec
  <2>2. /\ res' \in Resource /\ res'.here = res.here /\ res'.said = res.said
        /\ res'.seen = res.seen
    BY <2>1, Facts, ResourceManagersAssumption DEF Resource, Gens
  <2> QED
    BY <1>2, <1>3, <2>1, <2>2
<1>5. CASE RequestDeletion
  <2>1. /\ res' = [res EXCEPT !.del = TRUE] /\ child' = child /\ fx' = fx
        /\ job' = Enqueued(Foreign(job))
    BY <1>5 DEF RequestDeletion
  <2>2. /\ res' \in Resource /\ res'.here = res.here /\ res'.said = res.said
        /\ res'.seen = res.seen
    BY <2>1, Facts DEF Resource
  <2> QED
    BY <1>2, <1>3, <2>1, <2>2
<1>6. CASE Reconcile
  BY <1>1, <1>6 DEF Reconcile
<1>7. CASE DelayEnds \/ LeaseExpires
  BY <1>7 DEF DelayEnds, LeaseExpires
<1>8. ASSUME NEW g \in Gens, ChildStops(g)
      PROVE  PassInv(res', job', fx') /\ child' \in [Gens -> Child]
  <2>1. PICK run \in {"done", "failed", "parked"} : Complete(g, run)
    BY <1>8 DEF ChildStops
  <2>2. Result(run) \in {"running", "waiting", "succeeded", "failed"}
    BY ResultIsChild
  <2> HIDE DEF Result
  <2>3. child' \in [Gens -> Child]
    <3>1. CASE child[g].linked
      BY <2>1, <2>2, <3>1 DEF Complete, Child, ChildRecord
    <3>2. CASE ~ child[g].linked
      BY <2>1, <2>2, <3>2 DEF Complete, Child, ChildRecord
    <3> QED
      BY <3>1, <3>2
  <2>4. PassInv(res, job', fx)
    BY <1>2, <2>1 DEF Complete
  <2> QED
    BY <1>8, <2>3, <2>4 DEF ChildStops
<1>9. ASSUME NEW g \in Gens, ChildResumes(g) \/ ChildCancelled(g)
      PROVE  PassInv(res', job', fx') /\ child' \in [Gens -> Child]
  <2>1. child' \in [Gens -> Child]
    BY <1>9 DEF ChildResumes, ChildCancelled, Child
  <2> QED
    BY <1>9, <2>1 DEF ChildResumes, ChildCancelled
<1> QED
  BY <1>4, <1>5, <1>6, <1>7, <1>8, <1>9

-----------------------------------------------------------------------------
(* The theorems.                                                           *)

LEMMA InitManagerInv == Init => ManagerInv
<1> SUFFICES ASSUME Init PROVE ManagerInv
  OBVIOUS
<1>1. 1 \in Gens
  BY ResourceManagersAssumption DEF Gens
<1>2. res \in Resource /\ res.here /\ res.said = "new"
  BY <1>1 DEF Init, Resource, Word
<1>3. /\ job \in Job /\ job.phase = "none" /\ job.late = "no"
      /\ job.answer = "new" /\ job.gen = 1
  BY <1>1 DEF Init, Pass, Job, Steps, Word
<1>4. /\ fx \in [Gens -> Effect]
      /\ \A g \in Gens : fx[g].count = 0 /\ fx[g].rec = "none"
  BY DEF Init, Effect
<1>5. child \in [Gens -> Child]
  BY DEF Init, Child, ChildRecord
<1>6. \A g \in Gens : EffectRow(fx[g])
  BY <1>4 DEF EffectRow
<1>7. ApplyOnce(job, fx[job.gen]) /\ TrueStatus(res, fx)
      /\ CleanDeletion(res, job, fx)
  BY <1>2, <1>3 DEF ApplyOnce, TrueStatus, CleanDeletion, Working
<1> QED
  BY <1>2, <1>3, <1>4, <1>5, <1>6, <1>7 DEF ManagerInv, PassInv

LEMMA ManagerInvStep == ManagerInv /\ [Next]_vars => ManagerInv'
<1> SUFFICES ASSUME ManagerInv, [Next]_vars PROVE ManagerInv'
  OBVIOUS
<1>1. PassInv(res, job, fx) /\ child \in [Gens -> Child]
  BY DEF ManagerInv
<1>2. ASSUME PassInv(res', job', fx') /\ child' \in [Gens -> Child]
      PROVE  ManagerInv'
  BY <1>2 DEF ManagerInv, PassInv, EffectRow, ApplyOnce, TrueStatus,
              CleanDeletion
<1>3. CASE UNCHANGED vars
  BY <1>1, <1>2, <1>3 DEF vars
<1>4. CASE Claim \/ ReserveEffect \/ SettleEffect \/ Failed \/ ClaimLost \/ Fails
           \/ Begin \/ ChildAnswered \/ ObserveEffect \/ ApplyEffect \/ LateApply
  <2>1. child' = child
    BY <1>4 DEF Claim, ReserveEffect, SettleEffect, Failed, ClaimLost, Fails,
                Begin, ChildAnswered, ObserveEffect, ApplyEffect, LateApply
  <2>2. PassInv(res', job', fx')
    BY <1>1, <1>4, ClaimStep, ReserveStep, SettleStep, GiveUpStep, BeginStep,
       AnsweredStep, ObserveStep, ApplyStep, LateStep
  <2> QED
    BY <1>1, <1>2, <2>1, <2>2
<1>5. CASE EnsureChild \/ Resolved \/ StrayResolved \/ Finish
  BY <1>1, <1>2, <1>5, EnsureStep, ResolvedStep, StrayStep, FinishStep
<1>6. CASE ServerDies \/ ServerStops \/ ServerStarts \/ RunnerExits \/ RunnerDies
  BY <1>1, <1>2, <1>6, ServerStopStep
<1>7. CASE ApplySpec \/ RequestDeletion \/ Reconcile \/ DelayEnds \/ LeaseExpires
           \/ (\E g \in Gens : ChildStops(g) \/ ChildResumes(g) \/ ChildCancelled(g))
  BY <1>1, <1>2, <1>7, BesideStep
<1> QED
  BY <1>3, <1>4, <1>5, <1>6, <1>7 DEF Next, ServerStep, ProcessStep, ClientStep,
                                      FaultStep

\* What a pass may assume of the effect records holds at every step.
THEOREM AlwaysManagerInv == Spec => []ManagerInv
BY InitManagerInv, ManagerInvStep, PTL DEF Spec

\* An effect reaches the other system at most once per key, for any number of
\* generations, timeouts, deaths and late applications (claimNext's exclude,
\* reapOrphans, the observation before a second apply).
THEOREM EffectsOnce == Spec => []EffectOnce
<1>1. ManagerInv => EffectOnce
  BY DEF ManagerInv, PassInv, EffectRow, EffectOnce
<1> QED
  BY <1>1, AlwaysManagerInv, PTL

\* A status that says applied names a generation whose effect was applied,
\* though the spec changed during the pass (applyStatusPatch).
THEOREM StatusIsTrue == Spec => []AppliedIsTrue
<1>1. ManagerInv => AppliedIsTrue
  BY DEF ManagerInv, PassInv, TrueStatus, AppliedIsTrue
<1> QED
  BY <1>1, AlwaysManagerInv, PTL

\* A resource that is gone has left no effect behind and none under way
\* (deleteResource, replaceFinalizers).
THEOREM DeletionIsClean == Spec => []GoneLeavesNothing
<1>1. ManagerInv => GoneLeavesNothing
  BY DEF ManagerInv, PassInv, CleanDeletion, GoneLeavesNothing
<1> QED
  BY <1>1, AlwaysManagerInv, PTL
=============================================================================
