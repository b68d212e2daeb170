------------------------------- MODULE Prune -------------------------------
(***************************************************************************)
(* State retention: the manual prune, which waits for a backup between its *)
(* selection and its deletion, and the automatic prune of an idle server,  *)
(* which yields between run trees, against runs that start, are restarted, *)
(* exchange content with their runners and end.                            *)
(*                                                                         *)
(* A run stands for itself and every row that goes with it.  What blocks a *)
(* tree (queue rows, attempts, requests, messages, effects, ...) is the run*)
(* being live, or its terminal message not being sent yet.                 *)
(***************************************************************************)
EXTENDS Integers, FiniteSets

CONSTANTS None, PrunedRuns, Blobs,
          MaxPruneCrashes      \* bound: crashes of the server

VARIABLES run,        \* rows of each run: status, age, restarted run, terminal message, blob
          blobs,      \* stored blobs
          held,       \* contentDigests of the active runner of each run, None without one
          prune,      \* the prune in progress
          lockFile,   \* <database>.maintenance.lock exists
          pruneCrashes

pruneVars == <<run, blobs, held, prune, lockFile, pruneCrashes>>

Absent == [status |-> "absent", old |-> FALSE, parent |-> None, told |-> FALSE, blob |-> None]
NoPrune == [mode |-> "none", trees |-> {}, old |-> {}]

\* Nothing, or one run that ended long ago.
PruneInit ==
    /\ \E r \in PrunedRuns, b \in Blobs :
         /\ run \in {[q \in PrunedRuns |-> Absent],
                     [q \in PrunedRuns |-> IF q # r THEN Absent
                        ELSE [status |-> "ended", old |-> TRUE, parent |-> None, told |-> TRUE,
                              blob |-> b]]}
         /\ blobs \in {{b}, {}} /\ (blobs = {}) = (run[r] = Absent)
    /\ held = [q \in PrunedRuns |-> None]
    /\ prune = NoPrune /\ lockFile = FALSE /\ pruneCrashes = 0

Present(r) == run[r].status \in {"live", "ended"}
Active(r) == held[r] # None
Eligible(r, old) == run[r].status = "ended" /\ r \in old
Blocked(r) == run[r].status = "live" \/ ~run[r].told

\* selectRunTrees: linked runs are one tree.  With at most one restart of a run
\* a tree is a chain of restarts.
Linked(r, q) == run[r].parent = q \/ run[q].parent = r
Closed(t) == \A r \in t, q \in PrunedRuns : Present(q) /\ Linked(r, q) => q \in t
Tree(r) ==
    CHOOSE t \in SUBSET PrunedRuns :
       /\ r \in t /\ Closed(t)
       /\ \A u \in SUBSET PrunedRuns : r \in u /\ Closed(u) => t \subseteq u
Selected(old) ==
    {t \in {Tree(r) : r \in {q \in PrunedRuns : Present(q)}} :
       \A r \in t : Eligible(r, old) /\ ~Blocked(r)}

-----------------------------------------------------------------------------
Serving == UNCHANGED <<prune, lockFile, pruneCrashes>>

\* A run starts, or a terminal run is restarted once; its rows cite a blob.
StartRun(r) ==
    /\ run[r].status = "absent"
    /\ \E p \in {None} \cup {q \in PrunedRuns : run[q].status = "ended"}, b \in Blobs :
         /\ p = None \/ \A q \in PrunedRuns : run[q].parent # p
         /\ run' = [run EXCEPT ![r] = [Absent EXCEPT !.status = "live", !.parent = p, !.blob = b]]
         /\ blobs' = blobs \cup {b}
    /\ UNCHANGED held /\ Serving

ClaimRun(r) ==
    /\ run[r].status = "live" /\ ~Active(r)
    /\ held' = [held EXCEPT ![r] = {}]
    /\ UNCHANGED <<run, blobs>> /\ Serving

\* boundRunnerResponse: a large answer is stored as a blob no row refers to.
SendContent(r) ==
    /\ Active(r)
    /\ \E b \in Blobs : blobs' = blobs \cup {b} /\ held' = [held EXCEPT ![r] = @ \cup {b}]
    /\ UNCHANGED run /\ Serving

\* The runner commits a change: the run's rows cite another blob, put in the
\* same transaction.
CommitRows(r) ==
    /\ Active(r)
    /\ \E b \in Blobs : run' = [run EXCEPT ![r].blob = b] /\ blobs' = blobs \cup {b}
    /\ UNCHANGED held /\ Serving

\* The runner exits: the run has ended, at a time that a manual prune may take
\* for old, or goes on later.
RunnerExits(r) ==
    /\ Active(r) /\ held' = [held EXCEPT ![r] = None]
    /\ \/ run' = run
       \/ \E old \in BOOLEAN : run' = [run EXCEPT ![r].status = "ended", ![r].old = old]
    /\ UNCHANGED blobs /\ Serving

SendTerminal(r) ==
    /\ run[r].status = "ended" /\ ~run[r].told
    /\ run' = [run EXCEPT ![r].told = TRUE]
    /\ UNCHANGED <<blobs, held>> /\ Serving

Ages(r) ==
    /\ run[r].status = "ended" /\ ~run[r].old
    /\ run' = [run EXCEPT ![r].old = TRUE]
    /\ UNCHANGED <<blobs, held>> /\ Serving

-----------------------------------------------------------------------------
Old == {r \in PrunedRuns : run[r].old}
ServerIdle == \A r \in PrunedRuns : ~Active(r)
Without(runs) ==
    [r \in PrunedRuns |-> IF r \notin runs THEN run[r]
                         ELSE [Absent EXCEPT !.status = "deleted", !.told = run[r].told]]

\* Blobs that a foreign key cites, or that an active runner may still read.
Kept(rows) ==
    {b \in blobs : \/ \E r \in PrunedRuns : rows[r].blob = b
                   \/ \E r \in PrunedRuns : Active(r) /\ b \in held[r]}

\* pruneState up to the backup, after any automatic prune.
SelectManually ==
    /\ prune.mode = "none" /\ ~lockFile
    /\ prune' = [mode |-> "manual", trees |-> Selected(Old), old |-> Old] /\ lockFile' = TRUE
    /\ UNCHANGED <<run, blobs, held, pruneCrashes>>

\* Variant: what was selected before the backup is deleted.
SelectionStands == TRUE

\* The recheck in the transaction of the deletion.
SameSelection == Selected(prune.old) = prune.trees

DeleteManually ==
    /\ prune.mode = "manual"
    /\ IF SameSelection
       THEN run' = Without(UNION prune.trees) /\ blobs' = Kept(run')
       ELSE UNCHANGED <<run, blobs>>
    /\ prune' = NoPrune /\ lockFile' = FALSE
    /\ UNCHANGED <<held, pruneCrashes>>

\* The next tree of an automatic prune, or the blobs when none is left.
DeleteTree(t, old) ==
    /\ run' = Without(t) /\ blobs' = blobs /\ lockFile' = TRUE
    /\ prune' = [mode |-> "auto", trees |-> IF prune.mode = "auto" THEN prune.trees \ {t}
                                            ELSE Selected(old) \ {t}, old |-> old]
DeleteBlobs == blobs' = Kept(run) /\ prune' = NoPrune /\ lockFile' = FALSE /\ run' = run

\* pruneStateAutomatically of an idle server, up to its first yield.
StartAutomatic ==
    /\ prune.mode = "none" /\ ~lockFile /\ ServerIdle
    /\ IF Selected(Old) = {} THEN DeleteBlobs ELSE \E t \in Selected(Old) : DeleteTree(t, Old)
    /\ UNCHANGED <<held, pruneCrashes>>

\* After a yield: the next tree, if it is still the same and the server still
\* idle.  Otherwise, and for other work of the server, the sweep stops.
ContinueAutomatic ==
    /\ prune.mode = "auto"
    /\ \/ /\ ServerIdle
          /\ \/ prune.trees = {} /\ DeleteBlobs
             \/ \E t \in prune.trees \cap Selected(prune.old) : DeleteTree(t, prune.old)
       \/ prune' = NoPrune /\ lockFile' = FALSE /\ UNCHANGED <<run, blobs>>
    /\ UNCHANGED <<held, pruneCrashes>>

\* The server dies and another one recovers.  Nothing removes the lock file.
CrashInPrune ==
    /\ pruneCrashes < MaxPruneCrashes /\ pruneCrashes' = pruneCrashes + 1
    /\ held' = [r \in PrunedRuns |-> None] /\ prune' = NoPrune
    /\ UNCHANGED <<run, blobs, lockFile>>

PruneNext ==
    \/ \E r \in PrunedRuns :
         \/ StartRun(r) \/ ClaimRun(r) \/ SendContent(r) \/ CommitRows(r) \/ RunnerExits(r)
         \/ SendTerminal(r) \/ Ages(r)
    \/ SelectManually \/ DeleteManually \/ StartAutomatic \/ ContinueAutomatic
    \/ CrashInPrune

-----------------------------------------------------------------------------
\* A prune takes nothing that is in use: every blob that a row cites or an
\* active runner was promised is there, no run outlives the run it restarts,
\* and a deleted run had told its session how it ended (WORKFLOW_SERVER.md:
\* "cannot partly delete a lineage tree or remove a referenced blob").
PruneKeepsWhatIsUsed ==
    \A r \in PrunedRuns :
      /\ Present(r) => run[r].blob \in blobs
      /\ Active(r) => held[r] \subseteq blobs
      /\ Present(r) /\ run[r].parent # None => Present(run[r].parent)
      /\ run[r].status = "deleted" => run[r].told
=============================================================================
