----------------------------- MODULE MCRunStore -----------------------------
(* RunStore on small instances: one run under claims that two servers      *)
(* take, lose and steal, or three runs of one Pi session that reserve,     *)
(* restart and are claimed once each.                                      *)
EXTENDS RunStore, TLC, FiniteSets

\* No transaction tells runs or servers apart but by their rows.
StoreSymmetry == Permutations(Runs) \cup Permutations(Owners)

\* Bounds of the instance: the product of the two cases is left out.
OneRun       == Cardinality({r \in Runs : run[r].status # "none"}) <= 1
OneClaimEach == /\ \A r \in Runs : run[r].gen <= 1
                /\ Cardinality({run[r].owner : r \in Runs} \ {None}) <= 1

StoreBound == OneRun \/ OneClaimEach
=============================================================================
