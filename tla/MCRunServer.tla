---------------------------- MODULE MCRunServer ----------------------------
(* RunServer on small instances: one run driven by two servers, the second *)
(* a restart or a takeover, or two runs of one Pi session under one server *)
(* which claims each twice at most.                                        *)
EXTENDS RunServer, TLC, FiniteSets

\* No step tells runs or servers apart but by their rows and memory.
ServerSymmetry == Permutations(Runs) \cup Permutations(Owners)

\* Bounds of the instance: the product of the two cases is left out.
OneRun    == Cardinality({r \in Runs : run[r].status # "none"}) <= 1
OneServer == /\ \A r \in Runs : run[r].gen <= 2
             /\ Cardinality({o \in Owners : server[o] # "new"}) <= 1

ServerBound == OneRun \/ OneServer
=============================================================================
