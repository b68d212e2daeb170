---------------------------- MODULE MCBuiltinRuns ----------------------------
(* BuiltinRuns on a small instance: two checks, two plans, one replan that  *)
(* the policy allows and a person who asks for three; a monitor of two      *)
(* faults and four observations; groups of up to three agents; a repository *)
(* with a default branch and two more.                                      *)
EXTENDS BuiltinRuns

CONSTANTS c1, c2

MCChecks  == {c1, c2}
MCResults == [c \in MCChecks |-> IF c = c1 THEN {"passed", "failed", "incomplete"}
                                 ELSE {"passed", "failed"}]
MCBranches == {"main", "release", "topic"}
=============================================================================
