---------------------------- MODULE CommandOnce ----------------------------
(***************************************************************************)
(* What the command log promises a client, whatever is lost, repeated or   *)
(* crashed in between: a command is decided once, an accepted command has  *)
(* its effect in the same step, and of the commands that share an          *)
(* idempotency key at most one is ever decided.                            *)
(***************************************************************************)
EXTENDS Naturals

CONSTANTS Commands,        \* commands, each with its payload
          Twins            \* commands that reuse one idempotency key

VARIABLES decided,         \* decided[c]: "open", "accepted" or "rejected"
          effect           \* effect[c]: how often the operation took effect

Init ==
    /\ decided = [c \in Commands |-> "open"]
    /\ effect = [c \in Commands |-> 0]

Decide(c, outcome) ==
    /\ decided[c] = "open"
    /\ c \in Twins => \A d \in Twins : decided[d] = "open"
    /\ decided' = [decided EXCEPT ![c] = outcome]
    /\ effect' = [effect EXCEPT ![c] = IF outcome = "accepted" THEN 1 ELSE 0]

Next == \E c \in Commands, outcome \in {"accepted", "rejected"} :
            Decide(c, outcome)

Spec == Init /\ [][Next]_<<decided, effect>>
=============================================================================
