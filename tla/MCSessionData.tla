---------------------------- MODULE MCSessionData ----------------------------
(* SessionData on a small instance.  Requests for settings: one that fits   *)
(* any document, one that fits the first, and one that expects change 1.    *)
EXTENDS SessionData

MCContents == {[patch |-> [test |-> None, set |-> 1], expected |-> None],
               [patch |-> [test |-> 0, set |-> 2], expected |-> None],
               [patch |-> [test |-> None, set |-> 1], expected |-> 1]}
=============================================================================
