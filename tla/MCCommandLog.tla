---------------------------- MODULE MCCommandLog ----------------------------
(* CommandLog on a small instance: a transaction and a maintenance command *)
(* of one client under one idempotency key, on two servers, the second of  *)
(* which may take over from the first while that one still lives.          *)
EXTENDS CommandLog
=============================================================================
