---------------------------- MODULE MCAcceptLoop ----------------------------
(* A small instance of AcceptLoop.                                         *)
EXTENDS AcceptLoop

CONSTANTS c1, c2, c3, c4
=============================================================================
