--------------------------- MODULE MCWebSessions ---------------------------
(* Small instances of WebSessions.                                         *)
EXTENDS WebSessions, TLC

CONSTANTS did, old, new, r1, r2

\* One identity logs in twice.
OneDid == old :> did @@ new :> did
RequestSymmetry == Permutations(Requests)
=============================================================================
