-------------------------- MODULE MCTlsAutomation --------------------------
(* Small instances of TlsAutomation.                                       *)
EXTENDS TlsAutomation, TLC

CONSTANTS s1, s2, wildcard, child1, child2, static

\* Two sessions with child wildcards of their own.
TwoChildren == s1 :> child1 @@ s2 :> child2
=============================================================================
