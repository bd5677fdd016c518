-------------------------- MODULE MCTunnelSplice --------------------------
(* Small instances of TunnelSplice: a request, and an answer of two chunks. *)
EXTENDS TunnelSplice

Chunks == [e \in Ends |-> IF e = "caddy" THEN 1 ELSE 2]
=============================================================================
