--------------------------- MODULE MCTunnelClient ---------------------------
(* Small instances of TunnelClient.                                         *)
EXTENDS TunnelClient

CONSTANTS k1, k2, k3
=============================================================================
