----------------------------- MODULE MCKeyAuth -----------------------------
(* Small instances of KeyAuth.                                             *)
EXTENDS KeyAuth, TLC

CONSTANTS h1, h2, d1, k1, app, db

\* Both handshakes are one identity's: they share a cache entry.
SameDid == [h \in Handshakes |-> d1]
SameKey == [h \in Handshakes |-> k1]
\* A record of each service on a page of its own.
PageBySvc == [r \in Record |-> IF r.svc = app THEN 1 ELSE 2]
\* Then they are interchangeable.
Interchangeable == Permutations(Handshakes)
=============================================================================
