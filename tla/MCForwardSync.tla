--------------------------- MODULE MCForwardSync ---------------------------
(* Small instances of ForwardSync.                                         *)
EXTENDS ForwardSync

CONSTANTS s1, s2, app, db, web, alice, appAlice, dbAlice, webAlice

\* Two sessions of one user: a client that reconnects before the relay has
\* noticed that its old connection is gone.  s1's key is for one service only.
OneUser == [s \in Sessions |-> alice]
NarrowAndWide == s1 :> {app} @@ s2 :> Services

\* Keys for every service.
Everything == [s \in Sessions |-> Services]

HostsOfOne == <<app, alice>> :> appAlice @@ <<db, alice>> :> dbAlice
HostsOfOne1 == <<app, alice>> :> appAlice
HostsOfOne3 == HostsOfOne @@ <<web, alice>> :> webAlice
=============================================================================
