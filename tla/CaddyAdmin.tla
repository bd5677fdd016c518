----------------------------- MODULE CaddyAdmin -----------------------------
(***************************************************************************)
(* The part of Caddy the relay relies on: srv0's routes array and what the *)
(* admin API does to it.  Caddy is not in this repository; these operators *)
(* say what the relay's requests (main.go) take for granted.               *)
(*                                                                         *)
(* A route is the pair of its "@id" and the upstream it dials.  Forward    *)
(* routes are named by the host they match ("route-<fqdn>"); the one       *)
(* catch-all answers 404 for every host one label below the endpoint.      *)
(***************************************************************************)
EXTENDS Naturals, SequencesExt

CONSTANTS
  Names,               \* host names a forward can be served under
  ChildWildcards,      \* the names "*.svc--user", not under the catch-all
  Sockets,             \* unix sockets a route can dial
  CatchAll,            \* the id of the catch-all route
  NoSocket,            \* what the catch-all dials
  RejectDuplicateIds   \* whether this Caddy refuses a second object with an id

ASSUME CaddyAssumption ==
  /\ ChildWildcards \subseteq Names
  /\ CatchAll \notin Names
  /\ NoSocket \notin Sockets
  /\ RejectDuplicateIds \in BOOLEAN

Route == [id : Names \cup {CatchAll}, dial : Sockets \cup {NoSocket}]

CatchAllRoute == [id |-> CatchAll, dial |-> NoSocket]

\* GET /id/<id> answers 200.
HasId(rs, id) == \E i \in DOMAIN rs : rs[i].id = id

\* The position the id index points at: the last object carrying the id.
LastWithId(rs, id) ==
  CHOOSE i \in DOMAIN rs : /\ rs[i].id = id
                           /\ \A j \in DOMAIN rs : rs[j].id = id => j <= i

\* DELETE /id/<id>: 404, and no change, when there is no such object.
DeleteId(rs, id) ==
  IF HasId(rs, id) THEN RemoveAt(rs, LastWithId(rs, id)) ELSE rs

\* POST to the routes array is refused when the id is already taken, in the
\* Caddy versions that check.
Appendable(rs, id) == RejectDuplicateIds => ~HasId(rs, id)

\* The routes that match a host, and the one Caddy uses: the first ("terminal").
MatchingRoutes(rs, name) ==
  {i \in DOMAIN rs : \/ rs[i].id = name
                     \/ rs[i].id = CatchAll /\ name \notin ChildWildcards}

DialedFor(rs, name) ==
  LET m == MatchingRoutes(rs, name)
  IN  IF m = {} THEN NoSocket
      ELSE rs[CHOOSE i \in m : \A j \in m : i <= j].dial
=============================================================================
