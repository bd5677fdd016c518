-------------------------- MODULE ForwardSyncProofs --------------------------
(* Proofs about ForwardSync: for any number of sessions, users, services    *)
(* and requests, any Caddy, and any number of faults and restarts.  First    *)
(* what the operators of CaddyAdmin do to a routes array, for every array;   *)
(* then the registry and who a route belongs to; then the refinement; and    *)
(* last, that an announced forward is served.                               *)
EXTENDS ForwardSync, SequenceTheorems, WellFoundedInduction, TLAPS

(* A non-empty set of positions of a sequence has a last one.              *)
LEMMA LastPositionExists ==
  ASSUME NEW n \in Nat, NEW I \in SUBSET (1..n), I # {}
  PROVE  \E i \in I : \A j \in I : j <= i
<1> DEFINE Below == OpToRel(<, Nat)
           D == {n - i : i \in I}
<1>1. D \subseteq Nat /\ D # {}
  <2>1. \A i \in I : n - i \in Nat
    OBVIOUS
  <2>2. PICK i \in I : TRUE
    OBVIOUS
  <2>3. n - i \in D
    OBVIOUS
  <2> QED  BY <2>1, <2>3
<1>2. PICK d \in D : \A e \in D : ~(<<e, d>> \in Below)
  <2> HIDE DEF D, Below
  <2> QED  BY <1>1, WFMin, NatLessThanWellFounded DEF Below
<1>3. PICK i \in I : d = n - i
  OBVIOUS
<1>4. ASSUME NEW j \in I PROVE j <= i
  <2>1. n - j \in D
    OBVIOUS
  <2>2. ~(<<n - j, d>> \in Below)
    BY <1>2, <2>1
  <2>3. ~(n - j < d)
    BY <2>2, <1>1, <2>1 DEF OpToRel
  <2> QED  BY <2>3, <1>3
<1> QED  BY <1>4

LEMMA LastWithIdExists ==
  ASSUME NEW rs \in Seq(Route), NEW id, HasId(rs, id)
  PROVE  \E i \in DOMAIN rs : /\ rs[i].id = id
                              /\ \A j \in DOMAIN rs : rs[j].id = id => j <= i
<1> DEFINE I == {i \in DOMAIN rs : rs[i].id = id}
<1>1. Len(rs) \in Nat /\ DOMAIN rs = 1..Len(rs)
  OBVIOUS
<1>2. I \in SUBSET (1..Len(rs)) /\ I # {}
  BY <1>1 DEF HasId
<1>3. PICK i \in I : \A j \in I : j <= i
  <2> HIDE DEF I
  <2> QED  BY <1>1, <1>2, LastPositionExists
<1> QED  BY <1>3

LEMMA LastWithIdInDomain ==
  ASSUME NEW rs \in Seq(Route), NEW id, HasId(rs, id)
  PROVE  LastWithId(rs, id) \in 1..Len(rs)
<1>1. DOMAIN rs = 1..Len(rs)
  OBVIOUS
<1> QED  BY <1>1, LastWithIdExists DEF LastWithId

(* DeleteId takes one position out and moves those behind it up.           *)
LEMMA DeleteIdShifts ==
  ASSUME NEW rs \in Seq(Route), NEW id, HasId(rs, id)
  PROVE  \E p \in 1..Len(rs) :
           /\ rs[p].id = id
           /\ DeleteId(rs, id) \in Seq(Route)
           /\ DOMAIN DeleteId(rs, id) = 1..(Len(rs) - 1)
           /\ \A i \in 1..(Len(rs) - 1) :
                /\ i < p => DeleteId(rs, id)[i] = rs[i]
                /\ i >= p => DeleteId(rs, id)[i] = rs[i + 1]
<1> DEFINE p == LastWithId(rs, id)
           front == SubSeq(rs, 1, p - 1)
           back == SubSeq(rs, p + 1, Len(rs))
<1>1. p \in 1..Len(rs) /\ Len(rs) \in Nat
  BY LastWithIdInDomain
<1>2. rs[p].id = id
  <2>1. PICK i \in DOMAIN rs : /\ rs[i].id = id
                               /\ \A j \in DOMAIN rs : rs[j].id = id => j <= i
    BY LastWithIdExists
  <2> QED  BY <2>1 DEF LastWithId
<1>3. DeleteId(rs, id) = front \o back
  BY DEF DeleteId, RemoveAt
<1> HIDE DEF p
<1>4. /\ front \in Seq(Route) /\ Len(front) = p - 1
      /\ \A i \in 1..(p - 1) : front[i] = rs[i]
  BY <1>1, SubSeqProperties
<1>5. /\ back \in Seq(Route) /\ Len(back) = Len(rs) - p
      /\ \A i \in 1..(Len(rs) - p) : back[i] = rs[p + i]
  BY <1>1, SubSeqProperties
<1> HIDE DEF front, back
<1>6. /\ front \o back \in Seq(Route)
      /\ Len(front \o back) = Len(front) + Len(back)
      /\ \A i \in 1..(Len(front) + Len(back)) : (front \o back)[i] =
           IF i <= Len(front) THEN front[i] ELSE back[i - Len(front)]
  BY <1>4, <1>5, ConcatProperties
<1>7. front \o back \in Seq(Route) /\ DOMAIN (front \o back) = 1..(Len(rs) - 1)
  BY <1>1, <1>4, <1>5, <1>6
<1>8. ASSUME NEW i \in 1..(Len(rs) - 1), i < p
      PROVE  (front \o back)[i] = rs[i]
  BY <1>8, <1>1, <1>4, <1>5, <1>6
<1>9. ASSUME NEW i \in 1..(Len(rs) - 1), i >= p
      PROVE  (front \o back)[i] = rs[i + 1]
  <2>1. i - (p - 1) \in 1..(Len(rs) - p) /\ p + (i - (p - 1)) = i + 1
    BY <1>9, <1>1
  <2>2. (front \o back)[i] = back[i - (p - 1)]
    BY <1>9, <1>1, <1>4, <1>5, <1>6
  <2>3. back[i - (p - 1)] = rs[p + (i - (p - 1))]
    BY <2>1, <1>5
  <2> QED  BY <2>1, <2>2, <2>3
<1> QED  BY <1>1, <1>2, <1>3, <1>7, <1>8, <1>9

(* Deleting by id leaves a routes array whose routes were there before.    *)
LEMMA DeleteIdKeepsRoutes ==
  ASSUME NEW rs \in Seq(Route), NEW id
  PROVE  /\ DeleteId(rs, id) \in Seq(Route)
         /\ \A i \in DOMAIN DeleteId(rs, id) :
              \E j \in DOMAIN rs : DeleteId(rs, id)[i] = rs[j]
<1>1. CASE ~HasId(rs, id)
  BY <1>1 DEF DeleteId
<1>2. CASE HasId(rs, id)
  <2> DEFINE ds == DeleteId(rs, id)
             n == Len(rs)
  <2>1. PICK p \in 1..n :
           /\ rs[p].id = id
           /\ ds \in Seq(Route)
           /\ DOMAIN ds = 1..(n - 1)
           /\ \A i \in 1..(n - 1) : /\ i < p => ds[i] = rs[i]
                                    /\ i >= p => ds[i] = rs[i + 1]
    BY <1>2, DeleteIdShifts
  <2>2. n \in Nat /\ DOMAIN rs = 1..n
    OBVIOUS
  <2> HIDE DEF ds, n
  <2>3. ASSUME NEW i \in DOMAIN ds PROVE \E j \in DOMAIN rs : ds[i] = rs[j]
    <3>1. i \in DOMAIN rs /\ i + 1 \in DOMAIN rs
      BY <2>1, <2>2, <2>3
    <3> QED  BY <2>1, <2>2, <2>3, <3>1
  <2> QED  BY <2>1, <2>3 DEF ds
<1> QED  BY <1>1, <1>2

(* Every id at most once; and where one id's routes stand before another's. *)
IdsDistinct(rs) == \A i, j \in DOMAIN rs : rs[i].id = rs[j].id => i = j

Precedes(rs, first, second) ==
  \A i, j \in DOMAIN rs : rs[i].id = first /\ rs[j].id = second => i < j

(* What a deletion by id keeps: ids stay distinct, other routes stay, in    *)
(* their order; and of distinct ids the deleted one is gone.                *)
LEMMA DeleteIdKeeps ==
  ASSUME NEW rs \in Seq(Route), NEW id
  PROVE  /\ IdsDistinct(rs) => /\ IdsDistinct(DeleteId(rs, id))
                               /\ ~HasId(DeleteId(rs, id), id)
         /\ \A other : ~HasId(rs, other) => ~HasId(DeleteId(rs, id), other)
         /\ \A r \in Route : Contains(rs, r) /\ r.id # id => Contains(DeleteId(rs, id), r)
         /\ \A first, second : Precedes(rs, first, second)
                                 => Precedes(DeleteId(rs, id), first, second)
<1>1. CASE ~HasId(rs, id)
  BY <1>1 DEF DeleteId
<1>2. CASE HasId(rs, id)
  <2> DEFINE ds == DeleteId(rs, id)
             n == Len(rs)
  <2>1. n \in Nat /\ DOMAIN rs = 1..n
    OBVIOUS
  <2>2. PICK p \in 1..n :
           /\ rs[p].id = id
           /\ DOMAIN ds = 1..(n - 1)
           /\ \A i \in 1..(n - 1) : /\ i < p => ds[i] = rs[i]
                                    /\ i >= p => ds[i] = rs[i + 1]
    BY <1>2, DeleteIdShifts
  <2>9. ds \in Seq(Route) /\ DOMAIN ds = 1..Len(ds)
    BY DeleteIdKeepsRoutes
  <2> HIDE DEF ds, n
  <2> DEFINE From(i) == IF i < p THEN i ELSE i + 1
  <2>3. \A i \in 1..(n - 1) : From(i) \in (1..n) \ {p} /\ ds[i] = rs[From(i)]
    BY <2>1, <2>2
  <2>8. \A i, j \in 1..(n - 1) : (From(i) = From(j) => i = j) /\ (From(i) < From(j) => i < j)
    BY <2>1, <2>2
  <2> HIDE DEF From
  <2>4. ASSUME IdsDistinct(rs) PROVE IdsDistinct(ds) /\ ~HasId(ds, id)
    <3>1. IdsDistinct(ds)
      BY <2>1, <2>2, <2>3, <2>4, <2>8 DEF IdsDistinct
    <3>2. ~HasId(ds, id)
      BY <2>1, <2>2, <2>3, <2>4 DEF IdsDistinct, HasId
    <3> QED  BY <3>1, <3>2
  <2>5. ASSUME NEW other, ~HasId(rs, other) PROVE ~HasId(ds, other)
    BY <2>1, <2>2, <2>3, <2>5 DEF HasId
  <2>6. ASSUME NEW r \in Route, Contains(rs, r), r.id # id PROVE Contains(ds, r)
    <3>1. PICK j \in 1..n : rs[j] = r
      BY <2>6, <2>1 DEF Contains
    <3>2. j # p
      BY <3>1, <2>6, <2>2
    <3>3. CASE j < p
      <4>1. j \in 1..(n - 1) /\ ds[j] = rs[j]
        BY <3>1, <3>3, <2>1, <2>2
      <4> QED  BY <4>1, <3>1, <2>2, <2>9 DEF Contains
    <3>4. CASE j > p
      <4>1. j - 1 \in 1..(n - 1) /\ j - 1 >= p /\ (j - 1) + 1 = j
        BY <3>1, <3>4, <2>1
      <4>2. ds[j - 1] = r
        BY <4>1, <3>1, <2>2
      <4> QED  BY <4>1, <4>2, <2>2, <2>9 DEF Contains
    <3> QED  BY <3>2, <3>3, <3>4, <2>1
  <2>7. ASSUME NEW first, NEW second, Precedes(rs, first, second)
        PROVE  Precedes(ds, first, second)
    BY <2>1, <2>2, <2>3, <2>7, <2>8 DEF Precedes
  <2> QED  BY <2>4, <2>5, <2>6, <2>7 DEF ds
<1> QED  BY <1>1, <1>2

(* What appending keeps, and what it adds.                                 *)
LEMMA AppendKeeps ==
  ASSUME NEW rs \in Seq(Route), NEW r \in Route
  PROVE  /\ Contains(Append(rs, r), r)
         /\ IdsDistinct(rs) /\ ~HasId(rs, r.id) => IdsDistinct(Append(rs, r))
         /\ \A other : ~HasId(rs, other) /\ other # r.id => ~HasId(Append(rs, r), other)
         /\ \A q : Contains(rs, q) => Contains(Append(rs, r), q)
         /\ \A first, second :
              /\ Precedes(rs, first, second)
              /\ first # second
              /\ r.id = first => ~HasId(rs, second)
              => Precedes(Append(rs, r), first, second)
<1> DEFINE ap == Append(rs, r)
           n == Len(rs)
<1>1. /\ n \in Nat /\ DOMAIN rs = 1..n /\ DOMAIN ap = 1..(n + 1)
      /\ ap[n + 1] = r /\ \A i \in 1..n : ap[i] = rs[i]
  BY AppendProperties
<1> HIDE DEF ap, n
<1>2. Contains(ap, r)
  BY <1>1 DEF Contains
<1>3. ASSUME IdsDistinct(rs), ~HasId(rs, r.id) PROVE IdsDistinct(ap)
  BY <1>1, <1>3 DEF IdsDistinct, HasId
<1>4. ASSUME NEW other, ~HasId(rs, other), other # r.id PROVE ~HasId(ap, other)
  BY <1>1, <1>4 DEF HasId
<1>5. ASSUME NEW q, Contains(rs, q) PROVE Contains(ap, q)
  BY <1>1, <1>5 DEF Contains
<1>6. ASSUME NEW first, NEW second, Precedes(rs, first, second), first # second,
             r.id = first => ~HasId(rs, second)
      PROVE  Precedes(ap, first, second)
  BY <1>1, <1>6 DEF Precedes, HasId
<1> QED  BY <1>2, <1>3, <1>4, <1>5, <1>6 DEF ap

(* With distinct ids, the route that stands before the catch-all is the one *)
(* its host is answered from.                                              *)
LEMMA FirstIsDialed ==
  ASSUME NEW rs \in Seq(Route), NEW r \in Route, IdsDistinct(rs),
         Contains(rs, r), Precedes(rs, r.id, CatchAll)
  PROVE  DialedFor(rs, r.id) = r.dial
<1>1. PICK k \in DOMAIN rs : rs[k] = r
  BY DEF Contains
<1>2. DOMAIN rs \subseteq Nat /\ k \in MatchingRoutes(rs, r.id)
  BY <1>1 DEF MatchingRoutes
<1>3. ASSUME NEW j \in MatchingRoutes(rs, r.id) PROVE j \in Nat /\ k <= j
  BY <1>1, <1>2, <1>3 DEF MatchingRoutes, IdsDistinct, Precedes
<1>4. \A i \in MatchingRoutes(rs, r.id) :
        (\A j \in MatchingRoutes(rs, r.id) : i <= j) => i = k
  BY <1>2, <1>3
<1> HIDE DEF MatchingRoutes
<1>5. (CHOOSE i \in MatchingRoutes(rs, r.id) : \A j \in MatchingRoutes(rs, r.id) : i <= j) = k
  BY <1>2, <1>3, <1>4
<1> QED  BY <1>1, <1>2, <1>5 DEF DialedFor

-----------------------------------------------------------------------------
(* The invariant of sessions, registry and tick.                           *)

(* A forward whose session offered a key valid for its service.            *)
Authorised(f) == f \in Forward /\ f.svc \in Permitted[f.sess]

(* The places where a session has a forward, and those where its socket is  *)
(* still open.                                                             *)
Holding == SharedPlaces \cup {"record", "serving", "unregister", "deleteStale"}
SocketInUse == SharedPlaces \cup {"record", "serving"}

CurSound ==
  \A s \in Sessions : pc[s] \in Holding => Authorised(cur[s]) /\ cur[s].sess = s

SocketOpen == \A s \in Sessions : pc[s] \in SocketInUse => listening[s]

TickSound ==
  /\ \A f \in todo : Authorised(f)
  /\ pc[Reconciler] \in {"checkRoute", "deleteRoute", "postRoute"} =>
       Authorised(cur[Reconciler])

IInv == /\ TypeOK
        /\ RegistryBacked
        /\ CurSound
        /\ SocketOpen
        /\ TickSound
        /\ RoutesAuthorised

LEMMA ActorsSplit ==
  /\ Reconciler \in Actors /\ Sessions \subseteq Actors /\ Reconciler \notin Sessions
  /\ \A a \in Actors : a # Reconciler => a \in Sessions
BY ForwardSyncAssumption DEF Actors

LEMMA ForwardFacts ==
  ASSUME NEW f \in Forward
  PROVE  /\ f.sess \in Sessions /\ f.svc \in Services
         /\ ForwardKey(f) \in Keys
         /\ Host(f) \in Names
         /\ ForwardRoute(f) \in Route
         /\ ForwardRoute(f).id = Host(f) /\ ForwardRoute(f).dial = f.sess
BY ForwardSyncAssumption DEF Keys, Forward, ForwardKey, Host, ForwardRoute, Route

LEMMA InitIInv == Init => IInv
<1> SUFFICES ASSUME Init PROVE IInv
  OBVIOUS
<1>1. TypeOK
  <2>1. pc \in [Actors -> SessionPlaces \cup TickPlaces]
        /\ pc[Reconciler] = "asleep" /\ \A s \in Sessions : pc[s] = "idle"
    BY ActorsSplit DEF Init, SessionPlaces, TickPlaces
  <2>2. reg \in [Keys -> Forward \cup {NoForward}] /\ cur \in [Actors -> Forward \cup {NoForward}]
    BY DEF Init
  <2>3. /\ ctxLive \in [Actors -> BOOLEAN] /\ tries \in [Actors -> 0..MaxRetries]
        /\ listening \in [Sessions -> BOOLEAN] /\ looping \in [Sessions -> BOOLEAN]
        /\ requests \in [Sessions -> 0..MaxRequests]
        /\ faults \in 0..MaxFaults /\ restarts \in 0..MaxRestarts
    BY ForwardSyncAssumption DEF Init
  <2>4. PlacesOK
    BY <2>1 DEF PlacesOK, SessionPlaces, TickPlaces
  <2>5. routes \in Seq(Route) /\ todo \in SUBSET Forward
    BY DEF Init
  <2> QED  BY <2>1, <2>2, <2>3, <2>4, <2>5 DEF Init, TypeOK
<1> QED
  BY <1>1, ForwardSyncAssumption, ActorsSplit
     DEF Init, IInv, RegistryBacked, CurSound, SocketOpen, TickSound,
         RoutesAuthorised, Holding, SocketInUse, SharedPlaces

(* What every action does to routes: nothing, a deletion, an appended route *)
(* of an authorised forward, the catch-all, or a fresh empty array.         *)
RoutesStep ==
  \/ routes' = routes
  \/ routes' = <<>>
  \/ \E id \in Names \cup {CatchAll} : routes' = DeleteId(routes, id)
  \/ /\ \E a \in Actors : pc[a] = "postCatchAll"
     /\ Appendable(routes, CatchAll)
     /\ routes' = Append(routes, CatchAllRoute)
  \/ \E f \in Forward : /\ Authorised(f) /\ Appendable(routes, Host(f))
                        /\ routes' = Append(routes, ForwardRoute(f))

LEMMA RoutesStepKeeps ==
  ASSUME routes \in Seq(Route), RoutesAuthorised, RoutesStep
  PROVE  routes' \in Seq(Route) /\ RoutesAuthorised'
<1>1. CASE routes' = routes
  BY <1>1 DEF RoutesAuthorised
<1>2. CASE routes' = <<>>
  BY <1>2 DEF RoutesAuthorised
<1>3. ASSUME NEW id \in Names \cup {CatchAll}, routes' = DeleteId(routes, id)
      PROVE  routes' \in Seq(Route) /\ RoutesAuthorised'
  BY <1>3, DeleteIdKeepsRoutes DEF RoutesAuthorised
<1>4. ASSUME NEW r \in Route, RouteAuthorised(r), routes' = Append(routes, r)
      PROVE  routes' \in Seq(Route) /\ RoutesAuthorised'
  BY <1>4, AppendProperties DEF RoutesAuthorised
<1>5. CatchAllRoute \in Route /\ RouteAuthorised(CatchAllRoute)
  BY DEF CatchAllRoute, Route, RouteAuthorised
<1>6. ASSUME NEW f \in Forward, Authorised(f)
      PROVE  ForwardRoute(f) \in Route /\ RouteAuthorised(ForwardRoute(f))
  BY <1>6, ForwardFacts DEF RouteAuthorised, Authorised
<1> QED  BY <1>1, <1>2, <1>3, <1>4, <1>5, <1>6 DEF RoutesStep

(* Every action's effect on routes is one of RoutesStep's.                  *)
LEMMA NextRoutes ==
  ASSUME IInv, [Next]_vars
  PROVE  RoutesStep
<1> USE DEF IInv, TypeOK, PlacesOK
<1>1. CASE UNCHANGED vars
  BY <1>1 DEF vars, caddyVars, RoutesStep
<1>2. ASSUME NEW a \in Actors, SharedStep(a) PROVE RoutesStep
  <2>1. CASE pc[a] \in {"deleteRoute", "postRoute"}
    <3>1. Authorised(cur[a])
      BY <2>1, ActorsSplit DEF CurSound, TickSound, Holding, SharedPlaces
    <3>2. Host(cur[a]) \in Names /\ cur[a] \in Forward
      BY <3>1, ForwardFacts DEF Authorised
    <3>3. CASE DeleteRoute(a)
      BY <3>2, <3>3 DEF DeleteRoute, RoutesStep
    <3>4. CASE PostRoute(a)
      BY <3>1, <3>2, <3>4 DEF PostRoute, RoutesStep
    <3> QED  BY <1>2, <2>1, <3>3, <3>4
          DEF SharedStep, GetSrv0, CreateSrv0, EnsureTLS, DeleteCatchAll, PostCatchAll
  <2>2. CASE GetSrv0(a)
    BY <2>2 DEF GetSrv0, caddyVars, RoutesStep
  <2>3. CASE CreateSrv0(a)
    BY <2>3 DEF CreateSrv0, RoutesStep
  <2>4. CASE EnsureTLS(a)
    BY <2>4 DEF EnsureTLS, caddyVars, RoutesStep
  <2>5. CASE DeleteCatchAll(a)
    BY <2>5 DEF DeleteCatchAll, RoutesStep
  <2>6. CASE PostCatchAll(a)
    BY <2>6 DEF PostCatchAll, RoutesStep
  <2> QED  BY <1>2, <2>1, <2>2, <2>3, <2>4, <2>5, <2>6 DEF SharedStep, DeleteRoute, PostRoute
<1>3. ASSUME NEW s \in Sessions, DeleteStale(s) PROVE RoutesStep
  <2>1. Host(cur[s]) \in Names
    BY <1>3, ForwardFacts DEF DeleteStale, CurSound, Holding, Authorised
  <2> QED  BY <1>3, <2>1 DEF DeleteStale, RoutesStep
<1>4. ASSUME NEW s \in Sessions, Record(s) \/ EndSession(s) \/ Unregister(s) \/ ClientStep(s)
      PROVE  RoutesStep
  BY <1>4 DEF Record, EndSession, Unregister, ClientStep, Disconnect, CancelForward,
              TcpipForward, caddyVars, RoutesStep
<1>5. CASE TickStep \/ TickTimeout
  BY <1>5 DEF TickStep, Tick, Snapshot, NextForward, LastForward, CheckRoute,
              CheckCatchAll, TickTimeout, caddyVars, RoutesStep
<1>6. CASE CaddyStep \/ RelayRestart
  BY <1>6 DEF CaddyStep, CaddyStop, CaddyStart, CaddyLoad, RelayRestart, caddyVars, RoutesStep
<1> QED  BY <1>1, <1>2, <1>3, <1>4, <1>5, <1>6 DEF Next, HandlerStep

LEMMA PlacesSplit ==
  /\ {"getSrv0", "createSrv0", "ensureTLS", "deleteRoute", "postRoute",
      "deleteCatchAll", "postCatchAll"} \subseteq SessionPlaces \cap TickPlaces
  /\ {"idle", "record", "serving", "unregister", "deleteStale", "done"}
       \subseteq SessionPlaces
  /\ {"asleep", "snapshot", "nextForward", "checkRoute", "checkCatchAll"}
       \subseteq TickPlaces
BY DEF SessionPlaces, TickPlaces, SharedPlaces

(* An actor that goes to a place of its own kind.                          *)
LEMMA GotoKeepsPlaces ==
  ASSUME PlacesOK, NEW a \in Actors, NEW place, Goto(a, place),
         a \in Sessions => place \in SessionPlaces,
         a = Reconciler => place \in TickPlaces
  PROVE  PlacesOK'
BY ActorsSplit DEF PlacesOK, Goto

LEMMA NextPlacesOK ==
  ASSUME IInv, [Next]_vars
  PROVE  PlacesOK'
<1> USE PlacesSplit, GotoKeepsPlaces, ActorsSplit DEF IInv, TypeOK
<1>1. CASE UNCHANGED vars
  BY <1>1 DEF vars, PlacesOK
<1>2. ASSUME NEW a \in Actors, SharedStep(a) PROVE PlacesOK'
  <2>1. CASE GetSrv0(a)
    <3>1. CASE UNCHANGED pc
      BY <3>1 DEF PlacesOK
    <3> QED  BY <2>1, <3>1 DEF GetSrv0
  <2>2. CASE CreateSrv0(a)
    BY <2>2 DEF CreateSrv0, Abandon
  <2>3. CASE EnsureTLS(a)
    BY <2>3 DEF EnsureTLS, Abandon
  <2>4. CASE DeleteRoute(a)
    BY <2>4 DEF DeleteRoute
  <2>5. CASE PostRoute(a)
    <3>1. AfterRoute \in SessionPlaces
      BY DEF AfterRoute
    <3> QED  BY <2>5, <3>1 DEF PostRoute, Abandon
  <2>6. CASE DeleteCatchAll(a)
    BY <2>6 DEF DeleteCatchAll
  <2>7. CASE PostCatchAll(a)
    BY <2>7 DEF PostCatchAll, Abandon
  <2> QED  BY <1>2, <2>1, <2>2, <2>3, <2>4, <2>5, <2>6, <2>7 DEF SharedStep
<1>3. ASSUME NEW s \in Sessions, HandlerStep(s) \/ ClientStep(s) PROVE PlacesOK'
  <2>1. CASE Disconnect(s)
    BY <2>1 DEF Disconnect, PlacesOK
  <2>2. ASSUME NEW svc \in Services, TcpipForward(s, svc) PROVE PlacesOK'
    <3>1. CASE UNCHANGED pc
      BY <3>1 DEF PlacesOK
    <3> QED  BY <2>2, <3>1 DEF TcpipForward
  <2>3. CASE Record(s) \/ CancelForward(s) \/ EndSession(s) \/ Unregister(s) \/ DeleteStale(s)
    <3>1. \E place \in SessionPlaces : Goto(s, place)
      BY <2>3 DEF Record, CancelForward, EndSession, Unregister, DeleteStale
    <3> QED  BY <3>1
  <2> QED  BY <1>3, <2>1, <2>2, <2>3 DEF HandlerStep, ClientStep
<1>4. CASE TickStep
  <2>1. \E place \in TickPlaces : Goto(Reconciler, place)
    BY <1>4 DEF TickStep, Tick, Snapshot, NextForward, LastForward, AfterVisits,
                CheckRoute, CheckCatchAll
  <2> QED  BY <2>1
<1>5. CASE TickTimeout \/ CaddyStep
  BY <1>5 DEF TickTimeout, CaddyStep, CaddyStop, CaddyStart, CaddyLoad, PlacesOK
<1>6. CASE RelayRestart
  BY <1>6 DEF RelayRestart, PlacesOK
<1> QED  BY <1>1, <1>2, <1>3, <1>4, <1>5, <1>6 DEF Next

LEMMA BoundsCount ==
  /\ 0 \in 0..MaxRetries
  /\ \A n \in 0..MaxRetries : n < MaxRetries => n + 1 \in 0..MaxRetries
  /\ \A n \in 0..MaxRestarts : n < MaxRestarts => n + 1 \in 0..MaxRestarts
BY ForwardSyncAssumption

LEMMA RequestCounts ==
  ASSUME TypeOK, NEW live, NEW applied, NEW answered, Request(live, applied, answered)
  PROVE  faults' \in 0..MaxFaults
BY ForwardSyncAssumption DEF Request, TypeOK

LEMMA AbandonTypes ==
  ASSUME TypeOK, NEW a \in Actors, Abandon(a)
  PROVE  /\ cur' \in [Actors -> Forward \cup {NoForward}]
         /\ listening' \in [Sessions -> BOOLEAN]
BY DEF Abandon, TypeOK

LEMMA NextTypeOK ==
  ASSUME IInv, [Next]_vars
  PROVE  TypeOK'
<1>1. routes' \in Seq(Route) /\ PlacesOK'
  BY NextRoutes, RoutesStepKeeps, NextPlacesOK DEF IInv, TypeOK
<1> USE <1>1, ActorsSplit, RequestCounts, AbandonTypes
    DEF IInv, TypeOK, caddyVars, sessionVars, tickVars, boundVars
<1>2. CASE UNCHANGED vars
  BY <1>2 DEF vars
<1>3. ASSUME NEW a \in Actors, GetSrv0(a) PROVE TypeOK'
  <2>1. tries' \in [Actors -> 0..MaxRetries]
    <3>1. \/ tries' = tries
          \/ tries[a] < MaxRetries /\ tries' = [tries EXCEPT ![a] = tries[a] + 1]
      BY <1>3 DEF GetSrv0, RetriesLeft
    <3>2. tries[a] \in 0..MaxRetries
      OBVIOUS
    <3>3. CASE tries' = tries
      BY <3>3
    <3>4. CASE tries[a] < MaxRetries /\ tries' = [tries EXCEPT ![a] = tries[a] + 1]
      <4>1. tries[a] + 1 \in 0..MaxRetries
        BY <3>2, <3>4, BoundsCount
      <4> QED  BY <3>4, <4>1
    <3> QED  BY <3>1, <3>3, <3>4
  <2>2. faults' \in 0..MaxFaults
    BY <1>3 DEF GetSrv0
  <2> QED  BY <1>3, <2>1, <2>2 DEF GetSrv0
<1>4. ASSUME NEW a \in Actors, CreateSrv0(a) PROVE TypeOK'
  <2>1. cur' \in [Actors -> Forward \cup {NoForward}] /\ listening' \in [Sessions -> BOOLEAN]
    BY <1>4 DEF CreateSrv0
  <2> QED  BY <1>4, <2>1 DEF CreateSrv0
<1>5. ASSUME NEW a \in Actors, EnsureTLS(a) PROVE TypeOK'
  <2>1. cur' \in [Actors -> Forward \cup {NoForward}] /\ listening' \in [Sessions -> BOOLEAN]
    BY <1>5 DEF EnsureTLS
  <2>2. faults' \in 0..MaxFaults
    BY <1>5 DEF EnsureTLS
  <2> QED  BY <1>5, <2>1, <2>2 DEF EnsureTLS
<1>6. ASSUME NEW a \in Actors, DeleteRoute(a) \/ DeleteCatchAll(a) PROVE TypeOK'
  BY <1>6 DEF DeleteRoute, DeleteCatchAll
<1>7. ASSUME NEW a \in Actors, PostRoute(a) PROVE TypeOK'
  <2>1. cur' \in [Actors -> Forward \cup {NoForward}] /\ listening' \in [Sessions -> BOOLEAN]
    BY <1>7 DEF PostRoute
  <2>2. faults' \in 0..MaxFaults /\ appended' \in BOOLEAN
    BY <1>7 DEF PostRoute, Appended
  <2> QED  BY <1>7, <2>1, <2>2 DEF PostRoute
<1>8. ASSUME NEW a \in Actors, PostCatchAll(a) PROVE TypeOK'
  <2>1. cur' \in [Actors -> Forward \cup {NoForward}] /\ listening' \in [Sessions -> BOOLEAN]
    BY <1>8 DEF PostCatchAll
  <2>2. faults' \in 0..MaxFaults
    BY <1>8 DEF PostCatchAll
  <2> QED  BY <1>8, <2>1, <2>2 DEF PostCatchAll
<1>9. ASSUME NEW s \in Sessions, Disconnect(s) \/ CancelForward(s) \/ EndSession(s)
      PROVE  TypeOK'
  BY <1>9 DEF Disconnect, CancelForward, EndSession
<1>10. ASSUME NEW s \in Sessions, NEW svc \in Services, TcpipForward(s, svc) PROVE TypeOK'
  <2>1. [sess |-> s, svc |-> svc] \in Forward
    BY DEF Forward
  <2>2. requests' \in [Sessions -> 0..MaxRequests]
    BY <1>10, ForwardSyncAssumption DEF TcpipForward
  <2>3. /\ cur' \in [Actors -> Forward \cup {NoForward}]
        /\ listening' \in [Sessions -> BOOLEAN]
        /\ tries' \in [Actors -> 0..MaxRetries]
    BY <1>10, <2>1, BoundsCount DEF TcpipForward
  <2> QED  BY <1>10, <2>2, <2>3 DEF TcpipForward
<1>11. ASSUME NEW s \in Sessions, Record(s) PROVE TypeOK'
  BY <1>11, ForwardFacts DEF Record, CurSound, Holding, Authorised
<1>12. ASSUME NEW s \in Sessions, Unregister(s) PROVE TypeOK'
  BY <1>12, ForwardFacts DEF Unregister, RegistryWithout, CurSound, Holding, Authorised
<1>13. ASSUME NEW s \in Sessions, DeleteStale(s) PROVE TypeOK'
  BY <1>13 DEF DeleteStale
<1>14. CASE Tick
  BY <1>14, BoundsCount DEF Tick
<1>15. CASE Snapshot
  BY <1>15 DEF Snapshot
<1>16. CASE NextForward
  BY <1>16 DEF NextForward
<1>17. CASE LastForward
  BY <1>17 DEF LastForward
<1>18. CASE CheckRoute
  BY <1>18 DEF CheckRoute
<1>19. CASE CheckCatchAll
  BY <1>19 DEF CheckCatchAll
<1>20. CASE TickTimeout
  BY <1>20, ForwardSyncAssumption DEF TickTimeout
<1>21. CASE CaddyStop
  <2>1. routes' = <<>> /\ restarts' \in 0..MaxRestarts
    BY <1>21, BoundsCount DEF CaddyStop
  <2> QED  BY <1>21, <2>1 DEF CaddyStop
<1>22. CASE CaddyStart \/ CaddyLoad
  BY <1>22 DEF CaddyStart, CaddyLoad
<1>23. CASE RelayRestart
  <2>1. /\ reg' \in [Keys -> Forward \cup {NoForward}]
        /\ cur' \in [Actors -> Forward \cup {NoForward}]
        /\ todo' \in SUBSET Forward
    BY <1>23 DEF RelayRestart
  <2>2. listening' \in [Sessions -> BOOLEAN] /\ looping' \in [Sessions -> BOOLEAN]
    BY <1>23 DEF RelayRestart
  <2> QED  BY <1>23, <2>1, <2>2 DEF RelayRestart
<1> QED
  BY <1>2, <1>3, <1>4, <1>5, <1>6, <1>7, <1>8, <1>9, <1>10, <1>11, <1>12, <1>13,
     <1>14, <1>15, <1>16, <1>17, <1>18, <1>19, <1>20, <1>21, <1>22,
     <1>23
     DEF CaddyStep, Next, SharedStep, HandlerStep, ClientStep, TickStep

(* A step of a shared helper: the actor moves on inside the helpers, or a   *)
(* session reaches the end of configureNewForward, or the actor gives up.  *)
LEMMA SharedStepShape ==
  ASSUME NEW a \in Actors, SharedStep(a)
  PROVE  /\ pc[a] \in SharedPlaces
         /\ UNCHANGED <<reg, todo>>
         /\ \/ Abandon(a)
            \/ UNCHANGED <<pc, cur, listening>>
            \/ \E place : /\ Goto(a, place)
                          /\ a \in Sessions => place \in SharedPlaces \cup {"record"}
                          /\ a = Reconciler =>
                               place \in SharedPlaces \cup {"snapshot", "nextForward", "asleep"}
                          /\ a = Reconciler /\ place \in {"deleteRoute", "postRoute"} =>
                               pc[a] = "deleteRoute"
                          /\ UNCHANGED <<cur, listening>>
<1> USE ActorsSplit DEF SharedPlaces, sessionVars, tickVars
<1>1. CASE GetSrv0(a)
  BY <1>1 DEF GetSrv0
<1>2. CASE CreateSrv0(a)
  BY <1>2 DEF CreateSrv0
<1>3. CASE EnsureTLS(a)
  BY <1>3 DEF EnsureTLS
<1>4. CASE DeleteRoute(a)
  BY <1>4 DEF DeleteRoute
<1>5. CASE PostRoute(a)
  BY <1>5 DEF PostRoute, AfterRoute
<1>6. CASE DeleteCatchAll(a)
  BY <1>6 DEF DeleteCatchAll
<1>7. CASE PostCatchAll(a)
  BY <1>7 DEF PostCatchAll
<1> QED  BY <1>1, <1>2, <1>3, <1>4, <1>5, <1>6, <1>7 DEF SharedStep

(* The steps of one session leave the other actors where they are.         *)
LEMMA NextCurSound ==
  ASSUME IInv, [Next]_vars
  PROVE  CurSound' /\ SocketOpen'
<1> USE ActorsSplit DEF IInv, TypeOK, PlacesOK, CurSound, SocketOpen, Holding, SocketInUse,
        SharedPlaces, Goto, sessionVars
<1>1. CASE UNCHANGED vars
  BY <1>1 DEF vars, Authorised
<1>2. ASSUME NEW a \in Actors, SharedStep(a) PROVE CurSound' /\ SocketOpen'
  <2>1. CASE Abandon(a)
    <3>1. CASE a = Reconciler
      BY <2>1, <3>1 DEF Abandon
    <3>2. CASE a \in Sessions
      <4>1. /\ pc'[a] = "idle"
            /\ \A s \in Sessions \ {a} : /\ pc'[s] = pc[s] /\ cur'[s] = cur[s]
                                         /\ listening'[s] = listening[s]
        BY <2>1, <3>2 DEF Abandon
      <4> QED  BY <4>1
    <3> QED  BY <3>1, <3>2
  <2>2. CASE UNCHANGED <<pc, cur, listening>>
    BY <2>2
  <2>3. ASSUME NEW place, Goto(a, place), UNCHANGED <<cur, listening>>,
               a \in Sessions => place \in SharedPlaces \cup {"record"}
        PROVE  CurSound' /\ SocketOpen'
    BY <1>2, <2>3, SharedStepShape
  <2> QED  BY <1>2, <2>1, <2>2, <2>3, SharedStepShape
<1>3. ASSUME NEW s \in Sessions, Disconnect(s) PROVE CurSound' /\ SocketOpen'
  BY <1>3 DEF Disconnect
<1>4. ASSUME NEW s \in Sessions, NEW svc \in Services, TcpipForward(s, svc)
      PROVE  CurSound' /\ SocketOpen'
  <2>1. CASE UNCHANGED <<listening, cur, tries, pc>>
    BY <2>1
  <2>2. CASE /\ KeyAllows(s, svc)
             /\ listening' = [listening EXCEPT ![s] = TRUE]
             /\ cur' = [cur EXCEPT ![s] = [sess |-> s, svc |-> svc]]
             /\ pc' = [pc EXCEPT ![s] = "getSrv0"]
    <3>1. Authorised([sess |-> s, svc |-> svc])
      BY <2>2 DEF Authorised, Forward, KeyAllows
    <3> QED  BY <2>2, <3>1
  <2> QED  BY <1>4, <2>1, <2>2 DEF TcpipForward
<1>5. ASSUME NEW s \in Sessions, Record(s) PROVE CurSound' /\ SocketOpen'
  BY <1>5 DEF Record
<1>6. ASSUME NEW s \in Sessions, CancelForward(s) PROVE CurSound' /\ SocketOpen'
  BY <1>6 DEF CancelForward
<1>7. ASSUME NEW s \in Sessions, EndSession(s) PROVE CurSound' /\ SocketOpen'
  BY <1>7 DEF EndSession
<1>8. ASSUME NEW s \in Sessions, Unregister(s) PROVE CurSound' /\ SocketOpen'
  BY <1>8 DEF Unregister
<1>9. ASSUME NEW s \in Sessions, DeleteStale(s) PROVE CurSound' /\ SocketOpen'
  BY <1>9 DEF DeleteStale
<1>10. CASE TickStep
  BY <1>10 DEF TickStep, Tick, Snapshot, NextForward, LastForward, CheckRoute, CheckCatchAll
<1>11. CASE TickTimeout \/ CaddyStep
  BY <1>11 DEF TickTimeout, CaddyStep, CaddyStop, CaddyStart, CaddyLoad
<1>12. CASE RelayRestart
  \* What is left over is idle.
  <2>1. \A s \in Sessions : pc'[s] \in {"done", "idle"}
    BY <1>12 DEF RelayRestart, Interrupted
  <2> QED  BY <2>1
<1> QED
  BY <1>1, <1>2, <1>3, <1>4, <1>5, <1>6, <1>7, <1>8, <1>9, <1>10, <1>11, <1>12
     DEF Next, HandlerStep, ClientStep

LEMMA NextTickSound ==
  ASSUME IInv, [Next]_vars
  PROVE  TickSound'
<1> USE ActorsSplit DEF IInv, TypeOK, PlacesOK, TickSound, Goto, sessionVars, tickVars
<1>1. CASE UNCHANGED vars
  BY <1>1 DEF vars, tickVars, Authorised
<1>2. ASSUME NEW a \in Actors, SharedStep(a) PROVE TickSound'
  <2>1. CASE Abandon(a)
    BY <1>2, <2>1, SharedStepShape DEF Abandon
  <2>2. CASE UNCHANGED <<pc, cur, listening>>
    BY <1>2, <2>2, SharedStepShape
  <2>3. ASSUME NEW place, Goto(a, place), UNCHANGED <<cur, listening>>,
               a = Reconciler => place \in SharedPlaces \cup {"snapshot", "nextForward", "asleep"},
               a = Reconciler /\ place \in {"deleteRoute", "postRoute"} => pc[a] = "deleteRoute"
        PROVE  TickSound'
    BY <1>2, <2>3, SharedStepShape DEF SharedPlaces
  <2> QED  BY <1>2, <2>1, <2>2, <2>3, SharedStepShape
<1>3. ASSUME NEW s \in Sessions, Disconnect(s) \/ CancelForward(s) PROVE TickSound'
  BY <1>3 DEF Disconnect, CancelForward
<1>4. ASSUME NEW s \in Sessions, NEW svc \in Services, TcpipForward(s, svc) PROVE TickSound'
  BY <1>4 DEF TcpipForward
<1>5. ASSUME NEW s \in Sessions, Record(s) \/ EndSession(s) PROVE TickSound'
  BY <1>5 DEF Record, EndSession
<1>6. ASSUME NEW s \in Sessions, Unregister(s) \/ DeleteStale(s) PROVE TickSound'
  BY <1>6 DEF Unregister, DeleteStale
<1>7. CASE Snapshot
  <2>1. \A k \in Keys : reg[k] # NoForward => Authorised(reg[k])
    <3>1. {"serving", "unregister"} \subseteq Holding
      BY DEF Holding
    <3>2. \A k \in Keys : reg[k] # NoForward => reg[k].sess \in Sessions
      BY DEF Forward
    <3> QED  BY <3>1, <3>2 DEF RegistryBacked, CurSound
  <2> QED  BY <1>7, <2>1 DEF Snapshot
<1>8. CASE NextForward
  BY <1>8 DEF NextForward
<1>9. CASE CheckRoute
  BY <1>9 DEF CheckRoute
<1>10. CASE Tick \/ LastForward \/ CheckCatchAll
  BY <1>10 DEF Tick, LastForward, AfterVisits, CheckCatchAll
<1>11. CASE TickTimeout \/ CaddyStep
  BY <1>11 DEF TickTimeout, CaddyStep, CaddyStop, CaddyStart, CaddyLoad
<1>12. CASE RelayRestart
  BY <1>12 DEF RelayRestart
<1> QED
  BY <1>1, <1>2, <1>3, <1>4, <1>5, <1>6, <1>7, <1>8, <1>9, <1>10, <1>11, <1>12
     DEF Next, HandlerStep, ClientStep, TickStep

LEMMA NextRegistryBacked ==
  ASSUME IInv, [Next]_vars
  PROVE  RegistryBacked'
<1> USE ActorsSplit DEF IInv, TypeOK, PlacesOK, RegistryBacked, Goto, sessionVars, tickVars
<1>1. CASE UNCHANGED vars
  BY <1>1 DEF vars
<1>2. ASSUME NEW a \in Actors, SharedStep(a) PROVE RegistryBacked'
  \* Nobody registered is inside a helper: its session serves or cleans up.
  <2>1. pc[a] \notin {"serving", "unregister"} /\ reg' = reg
    BY <1>2, SharedStepShape DEF SharedPlaces
  <2>2. \A k \in Keys : reg[k] # NoForward => reg[k].sess \in Sessions /\ reg[k].sess # a
    BY <2>1 DEF Forward
  <2>3. \A s \in Sessions : s # a => pc'[s] = pc[s] /\ cur'[s] = cur[s]
    BY <1>2, SharedStepShape DEF Abandon
  <2> QED  BY <2>1, <2>2, <2>3
<1>3. ASSUME NEW s \in Sessions, Disconnect(s) PROVE RegistryBacked'
  BY <1>3 DEF Disconnect
<1>4. ASSUME NEW s \in Sessions, NEW svc \in Services, TcpipForward(s, svc)
      PROVE  RegistryBacked'
  <2>1. CASE UNCHANGED <<listening, cur, tries, pc>>
    BY <1>4, <2>1 DEF TcpipForward
  <2>2. CASE ~UNCHANGED <<listening, cur, tries, pc>>
    <3>1. ~listening[s] /\ pc[s] \in {"idle", "serving"}
      BY <1>4, <2>2 DEF TcpipForward
    <3>2. "serving" \in SocketInUse
      BY DEF SocketInUse
    <3>3. pc[s] # "serving"
      BY <3>1, <3>2 DEF SocketOpen
    <3>4. pc[s] = "idle"
      BY <3>1, <3>3
    <3>5. \A k \in Keys : reg[k] # NoForward => reg[k].sess \in Sessions /\ reg[k].sess # s
      BY <3>4 DEF Forward
    <3>6. reg' = reg /\ \A t \in Sessions : t # s => pc'[t] = pc[t] /\ cur'[t] = cur[t]
      BY <1>4 DEF TcpipForward
    <3> QED  BY <3>5, <3>6
  <2> QED  BY <2>1, <2>2
<1>5. ASSUME NEW s \in Sessions, Record(s) PROVE RegistryBacked'
  <2>1. cur[s] \in Forward /\ cur[s].sess = s /\ ForwardKey(cur[s]) \in Keys
    BY <1>5, ForwardFacts DEF Record, CurSound, Holding, Authorised
  <2> QED  BY <1>5, <2>1 DEF Record
<1>6. ASSUME NEW s \in Sessions, CancelForward(s) \/ EndSession(s) PROVE RegistryBacked'
  <2>1. /\ reg' = reg /\ cur' = cur
        /\ \A t \in Sessions : t # s => pc'[t] = pc[t]
        /\ pc[s] = "serving" => pc'[s] = "unregister"
        /\ pc[s] # "unregister"
    BY <1>6 DEF CancelForward, EndSession
  <2>2. \A k \in Keys : reg[k] # NoForward => reg[k].sess \in Sessions
    BY DEF Forward
  <2> QED  BY <2>1, <2>2
<1>7. ASSUME NEW s \in Sessions, Unregister(s) PROVE RegistryBacked'
  <2>1. \A k \in Keys : reg'[k] # NoForward => reg[k] = reg'[k] /\ reg[k] # cur[s]
    BY <1>7 DEF Unregister, RegistryWithout
  <2> QED  BY <1>7, <2>1 DEF Unregister
<1>8. ASSUME NEW s \in Sessions, DeleteStale(s) PROVE RegistryBacked'
  BY <1>8 DEF DeleteStale
<1>9. CASE TickStep
  <2>1. reg' = reg /\ \A t \in Sessions : pc'[t] = pc[t] /\ cur'[t] = cur[t]
    BY <1>9 DEF TickStep, Tick, Snapshot, NextForward, LastForward, CheckRoute, CheckCatchAll
  <2>2. \A k \in Keys : reg[k] # NoForward => reg[k].sess \in Sessions
    BY DEF Forward
  <2> QED  BY <2>1, <2>2
<1>10. CASE TickTimeout \/ CaddyStep
  BY <1>10 DEF TickTimeout, CaddyStep, CaddyStop, CaddyStart, CaddyLoad
<1>11. CASE RelayRestart
  BY <1>11 DEF RelayRestart
<1> QED
  BY <1>1, <1>2, <1>3, <1>4, <1>5, <1>6, <1>7, <1>8, <1>9, <1>10, <1>11
     DEF Next, HandlerStep, ClientStep

(* The invariant is inductive, and the properties follow.                  *)
THEOREM SyncInvariant == Spec => []IInv
<1>1. IInv /\ [Next]_vars => IInv'
  <2> SUFFICES ASSUME IInv, [Next]_vars PROVE IInv'
    OBVIOUS
  <2>1. RoutesAuthorised'
    BY NextRoutes, RoutesStepKeeps DEF IInv, TypeOK
  <2> QED
    BY <2>1, NextTypeOK, NextCurSound, NextTickSound, NextRegistryBacked DEF IInv
<1> QED  BY <1>1, InitIInv, PTL DEF Spec

\* Every variable keeps its type: in particular no actor leaves its code and
\* no counter its bound.
THEOREM SyncTypeOK == Spec => []TypeOK
<1>1. IInv => TypeOK
  BY DEF IInv
<1> QED  BY <1>1, SyncInvariant, PTL

\* The registry the reconcile loop works from never outlives the forwards it
\* lists, whatever fails (configureNewForward, unconfigureForward).
THEOREM SyncRegistryBacked == Spec => []RegistryBacked
<1>1. IInv => RegistryBacked
  BY DEF IInv
<1> QED  BY <1>1, SyncInvariant, PTL

\* A host's traffic reaches only a session entitled to that host.
THEOREM SyncRoutesAuthorised == Spec => []RoutesAuthorised
<1>1. IInv => RoutesAuthorised
  BY DEF IInv
<1> QED  BY <1>1, SyncInvariant, PTL

\* The late cleanup of an older session never takes a newer forward of the
\* same key out of the registry (the pointer comparison in unconfigureForward).
THEOREM SyncNewerRegistrationKept == Spec => NewerRegistrationKept
<1> DEFINE Kept == \A k \in Keys :
       (reg[k] # NoForward /\ reg'[k] # reg[k]) =>
         \/ reg'[k] # NoForward /\ pc[reg'[k].sess] = "record"
         \/ reg'[k] = NoForward /\ pc[reg[k].sess] = "unregister"
         \/ RelayRestart
<1>1. IInv /\ [Next]_vars => [Kept]_vars
  <2> SUFFICES ASSUME IInv, [Next]_vars PROVE Kept
    OBVIOUS
  <2>1. CASE reg' = reg
    BY <2>1
  <2>2. ASSUME NEW s \in Sessions, Record(s) PROVE Kept
    <3>1. cur[s] \in Forward /\ cur[s].sess = s /\ ForwardKey(cur[s]) \in Keys
      BY <2>2, ForwardFacts DEF Record, IInv, CurSound, Holding, Authorised
    <3>2. cur[s] # NoForward
      BY <3>1, ForwardSyncAssumption DEF Forward
    <3>3. reg' = [reg EXCEPT ![ForwardKey(cur[s])] = cur[s]] /\ pc[s] = "record"
      BY <2>2 DEF Record
    <3>4. reg \in [Keys -> Forward \cup {NoForward}]
      BY DEF IInv, TypeOK
    <3>5. \A k \in Keys : reg'[k] # reg[k] => reg'[k] = cur[s]
      BY <3>3, <3>4
    <3> QED  BY <3>1, <3>2, <3>3, <3>5
  <2>3. ASSUME NEW s \in Sessions, Unregister(s) PROVE Kept
    <3>1. cur[s].sess = s
      BY <2>3 DEF Unregister, IInv, CurSound, Holding
    <3> QED  BY <2>3, <3>1 DEF Unregister, RegistryWithout, IInv, TypeOK
  <2>4. \/ reg' = reg
        \/ \E s \in Sessions : Record(s) \/ Unregister(s)
        \/ RelayRestart
    <3>1. CASE UNCHANGED vars
      BY <3>1 DEF vars
    <3>2. CASE \E a \in Actors : SharedStep(a)
      BY <3>2, SharedStepShape
    <3>3. ASSUME NEW s \in Sessions, ClientStep(s) \/ EndSession(s) \/ DeleteStale(s)
          PROVE  reg' = reg
      BY <3>3 DEF ClientStep, Disconnect, CancelForward, TcpipForward, EndSession, DeleteStale
    <3>4. CASE TickStep \/ TickTimeout \/ CaddyStep
      BY <3>4 DEF TickStep, Tick, Snapshot, NextForward, LastForward, CheckRoute,
                  CheckCatchAll, TickTimeout, CaddyStep, CaddyStop, CaddyStart, CaddyLoad
    <3> QED  BY <3>1, <3>2, <3>3, <3>4 DEF Next, HandlerStep
  <2> QED  BY <2>1, <2>2, <2>3, <2>4
<1> QED  BY <1>1, SyncInvariant, PTL DEF Spec, NewerRegistrationKept
-----------------------------------------------------------------------------
(* The refinement.                                                         *)

LEMMA StageFacts ==
  /\ StageOf["idle"] = "free" /\ StageOf["serving"] = "serving"
  /\ StageOf["unregister"] = "leaving" /\ StageOf["deleteStale"] = "released"
  /\ StageOf["done"] = "ended"
  /\ \A place \in SharedPlaces \cup {"record"} : StageOf[place] = "asking"
BY DEF StageOf, SessionPlaces, SharedPlaces

LEMMA InitRegistry == Init => Registry!Init
BY StageFacts, ActorsSplit DEF Init, Registry!Init, Keys

LEMMA StepRegistry ==
  ASSUME IInv, [Next]_vars
  PROVE  [Registry!Next]_(Registry!vars)
<1> DEFINE St == [s \in Sessions |-> StageOf[pc[s]]]
           Wk == [s \in Sessions |-> cur[s]]
<1> USE ActorsSplit DEF IInv, TypeOK, PlacesOK
<1>b. SUFFICES ASSUME ~UNCHANGED <<reg, St, Wk>> PROVE Registry!Next
  BY DEF Registry!vars
<1>c. \A s \in Sessions : Registry!Step(s) => Registry!Next
  BY DEF Registry!Next
\* A step that moves one session from one stage to another.
<1>d. ASSUME NEW s \in Sessions, NEW place \in SessionPlaces, NEW stage,
             Goto(s, place), StageOf[place] = stage
      PROVE  St' = [St EXCEPT ![s] = stage] /\ (St[s] = stage => St' = St)
  <2>1. pc' = [pc EXCEPT ![s] = place]
    BY <1>d DEF Goto
  <2>2. \A t \in Sessions : St'[t] = IF t = s THEN stage ELSE St[t]
    BY <1>d, <2>1
  <2> QED  BY <2>2
<1>e. UNCHANGED <<reg, pc, cur>> => UNCHANGED <<reg, St, Wk>>
  OBVIOUS
<1>1. CASE UNCHANGED vars
  BY <1>1, <1>b, <1>e DEF vars
<1>2. ASSUME NEW a \in Actors, SharedStep(a) PROVE Registry!Next
  <2>1. CASE a = Reconciler
    <3>1. \A s \in Sessions : pc'[s] = pc[s] /\ cur'[s] = cur[s]
      BY <1>2, <2>1, SharedStepShape DEF Abandon, Goto
    <3>2. reg' = reg
      BY <1>2, SharedStepShape
    <3> QED  BY <1>b, <3>1, <3>2
  <2>2. CASE a \in Sessions
    <3>1. reg' = reg /\ pc[a] \in SharedPlaces /\ St[a] = "asking"
      BY <1>2, <2>2, SharedStepShape, StageFacts
    <3>2. CASE Abandon(a)
      <4>1. Goto(a, "idle") /\ cur' = [cur EXCEPT ![a] = NoForward]
        BY <2>2, <3>2 DEF Abandon
      <4>2. St' = [St EXCEPT ![a] = "free"]
        BY <1>d, <2>2, <4>1, PlacesSplit, StageFacts
      <4>3. Wk' = [Wk EXCEPT ![a] = NoForward]
        BY <2>2, <4>1
      <4>4. Registry!Refuse(a)
        BY <3>1, <4>2, <4>3 DEF Registry!Refuse, Registry!Move, Registry!Drop
      <4> QED  BY <1>c, <2>2, <4>4 DEF Registry!Step
    <3>3. CASE UNCHANGED <<pc, cur, listening>>
      BY <1>b, <1>e, <3>1, <3>3
    <3>4. ASSUME NEW place \in SharedPlaces \cup {"record"}, Goto(a, place),
                 UNCHANGED <<cur, listening>>
          PROVE  Registry!Next
      <4>1. place \in SessionPlaces /\ StageOf[place] = "asking"
        BY <3>4, StageFacts DEF SessionPlaces
      <4>2. UNCHANGED St
        BY <1>d, <2>2, <3>1, <3>4, <4>1
      <4> QED  BY <1>b, <3>1, <3>4, <4>2
    <3> QED  BY <1>2, <2>2, <3>2, <3>3, <3>4, SharedStepShape
  <2> QED  BY <2>1, <2>2
<1>3. ASSUME NEW s \in Sessions, Disconnect(s) PROVE Registry!Next
  BY <1>3, <1>b, <1>e DEF Disconnect
<1>4. ASSUME NEW s \in Sessions, NEW svc \in Services, TcpipForward(s, svc)
      PROVE  Registry!Next
  <2>1. CASE UNCHANGED <<listening, cur, tries, pc>>
    BY <1>4, <1>b, <1>e, <2>1 DEF TcpipForward
  <2>2. CASE ~UNCHANGED <<listening, cur, tries, pc>>
    <3>1. /\ KeyAllows(s, svc) /\ ~listening[s] /\ pc[s] \in {"idle", "serving"}
          /\ cur' = [cur EXCEPT ![s] = [sess |-> s, svc |-> svc]]
          /\ Goto(s, "getSrv0") /\ reg' = reg
      BY <1>4, <2>2 DEF TcpipForward
    \* The session's socket is in use while it serves.
    <3>2. pc[s] = "idle"
      BY <3>1 DEF SocketOpen, SocketInUse
    <3>3. St[s] = "free" /\ St' = [St EXCEPT ![s] = "asking"]
      <4>1. "getSrv0" \in SessionPlaces /\ StageOf["getSrv0"] = "asking"
        BY StageFacts, PlacesSplit DEF SharedPlaces
      <4>2. St[s] = "free"
        BY <3>2, StageFacts
      <4> QED  BY <1>d, <3>1, <4>1, <4>2
    <3>4. Wk' = [Wk EXCEPT ![s] = [sess |-> s, svc |-> svc]]
      BY <3>1
    <3>5. svc \in Services \cap Permitted[s]
      BY <3>1 DEF KeyAllows
    <3>6. Registry!Ask(s)
      BY <3>1, <3>3, <3>4, <3>5 DEF Registry!Ask, Registry!Move
    <3> QED  BY <1>c, <3>6 DEF Registry!Step
  <2> QED  BY <2>1, <2>2
<1>5. ASSUME NEW s \in Sessions, Record(s) PROVE Registry!Next
  <2>0. Goto(s, "serving") /\ "serving" \in SessionPlaces /\ StageOf["serving"] = "serving"
    BY <1>5, StageFacts, PlacesSplit DEF Record
  <2>1. St[s] = "asking" /\ St' = [St EXCEPT ![s] = "serving"]
    <3>1. St[s] = "asking"
      BY <1>5, StageFacts DEF Record
    <3> QED  BY <1>d, <2>0, <3>1
  <2>2. reg' = [reg EXCEPT ![Registry!KeyOf(Wk[s])] = Wk[s]] /\ UNCHANGED Wk
    BY <1>5 DEF Record, ForwardKey, Registry!KeyOf
  <2>3. Registry!Grant(s)
    BY <2>1, <2>2 DEF Registry!Grant, Registry!Move
  <2> QED  BY <1>c, <2>3 DEF Registry!Step
<1>6. ASSUME NEW s \in Sessions, CancelForward(s) \/ EndSession(s) PROVE Registry!Next
  <2>1. reg' = reg /\ UNCHANGED Wk
    BY <1>6 DEF CancelForward, EndSession
  <2>2. CASE pc[s] = "serving"
    <3>0. Goto(s, "unregister") /\ "unregister" \in SessionPlaces
      BY <1>6, <2>2, PlacesSplit DEF CancelForward, EndSession
    <3>1. St[s] = "serving" /\ St' = [St EXCEPT ![s] = "leaving"]
      <4>1. St[s] = "serving" /\ StageOf["unregister"] = "leaving"
        BY <2>2, StageFacts
      <4> QED  BY <1>d, <3>0, <4>1
    <3>2. Registry!Leave(s)
      BY <2>1, <3>1 DEF Registry!Leave, Registry!Move
    <3> QED  BY <1>c, <3>2 DEF Registry!Step
  <2>3. CASE pc[s] # "serving"
    <3>1. pc[s] = "idle" /\ Goto(s, "done")
      BY <1>6, <2>3 DEF CancelForward, EndSession
    <3>2. St[s] = "free" /\ St' = [St EXCEPT ![s] = "ended"]
      BY <1>d, <3>1, StageFacts, PlacesSplit
    <3>3. Registry!Quit(s)
      BY <2>1, <3>2 DEF Registry!Quit, Registry!Move
    <3> QED  BY <1>c, <3>3 DEF Registry!Step
  <2> QED  BY <2>2, <2>3
<1>7. ASSUME NEW s \in Sessions, Unregister(s) PROVE Registry!Next
  <2>0. Goto(s, "deleteStale") /\ "deleteStale" \in SessionPlaces
    BY <1>7, PlacesSplit DEF Unregister
  <2>1. St[s] = "leaving" /\ St' = [St EXCEPT ![s] = "released"] /\ UNCHANGED Wk
    <3>1. St[s] = "leaving" /\ StageOf["deleteStale"] = "released"
      BY <1>7, StageFacts DEF Unregister
    <3>2. UNCHANGED Wk
      BY <1>7 DEF Unregister
    <3> QED  BY <1>d, <2>0, <3>1, <3>2
  <2>2. cur[s] \in Forward /\ ForwardKey(cur[s]) \in Keys /\ cur[s] # NoForward
    BY <1>7, ForwardFacts, ForwardSyncAssumption
       DEF Unregister, CurSound, Holding, Authorised, Forward
  \* Under no other key, as the registry holds every forward under its own.
  <2>3. \A k \in Keys : reg[k] = cur[s] => k = ForwardKey(cur[s])
    BY <2>2 DEF RegistryBacked
  <2>4. reg' = [k \in DOMAIN reg |-> IF reg[k] = Wk[s] THEN NoForward ELSE reg[k]]
    BY <1>7, <2>2, <2>3 DEF Unregister, RegistryWithout
  <2>5. Registry!Release(s)
    BY <2>1, <2>4 DEF Registry!Release, Registry!Move
  <2> QED  BY <1>c, <2>5 DEF Registry!Step
<1>8. ASSUME NEW s \in Sessions, DeleteStale(s) PROVE Registry!Next
  <2>1. /\ St[s] = "released"
        /\ \/ St' = [St EXCEPT ![s] = "free"]
           \/ St' = [St EXCEPT ![s] = "ended"]
    <3>1. St[s] = "released" /\ StageOf["idle"] = "free" /\ StageOf["done"] = "ended"
      BY <1>8, StageFacts DEF DeleteStale
    <3>2. Goto(s, "idle") \/ Goto(s, "done")
      BY <1>8 DEF DeleteStale
    <3>3. "idle" \in SessionPlaces /\ "done" \in SessionPlaces
      BY PlacesSplit
    <3>4. CASE Goto(s, "idle")
      BY <1>d, <3>1, <3>3, <3>4
    <3>5. CASE Goto(s, "done")
      BY <1>d, <3>1, <3>3, <3>5
    <3> QED  BY <3>1, <3>2, <3>4, <3>5
  <2>2. reg' = reg /\ Wk' = [Wk EXCEPT ![s] = NoForward]
    BY <1>8 DEF DeleteStale
  <2>3. Registry!Finish(s)
    BY <2>1, <2>2 DEF Registry!Finish, Registry!Move, Registry!Drop
  <2> QED  BY <1>c, <2>3 DEF Registry!Step
<1>9. CASE TickStep \/ TickTimeout \/ CaddyStep
  <2>1. reg' = reg /\ \A s \in Sessions : pc'[s] = pc[s] /\ cur'[s] = cur[s]
    BY <1>9 DEF TickStep, Tick, Snapshot, NextForward, LastForward, CheckRoute, CheckCatchAll,
                TickTimeout, CaddyStep, CaddyStop, CaddyStart, CaddyLoad, Goto
  <2> QED  BY <1>b, <2>1
<1>10. CASE RelayRestart
  <2> DEFINE gone == {s \in Sessions : Interrupted(s)}
  <2>1. reg' = [k \in DOMAIN reg |-> NoForward]
    BY <1>10 DEF RelayRestart
  <2>2. /\ St' = [s \in Sessions |-> IF s \in gone THEN "ended" ELSE St[s]]
        /\ Wk' = [s \in Sessions |-> IF s \in gone THEN NoForward ELSE Wk[s]]
    BY <1>10, StageFacts DEF RelayRestart
  <2>3. \A s \in Sessions \ gone : St[s] \in {"free", "ended"}
    BY StageFacts DEF Interrupted
  <2>4. gone \in SUBSET Sessions
    OBVIOUS
  <2>5. Registry!Restart
    BY <2>1, <2>2, <2>3, <2>4 DEF Registry!Restart
  <2> QED  BY <2>5 DEF Registry!Next
<1> QED
  BY <1>1, <1>2, <1>3, <1>4, <1>5, <1>6, <1>7, <1>8, <1>9, <1>10
     DEF Next, HandlerStep, ClientStep

\* The relay with all its helpers, retries, faults and restarts implements the
\* plain registry of ForwardRegistry: srv.reg only ever goes through grants,
\* takeovers, and releases of what is still the session's own.
THEOREM SyncImplementsRegistry == Spec => ImplementsRegistry
<1>1. IInv /\ [Next]_vars => [Registry!Next]_(Registry!vars)
  BY StepRegistry
<1> QED
  BY <1>1, InitRegistry, SyncInvariant, PTL DEF Spec, ImplementsRegistry, Registry!Spec
-----------------------------------------------------------------------------
(* An announced forward is served while nothing is lost.                    *)

Calm == faults = 0 /\ restarts = 0 /\ RejectDuplicateIds

(* A session that is somewhere has asked; one that reads no more requests   *)
(* has no connection.                                                      *)
SessionSteady ==
  \A s \in Sessions : /\ pc[s] \notin {"idle", "done"} => requests[s] >= 1
                      /\ pc[s] # "done" /\ ~looping[s] => ~ctxLive[s]

(* What the tick has copied out of the registry and not finished with, and  *)
(* what that says of the sessions: theirs is the forward copied unless they *)
(* have asked again.                                                       *)
TickWork == todo \cup (IF pc[Reconciler] \in {"checkRoute", "deleteRoute", "postRoute"}
                         THEN {cur[Reconciler]} ELSE {})

TickKnows ==
  \A f \in TickWork :
    /\ requests[f.sess] >= 1 /\ ~Fallen(f.sess)
    /\ requests[f.sess] = 1 => /\ pc[f.sess] \notin SharedPlaces \cup {"record"}
                               /\ cur[f.sess] # NoForward => cur[f.sess] = f

(* While nothing is lost, srv0 is always found by a live request.           *)
CalmCaddy ==
  Calm => /\ up
          /\ srv0 # "absent"
          /\ ctxLive[Reconciler]
          /\ \A a \in Actors : pc[a] = "createSrv0" => ~ctxLive[a]

IdsUnique == RejectDuplicateIds => IdsDistinct(routes)

CatchAllManaged ==
  ~ManagesWildcard =>
    /\ ~HasId(routes, CatchAll)
    /\ \A a \in Actors : pc[a] \notin {"deleteCatchAll", "postCatchAll"}

(* From the POST of its route on, and from the moment the catch-all is out   *)
(* of its way.                                                             *)
Posted == {"deleteCatchAll", "postCatchAll", "record", "serving"}
Settled(s) == \/ pc[s] \in {"record", "serving"}
              \/ pc[s] = "postCatchAll" /\ ctxLive[s]

RoutePut ==
  \A s \in Sessions : Undisturbed(s) /\ pc[s] \in Posted =>
    Contains(routes, ForwardRoute(cur[s]))

CatchAllBehind ==
  \A s \in Sessions : Undisturbed(s) /\ Settled(s) =>
    Precedes(routes, Host(cur[s]), CatchAll)

TickLeaves ==
  \A s \in Sessions :
    Undisturbed(s) /\ pc[s] = "serving" /\ pc[Reconciler] \in {"deleteRoute", "postRoute"}
      => cur[Reconciler].sess # s

AInv == /\ SessionSteady
        /\ TickKnows
        /\ CalmCaddy
        /\ IdsUnique
        /\ CatchAllManaged
        /\ RoutePut
        /\ CatchAllBehind
        /\ TickLeaves

LEMMA InitAInv == Init => AInv
<1> SUFFICES ASSUME Init PROVE AInv
  OBVIOUS
<1>1. /\ \A s \in Sessions : pc[s] = "idle" /\ looping[s] /\ requests[s] = 0
      /\ pc[Reconciler] = "asleep" /\ todo = {} /\ ctxLive[Reconciler]
      /\ \A a \in Actors : pc[a] \in {"asleep", "idle"}
      /\ routes = <<>> /\ up /\ srv0 = "caddyfile"
  BY ActorsSplit DEF Init
<1>2. SessionSteady /\ TickKnows /\ CalmCaddy /\ RoutePut /\ CatchAllBehind /\ TickLeaves
  BY <1>1 DEF SessionSteady, TickKnows, TickWork, CalmCaddy, RoutePut, CatchAllBehind,
              TickLeaves, Posted, Settled
<1>3. IdsUnique /\ CatchAllManaged
  BY <1>1 DEF IdsUnique, IdsDistinct, CatchAllManaged, HasId
<1> QED  BY <1>2, <1>3 DEF AInv

SameSession(s) ==
  /\ pc'[s] = pc[s] /\ cur'[s] = cur[s] /\ ctxLive'[s] = ctxLive[s]
  /\ looping'[s] = looping[s] /\ requests'[s] = requests[s]

LEMMA SharedStepKeeps ==
  ASSUME NEW a \in Actors, SharedStep(a)
  PROVE  UNCHANGED <<up, ctxLive, looping, requests, restarts>>
BY DEF SharedStep, GetSrv0, CreateSrv0, EnsureTLS, DeleteRoute, PostRoute,
       DeleteCatchAll, PostCatchAll, caddyVars, sessionVars

LEMMA SharedStepOthers ==
  ASSUME TypeOK, NEW a \in Actors, SharedStep(a), NEW b \in Actors, b # a
  PROVE  pc'[b] = pc[b] /\ cur'[b] = cur[b]
<1>1. pc \in [Actors -> SessionPlaces \cup TickPlaces]
      /\ cur \in [Actors -> Forward \cup {NoForward}]
  BY DEF TypeOK, PlacesOK
<1>2. CASE Abandon(a)
  BY <1>1, <1>2 DEF Abandon, Goto
<1>3. CASE UNCHANGED <<pc, cur>>
  BY <1>3
<1>4. ASSUME NEW place, Goto(a, place), UNCHANGED cur PROVE pc'[b] = pc[b] /\ cur'[b] = cur[b]
  BY <1>1, <1>4 DEF Goto
<1> QED  BY <1>2, <1>3, <1>4, SharedStepShape

(* Only its own steps and a restart of the relay change a session.          *)
LEMMA SessionAlone ==
  ASSUME TypeOK, [Next]_vars, NEW s \in Sessions
  PROVE  \/ SharedStep(s) \/ HandlerStep(s) \/ ClientStep(s) \/ RelayRestart
         \/ SameSession(s)
<1> USE ActorsSplit DEF TypeOK, PlacesOK
<1>1. CASE UNCHANGED vars
  BY <1>1 DEF vars, sessionVars, SameSession
<1>2. ASSUME NEW a \in Actors, SharedStep(a), a # s PROVE SameSession(s)
  <2>1. UNCHANGED <<ctxLive, looping, requests>>
    BY <1>2, SharedStepKeeps
  <2>2. pc'[s] = pc[s] /\ cur'[s] = cur[s]
    BY <1>2, SharedStepShape DEF Abandon, Goto
  <2> QED  BY <2>1, <2>2 DEF SameSession
<1>3. ASSUME NEW t \in Sessions, HandlerStep(t), t # s PROVE SameSession(s)
  BY <1>3 DEF HandlerStep, Record, EndSession, Unregister, DeleteStale, Goto,
              sessionVars, SameSession
<1>4. ASSUME NEW t \in Sessions, ClientStep(t), t # s PROVE SameSession(s)
  BY <1>4 DEF ClientStep, Disconnect, CancelForward, TcpipForward, Goto,
              sessionVars, SameSession
<1>5. CASE TickStep \/ TickTimeout
  BY <1>5 DEF TickStep, Tick, Snapshot, NextForward, LastForward, CheckRoute,
              CheckCatchAll, TickTimeout, Goto, sessionVars, SameSession
<1>6. CASE CaddyStep
  BY <1>6 DEF CaddyStep, CaddyStop, CaddyStart, CaddyLoad, sessionVars, SameSession
<1> QED  BY <1>1, <1>2, <1>3, <1>4, <1>5, <1>6 DEF Next

(* And only its own steps and a restart change the tick.                    *)
LEMMA TickAlone ==
  ASSUME TypeOK, [Next]_vars
  PROVE  \/ SharedStep(Reconciler) \/ TickStep \/ RelayRestart
         \/ UNCHANGED todo /\ pc'[Reconciler] = pc[Reconciler]
                           /\ cur'[Reconciler] = cur[Reconciler]
<1> USE ActorsSplit DEF TypeOK, PlacesOK
<1>1. CASE UNCHANGED vars
  BY <1>1 DEF vars, tickVars
<1>2. ASSUME NEW s \in Sessions, SharedStep(s)
      PROVE  UNCHANGED todo /\ pc'[Reconciler] = pc[Reconciler]
                            /\ cur'[Reconciler] = cur[Reconciler]
  BY <1>2, SharedStepShape DEF Abandon, Goto
<1>3. ASSUME NEW s \in Sessions, HandlerStep(s) \/ ClientStep(s)
      PROVE  UNCHANGED todo /\ pc'[Reconciler] = pc[Reconciler]
                            /\ cur'[Reconciler] = cur[Reconciler]
  BY <1>3 DEF HandlerStep, Record, EndSession, Unregister, DeleteStale, ClientStep,
              Disconnect, CancelForward, TcpipForward, Goto, tickVars
<1>4. CASE TickTimeout
  BY <1>4 DEF TickTimeout, tickVars
<1>5. CASE CaddyStep
  BY <1>5 DEF CaddyStep, CaddyStop, CaddyStart, CaddyLoad, tickVars
<1> QED  BY <1>1, <1>2, <1>3, <1>4, <1>5 DEF Next

LEMMA NextSessionSteady ==
  ASSUME IInv, SessionSteady, [Next]_vars
  PROVE  SessionSteady'
<1> SUFFICES ASSUME NEW s \in Sessions
             PROVE  /\ pc'[s] \notin {"idle", "done"} => requests'[s] >= 1
                    /\ pc'[s] # "done" /\ ~looping'[s] => ~ctxLive'[s]
  BY DEF SessionSteady
<1> USE ActorsSplit DEF IInv, TypeOK, PlacesOK
<1>0. /\ pc[s] \notin {"idle", "done"} => requests[s] >= 1
      /\ pc[s] # "done" /\ ~looping[s] => ~ctxLive[s]
      /\ requests[s] \in Nat
  BY DEF SessionSteady
<1>1. CASE SameSession(s)
  BY <1>0, <1>1 DEF SameSession
<1>2. CASE SharedStep(s)
  <2>1. pc[s] \in SharedPlaces /\ UNCHANGED <<ctxLive, looping, requests>>
    BY <1>2, SharedStepShape, SharedStepKeeps
  <2> QED  BY <1>0, <2>1 DEF SharedPlaces
<1>3. CASE HandlerStep(s)
  BY <1>0, <1>3 DEF HandlerStep, Record, EndSession, Unregister, DeleteStale, Goto, sessionVars
<1>4. CASE ClientStep(s)
  BY <1>0, <1>4 DEF ClientStep, Disconnect, CancelForward, TcpipForward, Goto, sessionVars
<1>5. CASE RelayRestart
  BY <1>0, <1>5 DEF RelayRestart, Interrupted
<1> QED  BY <1>1, <1>2, <1>3, <1>4, <1>5, SessionAlone

LEMMA NextTickKnows ==
  ASSUME IInv, IInv', SessionSteady, TickKnows, [Next]_vars
  PROVE  TickKnows'
<1> SUFFICES ASSUME NEW f \in TickWork'
             PROVE  /\ requests'[f.sess] >= 1 /\ ~Fallen(f.sess)'
                    /\ requests'[f.sess] = 1 =>
                         /\ pc'[f.sess] \notin SharedPlaces \cup {"record"}
                         /\ cur'[f.sess] # NoForward => cur'[f.sess] = f
  BY DEF TickKnows
<1> DEFINE t == f.sess
<1> USE ActorsSplit DEF IInv, TypeOK, PlacesOK
<1>1. f \in Forward /\ t \in Sessions
  <2>1. f \in Forward
    BY DEF TickWork, TickSound, Authorised
  <2> QED  BY <2>1, ForwardFacts
<1> HIDE DEF t
<1>2. CASE f \in TickWork
  <2>1. /\ requests[t] >= 1 /\ requests[t] \in Nat /\ ~Fallen(t)
        /\ requests[t] = 1 => /\ pc[t] \notin SharedPlaces \cup {"record"}
                              /\ cur[t] # NoForward => cur[t] = f
        /\ pc[t] # "done" /\ ~looping[t] => ~ctxLive[t]
    BY <1>1, <1>2 DEF TickKnows, SessionSteady, t
  <2>2. CASE SameSession(t)
    BY <2>1, <2>2 DEF SameSession, Fallen, t
  <2>3. CASE SharedStep(t)
    <3>1. pc[t] \in SharedPlaces /\ UNCHANGED <<ctxLive, requests>>
      BY <1>1, <2>3, SharedStepShape, SharedStepKeeps
    <3>2. pc'[t] # "done"
      BY <1>1, <2>3, <3>1, SharedStepShape DEF Abandon, Goto, SharedPlaces
    <3> QED  BY <1>1, <2>1, <3>1, <3>2 DEF Fallen, t
  <2>4. CASE HandlerStep(t)
    <3>1. CASE Record(t)
      BY <1>1, <2>1, <3>1 DEF Record, Goto, sessionVars, Fallen, t
    <3>2. CASE EndSession(t)
      BY <1>1, <2>1, <3>2 DEF EndSession, Goto, Fallen, t, SharedPlaces
    <3>3. CASE Unregister(t)
      BY <1>1, <2>1, <3>3 DEF Unregister, Goto, sessionVars, Fallen, t, SharedPlaces
    <3>4. CASE DeleteStale(t)
      BY <1>1, <2>1, <3>4 DEF DeleteStale, Goto, sessionVars, Fallen, t, SharedPlaces
    <3> QED  BY <2>4, <3>1, <3>2, <3>3, <3>4 DEF HandlerStep
  <2>5. CASE ClientStep(t)
    <3>1. CASE Disconnect(t)
      BY <1>1, <2>1, <3>1 DEF Disconnect, sessionVars, Fallen, t
    <3>2. CASE CancelForward(t)
      BY <1>1, <2>1, <3>2 DEF CancelForward, Goto, Fallen, t, SharedPlaces
    <3>3. ASSUME NEW svc \in Services, TcpipForward(t, svc)
          PROVE  /\ requests'[t] >= 2 /\ requests'[t] \in Nat /\ pc'[t] # "done"
      BY <1>1, <2>1, <3>3 DEF TcpipForward, Goto
    <3> QED  BY <2>5, <3>1, <3>2, <3>3 DEF ClientStep, Fallen, t
  <2>6. CASE RelayRestart
    BY <2>6 DEF RelayRestart, TickWork
  <2> QED  BY <1>1, <2>2, <2>3, <2>4, <2>5, <2>6, SessionAlone
<1>3. CASE f \notin TickWork
  <2>1. Snapshot
    <3>1. CASE SharedStep(Reconciler)
      BY <1>3, <3>1, SharedStepShape DEF TickWork, Abandon, Goto, SharedPlaces
    <3>2. CASE TickStep
      BY <1>3, <3>2 DEF TickWork, TickStep, Tick, NextForward, LastForward, CheckRoute,
                        CheckCatchAll, Goto, tickVars, AfterVisits
    <3>3. CASE RelayRestart
      BY <3>3 DEF RelayRestart, TickWork
    <3> QED  BY <1>3, <3>1, <3>2, <3>3, TickAlone DEF TickWork
  <2>2. /\ UNCHANGED <<ctxLive, cur, requests>>
        /\ todo' = {reg[k] : k \in Keys} \ {NoForward}
        /\ \A s \in Sessions : pc'[s] = pc[s]
        /\ pc'[Reconciler] = "nextForward"
    BY <2>1 DEF Snapshot, Goto, sessionVars
  <2>3. PICK k \in Keys : reg[k] = f /\ f # NoForward
    BY <2>2 DEF TickWork
  <2>4. cur[t] = f /\ pc[t] \in {"serving", "unregister"}
    BY <2>3 DEF RegistryBacked, t
  <2>5. requests[t] >= 1
    BY <1>1, <2>4 DEF SessionSteady
  <2> QED  BY <1>1, <2>2, <2>4, <2>5 DEF Fallen, SharedPlaces, t
<1> QED  BY <1>2, <1>3

(* Nothing lost so far means nothing lost before.                           *)
LEMMA CalmBefore ==
  ASSUME TypeOK, TypeOK', [Next]_vars, Calm'
  PROVE  Calm /\ faults' = faults /\ restarts' = restarts
<1> USE DEF TypeOK
<1>1. faults' >= faults /\ restarts' >= restarts
  <2>1. CASE UNCHANGED vars
    BY <2>1 DEF vars, boundVars
  <2>2. ASSUME NEW a \in Actors, SharedStep(a) PROVE faults' >= faults /\ restarts' >= restarts
    BY <2>2 DEF SharedStep, GetSrv0, CreateSrv0, EnsureTLS, DeleteRoute, PostRoute,
                DeleteCatchAll, PostCatchAll, Request
  <2>3. ASSUME NEW s \in Sessions, HandlerStep(s) \/ ClientStep(s)
        PROVE  faults' >= faults /\ restarts' >= restarts
    BY <2>3 DEF HandlerStep, Record, EndSession, Unregister, DeleteStale, ClientStep,
                Disconnect, CancelForward, TcpipForward, boundVars, Request
  <2>4. CASE TickStep \/ TickTimeout
    BY <2>4 DEF TickStep, Tick, Snapshot, NextForward, LastForward, CheckRoute,
                CheckCatchAll, TickTimeout, boundVars, Request
  <2>5. CASE CaddyStep \/ RelayRestart
    BY <2>5 DEF CaddyStep, CaddyStop, CaddyStart, CaddyLoad, RelayRestart, boundVars
  <2> QED  BY <2>1, <2>2, <2>3, <2>4, <2>5 DEF Next
<1> QED  BY <1>1 DEF Calm

(* Then a request is answered exactly when its context is live.             *)
LEMMA CalmRequest ==
  ASSUME Calm, faults' = faults, up, NEW live \in BOOLEAN,
         NEW applied \in BOOLEAN, NEW answered \in BOOLEAN, Request(live, applied, answered)
  PROVE  applied = live /\ answered = live
BY DEF Calm, Request

LEMMA NextCalmCaddy ==
  ASSUME IInv, IInv', CalmCaddy, [Next]_vars
  PROVE  CalmCaddy'
<1> SUFFICES ASSUME Calm'
             PROVE  /\ up' /\ srv0' # "absent" /\ ctxLive'[Reconciler]
                    /\ \A a \in Actors : pc'[a] = "createSrv0" => ~ctxLive'[a]
  BY DEF CalmCaddy
<1> USE ActorsSplit DEF IInv, TypeOK, PlacesOK
<1>1. Calm /\ faults' = faults /\ restarts' = restarts /\ faults = 0 /\ restarts = 0
  BY CalmBefore DEF Calm
<1>2. /\ up /\ srv0 # "absent" /\ ctxLive[Reconciler]
      /\ \A a \in Actors : pc[a] = "createSrv0" => ~ctxLive[a]
  BY <1>1 DEF CalmCaddy
<1>3. CASE UNCHANGED vars
  BY <1>2, <1>3 DEF vars, caddyVars
<1>4. ASSUME NEW a \in Actors, SharedStep(a)
      PROVE  /\ up' /\ srv0' # "absent" /\ ctxLive'[Reconciler]
             /\ \A b \in Actors : pc'[b] = "createSrv0" => ~ctxLive'[b]
  <2>1. UNCHANGED <<up, ctxLive>>
    BY <1>4, SharedStepKeeps
  <2>2. srv0' # "absent"
    BY <1>2, <1>4 DEF SharedStep, GetSrv0, CreateSrv0, EnsureTLS, DeleteRoute, PostRoute,
                      DeleteCatchAll, PostCatchAll, caddyVars
  <2>3. pc'[a] = "createSrv0" => ~ctxLive[a]
    <3>1. CASE GetSrv0(a)
      <4>1. PICK applied, answered \in BOOLEAN :
              /\ Request(ctxLive[a], applied, answered)
              /\ answered => pc'[a] # "createSrv0"
        BY <1>2, <3>1 DEF GetSrv0, Goto
      <4>2. answered = ctxLive[a]
        BY <1>1, <1>2, <4>1, CalmRequest
      <4> QED  BY <4>1, <4>2
    <3>2. CASE CreateSrv0(a)
      BY <3>2 DEF CreateSrv0, Abandon, Goto
    <3>3. CASE EnsureTLS(a)
      BY <3>3 DEF EnsureTLS, Abandon, Goto
    <3>4. CASE DeleteRoute(a) \/ DeleteCatchAll(a)
      BY <3>4 DEF DeleteRoute, DeleteCatchAll, Goto
    <3>5. CASE PostRoute(a)
      BY <3>5 DEF PostRoute, AfterRoute, Abandon, Goto
    <3>6. CASE PostCatchAll(a)
      BY <3>6 DEF PostCatchAll, Abandon, Goto
    <3> QED  BY <1>4, <3>1, <3>2, <3>3, <3>4, <3>5, <3>6 DEF SharedStep
  <2>4. \A b \in Actors : b # a => pc'[b] = pc[b]
    BY <1>4, SharedStepOthers
  <2> QED  BY <1>2, <2>1, <2>2, <2>3, <2>4
<1>5. ASSUME NEW s \in Sessions, HandlerStep(s) \/ ClientStep(s)
      PROVE  /\ up' /\ srv0' # "absent" /\ ctxLive'[Reconciler]
             /\ \A b \in Actors : pc'[b] = "createSrv0" => ~ctxLive'[b]
  <2>1. /\ up' = up /\ srv0' = srv0
        /\ \A b \in Actors : ctxLive'[b] => ctxLive[b]
        /\ ctxLive'[Reconciler] = ctxLive[Reconciler]
    BY <1>5 DEF HandlerStep, Record, EndSession, Unregister, DeleteStale, ClientStep,
                Disconnect, CancelForward, TcpipForward, caddyVars
  <2>2. \A b \in Actors : pc'[b] = "createSrv0" => pc[b] = "createSrv0"
    BY <1>5 DEF HandlerStep, Record, EndSession, Unregister, DeleteStale, ClientStep,
                Disconnect, CancelForward, TcpipForward, Goto
  <2> QED  BY <1>2, <2>1, <2>2
<1>9. ~TickTimeout
  BY <1>1 DEF TickTimeout
<1>6. CASE TickStep
  <2>1. /\ up' = up /\ srv0' = srv0 /\ ctxLive'[Reconciler]
        /\ \A b \in Actors : b # Reconciler => ctxLive'[b] = ctxLive[b]
    BY <1>2, <1>6 DEF TickStep, Tick, Snapshot, NextForward, LastForward, CheckRoute,
                CheckCatchAll, caddyVars
  <2>2. \A b \in Actors : b # Reconciler => pc'[b] = pc[b]
    BY <1>6 DEF TickStep, Tick, Snapshot, NextForward, LastForward, CheckRoute,
                CheckCatchAll, Goto
  <2>3. pc'[Reconciler] # "createSrv0"
    BY <1>6 DEF TickStep, Tick, Snapshot, NextForward, LastForward, CheckRoute,
                CheckCatchAll, Goto, AfterVisits
  <2> QED  BY <1>2, <2>1, <2>2, <2>3
<1>7. CASE CaddyStep
  BY <1>1, <1>2, <1>7 DEF CaddyStep, CaddyStop, CaddyStart, CaddyLoad
<1>8. CASE RelayRestart
  BY <1>2, <1>8 DEF RelayRestart, caddyVars
<1> QED  BY <1>3, <1>4, <1>5, <1>6, <1>7, <1>8, <1>9 DEF Next

(* Every id is in routes at most once, whatever is lost.                    *)
LEMMA NextIdsUnique ==
  ASSUME IInv, IdsUnique, [Next]_vars
  PROVE  IdsUnique'
<1> SUFFICES ASSUME RejectDuplicateIds PROVE IdsDistinct(routes')
  BY DEF IdsUnique
<1>1. IdsDistinct(routes) /\ routes \in Seq(Route)
  BY DEF IdsUnique, IInv, TypeOK
<1>2. CASE routes' = routes
  BY <1>1, <1>2
<1>3. CASE routes' = <<>>
  BY <1>3 DEF IdsDistinct
<1>4. ASSUME NEW id \in Names \cup {CatchAll}, routes' = DeleteId(routes, id)
      PROVE  IdsDistinct(routes')
  BY <1>1, <1>4, DeleteIdKeeps
<1>5. ASSUME NEW r \in Route, Appendable(routes, r.id), routes' = Append(routes, r)
      PROVE  IdsDistinct(routes')
  BY <1>1, <1>5, AppendKeeps DEF Appendable
<1>6. CatchAllRoute \in Route /\ CatchAllRoute.id = CatchAll
  BY DEF CatchAllRoute, Route
<1> QED  BY <1>2, <1>3, <1>4, <1>5, <1>6, NextRoutes, ForwardFacts DEF RoutesStep

LEMMA NextCatchAllManaged ==
  ASSUME IInv, CatchAllManaged, [Next]_vars
  PROVE  CatchAllManaged'
<1> SUFFICES ASSUME ~ManagesWildcard
             PROVE  /\ ~HasId(routes', CatchAll)
                    /\ \A a \in Actors : pc'[a] \notin {"deleteCatchAll", "postCatchAll"}
  BY DEF CatchAllManaged
<1> USE ActorsSplit DEF IInv, TypeOK, PlacesOK
<1>1. /\ ~HasId(routes, CatchAll)
      /\ \A a \in Actors : pc[a] \notin {"deleteCatchAll", "postCatchAll"}
  BY DEF CatchAllManaged
<1>2. ~HasId(routes', CatchAll)
  <2>1. CASE routes' = <<>>
    BY <2>1 DEF HasId
  <2>2. ASSUME NEW id, routes' = DeleteId(routes, id) PROVE ~HasId(routes', CatchAll)
    BY <1>1, <2>2, DeleteIdKeeps
  <2>3. ASSUME NEW f \in Forward, routes' = Append(routes, ForwardRoute(f))
        PROVE  ~HasId(routes', CatchAll)
    <3>1. ForwardRoute(f) \in Route /\ ForwardRoute(f).id # CatchAll
      BY ForwardFacts, CaddyAssumption
    <3> QED  BY <1>1, <2>3, <3>1, AppendKeeps
  <2> QED  BY <1>1, <2>1, <2>2, <2>3, NextRoutes DEF RoutesStep
<1>3. ASSUME NEW a \in Actors PROVE pc'[a] \notin {"deleteCatchAll", "postCatchAll"}
  <2>1. ASSUME NEW b \in Actors, SharedStep(b)
        PROVE  pc'[a] \notin {"deleteCatchAll", "postCatchAll"}
    <3>1. pc[b] \notin {"deleteCatchAll", "postCatchAll"}
          /\ pc[a] \notin {"deleteCatchAll", "postCatchAll"}
      BY <1>1
    <3>2. CASE GetSrv0(b)
      BY <3>1, <3>2 DEF GetSrv0, Goto
    <3>3. CASE CreateSrv0(b)
      BY <3>1, <3>3 DEF CreateSrv0, Abandon, Goto
    <3>4. CASE EnsureTLS(b)
      BY <3>1, <3>4 DEF EnsureTLS, Abandon, Goto
    <3>5. CASE DeleteRoute(b)
      BY <3>1, <3>5 DEF DeleteRoute, Goto
    <3>6. CASE PostRoute(b)
      BY <3>1, <3>6 DEF PostRoute, AfterRoute, Abandon, Goto
    <3> QED  BY <2>1, <3>1, <3>2, <3>3, <3>4, <3>5, <3>6
          DEF SharedStep, DeleteCatchAll, PostCatchAll
  <2>2. ASSUME NEW s \in Sessions, HandlerStep(s) \/ ClientStep(s)
        PROVE  pc'[a] \notin {"deleteCatchAll", "postCatchAll"}
    BY <1>1, <2>2 DEF HandlerStep, Record, EndSession, Unregister, DeleteStale, ClientStep,
                      Disconnect, CancelForward, TcpipForward, Goto
  <2>3. CASE TickStep \/ TickTimeout
    BY <1>1, <2>3 DEF TickStep, Tick, Snapshot, NextForward, LastForward, CheckRoute,
                      CheckCatchAll, TickTimeout, Goto, AfterVisits
  <2>4. CASE CaddyStep \/ UNCHANGED vars
    BY <1>1, <2>4 DEF CaddyStep, CaddyStop, CaddyStart, CaddyLoad, vars
  <2>5. CASE RelayRestart
    <3>1. pc'[a] \in {"asleep", "done", pc[a]}
      BY <2>5 DEF RelayRestart
    <3> QED  BY <1>1, <3>1
  <2> QED  BY <2>1, <2>2, <2>3, <2>4, <2>5 DEF Next
<1> QED  BY <1>2, <1>3

(* How a session that has a route posted got where it is.                   *)
LEMMA PostedStep ==
  ASSUME IInv, SessionSteady, [Next]_vars,
         NEW s \in Sessions, pc'[s] \in Posted, requests'[s] = 1
  PROVE  /\ requests[s] = 1 /\ cur'[s] = cur[s] /\ (ctxLive'[s] => ctxLive[s])
         /\ ~RelayRestart
         /\ \/ pc'[s] = pc[s]
            \/ PostRoute(s) \/ DeleteCatchAll(s) \/ PostCatchAll(s) \/ Record(s)
<1> USE ActorsSplit DEF IInv, TypeOK, PlacesOK
<1>0. /\ pc[s] \notin {"idle", "done"} => requests[s] >= 1
      /\ requests[s] \in Nat
  BY DEF SessionSteady
<1>1. ~RelayRestart
  <2> SUFFICES ASSUME RelayRestart PROVE FALSE
    OBVIOUS
  <2>1. pc'[s] \in {"done", pc[s]} /\ (Interrupted(s) => pc'[s] = "done")
    BY DEF RelayRestart
  <2> QED  BY <2>1, <1>0 DEF Interrupted, Posted
<1>2. CASE SameSession(s)
  BY <1>1, <1>2 DEF SameSession
<1>3. CASE SharedStep(s)
  <2>1. UNCHANGED <<ctxLive, requests>>
    BY <1>3, SharedStepKeeps
  <2>2. CASE GetSrv0(s)
    BY <2>2 DEF GetSrv0, Goto, Posted
  <2>3. CASE CreateSrv0(s)
    BY <2>3 DEF CreateSrv0, Abandon, Goto, Posted
  <2>4. CASE EnsureTLS(s)
    BY <2>4 DEF EnsureTLS, Abandon, Goto, Posted
  <2>5. CASE DeleteRoute(s)
    BY <2>5 DEF DeleteRoute, Goto, Posted
  <2>6. CASE PostRoute(s)
    <3>1. cur' = cur
      BY <2>6 DEF PostRoute, Abandon, Goto, Posted
    <3> QED  BY <1>1, <2>1, <2>6, <3>1
  <2>7. CASE DeleteCatchAll(s)
    BY <1>1, <2>1, <2>7 DEF DeleteCatchAll
  <2>8. CASE PostCatchAll(s)
    <3>1. cur' = cur
      BY <2>8 DEF PostCatchAll, Abandon, Goto, Posted
    <3> QED  BY <1>1, <2>1, <2>8, <3>1
  <2> QED  BY <1>3, <2>2, <2>3, <2>4, <2>5, <2>6, <2>7, <2>8 DEF SharedStep
<1>4. CASE HandlerStep(s)
  <2>1. CASE Record(s)
    BY <1>1, <2>1 DEF Record, sessionVars
  <2> QED  BY <1>4, <2>1 DEF HandlerStep, EndSession, Unregister, DeleteStale, Goto, Posted
<1>5. CASE ClientStep(s)
  <2>1. CASE Disconnect(s)
    BY <1>1, <2>1 DEF Disconnect, sessionVars
  <2>2. ~CancelForward(s)
    BY DEF CancelForward, Goto, Posted
  <2>3. ASSUME NEW svc \in Services, TcpipForward(s, svc) PROVE FALSE
    BY <1>0, <2>3 DEF TcpipForward, Goto, Posted
  <2> QED  BY <1>5, <2>1, <2>2, <2>3 DEF ClientStep
<1> QED  BY <1>1, <1>2, <1>3, <1>4, <1>5, SessionAlone

Clear(s, t) ==
  \/ requests[t] = 0
  \/ requests[t] = 1 /\ cur[t] # NoForward /\ Host(cur[t]) # Host(cur[s])
  \/ Fallen(t)

(* A forward that is undisturbed once its route is posted was so before.    *)
LEMMA UndisturbedBefore ==
  ASSUME IInv, IInv', SessionSteady, [Next]_vars,
         NEW s \in Sessions, Undisturbed(s)', pc'[s] \in Posted
  PROVE  Undisturbed(s) /\ Calm'
<1> USE ActorsSplit DEF IInv, TypeOK, PlacesOK
<1>1. Calm' /\ requests'[s] = 1 /\ \A t \in Sessions \ {s} : Clear(s, t)'
  BY DEF Undisturbed, Calm, Clear
<1>2. Calm /\ requests[s] = 1 /\ cur'[s] = cur[s] /\ ~RelayRestart
  BY <1>1, CalmBefore, PostedStep
<1>3. ASSUME NEW t \in Sessions \ {s} PROVE Clear(s, t)
  <2>1. /\ requests[t] \in Nat
        /\ pc[t] # "done" /\ ~looping[t] => ~ctxLive[t]
    BY DEF SessionSteady
  <2>2. \/ requests'[t] = 0
        \/ requests'[t] = 1 /\ cur'[t] # NoForward /\ Host(cur'[t]) # Host(cur[s])
        \/ pc'[t] = "done" /\ ctxLive'[t]
    BY <1>1, <1>2 DEF Clear, Fallen, Host, ForwardKey
  <2>3. CASE SameSession(t)
    BY <2>2, <2>3 DEF SameSession, Clear, Fallen
  <2>4. CASE SharedStep(t)
    <3>1. pc[t] \in SharedPlaces /\ UNCHANGED <<ctxLive, requests>>
      BY <2>4, SharedStepShape, SharedStepKeeps
    <3>2. pc'[t] # "done"
      BY <2>4, <3>1, SharedStepShape DEF Abandon, Goto, SharedPlaces
    <3>3. cur'[t] \in {cur[t], NoForward}
      BY <2>4, SharedStepShape DEF Abandon
    <3> QED  BY <2>2, <3>1, <3>2, <3>3 DEF Clear
  <2>5. CASE HandlerStep(t)
    <3>1. requests' = requests /\ cur'[t] \in {cur[t], NoForward}
      BY <2>5 DEF HandlerStep, Record, EndSession, Unregister, DeleteStale, sessionVars
    <3>2. ~(pc'[t] = "done" /\ ctxLive'[t])
      BY <2>1, <2>5 DEF HandlerStep, Record, EndSession, Unregister, DeleteStale, Goto
    <3> QED  BY <2>2, <3>1, <3>2 DEF Clear
  <2>6. CASE ClientStep(t)
    <3>1. CASE Disconnect(t)
      BY <2>2, <3>1 DEF Disconnect, sessionVars, Clear, Fallen
    <3>2. CASE CancelForward(t)
      BY <2>2, <3>2 DEF CancelForward, Goto, Clear, Fallen
    <3>3. ASSUME NEW svc \in Services, TcpipForward(t, svc) PROVE Clear(s, t)
      <4>1. requests'[t] = requests[t] + 1 /\ pc'[t] # "done"
        BY <3>3 DEF TcpipForward, Goto
      <4> QED  BY <2>1, <2>2, <4>1 DEF Clear
    <3> QED  BY <2>6, <3>1, <3>2, <3>3 DEF ClientStep
  <2> QED  BY <1>2, <2>3, <2>4, <2>5, <2>6, SessionAlone
<1> QED  BY <1>2, <1>3 DEF Undisturbed, Calm, Clear

(* What happens meanwhile to the route of such a forward: nobody deletes or  *)
(* posts one with its id.                                                  *)
LEMMA OthersRoutes ==
  ASSUME IInv, IInv', AInv, [Next]_vars, Calm',
         NEW s \in Sessions, Undisturbed(s), pc[s] \in Posted
  PROVE  \/ routes' = routes
         \/ \E id : id # Host(cur[s]) /\ routes' = DeleteId(routes, id)
         \/ \E r \in Route : ~HasId(routes, r.id) /\ routes' = Append(routes, r)
<1> DEFINE Goal == \/ routes' = routes
                   \/ \E id : id # Host(cur[s]) /\ routes' = DeleteId(routes, id)
                   \/ \E r \in Route : ~HasId(routes, r.id) /\ routes' = Append(routes, r)
<1> USE ActorsSplit DEF IInv, TypeOK, PlacesOK
<1>1. /\ Calm /\ faults' = faults /\ RejectDuplicateIds
      /\ restarts' = restarts /\ faults = 0 /\ restarts = 0
  BY CalmBefore DEF Calm
<1>2. /\ requests[s] = 1
      /\ \A t \in Sessions \ {s} : Clear(s, t)
  BY DEF Undisturbed, Clear
<1>3. cur[s] \in Forward /\ Host(cur[s]) \in Names
  BY ForwardFacts DEF CurSound, Authorised, Posted, Holding, SharedPlaces
<1>4. ASSUME NEW t \in Sessions \ {s}, pc[t] \in {"deleteRoute", "deleteStale"}
      PROVE  Host(cur[t]) # Host(cur[s])
  <2>1. pc[t] \notin {"idle", "done"} /\ requests[t] \in Nat
    BY <1>4
  <2>2. requests[t] >= 1 /\ ~Fallen(t)
    BY <2>1 DEF AInv, SessionSteady, Fallen
  <2> QED  BY <1>2, <2>1, <2>2 DEF Clear
<1>5. ASSUME pc[Reconciler] = "deleteRoute"
      PROVE  Host(cur[Reconciler]) # Host(cur[s])
  <2> DEFINE f == cur[Reconciler]
  <2>1. f \in Forward /\ f.sess \in Sessions
    BY <1>5, ForwardFacts DEF TickSound, Authorised
  <2>2. f \in TickWork
    BY <1>5 DEF TickWork
  <2>3. f.sess # s
    BY <1>2, <1>5, <2>2 DEF AInv, TickKnows, TickLeaves, Posted, SharedPlaces
  <2>4. /\ requests[f.sess] >= 1 /\ ~Fallen(f.sess)
        /\ requests[f.sess] = 1 => (cur[f.sess] # NoForward => cur[f.sess] = f)
    BY <2>2 DEF AInv, TickKnows
  <2>5. Clear(s, f.sess)
    BY <1>2, <2>1, <2>3
  <2> QED  BY <2>4, <2>5 DEF Clear
<1>6. ASSUME NEW a \in Actors, SharedStep(a) PROVE Goal
  <2>1. CASE DeleteRoute(a)
    <3>1. a # s /\ pc[a] = "deleteRoute"
      BY <2>1 DEF DeleteRoute, Posted
    <3>2. Host(cur[a]) # Host(cur[s])
      BY <1>4, <1>5, <3>1
    <3> QED  BY <2>1, <3>2 DEF DeleteRoute
  <2>2. CASE PostRoute(a)
    <3>1. cur[a] \in Forward
      BY <2>2 DEF PostRoute, TickSound, CurSound, Authorised, Holding, SharedPlaces
    <3>2. ForwardRoute(cur[a]) \in Route /\ ForwardRoute(cur[a]).id = Host(cur[a])
      BY <3>1, ForwardFacts
    <3>3. \/ routes' = routes
          \/ Appendable(routes, Host(cur[a])) /\ routes' = Append(routes, ForwardRoute(cur[a]))
      BY <2>2 DEF PostRoute
    <3> QED  BY <1>1, <3>2, <3>3 DEF Appendable
  <2>3. CASE DeleteCatchAll(a)
    <3>1. CatchAll # Host(cur[s])
      BY <1>3, CaddyAssumption
    <3> QED  BY <2>3, <3>1 DEF DeleteCatchAll
  <2>4. CASE PostCatchAll(a)
    <3>1. CatchAllRoute \in Route /\ CatchAllRoute.id = CatchAll
      BY DEF CatchAllRoute, Route
    <3>2. \/ routes' = routes
          \/ Appendable(routes, CatchAll) /\ routes' = Append(routes, CatchAllRoute)
      BY <2>4 DEF PostCatchAll
    <3> QED  BY <1>1, <3>1, <3>2 DEF Appendable
  <2>5. CASE CreateSrv0(a)
    <3>1. up /\ ~ctxLive[a]
      BY <1>1, <2>5 DEF CreateSrv0, AInv, CalmCaddy
    <3>2. PICK applied, answered \in BOOLEAN :
            /\ Request(ctxLive[a], applied, answered)
            /\ ~applied => routes' = routes
      BY <2>5 DEF CreateSrv0
    <3>3. ctxLive[a] \in BOOLEAN /\ applied = ctxLive[a]
      BY <1>1, <3>1, <3>2, CalmRequest
    <3> QED  BY <3>1, <3>2, <3>3
  <2> QED  BY <1>6, <2>1, <2>2, <2>3, <2>4, <2>5 DEF SharedStep, GetSrv0, EnsureTLS, caddyVars
<1>7. ASSUME NEW t \in Sessions, DeleteStale(t) PROVE Goal
  <2>1. t # s /\ pc[t] = "deleteStale"
    BY <1>7 DEF DeleteStale, Posted
  <2>2. Host(cur[t]) # Host(cur[s])
    BY <1>4, <2>1
  <2> QED  BY <1>7, <2>2 DEF DeleteStale
<1>8. ASSUME NEW t \in Sessions, Record(t) \/ EndSession(t) \/ Unregister(t) \/ ClientStep(t)
      PROVE  routes' = routes
  BY <1>8 DEF Record, EndSession, Unregister, ClientStep, Disconnect, CancelForward,
              TcpipForward, caddyVars
<1>9. CASE TickStep \/ TickTimeout \/ RelayRestart \/ UNCHANGED vars
  BY <1>9 DEF TickStep, Tick, Snapshot, NextForward, LastForward, CheckRoute,
              CheckCatchAll, TickTimeout, RelayRestart, caddyVars, vars
<1>10. CASE CaddyStep
  BY <1>1, <1>10 DEF CaddyStep, CaddyStop, CaddyStart, CaddyLoad
<1> QED  BY <1>6, <1>7, <1>8, <1>9, <1>10 DEF Next, HandlerStep

LEMMA NextRoutePut ==
  ASSUME IInv, IInv', AInv, [Next]_vars,
         NEW s \in Sessions, Undisturbed(s)', pc'[s] \in Posted
  PROVE  Contains(routes', ForwardRoute(cur'[s]))
<1> USE ActorsSplit DEF IInv, TypeOK, PlacesOK
<1>1. /\ Undisturbed(s) /\ Calm' /\ requests'[s] = 1
  BY UndisturbedBefore DEF AInv, Undisturbed
<1>2. /\ cur'[s] = cur[s]
      /\ \/ pc'[s] = pc[s]
         \/ PostRoute(s) \/ DeleteCatchAll(s) \/ PostCatchAll(s) \/ Record(s)
  BY <1>1, PostedStep DEF AInv
<1>3. CASE PostRoute(s)
  <2>1. cur[s] \in Forward /\ ForwardRoute(cur[s]) \in Route
    BY <1>3, ForwardFacts DEF PostRoute, CurSound, Authorised, Holding, SharedPlaces
  <2>2. Calm /\ faults' = faults /\ up
    BY <1>1, CalmBefore DEF AInv, CalmCaddy
  <2>3. PICK applied, answered \in BOOLEAN :
          /\ Request(ctxLive[s], applied, answered)
          /\ answered
          /\ applied => routes' = Append(routes, ForwardRoute(cur[s]))
    BY <1>3 DEF PostRoute, Abandon, Goto, Posted
  <2>4. applied = answered
    BY <2>2, <2>3, CalmRequest
  <2> QED  BY <1>2, <2>1, <2>3, <2>4, AppendKeeps
<1>4. CASE pc[s] \in Posted
  <2>1. cur[s] \in Forward
    BY <1>4 DEF CurSound, Authorised, Posted, Holding, SharedPlaces
  <2>2. ForwardRoute(cur[s]) \in Route /\ ForwardRoute(cur[s]).id = Host(cur[s])
    BY <2>1, ForwardFacts
  <2>3. Contains(routes, ForwardRoute(cur[s]))
    BY <1>1, <1>4 DEF AInv, RoutePut
  <2>4. CASE routes' = routes
    BY <1>2, <2>3, <2>4
  <2>5. ASSUME NEW id, id # Host(cur[s]), routes' = DeleteId(routes, id)
        PROVE  Contains(routes', ForwardRoute(cur[s]))
    BY <2>2, <2>3, <2>5, DeleteIdKeeps
  <2>6. ASSUME NEW r \in Route, routes' = Append(routes, r)
        PROVE  Contains(routes', ForwardRoute(cur[s]))
    BY <2>3, <2>6, AppendKeeps
  <2> QED  BY <1>1, <1>2, <1>4, <2>4, <2>5, <2>6, OthersRoutes
<1> QED  BY <1>2, <1>3, <1>4 DEF DeleteCatchAll, PostCatchAll, Record, Posted

LEMMA NextCatchAllBehind ==
  ASSUME IInv, IInv', AInv, CatchAllManaged', [Next]_vars,
         NEW s \in Sessions, Undisturbed(s)', Settled(s)'
  PROVE  Precedes(routes', Host(cur'[s]), CatchAll)
<1> USE ActorsSplit DEF IInv, TypeOK, PlacesOK
<1>0. pc'[s] \in Posted
  BY DEF Settled, Posted
<1>1. Undisturbed(s) /\ Calm' /\ requests'[s] = 1 /\ RejectDuplicateIds
  BY <1>0, UndisturbedBefore DEF AInv, Undisturbed
<1>2. /\ cur'[s] = cur[s] /\ (ctxLive'[s] => ctxLive[s])
      /\ \/ pc'[s] = pc[s]
         \/ PostRoute(s) \/ DeleteCatchAll(s) \/ PostCatchAll(s) \/ Record(s)
  BY <1>0, <1>1, PostedStep DEF AInv
<1>3. Calm /\ faults' = faults /\ up
  BY <1>1, CalmBefore DEF AInv, CalmCaddy
<1>4. CASE Settled(s)
  <2>1. pc[s] \in Posted
    BY <1>4 DEF Settled, Posted
  <2>2. cur[s] \in Forward
    BY <2>1 DEF CurSound, Authorised, Posted, Holding, SharedPlaces
  <2>3. /\ ForwardRoute(cur[s]) \in Route /\ ForwardRoute(cur[s]).id = Host(cur[s])
        /\ Host(cur[s]) # CatchAll
    BY <2>2, ForwardFacts, CaddyAssumption
  <2>4. HasId(routes, Host(cur[s]))
    <3>1. Contains(routes, ForwardRoute(cur[s]))
      BY <1>1, <2>1 DEF AInv, RoutePut
    <3> QED  BY <2>3, <3>1 DEF Contains, HasId
  <2>5. Precedes(routes, Host(cur[s]), CatchAll)
    BY <1>1, <1>4 DEF AInv, CatchAllBehind
  <2>6. CASE routes' = routes
    BY <1>2, <2>5, <2>6 DEF Host, ForwardKey
  <2>7. ASSUME NEW id, routes' = DeleteId(routes, id)
        PROVE  Precedes(routes', Host(cur[s]), CatchAll)
    BY <2>5, <2>7, DeleteIdKeeps
  <2>8. ASSUME NEW r \in Route, ~HasId(routes, r.id), routes' = Append(routes, r)
        PROVE  Precedes(routes', Host(cur[s]), CatchAll)
    <3>1. r.id # Host(cur[s])
      BY <2>4, <2>8
    <3> QED  BY <2>3, <2>5, <2>8, <3>1, AppendKeeps
  <2>9. Precedes(routes', Host(cur[s]), CatchAll)
    BY <1>1, <2>1, <2>5, <2>6, <2>7, <2>8, OthersRoutes
  <2> QED  BY <1>2, <2>9 DEF Host, ForwardKey
<1>5. CASE ~HasId(routes', CatchAll)
  BY <1>5 DEF Precedes, HasId
<1>6. CASE PostRoute(s)
  <2>1. ~ManagesWildcard
    BY <1>6 DEF PostRoute, AfterRoute, Abandon, Goto, Settled
  <2> QED  BY <1>5, <2>1 DEF CatchAllManaged
<1>7. CASE DeleteCatchAll(s)
  <2>1. ctxLive[s]
    BY <1>2, <1>7 DEF DeleteCatchAll, Goto, Settled
  <2>2. PICK applied, answered \in BOOLEAN :
          /\ Request(ctxLive[s], applied, answered)
          /\ applied => routes' = DeleteId(routes, CatchAll)
    BY <1>7 DEF DeleteCatchAll
  <2>3. applied = ctxLive[s]
    BY <1>3, <2>2, CalmRequest
  <2> QED  BY <1>1, <1>5, <2>1, <2>2, <2>3, DeleteIdKeeps DEF AInv, IdsUnique
<1>8. CASE PostCatchAll(s)
  <2>1. PICK applied, answered \in BOOLEAN :
          Request(ctxLive[s], applied, answered) /\ answered
    BY <1>8 DEF PostCatchAll, Abandon, Goto, Settled
  <2>2. ctxLive[s]
    BY <1>3, <2>1, CalmRequest
  <2> QED  BY <1>4, <1>8, <2>2 DEF PostCatchAll, Settled
<1>9. CASE Record(s)
  BY <1>4, <1>9 DEF Record, Settled
<1>10. CASE pc'[s] = pc[s]
  BY <1>2, <1>4, <1>10 DEF Settled
<1> QED  BY <1>2, <1>6, <1>7, <1>8, <1>9, <1>10

LEMMA NextTickLeaves ==
  ASSUME IInv, IInv', AInv, [Next]_vars, NEW s \in Sessions, Undisturbed(s)',
         pc'[s] = "serving", pc'[Reconciler] \in {"deleteRoute", "postRoute"}
  PROVE  cur'[Reconciler].sess # s
<1> USE ActorsSplit DEF IInv, TypeOK, PlacesOK
<1>1. Undisturbed(s) /\ Calm' /\ requests'[s] = 1 /\ pc'[s] \in Posted
  BY UndisturbedBefore DEF AInv, Undisturbed, Posted
<1>2. /\ requests[s] = 1 /\ pc[s] \in {"record", "serving"} /\ ~RelayRestart
  <2>1. /\ requests[s] = 1 /\ ~RelayRestart
        /\ \/ pc'[s] = pc[s]
           \/ PostRoute(s) \/ DeleteCatchAll(s) \/ PostCatchAll(s) \/ Record(s)
    BY <1>1, PostedStep DEF AInv
  <2> QED  BY <2>1 DEF PostRoute, AfterRoute, DeleteCatchAll, PostCatchAll, Record,
                       Abandon, Goto
<1>3. Calm /\ faults' = faults /\ up /\ ctxLive[Reconciler]
  BY <1>1, CalmBefore DEF AInv, CalmCaddy
<1>4. \/ /\ pc[Reconciler] \in {"deleteRoute", "postRoute"}
         /\ cur'[Reconciler] = cur[Reconciler]
      \/ CheckRoute
  <2>1. CASE SharedStep(Reconciler)
    BY <2>1, SharedStepShape DEF Abandon, Goto
  <2>2. CASE TickStep
    BY <2>2 DEF TickStep, Tick, Snapshot, NextForward, LastForward, CheckCatchAll, Goto,
                AfterVisits
  <2> QED  BY <1>2, <2>1, <2>2, TickAlone
<1>5. CASE /\ pc[Reconciler] \in {"deleteRoute", "postRoute"}
           /\ cur'[Reconciler] = cur[Reconciler]
  <2>1. CASE pc[s] = "serving"
    BY <1>1, <1>5, <2>1 DEF AInv, TickLeaves
  <2>2. CASE pc[s] = "record"
    <3>1. cur[Reconciler] \in TickWork
      BY <1>5 DEF TickWork
    <3> QED  BY <1>2, <1>5, <2>2, <3>1 DEF AInv, TickKnows
  <2> QED  BY <1>2, <2>1, <2>2
<1>6. CASE CheckRoute
  <2> DEFINE f == cur[Reconciler]
  <2> SUFFICES ASSUME f.sess = s PROVE FALSE
    BY <1>6 DEF CheckRoute
  <2>1. f \in TickWork
    BY <1>6 DEF CheckRoute, TickWork
  <2>2. pc[s] = "serving" /\ cur[s] \in Forward
    BY <1>2, <2>1 DEF AInv, TickKnows, CurSound, Authorised, Holding
  <2>3. cur[s] = f
    BY <1>2, <2>1, <2>2, ForwardSyncAssumption DEF AInv, TickKnows, Forward
  <2>4. HasId(routes, Host(f))
    <3>1. Contains(routes, ForwardRoute(f)) /\ ForwardRoute(f).id = Host(f)
      BY <1>1, <2>2, <2>3, ForwardFacts DEF AInv, RoutePut, Posted
    <3> QED  BY <3>1 DEF Contains, HasId
  <2>5. PICK applied, answered \in BOOLEAN :
          /\ Request(ctxLive[Reconciler], applied, answered)
          /\ Present(answered, Host(f)) => pc'[Reconciler] = "nextForward"
    BY <1>6 DEF CheckRoute, Goto
  <2>6. answered
    BY <1>3, <2>5, CalmRequest
  <2> QED  BY <2>4, <2>5, <2>6 DEF Present
<1> QED  BY <1>4, <1>5, <1>6

LEMMA NextAInv ==
  ASSUME IInv, IInv', AInv, [Next]_vars
  PROVE  AInv'
<1>1. SessionSteady' /\ TickKnows' /\ CalmCaddy' /\ IdsUnique' /\ CatchAllManaged'
  BY NextSessionSteady, NextTickKnows, NextCalmCaddy, NextIdsUnique, NextCatchAllManaged
     DEF AInv
<1>2. RoutePut'
  BY NextRoutePut DEF RoutePut
<1>3. CatchAllBehind'
  BY <1>1, NextCatchAllBehind DEF CatchAllBehind
<1>4. TickLeaves'
  BY NextTickLeaves DEF TickLeaves
<1> QED  BY <1>1, <1>2, <1>3, <1>4 DEF AInv

LEMMA AnnouncedFollows ==
  ASSUME IInv, AInv
  PROVE  AnnouncedIsServed
<1> SUFFICES ASSUME NEW s \in Sessions, pc[s] = "serving", Undisturbed(s)
             PROVE  Served(cur[s])
  BY DEF AnnouncedIsServed
<1>1. Calm /\ up /\ IdsDistinct(routes) /\ routes \in Seq(Route)
  BY DEF Undisturbed, Calm, AInv, CalmCaddy, IdsUnique, IInv, TypeOK
<1>2. cur[s] \in Forward
  BY DEF IInv, CurSound, Authorised, Holding
<1>3. /\ ForwardRoute(cur[s]) \in Route
      /\ ForwardRoute(cur[s]).id = Host(cur[s]) /\ ForwardRoute(cur[s]).dial = cur[s].sess
  BY <1>2, ForwardFacts
<1>4. Contains(routes, ForwardRoute(cur[s])) /\ Precedes(routes, Host(cur[s]), CatchAll)
  BY DEF AInv, RoutePut, CatchAllBehind, Posted, Settled
<1> QED  BY <1>1, <1>3, <1>4, FirstIsDialed DEF Served

\* While nothing is lost, a forward is served from the moment its client is
\* told so, whatever the other sessions and the tick do with the catch-all and
\* whatever routes an earlier relay has left in Caddy.
THEOREM SyncAnnouncedIsServed == Spec => []AnnouncedIsServed
<1>1. IInv /\ IInv' /\ AInv /\ [Next]_vars => AInv'
  BY NextAInv
<1>2. IInv /\ AInv => AnnouncedIsServed
  BY AnnouncedFollows
<1> QED  BY <1>1, <1>2, InitAInv, SyncInvariant, PTL DEF Spec
=============================================================================
