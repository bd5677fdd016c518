-------------------------- MODULE AcceptLoopProofs --------------------------
(* Proofs about AcceptLoop, for any finite set of connections and any limit *)
(* and capacity.                                                           *)
EXTENDS AcceptLoop, FiniteSetTheorems, TLAPS

(* The accept loop has one connection in its hands, or none.               *)
HeldOK == At({"held"}) = IF acceptor = "accept" THEN {} ELSE {held}

IInv == TypeOK /\ CountersExact /\ HeldOK /\ LimitNeverBites

LEMMA AtFinite ==
  ASSUME NEW ps
  PROVE  /\ IsFiniteSet(At(ps)) /\ Cardinality(At(ps)) \in Nat
<1>1. At(ps) \subseteq Conns
  BY DEF At
<1> QED  BY <1>1, AcceptAssumption, FS_Subset, FS_CardinalityType

(* What moving one connection does to the set of those in certain places,   *)
(* and to how many there are.                                              *)
LEMMA MoveAt ==
  ASSUME TypeOK, NEW c \in Conns, NEW p, Move(c, p), NEW ps
  PROVE  At(ps)' = IF p \in ps THEN At(ps) \cup {c} ELSE At(ps) \ {c}
BY DEF TypeOK, Move, At

LEMMA MoveCounts ==
  ASSUME TypeOK, NEW c \in Conns, NEW p, Move(c, p), NEW ps
  PROVE  Cardinality(At(ps)') =
           IF place[c] \in ps
             THEN IF p \in ps THEN Cardinality(At(ps)) ELSE Cardinality(At(ps)) - 1
             ELSE IF p \in ps THEN Cardinality(At(ps)) + 1 ELSE Cardinality(At(ps))
<1>1. c \in At(ps) <=> place[c] \in ps
  BY DEF At
<1>2. Cardinality(At(ps) \cup {c}) =
        IF c \in At(ps) THEN Cardinality(At(ps)) ELSE Cardinality(At(ps)) + 1
  BY AtFinite, FS_AddElement
<1>3. Cardinality(At(ps) \ {c}) =
        IF c \in At(ps) THEN Cardinality(At(ps)) - 1 ELSE Cardinality(At(ps))
  BY AtFinite, FS_RemoveElement
<1> QED  BY <1>1, <1>2, <1>3, MoveAt

(* The same for the two counters.                                          *)
In(p, ps) == IF p \in ps THEN 1 ELSE 0

LEMMA MoveCounters ==
  ASSUME TypeOK, CountersExact, NEW c \in Conns, NEW p, Move(c, p)
  PROVE  /\ Cardinality(Counted') = activeConns + In(p, CountedPlaces) - In(place[c], CountedPlaces)
         /\ Cardinality(Slotted') = sem + In(p, SlottedPlaces) - In(place[c], SlottedPlaces)
<1>1. /\ Cardinality(At(CountedPlaces)) = activeConns /\ Cardinality(At(SlottedPlaces)) = sem
      /\ activeConns \in Nat /\ sem \in Nat
  BY AcceptAssumption DEF CountersExact, Counted, Slotted, TypeOK
<1>2. ASSUME NEW ps
      PROVE  Cardinality(At(ps)') = Cardinality(At(ps)) + In(p, ps) - In(place[c], ps)
  BY MoveCounts, AtFinite DEF In
<1> QED  BY <1>1, <1>2 DEF Counted, Slotted

(* Every counted connection but the one in the accept loop's hands has a    *)
(* slot, so the count stays within one of the capacity.                    *)
LEMMA CountBounded ==
  ASSUME IInv
  PROVE  /\ acceptor = "accept" => activeConns <= sem
         /\ activeConns <= sem + 1
<1> USE DEF IInv
<1>1. IsFiniteSet(Slotted) /\ Cardinality(Slotted) \in Nat /\ Cardinality(Counted) \in Nat
  BY AtFinite DEF Slotted, Counted
<1>2. CASE acceptor = "accept"
  <2>1. Counted \subseteq Slotted
    BY <1>2 DEF HeldOK, Counted, Slotted, CountedPlaces, SlottedPlaces, At
  <2>2. Cardinality(Counted) <= Cardinality(Slotted)
    BY <2>1, <1>1, FS_Subset
  <2> QED  BY <2>2, <1>1 DEF CountersExact
<1>3. CASE acceptor # "accept"
  <2>1. Counted \subseteq Slotted \cup {held}
    BY <1>3 DEF HeldOK, Counted, Slotted, CountedPlaces, SlottedPlaces, At
  <2>2. /\ IsFiniteSet(Slotted \cup {held})
        /\ Cardinality(Slotted \cup {held}) =
             IF held \in Slotted THEN Cardinality(Slotted) ELSE Cardinality(Slotted) + 1
    BY <1>1, FS_AddElement
  <2>3. Cardinality(Counted) <= Cardinality(Slotted \cup {held})
    BY <2>1, <2>2, FS_Subset
  <2> QED  BY <1>1, <1>3, <2>2, <2>3 DEF CountersExact
<1> QED  BY <1>2, <1>3

LEMMA InitIInv == Init => IInv
<1> SUFFICES ASSUME Init PROVE IInv
  OBVIOUS
<1>1. At({"held"}) = {} /\ At({"dropped"}) = {} /\ Counted = {} /\ Slotted = {}
  BY DEF Init, At, Counted, Slotted, CountedPlaces, SlottedPlaces
<1>2. TypeOK
  BY AcceptAssumption DEF Init, TypeOK, Places
<1> QED  BY <1>1, <1>2, FS_EmptySet DEF Init, IInv, CountersExact, HeldOK, LimitNeverBites

(* What a moved connection leaves of the types and of the sets IInv is about. *)
LEMMA MoveTypes ==
  ASSUME TypeOK, NEW c \in Conns, NEW p \in Places, Move(c, p)
  PROVE  place' \in [Conns -> Places]
BY DEF TypeOK, Move

(* A handler's or a client's step moves one connection that is not in the    *)
(* accept loop's hands, and not into them.                                  *)
LEMMA OutsideMoveKeepsIInv ==
  ASSUME IInv, NEW c \in Conns, NEW p \in Places, Move(c, p),
         place[c] # "held", p \notin {"held", "dropped"},
         UNCHANGED <<limit, acceptor, held, n, gone>>,
         activeConns' = activeConns + In(p, CountedPlaces) - In(place[c], CountedPlaces),
         sem' = sem + In(p, SlottedPlaces) - In(place[c], SlottedPlaces),
         activeConns' \in 0..(Capacity + 1), sem' \in 0..Capacity
  PROVE  IInv'
<1> USE DEF IInv
<1>1. TypeOK'
  BY MoveTypes DEF TypeOK
<1>2. CountersExact'
  BY MoveCounters DEF CountersExact
<1>3. /\ At({"held"})' = At({"held"})
      /\ At({"dropped"})' \subseteq At({"dropped"})
  <2>1. /\ At({"held"})' = At({"held"}) \ {c}
        /\ At({"dropped"})' = At({"dropped"}) \ {c}
    BY MoveAt
  <2>2. c \notin At({"held"})
    BY DEF At
  <2> QED  BY <2>1, <2>2
<1> QED  BY <1>1, <1>2, <1>3 DEF HeldOK, LimitNeverBites

LEMMA HandlerKeepsIInv ==
  ASSUME IInv, NEW c \in Conns, HandlerStep(c) \/ ClientStep(c)
  PROVE  IInv'
<1> USE DEF IInv
<1> limit' = limit
  BY DEF HandlerStep, ClientStep
<1>1. /\ activeConns \in 0..(Capacity + 1) /\ sem \in 0..Capacity /\ Capacity \in Nat
      /\ Cardinality(Counted) = activeConns /\ Cardinality(Slotted) = sem
  BY AcceptAssumption DEF TypeOK, CountersExact
<1>2. /\ c \in Counted => activeConns > 0
      /\ c \in Slotted => sem > 0
  BY <1>1, AtFinite, FS_EmptySet DEF Counted, Slotted
<1>3. CASE Establish(c) \/ Refuse(c) \/ Finish(c) \/ Dial(c)
  <2>1. PICK p \in {"session", "returning", "backlog"} :
           /\ Move(c, p)
           /\ UNCHANGED <<acceptor, held, n, activeConns, sem, gone>>
           /\ place[c] # "held"
           /\ In(p, CountedPlaces) = In(place[c], CountedPlaces)
           /\ In(p, SlottedPlaces) = In(place[c], SlottedPlaces)
    BY <1>3 DEF Establish, Refuse, Finish, Interrupted, Dial, In, CountedPlaces, SlottedPlaces
  <2>2. In(p, CountedPlaces) \in Nat /\ In(p, SlottedPlaces) \in Nat
    BY DEF In
  <2> QED  BY <1>1, <2>1, <2>2, OutsideMoveKeepsIInv DEF Places
<1>4. CASE CountOut(c)
  <2>1. c \in Counted /\ place[c] = "returning"
    BY <1>4 DEF CountOut, Counted, At, CountedPlaces
  <2>2. /\ In("releasing", CountedPlaces) = 0 /\ In("returning", CountedPlaces) = 1
        /\ In("releasing", SlottedPlaces) = 1 /\ In("returning", SlottedPlaces) = 1
    BY DEF In, CountedPlaces, SlottedPlaces
  <2>3. Move(c, "releasing") /\ activeConns' = activeConns - 1 /\ sem' = sem
        /\ UNCHANGED <<acceptor, held, n, gone>>
    BY <1>4 DEF CountOut
  <2> QED  BY <1>1, <1>2, <2>1, <2>2, <2>3, OutsideMoveKeepsIInv DEF Places
<1>5. CASE Release(c)
  <2>1. c \in Slotted /\ place[c] = "releasing"
    BY <1>5 DEF Release, Slotted, At, SlottedPlaces
  <2>2. /\ In("releasing", CountedPlaces) = 0 /\ In("closed", CountedPlaces) = 0
        /\ In("releasing", SlottedPlaces) = 1 /\ In("closed", SlottedPlaces) = 0
    BY DEF In, CountedPlaces, SlottedPlaces
  <2>3. Move(c, "closed") /\ activeConns' = activeConns /\ sem' = sem - 1
        /\ UNCHANGED <<acceptor, held, n, gone>>
    BY <1>5 DEF Release, SemAfterRelease
  <2> QED  BY <1>1, <1>2, <2>1, <2>2, <2>3, OutsideMoveKeepsIInv DEF Places
<1>6. CASE Hangup(c)
  <2>1. gone' \in [Conns -> BOOLEAN] /\ UNCHANGED <<acceptor, held, n, activeConns, sem, place>>
    BY <1>6 DEF Hangup, TypeOK
  <2> QED  BY <2>1 DEF TypeOK, CountersExact, HeldOK, LimitNeverBites, Counted, Slotted, At
<1> QED  BY <1>3, <1>4, <1>5, <1>6 DEF HandlerStep, ClientStep

LEMMA AcceptKeepsIInv ==
  ASSUME IInv, AcceptStep
  PROVE  IInv'
<1> USE DEF IInv
<1> limit' = limit
  BY DEF AcceptStep
<1>1. /\ activeConns \in Nat /\ sem \in 0..Capacity /\ Capacity \in Nat /\ limit \in Nat
      /\ n \in 0..(Capacity + 1)
  BY AcceptAssumption DEF TypeOK
<1>2. ASSUME acceptor # "accept" PROVE held \in Conns /\ place[held] = "held"
  BY <1>2 DEF HeldOK, At
<1>3. CASE Accept
  <2>1. PICK c \in Conns : place[c] = "backlog" /\ Move(c, "held") /\ held' = c
    BY <1>3 DEF Accept
  <2>2. /\ acceptor = "accept" /\ acceptor' = "counted" /\ UNCHANGED <<sem, gone>>
        /\ activeConns' = activeConns + 1 /\ n' = activeConns + 1
    BY <1>3 DEF Accept
  <2>3. activeConns <= sem
    BY <2>2, CountBounded
  <2>4. TypeOK'
    BY <1>1, <2>1, <2>2, <2>3, MoveTypes DEF TypeOK, Places
  <2>5. /\ In("held", CountedPlaces) = 1 /\ In("backlog", CountedPlaces) = 0
        /\ In("held", SlottedPlaces) = 0 /\ In("backlog", SlottedPlaces) = 0
    BY DEF In, CountedPlaces, SlottedPlaces
  <2>6. CountersExact'
    BY <1>1, <2>1, <2>2, <2>5, MoveCounters DEF CountersExact
  <2>7. At({"held"})' = At({"held"}) \cup {c} /\ At({"dropped"})' = At({"dropped"}) \ {c}
    BY <2>1, MoveAt
  <2> QED  BY <2>1, <2>2, <2>4, <2>6, <2>7 DEF HeldOK, LimitNeverBites
<1>4. CASE Drop
  <2>1. /\ acceptor # "accept" /\ n > limit /\ activeConns' = activeConns - 1
        /\ Move(held, "dropped") /\ acceptor' = "accept" /\ held' = NoConn
        /\ UNCHANGED <<n, sem, gone>>
    BY <1>4 DEF Drop, OverLimit, CountAfterDrop
  <2>2. held \in Conns /\ place[held] = "held"
    BY <1>2, <2>1
  <2>3. activeConns > 0
    <3>1. held \in Counted
      BY <2>2 DEF Counted, At, CountedPlaces
    <3> QED  BY <1>1, <3>1, AtFinite, FS_EmptySet DEF Counted, CountersExact
  <2>4. TypeOK'
    BY <1>1, <2>1, <2>2, <2>3, MoveTypes DEF TypeOK, Places
  <2>5. /\ In("held", CountedPlaces) = 1 /\ In("dropped", CountedPlaces) = 0
        /\ In("held", SlottedPlaces) = 0 /\ In("dropped", SlottedPlaces) = 0
    BY DEF In, CountedPlaces, SlottedPlaces
  <2>6. CountersExact'
    BY <1>1, <2>1, <2>2, <2>5, MoveCounters DEF CountersExact
  <2>7. At({"held"})' = At({"held"}) \ {held}
    BY <2>1, <2>2, MoveAt
  <2>8. ~(limit > Capacity)
    \* n counts one connection more than there are slots at most.
    BY <1>1, <2>1
  <2> QED  BY <2>1, <2>4, <2>6, <2>7, <2>8 DEF HeldOK, LimitNeverBites
<1>5. CASE Admit
  BY <1>5 DEF Admit, TypeOK, CountersExact, HeldOK, LimitNeverBites, Counted, Slotted, At
<1>6. CASE StartHandler
  <2>1. /\ acceptor # "accept" /\ sem < Capacity /\ sem' = sem + 1
        /\ Move(held, "handshake") /\ acceptor' = "accept" /\ held' = NoConn
        /\ UNCHANGED <<n, activeConns, gone>>
    BY <1>6 DEF StartHandler, SlotFree
  <2>2. held \in Conns /\ place[held] = "held"
    BY <1>2, <2>1
  <2>3. TypeOK'
    BY <1>1, <2>1, <2>2, MoveTypes DEF TypeOK, Places
  <2>4. /\ In("held", CountedPlaces) = 1 /\ In("handshake", CountedPlaces) = 1
        /\ In("held", SlottedPlaces) = 0 /\ In("handshake", SlottedPlaces) = 1
    BY DEF In, CountedPlaces, SlottedPlaces
  <2>5. CountersExact'
    BY <1>1, <2>1, <2>2, <2>4, MoveCounters DEF CountersExact
  <2>6. At({"held"})' = At({"held"}) \ {held} /\ At({"dropped"})' = At({"dropped"}) \ {held}
    BY <2>1, <2>2, MoveAt
  <2> QED  BY <2>1, <2>3, <2>5, <2>6 DEF HeldOK, LimitNeverBites
<1> QED  BY <1>3, <1>4, <1>5, <1>6 DEF AcceptStep

THEOREM AcceptInvariant == Spec => []IInv
<1>1. IInv /\ [Next]_vars => IInv'
  <2> SUFFICES ASSUME IInv, [Next]_vars PROVE IInv'
    OBVIOUS
  <2>1. CASE UNCHANGED vars
    BY <2>1 DEF vars, IInv, TypeOK, CountersExact, HeldOK, LimitNeverBites, Counted, Slotted, At
  <2> QED  BY <2>1, HandlerKeepsIInv, AcceptKeepsIInv DEF Next
<1> QED  BY <1>1, InitIInv, PTL DEF Spec

\* Every variable keeps its type; at most one connection more is counted than
\* there are slots.
THEOREM AcceptTypeOK == Spec => []TypeOK
<1>1. IInv => TypeOK
  BY DEF IInv
<1> QED  BY <1>1, AcceptInvariant, PTL

\* No path through the accept loop or a handler leaks a count or a slot, or
\* gives one back twice.
THEOREM AcceptCountersExact == Spec => []CountersExact
<1>1. IInv => CountersExact
  BY DEF IInv
<1> QED  BY <1>1, AcceptInvariant, PTL

\* maxConnsLimit above the semaphore's capacity is never what turns a
\* connection away.
THEOREM AcceptLimitNeverBites == Spec => []LimitNeverBites
<1>1. IInv => LimitNeverBites
  BY DEF IInv
<1> QED  BY <1>1, AcceptInvariant, PTL
=============================================================================
