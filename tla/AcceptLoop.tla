----------------------------- MODULE AcceptLoop -----------------------------
(***************************************************************************)
(* Admission of SSH connections by the relay (main's accept loop): a count *)
(* of live connections with a limit, and a counting semaphore for the      *)
(* handlers.  One goroutine accepts, counts and acquires; one goroutine    *)
(* per admitted connection runs handleSSH and, when that returns, takes    *)
(* the connection out of the count and then releases its slot.             *)
(*                                                                         *)
(* A client may stay silent during the handshake and stay connected for    *)
(* good: neither the handshake nor the session has a deadline.             *)
(***************************************************************************)
EXTENDS Naturals, FiniteSets

CONSTANTS
  Conns,       \* the connections clients make, each once
  NoConn,
  Limits,      \* what maxConnsLimit may be set to (200 as deployed)
  Capacity     \* maxConcurrentHandshakes (50), the semaphore's capacity

ASSUME AcceptAssumption ==
  /\ IsFiniteSet(Conns)
  /\ NoConn \notin Conns
  /\ Limits \subseteq Nat \ {0}
  /\ Capacity \in Nat \ {0}

VARIABLES
  limit,         \* srv.maxConnsLimit
  acceptor,      \* the accept loop: "accept", "counted" or "waiting"
  held, n,       \* its locals: conn, and what AddInt64 returned
  activeConns,   \* srv.activeConns
  sem,           \* tokens in handshakeSem
  place,         \* [Conns -> Places]: how far each connection has got
  gone           \* [Conns -> BOOLEAN]: the client has closed it

vars == <<limit, acceptor, held, n, activeConns, sem, place, gone>>

(* "backlog": connected, not accepted.  "held": accepted, no handler yet.   *)
(* "handshake" and "session" are handleSSH's; "returning" is its return,    *)
(* "releasing" lies between the two deferred calls.                        *)
Places == {"undialled", "backlog", "held", "dropped",
           "handshake", "session", "returning", "releasing", "closed"}

TypeOK ==
  /\ limit \in Limits
  /\ acceptor \in {"accept", "counted", "waiting"}
  /\ held \in Conns \cup {NoConn}
  /\ n \in 0..(Capacity + 1)
  /\ activeConns \in 0..(Capacity + 1)
  /\ sem \in 0..Capacity
  /\ place \in [Conns -> Places]
  /\ gone \in [Conns -> BOOLEAN]

Init ==
  /\ limit \in Limits
  /\ acceptor = "accept"
  /\ held = NoConn
  /\ n = 0
  /\ activeConns = 0
  /\ sem = 0
  /\ place = [c \in Conns |-> "undialled"]
  /\ gone = [c \in Conns |-> FALSE]

Move(c, p) == place' = [place EXCEPT ![c] = p]

-----------------------------------------------------------------------------
(* The accept loop.                                                        *)

\* Accept returns a connection and AddInt64 counts it.  (An error of Accept
\* changes nothing.)
Accept ==
  /\ acceptor = "accept"
  /\ \E c \in Conns : place[c] = "backlog" /\ Move(c, "held") /\ held' = c
  /\ activeConns' = activeConns + 1
  /\ n' = activeConns + 1
  /\ acceptor' = "counted"
  /\ UNCHANGED <<sem, gone>>

OverLimit == n > limit

\* Slip: the dropped connection stays in the count.
CountAfterDrop_Kept == activeConns

CountAfterDrop == activeConns - 1

\* Over the limit: take it out of the count again and close it.
Drop ==
  /\ acceptor = "counted"
  /\ OverLimit
  /\ activeConns' = CountAfterDrop
  /\ Move(held, "dropped")
  /\ held' = NoConn
  /\ acceptor' = "accept"
  /\ UNCHANGED <<n, sem, gone>>

Admit ==
  /\ acceptor = "counted"
  /\ ~OverLimit
  /\ acceptor' = "waiting"
  /\ UNCHANGED <<held, n, activeConns, sem, place, gone>>

\* Slip: a handler starts although the semaphore is full.
SlotFree_Unchecked == TRUE

SlotFree == sem < Capacity

\* The send on handshakeSem, which blocks the accept loop while the semaphore
\* is full, and the go statement.
StartHandler ==
  /\ acceptor = "waiting"
  /\ SlotFree
  /\ sem' = sem + 1
  /\ Move(held, "handshake")
  /\ held' = NoConn
  /\ acceptor' = "accept"
  /\ UNCHANGED <<n, activeConns, gone>>

AcceptStep == (Accept \/ Drop \/ Admit \/ StartHandler) /\ UNCHANGED limit

-----------------------------------------------------------------------------
(* A handler.                                                              *)

\* The client completes the handshake.  Without a temporary directory
\* handleSSH returns at once.
Establish(c) ==
  /\ place[c] = "handshake"
  /\ ~gone[c]
  /\ Move(c, "session") \/ Move(c, "returning")
  /\ UNCHANGED <<acceptor, held, n, activeConns, sem, gone>>

\* The client's key is refused.
Refuse(c) ==
  /\ place[c] = "handshake"
  /\ ~gone[c]
  /\ Move(c, "returning")
  /\ UNCHANGED <<acceptor, held, n, activeConns, sem, gone>>

\* Slip: a handshake does not notice that its client has gone.
Interrupted_Session == {"session"}

Interrupted == {"handshake", "session"}

\* The connection is gone: the handshake fails, or the session is cleaned up.
Finish(c) ==
  /\ place[c] \in Interrupted
  /\ gone[c]
  /\ Move(c, "returning")
  /\ UNCHANGED <<acceptor, held, n, activeConns, sem, gone>>

\* Deferred last, so run first: leave the count ...
CountOut(c) ==
  /\ place[c] = "returning"
  /\ activeConns' = activeConns - 1
  /\ Move(c, "releasing")
  /\ UNCHANGED <<acceptor, held, n, sem, gone>>

SemAfterRelease == sem - 1

\* ... and then give back the slot.
Release(c) ==
  /\ place[c] = "releasing"
  /\ sem' = SemAfterRelease
  /\ Move(c, "closed")
  /\ UNCHANGED <<acceptor, held, n, activeConns, gone>>

HandlerStep(c) == (Finish(c) \/ CountOut(c) \/ Release(c)) /\ UNCHANGED limit

-----------------------------------------------------------------------------
(* Clients.                                                                *)

Dial(c) ==
  /\ place[c] = "undialled"
  /\ Move(c, "backlog")
  /\ UNCHANGED <<acceptor, held, n, activeConns, sem, gone>>

Hangup(c) ==
  /\ place[c] \notin {"undialled", "dropped", "closed"}
  /\ ~gone[c]
  /\ gone' = [gone EXCEPT ![c] = TRUE]
  /\ UNCHANGED <<acceptor, held, n, activeConns, sem, place>>

ClientStep(c) == (Dial(c) \/ Hangup(c) \/ Establish(c) \/ Refuse(c)) /\ UNCHANGED limit

-----------------------------------------------------------------------------
Next == AcceptStep \/ \E c \in Conns : HandlerStep(c) \/ ClientStep(c)

Spec == Init /\ [][Next]_vars

(* The relay's goroutines are scheduled; nothing is asked of clients.       *)
FairSpec ==
  Spec /\ WF_vars(AcceptStep) /\ \A c \in Conns : WF_vars(HandlerStep(c))

-----------------------------------------------------------------------------
(* Properties.                                                             *)

At(ps) == {c \in Conns : place[c] \in ps}
CountedPlaces == {"held", "handshake", "session", "returning"}
SlottedPlaces == {"handshake", "session", "returning", "releasing"}
Counted == At(CountedPlaces)
Slotted == At(SlottedPlaces)

\* activeConns and the semaphore are exact: no way out of handleSSH or of the
\* accept loop leaks a count or a slot, or gives one back twice.
CountersExact ==
  /\ activeConns = Cardinality(Counted)
  /\ sem = Cardinality(Slotted)

\* With a limit above the semaphore's capacity, as deployed, no connection is
\* ever dropped at the limit: the accept loop stops at the semaphore first.
LimitNeverBites == limit > Capacity => At({"dropped"}) = {}

Answered(c) == place[c] \notin {"backlog", "held"} \/ gone[c]

\* Every slot has a client that is still there.
AllSlotsLive == Cardinality({c \in Slotted : ~gone[c]}) = Capacity

\* A client that connects is handled, turned away or gives up; but with the
\* limit above the capacity, as deployed, it may wait for good behind Capacity
\* clients who stay for good, and behind nobody else.
EveryConnAnswered ==
  \A c \in Conns :
    place[c] = "backlog" ~> (Answered(c) \/ (limit > Capacity /\ []AllSlotsLive))
=============================================================================
