--------------------------- MODULE ForwardRegistry ---------------------------
(***************************************************************************)
(* What the relay promises about registrations, without Caddy, requests,   *)
(* sockets or the reconcile loop: a session asks for one of the services   *)
(* its key is for, is granted or refused it, takes the key over from        *)
(* whoever had it, and gives up only what is still its own.                *)
(***************************************************************************)
CONSTANTS Sessions, Services, Users, UserOf, Permitted, NoForward

VARIABLES
  owner,   \* the forward each key is registered for
  stage,   \* how far each session is
  work     \* the forward each session is about

vars == <<owner, stage, work>>

Stages == {"free", "asking", "serving", "leaving", "released", "ended"}

KeyOf(f) == <<f.svc, UserOf[f.sess]>>

Init ==
  /\ owner = [k \in Services \X Users |-> NoForward]
  /\ stage = [s \in Sessions |-> "free"]
  /\ work = [s \in Sessions |-> NoForward]

Move(s, from, to) == stage[s] = from /\ stage' = [stage EXCEPT ![s] = to]

Drop(s) == work' = [work EXCEPT ![s] = NoForward]

Ask(s) ==
  /\ Move(s, "free", "asking")
  /\ \E svc \in Services \cap Permitted[s] :
       work' = [work EXCEPT ![s] = [sess |-> s, svc |-> svc]]
  /\ UNCHANGED owner

Refuse(s) == Move(s, "asking", "free") /\ Drop(s) /\ UNCHANGED owner

Grant(s) ==
  /\ Move(s, "asking", "serving")
  /\ owner' = [owner EXCEPT ![KeyOf(work[s])] = work[s]]
  /\ UNCHANGED work

Leave(s) == Move(s, "serving", "leaving") /\ UNCHANGED <<owner, work>>

\* Wherever the session's forward is registered, and nothing else.
Release(s) ==
  /\ Move(s, "leaving", "released")
  /\ owner' = [k \in DOMAIN owner |-> IF owner[k] = work[s] THEN NoForward ELSE owner[k]]
  /\ UNCHANGED work

Finish(s) ==
  /\ \/ Move(s, "released", "free")
     \/ Move(s, "released", "ended")
  /\ Drop(s) /\ UNCHANGED owner

Quit(s) == Move(s, "free", "ended") /\ UNCHANGED <<owner, work>>

\* The relay starts anew: nothing is registered, no session that was about
\* anything goes on.
Restart ==
  /\ owner' = [k \in DOMAIN owner |-> NoForward]
  /\ \E gone \in SUBSET Sessions :
       /\ stage' = [s \in Sessions |-> IF s \in gone THEN "ended" ELSE stage[s]]
       /\ \A s \in Sessions \ gone : stage[s] \in {"free", "ended"}
       /\ work' = [s \in Sessions |-> IF s \in gone THEN NoForward ELSE work[s]]

Step(s) ==
  Ask(s) \/ Refuse(s) \/ Grant(s) \/ Leave(s) \/ Release(s) \/ Finish(s) \/ Quit(s)

Next == (\E s \in Sessions : Step(s)) \/ Restart

Spec == Init /\ [][Next]_vars
=============================================================================
