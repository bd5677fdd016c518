---------------------------- MODULE ForwardSync ----------------------------
(***************************************************************************)
(* How the relay (cmd/atprp-ssh-relay) keeps Caddy's routes in step with   *)
(* its live SSH forwards.                                                  *)
(*                                                                         *)
(* Actors: one goroutine per SSH session (handleSSH's request loop) and    *)
(* the reconcile loop.  Both run the same helpers against the same Caddy,  *)
(* so an actor's place in a helper is pc[a]; each HTTP request is one      *)
(* step, as is each critical section under regMu.  The environment is the  *)
(* SSH client (asks, cancels, disappears), Caddy (stops, starts, loads its *)
(* Caddyfile) and the requests that go wrong.                              *)
(***************************************************************************)
EXTENDS CaddyAdmin

CONSTANTS
  Sessions,         \* SSH connections, each served once
  Reconciler,       \* the reconcile loop
  Services, Users,
  UserOf,           \* [Sessions -> Users]: the SSH user name, serverConn.User()
  Permitted,        \* [Sessions -> SUBSET Services]: what the offered key is for
  HostOf,           \* [Services \X Users -> Names]: forwardFQDNs
  TooLong,          \* names whose flattened label is over 63 characters
  NoForward,
  ManagesWildcard,  \* CF_API_TOKEN is set
  MaxRetries,       \* retries of GET srv0 (20 in the code)
  MaxRequests,      \* bound: tcpip-forward requests of one session
  MaxFaults,        \* bound: requests that go unanswered while Caddy is up
  MaxRestarts       \* bound: Caddy restarts

ASSUME ForwardSyncAssumption ==
  /\ Reconciler \notin Sessions
  /\ Sockets = Sessions          \* one temporary directory, one socket path each
  /\ UserOf \in [Sessions -> Users]
  /\ Permitted \in [Sessions -> SUBSET Services]
  /\ HostOf \in [Services \X Users -> Names]
  /\ TooLong \subseteq Names
  /\ NoForward \notin [sess : Sessions, svc : Services]   \* a nil pointer
  /\ ManagesWildcard \in BOOLEAN
  /\ MaxRetries \in Nat /\ MaxRequests \in Nat
  /\ MaxFaults \in Nat /\ MaxRestarts \in Nat

Actors == Sessions \cup {Reconciler}

(* A *forward: a session has at most one whose listener is open, so the     *)
(* session and the service identify the pointer for as long as it is used. *)
Forward == [sess : Sessions, svc : Services]

Keys == Services \X Users
ForwardKey(f) == <<f.svc, UserOf[f.sess]>>
Host(f) == HostOf[ForwardKey(f)]

VARIABLES
  up, srv0, routes,      \* Caddy: running?, where srv0 came from, its routes
  reg,                   \* srv.reg, the registry the reconcile loop reads
  pc, ctxLive, tries,    \* per actor: place, context not cancelled, retries
  cur,                   \* per actor: the forward it works on, or serves
  listening, looping,    \* per session: its socket is open, it reads requests
  requests,              \* per session: tcpip-forward requests read
  todo, appended,        \* the tick's snapshot left to visit; its flag
  faults, restarts       \* counters of the bounds

caddyVars == <<up, srv0, routes>>
sessionVars == <<listening, looping, requests>>
tickVars == <<todo, appended>>
boundVars == <<faults, restarts>>
vars == <<caddyVars, reg, pc, ctxLive, tries, cur, sessionVars, tickVars, boundVars>>

SharedPlaces == {"getSrv0", "createSrv0", "ensureTLS", "deleteRoute", "postRoute",
                 "deleteCatchAll", "postCatchAll"}
SessionPlaces == SharedPlaces \cup
  {"idle", "record", "serving", "unregister", "deleteStale", "done"}
TickPlaces == SharedPlaces \cup
  {"asleep", "snapshot", "nextForward", "checkRoute", "checkCatchAll"}

PlacesOK ==
  /\ pc \in [Actors -> SessionPlaces \cup TickPlaces]
  /\ \A s \in Sessions : pc[s] \in SessionPlaces
  /\ pc[Reconciler] \in TickPlaces

TypeOK ==
  /\ PlacesOK
  /\ up \in BOOLEAN
  /\ srv0 \in {"absent", "caddyfile", "relay"}
  /\ routes \in Seq(Route)
  /\ reg \in [Keys -> Forward \cup {NoForward}]
  /\ ctxLive \in [Actors -> BOOLEAN]
  /\ tries \in [Actors -> 0..MaxRetries]
  /\ cur \in [Actors -> Forward \cup {NoForward}]
  /\ listening \in [Sessions -> BOOLEAN]
  /\ looping \in [Sessions -> BOOLEAN]
  /\ requests \in [Sessions -> 0..MaxRequests]
  /\ todo \in SUBSET Forward
  /\ appended \in BOOLEAN
  /\ faults \in 0..MaxFaults
  /\ restarts \in 0..MaxRestarts

Init ==
  /\ up = TRUE
  /\ srv0 = "caddyfile"
  /\ routes = <<>>
  /\ reg = [k \in Keys |-> NoForward]
  /\ pc = [a \in Actors |-> IF a = Reconciler THEN "asleep" ELSE "idle"]
  /\ ctxLive = [a \in Actors |-> TRUE]
  /\ tries = [a \in Actors |-> 0]
  /\ cur = [a \in Actors |-> NoForward]
  /\ listening = [s \in Sessions |-> FALSE]
  /\ looping = [s \in Sessions |-> TRUE]
  /\ requests = [s \in Sessions |-> 0]
  /\ todo = {}
  /\ appended = FALSE
  /\ faults = 0
  /\ restarts = 0

-----------------------------------------------------------------------------
(* One HTTP request made by actor a under a context that is still live or  *)
(* not.  applied: Caddy has carried it out; answered: a has its response.  *)
(* With Caddy down or the context cancelled it fails before it is sent;    *)
(* otherwise it is carried out and answered, except that a bounded number  *)
(* is lost on the way in (not applied) or on the way out (applied).        *)
Request(live, applied, answered) ==
  IF ~up \/ ~live
    THEN ~applied /\ ~answered /\ UNCHANGED faults
    ELSE \/ applied /\ answered /\ UNCHANGED faults
         \/ ~answered /\ faults < MaxFaults /\ faults' = faults + 1

Goto(a, place) == pc' = [pc EXCEPT ![a] = place]

\* Slip: the error is taken as a reason to start over.
Abandon_StartOver(a) == Goto(a, "getSrv0") /\ UNCHANGED <<cur, listening>>

(* The handler of a session gives up on its forward: close the listener,   *)
(* reply false.  A tick whose base config fails is over.                   *)
Abandon(a) ==
  IF a = Reconciler
    THEN Goto(a, "asleep") /\ UNCHANGED <<cur, listening>>
    ELSE /\ Goto(a, "idle")
         /\ cur' = [cur EXCEPT ![a] = NoForward]
         /\ listening' = [listening EXCEPT ![a] = FALSE]

\* Slip: one retry too many.
RetriesLeft_OffByOne(a) == tries[a] <= MaxRetries

RetriesLeft(a) == tries[a] < MaxRetries

\* ensureSrv0Exists: GET srv0, once and then up to MaxRetries times more.
GetSrv0(a) ==
  /\ pc[a] = "getSrv0"
  /\ \E applied, answered \in BOOLEAN :
       /\ Request(ctxLive[a], applied, answered)
       /\ \/ /\ answered /\ srv0 # "absent"
             /\ Goto(a, "ensureTLS")
             /\ UNCHANGED tries
          \/ /\ ~(answered /\ srv0 # "absent")
             /\ RetriesLeft(a)
             /\ tries' = [tries EXCEPT ![a] = @ + 1]
             /\ UNCHANGED pc
          \/ /\ ~(answered /\ srv0 # "absent")
             /\ ~RetriesLeft(a)
             /\ Goto(a, "createSrv0")
             /\ UNCHANGED tries
  /\ UNCHANGED <<caddyVars, reg, ctxLive, cur, sessionVars, tickVars, restarts>>

\* ensureSrv0Exists: the fallback POST, which replaces srv0 with one that has
\* no routes.  Caddy may refuse it; the status of the response is not read.
CreateSrv0(a) ==
  /\ pc[a] = "createSrv0"
  /\ \E applied, answered \in BOOLEAN :
       /\ Request(ctxLive[a], applied, answered)
       /\ \/ applied /\ srv0' = "relay" /\ routes' = <<>>
          \/ UNCHANGED <<srv0, routes>>
       /\ \/ answered /\ Goto(a, "ensureTLS") /\ UNCHANGED <<cur, listening>>
          \/ ~answered /\ Abandon(a)
  /\ UNCHANGED <<up, reg, ctxLive, tries, looping, requests, tickVars, restarts>>

(* ensureWildcardTLSPolicy, the last thing ensureSrv0Exists does: what it  *)
(* writes is the TLS app's and no route depends on it (TlsAutomation has   *)
(* the detail), but its error ends the caller.  A write refused because     *)
(* another actor's came first counts as one of the requests that go wrong.  *)
(* Then configureNewForward checks the label's length.                     *)
EnsureTLS(a) ==
  /\ pc[a] = "ensureTLS"
  /\ \E ok \in BOOLEAN :
       /\ IF ManagesWildcard THEN Request(ctxLive[a], ok, ok)
                             ELSE ok /\ UNCHANGED faults
       /\ \/ /\ ok /\ a = Reconciler
             /\ Goto(a, "snapshot")
             /\ UNCHANGED <<cur, listening>>
          \/ /\ ok /\ a # Reconciler /\ Host(cur[a]) \notin TooLong
             /\ Goto(a, "deleteRoute")
             /\ UNCHANGED <<cur, listening>>
          \/ /\ ~ok \/ (a # Reconciler /\ Host(cur[a]) \in TooLong)
             /\ Abandon(a)
  /\ UNCHANGED <<caddyVars, reg, ctxLive, tries, looping, requests, tickVars, restarts>>

\* ensureForwardRoute: DELETE the stale copy.  Its errors are ignored.
DeleteRoute(a) ==
  /\ pc[a] = "deleteRoute"
  /\ \E applied, answered \in BOOLEAN :
       /\ Request(ctxLive[a], applied, answered)
       /\ routes' = IF applied THEN DeleteId(routes, Host(cur[a])) ELSE routes
  /\ Goto(a, "postRoute")
  /\ UNCHANGED <<up, srv0, reg, ctxLive, tries, cur, sessionVars, tickVars, restarts>>

ForwardRoute(f) == [id |-> Host(f), dial |-> f.sess]

\* Slip: the catch-all is not put last again.
AfterRoute_NoReappend == "record"

\* Where configureNewForward goes once the route is posted.
AfterRoute == IF ManagesWildcard THEN "deleteCatchAll" ELSE "record"

\* Slip: the tick forgets that it appended a route.
Appended_Forgotten(ok) == appended

\* The tick's flag after a POST that succeeded or not.
Appended(ok) == appended \/ ok

\* ensureForwardRoute: POST, which appends.  A session's failure is the end of
\* configureNewForward; the reconcile loop goes on to the next forward.
PostRoute(a) ==
  /\ pc[a] = "postRoute"
  /\ \E applied, answered \in BOOLEAN :
       LET accepted == srv0 # "absent" /\ Appendable(routes, Host(cur[a]))
           ok == answered /\ accepted
       IN /\ Request(ctxLive[a], applied, answered)
          /\ routes' = IF applied /\ accepted
                         THEN Append(routes, ForwardRoute(cur[a])) ELSE routes
          /\ \/ /\ a = Reconciler
                /\ appended' = Appended(ok)
                /\ Goto(a, "nextForward")
                /\ UNCHANGED <<cur, listening>>
             \/ /\ a # Reconciler /\ ok
                /\ Goto(a, AfterRoute)
                /\ UNCHANGED <<cur, listening, appended>>
             \/ /\ a # Reconciler /\ ~ok
                /\ Abandon(a)
                /\ UNCHANGED appended
  /\ UNCHANGED <<up, srv0, reg, ctxLive, tries, looping, requests, todo, restarts>>

\* ensureCatchAllRoute by upsertByID: DELETE, errors ignored ...
DeleteCatchAll(a) ==
  /\ pc[a] = "deleteCatchAll"
  /\ \E applied, answered \in BOOLEAN :
       /\ Request(ctxLive[a], applied, answered)
       /\ routes' = IF applied THEN DeleteId(routes, CatchAll) ELSE routes
  /\ Goto(a, "postCatchAll")
  /\ UNCHANGED <<up, srv0, reg, ctxLive, tries, cur, sessionVars, tickVars, restarts>>

\* ... then POST.  An error fails a session's forward, whose route is already
\* in Caddy and stays there; the reconcile loop only logs it.
PostCatchAll(a) ==
  /\ pc[a] = "postCatchAll"
  /\ \E applied, answered \in BOOLEAN :
       LET accepted == srv0 # "absent" /\ Appendable(routes, CatchAll)
       IN /\ Request(ctxLive[a], applied, answered)
          /\ routes' = IF applied /\ accepted
                         THEN Append(routes, CatchAllRoute) ELSE routes
          /\ \/ /\ a = Reconciler
                /\ Goto(a, "asleep")
                /\ UNCHANGED <<cur, listening>>
             \/ /\ a # Reconciler /\ answered /\ accepted
                /\ Goto(a, "record")
                /\ UNCHANGED <<cur, listening>>
             \/ /\ a # Reconciler /\ ~(answered /\ accepted)
                /\ Abandon(a)
  /\ UNCHANGED <<up, srv0, reg, ctxLive, tries, looping, requests, tickVars, restarts>>

SharedStep(a) ==
  \/ GetSrv0(a) \/ CreateSrv0(a) \/ EnsureTLS(a)
  \/ DeleteRoute(a) \/ PostRoute(a) \/ DeleteCatchAll(a) \/ PostCatchAll(a)

-----------------------------------------------------------------------------
(* Sessions, from the moment the handshake has succeeded.                  *)

\* The connection dies: Wait returns, or a keepalive fails; both cancel ctx.
Disconnect(s) ==
  /\ pc[s] # "done"
  /\ ctxLive[s]
  /\ ctxLive' = [ctxLive EXCEPT ![s] = FALSE]
  /\ UNCHANGED <<caddyVars, reg, pc, tries, cur, sessionVars, tickVars, boundVars>>

\* Slip: the service of the key is not looked at.
KeyAllows_Any(s, svc) == TRUE

\* The check of pubkey-valid-for-services against the address to bind.
KeyAllows(s, svc) == svc \in Permitted[s]

(* tcpip-forward.  Requests already queued are read even when ctx is        *)
(* cancelled.  A service the key is not valid for, or a socket path in use  *)
(* (every forward of a session listens on the same one), is refused with    *)
(* nothing changed.                                                        *)
TcpipForward(s, svc) ==
  /\ pc[s] \in {"idle", "serving"} /\ looping[s]
  /\ requests[s] < MaxRequests
  /\ requests' = [requests EXCEPT ![s] = @ + 1]
  /\ IF KeyAllows(s, svc) /\ ~listening[s]
       THEN /\ listening' = [listening EXCEPT ![s] = TRUE]
            /\ cur' = [cur EXCEPT ![s] = [sess |-> s, svc |-> svc]]
            /\ tries' = [tries EXCEPT ![s] = 0]
            /\ Goto(s, "getSrv0")
       ELSE UNCHANGED <<listening, cur, tries, pc>>
  /\ UNCHANGED <<caddyVars, reg, ctxLive, looping, tickVars, boundVars>>

\* configureNewForward ends: the registry entry, forwards[svc], reply true.
Record(s) ==
  /\ pc[s] = "record"
  /\ reg' = [reg EXCEPT ![ForwardKey(cur[s])] = cur[s]]
  /\ Goto(s, "serving")
  /\ UNCHANGED <<caddyVars, ctxLive, tries, cur, sessionVars, tickVars, boundVars>>

\* cancel-tcpip-forward names the service being served: close its listener.
CancelForward(s) ==
  /\ pc[s] = "serving" /\ looping[s]
  /\ listening' = [listening EXCEPT ![s] = FALSE]
  /\ Goto(s, "unregister")
  /\ UNCHANGED <<caddyVars, reg, ctxLive, tries, cur, looping, requests, tickVars, boundVars>>

\* The request channel is closed and ctx is cancelled: clean up what is served.
EndSession(s) ==
  /\ pc[s] \in {"idle", "serving"} /\ looping[s]
  /\ ~ctxLive[s]
  /\ looping' = [looping EXCEPT ![s] = FALSE]
  /\ listening' = [listening EXCEPT ![s] = FALSE]
  /\ Goto(s, IF pc[s] = "serving" THEN "unregister" ELSE "done")
  /\ UNCHANGED <<caddyVars, reg, ctxLive, tries, cur, requests, tickVars, boundVars>>

\* Slips: delete by key alone; leave the entry to the reconcile loop.
RegistryWithout_ByKey(f) == [reg EXCEPT ![ForwardKey(f)] = NoForward]
RegistryWithout_Kept(f) == reg

RegistryWithout(f) ==
  IF reg[ForwardKey(f)] = f THEN [reg EXCEPT ![ForwardKey(f)] = NoForward] ELSE reg

\* unconfigureForward, under regMu: forget the forward, unless the key is by
\* now another session's.
Unregister(s) ==
  /\ pc[s] = "unregister"
  /\ reg' = RegistryWithout(cur[s])
  /\ Goto(s, "deleteStale")
  /\ UNCHANGED <<caddyVars, ctxLive, tries, cur, sessionVars, tickVars, boundVars>>

\* unconfigureForward: DELETE the route, under a context of its own.  Whatever
\* comes of it the session drops the forward.
DeleteStale(s) ==
  /\ pc[s] = "deleteStale"
  /\ \E applied, answered \in BOOLEAN :
       /\ Request(TRUE, applied, answered)
       /\ routes' = IF applied THEN DeleteId(routes, Host(cur[s])) ELSE routes
  /\ cur' = [cur EXCEPT ![s] = NoForward]
  /\ Goto(s, IF looping[s] THEN "idle" ELSE "done")
  /\ UNCHANGED <<up, srv0, reg, ctxLive, tries, sessionVars, tickVars, restarts>>

HandlerStep(s) == Record(s) \/ EndSession(s) \/ Unregister(s) \/ DeleteStale(s)

ClientStep(s) ==
  \/ Disconnect(s) \/ CancelForward(s)
  \/ \E svc \in Services : TcpipForward(s, svc)

-----------------------------------------------------------------------------
(* The reconcile loop.                                                     *)

Tick ==
  /\ pc[Reconciler] = "asleep"
  /\ Goto(Reconciler, "getSrv0")
  /\ tries' = [tries EXCEPT ![Reconciler] = 0]
  /\ ctxLive' = [ctxLive EXCEPT ![Reconciler] = TRUE]
  /\ appended' = FALSE
  /\ UNCHANGED <<caddyVars, reg, cur, sessionVars, todo, boundVars>>

\* The registry is copied under regMu and read no more in this tick.
Snapshot ==
  /\ pc[Reconciler] = "snapshot"
  /\ todo' = {reg[k] : k \in Keys} \ {NoForward}
  /\ Goto(Reconciler, "nextForward")
  /\ UNCHANGED <<caddyVars, reg, ctxLive, tries, cur, sessionVars, appended, boundVars>>

\* The next forward of the snapshot, in any order (a Go map's).
NextForward ==
  /\ pc[Reconciler] = "nextForward"
  /\ \E f \in todo : /\ todo' = todo \ {f}
                     /\ cur' = [cur EXCEPT ![Reconciler] = f]
  /\ Goto(Reconciler, "checkRoute")
  /\ UNCHANGED <<caddyVars, reg, ctxLive, tries, sessionVars, appended, boundVars>>

\* Slip: a tick that appended nothing does not look at the catch-all.
AfterVisits_NoCheck == IF appended /\ ManagesWildcard THEN "deleteCatchAll" ELSE "asleep"

AfterVisits ==
  IF ~appended THEN "checkCatchAll"
  ELSE IF ManagesWildcard THEN "deleteCatchAll" ELSE "asleep"

\* No forward left: the catch-all goes last again if a route was appended.
LastForward ==
  /\ pc[Reconciler] = "nextForward"
  /\ todo = {}
  /\ cur' = [cur EXCEPT ![Reconciler] = NoForward]
  /\ Goto(Reconciler, AfterVisits)
  /\ UNCHANGED <<caddyVars, reg, ctxLive, tries, sessionVars, tickVars, boundVars>>

\* idExists: anything but a 200 counts as missing.
Present(answered, id) == answered /\ HasId(routes, id)

CheckRoute ==
  /\ pc[Reconciler] = "checkRoute"
  /\ \E applied, answered \in BOOLEAN :
       /\ Request(ctxLive[Reconciler], applied, answered)
       /\ Goto(Reconciler, IF Present(answered, Host(cur[Reconciler]))
                             THEN "nextForward" ELSE "deleteRoute")
  /\ UNCHANGED <<caddyVars, reg, ctxLive, tries, cur, sessionVars, tickVars, restarts>>

CheckCatchAll ==
  /\ pc[Reconciler] = "checkCatchAll"
  /\ \E applied, answered \in BOOLEAN :
       /\ Request(ctxLive[Reconciler], applied, answered)
       /\ Goto(Reconciler, IF Present(answered, CatchAll) \/ ~ManagesWildcard
                             THEN "asleep" ELSE "deleteCatchAll")
  /\ UNCHANGED <<caddyVars, reg, ctxLive, tries, cur, sessionVars, tickVars, restarts>>

\* The 30 s of the tick's context run out.
TickTimeout ==
  /\ pc[Reconciler] # "asleep"
  /\ ctxLive[Reconciler]
  /\ faults < MaxFaults
  /\ faults' = faults + 1
  /\ ctxLive' = [ctxLive EXCEPT ![Reconciler] = FALSE]
  /\ UNCHANGED <<caddyVars, reg, pc, tries, cur, sessionVars, tickVars, restarts>>

TickStep == Tick \/ Snapshot \/ NextForward \/ LastForward \/ CheckRoute \/ CheckCatchAll

-----------------------------------------------------------------------------
(* Caddy (external): a restart loses what came through the admin API; the   *)
(* Caddyfile's srv0 appears some time after the API answers again, and not  *)
(* at all once the relay has made an srv0 of its own.                      *)

CaddyStop ==
  /\ up /\ restarts < MaxRestarts
  /\ restarts' = restarts + 1
  /\ up' = FALSE
  /\ srv0' = "absent"
  /\ routes' = <<>>
  /\ UNCHANGED <<reg, pc, ctxLive, tries, cur, sessionVars, tickVars, faults>>

CaddyStart ==
  /\ ~up
  /\ up' = TRUE
  /\ UNCHANGED <<srv0, routes, reg, pc, ctxLive, tries, cur, sessionVars, tickVars, boundVars>>

CaddyLoad ==
  /\ up /\ srv0 = "absent"
  /\ srv0' = "caddyfile"
  /\ UNCHANGED <<up, routes, reg, pc, ctxLive, tries, cur, sessionVars, tickVars, boundVars>>

CaddyStep == CaddyStop \/ CaddyStart \/ CaddyLoad

-----------------------------------------------------------------------------
(* The relay dies and is started again.  The registry and the sessions are  *)
(* gone, what it had put into Caddy is not.  A session that has asked for    *)
(* nothing yet may as well connect afterwards, so it stays.  A restart that  *)
(* interrupts no session is left out: it is a tick that stops half way.     *)

Interrupted(s) == pc[s] # "done" /\ (pc[s] # "idle" \/ requests[s] > 0)

RelayRestart ==
  /\ \E s \in Sessions : Interrupted(s)
  /\ reg' = [k \in Keys |-> NoForward]
  /\ pc' = [a \in Actors |-> IF a = Reconciler THEN "asleep"
                             ELSE IF Interrupted(a) THEN "done" ELSE pc[a]]
  /\ cur' = [a \in Actors |-> IF a = Reconciler \/ Interrupted(a)
                              THEN NoForward ELSE cur[a]]
  /\ listening' = [s \in Sessions |-> listening[s] /\ ~Interrupted(s)]
  /\ looping' = [s \in Sessions |-> looping[s] /\ ~Interrupted(s)]
  /\ todo' = {}
  /\ UNCHANGED <<caddyVars, ctxLive, tries, requests, appended, boundVars>>

-----------------------------------------------------------------------------
Next ==
  \/ \E a \in Actors : SharedStep(a)
  \/ \E s \in Sessions : HandlerStep(s) \/ ClientStep(s)
  \/ TickStep \/ TickTimeout
  \/ CaddyStep \/ RelayRestart

Spec == Init /\ [][Next]_vars

(* Goroutines are scheduled and every HTTP call returns; the ticker fires; *)
(* a stopped Caddy is started again and loads its Caddyfile.  Nothing is   *)
(* asked of clients.                                                       *)
Fairness ==
  /\ \A a \in Actors : WF_vars(SharedStep(a))
  /\ \A s \in Sessions : WF_vars(HandlerStep(s))
  /\ WF_vars(TickStep)
  /\ WF_vars(CaddyStart) /\ WF_vars(CaddyLoad)

FairSpec == Spec /\ Fairness

-----------------------------------------------------------------------------
(* The abstract specification this one implements.                         *)

StageOf ==
  [place \in SessionPlaces |->
     CASE place = "idle" -> "free"
       [] place = "serving" -> "serving"
       [] place = "unregister" -> "leaving"
       [] place = "deleteStale" -> "released"
       [] place = "done" -> "ended"
       [] OTHER -> "asking"]

Registry == INSTANCE ForwardRegistry
              WITH owner <- reg,
                   stage <- [s \in Sessions |-> StageOf[pc[s]]],
                   work <- [s \in Sessions |-> cur[s]]

\* However the helpers of sessions and tick interleave and fail, the registry
\* goes through nothing but grants, takeovers and releases of what is still
\* the session's own (srv.reg under regMu).
ImplementsRegistry == Registry!Spec

-----------------------------------------------------------------------------
(* Properties.                                                             *)

Registered(f) == reg[ForwardKey(f)] = f

\* The registry holds only forwards of sessions that were told "true" and have
\* not unconfigured them: an attempt that fails half way, a cancelled forward
\* or a finished session leaves nothing the reconcile loop would re-push
\* (configureNewForward's "must happen AFTER all fallible operations").
RegistryBacked ==
  \A k \in Keys : reg[k] # NoForward =>
    /\ ForwardKey(reg[k]) = k
    /\ cur[reg[k].sess] = reg[k]
    /\ pc[reg[k].sess] \in {"serving", "unregister"}

RouteAuthorised(r) ==
  r.id # CatchAll => \E f \in Forward : /\ f.sess = r.dial
                                       /\ f.svc \in Permitted[f.sess]
                                       /\ Host(f) = r.id

\* Whoever's helper posted it and whenever, a forward route in Caddy sends its
\* host only to a session whose user and key stand for that host: the
\* snapshot, the retries and the shared client never mix two forwards up.
RoutesAuthorised == \A i \in DOMAIN routes : RouteAuthorised(routes[i])

\* A key's registration ends only by its own session's unconfigureForward or
\* by a newer forward of the same key taking its place, never by the late
\* cleanup of an older session (the pointer comparison in unconfigureForward);
\* or the relay restarts.
NewerRegistrationKept ==
  [][\A k \in Keys :
       (reg[k] # NoForward /\ reg'[k] # reg[k]) =>
         \/ reg'[k] # NoForward /\ pc[reg'[k].sess] = "record"
         \/ reg'[k] = NoForward /\ pc[reg[k].sess] = "unregister"
         \/ RelayRestart]_vars

\* What a request for the forward's host is answered from: its own socket.
Served(f) == up /\ DialedFor(routes, Host(f)) = f.sess

\* A session that a restart of the relay has ended, with whatever routes.
Fallen(t) == pc[t] = "done" /\ ctxLive[t]

\* Nothing has been lost, s's forward is the first it asked for, and no other
\* session has worked on its host, those before a restart of the relay excepted.
Undisturbed(s) ==
  /\ faults = 0 /\ restarts = 0 /\ RejectDuplicateIds
  /\ requests[s] = 1
  /\ \A t \in Sessions \ {s} :
       \/ requests[t] = 0
       \/ requests[t] = 1 /\ cur[t] # NoForward /\ Host(cur[t]) # Host(cur[s])
       \/ Fallen(t)

\* As long as nothing is lost, a forward is served from the moment its client
\* is told so: the catch-all, which every session and the reconcile loop take
\* out and append again at any time, never gets in front of an announced route,
\* and a route that a relay left behind when it died never hides a new one's.
AnnouncedIsServed ==
  \A s \in Sessions : pc[s] = "serving" /\ Undisturbed(s) => Served(cur[s])

\* A route whose POST was carried out but not answered stays behind the
\* catch-all if that matches its host: no tick has appended anything.
MayBeShadowed(f) == faults > 0 /\ Host(f) \notin ChildWildcards

\* The reconcile loop repairs: whatever a Caddy restart dropped, a forward
\* that stays registered is served again, the one case above excepted.
RegisteredGetsServed ==
  \A f \in Forward : Registered(f) ~> (Served(f) \/ ~Registered(f) \/ MayBeShadowed(f))

\* The catch-all 404 route always comes back, however sessions and ticks
\* interleave their delete-then-append of it and whichever request is lost.
CatchAllRestored == []<>(ManagesWildcard => HasId(routes, CatchAll))

\* A session whose connection is gone finishes, and leaves no registration,
\* even when Caddy is down or its answers are lost.
DisconnectedFinishes ==
  \A s \in Sessions :
    ~ctxLive[s] ~> (pc[s] = "done" /\ \A k \in Keys : reg[k] = NoForward \/ reg[k].sess # s)

=============================================================================
