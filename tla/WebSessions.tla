---------------------------- MODULE WebSessions ----------------------------
(***************************************************************************)
(* The OAuth sessions of the webapp: both implementations of AppStore       *)
(* (memAppStore, dbStore), the login and its callback, the middleware that  *)
(* finds a request's session (WithOAuthSession), and HandleProxy's use of   *)
(* it, whose oauthRoundTripper may refresh the session's tokens.            *)
(*                                                                         *)
(* HTTP handlers run concurrently and share nothing but the store.  A       *)
(* session's data are copied out of it, worked on without a lock, and       *)
(* written back whole.  Of the data the model keeps the generation of the   *)
(* refresh token, which the authorization server accepts once.  The oauth   *)
(* library (StartAuthFlow, ProcessCallback, ResumeSession, DoWithAuth) is   *)
(* external and modelled from its use here.                                *)
(***************************************************************************)
EXTENDS Naturals, Sequences

CONSTANTS
  Dids,         \* identities
  Sids, DidOf,  \* logins, each with its state, which becomes the session's id
  Requests,     \* calls of HandleProxy
  NoData,
  MaxGen, MaxTime, MaxFaults, MaxRestarts   \* bounds

Data == [sid : Sids, gen : 1..MaxGen]
SidOf == [x \in Data |-> x.sid]
Asked == [did : Dids, sid : Sids \cup {NoData}]

ASSUME SessionsAssumption ==
  /\ DidOf \in [Sids -> Dids]
  /\ Requests \cap Sids = {}
  /\ NoData \notin Data \cup Asked \cup Sids
  /\ MaxGen \in Nat \ {0} /\ MaxTime \in Nat /\ MaxFaults \in Nat /\ MaxRestarts \in Nat

VARIABLES
  backend,   \* "mem" or "db", by DATABASE_URI
  rows,      \* sessions, or the table of sessions
  order,     \* didOrder (in memory)
  updated,   \* updated_at (in the database), in ticks of its clock
  flows,     \* requests, or the table of auth requests
  now,
  live,      \* at the authorization server: the generation it will accept
  pc,        \* place of each login and of each request
  asks,      \* per request: identity, and session id if its cookie has one
  session,   \* per request: what the store gave it last
  held,      \* the data a handler works on
  clean,     \* history: the sessions used by one handler at a time, unharmed
  faults, restarts

Actors == Requests \cup Sids
storeVars == <<rows, order, updated>>
boundVars == <<faults, restarts>>
vars == <<backend, storeVars, flows, now, live, pc, asks, session, held, clean, boundVars>>

LoginPlaces == {"idle", "away", "exchange", "save", "forget", "saveAgain", "done", "failed"}
RequestPlaces == {"idle", "byId", "byDid", "resume", "policy", "send", "refresh", "persist",
                  "done", "refused", "unknown"}

TypeOK ==
  /\ backend \in {"mem", "db"}
  /\ \A i \in Sids : rows[i] \in {x \in Data : x.sid = i} \cup {NoData}
  /\ rows \in [Sids -> Data \cup {NoData}]
  /\ order \in [Dids -> Seq(Sids)]
  /\ updated \in [Sids -> 0..MaxTime]
  /\ flows \subseteq Sids /\ now \in 0..MaxTime
  /\ live \in [Sids -> 0..MaxGen]
  /\ pc \in [Actors -> LoginPlaces \cup RequestPlaces]
  /\ asks \in [Requests -> Asked \cup {NoData}]
  /\ session \in [Requests -> Data \cup {NoData}]
  /\ held \in [Actors -> Data \cup {NoData}]
  /\ clean \subseteq Sids
  /\ faults \in 0..MaxFaults /\ restarts \in 0..MaxRestarts

Init ==
  /\ backend \in {"mem", "db"}
  /\ rows = [i \in Sids |-> NoData]
  /\ order = [d \in Dids |-> <<>>]
  /\ updated = [i \in Sids |-> 0]
  /\ flows = {} /\ now = 0
  /\ live = [i \in Sids |-> 0]
  /\ pc = [a \in Actors |-> "idle"]
  /\ asks = [r \in Requests |-> NoData]
  /\ session = [r \in Requests |-> NoData]
  /\ held = [a \in Actors |-> NoData]
  /\ clean = Sids
  /\ faults = 0 /\ restarts = 0

At(a, place) == pc[a] = place
Goto(a, place) == pc' = [pc EXCEPT ![a] = place]

-----------------------------------------------------------------------------
(* The stores.                                                             *)

Present(d) == {i \in Sids : DidOf[i] = d /\ rows[i] # NoData}

\* GetSessionByDID: the last of didOrder, if it is there; or ORDER BY updated_at
\* DESC LIMIT 1, any of several with one time.
RecentInMemory(d) == {i \in Present(d) : order[d] # <<>> /\ i = order[d][Len(order[d])]}
RecentInDatabase(d) == {i \in Present(d) : \A j \in Present(d) : updated[j] <= updated[i]}

Recent(d) == IF backend = "mem" THEN RecentInMemory(d) ELSE RecentInDatabase(d)

\* Slip: the newest session is put first.
OrderWith_First(i) == <<i>> \o order[DidOf[i]]

OrderWith(i) == Append(order[DidOf[i]], i)

\* Slip: all sessions of an identity share a key.
KeyOf_Did(x) == CHOOSE i \in Sids : DidOf[i] = DidOf[x.sid]

\* memKey, or the table's primary key.
KeyOf(x) == x.sid

\* Slip: a session that is saved again is listed again.
IsNew_Always(x) == TRUE

IsNew(x) == rows[x.sid] = NoData

\* SaveSession.
Save(x) ==
  /\ rows' = [rows EXCEPT ![KeyOf(x)] = x]
  /\ order' = IF backend = "mem" /\ IsNew(x)
              THEN [order EXCEPT ![DidOf[x.sid]] = OrderWith(x.sid)]
              ELSE order
  /\ updated' = IF backend = "db" THEN [updated EXCEPT ![KeyOf(x)] = now] ELSE updated

SaveAuthRequestInfo(i) == i \notin flows /\ flows' = flows \cup {i}
DeleteAuthRequestInfo(i) == flows' = flows \ {i}
GetAuthRequestInfo(i) == i \in flows

\* A statement fails: the database is away, or the request's context is done.
StoreFails ==
  /\ backend = "db" /\ faults < MaxFaults
  /\ faults' = faults + 1

Fine == UNCHANGED faults

-----------------------------------------------------------------------------
(* Logins: HandleLogin, and HandleOAuthCallback when the browser is back.   *)

loginRest == <<backend, now, asks, session, restarts>>

\* StartAuthFlow saves the request under a new state.
HandleLogin(i) ==
  /\ At(i, "idle")
  /\ \/ SaveAuthRequestInfo(i) /\ Goto(i, "away") /\ Fine
     \/ /\ Goto(i, "failed") /\ UNCHANGED flows
        /\ Fine \/ StoreFails
  /\ UNCHANGED <<loginRest, storeVars, live, held, clean>>

\* ProcessCallback: GetAuthRequestInfo, ...
CallbackArrives(i) ==
  /\ At(i, "away")
  /\ \/ GetAuthRequestInfo(i) /\ Goto(i, "exchange") /\ Fine
     \/ ~GetAuthRequestInfo(i) /\ Goto(i, "failed") /\ Fine
     \/ Goto(i, "failed") /\ StoreFails
  /\ UNCHANGED <<loginRest, storeVars, flows, live, held, clean>>

\* ... the tokens, ...
ExchangeCode(i) ==
  /\ At(i, "exchange")
  /\ \/ /\ live' = [live EXCEPT ![i] = 1]
        /\ held' = [held EXCEPT ![i] = [sid |-> i, gen |-> 1]]
        /\ Goto(i, "save")
     \/ Goto(i, "failed") /\ UNCHANGED <<live, held>>
  /\ UNCHANGED <<loginRest, storeVars, flows, clean, faults>>

\* ... SaveSession, ...
SaveNew(i) ==
  /\ At(i, "save")
  /\ \/ Save(held[i]) /\ Goto(i, "forget") /\ UNCHANGED held /\ Fine
     \/ /\ StoreFails /\ Goto(i, "failed")
        /\ held' = [held EXCEPT ![i] = NoData]
        /\ UNCHANGED storeVars
  /\ UNCHANGED <<loginRest, flows, live, clean>>

\* ... DeleteAuthRequestInfo, whose error is only logged.
ForgetFlow(i) ==
  /\ At(i, "forget")
  /\ Goto(i, "saveAgain")
  /\ \/ DeleteAuthRequestInfo(i) /\ Fine
     \/ UNCHANGED flows /\ StoreFails
  /\ UNCHANGED <<loginRest, storeVars, live, held, clean>>

\* The handler saves the same data once more, and sets both cookies.
SaveAgain(i) ==
  /\ At(i, "saveAgain")
  /\ \/ Save(held[i]) /\ Goto(i, "done") /\ Fine
     \/ StoreFails /\ Goto(i, "failed") /\ UNCHANGED storeVars
  /\ held' = [held EXCEPT ![i] = NoData]
  /\ UNCHANGED <<loginRest, flows, live, clean>>

LoginStep(i) ==
  HandleLogin(i) \/ CallbackArrives(i) \/ ExchangeCode(i) \/ SaveNew(i) \/ ForgetFlow(i) \/ SaveAgain(i)

-----------------------------------------------------------------------------
(* Requests: WithOAuthSession, then HandleProxy.                           *)

requestRest == <<backend, flows, now, restarts>>

\* Both cookies of a login that has ended, account_did alone, or a bearer
\* token, whose identity's most recent session is used.
Arrive(r) ==
  /\ At(r, "idle")
  /\ \/ \E i \in Sids : /\ At(i, "done") /\ Goto(r, "byId")
                        /\ asks' = [asks EXCEPT ![r] = [did |-> DidOf[i], sid |-> i]]
     \/ \E d \in Dids : /\ Goto(r, "byDid")
                        /\ asks' = [asks EXCEPT ![r] = [did |-> d, sid |-> NoData]]
  /\ UNCHANGED <<requestRest, storeVars, live, session, held, clean, faults>>

Given(r, x) ==
  /\ session' = [session EXCEPT ![r] = x]
  /\ asks' = [asks EXCEPT ![r] = NoData]

\* GetSession by the cookie's id; anything but a session falls back.
LookUpById(r) ==
  /\ At(r, "byId")
  /\ LET x == rows[asks[r].sid]
     IN  \/ x # NoData /\ Given(r, x) /\ Goto(r, "resume") /\ Fine
         \/ x = NoData /\ Goto(r, "byDid") /\ UNCHANGED <<session, asks>> /\ Fine
         \/ StoreFails /\ Goto(r, "byDid") /\ UNCHANGED <<session, asks>>
  /\ UNCHANGED <<requestRest, storeVars, live, held, clean>>

LookUpByDid(r) ==
  /\ At(r, "byDid")
  /\ LET found == Recent(asks[r].did)
     IN  \/ \E i \in found : Given(r, rows[i]) /\ Goto(r, "resume") /\ Fine
         \/ found = {} /\ Given(r, NoData) /\ Goto(r, "unknown") /\ Fine
         \/ StoreFails /\ Given(r, NoData) /\ Goto(r, "refused")
  /\ UNCHANGED <<requestRest, storeVars, live, held, clean>>

\* The handlers that have this session's data in hand.
Users(i) ==
  {r \in Requests : At(r, "policy") /\ session[r].sid = i}
    \cup {a \in Actors : held[a] # NoData /\ held[a].sid = i}

\* Slip: the data the middleware put into the context are used.
Resumed_FromContext(r) == session[r]

\* ResumeSession reads the store again.
Resumed(r) == rows[session[r].sid]

\* resolvePDS and getRBACRecord may refuse before.
ResumeSession(r) ==
  /\ At(r, "resume")
  /\ LET i == session[r].sid
     IN  \/ /\ rows[i] # NoData
            /\ session' = [session EXCEPT ![r] = Resumed(r)]
            /\ clean' = IF Users(i) = {} THEN clean ELSE clean \ {i}
            /\ Goto(r, "policy") /\ Fine
         \/ /\ session' = [session EXCEPT ![r] = NoData]
            /\ Goto(r, "refused") /\ UNCHANGED clean
            /\ Fine \/ StoreFails
  /\ UNCHANGED <<requestRest, storeVars, live, asks, held>>

CheckPolicy(r) ==
  /\ At(r, "policy")
  /\ \/ held' = [held EXCEPT ![r] = session[r]] /\ Goto(r, "send")
     \/ UNCHANGED held /\ Goto(r, "refused")
  /\ session' = [session EXCEPT ![r] = NoData]
  /\ UNCHANGED <<requestRest, storeVars, live, asks, clean, faults>>

LetGo(r) == Goto(r, "done") /\ held' = [held EXCEPT ![r] = NoData]

\* DoWithAuth: an answer, a new nonce for this host, or a stale access token.
Send(r) ==
  /\ At(r, "send")
  /\ \/ LetGo(r)
     \/ (Goto(r, "persist") \/ Goto(r, "refresh")) /\ UNCHANGED held
  /\ UNCHANGED <<requestRest, storeVars, live, asks, session, clean, faults>>

\* The server accepts its current refresh token once; its answer may be lost.
RefreshTokens(r) ==
  LET i == held[r].sid
      next == live[i] + 1
  IN  /\ At(r, "refresh")
      /\ \/ /\ held[r].gen = live[i] /\ next <= MaxGen
            /\ live' = [live EXCEPT ![i] = next]
            /\ \/ /\ held' = [held EXCEPT ![r].gen = next]
                  /\ Goto(r, "persist") /\ UNCHANGED <<clean, faults>>
               \/ /\ LetGo(r) /\ faults < MaxFaults
                  /\ clean' = clean \ {i} /\ faults' = faults + 1
         \/ LetGo(r) /\ UNCHANGED <<live, clean, faults>>
      /\ UNCHANGED <<requestRest, storeVars, asks, session>>

\* PersistSessionCallback: SaveSession of the handler's data, error logged.
Persist(r) ==
  /\ At(r, "persist")
  /\ \/ Save(held[r]) /\ UNCHANGED clean /\ Fine
     \/ /\ StoreFails /\ UNCHANGED storeVars
        /\ clean' = clean \ {held[r].sid}
  /\ Goto(r, "send")
  /\ UNCHANGED <<requestRest, live, asks, session, held>>

RequestStep(r) ==
  \/ Arrive(r) \/ LookUpById(r) \/ LookUpByDid(r) \/ ResumeSession(r) \/ CheckPolicy(r)
  \/ Send(r) \/ RefreshTokens(r) \/ Persist(r)

-----------------------------------------------------------------------------
(* The database's clock, and the process.                                  *)

Tick ==
  /\ backend = "db" /\ now < MaxTime
  /\ now' = now + 1
  /\ UNCHANGED <<backend, storeVars, flows, live, pc, asks, session, held, clean, boundVars>>

\* Handlers end where they are.  A browser that is away at its server stays.
Restart ==
  /\ restarts < MaxRestarts
  /\ restarts' = restarts + 1
  /\ IF backend = "mem"
       THEN /\ rows' = [i \in Sids |-> NoData]
            /\ order' = [d \in Dids |-> <<>>]
            /\ flows' = {}
       ELSE UNCHANGED <<rows, order, flows>>
  /\ pc' = [a \in Actors |->
              CASE pc[a] \in {"idle", "away", "done", "failed", "refused", "unknown"} -> pc[a]
                [] OTHER -> IF a \in Sids THEN "failed" ELSE "refused"]
  /\ asks' = [r \in Requests |-> NoData]
  /\ session' = [r \in Requests |-> NoData]
  /\ held' = [a \in Actors |-> NoData]
  /\ clean' = {i \in clean : Users(i) = {}}
  /\ UNCHANGED <<backend, updated, now, live, faults>>

Next ==
  \/ \E i \in Sids : LoginStep(i)
  \/ \E r \in Requests : RequestStep(r)
  \/ Tick \/ Restart

Spec == Init /\ [][Next]_vars

-----------------------------------------------------------------------------
(* Both stores implement one: what is recent is what GetSessionByDID finds. *)

\* The times of the database's clock (SQLite's CURRENT_TIMESTAMP: seconds) do
\* not tell these apart.
SavedNow == IF backend = "mem" THEN {} ELSE {i \in Sids : rows[i] # NoData /\ updated[i] = now}

Store == INSTANCE SessionStore
           WITH Clients <- Requests,
                content <- rows,
                recent <- [d \in Dids |-> Recent(d)],
                instant <- SavedNow,
                asked <- asks,
                answer <- session,
                unknown <- {r \in Requests : At(r, "unknown")}

\* Through logins, fallbacks, refreshes and restarts, either store answers as
\* the one that SessionStore describes: a request that asks by session id is
\* given that session or, on a fallback, one saved since its identity's newest
\* login (AppStore's comment: "cookie-less recovery"), and is told there is none
\* only when there is none.
ImplementsStore == Store!Spec

-----------------------------------------------------------------------------
(* Properties.                                                             *)

\* didOrder lists every session in memory, and each once, however often the
\* handlers save it: GetSessionByDID reads nothing else to choose one.
IndexExact ==
  backend = "mem" =>
    \A d \in Dids :
      /\ {order[d][n] : n \in 1..Len(order[d])} = Present(d)
      /\ \A n, m \in 1..Len(order[d]) : order[d][n] = order[d][m] => n = m

\* A session that handlers used one after the other, with nothing lost or
\* killed on the way, can still be refreshed: what the store has for it is what
\* the server will accept, whatever nonces and tokens were written back and
\* however old the copy the middleware found.
TokensKept ==
  \A i \in clean : (Users(i) = {} /\ rows[i] # NoData) => rows[i].gen = live[i]
=============================================================================
