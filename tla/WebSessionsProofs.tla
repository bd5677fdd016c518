------------------------- MODULE WebSessionsProofs -------------------------
(* Proofs about WebSessions: for any identities, logins and requests, and   *)
(* any number of refreshes, faults and restarts, both stores are exact and  *)
(* implement SessionStore.                                                 *)
EXTENDS WebSessions, WellFoundedInduction, TLAPS

(* What a handler has in hand at its place in the code.                    *)
LoginHolds ==
  \A i \in Sids : pc[i] \in {"save", "forget", "saveAgain"} =>
    held[i] \in Data /\ held[i].sid = i

RequestHolds ==
  \A r \in Requests :
    /\ pc[r] = "byId" => asks[r] # NoData /\ asks[r].sid \in Sids
    /\ pc[r] = "byDid" => asks[r] # NoData
    /\ pc[r] \in {"resume", "policy"} => session[r] \in Data
    /\ pc[r] \in {"idle", "byId", "byDid"} => session[r] = NoData
    /\ pc[r] \in {"send", "refresh", "persist"} => held[r] \in Data

\* The database's clock has passed all that it has written.
ClockAhead == \A i \in Sids : updated[i] <= now

IInv == TypeOK /\ LoginHolds /\ RequestHolds /\ ClockAhead /\ IndexExact

LEMMA ActorsSplit ==
  /\ \A i \in Sids : i \in Actors /\ i \notin Requests
  /\ \A r \in Requests : r \in Actors /\ r \notin Sids
BY SessionsAssumption DEF Actors

LEMMA EmptyIndex ==
  ASSUME rows = [i \in Sids |-> NoData], order = [d \in Dids |-> <<>>]
  PROVE  IndexExact
<1> SUFFICES ASSUME NEW d \in Dids
             PROVE  /\ {order[d][n] : n \in 1..Len(order[d])} = Present(d)
                    /\ \A n, m \in 1..Len(order[d]) : order[d][n] = order[d][m] => n = m
  BY Zenon DEF IndexExact
<1>1. Present(d) = {}
  BY DEF Present
<1>2. order[d] = <<>>
  OBVIOUS
<1>3. 1..Len(order[d]) = {}
  BY <1>2
<1> QED  BY <1>1, <1>3

LEMMA InitIInv == Init => IInv
<1> SUFFICES ASSUME Init PROVE IInv
  OBVIOUS
<1>1. TypeOK
  BY SessionsAssumption DEF Init, TypeOK, LoginPlaces
<1>2. LoginHolds /\ RequestHolds /\ ClockAhead
  BY ActorsSplit DEF Init, LoginHolds, RequestHolds, ClockAhead
<1>3. IndexExact
  BY EmptyIndex DEF Init
<1> QED  BY <1>1, <1>2, <1>3 DEF IInv

(* SaveSession, whoever calls it.                                          *)
LEMMA SaveKeeps ==
  ASSUME TypeOK, IndexExact, ClockAhead, NEW x \in Data, Save(x), backend' = backend, now' = now
  PROVE  /\ \A i \in Sids : rows'[i] \in {y \in Data : y.sid = i} \cup {NoData}
         /\ rows' \in [Sids -> Data \cup {NoData}]
         /\ order' \in [Dids -> Seq(Sids)]
         /\ updated' \in [Sids -> 0..MaxTime]
         /\ ClockAhead' /\ IndexExact'
<1> DEFINE i == x.sid
           d == DidOf[i]
<1> USE SessionsAssumption
<1>1. i \in Sids /\ d \in Dids
  BY DEF Data
<1>2. rows' = [rows EXCEPT ![i] = x]
  BY DEF Save, KeyOf
<1>3. /\ \A j \in Sids : rows'[j] \in {y \in Data : y.sid = j} \cup {NoData}
      /\ rows' \in [Sids -> Data \cup {NoData}]
  BY <1>1, <1>2 DEF TypeOK
<1>4. order' \in [Dids -> Seq(Sids)]
  BY <1>1 DEF Save, OrderWith, TypeOK
<1>5. updated' \in [Sids -> 0..MaxTime] /\ ClockAhead'
  BY <1>1 DEF Save, KeyOf, TypeOK, ClockAhead
<1>6. IndexExact'
  <2> SUFFICES ASSUME backend = "mem", NEW e \in Dids
               PROVE  /\ {order'[e][n] : n \in 1..Len(order'[e])} = Present(e)'
                      /\ \A n, m \in 1..Len(order'[e]) : order'[e][n] = order'[e][m] => n = m
    BY DEF IndexExact
  <2>1. /\ order[e] \in Seq(Sids)
        /\ {order[e][n] : n \in 1..Len(order[e])} = Present(e)
        /\ \A n, m \in 1..Len(order[e]) : order[e][n] = order[e][m] => n = m
    BY DEF IndexExact, TypeOK
  <2>2. Present(e)' = IF e = d THEN Present(e) \cup {i} ELSE Present(e)
    BY <1>1, <1>2 DEF Present, TypeOK
  <2>3. CASE IsNew(x) /\ e = d
    <3>1. order'[e] = Append(order[e], i) /\ i \notin Present(e)
      BY <1>1, <2>3 DEF Save, OrderWith, IsNew, Present, TypeOK
    <3> HIDE DEF i
    <3>2. /\ Len(order'[e]) = Len(order[e]) + 1
          /\ \A n \in 1..Len(order[e]) : order'[e][n] = order[e][n]
          /\ order'[e][Len(order[e]) + 1] = i
      BY <1>1, <2>1, <3>1
    <3>3. \A n \in 1..Len(order[e]) : order[e][n] # i
      BY <2>1, <3>1
    <3>4. {order'[e][n] : n \in 1..Len(order'[e])} = Present(e) \cup {i}
      <4>1. 1..Len(order'[e]) = 1..Len(order[e]) \cup {Len(order[e]) + 1}
        BY <2>1, <3>2
      <4>2. {order'[e][n] : n \in 1..Len(order'[e])}
              = {order'[e][n] : n \in 1..Len(order[e])} \cup {order'[e][Len(order[e]) + 1]}
        BY <4>1, Zenon
      <4>3. {order'[e][n] : n \in 1..Len(order[e])} = {order[e][n] : n \in 1..Len(order[e])}
        BY <3>2, Zenon
      <4> QED  BY <2>1, <3>2, <4>2, <4>3, Zenon
    <3>5. \A n, m \in 1..Len(order'[e]) : order'[e][n] = order'[e][m] => n = m
      <4> SUFFICES ASSUME NEW n \in 1..Len(order'[e]), NEW m \in 1..Len(order'[e]),
                          order'[e][n] = order'[e][m]
                   PROVE  n = m
        OBVIOUS
      <4>1. Len(order[e]) \in Nat
        BY <2>1
      <4>2. n \in 1..Len(order[e]) \/ n = Len(order[e]) + 1
        BY <3>2, <4>1
      <4>3. m \in 1..Len(order[e]) \/ m = Len(order[e]) + 1
        BY <3>2, <4>1
      <4> QED  BY <2>1, <3>2, <3>3, <4>2, <4>3
    <3> QED  BY <2>2, <2>3, <3>4, <3>5
  <2>4. CASE ~(IsNew(x) /\ e = d)
    <3>1. order'[e] = order[e]
      BY <1>1, <2>4 DEF Save, OrderWith, TypeOK
    <3>2. Present(e)' = Present(e)
      BY <1>1, <2>2, <2>4 DEF IsNew, Present, TypeOK
    <3> QED  BY <2>1, <3>1, <3>2
  <2> QED  BY <2>3, <2>4
<1> QED  BY <1>3, <1>4, <1>5, <1>6

(* What steps that leave the store alone keep of it.                       *)
LEMMA StoreUntouched ==
  ASSUME TypeOK, IndexExact, ClockAhead, UNCHANGED <<backend, rows, order, updated>>,
         now' \in Nat, now <= now'
  PROVE  IndexExact' /\ ClockAhead'
<1>1. IndexExact'
  BY DEF IndexExact, Present
<1>2. ClockAhead'
  BY SessionsAssumption DEF ClockAhead, TypeOK
<1> QED  BY <1>1, <1>2

LEMMA LoginKeeps ==
  ASSUME IInv, NEW i \in Sids, LoginStep(i)
  PROVE  IInv'
<1> USE SessionsAssumption, ActorsSplit DEF IInv, At
<1>1. UNCHANGED loginRest /\ pc' = [pc EXCEPT ![i] = pc'[i]] /\ pc'[i] \in LoginPlaces
  BY DEF LoginStep, HandleLogin, CallbackArrives, ExchangeCode, SaveNew, ForgetFlow, SaveAgain,
         Goto, TypeOK, LoginPlaces
<1>2. /\ \A j \in Sids : rows'[j] \in {y \in Data : y.sid = j} \cup {NoData}
      /\ rows' \in [Sids -> Data \cup {NoData}]
      /\ order' \in [Dids -> Seq(Sids)]
      /\ updated' \in [Sids -> 0..MaxTime]
      /\ ClockAhead' /\ IndexExact'
  <2>1. CASE UNCHANGED storeVars
    BY <1>1, <2>1, StoreUntouched DEF loginRest, storeVars, TypeOK
  <2>2. CASE held[i] \in Data /\ Save(held[i])
    BY <1>1, <2>2, SaveKeeps DEF loginRest
  <2>3. CASE SaveNew(i) \/ SaveAgain(i)
    <3>1. held[i] \in Data
      BY <2>3 DEF SaveNew, SaveAgain, LoginHolds
    <3>2. UNCHANGED storeVars \/ Save(held[i])
      BY <2>3 DEF SaveNew, SaveAgain
    <3> QED  BY <2>1, <2>2, <3>1, <3>2
  <2>4. CASE HandleLogin(i) \/ CallbackArrives(i) \/ ExchangeCode(i) \/ ForgetFlow(i)
    BY <2>1, <2>4 DEF HandleLogin, CallbackArrives, ExchangeCode, ForgetFlow
  <2> QED  BY <2>3, <2>4 DEF LoginStep
\* The data: none, the first tokens, or what the handler had.
<1>3. /\ held' = [held EXCEPT ![i] = held'[i]]
      /\ held'[i] \in Data \cup {NoData}
      /\ pc'[i] \in {"save", "forget", "saveAgain"} => held'[i] \in Data /\ held'[i].sid = i
  <2>1. CASE ExchangeCode(i)
    <3>1. [sid |-> i, gen |-> 1] \in Data
      BY DEF Data
    <3> QED  BY <2>1, <3>1 DEF ExchangeCode, Goto, TypeOK
  <2>2. CASE SaveNew(i) \/ ForgetFlow(i)
    <3>1. held[i] \in Data /\ held[i].sid = i
      BY <2>2 DEF SaveNew, ForgetFlow, LoginHolds
    <3>2. \/ held' = held
          \/ held' = [held EXCEPT ![i] = NoData] /\ pc'[i] = "failed"
      BY <2>2 DEF SaveNew, ForgetFlow, Goto, TypeOK
    <3> QED  BY <3>1, <3>2 DEF TypeOK
  <2>3. CASE HandleLogin(i) \/ CallbackArrives(i) \/ SaveAgain(i)
    BY <2>3 DEF HandleLogin, CallbackArrives, SaveAgain, Goto, TypeOK
  <2> QED  BY <2>1, <2>2, <2>3 DEF LoginStep
<1>4. /\ flows' \subseteq Sids /\ live' \in [Sids -> 0..MaxGen] /\ clean' \subseteq Sids
      /\ faults' \in 0..MaxFaults
  <2>1. StoreFails \/ Fine => faults' \in 0..MaxFaults
    BY DEF StoreFails, Fine, TypeOK
  <2>2. CASE HandleLogin(i) \/ CallbackArrives(i) \/ ForgetFlow(i)
    BY <2>1, <2>2 DEF HandleLogin, CallbackArrives, ForgetFlow, SaveAuthRequestInfo,
                      DeleteAuthRequestInfo, TypeOK
  <2>3. CASE ExchangeCode(i)
    <3>1. 1 \in 0..MaxGen /\ UNCHANGED <<flows, clean, faults>>
      BY <2>3 DEF ExchangeCode
    <3>2. live' = live \/ live' = [live EXCEPT ![i] = 1]
      BY <2>3 DEF ExchangeCode
    <3> QED  BY <3>1, <3>2 DEF TypeOK
  <2>4. CASE SaveNew(i) \/ SaveAgain(i)
    BY <2>1, <2>4 DEF SaveNew, SaveAgain, TypeOK
  <2> QED  BY <2>2, <2>3, <2>4 DEF LoginStep
<1>5. TypeOK'
  BY <1>1, <1>2, <1>3, <1>4 DEF TypeOK, loginRest
<1>6. LoginHolds'
  <2>1. \A j \in Sids : j # i => pc'[j] = pc[j] /\ held'[j] = held[j]
    BY <1>1, <1>3 DEF TypeOK
  <2> QED  BY <1>3, <2>1 DEF LoginHolds
<1>7. RequestHolds'
  BY <1>1, <1>3 DEF RequestHolds, TypeOK, loginRest
<1> QED  BY <1>2, <1>5, <1>6, <1>7

LEMMA RequestKeeps ==
  ASSUME IInv, NEW r \in Requests, RequestStep(r)
  PROVE  IInv'
<1> USE SessionsAssumption, ActorsSplit DEF IInv, At
<1>1. UNCHANGED requestRest /\ pc' = [pc EXCEPT ![r] = pc'[r]] /\ pc'[r] \in RequestPlaces
  BY DEF RequestStep, Arrive, LookUpById, LookUpByDid, ResumeSession, CheckPolicy, Send,
         RefreshTokens, Persist, LetGo, Goto, TypeOK, RequestPlaces
<1>2. /\ \A j \in Sids : rows'[j] \in {y \in Data : y.sid = j} \cup {NoData}
      /\ rows' \in [Sids -> Data \cup {NoData}]
      /\ order' \in [Dids -> Seq(Sids)]
      /\ updated' \in [Sids -> 0..MaxTime]
      /\ ClockAhead' /\ IndexExact'
  <2>1. CASE UNCHANGED storeVars
    BY <1>1, <2>1, StoreUntouched DEF requestRest, storeVars, TypeOK
  <2>2. CASE held[r] \in Data /\ Save(held[r])
    BY <1>1, <2>2, SaveKeeps DEF requestRest
  <2>3. CASE Persist(r)
    BY <2>1, <2>2, <2>3 DEF Persist, RequestHolds
  <2>4. CASE Arrive(r) \/ LookUpById(r) \/ LookUpByDid(r) \/ ResumeSession(r)
    BY <2>1, <2>4 DEF Arrive, LookUpById, LookUpByDid, ResumeSession
  <2>5. CASE CheckPolicy(r) \/ Send(r) \/ RefreshTokens(r)
    BY <2>1, <2>5 DEF CheckPolicy, Send, RefreshTokens
  <2> QED  BY <2>3, <2>4, <2>5 DEF RequestStep
<1>3. /\ asks' = [asks EXCEPT ![r] = asks'[r]] /\ asks'[r] \in Asked \cup {NoData}
      /\ session' = [session EXCEPT ![r] = session'[r]] /\ session'[r] \in Data \cup {NoData}
      /\ held' = [held EXCEPT ![r] = held'[r]] /\ held'[r] \in Data \cup {NoData}
      /\ pc'[r] = "byId" => asks'[r] # NoData /\ asks'[r].sid \in Sids
      /\ pc'[r] = "byDid" => asks'[r] # NoData
      /\ pc'[r] \in {"resume", "policy"} => session'[r] \in Data
      /\ pc'[r] \in {"idle", "byId", "byDid"} => session'[r] = NoData
      /\ pc'[r] \in {"send", "refresh", "persist"} => held'[r] \in Data
  <2> USE DEF Goto, TypeOK, RequestHolds
  <2>1. CASE Arrive(r)
    <3>1. session' = session /\ held' = held /\ session[r] = NoData
      BY <2>1 DEF Arrive
    <3>2. CASE \E i \in Sids : /\ Goto(r, "byId")
                              /\ asks' = [asks EXCEPT ![r] = [did |-> DidOf[i], sid |-> i]]
      BY <3>1, <3>2 DEF Asked
    <3>3. CASE \E d \in Dids : /\ Goto(r, "byDid")
                              /\ asks' = [asks EXCEPT ![r] = [did |-> d, sid |-> NoData]]
      BY <3>1, <3>3 DEF Asked
    <3> QED  BY <2>1, <3>2, <3>3 DEF Arrive
  <2>2. CASE LookUpById(r)
    <3>1. held' = held /\ session[r] = NoData /\ asks[r] # NoData /\ rows[asks[r].sid] \in Data \cup {NoData}
      BY <2>2 DEF LookUpById
    <3>2. CASE /\ rows[asks[r].sid] # NoData /\ Given(r, rows[asks[r].sid])
               /\ Goto(r, "resume")
      BY <3>1, <3>2 DEF Given
    <3>3. CASE Goto(r, "byDid") /\ UNCHANGED <<session, asks>>
      BY <3>1, <3>3
    <3> QED  BY <2>2, <3>2, <3>3 DEF LookUpById
  <2>3. CASE LookUpByDid(r)
    <3>1. held' = held
      BY <2>3 DEF LookUpByDid
    <3>2. CASE \E i \in Recent(asks[r].did) : Given(r, rows[i]) /\ Goto(r, "resume")
      <4>1. PICK i \in Recent(asks[r].did) : Given(r, rows[i]) /\ Goto(r, "resume")
        BY <3>2
      <4>2. i \in Sids /\ rows[i] \in Data
        BY DEF Recent, RecentInMemory, RecentInDatabase, Present
      <4> QED  BY <3>1, <4>1, <4>2 DEF Given
    <3>3. CASE Given(r, NoData) /\ (Goto(r, "unknown") \/ Goto(r, "refused"))
      BY <3>1, <3>3 DEF Given
    <3> QED  BY <2>3, <3>2, <3>3 DEF LookUpByDid
  <2>4. CASE ResumeSession(r)
    <3>1. asks' = asks /\ held' = held /\ session[r] \in Data /\ session[r].sid \in Sids
      BY <2>4 DEF ResumeSession, Data
    <3>2. CASE /\ rows[session[r].sid] # NoData /\ Goto(r, "policy")
               /\ session' = [session EXCEPT ![r] = rows[session[r].sid]]
      BY <3>1, <3>2
    <3>3. CASE session' = [session EXCEPT ![r] = NoData] /\ Goto(r, "refused")
      BY <3>1, <3>3
    <3> QED  BY <2>4, <3>2, <3>3 DEF ResumeSession, Resumed
  <2>5. CASE CheckPolicy(r)
    <3>1. /\ asks' = asks /\ session[r] \in Data
          /\ session' = [session EXCEPT ![r] = NoData]
      BY <2>5 DEF CheckPolicy
    <3>2. CASE held' = [held EXCEPT ![r] = session[r]] /\ Goto(r, "send")
      BY <3>1, <3>2
    <3>3. CASE held' = held /\ Goto(r, "refused")
      BY <3>1, <3>3
    <3> QED  BY <2>5, <3>2, <3>3 DEF CheckPolicy
  <2>6. CASE Send(r) \/ RefreshTokens(r) \/ Persist(r)
    <3>1. asks' = asks /\ session' = session /\ held[r] \in Data
      BY <2>6 DEF Send, RefreshTokens, Persist
    <3>2. CASE LetGo(r)
      BY <3>1, <3>2 DEF LetGo
    <3>3. CASE held' = held /\ pc'[r] \in {"send", "refresh", "persist"}
      BY <3>1, <3>3
    <3>4. CASE /\ held' = [held EXCEPT ![r].gen = live[held[r].sid] + 1]
               /\ live[held[r].sid] + 1 <= MaxGen /\ Goto(r, "persist")
      <4>1. held'[r] = [held[r] EXCEPT !.gen = live[held[r].sid] + 1]
        BY <3>4
      <4>2. live[held[r].sid] + 1 \in 1..MaxGen
        BY <3>1, <3>4 DEF Data
      <4>3. held'[r] \in Data
        BY <3>1, <4>1, <4>2 DEF Data
      <4> QED  BY <3>1, <3>4, <4>3
    <3>5. CASE Send(r)
      BY <3>2, <3>3, <3>5 DEF Send
    <3>6. CASE Persist(r)
      BY <3>3, <3>6 DEF Persist
    <3>7. CASE RefreshTokens(r)
      BY <3>2, <3>4, <3>7 DEF RefreshTokens
    <3> QED  BY <2>6, <3>5, <3>6, <3>7
  <2> QED
    BY <2>1, <2>2, <2>3, <2>4, <2>5, <2>6 DEF RequestStep
<1>4. /\ live' \in [Sids -> 0..MaxGen] /\ clean' \subseteq Sids /\ faults' \in 0..MaxFaults
  <2>1. StoreFails \/ Fine => faults' \in 0..MaxFaults
    BY DEF StoreFails, Fine, TypeOK
  <2>2. CASE Arrive(r) \/ LookUpById(r) \/ LookUpByDid(r)
    BY <2>1, <2>2 DEF Arrive, LookUpById, LookUpByDid, Fine, TypeOK
  <2>3. CASE ResumeSession(r)
    BY <2>1, <2>3 DEF ResumeSession, TypeOK
  <2>4. CASE CheckPolicy(r) \/ Send(r)
    BY <2>4 DEF CheckPolicy, Send, TypeOK
  <2>5. CASE RefreshTokens(r)
    <3>1. /\ \/ live' = live
             \/ /\ live[held[r].sid] + 1 <= MaxGen
                /\ live' = [live EXCEPT ![held[r].sid] = live[held[r].sid] + 1]
          /\ clean' \subseteq clean
          /\ faults' = faults \/ (faults < MaxFaults /\ faults' = faults + 1)
      BY <2>5 DEF RefreshTokens
    <3>2. held[r].sid \in Sids
      BY <2>5 DEF RefreshTokens, RequestHolds, Data
    <3>3. live' \in [Sids -> 0..MaxGen]
      <4>1. live \in [Sids -> 0..MaxGen] /\ live[held[r].sid] + 1 \in Nat
        BY <3>2 DEF TypeOK
      <4>2. live[held[r].sid] + 1 <= MaxGen => live[held[r].sid] + 1 \in 0..MaxGen
        BY <4>1
      <4> QED  BY <3>1, <3>2, <4>1, <4>2
    <3>4. clean' \subseteq Sids /\ faults' \in 0..MaxFaults
      BY <3>1 DEF TypeOK
    <3> QED  BY <3>3, <3>4
  <2>6. CASE Persist(r)
    BY <2>1, <2>6 DEF Persist, TypeOK
  <2> QED  BY <2>2, <2>3, <2>4, <2>5, <2>6 DEF RequestStep
<1>5. TypeOK'
  BY <1>1, <1>2, <1>3, <1>4 DEF TypeOK, requestRest
<1>6. LoginHolds'
  <2>1. \A i \in Sids : pc'[i] = pc[i] /\ held'[i] = held[i]
    BY <1>1, <1>3 DEF TypeOK
  <2> QED  BY <2>1 DEF LoginHolds
<1>7. RequestHolds'
  BY <1>1, <1>3 DEF RequestHolds, TypeOK
<1> QED  BY <1>2, <1>5, <1>6, <1>7

LEMMA TickKeeps ==
  ASSUME IInv, Tick
  PROVE  IInv'
<1> USE SessionsAssumption DEF IInv
<1>1. now' \in 0..MaxTime /\ now <= now'
  BY DEF Tick, TypeOK
<1>2. IndexExact' /\ ClockAhead'
  BY <1>1, StoreUntouched DEF Tick, storeVars
<1>3. TypeOK'
  BY <1>1 DEF Tick, TypeOK, storeVars, boundVars
<1>4. LoginHolds' /\ RequestHolds'
  BY DEF Tick, LoginHolds, RequestHolds
<1> QED  BY <1>2, <1>3, <1>4

LEMMA RestartKeeps ==
  ASSUME IInv, Restart
  PROVE  IInv'
<1> USE SessionsAssumption, ActorsSplit DEF IInv
<1>1. /\ pc' \in [Actors -> LoginPlaces \cup RequestPlaces]
      /\ \A a \in Actors :
           pc'[a] \in {"idle", "away", "done", "failed", "refused", "unknown"}
  BY DEF Restart, TypeOK, LoginPlaces, RequestPlaces
<1>2. /\ asks' \in [Requests -> Asked \cup {NoData}]
      /\ session' \in [Requests -> Data \cup {NoData}] /\ \A r \in Requests : session'[r] = NoData
      /\ held' \in [Actors -> Data \cup {NoData}]
  BY DEF Restart
<1>3. /\ clean' \subseteq Sids /\ flows' \subseteq Sids /\ restarts' \in 0..MaxRestarts
      /\ UNCHANGED <<backend, updated, now, live, faults>>
  <2>1. flows' \subseteq Sids
    BY DEF Restart, TypeOK
  <2>2. clean' \subseteq Sids
    BY DEF Restart, TypeOK
  <2>3. restarts < MaxRestarts /\ restarts' = restarts + 1
        /\ UNCHANGED <<backend, updated, now, live, faults>>
    BY DEF Restart
  <2>4. restarts' \in 0..MaxRestarts
    BY <2>3 DEF TypeOK
  <2> QED  BY <2>1, <2>2, <2>3, <2>4
<1>4. /\ \A j \in Sids : rows'[j] \in {y \in Data : y.sid = j} \cup {NoData}
      /\ rows' \in [Sids -> Data \cup {NoData}]
      /\ order' \in [Dids -> Seq(Sids)]
      /\ IndexExact' /\ ClockAhead'
  <2>1. CASE backend = "mem"
    <3>1. rows' = [i \in Sids |-> NoData] /\ order' = [d \in Dids |-> <<>>]
      BY <2>1 DEF Restart
    <3>2. IndexExact'
      <4> SUFFICES ASSUME NEW d \in Dids
                   PROVE  /\ {order'[d][n] : n \in 1..Len(order'[d])} = Present(d)'
                          /\ \A n, m \in 1..Len(order'[d]) : order'[d][n] = order'[d][m] => n = m
        BY Zenon DEF IndexExact
      <4>1. Present(d)' = {}
        BY <3>1 DEF Present
      <4>2. order'[d] = <<>>
        BY <3>1
      <4>3. 1..Len(order'[d]) = {}
        BY <4>2
      <4> QED  BY <4>1, <4>3
    <3>3. ClockAhead'
      BY <1>3 DEF ClockAhead
    <3> QED  BY <3>1, <3>2, <3>3
  <2>2. CASE backend # "mem"
    BY <1>3, <2>2, StoreUntouched DEF Restart, TypeOK
  <2> QED  BY <2>1, <2>2
<1>5. TypeOK'
  BY <1>1, <1>2, <1>3, <1>4 DEF TypeOK
<1>6. LoginHolds' /\ RequestHolds'
  BY <1>1, <1>2 DEF LoginHolds, RequestHolds
<1> QED  BY <1>4, <1>5, <1>6

LEMMA StepIInv == IInv /\ [Next]_vars => IInv'
<1> SUFFICES ASSUME IInv, [Next]_vars PROVE IInv'
  OBVIOUS
<1>1. CASE UNCHANGED vars
  BY <1>1 DEF vars, storeVars, boundVars, IInv, TypeOK, LoginHolds, RequestHolds, ClockAhead,
              IndexExact, Present
<1> QED
  BY <1>1, LoginKeeps, RequestKeeps, TickKeeps, RestartKeeps DEF Next

LEMMA WebInvariant == Spec => []IInv
<1> QED  BY InitIInv, StepIInv, PTL DEF Spec

\* The two stores, the handlers' data and places, and the clock keep their
\* types for any number of logins and requests.
THEOREM WebTypeOK == Spec => []TypeOK
<1>1. IInv => TypeOK
  BY DEF IInv
<1> QED  BY <1>1, WebInvariant, PTL

\* However often handlers save a session again, didOrder lists each session
\* once and no other: memAppStore.SaveSession appends only what is new.
THEOREM WebIndexExact == Spec => []IndexExact
<1>1. IInv => IndexExact
  BY DEF IInv
<1> QED  BY <1>1, WebInvariant, PTL

(* The newest of some sessions.                                            *)
LEMMA HasNewest ==
  ASSUME NEW T, T # {}, NEW time, \A j \in T : time[j] \in 0..MaxTime
  PROVE  \E i \in T : \A j \in T : time[j] <= time[i]
<1> DEFINE ages == {MaxTime - time[j] : j \in T}
<1>1. ages \subseteq Nat /\ ages # {}
  BY SessionsAssumption
<1>2. PICK age \in ages : \A other \in ages : ~(<<other, age>> \in OpToRel(<, Nat))
  <2>1. ASSUME NEW S, S \subseteq Nat, S # {}
        PROVE  \E x \in S : \A y \in S : ~(<<y, x>> \in OpToRel(<, Nat))
    BY <2>1, NatLessThanWellFounded, WFMin, Zenon
  <2> QED  BY <1>1, <2>1, Zenon
<1>3. \A other \in ages : age <= other
  <2> SUFFICES ASSUME NEW other \in ages PROVE age <= other
    OBVIOUS
  <2>1. age \in Nat /\ other \in Nat
    BY <1>1
  <2>2. ~(other < age)
    BY <1>2, <2>1 DEF OpToRel
  <2> QED  BY <2>1, <2>2
<1>4. PICK i \in T : age = MaxTime - time[i]
  OBVIOUS
<1>5. ASSUME NEW j \in T PROVE time[j] <= time[i]
  <2>1. age <= MaxTime - time[j]
    BY <1>3
  <2> HIDE DEF ages
  <2> QED  BY <1>4, <2>1, SessionsAssumption
<1> QED  BY <1>5
-----------------------------------------------------------------------------
(* Both stores implement SessionStore.                                     *)

Unknown == {r \in Requests : At(r, "unknown")}

(* "Most recent" is a session of that identity, and there is one if there   *)
(* is any session.                                                         *)
LEMMA RecentFacts ==
  ASSUME IInv, NEW d \in Dids
  PROVE  /\ Recent(d) \subseteq Present(d)
         /\ Recent(d) = {} => Present(d) = {}
<1> USE SessionsAssumption DEF IInv
<1>1. Recent(d) \subseteq Present(d)
  BY DEF Recent, RecentInMemory, RecentInDatabase
<1>2. CASE backend = "mem" /\ Present(d) # {}
  <2>1. order[d] \in Seq(Sids) /\ {order[d][n] : n \in 1..Len(order[d])} = Present(d)
    BY <1>2 DEF TypeOK, IndexExact
  <2>2. 1..Len(order[d]) # {} /\ Len(order[d]) \in Nat
    BY <1>2, <2>1
  <2>3. Len(order[d]) \in 1..Len(order[d]) /\ order[d] # <<>>
    BY <2>1, <2>2
  <2>4. order[d][Len(order[d])] \in RecentInMemory(d)
    BY <2>1, <2>3 DEF RecentInMemory
  <2> QED  BY <1>1, <1>2, <2>4 DEF Recent
<1>3. CASE backend = "db" /\ Present(d) # {}
  <2>1. \A j \in Present(d) : updated[j] \in 0..MaxTime
    BY DEF Present, TypeOK
  <2>2. PICK i \in Present(d) : \A j \in Present(d) : updated[j] <= updated[i]
    BY <1>3, <2>1, HasNewest
  <2> QED  BY <1>3, <2>2 DEF Recent, RecentInDatabase
<1> QED  BY <1>1, <1>2, <1>3 DEF TypeOK

(* What SaveSession does to "most recent".                                 *)
LEMMA SaveRecent ==
  ASSUME IInv, NEW x \in Data, Save(x), backend' = backend, now' = now
  PROVE  LET i == x.sid
             d == DidOf[i]
         IN  /\ \A e \in Dids : e # d => Recent(e)' = Recent(e)
             /\ \/ Recent(d)' = {i} \cup (Recent(d) \cap SavedNow)
                \/ rows[i] # NoData /\ Recent(d)' = Recent(d)
             /\ SavedNow' = SavedNow \cup {i} \/ SavedNow' = {}
<1> USE SessionsAssumption DEF IInv
<1> DEFINE i == x.sid
           d == DidOf[i]
<1>1. i \in Sids /\ d \in Dids
  BY DEF Data
<1>2. rows' = [rows EXCEPT ![i] = x] /\ x # NoData
  BY DEF Save, KeyOf
<1>3. \A e \in Dids : Present(e)' = IF e = d THEN Present(e) \cup {i} ELSE Present(e)
  BY <1>1, <1>2 DEF Present, TypeOK
<1>4. CASE backend = "mem"
  <2>1. order' = IF IsNew(x) THEN [order EXCEPT ![d] = Append(order[d], i)] ELSE order
    BY <1>4 DEF Save, OrderWith
  <2>2. \A e \in Dids : Recent(e)' = RecentInMemory(e)' /\ Recent(e) = RecentInMemory(e)
    BY <1>4 DEF Recent
  <2>6. SavedNow = {} /\ SavedNow' = {}
    BY <1>4 DEF SavedNow
  <2>3. ASSUME NEW e \in Dids, e # d PROVE Recent(e)' = Recent(e)
    <3>1. Present(e)' = Present(e) /\ order'[e] = order[e]
      BY <1>1, <1>3, <2>1, <2>3 DEF TypeOK
    <3>2. RecentInMemory(e)' = RecentInMemory(e)
      BY <3>1, Zenon DEF RecentInMemory
    <3> QED  BY <2>2, <3>2
  <2>4. CASE rows[i] # NoData
    <3>1. Present(d)' = Present(d) /\ order' = order
      BY <1>1, <1>3, <2>1, <2>4 DEF IsNew, Present
    <3>2. RecentInMemory(d)' = RecentInMemory(d)
      BY <3>1, Zenon DEF RecentInMemory
    <3>3. Recent(d)' = Recent(d)
      BY <1>1, <2>2, <3>2
    <3> QED  BY <2>3, <2>4, <2>6, <3>3
  <2>5. CASE rows[i] = NoData
    <3>1. order[d] \in Seq(Sids) /\ order'[d] = Append(order[d], i)
      BY <1>1, <2>1, <2>5 DEF IsNew, TypeOK
    <3> HIDE DEF i
    <3>2. order'[d] # <<>> /\ order'[d][Len(order'[d])] = i
      BY <1>1, <3>1
    <3>3. Recent(d)' = {i}
      BY <1>1, <1>3, <2>2, <3>2 DEF RecentInMemory
    <3>4. Recent(d)' = {i} \cup (Recent(d) \cap SavedNow)
      BY <2>6, <3>3
    <3> QED  BY <2>3, <2>6, <3>4 DEF i
  <2> QED  BY <2>4, <2>5
<1>5. CASE backend = "db"
  <2>1. updated' = [updated EXCEPT ![i] = now]
    BY <1>5 DEF Save, KeyOf
  <2>2. \A e \in Dids : Recent(e)' = RecentInDatabase(e)' /\ Recent(e) = RecentInDatabase(e)
    BY <1>5 DEF Recent
  <2>3. ASSUME NEW e \in Dids, e # d PROVE Recent(e)' = Recent(e)
    <3>1. Present(e)' = Present(e) /\ \A j \in Present(e) : j # i /\ updated'[j] = updated[j]
      BY <1>1, <1>3, <2>1, <2>3 DEF Present, TypeOK
    <3>2. \A j \in Present(e) : (\A k \in Present(e) : updated'[k] <= updated'[j])
                              <=> (\A k \in Present(e) : updated[k] <= updated[j])
      BY <3>1
    <3>3. RecentInDatabase(e)' = RecentInDatabase(e)
      BY <3>1, <3>2 DEF RecentInDatabase
    <3> QED  BY <2>2, <2>3, <3>3
  <2>4. /\ Present(d)' = Present(d) \cup {i} /\ updated'[i] = now
        /\ \A j \in Present(d) : j # i => updated'[j] = updated[j]
        /\ \A j \in Present(d) : updated[j] \in Nat /\ updated[j] <= now
        /\ now \in Nat
    BY <1>1, <1>3, <2>1 DEF Present, TypeOK, ClockAhead
  \* The others that were saved in this tick of the clock stay recent.
  <2>5. Recent(d)' = {i} \cup {j \in Present(d) : updated[j] = now}
    <3>1. Recent(d)' = {j \in Present(d)' : \A k \in Present(d)' : updated'[k] <= updated'[j]}
      BY <1>1, <2>2 DEF RecentInDatabase
    <3> HIDE DEF i, d
    <3>2. \A j \in Present(d)' : updated'[j] \in Nat /\ updated'[j] <= now
      BY <2>4
    <3>3. \A j \in Present(d)' :
            (\A k \in Present(d)' : updated'[k] <= updated'[j]) <=> updated'[j] = now
      BY <2>4, <3>2
    <3> QED  BY <2>4, <3>1, <3>3
  <2>6. Recent(d) \cap SavedNow = {j \in Present(d) : updated[j] = now}
    <3>1. Recent(d) = {j \in Present(d) : \A k \in Present(d) : updated[k] <= updated[j]}
      BY <1>1, <2>2 DEF RecentInDatabase
    <3>2. SavedNow = {j \in Sids : rows[j] # NoData /\ updated[j] = now}
      BY <1>5 DEF SavedNow
    <3>3. \A j \in Present(d) : j \in SavedNow <=> updated[j] = now
      BY <3>2 DEF Present
    <3> HIDE DEF i, d
    <3>4. \A j \in Present(d) : updated[j] = now => j \in Recent(d)
      BY <2>4, <3>1
    <3> QED  BY <3>1, <3>3, <3>4
  <2>7. SavedNow' = SavedNow \cup {i}
    <3>1. SavedNow' = {j \in Sids : rows'[j] # NoData /\ updated'[j] = now}
      BY <1>5 DEF SavedNow
    <3>2. SavedNow = {j \in Sids : rows[j] # NoData /\ updated[j] = now}
      BY <1>5 DEF SavedNow
    <3>3. ASSUME NEW j \in Sids, j # i PROVE rows'[j] = rows[j] /\ updated'[j] = updated[j]
      BY <1>1, <1>2, <2>1, <3>3 DEF TypeOK
    <3>4. rows'[i] # NoData /\ updated'[i] = now
      BY <1>1, <1>2, <2>4 DEF TypeOK
    <3> HIDE DEF i
    <3> QED  BY <1>1, <3>1, <3>2, <3>3, <3>4
  <2> QED  BY <2>3, <2>5, <2>6, <2>7
<1> QED  BY <1>4, <1>5 DEF TypeOK

LEMMA InitStore == Init => Store!Init
<1> SUFFICES ASSUME Init PROVE Store!Init
  OBVIOUS
<1>1. ASSUME NEW d \in Dids PROVE Recent(d) = {}
  <2>1. Present(d) = {}
    BY DEF Init, Present
  <2> QED  BY <2>1 DEF Recent, RecentInMemory, RecentInDatabase
<1>2. Unknown = {}
  BY ActorsSplit DEF Init, At, Unknown
<1>3. SavedNow = {}
  BY DEF Init, SavedNow
<1> QED  BY <1>1, <1>2, <1>3 DEF Init, Store!Init, Unknown

(* A step that leaves the store alone is no step of SessionStore, or one    *)
(* that gives a client something.                                          *)
LEMMA RecentUntouched ==
  ASSUME UNCHANGED <<backend, rows, order, updated>>
  PROVE  \A d \in Dids : Recent(d)' = Recent(d)
BY DEF Recent, RecentInMemory, RecentInDatabase, Present

LEMMA SaveStep ==
  ASSUME IInv, NEW x \in Data, Save(x), backend' = backend, now' = now,
         asks' = asks, session' = session, Unknown' = Unknown
  PROVE  Store!Save(x)
<1> DEFINE R == [d \in Dids |-> Recent(d)]
           i == x.sid
           d == DidOf[i]
<1>1. i \in Sids /\ d \in Dids /\ SidOf[x] = i
  BY SessionsAssumption DEF Data, SidOf
<1>2. rows' = [rows EXCEPT ![i] = x]
  BY DEF Save, KeyOf
<1>3. \/ R' = [R EXCEPT ![d] = {i} \cup (@ \cap SavedNow)]
      \/ rows[i] # NoData /\ R' = R
  BY <1>1, SaveRecent
<1>4. SavedNow' = SavedNow \cup {i} \/ SavedNow' = {}
  BY <1>1, SaveRecent
<1> QED
  BY <1>1, <1>2, <1>3, <1>4 DEF Store!Save, Unknown

LEMMA StepStore ==
  ASSUME IInv, [Next]_vars
  PROVE  [Store!Next]_(Store!vars)
<1> DEFINE R == [d \in Dids |-> Recent(d)]
<1> USE SessionsAssumption, ActorsSplit DEF At, Goto
<1>a. SUFFICES ASSUME ~UNCHANGED <<rows, R, SavedNow, asks, session, Unknown>> PROVE Store!Next
  BY DEF Store!vars, Unknown
<1>b. /\ UNCHANGED <<backend, rows, order, updated>> => R' = R
      /\ UNCHANGED <<backend, rows, updated, now>> => SavedNow' = SavedNow
  BY RecentUntouched DEF SavedNow
<1>c. /\ pc \in [Actors -> LoginPlaces \cup RequestPlaces]
      /\ session \in [Requests -> Data \cup {NoData}]
      /\ asks \in [Requests -> Asked \cup {NoData}]
  BY DEF IInv, TypeOK
<1>1. ASSUME NEW i \in Sids, LoginStep(i) PROVE Store!Next
  <2>1. UNCHANGED <<backend, now, asks, session>> /\ Unknown' = Unknown
    <3>1. UNCHANGED loginRest /\ pc' = [pc EXCEPT ![i] = pc'[i]]
      BY <1>1, <1>c DEF LoginStep, HandleLogin, CallbackArrives, ExchangeCode, SaveNew,
                        ForgetFlow, SaveAgain
    <3>2. \A r \in Requests : pc'[r] = pc[r]
      BY <1>c, <3>1
    <3> QED  BY <3>1, <3>2 DEF loginRest, Unknown
  <2>2. CASE UNCHANGED storeVars
    BY <1>a, <1>b, <2>1, <2>2 DEF storeVars
  <2>3. CASE (SaveNew(i) \/ SaveAgain(i)) /\ Save(held[i])
    <3>1. held[i] \in Data
      BY <2>3 DEF SaveNew, SaveAgain, IInv, LoginHolds
    <3> QED  BY <2>1, <2>3, <3>1, SaveStep DEF Store!Next
  <2>4. CASE SaveNew(i) \/ SaveAgain(i)
    BY <2>2, <2>3, <2>4 DEF SaveNew, SaveAgain
  <2>5. CASE HandleLogin(i) \/ CallbackArrives(i) \/ ExchangeCode(i) \/ ForgetFlow(i)
    BY <2>2, <2>5 DEF HandleLogin, CallbackArrives, ExchangeCode, ForgetFlow
  <2> QED  BY <1>1, <2>4, <2>5 DEF LoginStep
<1>2. ASSUME NEW r \in Requests, RequestStep(r) PROVE Store!Next
  <2>1. UNCHANGED <<backend, now>>
    BY <1>2 DEF RequestStep, Arrive, LookUpById, LookUpByDid, ResumeSession, CheckPolicy, Send,
                RefreshTokens, Persist, requestRest
  <2>2. /\ pc' = [pc EXCEPT ![r] = pc'[r]] /\ pc[r] # "unknown"
        /\ pc'[r] = "unknown" => LookUpByDid(r)
    BY <1>2, <1>c DEF RequestStep, Arrive, LookUpById, LookUpByDid, ResumeSession, CheckPolicy,
                      Send, RefreshTokens, Persist, LetGo
  <2>3. \A q \in Requests : q # r => pc'[q] = pc[q]
    BY <1>c, <2>2
  <2>4. Unknown' = IF pc'[r] = "unknown" THEN Unknown \cup {r} ELSE Unknown
    BY <2>2, <2>3 DEF Unknown
  <2>a. UNCHANGED storeVars => rows' = rows /\ R' = R /\ SavedNow' = SavedNow
    BY <1>b, <2>1 DEF storeVars
  <2> HIDE DEF R
  <2>5. CASE UNCHANGED <<storeVars, asks, session>> /\ Unknown' = Unknown
    BY <1>a, <2>a, <2>5
  <2>6. CASE UNCHANGED <<storeVars, asks>> /\ session' = [session EXCEPT ![r] = NoData]
             /\ Unknown' = Unknown
    <3>1. Store!Forget(r)
      BY <2>a, <2>6 DEF Store!Forget, Store!storeVars, Unknown, R
    <3> QED  BY <3>1 DEF Store!Next
  <2>7. ASSUME NEW x \in Data, UNCHANGED storeVars, Unknown' = Unknown, asks[r] # NoData, Given(r, x),
               \/ asks[r].sid # NoData /\ x = rows[asks[r].sid]
               \/ \E i \in Recent(asks[r].did) : x = rows[i]
        PROVE  Store!Next
    <3>1. x # NoData
      OBVIOUS
    <3>2. Store!Answer(r, x)
      BY <2>a, <2>7, <3>1 DEF Store!Answer, Store!storeVars, Given, Unknown, R
    <3>3. asks[r].did \in Dids
      BY <1>c, <2>7 DEF Asked
    <3>4. R[asks[r].did] = Recent(asks[r].did)
      BY <3>3 DEF R
    <3>5. Store!Get(r) \/ Store!GetRecent(r)
      BY <2>7, <3>2, <3>4 DEF Store!Get, Store!GetRecent, R
    <3> QED  BY <3>5 DEF Store!Next
  <2>8. CASE Arrive(r)
    <3>1. UNCHANGED <<storeVars, session>> /\ Unknown' = Unknown
      BY <2>2, <2>4, <2>8 DEF Arrive, LookUpByDid
    <3>2. \E d \in Dids, s \in Sids \cup {NoData} : asks' = [asks EXCEPT ![r] = [did |-> d, sid |-> s]]
      BY <2>8 DEF Arrive
    <3>3. Store!Ask(r)
      BY <2>a, <3>1, <3>2 DEF Store!Ask, Store!storeVars, Unknown, R
    <3> QED  BY <3>3 DEF Store!Next
  <2>9. CASE LookUpById(r)
    <3>1. UNCHANGED storeVars /\ Unknown' = Unknown
      BY <2>2, <2>4, <2>9 DEF LookUpById, LookUpByDid
    <3>2. asks[r] # NoData /\ asks[r].sid \in Sids /\ asks[r].sid # NoData
      BY <2>9 DEF LookUpById, IInv, RequestHolds
    <3>3. rows[asks[r].sid] \in Data \cup {NoData}
      BY <3>2 DEF IInv, TypeOK
    <3> QED  BY <2>5, <2>7, <2>9, <3>1, <3>2, <3>3 DEF LookUpById
  <2>10. CASE LookUpByDid(r)
    <3> DEFINE d == asks[r].did
    <3>1. /\ UNCHANGED storeVars /\ session[r] = NoData /\ asks[r] # NoData /\ d \in Dids
      BY <2>10 DEF LookUpByDid, IInv, TypeOK, RequestHolds, Asked
    <3>2. CASE \E i \in Recent(d) : Given(r, rows[i]) /\ Goto(r, "resume")
      <4>1. PICK i \in Recent(d) : Given(r, rows[i]) /\ Goto(r, "resume")
        BY <3>2
      <4>2. Unknown' = Unknown
        BY <1>c, <2>4, <4>1
      <4>3. rows[i] \in Data
        BY <3>1, <4>1, RecentFacts DEF IInv, TypeOK, Present
      <4> QED  BY <2>7, <3>1, <4>1, <4>2, <4>3
    <3>3. CASE Recent(d) = {} /\ Given(r, NoData) /\ Goto(r, "unknown")
      <4>1. Present(d) = {}
        BY <3>1, <3>3, RecentFacts
      <4>2. session' = session /\ asks' = [asks EXCEPT ![r] = NoData]
        BY <1>c, <3>1, <3>3 DEF Given
      <4>3. Unknown' = Unknown \cup {r}
        BY <1>c, <2>4, <3>3
      <4>4. \A i \in Sids : DidOf[i] = d => rows[i] = NoData
        BY <4>1 DEF Present
      <4>5. Store!GetNone(r)
        BY <2>a, <3>1, <4>2, <4>3, <4>4 DEF Store!GetNone, Store!storeVars, Unknown, R
      <4> QED  BY <4>5 DEF Store!Next
    <3>4. CASE Given(r, NoData) /\ Goto(r, "refused")
      <4>1. Unknown' = Unknown
        BY <1>c, <2>4, <3>4
      <4>2. session' = session /\ asks' = [asks EXCEPT ![r] = NoData]
        BY <1>c, <3>1, <3>4 DEF Given
      <4>3. Store!Fail(r)
        BY <2>a, <3>1, <4>1, <4>2 DEF Store!Fail, Store!storeVars, Unknown, R
      <4> QED  BY <4>3 DEF Store!Next
    <3> QED  BY <2>10, <3>2, <3>3, <3>4 DEF LookUpByDid
  <2>11. CASE ResumeSession(r)
    <3>1. UNCHANGED <<storeVars, asks>> /\ Unknown' = Unknown
      BY <2>2, <2>4, <2>11 DEF ResumeSession, LookUpByDid
    <3>2. session[r] \in Data /\ session[r] # NoData
      BY <2>11 DEF ResumeSession, IInv, RequestHolds
    <3>3. CASE rows[session[r].sid] # NoData /\ session' = [session EXCEPT ![r] = Resumed(r)]
      <4>1. SidOf[session[r]] = session[r].sid
        BY <3>2 DEF SidOf
      <4>2. Store!GetAgain(r)
        BY <2>a, <3>1, <3>2, <3>3, <4>1 DEF Store!GetAgain, Store!storeVars, Resumed, Unknown, R
      <4> QED  BY <4>2 DEF Store!Next
    <3> QED  BY <2>6, <2>11, <3>1, <3>3 DEF ResumeSession
  <2>12. CASE CheckPolicy(r)
    <3>1. UNCHANGED <<storeVars, asks>> /\ Unknown' = Unknown
      BY <2>2, <2>4, <2>12 DEF CheckPolicy, LookUpByDid
    <3> QED  BY <2>6, <2>12, <3>1 DEF CheckPolicy
  <2>13. CASE Send(r) \/ RefreshTokens(r)
    <3>1. UNCHANGED <<storeVars, asks, session>> /\ Unknown' = Unknown
      BY <2>2, <2>4, <2>13 DEF Send, RefreshTokens, LookUpByDid
    <3> QED  BY <2>5, <3>1
  <2>14. CASE Persist(r)
    <3>1. held[r] \in Data /\ UNCHANGED <<asks, session>> /\ Unknown' = Unknown
      BY <2>2, <2>4, <2>14 DEF Persist, IInv, RequestHolds, LookUpByDid
    <3>2. CASE Save(held[r])
      BY <2>1, <3>1, <3>2, SaveStep DEF Store!Next
    <3> QED  BY <2>5, <2>14, <3>1, <3>2 DEF Persist
  <2> QED  BY <1>2, <2>8, <2>9, <2>10, <2>11, <2>12, <2>13, <2>14 DEF RequestStep
<1>3. CASE Tick
  <2>1. UNCHANGED <<rows, asks, session>> /\ Unknown' = Unknown /\ R' = R
    BY <1>3, <1>b DEF Tick, storeVars, Unknown
  <2>2. SavedNow' = {}
    <3>1. /\ updated' = updated /\ now' = now + 1 /\ now \in Nat /\ backend' = backend
          /\ \A i \in Sids : updated[i] \in Nat /\ updated[i] <= now
      BY <1>3 DEF Tick, storeVars, IInv, TypeOK, ClockAhead
    <3>2. \A i \in Sids : updated'[i] # now'
      BY <3>1
    <3> QED  BY <3>2 DEF SavedNow
  <2>3. Store!Tick
    BY <2>1, <2>2 DEF Store!Tick, Unknown
  <2> QED  BY <2>3 DEF Store!Next
<1>4. CASE Restart
  <2>1. Unknown' = Unknown
    <3>1. \A r \in Requests : pc'[r] = "unknown" <=> pc[r] = "unknown"
      BY <1>4 DEF Restart
    <3> QED  BY <3>1 DEF Unknown
  <2>2. session' = [c \in Requests |-> NoData] /\ asks' = [c \in Requests |-> NoData]
    BY <1>4 DEF Restart
  <2>3. CASE backend = "mem"
    <3>1. rows' = [i \in Sids |-> NoData] /\ SavedNow' = {}
      BY <1>4, <2>3 DEF Restart, SavedNow
    <3>2. ASSUME NEW d \in Dids PROVE Recent(d)' = {}
      <4>1. Present(d)' = {}
        BY <3>1 DEF Present
      <4> QED  BY <4>1 DEF Recent, RecentInMemory, RecentInDatabase
    <3>3. R' = [d \in Dids |-> {}]
      BY <3>2
    <3>4. Store!Restart
      BY <2>1, <2>2, <3>1, <3>3 DEF Store!Restart, Unknown
    <3> QED  BY <3>4 DEF Store!Next
  <2>4. CASE backend # "mem"
    <3>1. UNCHANGED <<rows, SavedNow>> /\ R' = R
      BY <1>4, <1>b, <2>4 DEF Restart
    <3>2. Store!Restart
      BY <2>1, <2>2, <3>1 DEF Store!Restart, Store!storeVars, Unknown
    <3> QED  BY <3>2 DEF Store!Next
  <2> QED  BY <2>3, <2>4
<1>5. CASE UNCHANGED vars
  BY <1>5, <1>a, <1>b DEF vars, storeVars, Unknown
<1> QED  BY <1>1, <1>2, <1>3, <1>4, <1>5 DEF Next

\* Memory and database, with their different ideas of "most recent", both keep
\* what AppStore's callers rely on, through logins, fallbacks, refreshes, failed
\* statements and restarts.
THEOREM WebImplementsStore == Spec => ImplementsStore
<1>1. IInv /\ [Next]_vars => [Store!Next]_(Store!vars)
  BY StepStore
<1> QED
  BY <1>1, InitStore, WebInvariant, PTL DEF Spec, ImplementsStore, Store!Spec

-----------------------------------------------------------------------------
(* A session that is used by one handler at a time keeps its tokens.       *)

Bears(x, i) == x # NoData /\ x.sid = i

\* The data an actor works on, if any.
Work(a) == IF a \in Requests /\ At(a, "policy") THEN session[a] ELSE held[a]
Uses(a, i) == Bears(Work(a), i)

HeldWhere ==
  /\ \A i \in Sids : pc[i] \notin {"save", "forget", "saveAgain"} => held[i] = NoData
  /\ \A r \in Requests : pc[r] \notin {"send", "refresh", "persist"} => held[r] = NoData

\* Until its login has saved it, nobody has a session.
Unsaved(i) ==
  pc[i] \in {"idle", "away", "exchange", "save"} =>
    rows[i] = NoData /\ \A r \in Requests : ~Bears(session[r], i) /\ ~Bears(held[r], i)

\* Its one user has what the server will accept, and so has the store, unless
\* the user is about to save.
Fit(i) ==
  i \in clean =>
    /\ \A a, b \in Actors : Uses(a, i) /\ Uses(b, i) => a = b
    /\ \A a \in Actors : Uses(a, i) => Work(a).gen = live[i]
    /\ rows[i] # NoData =>
         \/ rows[i].gen = live[i]
         \/ \E a \in Actors : Uses(a, i) /\ pc[a] = "persist"

TInv == IInv /\ HeldWhere /\ \A i \in Sids : Unsaved(i) /\ Fit(i)

LEMMA UsersAre ==
  ASSUME TInv, NEW i \in Sids
  PROVE  Users(i) = {a \in Actors : Uses(a, i)}
<1> USE ActorsSplit DEF At, Bears, Work, Uses
<1>1. \A r \in Requests : pc[r] = "policy" => held[r] = NoData /\ session[r] # NoData
  BY SessionsAssumption DEF TInv, HeldWhere, IInv, RequestHolds
<1> QED  BY <1>1 DEF Users

LEMMA FitUntouched ==
  ASSUME NEW a \in Actors, NEW i \in Sids, Fit(i), i \in clean' => i \in clean,
         \A b \in Actors : b # a => Work(b)' = Work(b) /\ pc'[b] = pc[b],
         ~Uses(a, i), ~Uses(a, i)', rows'[i] = rows[i], live'[i] = live[i]
  PROVE  Fit(i)'
<1> HIDE DEF Work
<1>1. \A b \in Actors : Uses(b, i)' = Uses(b, i)
  BY DEF Uses, Bears
<1> QED  BY <1>1 DEF Fit

LEMMA FitTouched ==
  ASSUME NEW a \in Actors, NEW i \in Sids, Fit(i),
         \A b \in Actors : b # a => Work(b)' = Work(b) /\ pc'[b] = pc[b],
         i \in clean' =>
           /\ i \in clean
           /\ Uses(a, i) \/ \A b \in Actors : ~Uses(b, i)
           /\ Uses(a, i)' => Work(a)'.gen = live'[i]
           /\ rows'[i] # NoData =>
                rows'[i].gen = live'[i] \/ (Uses(a, i)' /\ pc'[a] = "persist")
  PROVE  Fit(i)'
<1> HIDE DEF Work
<1>1. \A b \in Actors : b # a => Uses(b, i)' = Uses(b, i)
  BY DEF Uses
<1>2. i \in clean' => \A b \in Actors : Uses(b, i)' => b = a
  BY <1>1 DEF Fit
<1> QED  BY <1>1, <1>2 DEF Fit

(* What a clean session's user finds in the store when it is not about to  *)
(* save.                                                                   *)
LEMMA RowsFit ==
  ASSUME NEW a \in Actors, NEW i \in Sids, Fit(i), i \in clean, Uses(a, i), pc[a] # "persist"
  PROVE  Work(a).gen = live[i] /\ (rows[i] # NoData => rows[i].gen = live[i])
<1> HIDE DEF Work
<1> QED  BY DEF Fit

LEMMA LoginAlone ==
  ASSUME IInv, NEW i \in Sids, LoginStep(i)
  PROVE  /\ UNCHANGED <<session, clean>>
         /\ \A b \in Actors : b # i => pc'[b] = pc[b] /\ held'[b] = held[b]
         /\ \A b \in Actors : b # i => Work(b)' = Work(b)
<1> USE ActorsSplit DEF At
<1>1. /\ UNCHANGED <<session, clean>>
      /\ \A b \in Actors : b # i => pc'[b] = pc[b] /\ held'[b] = held[b]
  BY DEF LoginStep, HandleLogin, CallbackArrives, ExchangeCode, SaveNew, ForgetFlow, SaveAgain,
         Goto, IInv, TypeOK, loginRest
<1>2. \A b \in Actors : b # i => Work(b)' = Work(b)
  BY <1>1 DEF Work
<1> QED  BY <1>1, <1>2

LEMMA RequestAlone ==
  ASSUME IInv, NEW r \in Requests, RequestStep(r)
  PROVE  /\ \A b \in Actors : b # r => pc'[b] = pc[b] /\ held'[b] = held[b]
         /\ \A q \in Requests : q # r => session'[q] = session[q]
         /\ \A b \in Actors : b # r => Work(b)' = Work(b)
         /\ clean' \subseteq clean
<1> USE ActorsSplit DEF At
<1>1. \A b \in Actors : b # r => pc'[b] = pc[b]
  BY DEF RequestStep, Arrive, LookUpById, LookUpByDid, ResumeSession, CheckPolicy, Send,
         RefreshTokens, Persist, LetGo, Goto, IInv, TypeOK
<1>2. \A b \in Actors : b # r => held'[b] = held[b]
  BY DEF RequestStep, Arrive, LookUpById, LookUpByDid, ResumeSession, CheckPolicy, Send,
         RefreshTokens, Persist, LetGo, IInv, TypeOK
<1>3. \A q \in Requests : q # r => session'[q] = session[q]
  BY DEF RequestStep, Arrive, LookUpById, LookUpByDid, ResumeSession, CheckPolicy, Send,
         RefreshTokens, Persist, Given, IInv, TypeOK
<1>4. clean' \subseteq clean
  BY DEF RequestStep, Arrive, LookUpById, LookUpByDid, ResumeSession, CheckPolicy, Send,
         RefreshTokens, Persist
<1>5. \A b \in Actors : b # r => Work(b)' = Work(b)
  BY <1>1, <1>2, <1>3 DEF Work
<1> QED  BY <1>1, <1>2, <1>3, <1>4, <1>5

LEMMA LoginFits ==
  ASSUME TInv, NEW i \in Sids, LoginStep(i)
  PROVE  HeldWhere' /\ \A j \in Sids : Unsaved(j)' /\ Fit(j)'
<1> USE SessionsAssumption, ActorsSplit DEF At, Bears
<1>1. /\ UNCHANGED <<session, clean>>
      /\ \A b \in Actors : b # i => pc'[b] = pc[b] /\ held'[b] = held[b]
      /\ \A b \in Actors : b # i => Work(b)' = Work(b)
  BY LoginAlone DEF TInv
<1>2. Work(i) = held[i] /\ Work(i)' = held'[i]
  BY DEF Work
<1>3. /\ \A j \in Sids : pc[j] \in {"save", "forget", "saveAgain"} =>
             held[j] \in Data /\ held[j].sid = j
      /\ \A j \in Sids : held[j] # NoData => held[j].sid = j
      /\ pc \in [Actors -> LoginPlaces \cup RequestPlaces]
      /\ held \in [Actors -> Data \cup {NoData}]
      /\ rows \in [Sids -> Data \cup {NoData}] /\ live \in [Sids -> 0..MaxGen]
  BY DEF TInv, IInv, TypeOK, LoginHolds, HeldWhere
<1>4. /\ Unsaved(i) /\ Fit(i)
      /\ pc[i] \notin {"save", "forget", "saveAgain"} => held[i] = NoData
  BY DEF TInv, HeldWhere
\* A step does with its own session one of these.
<1>5. \/ UNCHANGED <<rows, live>> /\ held'[i] = held[i] /\ held[i] = NoData
        /\ pc[i] \notin {"save", "forget", "saveAgain"} /\ pc'[i] \in {"away", "exchange", "failed"}
        /\ pc[i] \in {"idle", "away", "exchange"}
      \/ /\ pc[i] = "exchange" /\ pc'[i] = "save" /\ rows' = rows
         /\ live' = [live EXCEPT ![i] = 1] /\ held'[i] = [sid |-> i, gen |-> 1]
      \/ /\ UNCHANGED <<rows, live>> /\ pc[i] = "forget" /\ pc'[i] = "saveAgain" /\ held'[i] = held[i]
      \/ /\ pc[i] \in {"save", "saveAgain"} /\ rows' = [rows EXCEPT ![i] = held[i]]
         /\ live' = live
         /\ held'[i] = IF pc[i] = "save" THEN held[i] ELSE NoData
         /\ pc'[i] = IF pc[i] = "save" THEN "forget" ELSE "done"
      \/ /\ pc[i] \in {"save", "saveAgain"} /\ UNCHANGED <<rows, live>>
         /\ held'[i] = NoData /\ pc'[i] = "failed"
  <2>1. CASE HandleLogin(i) \/ CallbackArrives(i)
    BY <1>3, <1>4, <2>1 DEF HandleLogin, CallbackArrives, Goto, storeVars
  <2>2. CASE ExchangeCode(i)
    BY <1>3, <1>4, <2>2 DEF ExchangeCode, Goto, storeVars
  <2>3. CASE SaveNew(i)
    BY <1>3, <2>3 DEF SaveNew, Save, KeyOf, Goto, storeVars
  <2>4. CASE ForgetFlow(i)
    BY <1>3, <2>4 DEF ForgetFlow, Goto, storeVars
  <2>5. CASE SaveAgain(i)
    BY <1>3, <2>5 DEF SaveAgain, Save, KeyOf, Goto, storeVars
  <2> QED  BY <2>1, <2>2, <2>3, <2>4, <2>5 DEF LoginStep
<1>6. HeldWhere'
  <2>1. pc'[i] \notin {"save", "forget", "saveAgain"} => held'[i] = NoData
    BY <1>5
  <2> QED  BY <1>1, <2>1 DEF TInv, HeldWhere
<1>7. \A j \in Sids : j # i => rows'[j] = rows[j] /\ live'[j] = live[j]
  BY <1>3, <1>5
<1>8. \A j \in Sids : Unsaved(j)'
  <2>1. ASSUME NEW j \in Sids, j # i PROVE Unsaved(j)'
    BY <1>1, <1>7, <2>1 DEF TInv, Unsaved
  <2>2. Unsaved(i)'
    BY <1>1, <1>4, <1>5 DEF Unsaved
  <2> QED  BY <2>1, <2>2
<1>9. ASSUME NEW j \in Sids, j # i PROVE Fit(j)'
  <2>1. ~Uses(i, j) /\ ~Uses(i, j)'
    BY <1>2, <1>3, <1>5, <1>9 DEF Uses
  <2>2. Fit(j)
    BY DEF TInv
  <2> QED  BY <1>1, <1>7, <1>9, <2>1, <2>2, FitUntouched
<1>10. Fit(i)'
  <2>1. CASE UNCHANGED <<rows, live>> /\ held'[i] = NoData /\ held[i] = NoData
    <3>1. ~Uses(i, i) /\ ~Uses(i, i)'
      BY <1>2, <2>1 DEF Uses
    <3> QED  BY <1>1, <1>4, <2>1, <3>1, FitUntouched
  <2>2. CASE /\ pc[i] = "exchange" /\ rows' = rows /\ live' = [live EXCEPT ![i] = 1]
             /\ held'[i] = [sid |-> i, gen |-> 1]
    <3>1. rows'[i] = NoData
      BY <1>4, <2>2 DEF Unsaved
    <3>2. ASSUME NEW b \in Actors PROVE ~Uses(b, i)
      <4>1. CASE b \in Requests
        BY <1>4, <2>2, <4>1 DEF Unsaved, Uses, Work
      <4>2. CASE b \in Sids
        BY <1>3, <1>4, <2>2, <4>2 DEF Uses, Work
      <4> QED  BY <4>1, <4>2 DEF Actors
    <3>3. Work(i)'.gen = live'[i]
      BY <1>2, <1>3, <2>2
    <3> QED  BY <1>1, <1>4, <3>1, <3>2, <3>3, FitTouched
  <2>3. CASE /\ pc[i] \in {"save", "forget", "saveAgain"} /\ live' = live
             /\ held'[i] \in {held[i], NoData}
             /\ rows' = rows \/ rows' = [rows EXCEPT ![i] = held[i]]
    <3>1. Uses(i, i) /\ pc[i] # "persist"
      BY <1>2, <1>3, <2>3 DEF Uses
    <3>2. i \in clean => Work(i).gen = live[i] /\ (rows[i] # NoData => rows[i].gen = live[i])
      BY <1>4, <3>1, RowsFit
    <3>3. i \in clean' => (Uses(i, i)' => Work(i)'.gen = live'[i])
      BY <1>1, <1>2, <2>3, <3>2 DEF Uses
    <3>4. i \in clean' => (rows'[i] # NoData => rows'[i].gen = live'[i])
      BY <1>1, <1>2, <1>3, <2>3, <3>2
    <3> QED  BY <1>1, <1>4, <3>1, <3>3, <3>4, FitTouched
  <2> QED  BY <1>5, <2>1, <2>2, <2>3
<1> QED  BY <1>6, <1>8, <1>9, <1>10

\* What a request's step does with the data, the store and the server.
Looks(r) ==
  /\ pc[r] \notin {"policy", "send", "refresh", "persist"} /\ pc'[r] \notin {"policy", "send", "refresh", "persist"}
  /\ UNCHANGED <<rows, live, held>>
  /\ \/ session'[r] \in {NoData, session[r]}
     \/ \E i \in Sids : rows[i] # NoData /\ session'[r] = rows[i]

Resumes(r) ==
  LET i == session[r].sid
  IN  /\ pc[r] = "resume" /\ pc'[r] = "policy" /\ session[r] \in Data
      /\ UNCHANGED <<rows, live, held>>
      /\ rows[i] # NoData /\ session'[r] = rows[i]
      /\ i \in clean' => Users(i) = {}

Checks(r) ==
  /\ pc[r] = "policy" /\ session[r] \in Data /\ session'[r] = NoData
  /\ UNCHANGED <<rows, live>>
  /\ \/ pc'[r] = "send" /\ held'[r] = session[r]
     \/ pc'[r] = "refused" /\ held'[r] = held[r]

Works(r) ==
  LET i == held[r].sid
  IN  /\ pc[r] \in {"send", "refresh", "persist"} /\ held[r] \in Data /\ session' = session
      /\ \/ /\ pc[r] = "send" /\ UNCHANGED <<rows, live>>
            /\ \/ pc'[r] = "done" /\ held'[r] = NoData
               \/ pc'[r] \in {"persist", "refresh"} /\ held'[r] = held[r]
         \/ /\ pc[r] = "refresh" /\ rows' = rows
            /\ \/ /\ pc'[r] = "persist" /\ live' = [live EXCEPT ![i] = live[i] + 1]
                  /\ held'[r] \in Data /\ held'[r].sid = i /\ held'[r].gen = live[i] + 1
               \/ /\ pc'[r] = "done" /\ held'[r] = NoData
                  /\ \/ live' = live
                     \/ live' = [live EXCEPT ![i] = live[i] + 1] /\ i \notin clean'
         \/ /\ pc[r] = "persist" /\ pc'[r] = "send" /\ live' = live /\ held'[r] = held[r]
            /\ \/ rows' = [rows EXCEPT ![i] = held[r]]
               \/ rows' = rows /\ i \notin clean'

LEMMA RequestMoves ==
  ASSUME TInv, NEW r \in Requests, RequestStep(r)
  PROVE  Looks(r) \/ Resumes(r) \/ Checks(r) \/ Works(r)
<1> USE SessionsAssumption, ActorsSplit DEF At, Goto
<1>1. /\ pc \in [Actors -> LoginPlaces \cup RequestPlaces]
      /\ held \in [Actors -> Data \cup {NoData}] /\ session \in [Requests -> Data \cup {NoData}]
      /\ rows \in [Sids -> Data \cup {NoData}] /\ live \in [Sids -> 0..MaxGen]
      /\ \A x \in Data : x.sid \in Sids
  BY DEF TInv, IInv, TypeOK, Data
<1>2. RequestHolds /\ IInv
  BY DEF TInv, IInv
<1>3. CASE Arrive(r)
  BY <1>1, <1>3 DEF Arrive, Looks, storeVars
<1>4. CASE LookUpById(r)
  <2>1. /\ asks[r].sid \in Sids /\ UNCHANGED <<rows, live, held>> /\ pc[r] = "byId"
        /\ pc'[r] \in {"resume", "byDid"}
    BY <1>1, <1>2, <1>4 DEF LookUpById, RequestHolds, storeVars
  <2>2. session'[r] = session[r] \/ (rows[asks[r].sid] # NoData /\ session'[r] = rows[asks[r].sid])
    BY <1>1, <1>4 DEF LookUpById, Given
  <2> QED  BY <2>1, <2>2 DEF Looks
<1>5. CASE LookUpByDid(r)
  <2>1. UNCHANGED <<rows, live, held>> /\ pc[r] = "byDid" /\ pc'[r] \in {"resume", "unknown", "refused"}
    BY <1>1, <1>5 DEF LookUpByDid, storeVars
  <2>2. \A i \in Recent(asks[r].did) : i \in Sids /\ rows[i] # NoData
    BY DEF Recent, RecentInMemory, RecentInDatabase, Present
  <2>3. session'[r] = NoData \/ \E i \in Recent(asks[r].did) : session'[r] = rows[i]
    BY <1>1, <1>5 DEF LookUpByDid, Given
  <2> QED  BY <2>1, <2>2, <2>3 DEF Looks
<1>6. CASE ResumeSession(r)
  <2>1. UNCHANGED <<rows, live, held>> /\ pc[r] = "resume" /\ session[r] \in Data
    BY <1>1, <1>2, <1>6 DEF ResumeSession, RequestHolds, storeVars
  <2>2. CASE pc'[r] = "refused" /\ session'[r] = NoData
    BY <2>1, <2>2 DEF Looks
  <2>3. CASE /\ pc'[r] = "policy" /\ rows[session[r].sid] # NoData
             /\ session'[r] = rows[session[r].sid]
             /\ clean' = IF Users(session[r].sid) = {} THEN clean ELSE clean \ {session[r].sid}
    BY <2>1, <2>3 DEF Resumes
  <2> QED  BY <1>1, <1>6, <2>2, <2>3 DEF ResumeSession, Resumed
<1>7. CASE CheckPolicy(r)
  BY <1>1, <1>2, <1>7 DEF CheckPolicy, Checks, RequestHolds, storeVars
<1>8. CASE Send(r)
  BY <1>1, <1>2, <1>8 DEF Send, LetGo, Works, RequestHolds, storeVars
<1>9. CASE RefreshTokens(r)
  <2> DEFINE i == held[r].sid
  <2>1. /\ held[r] \in Data /\ i \in Sids /\ UNCHANGED <<rows, session>> /\ pc[r] = "refresh"
    BY <1>1, <1>2, <1>9 DEF RefreshTokens, RequestHolds, storeVars
  <2>2. CASE /\ live' = [live EXCEPT ![i] = live[i] + 1] /\ live[i] + 1 <= MaxGen
             /\ held' = [held EXCEPT ![r].gen = live[i] + 1] /\ Goto(r, "persist")
    <3>1. held'[r] = [held[r] EXCEPT !.gen = live[i] + 1] /\ live[i] + 1 \in 1..MaxGen
      BY <1>1, <2>1, <2>2
    <3>2. held'[r] \in Data /\ held'[r].sid = i /\ held'[r].gen = live[i] + 1
      BY <2>1, <3>1 DEF Data
    <3>3. pc'[r] = "persist"
      BY <1>1, <2>2
    <3> QED  BY <2>1, <2>2, <3>2, <3>3 DEF Works
  <2>3. CASE /\ LetGo(r)
             /\ \/ live' = live
                \/ live' = [live EXCEPT ![i] = live[i] + 1] /\ clean' = clean \ {i}
    <3>1. pc'[r] = "done" /\ held'[r] = NoData
      BY <1>1, <2>3 DEF LetGo
    <3> QED  BY <2>1, <2>3, <3>1 DEF Works
  <2> QED  BY <1>9, <2>2, <2>3 DEF RefreshTokens
<1>10. CASE Persist(r)
  BY <1>1, <1>2, <1>10 DEF Persist, Save, KeyOf, Works, RequestHolds, storeVars
<1> QED
  BY <1>3, <1>4, <1>5, <1>6, <1>7, <1>8, <1>9, <1>10 DEF RequestStep

LEMMA RequestFits ==
  ASSUME TInv, NEW r \in Requests, RequestStep(r)
  PROVE  HeldWhere' /\ \A j \in Sids : Unsaved(j)' /\ Fit(j)'
<1> USE SessionsAssumption, ActorsSplit DEF At, Bears
<1>1. /\ \A b \in Actors : b # r => pc'[b] = pc[b] /\ held'[b] = held[b]
      /\ \A q \in Requests : q # r => session'[q] = session[q]
      /\ \A b \in Actors : b # r => Work(b)' = Work(b)
      /\ clean' \subseteq clean
  BY RequestAlone DEF TInv
<1>2. /\ rows \in [Sids -> Data \cup {NoData}] /\ live \in [Sids -> 0..MaxGen]
      /\ \A i \in Sids : rows[i] # NoData => rows[i] \in Data /\ rows[i].sid = i
      /\ \A x \in Data : x.sid \in Sids
      /\ NoData \notin Data
      /\ pc[r] \notin {"send", "refresh", "persist"} => held[r] = NoData
      /\ \A i \in Sids : Unsaved(i) /\ Fit(i)
  BY DEF TInv, HeldWhere, IInv, TypeOK, Data
<1>3. Looks(r) \/ Resumes(r) \/ Checks(r) \/ Works(r)
  BY RequestMoves
<1>4. HeldWhere'
  <2>1. pc'[r] \notin {"send", "refresh", "persist"} => held'[r] = NoData
    BY <1>2, <1>3 DEF Looks, Resumes, Checks, Works
  <2> QED  BY <1>1, <2>1 DEF TInv, HeldWhere
<1>5. ASSUME NEW j \in Sids PROVE Unsaved(j)'
  <2> SUFFICES ASSUME pc[j] \in {"idle", "away", "exchange", "save"}
               PROVE  rows'[j] = NoData /\ ~Bears(session'[r], j) /\ ~Bears(held'[r], j)
    BY <1>1, <1>2 DEF Unsaved
  <2>1. rows[j] = NoData /\ ~Bears(session[r], j) /\ ~Bears(held[r], j)
    BY <1>2 DEF Unsaved
  <2>2. CASE Looks(r)
    BY <1>2, <2>1, <2>2 DEF Looks
  <2>3. CASE Resumes(r)
    BY <1>2, <2>1, <2>3 DEF Resumes
  <2>4. CASE Checks(r)
    BY <1>2, <2>1, <2>4 DEF Checks
  <2>5. CASE Works(r)
    BY <1>2, <2>1, <2>5 DEF Works
  <2> QED  BY <1>3, <2>2, <2>3, <2>4, <2>5
<1>6. ASSUME NEW j \in Sids PROVE Fit(j)'
  <2>1. CASE Looks(r)
    <3>1. Work(r) = NoData /\ Work(r)' = NoData
      BY <1>2, <2>1 DEF Looks, Work
    <3>2. ~Uses(r, j) /\ ~Uses(r, j)'
      BY <3>1 DEF Uses
    <3> QED  BY <1>1, <1>2, <2>1, <3>2, FitUntouched DEF Looks
  <2>2. CASE Resumes(r)
    <3> DEFINE i == session[r].sid
    <3>1. /\ Work(r) = NoData /\ Work(r)' = rows[i] /\ i \in Sids /\ rows[i].sid = i
          /\ rows[i] # NoData /\ UNCHANGED <<rows, live>>
      BY <1>2, <2>2 DEF Resumes, Work
    <3>2. ~Uses(r, j)
      BY <3>1 DEF Uses
    <3>3. CASE j # i
      <4>1. ~Uses(r, j)'
        BY <3>1, <3>3 DEF Uses
      <4> QED  BY <1>1, <1>2, <3>1, <3>2, <4>1, FitUntouched
    <3>4. CASE j = i
      <4>1. j \in clean' => \A b \in Actors : ~Uses(b, j)
        BY <2>2, <3>4, UsersAre DEF Resumes
      <4>2. j \in clean' => rows[j].gen = live[j]
        BY <1>1, <1>2, <3>1, <3>4, <4>1 DEF Fit
      <4>3. j \in clean' => Work(r)'.gen = live'[j] /\ rows'[j].gen = live'[j]
        BY <3>1, <3>4, <4>2
      <4> QED  BY <1>1, <1>2, <4>1, <4>3, FitTouched
    <3> QED  BY <3>3, <3>4
  <2>3. CASE Checks(r)
    <3>1. /\ Work(r) = session[r] /\ Work(r)' \in {session[r], NoData} /\ session[r] \in Data
          /\ UNCHANGED <<rows, live>> /\ pc[r] = "policy" /\ NoData # session[r]
      BY <1>2, <2>3 DEF Checks, Work
    <3>2. CASE j # session[r].sid
      <4>1. ~Uses(r, j) /\ ~Uses(r, j)'
        BY <3>1, <3>2 DEF Uses
      <4> QED  BY <1>1, <1>2, <3>1, <4>1, FitUntouched
    <3>3. CASE j = session[r].sid
      <4>1. Uses(r, j)
        BY <3>1, <3>3 DEF Uses
      <4>2. j \in clean => Work(r).gen = live[j] /\ (rows[j] # NoData => rows[j].gen = live[j])
        BY <1>2, <3>1, <4>1, RowsFit
      <4>3. j \in clean' => (Uses(r, j)' => Work(r)'.gen = live'[j])
        BY <1>1, <3>1, <4>2 DEF Uses
      <4>4. j \in clean' => (rows'[j] # NoData => rows'[j].gen = live'[j])
        BY <1>1, <3>1, <4>2
      <4> QED  BY <1>1, <1>2, <4>1, <4>3, <4>4, FitTouched
    <3> QED  BY <3>2, <3>3
  <2>4. CASE Works(r)
    <3> DEFINE i == held[r].sid
    <3>1. /\ Work(r) = held[r] /\ Work(r)' = held'[r] /\ held[r] \in Data /\ i \in Sids
          /\ held'[r] = NoData \/ (held'[r] \in Data /\ held'[r].sid = i)
      BY <1>2, <2>4 DEF Works, Work
    <3>2. \A k \in Sids : k # i => rows'[k] = rows[k] /\ live'[k] = live[k]
      BY <1>2, <2>4 DEF Works
    <3>3. CASE j # i
      <4>1. ~Uses(r, j) /\ ~Uses(r, j)'
        BY <1>2, <3>1, <3>3 DEF Uses
      <4> QED  BY <1>1, <1>2, <3>2, <3>3, <4>1, FitUntouched
    <3>4. CASE j = i
      <4>1. Uses(r, j)
        BY <1>2, <3>1, <3>4 DEF Uses
      <4>2. j \in clean => held[r].gen = live[j]
        BY <1>2, <3>1, <4>1 DEF Fit
      <4>3. j \in clean /\ pc[r] # "persist" => (rows[j] # NoData => rows[j].gen = live[j])
        BY <1>2, <4>1, RowsFit
      <4>4. j \in clean' /\ held'[r] # NoData => held'[r].gen = live'[j]
        BY <1>1, <1>2, <2>4, <3>4, <4>2 DEF Works
      <4>5. j \in clean' =>
              (rows'[j] # NoData =>
                 rows'[j].gen = live'[j] \/ (held'[r] # NoData /\ pc'[r] = "persist"))
        BY <1>1, <1>2, <2>4, <3>4, <4>2, <4>3 DEF Works
      <4>6. Uses(r, j)' <=> held'[r] # NoData
        BY <3>1, <3>4 DEF Uses
      <4> QED  BY <1>1, <1>2, <3>1, <4>1, <4>4, <4>5, <4>6, FitTouched
    <3> QED  BY <3>3, <3>4
  <2> QED  BY <1>3, <2>1, <2>2, <2>3, <2>4
<1> QED  BY <1>4, <1>5, <1>6

LEMMA RestartFits ==
  ASSUME TInv, Restart
  PROVE  HeldWhere' /\ \A j \in Sids : Unsaved(j)' /\ Fit(j)'
<1> USE SessionsAssumption, ActorsSplit
<1>1. /\ \A r \in Requests : session'[r] = NoData
      /\ \A a \in Actors : held'[a] = NoData
      /\ live' = live /\ clean' = {i \in clean : Users(i) = {}}
  BY DEF Restart
<1>2. \A i \in Sids : pc'[i] \in {"idle", "away", "exchange", "save"} => pc'[i] = pc[i]
  BY DEF Restart
<1>3. \A i \in Sids : rows'[i] \in {rows[i], NoData}
  BY DEF Restart
<1>4. HeldWhere'
  BY <1>1 DEF HeldWhere
<1>5. \A j \in Sids : Unsaved(j)'
  BY <1>1, <1>2, <1>3 DEF TInv, Unsaved, Bears
<1>6. ASSUME NEW j \in Sids PROVE Fit(j)'
  <2>1. \A a \in Actors : ~Uses(a, j)'
    BY <1>1 DEF Uses, Work, Bears
  <2>2. ASSUME j \in clean' PROVE rows[j] # NoData => rows[j].gen = live[j]
    <3>1. j \in clean /\ \A a \in Actors : ~Uses(a, j)
      BY <1>1, <2>2, UsersAre
    <3> QED  BY <3>1 DEF TInv, Fit
  <2> QED  BY <1>1, <1>3, <2>1, <2>2 DEF Fit
<1> QED  BY <1>4, <1>5, <1>6

LEMMA StepTInv == TInv /\ [Next]_vars => TInv'
<1> SUFFICES ASSUME TInv, [Next]_vars PROVE TInv'
  OBVIOUS
<1>1. IInv'
  BY StepIInv DEF TInv
<1>2. CASE Tick \/ UNCHANGED vars
  <2>1. UNCHANGED <<pc, rows, live, session, held, clean>>
    BY <1>2 DEF Tick, vars, storeVars
  <2>2. \A a : Work(a)' = Work(a)
    BY <2>1 DEF Work, At
  <2>3. \A j \in Sids : Fit(j)'
    <3> HIDE DEF Work
    <3> QED  BY <2>1, <2>2 DEF TInv, Fit, Uses
  <2>4. HeldWhere' /\ \A j \in Sids : Unsaved(j)'
    BY <2>1 DEF TInv, HeldWhere, Unsaved
  <2> QED  BY <1>1, <2>3, <2>4 DEF TInv
<1> QED
  BY <1>1, <1>2, LoginFits, RequestFits, RestartFits DEF Next, TInv

\* A session whose handlers do not overlap stays fit to be refreshed, however
\* many nonces and tokens are written back, whichever copy the middleware found
\* and whatever happens to other sessions.
THEOREM WebTokensKept == Spec => []TokensKept
<1>1. Init => TInv
  <2> SUFFICES ASSUME Init PROVE TInv
    OBVIOUS
  <2>1. /\ \A a \in Actors : held[a] = NoData /\ pc[a] = "idle"
        /\ \A r \in Requests : session[r] = NoData
        /\ \A i \in Sids : rows[i] = NoData
    BY DEF Init
  <2>2. HeldWhere /\ \A i \in Sids : Unsaved(i)
    BY <2>1, ActorsSplit DEF HeldWhere, Unsaved, Bears
  <2>3. \A a \in Actors, i \in Sids : ~Uses(a, i)
    BY <2>1 DEF Uses, Work, Bears
  <2>4. \A i \in Sids : Fit(i)
    BY <2>1, <2>3 DEF Fit
  <2> QED  BY <2>2, <2>4, InitIInv DEF TInv
<1>2. TInv => TokensKept
  <2> SUFFICES ASSUME TInv, NEW i \in clean, Users(i) = {}, rows[i] # NoData
               PROVE  rows[i].gen = live[i]
    BY DEF TokensKept
  <2>1. i \in Sids
    BY DEF TInv, IInv, TypeOK
  <2>2. \A a \in Actors : ~Uses(a, i)
    BY <2>1, UsersAre
  <2> QED  BY <2>1, <2>2 DEF TInv, Fit
<1> QED  BY <1>1, <1>2, StepTInv, PTL DEF Spec
=============================================================================
