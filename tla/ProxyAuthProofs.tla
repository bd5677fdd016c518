-------------------------- MODULE ProxyAuthProofs --------------------------
(* Proofs about ProxyAuth: for any number of requests, issuers, records and *)
(* edits, the lock is held by one discovery at a time, an issuer is         *)
(* discovered once, a token is turned away only for its own issuer, and     *)
(* what is forwarded or denied is what the records as a whole say.          *)
EXTENDS ProxyAuth, WellFoundedInduction, TLAPS

(* Places with a call in hand, and those that have an issuer to try.       *)
Calling == {"list", "issuer", "read", "lock", "discover", "verify", "policy"}
Trying == {"read", "lock", "discover", "verify"}

Fields == {"input", "page", "joined", "found", "todo", "issuer", "seen", "failed"}

WellFormed(rbac) ==
  /\ \A n \in DOMAIN rbac.roles : rbac.roles[n].iss \in RoleIssuers \cup {""}
  /\ \A n \in DOMAIN rbac.policies : DOMAIN rbac.policies[n] \subseteq Seq(Seq(Bytes)) \ {<<>>}

\* What a handler knows.
Sound(r) ==
  pc[r] \in Calling =>
    /\ DOMAIN call[r] = Fields
    /\ call[r].input \in Inputs[r] /\ call[r].page \in DOMAIN repo
    /\ WellFormed(call[r].joined)
    /\ call[r].todo \cup call[r].failed \subseteq RoleIssuers
    /\ call[r].issuer \in RoleIssuers \cup {Nobody}
    /\ pc[r] \in Trying => call[r].issuer \in RoleIssuers

Shape ==
  /\ pc \in [Requests -> RequestPlaces]
  /\ DOMAIN call = Requests
  /\ \A r \in Requests : pc[r] \notin Calling => call[r] = Nobody
  /\ repo \in Seq(Contents \cup {Garbage, NoRecord}) /\ repo # <<>>
  /\ providers \subseteq RoleIssuers
  /\ writer \in Requests \cup {Nobody}
  /\ outcome \in [Requests -> {"none", "forwarded", "denied", "unverified", "error"}]
  /\ edits \in 0..MaxEdits

Calls == \A r \in Requests : Sound(r)

\* Who discovers has the lock, and nobody else has stored its issuer meanwhile.
LockHeld ==
  \A r \in Requests :
    /\ writer = r <=> pc[r] = "discover"
    /\ pc[r] = "discover" => call[r].issuer \notin providers

CountsMatch ==
  /\ discovered \in [RoleIssuers -> Nat]
  /\ \A i \in RoleIssuers : discovered[i] = IF i \in providers THEN 1 ELSE 0

IInv == Shape /\ Calls /\ LockHeld /\ CountsMatch

LEMMA PlaceFacts ==
  /\ RequestPlaces = Calling \cup {"idle", "done"}
  /\ Trying \subseteq Calling /\ "list" \in Calling /\ "issuer" \in Calling /\ "policy" \in Calling
  /\ "idle" \notin Calling /\ "done" \notin Calling
  /\ "list" \notin Trying /\ "issuer" \notin Trying /\ "policy" \notin Trying
BY DEF RequestPlaces, Calling, Trying

LEMMA TypeImplied == IInv => TypeOK
<1> SUFFICES ASSUME IInv PROVE TypeOK
  OBVIOUS
<1>1. \A r \in Requests : IF pc[r] \in {"idle", "done"}
         THEN call[r] = Nobody
         ELSE /\ call[r].input \in Inputs[r] /\ call[r].page \in DOMAIN repo
              /\ call[r].todo \cup call[r].failed \subseteq RoleIssuers
              /\ call[r].issuer \in RoleIssuers \cup {Nobody}
  BY PlaceFacts DEF IInv, Shape, Calls, Sound
<1> QED  BY <1>1 DEF IInv, Shape, LockHeld, TypeOK

LEMMA InitIInv == Init => IInv
<1> SUFFICES ASSUME Init PROVE IInv
  OBVIOUS
<1> USE ProxyAssumption, PlaceFacts
<1>1. Shape
  BY DEF Init, Shape
<1>2. Calls
  BY DEF Init, Calls, Sound
<1>3. LockHeld
  BY DEF Init, LockHeld
<1>4. CountsMatch
  BY DEF Init, CountsMatch
<1> QED  BY <1>1, <1>2, <1>3, <1>4 DEF IInv

(* A record's issuers, and those of records that are joined, are known.    *)
LEMMA RecordWellFormed ==
  ASSUME NEW c \in Contents
  PROVE  WellFormed(c)
<1>1. ASSUME NEW n \in DOMAIN c.roles, c.roles[n].iss # "" PROVE c.roles[n].iss \in RoleIssuers
  <2>1. c.roles[n].iss \in {c.roles[m].iss : m \in DOMAIN c.roles}
    BY Zenon
  <2>2. {c.roles[m].iss : m \in DOMAIN c.roles}
          \in {{d.roles[m].iss : m \in DOMAIN d.roles} : d \in Contents}
    BY Zenon
  <2>3. c.roles[n].iss \in UNION {{d.roles[m].iss : m \in DOMAIN d.roles} : d \in Contents}
    BY <2>1, <2>2, Zenon
  <2> QED  BY <1>1, <2>3, Zenon DEF RoleIssuers
<1>2. \A n \in DOMAIN c.policies : DOMAIN c.policies[n] \subseteq Seq(Seq(Bytes)) \ {<<>>}
  BY ProxyAssumption, Zenon
<1> QED  BY <1>1, <1>2, Zenon DEF WellFormed

LEMMA JoinWellFormed ==
  ASSUME NEW rbac, WellFormed(rbac), NEW c \in Contents
  PROVE  WellFormed(Join(rbac, c))
<1>1. WellFormed(c)
  BY RecordWellFormed
<1>2. /\ Join(rbac, c).roles = Override(rbac.roles, c.roles)
      /\ Join(rbac, c).policies = Override(rbac.policies, c.policies)
  BY DEF Join
<1>3. ASSUME NEW old, NEW new, NEW n \in DOMAIN Override(old, new)
      PROVE  \/ n \in DOMAIN old /\ Override(old, new)[n] = old[n]
             \/ n \in DOMAIN new /\ Override(old, new)[n] = new[n]
  BY DEF Override
<1>4. ASSUME NEW n \in DOMAIN Override(rbac.roles, c.roles)
      PROVE  Override(rbac.roles, c.roles)[n].iss \in RoleIssuers \cup {""}
  <2>1. CASE n \in DOMAIN rbac.roles /\ Override(rbac.roles, c.roles)[n] = rbac.roles[n]
    BY <2>1, Zenon DEF WellFormed
  <2>2. CASE n \in DOMAIN c.roles /\ Override(rbac.roles, c.roles)[n] = c.roles[n]
    BY <1>1, <2>2, Zenon DEF WellFormed
  <2>3. \/ n \in DOMAIN rbac.roles /\ Override(rbac.roles, c.roles)[n] = rbac.roles[n]
        \/ n \in DOMAIN c.roles /\ Override(rbac.roles, c.roles)[n] = c.roles[n]
    BY <1>3
  <2> QED  BY <2>1, <2>2, <2>3, Zenon
<1>5. ASSUME NEW n \in DOMAIN Override(rbac.policies, c.policies)
      PROVE  DOMAIN Override(rbac.policies, c.policies)[n] \subseteq Seq(Seq(Bytes)) \ {<<>>}
  <2>1. CASE n \in DOMAIN rbac.policies /\ Override(rbac.policies, c.policies)[n] = rbac.policies[n]
    BY <2>1, Zenon DEF WellFormed
  <2>2. CASE n \in DOMAIN c.policies /\ Override(rbac.policies, c.policies)[n] = c.policies[n]
    BY <1>1, <2>2, Zenon DEF WellFormed
  <2>3. \/ n \in DOMAIN rbac.policies /\ Override(rbac.policies, c.policies)[n] = rbac.policies[n]
        \/ n \in DOMAIN c.policies /\ Override(rbac.policies, c.policies)[n] = c.policies[n]
    BY <1>3
  <2> QED  BY <2>1, <2>2, <2>3, Zenon
<1> QED  BY <1>2, <1>4, <1>5, Zenon DEF WellFormed

LEMMA EmptyWellFormed == WellFormed(EmptyRecord)
<1>1. EmptyRecord.roles = <<>> /\ EmptyRecord.policies = <<>> /\ DOMAIN <<>> = {}
  BY DEF EmptyRecord
<1> QED  BY <1>1, Zenon DEF WellFormed

LEMMA CollectedWellFormed ==
  ASSUME NEW rbac, WellFormed(rbac)
  PROVE  CollectIssuers(rbac) \subseteq RoleIssuers
<1> SUFFICES ASSUME NEW i \in CollectIssuers(rbac) PROVE i \in RoleIssuers
  OBVIOUS
<1>1. i # "" /\ i \in {rbac.roles[n].iss : n \in DOMAIN rbac.roles}
  BY Zenon DEF CollectIssuers, IsIssuer
<1>2. PICK n \in DOMAIN rbac.roles : i = rbac.roles[n].iss
  BY <1>1, Zenon
<1> QED  BY <1>1, <1>2, Zenon DEF WellFormed

(* One request's step leaves what the others know alone.                   *)
LEMMA OthersKeep ==
  ASSUME Shape, Calls, UNCHANGED repo, NEW r \in Requests,
         \A q \in Requests : q # r => pc'[q] = pc[q] /\ call'[q] = call[q],
         Sound(r)'
  PROVE  Calls'
BY DEF Calls, Sound, Shape

LEMMA KnowFacts ==
  ASSUME DOMAIN call = Requests, NEW r \in Requests, NEW c, Know(r, c)
  PROVE  /\ DOMAIN call' = Requests /\ call'[r] = c
         /\ \A q \in Requests : q # r => call'[q] = call[q]
BY DEF Know

LEMMA AnswerKeeps ==
  ASSUME IInv, NEW r \in Requests, pc[r] # "discover",
         NEW what \in {"forwarded", "denied", "unverified", "error"}, Answer(r, what),
         UNCHANGED <<repo, edits, cacheVars>>
  PROVE  IInv'
<1> USE ProxyAssumption, PlaceFacts DEF IInv
<1>1. /\ DOMAIN call' = Requests /\ call'[r] = Nobody /\ pc'[r] = "done"
      /\ \A q \in Requests : q # r => call'[q] = call[q] /\ pc'[q] = pc[q]
  BY KnowFacts DEF Answer, Shape
<1>2. Shape'
  BY <1>1 DEF Shape, Answer, cacheVars
<1>3. Calls'
  BY <1>1, OthersKeep DEF Sound
<1>4. LockHeld'
  BY <1>1 DEF LockHeld, Shape, cacheVars
<1>5. CountsMatch'
  BY DEF CountsMatch, cacheVars
<1> QED  BY <1>2, <1>3, <1>4, <1>5

(* A request goes on, with or without more that it knows.                  *)
LEMMA GoKeeps ==
  ASSUME IInv, NEW r \in Requests, NEW place \in RequestPlaces, pc[r] # "discover",
         place \in Calling, place # "discover", pc' = [pc EXCEPT ![r] = place],
         DOMAIN call' = Requests, \A q \in Requests : q # r => call'[q] = call[q],
         Sound(r)', UNCHANGED <<repo, edits, outcome, cacheVars>>
  PROVE  IInv'
<1> USE ProxyAssumption, PlaceFacts DEF IInv
<1>1. pc'[r] = place /\ \A q \in Requests : q # r => pc'[q] = pc[q]
  BY DEF Shape
<1>2. Shape'
  BY <1>1 DEF Shape, cacheVars
<1>3. Calls'
  BY <1>1, OthersKeep
<1>4. LockHeld'
  BY <1>1 DEF LockHeld, Shape, cacheVars
<1>5. CountsMatch'
  BY DEF CountsMatch, cacheVars
<1> QED  BY <1>2, <1>3, <1>4, <1>5

LEMMA BeginKeeps ==
  ASSUME IInv, NEW r \in Requests, Begin(r)
  PROVE  IInv'
<1> USE ProxyAssumption, PlaceFacts DEF At
<1>1. CASE Answer(r, "error")
  BY <1>1, AnswerKeeps DEF Begin
<1>2. ASSUME NEW x \in Inputs[r], Know(r, Call(x)), Goto(r, "list") PROVE IInv'
  <2>1. /\ DOMAIN call' = Requests /\ call'[r] = Call(x)
        /\ \A q \in Requests : q # r => call'[q] = call[q]
    BY <1>2, KnowFacts DEF IInv, Shape
  <2>2. /\ DOMAIN Call(x) = Fields /\ Call(x).input = x /\ Call(x).page = 1
        /\ Call(x).joined = EmptyRecord /\ Call(x).todo = {} /\ Call(x).failed = {}
        /\ Call(x).issuer = Nobody
    BY DEF Call, Fields
  <2>3. 1 \in DOMAIN repo
    BY DEF IInv, Shape
  <2>4. pc'[r] = "list" /\ UNCHANGED repo
    BY <1>2 DEF Begin, Goto, IInv, Shape
  <2>5. Sound(r)'
    BY <1>2, <2>1, <2>2, <2>3, <2>4, EmptyWellFormed DEF Sound
  <2> QED  BY <1>2, <2>1, <2>5, GoKeeps DEF Begin, Goto
<1> QED  BY <1>1, <1>2 DEF Begin

LEMMA ListKeeps ==
  ASSUME IInv, NEW r \in Requests, ListPage(r)
  PROVE  IInv'
<1> USE ProxyAssumption, PlaceFacts DEF At
<1> DEFINE c == repo[call[r].page]
           found == call[r].found \/ c # NoRecord
           all == IF c = NoRecord THEN call[r].joined ELSE Join(call[r].joined, c)
<1>1. /\ pc[r] = "list" /\ UNCHANGED <<repo, edits, cacheVars>>
      /\ \/ /\ c # Garbage /\ call[r].page < Len(repo)
            /\ Know(r, [call[r] EXCEPT !.joined = all, !.found = found, !.page = @ + 1])
            /\ UNCHANGED <<pc, outcome>>
         \/ c # Garbage /\ call[r].page = Len(repo) /\ found /\ EndList(r, all)
         \/ Answer(r, "error")
  BY Zenon DEF ListPage
<1>2. /\ Sound(r) /\ DOMAIN call[r] = Fields /\ call[r].input \in Inputs[r]
      /\ call[r].page \in DOMAIN repo /\ WellFormed(call[r].joined)
      /\ call[r].todo \cup call[r].failed \subseteq RoleIssuers
      /\ call[r].issuer \in RoleIssuers \cup {Nobody}
  BY <1>1 DEF IInv, Calls, Sound
<1>3. c # Garbage => WellFormed(all)
  <2>1. c \in Contents \cup {Garbage, NoRecord}
    BY <1>2 DEF IInv, Shape
  <2>2. c \in Contents => WellFormed(Join(call[r].joined, c))
    BY <1>2, JoinWellFormed
  <2> QED  BY <1>2, <2>1, <2>2
<1> HIDE DEF c, all, found
<1>4. CASE Answer(r, "error")
  BY <1>1, <1>4, AnswerKeeps
<1>5. CASE /\ c # Garbage /\ call[r].page < Len(repo)
           /\ Know(r, [call[r] EXCEPT !.joined = all, !.found = found, !.page = @ + 1])
           /\ UNCHANGED <<pc, outcome>>
  <2>1. /\ DOMAIN call' = Requests
        /\ call'[r] = [call[r] EXCEPT !.joined = all, !.found = found, !.page = @ + 1]
        /\ \A q \in Requests : q # r => call'[q] = call[q]
    BY <1>5, KnowFacts DEF IInv, Shape
  <2>2. call[r].page + 1 \in DOMAIN repo
    BY <1>2, <1>5 DEF IInv, Shape
  <2>3. Sound(r)'
    BY <1>1, <1>2, <1>3, <1>5, <2>1, <2>2 DEF Sound, Fields
  <2>4. pc' = [pc EXCEPT ![r] = "list"]
    BY <1>1, <1>5 DEF IInv, Shape
  <2> QED  BY <1>1, <1>5, <2>1, <2>3, <2>4, GoKeeps
<1>6. CASE c # Garbage /\ EndList(r, all)
  <2>1. CollectIssuers(all) \subseteq RoleIssuers
    BY <1>3, <1>6, CollectedWellFormed
  <2>2. CASE /\ Know(r, [call[r] EXCEPT !.joined = all, !.todo = CollectIssuers(all)])
             /\ Goto(r, "issuer")
    <3>1. /\ DOMAIN call' = Requests
          /\ call'[r] = [call[r] EXCEPT !.joined = all, !.todo = CollectIssuers(all)]
          /\ \A q \in Requests : q # r => call'[q] = call[q]
      BY <2>2, KnowFacts DEF IInv, Shape
    <3>2. pc'[r] = "issuer" /\ repo' = repo
      BY <1>1, <2>2 DEF Goto, IInv, Shape
    <3>3. Sound(r)'
      BY <1>2, <1>3, <1>6, <2>1, <3>1, <3>2 DEF Sound, Fields
    <3> QED  BY <1>1, <2>2, <3>1, <3>3, GoKeeps DEF Goto
  <2>3. CASE Know(r, [call[r] EXCEPT !.joined = all]) /\ Goto(r, "policy")
    <3>1. /\ DOMAIN call' = Requests
          /\ call'[r] = [call[r] EXCEPT !.joined = all]
          /\ \A q \in Requests : q # r => call'[q] = call[q]
      BY <2>3, KnowFacts DEF IInv, Shape
    <3>2. pc'[r] = "policy" /\ repo' = repo
      BY <1>1, <2>3 DEF Goto, IInv, Shape
    <3>3. Sound(r)'
      BY <1>2, <1>3, <1>6, <3>1, <3>2 DEF Sound, Fields
    <3> QED  BY <1>1, <2>3, <3>1, <3>3, GoKeeps DEF Goto
  <2> QED  BY <1>6, <2>2, <2>3 DEF EndList
<1> QED  BY <1>1, <1>4, <1>5, <1>6

LEMMA EditKeeps ==
  ASSUME IInv, NEW m \in DOMAIN repo, EditRecord(m)
  PROVE  IInv'
<1> USE ProxyAssumption, PlaceFacts DEF At
<1>1. /\ repo' \in Seq(Contents \cup {Garbage, NoRecord}) /\ repo' # <<>>
      /\ DOMAIN repo' = DOMAIN repo
  <2>1. PICK c \in Contents \cup {Garbage, NoRecord} : repo' = [repo EXCEPT ![m] = c]
    BY DEF EditRecord
  <2> QED  BY <2>1 DEF IInv, Shape
<1>2. /\ UNCHANGED <<pc, cacheVars, outcome>> /\ edits' \in 0..MaxEdits
      /\ DOMAIN call' = Requests
      /\ \A r \in Requests :
           call'[r] = IF pc[r] = "list" THEN [call[r] EXCEPT !.seen = NoRecord] ELSE call[r]
  BY DEF EditRecord, IInv, Shape
<1>3. Shape'
  BY <1>1, <1>2 DEF IInv, Shape, cacheVars
<1>4. ASSUME NEW r \in Requests PROVE Sound(r)'
  BY <1>1, <1>2 DEF IInv, Calls, Sound, Fields
<1>5. LockHeld'
  BY <1>2 DEF IInv, LockHeld, cacheVars
<1>6. CountsMatch'
  BY <1>2 DEF IInv, CountsMatch, cacheVars
<1> QED  BY <1>3, <1>4, <1>5, <1>6 DEF IInv, Calls

(* The issuers of a token.                                                 *)
LEMMA NextIssuerKeeps ==
  ASSUME IInv, NEW r \in Requests, NextIssuer(r)
  PROVE  IInv'
<1> USE ProxyAssumption, PlaceFacts DEF At
<1>1. pc[r] = "issuer" /\ UNCHANGED <<repo, edits, cacheVars>>
  BY Zenon DEF NextIssuer
<1>s. Sound(r)
  BY Zenon DEF IInv, Calls
<1>2. CASE Answer(r, "unverified")
  BY <1>1, <1>2, AnswerKeeps
<1>3. ASSUME NEW i \in call[r].todo,
             Know(r, [call[r] EXCEPT !.issuer = i, !.todo = @ \ {i}]), Goto(r, "read")
      PROVE  IInv'
  <2>1. /\ DOMAIN call' = Requests
        /\ call'[r] = [call[r] EXCEPT !.issuer = i, !.todo = @ \ {i}]
        /\ \A q \in Requests : q # r => call'[q] = call[q]
    BY <1>3, KnowFacts DEF IInv, Shape
  <2>2. pc'[r] = "read" /\ repo' = repo
    BY <1>1, <1>3 DEF Goto, IInv, Shape
  <2>3. i \in RoleIssuers
    BY <1>1, <1>s DEF Sound
  <2>4. pc[r] \in Calling
    BY <1>1
  <2>5. /\ call'[r].issuer = i /\ call'[r].todo = call[r].todo \ {i}
        /\ call'[r].input = call[r].input /\ call'[r].page = call[r].page
        /\ call'[r].joined = call[r].joined /\ call'[r].failed = call[r].failed
        /\ DOMAIN call'[r] = Fields
    BY <1>s, <2>1, <2>4 DEF Sound, Fields
  <2>6. Sound(r)'
    BY <1>s, <2>2, <2>3, <2>4, <2>5 DEF Sound
  <2>7. pc[r] # "discover" /\ "read" \in RequestPlaces /\ "read" \in Calling
    BY <1>1 DEF RequestPlaces, Calling
  <2>8. pc' = [pc EXCEPT ![r] = "read"] /\ UNCHANGED <<repo, edits, outcome, cacheVars>>
    BY <1>1, <1>3 DEF Goto
  <2>9. DOMAIN call' = Requests /\ \A q \in Requests : q # r => call'[q] = call[q]
    BY <2>1
  <2> QED  BY <2>6, <2>7, <2>8, <2>9, GoKeeps
<1> QED  BY <1>2, <1>3, Zenon DEF NextIssuer

(* continue: back to the issuers that are left, by a request that does not *)
(* discover.                                                               *)
LEMMA TryNextFacts ==
  ASSUME IInv, NEW r \in Requests, pc[r] \in Trying, TryNext(r), UNCHANGED repo
  PROVE  /\ pc' = [pc EXCEPT ![r] = "issuer"] /\ pc'[r] = "issuer" /\ UNCHANGED outcome
         /\ \A q \in Requests : q # r => pc'[q] = pc[q]
         /\ DOMAIN call' = Requests
         /\ \A q \in Requests : q # r => call'[q] = call[q]
         /\ Sound(r)'
<1> USE PlaceFacts
<1>1. /\ pc' = [pc EXCEPT ![r] = "issuer"] /\ pc'[r] = "issuer" /\ UNCHANGED outcome
      /\ \A q \in Requests : q # r => pc'[q] = pc[q]
  BY DEF TryNext, Goto, IInv, Shape
<1>2. Sound(r) /\ pc[r] \in Calling
  BY DEF IInv, Calls
<1>3. CASE Know(r, [call[r] EXCEPT !.failed = @ \cup {call[r].issuer}])
  <2>1. /\ DOMAIN call' = Requests
        /\ call'[r] = [call[r] EXCEPT !.failed = @ \cup {call[r].issuer}]
        /\ \A q \in Requests : q # r => call'[q] = call[q]
    BY <1>3, KnowFacts DEF IInv, Shape
  <2>2. Sound(r)'
    BY <1>1, <1>2, <2>1 DEF Sound, Fields
  <2> QED  BY <1>1, <2>1, <2>2
<1>4. CASE UNCHANGED call
  <2>1. Sound(r)'
    BY <1>1, <1>2, <1>4 DEF Sound
  <2> QED  BY <1>1, <1>4, <2>1 DEF IInv, Shape
<1> QED  BY <1>3, <1>4 DEF TryNext

LEMMA ReadCacheKeeps ==
  ASSUME IInv, NEW r \in Requests, ReadCache(r)
  PROVE  IInv'
<1> USE ProxyAssumption, PlaceFacts DEF At
<1>1. PICK place \in {"verify", "lock"} : Goto(r, place)
  BY DEF ReadCache
<1>2. pc[r] = "read" /\ UNCHANGED <<repo, edits, call, cacheVars>> /\ Sound(r)
  BY DEF ReadCache, IInv, Calls
<1>3. place \in Calling /\ place \in RequestPlaces /\ place # "discover" /\ pc'[r] = place
  BY <1>1 DEF Goto, IInv, Shape, Calling
<1>4. Sound(r)'
  BY <1>2, <1>3 DEF Sound, Trying
<1> QED  BY <1>1, <1>2, <1>3, <1>4, GoKeeps DEF Goto, IInv, Shape

LEMMA LockCacheKeeps ==
  ASSUME IInv, NEW r \in Requests, LockCache(r)
  PROVE  IInv'
<1> USE ProxyAssumption, PlaceFacts DEF At
<1>1. /\ pc[r] = "lock" /\ writer = Nobody /\ Sound(r)
      /\ UNCHANGED <<repo, edits, call, providers, discovered>>
  BY DEF LockCache, IInv, Calls
<1>2. CASE Goto(r, "verify") /\ UNCHANGED writer
  <2>1. pc'[r] = "verify" /\ "verify" \in Calling
    BY <1>2 DEF Goto, IInv, Shape, Calling
  <2>2. Sound(r)'
    BY <1>1, <2>1 DEF Sound, Trying
  <2> QED  BY <1>1, <1>2, <2>1, <2>2, GoKeeps DEF Goto, IInv, Shape, cacheVars
<1>3. CASE call[r].issuer \notin providers /\ Goto(r, "discover") /\ writer' = r
  <2>1. /\ pc'[r] = "discover" /\ "discover" \in Calling /\ UNCHANGED outcome
        /\ \A q \in Requests : q # r => pc'[q] = pc[q]
    BY <1>3 DEF Goto, IInv, Shape, Calling
  <2>2. Shape'
    BY <1>1, <1>3, <2>1 DEF IInv, Shape, Goto
  <2>3. Sound(r)'
    BY <1>1, <2>1 DEF Sound, Trying
  <2>4. Calls'
    BY <1>1, <2>1, <2>3, OthersKeep DEF IInv
  <2>5. LockHeld'
    BY <1>1, <1>3, <2>1 DEF IInv, LockHeld
  <2>6. CountsMatch'
    BY <1>1 DEF IInv, CountsMatch
  <2> QED  BY <2>2, <2>4, <2>5, <2>6 DEF IInv
<1> QED  BY <1>2, <1>3 DEF LockCache, FoundMeanwhile, Cached

LEMMA DiscoverKeeps ==
  ASSUME IInv, NEW r \in Requests, Discover(r)
  PROVE  IInv'
<1> USE ProxyAssumption, PlaceFacts DEF At
<1>1. /\ pc[r] = "discover" /\ Sound(r) /\ pc[r] \in Trying /\ pc[r] \in Calling
      /\ UNCHANGED <<repo, edits>> /\ writer = r /\ call[r].issuer \notin providers
  BY DEF Discover, IInv, Calls, LockHeld, Trying, Calling
<1>2. call[r].issuer \in RoleIssuers
  BY <1>1 DEF Sound
<1>3. \A q \in Requests : q # r => pc[q] # "discover"
  BY <1>1 DEF IInv, LockHeld
<1>4. CASE /\ providers' = providers \cup {call[r].issuer}
           /\ discovered' = [discovered EXCEPT ![call[r].issuer] = @ + 1]
           /\ writer' = Nobody /\ Goto(r, "verify") /\ UNCHANGED call
  <2>1. /\ pc'[r] = "verify" /\ "verify" \in Calling /\ UNCHANGED outcome
        /\ \A q \in Requests : q # r => pc'[q] = pc[q]
    BY <1>4 DEF Goto, IInv, Shape, Calling
  <2>2. Shape'
    BY <1>1, <1>2, <1>4, <2>1 DEF IInv, Shape, Goto
  <2>3. Sound(r)'
    BY <1>1, <1>4, <2>1 DEF Sound, Trying
  <2>4. Calls'
    BY <1>1, <1>4, <2>1, <2>3, OthersKeep DEF IInv
  <2>5. LockHeld'
    BY <1>3, <1>4, <2>1 DEF IInv, LockHeld
  <2>6. CountsMatch'
    BY <1>1, <1>2, <1>4 DEF IInv, CountsMatch
  <2> QED  BY <2>2, <2>4, <2>5, <2>6 DEF IInv
<1>5. CASE writer' = Nobody /\ TryNext(r) /\ UNCHANGED <<providers, discovered>>
  <2>1. /\ pc'[r] = "issuer" /\ UNCHANGED outcome /\ pc' = [pc EXCEPT ![r] = "issuer"]
        /\ \A q \in Requests : q # r => pc'[q] = pc[q]
        /\ DOMAIN call' = Requests
        /\ \A q \in Requests : q # r => call'[q] = call[q]
        /\ Sound(r)'
    BY <1>1, <1>5, TryNextFacts
  <2>2. Shape'
    BY <1>1, <1>5, <2>1 DEF IInv, Shape
  <2>3. Calls'
    BY <1>1, <2>1, OthersKeep DEF IInv
  <2>4. LockHeld'
    BY <1>3, <1>5, <2>1 DEF IInv, LockHeld
  <2>5. CountsMatch'
    BY <1>5 DEF IInv, CountsMatch
  <2> QED  BY <2>2, <2>3, <2>4, <2>5 DEF IInv
<1> QED  BY <1>4, <1>5 DEF Discover, WriterAfterFailure

LEMMA VerifyKeeps ==
  ASSUME IInv, NEW r \in Requests, Verify(r)
  PROVE  IInv'
<1> USE ProxyAssumption, PlaceFacts DEF At
<1>1. /\ pc[r] = "verify" /\ Sound(r) /\ pc[r] \in Trying /\ pc[r] \in Calling
      /\ UNCHANGED <<repo, edits, cacheVars>>
  BY DEF Verify, IInv, Calls, Trying, Calling
<1>2. CASE Goto(r, "policy") /\ UNCHANGED call
  <2>1. pc'[r] = "policy"
    BY <1>2 DEF Goto, IInv, Shape
  <2>2. Sound(r)'
    BY <1>1, <1>2, <2>1 DEF Sound
  <2> QED  BY <1>1, <1>2, <2>1, <2>2, GoKeeps DEF Goto, IInv, Shape
<1>3. CASE TryNext(r)
  BY <1>1, <1>3, TryNextFacts, GoKeeps
<1> QED  BY <1>2, <1>3 DEF Verify

LEMMA CheckPolicyKeeps ==
  ASSUME IInv, NEW r \in Requests, CheckPolicy(r)
  PROVE  IInv'
<1>1. /\ pc[r] = "policy" /\ UNCHANGED <<repo, edits, cacheVars>>
      /\ Answer(r, "error") \/ Answer(r, "forwarded") \/ Answer(r, "denied")
  BY Zenon DEF CheckPolicy, At
<1> QED  BY <1>1, AnswerKeeps

LEMMA StepIInv == IInv /\ [Next]_vars => IInv'
<1> SUFFICES ASSUME IInv, [Next]_vars PROVE IInv'
  OBVIOUS
<1>1. ASSUME NEW r \in Requests, Begin(r) \/ AfterBegin(r) PROVE IInv'
  BY <1>1, BeginKeeps, ListKeeps, NextIssuerKeeps, ReadCacheKeeps, LockCacheKeeps,
     DiscoverKeeps, VerifyKeeps, CheckPolicyKeeps DEF AfterBegin
<1>2. ASSUME NEW m \in DOMAIN repo, EditRecord(m) PROVE IInv'
  BY <1>2, EditKeeps
<1>3. CASE UNCHANGED vars
  <2>1. UNCHANGED <<repo, edits, pc, call, providers, writer, discovered, outcome>>
    BY <1>3 DEF vars, cacheVars
  <2>2. Shape' /\ LockHeld' /\ CountsMatch'
    BY <2>1 DEF IInv, Shape, LockHeld, CountsMatch
  <2>3. Calls'
    BY <2>1 DEF IInv, Calls, Sound
  <2> QED  BY <2>2, <2>3 DEF IInv
<1> QED  BY <1>1, <1>2, <1>3 DEF Next

(* What a handler knows is of its type, whatever the others do meanwhile:  *)
(* in particular every issuer that a handler tries is one that some record *)
(* names, and who discovers is who has the lock (main.go 740-768).         *)
THEOREM ProxyTypeOK == Spec => []TypeOK
<1>1. IInv /\ [Next]_vars => IInv'
  BY StepIInv
<1> QED  BY InitIInv, <1>1, TypeImplied, PTL DEF Spec

(* However many requests miss the cache at once, an issuer's provider is   *)
(* discovered once (getOIDCProvider looks again under the lock).           *)
THEOREM ProxyDiscoveredOnce == Spec => []DiscoveredOnce
<1>1. IInv /\ [Next]_vars => IInv'
  BY StepIInv
<1>2. IInv => DiscoveredOnce
  BY DEF IInv, CountsMatch, DiscoveredOnce
<1> QED  BY InitIInv, <1>1, <1>2, PTL DEF Spec

-----------------------------------------------------------------------------
(* What a pattern covers: the code's search against the definition.        *)

LEMMA LeastExists ==
  ASSUME NEW S \in SUBSET Nat, S # {}
  PROVE  \E m \in S : \A n \in S : m <= n
<1> DEFINE Below == OpToRel(<, Nat)
<1>1. PICK m \in S : \A n \in S : ~(<<n, m>> \in Below)
  BY WFMin, NatLessThanWellFounded
<1>2. ASSUME NEW n \in S PROVE m <= n
  <2>1. ~(n < m)
    BY <1>1 DEF OpToRel
  <2> QED  BY <2>1
<1> QED  BY <1>2

LEMMA PlacesFacts ==
  ASSUME NEW s \in Seq(Bytes), NEW lit \in Seq(Bytes), NEW m \in Places(lit, s)
  PROVE  m \in 0..Len(s) /\ m + Len(lit) \in 0..Len(s)
BY DEF Places

LEMMA EmptyPlaces ==
  ASSUME NEW s \in Seq(Bytes)
  PROVE  Places(<<>>, s) = 0..Len(s)
<1>1. \A n \in 0..Len(s) : SubSeq(s, n + 1, n) = <<>>
  OBVIOUS
<1>2. Len(<<>>) = 0 /\ Len(s) \in Nat
  OBVIOUS
<1>3. \A n \in 0..Len(s) : n + Len(<<>>) = n
  BY <1>2
<1> QED  BY <1>1, <1>2, <1>3 DEF Places

\* The literals stand at w, one behind the other.
Ordered(pattern, path, w, n) ==
  \A k \in 1..n : w[k] \in Behind(pattern, path, w, k)

\* The first n stand at their first places.
First(pattern, path, at, n) ==
  \A k \in 1..n : /\ at[k] \in Behind(pattern, path, at, k)
                  /\ \A m \in Behind(pattern, path, at, k) : at[k] <= m

\* The first i literals have first places, none behind its place in w.
Reached(pattern, path, w, n, i) ==
  \E at \in [1..n -> 0..Len(path)] :
     First(pattern, path, at, i) /\ \A k \in 1..i : at[k] <= w[k]

(* One literal more: the first place behind an earlier end is no later.     *)
LEMMA ReachedNext ==
  ASSUME NEW path \in Seq(Bytes), NEW pattern \in Seq(Seq(Bytes)),
         NEW n \in Nat, n <= Len(pattern), NEW w \in [1..n -> 0..Len(path)],
         Ordered(pattern, path, w, n), NEW i \in Nat, i + 1 <= n,
         Reached(pattern, path, w, n, i)
  PROVE  Reached(pattern, path, w, n, i + 1)
<1>1. PICK at \in [1..n -> 0..Len(path)] :
        First(pattern, path, at, i) /\ \A k \in 1..i : at[k] <= w[k]
  BY DEF Reached
<1>2. \A k \in 1..n : pattern[k] \in Seq(Bytes) /\ Len(pattern[k]) \in Nat
  OBVIOUS
<1> DEFINE B == Behind(pattern, path, at, i + 1)
<1>3. \A k \in 1..n : \A m \in Places(pattern[k], path) :
        m \in 0..Len(path) /\ m + Len(pattern[k]) \in 0..Len(path)
  BY <1>2, PlacesFacts
<1>4. B \in SUBSET (0..Len(path))
  <2>1. i + 1 \in 1..n
    OBVIOUS
  <2>2. \A m \in Places(pattern[i + 1], path) : m \in 0..Len(path)
    BY <1>3, <2>1
  <2> QED  BY <2>2 DEF Behind
<1>5. w[i + 1] \in B
  <2>1. w[i + 1] \in Places(pattern[i + 1], path) /\ End(pattern, w, i) <= w[i + 1]
    BY DEF Ordered, Behind
  <2>2. End(pattern, at, i) <= End(pattern, w, i)
    <3>1. CASE i = 0
      BY <3>1 DEF End
    <3>2. CASE i # 0
      <4>1. at[i] <= w[i] /\ at[i] \in Nat /\ w[i] \in Nat /\ Len(pattern[i]) \in Nat
        BY <1>1, <1>2, <3>2
      <4> QED  BY <3>2, <4>1 DEF End
    <3> QED  BY <3>1, <3>2
  <2>3. End(pattern, at, i) \in Nat /\ End(pattern, w, i) \in Nat /\ w[i + 1] \in Nat
    <3>1. CASE i = 0
      BY <3>1 DEF End
    <3>2. CASE i # 0
      <4>1. i \in 1..n
        BY <3>2
      <4>2. at[i] \in Nat /\ w[i] \in Nat /\ Len(pattern[i]) \in Nat
        BY <1>1, <1>2, <4>1
      <4> QED  BY <3>2, <4>2 DEF End
    <3> QED  BY <3>1, <3>2
  <2>4. End(pattern, at, i) <= w[i + 1]
    BY <2>1, <2>2, <2>3
  <2> QED  BY <2>1, <2>4 DEF Behind
<1>6. PICK m \in B : \A q \in B : m <= q
  <2> HIDE DEF B
  <2>1. B \in SUBSET Nat /\ B # {}
    BY <1>4, <1>5
  <2> QED  BY <2>1, LeastExists
<1> DEFINE next == [at EXCEPT ![i + 1] = m]
<1>7. next \in [1..n -> 0..Len(path)]
  BY <1>4
<1>8. /\ next[i + 1] = m /\ m <= w[i + 1]
      /\ \A k \in 1..i : next[k] = at[k]
  BY <1>5, <1>6
<1> HIDE DEF next
<1>9. \A k \in 1..(i + 1) : Behind(pattern, path, next, k) = Behind(pattern, path, at, k)
  <2> SUFFICES ASSUME NEW k \in 1..(i + 1)
               PROVE  Behind(pattern, path, next, k) = Behind(pattern, path, at, k)
    OBVIOUS
  <2>1. End(pattern, next, k - 1) = End(pattern, at, k - 1)
    <3>1. CASE k = 1
      BY <3>1 DEF End
    <3>2. CASE k # 1
      <4>1. k - 1 \in 1..i
        BY <3>2
      <4> QED  BY <1>8, <4>1 DEF End
    <3> QED  BY <3>1, <3>2
  <2> QED  BY <2>1 DEF Behind
<1>10. First(pattern, path, next, i + 1)
  <2> SUFFICES ASSUME NEW k \in 1..(i + 1)
               PROVE  /\ next[k] \in Behind(pattern, path, next, k)
                      /\ \A q \in Behind(pattern, path, next, k) : next[k] <= q
    BY DEF First
  <2>1. CASE k = i + 1
    BY <1>6, <1>8, <1>9, <2>1
  <2>2. CASE k \in 1..i
    BY <1>1, <1>8, <1>9, <2>2 DEF First
  <2> QED  BY <2>1, <2>2
<1>11. \A k \in 1..(i + 1) : next[k] <= w[k]
  <2> SUFFICES ASSUME NEW k \in 1..(i + 1) PROVE next[k] <= w[k]
    OBVIOUS
  <2>1. CASE k = i + 1
    BY <1>8, <2>1
  <2>2. CASE k \in 1..i
    BY <1>1, <1>8, <2>2
  <2> QED  BY <2>1, <2>2
<1> QED  BY <1>7, <1>10, <1>11 DEF Reached

(* If the literals stand somewhere one behind the other, the search for     *)
(* the first place of each finds all of them: it never goes too far.       *)
LEMMA FirstExists ==
  ASSUME NEW path \in Seq(Bytes), NEW pattern \in Seq(Seq(Bytes)),
         NEW n \in Nat, n <= Len(pattern), NEW w \in [1..n -> 0..Len(path)],
         Ordered(pattern, path, w, n)
  PROVE  FirstPlaces(pattern, path, n) # {}
<1> DEFINE S == {i \in 0..n : ~Reached(pattern, path, w, n, i)}
<1>1. 0 \notin S
  <2>1. First(pattern, path, w, 0) /\ \A k \in 1..0 : w[k] <= w[k]
    BY DEF First
  <2> QED  BY <2>1 DEF Reached
<1>2. S = {}
  <2> SUFFICES ASSUME S # {} PROVE FALSE
    OBVIOUS
  <2>1. S \in SUBSET Nat
    OBVIOUS
  <2>2. PICK m \in S : \A q \in S : m <= q
    <3> HIDE DEF S
    <3> QED  BY <2>1, LeastExists
  <2>3. m \in 0..n /\ m # 0
    BY <1>1
  <2>4. m - 1 \in 0..n /\ m - 1 \notin S
    <3>1. ~(m <= m - 1)
      BY <2>3
    <3> HIDE DEF S
    <3> QED  BY <2>2, <2>3, <3>1
  <2>5. Reached(pattern, path, w, n, m - 1)
    BY <2>4
  <2>6. m - 1 \in Nat /\ (m - 1) + 1 <= n /\ (m - 1) + 1 = m
    BY <2>3
  <2>7. Reached(pattern, path, w, n, (m - 1) + 1)
    BY <2>5, <2>6, ReachedNext
  <2> QED  BY <2>6, <2>7
<1>3. Reached(pattern, path, w, n, n)
  BY <1>2
<1> QED  BY <1>3 DEF Reached, First, FirstPlaces

LEMMA FirstAre ==
  ASSUME NEW path \in Seq(Bytes), NEW pattern \in Seq(Seq(Bytes)), NEW n \in Nat,
         NEW at \in FirstPlaces(pattern, path, n), NEW k \in 1..n
  PROVE  /\ at \in [1..n -> 0..Len(path)] /\ at[k] \in Places(pattern[k], path)
         /\ k > 1 => at[k - 1] + Len(pattern[k - 1]) <= at[k]
<1>1. at \in [1..n -> 0..Len(path)] /\ at[k] \in Behind(pattern, path, at, k)
  BY DEF FirstPlaces
<1>2. at[k] \in Places(pattern[k], path) /\ End(pattern, at, k - 1) <= at[k]
  BY <1>1 DEF Behind
<1>3. k > 1 => End(pattern, at, k - 1) = at[k - 1] + Len(pattern[k - 1])
  BY DEF End
<1> QED  BY <1>1, <1>2, <1>3

(* A pattern without a star is the path itself.                            *)
LEMMA ExactCovers ==
  ASSUME NEW path \in Seq(Bytes), NEW pattern \in Seq(Seq(Bytes)), Len(pattern) = 1
  PROVE  GlobMatch(pattern, path) <=> Covers(pattern, path)
<1>1. Covers(pattern, path) <=> path = pattern[1]
  <2>1. /\ DOMAIN pattern = {1} /\ Last(pattern) = pattern[1] /\ pattern[1] \in Seq(Bytes)
        /\ Len(path) \in Nat /\ Len(pattern[1]) \in Nat
    BY DEF Last
  <2>2. ASSUME path = pattern[1] PROVE Covers(pattern, path)
    <3> DEFINE at == [k \in DOMAIN pattern |-> 0]
    <3>1. at \in [DOMAIN pattern -> 0..Len(path)] /\ at[1] = 0
      BY <2>1
    <3>2. 0 \in Places(pattern[1], path)
      <4>1. SubSeq(path, 0 + 1, 0 + Len(path)) = path
        OBVIOUS
      <4> QED  BY <2>1, <2>2, <4>1 DEF Places
    <3>3. \A k \in DOMAIN pattern : k = 1
      BY <2>1
    <3> HIDE DEF at
    <3> QED  BY <2>1, <2>2, <3>1, <3>2, <3>3 DEF Covers
  <2>3. ASSUME Covers(pattern, path) PROVE path = pattern[1]
    <3>1. 0 \in Places(pattern[1], path) /\ Len(pattern[1]) = Len(path)
      BY <2>1, <2>3 DEF Covers
    <3>2. SubSeq(path, 0 + 1, 0 + Len(path)) = pattern[1]
      BY <3>1 DEF Places
    <3> QED  BY <3>2
  <2> QED  BY <2>2, <2>3
<1>2. Last(pattern) = pattern[1] /\ Len(pattern) - 1 = 0
  BY DEF Last
<1>3. \A at : SubSeq(path, End(pattern, at, 0) + 1, Len(path)) = path
  BY DEF End
<1>4. \E at : at \in FirstPlaces(pattern, path, 0)
  <2>1. [k \in 1..0 |-> 0] \in [1..0 -> 0..Len(path)]
    OBVIOUS
  <2>2. [k \in 1..0 |-> 0] \in FirstPlaces(pattern, path, 0)
    BY <2>1 DEF FirstPlaces
  <2> QED  BY <2>2
<1>5. GlobMatch(pattern, path) <=>
        \E at \in FirstPlaces(pattern, path, 0) :
          Last(pattern) = SubSeq(path, End(pattern, at, 0) + 1, Len(path))
  BY <1>2 DEF GlobMatch
<1> QED  BY <1>1, <1>2, <1>3, <1>4, <1>5

(* A pattern that ends with a star, in a path that has its first literal at *)
(* the beginning or nowhere: the code's greedy search finds the literals    *)
(* when they stand in the path one behind the other.                       *)
LEMMA StarCovers ==
  ASSUME NEW path \in Seq(Bytes), NEW pattern \in Seq(Seq(Bytes)),
         Len(pattern) > 1, Last(pattern) = <<>>,
         Places(pattern[1], path) # {} => 0 \in Places(pattern[1], path)
  PROVE  GlobMatch(pattern, path) <=> Covers(pattern, path)
<1> DEFINE n == Len(pattern) - 1
<1>1. /\ n \in Nat /\ n >= 1 /\ n <= Len(pattern) /\ DOMAIN pattern = 1..(n + 1)
      /\ n + 1 = Len(pattern) /\ Len(path) \in Nat
  OBVIOUS
<1>2. pattern[n + 1] = <<>>
  BY DEF Last
<1>3. \A k \in 1..(n + 1) : pattern[k] \in Seq(Bytes) /\ Len(pattern[k]) \in Nat
  BY <1>1
<1>4. GlobMatch(pattern, path) <=> FirstPlaces(pattern, path, n) # {}
  BY <1>1 DEF GlobMatch
<1>5. Covers(pattern, path) <=>
        \E w \in [1..(n + 1) -> 0..Len(path)] :
          /\ \A k \in 1..(n + 1) : /\ w[k] \in Places(pattern[k], path)
                                   /\ k > 1 => w[k - 1] + Len(pattern[k - 1]) <= w[k]
          /\ w[1] = 0 /\ w[n + 1] = Len(path)
  <2> HIDE DEF n
  <2>1. /\ Covers(pattern, path) <=>
             \E w \in [1..(n + 1) -> 0..Len(path)] :
               /\ \A k \in 1..(n + 1) : /\ w[k] \in Places(pattern[k], path)
                                        /\ k > 1 => w[k - 1] + Len(pattern[k - 1]) <= w[k]
               /\ w[1] = 0 /\ w[n + 1] + Len(Last(pattern)) = Len(path)
    BY <1>1, Zenon DEF Covers
  <2>2. ASSUME NEW w \in [1..(n + 1) -> 0..Len(path)]
        PROVE  w[n + 1] + Len(Last(pattern)) = w[n + 1]
    <3>1. Len(Last(pattern)) = 0 /\ n + 1 \in 1..(n + 1)
      BY <1>1
    <3> QED  BY <1>1, <3>1
  <2> QED  BY <2>1, <2>2
<1>6. Places(pattern[n + 1], path) = 0..Len(path)
  BY <1>2, EmptyPlaces
<1> HIDE DEF n
<1>7. ASSUME NEW w \in [1..(n + 1) -> 0..Len(path)],
             \A k \in 1..(n + 1) :
               /\ w[k] \in Places(pattern[k], path)
               /\ k > 1 => w[k - 1] + Len(pattern[k - 1]) <= w[k]
      PROVE  FirstPlaces(pattern, path, n) # {}
  <2> DEFINE v == [k \in 1..n |-> w[k]]
  <2>1. v \in [1..n -> 0..Len(path)] /\ \A k \in 1..n : v[k] = w[k]
    BY <1>1
  <2> HIDE DEF v
  <2>2. Ordered(pattern, path, v, n)
    <3> SUFFICES ASSUME NEW k \in 1..n PROVE v[k] \in Behind(pattern, path, v, k)
      BY DEF Ordered
    <3>1. k \in 1..(n + 1) /\ v[k] = w[k] /\ w[k] \in 0..Len(path)
      BY <1>1, <2>1
    <3>2. v[k] \in Places(pattern[k], path)
      BY <1>7, <3>1
    <3>3. End(pattern, v, k - 1) <= v[k]
      <4>1. CASE k = 1
        BY <3>1, <4>1 DEF End
      <4>2. CASE k > 1
        <5>1. w[k - 1] + Len(pattern[k - 1]) <= w[k]
          BY <1>7, <3>1, <4>2
        <5>2. k - 1 \in 1..n /\ k - 1 # 0
          BY <1>1, <4>2
        <5> QED  BY <2>1, <3>1, <5>1, <5>2 DEF End
      <4> QED  BY <4>1, <4>2
    <3> QED  BY <3>2, <3>3 DEF Behind
  <2> QED  BY <1>1, <2>1, <2>2, FirstExists
<1>8. ASSUME NEW at \in FirstPlaces(pattern, path, n)
      PROVE  \E w \in [1..(n + 1) -> 0..Len(path)] :
               /\ \A k \in 1..(n + 1) : /\ w[k] \in Places(pattern[k], path)
                                        /\ k > 1 => w[k - 1] + Len(pattern[k - 1]) <= w[k]
               /\ w[1] = 0 /\ w[n + 1] = Len(path)
  <2> DEFINE w == [k \in 1..(n + 1) |-> IF k = n + 1 THEN Len(path) ELSE at[k]]
  <2>1. \A k \in 1..n : /\ at \in [1..n -> 0..Len(path)] /\ at[k] \in Places(pattern[k], path)
                        /\ k > 1 => at[k - 1] + Len(pattern[k - 1]) <= at[k]
    BY <1>1, FirstAre
  <2>2. /\ w \in [1..(n + 1) -> 0..Len(path)] /\ w[n + 1] = Len(path)
        /\ \A k \in 1..n : w[k] = at[k]
    BY <1>1, <2>1
  <2> HIDE DEF w
  <2>3. ASSUME NEW k \in 1..(n + 1)
        PROVE  /\ w[k] \in Places(pattern[k], path)
               /\ k > 1 => w[k - 1] + Len(pattern[k - 1]) <= w[k]
    <3>1. CASE k = n + 1
      <4>1. n \in 1..n /\ k - 1 = n /\ w[n] = at[n]
        BY <1>1, <2>2, <3>1
      <4>2. at[n] \in Places(pattern[n], path) /\ pattern[n] \in Seq(Bytes)
        BY <1>1, <1>3, <2>1, <4>1
      <4>3. at[n] + Len(pattern[n]) <= Len(path)
        BY <4>2, PlacesFacts
      <4> QED  BY <1>1, <1>6, <2>2, <3>1, <4>1, <4>3
    <3>2. CASE k \in 1..n
      <4>1. k > 1 => k - 1 \in 1..n
        BY <1>1, <3>2
      <4> QED  BY <2>1, <2>2, <3>2, <4>1
    <3> QED  BY <1>1, <3>1, <3>2
  <2>4. w[1] = 0
    <3>1. 1 \in 1..n /\ w[1] = at[1] /\ at[1] \in 0..Len(path)
      BY <1>1, <2>1, <2>2
    <3>2. Behind(pattern, path, at, 1) = Places(pattern[1], path)
      <4>1. End(pattern, at, 1 - 1) = 0
        BY DEF End
      <4>2. \A m \in Places(pattern[1], path) : 0 <= m
        BY DEF Places
      <4> QED  BY <4>1, <4>2 DEF Behind
    <3>3. \A m \in Behind(pattern, path, at, 1) : at[1] <= m
      BY <3>1 DEF FirstPlaces
    <3>4. 0 \in Places(pattern[1], path)
      BY <2>1, <3>1
    <3>5. at[1] <= 0
      BY <3>2, <3>3, <3>4
    <3> QED  BY <3>1, <3>5
  <2> QED  BY <2>2, <2>3, <2>4
<1> QED  BY <1>4, <1>5, <1>7, <1>8

LEMMA GlobCovers ==
  ASSUME NEW path \in Seq(Bytes), NEW pattern \in Seq(Seq(Bytes)) \ {<<>>},
         ReadAsFnmatch(pattern, path)
  PROVE  GlobMatch(pattern, path) <=> Covers(pattern, path)
<1>1. /\ pattern \in Seq(Seq(Bytes)) /\ Len(pattern) \in Nat /\ Len(pattern) # 0
      /\ \/ Len(pattern) = 1
         \/ /\ Last(pattern) = <<>>
            /\ Places(pattern[1], path) # {} => 0 \in Places(pattern[1], path)
  BY DEF ReadAsFnmatch
<1>2. CASE Len(pattern) = 1
  BY <1>1, <1>2, ExactCovers
<1>3. CASE Len(pattern) # 1
  <2>1. \A l \in Nat : l # 0 /\ l # 1 => l > 1
    OBVIOUS
  <2>2. /\ Len(pattern) > 1 /\ Last(pattern) = <<>>
        /\ Places(pattern[1], path) # {} => 0 \in Places(pattern[1], path)
    BY <1>1, <1>3, <2>1, Zenon
  <2> QED  BY <1>1, <2>2, StarCovers
<1> QED  BY <1>2, <1>3

(* What matchSchema chooses is what governs the path.                      *)
LEMMA MatchIsGoverning ==
  ASSUME NEW path \in Seq(Bytes), NEW schemas,
         DOMAIN schemas \subseteq Seq(Seq(Bytes)) \ {<<>>},
         SchemasReadAsFnmatch(schemas, path)
  PROVE  MatchSchema(schemas, path) = Governing(schemas, path)
<1>2. CASE <<path>> \in DOMAIN schemas
  BY <1>2, Zenon DEF MatchSchema, ExactFirst, Governing
<1>3. CASE <<path>> \notin DOMAIN schemas
  <2>5. \A p \in DOMAIN schemas : GlobMatch(p, path) <=> Covers(p, path)
    BY <1>3, GlobCovers DEF SchemasReadAsFnmatch
  <2>1. ASSUME NEW p \in DOMAIN schemas, Covers(p, path) PROVE p # << <<>> >>
    <3> SUFFICES ASSUME p = << <<>> >> PROVE FALSE
      OBVIOUS
    <3>1. Len(p) = 1 /\ Last(p) = <<>> /\ Len(Last(p)) = 0
      BY DEF Last
    <3>2. Len(path) = 0
      BY <2>1, <3>1 DEF Covers
    <3>3. path = <<>>
      BY <3>2
    <3> QED  BY <1>3, <3>3
  <2>2. MatchSchema(schemas, path) = Longest({p \in DOMAIN schemas : GlobMatch(p, path)})
    BY <1>3, Zenon DEF MatchSchema, ExactFirst
  <2>3. {p \in DOMAIN schemas : GlobMatch(p, path)} = {p \in DOMAIN schemas : Covers(p, path)}
    BY <2>5, Zenon
  <2>4. \A p : p \in Longest({q \in DOMAIN schemas : Covers(q, path)}) <=>
               p \in Governing(schemas, path)
    BY <1>3, <2>1, Zenon DEF Longest, Governing
  <2> QED  BY <2>2, <2>3, <2>4, Zenon
<1> QED  BY <1>2, <1>3

-----------------------------------------------------------------------------
(* What the pages of a listing amount to.                                  *)

\* A field of the first k pages, joined: of a name it has what the last of the
\* pages that define it says.
FieldIs(rbac, pages, k, field) ==
  LET Defines(m, n) == pages[m] # NoRecord /\ n \in DOMAIN pages[m][field]
  IN  /\ rbac[field] = [n \in DOMAIN rbac[field] |-> rbac[field][n]]
      /\ \A n \in DOMAIN rbac[field] : \E m \in 1..k :
           /\ Defines(m, n) /\ rbac[field][n] = pages[m][field][n]
           /\ \A l \in 1..k : Defines(l, n) => l <= m
      /\ \A m \in 1..k : pages[m] # NoRecord => DOMAIN pages[m][field] \subseteq DOMAIN rbac[field]

RecordIs(rbac, pages, k) ==
  \A field \in {"roles", "policies"} : FieldIs(rbac, pages, k, field)

LEMMA RecordStart ==
  ASSUME NEW pages
  PROVE  RecordIs(EmptyRecord, pages, 0)
<1> SUFFICES ASSUME NEW field \in {"roles", "policies"}
             PROVE  FieldIs(EmptyRecord, pages, 0, field)
  BY DEF RecordIs
<1>1. EmptyRecord[field] = <<>>
  BY DEF EmptyRecord
<1>2. DOMAIN <<>> = {} /\ <<>> = [n \in DOMAIN <<>> |-> <<>>[n]]
  OBVIOUS
<1> QED  BY <1>1, <1>2 DEF FieldIs

LEMMA FieldStep ==
  ASSUME NEW pages, NEW k \in Nat, NEW rbac, NEW field \in {"roles", "policies"},
         FieldIs(rbac, pages, k, field), pages[k + 1] # NoRecord
  PROVE  FieldIs(Join(rbac, pages[k + 1]), pages, k + 1, field)
<1> DEFINE c == pages[k + 1]
           all == Override(rbac[field], c[field])
<1>1. Join(rbac, c)[field] = all
  BY DEF Join
<1>2. /\ DOMAIN all = DOMAIN rbac[field] \cup DOMAIN c[field]
      /\ \A n \in DOMAIN c[field] : all[n] = c[field][n]
      /\ \A n \in DOMAIN rbac[field] : n \notin DOMAIN c[field] => all[n] = rbac[field][n]
  BY DEF Override
<1>3. all = [n \in DOMAIN all |-> all[n]]
  BY DEF Override
<1> HIDE DEF all
<1>4. ASSUME NEW n \in DOMAIN all
      PROVE  \E m \in 1..(k + 1) :
               /\ pages[m] # NoRecord /\ n \in DOMAIN pages[m][field]
               /\ all[n] = pages[m][field][n]
               /\ \A l \in 1..(k + 1) :
                    (pages[l] # NoRecord /\ n \in DOMAIN pages[l][field]) => l <= m
  <2>1. CASE n \in DOMAIN c[field]
    BY <1>2, <2>1
  <2>2. CASE n \notin DOMAIN c[field]
    <3>1. PICK m \in 1..k :
            /\ pages[m] # NoRecord /\ n \in DOMAIN pages[m][field]
            /\ rbac[field][n] = pages[m][field][n]
            /\ \A l \in 1..k : (pages[l] # NoRecord /\ n \in DOMAIN pages[l][field]) => l <= m
      BY <1>2, <1>4, <2>2 DEF FieldIs
    <3> QED  BY <1>2, <1>4, <2>2, <3>1
  <2> QED  BY <2>1, <2>2
<1>5. ASSUME NEW m \in 1..(k + 1), pages[m] # NoRecord
      PROVE  DOMAIN pages[m][field] \subseteq DOMAIN all
  <2>1. CASE m = k + 1
    BY <1>2, <1>5, <2>1
  <2>2. CASE m \in 1..k
    BY <1>2, <1>5, <2>2 DEF FieldIs
  <2> QED  BY <2>1, <2>2
<1> QED  BY <1>1, <1>3, <1>4, <1>5 DEF FieldIs

LEMMA RecordStep ==
  ASSUME NEW pages, NEW k \in Nat, NEW rbac, RecordIs(rbac, pages, k)
  PROVE  RecordIs(IF pages[k + 1] = NoRecord THEN rbac ELSE Join(rbac, pages[k + 1]), pages, k + 1)
<1>1. CASE pages[k + 1] = NoRecord
  <2>1. ASSUME NEW field \in {"roles", "policies"} PROVE FieldIs(rbac, pages, k + 1, field)
    <3>1. FieldIs(rbac, pages, k, field)
      BY DEF RecordIs
    <3> QED  BY <1>1, <3>1 DEF FieldIs
  <2> QED  BY <1>1, <2>1 DEF RecordIs
<1>2. CASE pages[k + 1] # NoRecord
  BY <1>2, FieldStep DEF RecordIs
<1> QED  BY <1>1, <1>2

(* All pages joined, a field is what the definition over whole records     *)
(* says.                                                                   *)
LEMMA AllJoined ==
  ASSUME NEW pages, NEW k \in Nat, NEW rbac, NEW field, FieldIs(rbac, pages, k, field),
         NEW records, records = [m \in {n \in 1..k : pages[n] # NoRecord} |-> pages[m]]
  PROVE  rbac[field] = Latest(records, field)
<1> DEFINE D == DOMAIN rbac[field]
           At2(n) == {m \in DOMAIN records : n \in DOMAIN records[m][field]}
<1>1. /\ DOMAIN records = {m \in 1..k : pages[m] # NoRecord}
      /\ \A m \in DOMAIN records : records[m] = pages[m]
  OBVIOUS
<1>2. D = UNION {DOMAIN records[m][field] : m \in DOMAIN records}
  <2>1. ASSUME NEW n \in D PROVE \E m \in DOMAIN records : n \in DOMAIN records[m][field]
    BY <1>1 DEF FieldIs
  <2>2. ASSUME NEW m \in DOMAIN records, NEW n \in DOMAIN records[m][field] PROVE n \in D
    BY <1>1 DEF FieldIs
  <2> DEFINE U == UNION {DOMAIN records[m][field] : m \in DOMAIN records}
  <2>3. \A n : n \in U <=> \E m \in DOMAIN records : n \in DOMAIN records[m][field]
    BY Zenon
  <2> HIDE DEF D, U
  <2>4. D = U
    BY <2>1, <2>2, <2>3
  <2> QED  BY <2>4 DEF U
<1>3. ASSUME NEW n \in D PROVE rbac[field][n] = records[Max(At2(n))][field][n]
  <2>1. PICK m \in 1..k :
          /\ pages[m] # NoRecord /\ n \in DOMAIN pages[m][field]
          /\ rbac[field][n] = pages[m][field][n]
          /\ \A l \in 1..k : (pages[l] # NoRecord /\ n \in DOMAIN pages[l][field]) => l <= m
    BY DEF FieldIs
  <2>2. m \in At2(n) /\ \A l \in At2(n) : l <= m /\ l \in Nat
    BY <1>1, <2>1
  <2>3. Max(At2(n)) = m
    <3> HIDE DEF At2
    <3>1. \A x \in At2(n) : (\A y \in At2(n) : x >= y) => x = m
      BY <2>2
    <3>2. \A y \in At2(n) : m >= y
      BY <2>2
    <3> QED  BY <2>2, <3>1, <3>2 DEF Max
  <2>4. records[m] = pages[m]
    BY <1>1, <2>1
  <2> QED  BY <2>1, <2>3, <2>4
<1>4. Latest(records, field) = [n \in D |-> records[Max(At2(n))][field][n]]
  BY <1>2, Zenon DEF Latest
<1>5. rbac[field] = [n \in D |-> rbac[field][n]]
  BY DEF FieldIs
<1>6. [n \in D |-> rbac[field][n]] = [n \in D |-> records[Max(At2(n))][field][n]]
  <2> HIDE DEF D, At2
  <2> QED  BY <1>3, Zenon
<1> QED  BY <1>4, <1>5, <1>6, Zenon

-----------------------------------------------------------------------------
(* What a handler has joined, and what a token is owed.                    *)

\* Places behind the listing.
Listed == Trying \cup {"issuer", "policy"}

Listing(r) ==
  (pc[r] = "list" /\ Unedited(r)) =>
    call[r].seen = repo /\ RecordIs(call[r].joined, repo, call[r].page - 1)

Complete(r) ==
  (pc[r] \in Listed /\ Unedited(r)) =>
    RecordIs(call[r].joined, call[r].seen, Len(repo))

\* Only issuers of the joined roles are tried, and a token that passes is of one.
Candidates(r) ==
  LET trusted == CollectIssuers(call[r].joined)
  IN  /\ pc[r] \in Trying \cup {"issuer"} => call[r].todo \subseteq trusted
      /\ pc[r] \in Trying => call[r].issuer \in trusted
      /\ (pc[r] = "policy" /\ IsBearer(r)) => call[r].input.iss \in trusted

\* The issuers that may still be tried, or could not be reached.
Left(r) ==
  call[r].todo \cup call[r].failed \cup {i \in {call[r].issuer} : pc[r] \in Trying}

Owed(r) ==
  (pc[r] \in Trying \cup {"issuer"} /\ call[r].input.iss \in CollectIssuers(call[r].joined)) =>
    call[r].input.iss \in Left(r)

Told(r) == Listing(r) /\ Complete(r) /\ Candidates(r) /\ Owed(r)

OInv == IInv /\ \A r \in Requests : Told(r)

\* All that Told speaks of.
LEMMA SameTold ==
  ASSUME NEW r \in Requests, Told(r), UNCHANGED repo, pc'[r] = pc[r], call'[r] = call[r]
  PROVE  Told(r)'
<1>1. /\ Records(r)' = Records(r) /\ Left(r)' = Left(r) /\ Unedited(r)' = Unedited(r)
      /\ IsBearer(r)' = IsBearer(r)
  BY DEF Records, Left, Unedited, IsBearer
<1>2. Listing(r)' /\ Complete(r)'
  BY <1>1 DEF Told, Listing, Complete
<1>3. Candidates(r)' /\ Owed(r)'
  BY <1>1 DEF Told, Candidates, Owed
<1> QED  BY <1>2, <1>3 DEF Told

(* A request's step leaves what the others know alone.                     *)
LEMMA OthersTold ==
  ASSUME OInv, IInv', UNCHANGED repo, NEW r \in Requests,
         \A q \in Requests : q # r => pc'[q] = pc[q] /\ call'[q] = call[q],
         Told(r)'
  PROVE  OInv'
<1>1. ASSUME NEW q \in Requests, q # r PROVE Told(q)'
  BY <1>1, SameTold DEF OInv
<1> QED  BY <1>1 DEF OInv

LEMMA AnswerTold ==
  ASSUME OInv, IInv', NEW r \in Requests, NEW what, Answer(r, what), UNCHANGED repo
  PROVE  OInv'
<1>1. /\ pc'[r] = "done"
      /\ \A q \in Requests : q # r => call'[q] = call[q] /\ pc'[q] = pc[q]
  BY KnowFacts DEF Answer, OInv, IInv, Shape
<1>2. Told(r)'
  BY <1>1 DEF Told, Listing, Complete, Candidates, Owed, Listed, Trying
<1> QED  BY <1>1, <1>2, OthersTold

LEMMA BeginTold ==
  ASSUME OInv, IInv', NEW r \in Requests, Begin(r)
  PROVE  OInv'
<1>1. CASE Answer(r, "error")
  BY <1>1, AnswerTold DEF Begin
<1>2. ASSUME NEW x \in Inputs[r], Know(r, Call(x)), Goto(r, "list") PROVE OInv'
  <2>1. call'[r] = Call(x) /\ \A q \in Requests : q # r => call'[q] = call[q]
    BY <1>2, KnowFacts DEF OInv, IInv, Shape
  <2>2. /\ pc'[r] = "list" /\ UNCHANGED repo
        /\ \A q \in Requests : q # r => pc'[q] = pc[q]
    BY <1>2 DEF Begin, Goto, OInv, IInv, Shape
  <2>3. /\ call'[r].page - 1 = 0 /\ call'[r].joined = EmptyRecord /\ call'[r].seen = repo
    BY <2>1 DEF Call
  <2>4. Listing(r)'
    BY <2>2, <2>3, RecordStart DEF Listing
  <2>5. Complete(r)' /\ Candidates(r)' /\ Owed(r)'
    BY <2>2 DEF Complete, Candidates, Owed, Listed, Trying
  <2> QED  BY <2>1, <2>2, <2>4, <2>5, OthersTold DEF Told
<1> QED  BY <1>1, <1>2 DEF Begin

LEMMA ListTold ==
  ASSUME OInv, IInv', NEW r \in Requests, ListPage(r)
  PROVE  OInv'
<1> USE DEF At
<1> DEFINE c == repo[call[r].page]
           found == call[r].found \/ c # NoRecord
           all == IF c = NoRecord THEN call[r].joined ELSE Join(call[r].joined, c)
<1>1. /\ pc[r] = "list" /\ UNCHANGED repo
      /\ \/ /\ c # Garbage /\ call[r].page < Len(repo)
            /\ Know(r, [call[r] EXCEPT !.joined = all, !.found = found, !.page = @ + 1])
            /\ UNCHANGED <<pc, outcome>>
         \/ c # Garbage /\ call[r].page = Len(repo) /\ found /\ EndList(r, all)
         \/ Answer(r, "error")
  BY Zenon DEF ListPage
<1>2. /\ DOMAIN call = Requests /\ pc \in [Requests -> RequestPlaces]
      /\ DOMAIN call[r] = Fields /\ call[r].page \in 1..Len(repo)
      /\ DOMAIN repo = 1..Len(repo) /\ Len(repo) \in Nat
  BY <1>1, PlaceFacts DEF OInv, IInv, Shape, Calls, Sound
<1>3. Unedited(r) => call[r].seen = repo /\ RecordIs(all, repo, call[r].page)
  <2> SUFFICES ASSUME Unedited(r) PROVE call[r].seen = repo /\ RecordIs(all, repo, call[r].page)
    OBVIOUS
  <2>1. call[r].seen = repo /\ RecordIs(call[r].joined, repo, call[r].page - 1)
    BY <1>1 DEF OInv, Told, Listing
  <2> DEFINE k == call[r].page - 1
  <2>2. k \in Nat /\ k + 1 = call[r].page
    BY <1>2
  <2>3. RecordIs(IF repo[k + 1] = NoRecord THEN call[r].joined
                 ELSE Join(call[r].joined, repo[k + 1]), repo, k + 1)
    BY <2>1, <2>2, RecordStep
  <2> QED  BY <2>1, <2>2, <2>3
<1> HIDE DEF c, all, found
<1>4. CASE Answer(r, "error")
  BY <1>1, <1>4, AnswerTold
<1>5. CASE /\ c # Garbage /\ call[r].page < Len(repo)
           /\ Know(r, [call[r] EXCEPT !.joined = all, !.found = found, !.page = @ + 1])
           /\ UNCHANGED <<pc, outcome>>
  <2>1. /\ call'[r] = [call[r] EXCEPT !.joined = all, !.found = found, !.page = @ + 1]
        /\ \A q \in Requests : q # r => call'[q] = call[q]
    BY <1>2, <1>5, KnowFacts
  <2>2. /\ call'[r].joined = all /\ call'[r].page - 1 = call[r].page
        /\ call'[r].seen = call[r].seen
    BY <1>2, <2>1 DEF Fields
  <2>3. Listing(r)'
    BY <1>1, <1>3, <2>2 DEF Listing, Unedited
  <2>4. pc'[r] = "list"
    BY <1>1, <1>5
  <2>5. Complete(r)' /\ Candidates(r)' /\ Owed(r)'
    BY <2>4 DEF Complete, Candidates, Owed, Listed, Trying
  <2> QED  BY <1>1, <1>5, <2>1, <2>3, <2>5, OthersTold DEF Told
<1>6. CASE call[r].page = Len(repo) /\ EndList(r, all)
  <2>1. ASSUME pc'[r] \in Listed, call'[r].joined = all, call'[r].seen = call[r].seen
        PROVE  Listing(r)' /\ Complete(r)'
    <3>1. Listing(r)'
      BY <2>1 DEF Listing, Listed, Trying
    <3>2. Unedited(r)' => RecordIs(call'[r].joined, call'[r].seen, Len(repo))
      BY <1>3, <1>6, <2>1 DEF Unedited
    <3>3. Complete(r)'
      BY <1>1, <3>2 DEF Complete
    <3> QED  BY <3>1, <3>3
  <2>2. CASE /\ IsBearer(r)
             /\ Know(r, [call[r] EXCEPT !.joined = all, !.todo = CollectIssuers(all)])
             /\ Goto(r, "issuer")
    <3>1. /\ call'[r] = [call[r] EXCEPT !.joined = all, !.todo = CollectIssuers(all)]
          /\ \A q \in Requests : q # r => call'[q] = call[q]
      BY <1>2, <2>2, KnowFacts
    <3>2. pc'[r] = "issuer" /\ \A q \in Requests : q # r => pc'[q] = pc[q]
      BY <1>2, <2>2 DEF Goto
    <3>3. /\ call'[r].todo = CollectIssuers(all) /\ call'[r].joined = all
          /\ call'[r].seen = call[r].seen
      BY <1>2, <3>1 DEF Fields
    <3>4. Candidates(r)'
      BY <3>2, <3>3 DEF Candidates, Trying
    <3>5. Owed(r)'
      BY <3>3 DEF Owed, Left
    <3>6. Listing(r)' /\ Complete(r)'
      BY <2>1, <3>2, <3>3 DEF Listed
    <3> QED  BY <1>1, <3>1, <3>2, <3>4, <3>5, <3>6, OthersTold DEF Told
  <2>3. CASE /\ ~IsBearer(r)
             /\ Know(r, [call[r] EXCEPT !.joined = all]) /\ Goto(r, "policy")
    <3>1. /\ call'[r] = [call[r] EXCEPT !.joined = all]
          /\ \A q \in Requests : q # r => call'[q] = call[q]
      BY <1>2, <2>3, KnowFacts
    <3>2. pc'[r] = "policy" /\ \A q \in Requests : q # r => pc'[q] = pc[q]
      BY <1>2, <2>3 DEF Goto
    <3>3. /\ call'[r].joined = all /\ call'[r].seen = call[r].seen
          /\ call'[r].input = call[r].input
      BY <1>2, <3>1 DEF Fields
    <3>4. Candidates(r)' /\ Owed(r)'
      BY <2>3, <3>2, <3>3 DEF Candidates, Owed, IsBearer, Trying
    <3>5. Listing(r)' /\ Complete(r)'
      BY <2>1, <3>2, <3>3 DEF Listed
    <3> QED  BY <1>1, <3>1, <3>2, <3>4, <3>5, OthersTold DEF Told
  <2> QED  BY <1>6, <2>2, <2>3 DEF EndList
<1> QED  BY <1>1, <1>4, <1>5, <1>6

LEMMA EditTold ==
  ASSUME OInv, IInv', NEW m \in DOMAIN repo, EditRecord(m)
  PROVE  OInv'
<1> USE DEF At
<1>1. DOMAIN repo' = DOMAIN repo /\ Len(repo') = Len(repo) /\ UNCHANGED pc
  BY DEF EditRecord, OInv, IInv, Shape
<1>2. \A r \in Requests :
        call'[r] = IF pc[r] = "list" THEN [call[r] EXCEPT !.seen = NoRecord] ELSE call[r]
  BY DEF EditRecord
<1>3. ASSUME NEW r \in Requests PROVE Told(r)'
  <2>1. CASE pc[r] = "list"
    <3>1. DOMAIN call[r] = Fields
      BY <2>1, PlaceFacts DEF OInv, IInv, Calls, Sound
    <3>2. call'[r].seen = NoRecord
      BY <1>2, <2>1, <3>1 DEF Fields
    <3>3. Listing(r)'
      BY <3>2 DEF Listing, Unedited
    <3>4. pc'[r] = "list"
      BY <1>1, <2>1
    <3>5. Complete(r)' /\ Candidates(r)' /\ Owed(r)'
      BY <3>4 DEF Complete, Candidates, Owed, Listed, Trying
    <3> QED  BY <3>3, <3>5 DEF Told
  <2>2. CASE pc[r] # "list"
    <3>1. call'[r] = call[r] /\ pc'[r] = pc[r] /\ Told(r)
      BY <1>1, <1>2, <2>2 DEF OInv
    <3>2. /\ Records(r)' = Records(r) /\ Left(r)' = Left(r) /\ Unedited(r)' = Unedited(r)
          /\ IsBearer(r)' = IsBearer(r)
      BY <1>1, <3>1 DEF Records, Left, Unedited, IsBearer
    <3>3. Complete(r)'
      BY <1>1, <3>1, <3>2 DEF Told, Complete
    <3>4. Candidates(r)' /\ Owed(r)'
      BY <3>1, <3>2 DEF Told, Candidates, Owed
    <3>5. Listing(r)'
      BY <2>2, <3>1 DEF Listing
    <3> QED  BY <3>3, <3>4, <3>5 DEF Told
  <2> QED  BY <2>1, <2>2
<1> QED  BY <1>3 DEF OInv

(* While the issuers are gone through, what is listed and the token stay.  *)
LEMMA TryingTold ==
  ASSUME OInv, IInv', NEW r \in Requests, UNCHANGED repo,
         \A q \in Requests : q # r => pc'[q] = pc[q] /\ call'[q] = call[q],
         pc[r] \in Trying \cup {"issuer"}, pc'[r] \in Listed,
         call'[r].seen = call[r].seen, call'[r].input = call[r].input,
         call'[r].joined = call[r].joined, Candidates(r)',
         pc'[r] \in Trying \cup {"issuer"} =>
           (call[r].input.iss \in Left(r) => call[r].input.iss \in Left(r)')
  PROVE  OInv'
<1>1. Listing(r)'
  BY DEF Listing, Listed, Trying
<1>2. /\ Records(r)' = Records(r) /\ Unedited(r)' = Unedited(r) /\ Owed(r) /\ Complete(r)
      /\ pc[r] \in Listed
  BY DEF Records, Unedited, OInv, Told, Listed
<1>3. Owed(r)'
  BY <1>2 DEF Owed
<1>4. Complete(r)'
  BY <1>2 DEF Complete
<1> QED  BY <1>1, <1>3, <1>4, OthersTold DEF Told

LEMMA NextIssuerTold ==
  ASSUME OInv, IInv', NEW r \in Requests, NextIssuer(r)
  PROVE  OInv'
<1> USE DEF At
<1>1. pc[r] = "issuer" /\ UNCHANGED repo
  BY Zenon DEF NextIssuer
<1>2. CASE Answer(r, "unverified")
  BY <1>1, <1>2, AnswerTold
<1>3. ASSUME NEW i \in call[r].todo,
             Know(r, [call[r] EXCEPT !.issuer = i, !.todo = @ \ {i}]), Goto(r, "read")
      PROVE  OInv'
  <2>1. /\ call'[r] = [call[r] EXCEPT !.issuer = i, !.todo = @ \ {i}]
        /\ \A q \in Requests : q # r => call'[q] = call[q]
    BY <1>3, KnowFacts DEF OInv, IInv, Shape
  <2>2. pc'[r] = "read" /\ \A q \in Requests : q # r => pc'[q] = pc[q]
    BY <1>3 DEF Goto, OInv, IInv, Shape
  <2>3. DOMAIN call[r] = Fields
    BY <1>1, PlaceFacts DEF OInv, IInv, Calls, Sound
  <2>4. /\ call'[r].issuer = i /\ call'[r].todo = call[r].todo \ {i}
        /\ call'[r].failed = call[r].failed /\ call'[r].seen = call[r].seen
        /\ call'[r].input = call[r].input /\ call'[r].joined = call[r].joined
    BY <2>1, <2>3 DEF Fields
  <2>5. \A j : j \in Left(r) => j \in Left(r)'
    BY <1>1, <2>2, <2>4 DEF Left, Trying
  <2>6. call[r].todo \subseteq CollectIssuers(call[r].joined)
    BY <1>1 DEF OInv, Told, Candidates
  <2>7. Candidates(r)'
    BY <1>3, <2>2, <2>4, <2>6 DEF Candidates, Trying
  <2>8. pc'[r] \in Listed
    BY <2>2 DEF Listed, Trying
  <2> QED  BY <1>1, <2>1, <2>2, <2>4, <2>5, <2>7, <2>8, TryingTold
<1> QED  BY <1>2, <1>3, Zenon DEF NextIssuer

LEMMA TryNextTold ==
  ASSUME OInv, IInv', NEW r \in Requests, pc[r] \in Trying, TryNext(r), UNCHANGED repo
  PROVE  OInv'
<1>1. /\ pc'[r] = "issuer" /\ \A q \in Requests : q # r => pc'[q] = pc[q]
      /\ \A q \in Requests : q # r => call'[q] = call[q]
  BY TryNextFacts DEF OInv
<1>2. DOMAIN call[r] = Fields /\ DOMAIN call = Requests
  BY PlaceFacts DEF OInv, IInv, Shape, Calls, Sound
<1>3. /\ call[r].todo \subseteq CollectIssuers(call[r].joined)
      /\ pc'[r] \in Listed /\ pc'[r] \notin Trying /\ pc'[r] # "policy"
  BY <1>1 DEF OInv, Told, Candidates, Listed, Trying
<1>4. CASE Know(r, [call[r] EXCEPT !.failed = @ \cup {call[r].issuer}])
  <2>1. call'[r] = [call[r] EXCEPT !.failed = @ \cup {call[r].issuer}]
    BY <1>2, <1>4, KnowFacts
  <2>2. /\ call'[r].todo = call[r].todo /\ call'[r].failed = call[r].failed \cup {call[r].issuer}
        /\ call'[r].seen = call[r].seen /\ call'[r].input = call[r].input
        /\ call'[r].joined = call[r].joined
    BY <1>2, <2>1 DEF Fields
  <2>3. \A j : j \in Left(r) => j \in Left(r)'
    BY <1>1, <2>2 DEF Left
  <2>4. Candidates(r)'
    BY <1>3, <2>2 DEF Candidates
  <2> QED  BY <1>1, <1>3, <2>2, <2>3, <2>4, TryingTold
<1>5. CASE call[r].issuer # call[r].input.iss /\ UNCHANGED call
  <2>1. call[r].input.iss \in Left(r) => call[r].input.iss \in Left(r)'
    BY <1>1, <1>5 DEF Left
  <2>2. Candidates(r)'
    BY <1>3, <1>5 DEF Candidates
  <2> QED  BY <1>1, <1>3, <1>5, <2>1, <2>2, TryingTold
<1> QED  BY <1>4, <1>5 DEF TryNext

(* A move to another place of the trial.                                   *)
LEMMA MoveTold ==
  ASSUME OInv, IInv', NEW r \in Requests, pc[r] \in Trying, UNCHANGED <<repo, call>>,
         NEW place \in Trying, Goto(r, place)
  PROVE  OInv'
<1>1. pc'[r] = place /\ \A q \in Requests : q # r => pc'[q] = pc[q]
  BY DEF Goto, OInv, IInv, Shape
<1>2. \A j : j \in Left(r) => j \in Left(r)'
  BY <1>1 DEF Left
<1>3. Candidates(r)'
  BY <1>1 DEF OInv, Told, Candidates, Trying
<1>4. pc'[r] \in Listed
  BY <1>1 DEF Listed
<1> QED  BY <1>1, <1>2, <1>3, <1>4, TryingTold

LEMMA VerifyTold ==
  ASSUME OInv, IInv', NEW r \in Requests, Verify(r)
  PROVE  OInv'
<1>1. pc[r] \in Trying /\ UNCHANGED repo
  BY DEF Verify, At, Trying
<1>2. CASE call[r].input.iss = call[r].issuer /\ Goto(r, "policy") /\ UNCHANGED call
  <2>1. pc'[r] = "policy" /\ \A q \in Requests : q # r => pc'[q] = pc[q]
    BY <1>2 DEF Goto, OInv, IInv, Shape
  <2>2. call[r].input.iss \in CollectIssuers(call[r].joined)
    BY <1>1, <1>2 DEF OInv, Told, Candidates
  <2>3. Candidates(r)'
    BY <1>2, <2>1, <2>2 DEF Candidates, Trying
  <2>4. pc'[r] \in Listed /\ pc'[r] \notin Trying \cup {"issuer"}
    BY <2>1 DEF Listed, Trying
  <2> QED  BY <1>1, <1>2, <2>1, <2>3, <2>4, TryingTold
<1>3. CASE TryNext(r)
  BY <1>1, <1>3, TryNextTold
<1> QED  BY <1>2, <1>3 DEF Verify

LEMMA StepOInv == OInv /\ IInv' /\ [Next]_vars => OInv'
<1> SUFFICES ASSUME OInv, IInv', [Next]_vars PROVE OInv'
  OBVIOUS
<1>1. ASSUME NEW r \in Requests, Begin(r) \/ ListPage(r) \/ NextIssuer(r) \/ Verify(r)
      PROVE  OInv'
  BY <1>1, BeginTold, ListTold, NextIssuerTold, VerifyTold
<1>2. ASSUME NEW r \in Requests, ReadCache(r) PROVE OInv'
  <2>1. PICK place \in {"verify", "lock"} : Goto(r, place)
    BY <1>2 DEF ReadCache
  <2>2. pc[r] \in Trying /\ place \in Trying /\ UNCHANGED <<repo, call>>
    BY <1>2 DEF ReadCache, At, Trying
  <2> QED  BY <2>1, <2>2, MoveTold
<1>3. ASSUME NEW r \in Requests, LockCache(r) PROVE OInv'
  <2>1. PICK place \in {"verify", "discover"} : Goto(r, place)
    BY <1>3 DEF LockCache
  <2>2. pc[r] \in Trying /\ place \in Trying /\ UNCHANGED <<repo, call>>
    BY <1>3 DEF LockCache, At, Trying
  <2> QED  BY <2>1, <2>2, MoveTold
<1>4. ASSUME NEW r \in Requests, Discover(r) PROVE OInv'
  <2>1. pc[r] \in Trying /\ "verify" \in Trying /\ UNCHANGED repo
    BY <1>4 DEF Discover, At, Trying
  <2> QED  BY <1>4, <2>1, MoveTold, TryNextTold DEF Discover
<1>5. ASSUME NEW r \in Requests, CheckPolicy(r) PROVE OInv'
  <2>1. UNCHANGED repo /\ \E what \in {"error", "forwarded", "denied"} : Answer(r, what)
    BY <1>5, Zenon DEF CheckPolicy
  <2> QED  BY <2>1, AnswerTold
<1>6. ASSUME NEW m \in DOMAIN repo, EditRecord(m) PROVE OInv'
  BY <1>6, EditTold
<1>7. CASE UNCHANGED vars
  BY <1>7, SameTold DEF vars, OInv
<1> QED  BY <1>1, <1>2, <1>3, <1>4, <1>5, <1>6, <1>7 DEF Next, AfterBegin

LEMMA InitOInv == Init => OInv
<1> SUFFICES ASSUME Init PROVE OInv
  OBVIOUS
<1>1. ASSUME NEW r \in Requests PROVE Told(r)
  <2>1. pc[r] = "idle"
    BY DEF Init
  <2> QED  BY <2>1 DEF Told, Listing, Complete, Candidates, Owed, Listed, Trying
<1> QED  BY <1>1, InitIInv DEF OInv

-----------------------------------------------------------------------------
(* The answers.                                                            *)

(* Only two steps of a request answer it with more than an error.          *)
LEMMA WhoAnswers ==
  ASSUME IInv, [Next]_vars, NEW r \in Requests,
         NEW what \in {"forwarded", "denied", "unverified"}, Answers(r, what)
  PROVE  /\ NextIssuer(r) \/ CheckPolicy(r)
         /\ \A other \in {"error", "forwarded", "denied", "unverified"} :
              Answer(r, other) => other = what
         /\ pc'[r] = "done" /\ pc[r] # "done"
<1> USE DEF At
<1>1. /\ pc'[r] = "done" /\ pc[r] # "done" /\ outcome'[r] = what
      /\ pc \in [Requests -> RequestPlaces]
      /\ outcome \in [Requests -> {"none", "forwarded", "denied", "unverified", "error"}]
  BY DEF Answers, IInv, Shape
<1>2. \A q \in Requests : \A other : Answer(q, other) => (q = r /\ other = what)
  BY <1>1 DEF Answer
<1>3. \A q \in Requests : \A place : Goto(q, place) => place = "done"
  BY <1>1 DEF Goto
<1>4. \A q \in Requests : ~TryNext(q)
  BY <1>3 DEF TryNext
<1>5. ~UNCHANGED pc
  BY <1>1
<1>a. \A q \in Requests : ~Answer(q, "error")
  BY <1>2
<1>g. \A q \in Requests : ~Goto(q, "issuer") /\ ~Goto(q, "policy") /\ ~Goto(q, "read")
  BY <1>3
<1>6. ASSUME NEW q \in Requests, Begin(q) \/ AfterBegin(q) PROVE NextIssuer(r) \/ CheckPolicy(r)
  <2>1. ~Begin(q)
    BY <1>2, <1>3 DEF Begin
  <2>2. ~ListPage(q)
    BY <1>5, <1>a, <1>g, Zenon DEF ListPage, EndList
  <2>3. ~ReadCache(q) /\ ~LockCache(q)
    BY <1>3 DEF ReadCache, LockCache
  <2>4. ~Discover(q) /\ ~Verify(q)
    BY <1>3, <1>4 DEF Discover, Verify
  <2>5. NextIssuer(q) \/ CheckPolicy(q)
    BY <1>6, <2>1, <2>2, <2>3, <2>4 DEF AfterBegin
  <2>6. \E other \in {"error", "forwarded", "denied", "unverified"} : Answer(q, other)
    <3>1. CASE NextIssuer(q)
      BY <1>g, <3>1, Zenon DEF NextIssuer
    <3>2. CASE CheckPolicy(q)
      BY <3>2, Zenon DEF CheckPolicy
    <3> QED  BY <2>5, <3>1, <3>2
  <2>7. q = r
    BY <1>2, <2>6
  <2> QED  BY <2>5, <2>7
<1>7. NextIssuer(r) \/ CheckPolicy(r)
  <2>1. \A m \in DOMAIN repo : ~EditRecord(m)
    BY <1>5, Zenon DEF EditRecord
  <2>2. ~UNCHANGED vars
    BY <1>5 DEF vars
  <2> QED  BY <1>6, <2>1, <2>2, Zenon DEF Next
<1> QED  BY <1>1, <1>2, <1>7

(* Only a request that has gone through its issuers turns its token away.  *)
LEMMA TurnedAwayLast ==
  ASSUME IInv, [Next]_vars, NEW r \in Requests, Answers(r, "unverified")
  PROVE  pc[r] = "issuer" /\ call[r].todo = {}
<1>1. /\ NextIssuer(r) \/ CheckPolicy(r)
      /\ ~Answer(r, "error") /\ ~Answer(r, "forwarded") /\ ~Answer(r, "denied")
      /\ pc'[r] = "done" /\ pc \in [Requests -> RequestPlaces]
  BY WhoAnswers DEF IInv, Shape
<1>2. ~CheckPolicy(r)
  BY <1>1, Zenon DEF CheckPolicy
<1>3. ~Goto(r, "read")
  BY <1>1 DEF Goto
<1> QED  BY <1>1, <1>2, <1>3, Zenon DEF NextIssuer, At

(* What is forwarded or denied went through the policy check.              *)
LEMMA Checked ==
  ASSUME IInv, [Next]_vars, NEW r \in Requests,
         NEW what \in {"forwarded", "denied"}, Answers(r, what)
  PROVE  LET x == call[r].input
         IN  /\ pc[r] = "policy"
             /\ what = "forwarded" => MayPermit(call[r].joined, Subject(r), x.path, x.method)
             /\ what = "denied" => MayDeny(call[r].joined, Subject(r), x.path, x.method)
<1>1. /\ NextIssuer(r) \/ CheckPolicy(r)
      /\ \A other \in {"error", "forwarded", "denied", "unverified"} :
           Answer(r, other) => other = what
      /\ pc'[r] = "done" /\ pc \in [Requests -> RequestPlaces]
  BY WhoAnswers DEF IInv, Shape
<1>2. ~Answer(r, "error") /\ ~Answer(r, "unverified")
  BY <1>1
<1>3. ~NextIssuer(r)
  <2>1. ~Goto(r, "read")
    BY <1>1 DEF Goto
  <2> QED  BY <1>2, <2>1, Zenon DEF NextIssuer
<1>4. CheckPolicy(r)
  BY <1>1, <1>3
<1>5. /\ what = "forwarded" => ~Answer(r, "denied")
      /\ what = "denied" => ~Answer(r, "forwarded")
  BY <1>1
<1> QED  BY <1>2, <1>4, <1>5, Zenon DEF CheckPolicy, At

(* Behind the listing, what is joined is what the records define.          *)
LEMMA JoinedIsLatest ==
  ASSUME OInv, NEW r \in Requests, pc[r] \in Listed, Unedited(r),
         NEW field \in {"roles", "policies"}
  PROVE  call[r].joined[field] = Latest(Records(r), field)
<1> DEFINE k == Len(repo)
           rbac == call[r].joined
           pages == call[r].seen
           records == Records(r)
<1>1. k \in Nat /\ records = [m \in {n \in 1..k : pages[n] # NoRecord} |-> pages[m]]
  BY DEF Records, OInv, IInv, Shape
<1>2. FieldIs(rbac, pages, k, field)
  BY DEF OInv, Told, Complete, RecordIs
<1> HIDE DEF k, rbac, pages, records
<1>3. rbac[field] = Latest(records, field)
  BY <1>1, <1>2, AllJoined
<1> QED  BY <1>3 DEF rbac, records

(* Where globMatch reads the patterns as fnmatch does, matchSchema finds in *)
(* each joined policy what governs the path.                               *)
LEMMA JoinedGovern ==
  ASSUME OInv, NEW r \in Requests, pc[r] = "policy", Steady(r)
  PROVE  /\ call[r].joined.roles = Latest(Records(r), "roles")
         /\ call[r].joined.policies = Latest(Records(r), "policies")
         /\ \A n \in DOMAIN call[r].joined.policies :
              MatchSchema(call[r].joined.policies[n], call[r].input.path)
                = Governing(call[r].joined.policies[n], call[r].input.path)
<1> DEFINE policies == call[r].joined.policies
           path == call[r].input.path
           records == Records(r)
<1>1. pc[r] \in Listed /\ pc[r] \in Calling /\ Unedited(r)
  BY PlaceFacts DEF Listed, Steady
<1>2. /\ call[r].joined.roles = Latest(records, "roles")
      /\ policies = Latest(records, "policies")
  BY <1>1, JoinedIsLatest
<1>3. call[r].input \in Inputs[r] /\ WellFormed(call[r].joined)
  BY <1>1 DEF OInv, IInv, Calls, Sound
<1>4. path \in Seq(Bytes)
  BY <1>3, ProxyAssumption
<1>5. \A n \in DOMAIN policies : SchemasReadAsFnmatch(policies[n], path)
  BY <1>2 DEF Steady
<1>6. \A n \in DOMAIN policies : DOMAIN policies[n] \subseteq Seq(Seq(Bytes)) \ {<<>>}
  BY <1>3 DEF WellFormed
<1> HIDE DEF policies, path, records
<1>7. ASSUME NEW n \in DOMAIN policies
      PROVE  MatchSchema(policies[n], path) = Governing(policies[n], path)
  BY <1>4, <1>5, <1>6, MatchIsGoverning
<1> QED  BY <1>2, <1>7 DEF policies, path, records

LEMMA CollectedAreIssuers ==
  ASSUME NEW rbac, NEW records, rbac.roles = Latest(records, "roles")
  PROVE  CollectIssuers(rbac) = Issuers(records)
<1>1. Issuers(records) = {rbac.roles[n].iss : n \in DOMAIN rbac.roles} \ {""}
  BY Zenon DEF Issuers
<1>2. \A i : i \in CollectIssuers(rbac) <=>
               i \in {rbac.roles[n].iss : n \in DOMAIN rbac.roles} /\ i # ""
  BY Zenon DEF CollectIssuers, IsIssuer
<1> QED  BY <1>1, <1>2, Zenon

(* On what matchSchema finds the check decides as the definition says.      *)
LEMMA PermitIsAllowed ==
  ASSUME NEW rbac, NEW records, NEW sub, NEW path, NEW method,
         rbac.roles = Latest(records, "roles"), rbac.policies = Latest(records, "policies"),
         \A n \in DOMAIN rbac.policies :
           MatchSchema(rbac.policies[n], path) = Governing(rbac.policies[n], path)
  PROVE  /\ MayPermit(rbac, sub, path, method) => MayAllow(records, sub, path, method)
         /\ MayDeny(rbac, sub, path, method) => ~Allows(records, sub, path, method)
<1> DEFINE M == MatchingPolicies(rbac, sub)
           Found(n) == Governing(rbac.policies[n], path)
           Decides(n) == {rbac.policies[n][p] : p \in Found(n)}
<1>1. M = DOMAIN rbac.policies \cap
            UNION {rbac.roles[n].policies :
                     n \in {k \in DOMAIN rbac.roles : rbac.roles[k].sub = sub}}
  BY DEF MatchingPolicies
<1>2. \A n \in M : MatchSchema(rbac.policies[n], path) = Found(n)
  BY <1>1
<1>3. Verdicts(records, sub, path) = {Decides(n) : n \in M}
  <2> DEFINE R == rbac.roles
             P == rbac.policies
  <2>1. R = Latest(records, "roles") /\ P = Latest(records, "policies")
    OBVIOUS
  <2>2. M = DOMAIN P \cap UNION {R[n].policies : n \in {k \in DOMAIN R : R[k].sub = sub}}
    BY <1>1
  <2> HIDE DEF R, P, M
  <2>3. Verdicts(records, sub, path) = {{P[n][p] : p \in Governing(P[n], path)} : n \in M}
    BY <2>1, <2>2, SMT DEF Verdicts
  <2> QED  BY <2>3 DEF P
<1>4. MayPermit(rbac, sub, path, method) <=>
        \E n \in M : \E p \in Found(n) : Capability(method) \cap rbac.policies[n][p] # {}
  BY <1>2, Zenon DEF MayPermit
<1>5. MayDeny(rbac, sub, path, method) <=>
        \A n \in M : \/ Found(n) = {}
                     \/ \E p \in Found(n) : Capability(method) \cap rbac.policies[n][p] = {}
  BY <1>2, Zenon DEF MayDeny
<1> HIDE DEF M, Found, Decides
<1>6. MayAllow(records, sub, path, method) <=>
        \E n \in M : \E c \in Decides(n) : Capability(method) \cap c # {}
  BY <1>3, Zenon DEF MayAllow
<1>7. Allows(records, sub, path, method) <=>
        \E n \in M : Decides(n) # {} /\ \A c \in Decides(n) : Capability(method) \cap c # {}
  BY <1>3, Zenon DEF Allows
<1>8. MayPermit(rbac, sub, path, method) => MayAllow(records, sub, path, method)
  <2>1. \A n \in M : \A p \in Found(n) : rbac.policies[n][p] \in Decides(n)
    BY DEF Decides
  <2> QED  BY <1>4, <1>6, <2>1, Zenon
<1>9. MayDeny(rbac, sub, path, method) => ~Allows(records, sub, path, method)
  <2>1. \A n \in M : Found(n) = {} => Decides(n) = {}
    BY DEF Decides
  <2>2. \A n \in M : \A p \in Found(n) : rbac.policies[n][p] \in Decides(n)
    BY DEF Decides
  <2> QED  BY <1>5, <1>7, <2>1, <2>2, Zenon
<1> QED  BY <1>8, <1>9

LEMMA SpecOInv == Spec => []OInv
<1>1. OInv /\ [Next]_vars => OInv'
  BY StepIInv, StepOInv DEF OInv
<1> QED  BY <1>1, InitOInv, PTL DEF Spec

(* A token is turned away only when no role of the records as a whole       *)
(* trusts its issuer, or that issuer could not be reached (main.go 776-812) *)
(* for any number of pages, roles and issuers and in any order of the map.  *)
THEOREM ProxyUnverifiedHadNoIssuer == Spec => UnverifiedHadNoIssuer
<1>1. ASSUME OInv, [Next]_vars, NEW r \in Requests, Answers(r, "unverified"), Unedited(r)
      PROVE  call[r].input.iss \notin Issuers(Records(r)) \ call[r].failed
  <2>1. pc[r] = "issuer" /\ call[r].todo = {}
    BY <1>1, TurnedAwayLast DEF OInv
  <2>2. Left(r) = call[r].failed
    BY <2>1, PlaceFacts DEF Left
  <2>3. CollectIssuers(call[r].joined) = Issuers(Records(r))
    BY <1>1, <2>1, JoinedIsLatest, CollectedAreIssuers DEF Listed
  <2> QED  BY <1>1, <2>1, <2>2, <2>3 DEF OInv, Told, Owed
<1>2. OInv /\ [Next]_vars =>
        [\A r \in Requests :
           (Answers(r, "unverified") /\ Unedited(r)) =>
             call[r].input.iss \notin Issuers(Records(r)) \ call[r].failed]_vars
  BY <1>1, Zenon
<1> QED  BY <1>2, SpecOInv, PTL DEF Spec, UnverifiedHadNoIssuer

(* What is forwarded, the records as a whole allow (getRBACRecord 690-735,  *)
(* checkRBACPolicy 879-927, matchSchema and globMatch 932-980): for any     *)
(* records, roles, policies, paths and issuers and any number of requests   *)
(* at once, wherever globMatch reads the policies as fnmatch (947-948) does. *)
THEOREM ProxyForwardedWasAllowed == Spec => ForwardedWasAllowed
<1>1. ASSUME OInv, [Next]_vars, NEW r \in Requests, Answers(r, "forwarded"), Steady(r)
      PROVE  LET x == call[r].input
             IN  /\ MayAllow(Records(r), Subject(r), x.path, x.method)
                 /\ IsBearer(r) => x.iss \in Issuers(Records(r))
  <2>1. /\ pc[r] = "policy"
        /\ MayPermit(call[r].joined, Subject(r), call[r].input.path, call[r].input.method)
    BY <1>1, Checked DEF OInv
  <2>2. /\ call[r].joined.roles = Latest(Records(r), "roles")
        /\ call[r].joined.policies = Latest(Records(r), "policies")
        /\ \A n \in DOMAIN call[r].joined.policies :
             MatchSchema(call[r].joined.policies[n], call[r].input.path)
               = Governing(call[r].joined.policies[n], call[r].input.path)
    BY <1>1, <2>1, JoinedGovern
  <2>3. MayAllow(Records(r), Subject(r), call[r].input.path, call[r].input.method)
    BY <2>1, <2>2, PermitIsAllowed
  <2>4. IsBearer(r) => call[r].input.iss \in CollectIssuers(call[r].joined)
    BY <1>1, <2>1 DEF OInv, Told, Candidates
  <2> QED  BY <2>2, <2>3, <2>4, CollectedAreIssuers
<1>2. OInv /\ [Next]_vars =>
        [\A r \in Requests : LET x == call[r].input IN
           (Answers(r, "forwarded") /\ Steady(r)) =>
             /\ MayAllow(Records(r), Subject(r), x.path, x.method)
             /\ IsBearer(r) => x.iss \in Issuers(Records(r))]_vars
  BY <1>1, Zenon
<1> QED  BY <1>2, SpecOInv, PTL DEF Spec, ForwardedWasAllowed

(* What the records allow is not denied, of the same.                      *)
THEOREM ProxyDeniedWasNotAllowed == Spec => DeniedWasNotAllowed
<1>1. ASSUME OInv, [Next]_vars, NEW r \in Requests, Answers(r, "denied"), Steady(r)
      PROVE  ~Allows(Records(r), Subject(r), call[r].input.path, call[r].input.method)
  <2>1. /\ pc[r] = "policy"
        /\ MayDeny(call[r].joined, Subject(r), call[r].input.path, call[r].input.method)
    BY <1>1, Checked DEF OInv
  <2> QED  BY <1>1, <2>1, JoinedGovern, PermitIsAllowed
<1>2. OInv /\ [Next]_vars =>
        [\A r \in Requests : LET x == call[r].input IN
           (Answers(r, "denied") /\ Steady(r)) =>
             ~Allows(Records(r), Subject(r), x.path, x.method)]_vars
  BY <1>1, Zenon
<1> QED  BY <1>2, SpecOInv, PTL DEF Spec, DeniedWasNotAllowed
=============================================================================
