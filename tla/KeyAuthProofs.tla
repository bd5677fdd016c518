--------------------------- MODULE KeyAuthProofs ---------------------------
(* Proofs about KeyAuth: for any number of concurrent handshakes, any        *)
(* identities, records and pages, and any durations.                       *)
EXTENDS KeyAuth, TLAPS

(* A handshake under way is within its deadline; failures are past.         *)
DeadlineOK ==
  /\ now >= 1
  /\ \A d \in Dids : failedAt[d] <= now
  /\ \A h \in Handshakes : pc[h] # "idle" => now <= deadline[h] /\ deadline[h] <= now + Timeout

(* ks holds the record exactly if it was published, or was not published,    *)
(* at some moment after t.                                                 *)
SeenSince(d, r, ks, t) == IF r \in ks THEN InSince(d, r, t) ELSE OutSince(d, r, t)

(* A cache entry tells the truth about a moment at most a listing before it  *)
(* was stored, or a listing failed when it was stored.                     *)
EntryTrue(d) ==
  IF cache[d].ok
    THEN /\ cache[d].expiresAt <= now + TTL
         /\ \A r \in Record : SeenSince(d, r, cache[d].keys, cache[d].expiresAt - Window - 1)
    ELSE cache[d].expiresAt <= failedAt[d] + NegTTL

EntrySound == \A d \in Dids : cache[d] # NoEntry => EntryTrue(d)

(* The pages listed so far tell the truth about a moment since the handshake *)
(* began.                                                                  *)
IsRead(h, r) == pc[h] = "store" \/ PageOf[r] < page[h]

ListTrue(h) ==
  /\ listed[h] => \A r \in Record :
       /\ r \in got[h] => IsRead(h, r)
       /\ IsRead(h, r) => SeenSince(DidOf[h], r, got[h], deadline[h] - Timeout - 1)
  /\ ~listed[h] => pc[h] = "store" /\ failedAt[DidOf[h]] = now

ListSound == \A h \in Handshakes : pc[h] \in {"list", "store"} => ListTrue(h)

(* What is about to be decided on is within the window.                     *)
DecideTrue(h) ==
  /\ listed[h] => \A r \in Record : SeenSince(DidOf[h], r, got[h], now - Window)
  /\ ~listed[h] => failedAt[DidOf[h]] > now - NegTTL

DecideSound == \A h \in Handshakes : pc[h] = "decide" => DecideTrue(h)

IInv == TypeOK /\ DeadlineOK /\ EntrySound /\ ListSound /\ DecideSound

LEMMA InitIInv == Init => IInv
<1> SUFFICES ASSUME Init PROVE IInv
  OBVIOUS
<1>1. TypeOK
  BY KeyAuthAssumption DEF Init, TypeOK, Times
<1> QED
  BY <1>1 DEF Init, IInv, DeadlineOK, EntrySound, ListSound, DecideSound

LEMMA NumberTypes ==
  ASSUME TypeOK
  PROVE  /\ now \in Int /\ TTL \in Nat /\ NegTTL \in Nat /\ TTL > 0 /\ NegTTL > 0
         /\ Timeout \in Nat /\ Window \in Nat
         /\ \A h \in Handshakes : deadline[h] \in Int
         /\ \A d \in Dids : failedAt[d] \in Int
         /\ \A d \in Dids, r \in Record : removedAt[d][r] \in Int /\ addedAt[d][r] \in Int
         /\ \A d \in Dids : cache[d] # NoEntry => cache[d] \in Entry /\ cache[d].expiresAt \in Int
<1>1. \A d \in Dids : cache[d] # NoEntry => cache[d] \in Entry
  BY DEF TypeOK
<1> QED  BY <1>1, KeyAuthAssumption DEF TypeOK, Times, Window, Entry

(* A moment already past stays one at which the record was there, or not.   *)
LEMMA SinceKept ==
  ASSUME TypeOK, now >= 1, [Next]_vars
  PROVE  \A d \in Dids, r \in Record, t \in Int : t < now =>
           /\ InSince(d, r, t) => InSince(d, r, t)'
           /\ OutSince(d, r, t) => OutSince(d, r, t)'
<1> USE NumberTypes
<1>1. CASE UNCHANGED <<repo, removedAt, addedAt>>
  BY <1>1 DEF InSince, OutSince
<1>2. ASSUME NEW d \in Dids, NEW r \in Record, Publish(d, r)
      PROVE  \A e \in Dids, q \in Record, t \in Int : t < now =>
               /\ InSince(e, q, t) => InSince(e, q, t)'
               /\ OutSince(e, q, t) => OutSince(e, q, t)'
  <2> SUFFICES ASSUME NEW e \in Dids, NEW q \in Record, NEW t \in Int, t < now
               PROVE  /\ InSince(e, q, t) => InSince(e, q, t)'
                      /\ OutSince(e, q, t) => OutSince(e, q, t)'
    OBVIOUS
  <2>1. removedAt' = removedAt /\ repo[e] \subseteq repo'[e]
    BY <1>2 DEF Publish, TypeOK
  <2>2. CASE e = d /\ q = r
    <3>1. addedAt'[e][q] = now
      BY <1>2, <2>2 DEF Publish, TypeOK
    <3> QED  BY <2>1, <3>1 DEF InSince, OutSince
  <2>3. CASE ~(e = d /\ q = r)
    <3>1. addedAt'[e][q] = addedAt[e][q] /\ (q \in repo'[e] <=> q \in repo[e])
      BY <1>2, <2>3 DEF Publish, TypeOK
    <3> QED  BY <2>1, <3>1 DEF InSince, OutSince
  <2> QED  BY <2>2, <2>3
<1>3. ASSUME NEW d \in Dids, NEW r \in Record, Withdraw(d, r)
      PROVE  \A e \in Dids, q \in Record, t \in Int : t < now =>
               /\ InSince(e, q, t) => InSince(e, q, t)'
               /\ OutSince(e, q, t) => OutSince(e, q, t)'
  <2> SUFFICES ASSUME NEW e \in Dids, NEW q \in Record, NEW t \in Int, t < now
               PROVE  /\ InSince(e, q, t) => InSince(e, q, t)'
                      /\ OutSince(e, q, t) => OutSince(e, q, t)'
    OBVIOUS
  <2>1. addedAt' = addedAt /\ repo'[e] \subseteq repo[e]
    BY <1>3 DEF Withdraw, TypeOK
  <2>2. CASE e = d /\ q = r
    <3>1. removedAt'[e][q] = now
      BY <1>3, <2>2 DEF Withdraw, TypeOK
    <3> QED  BY <2>1, <3>1 DEF InSince, OutSince
  <2>3. CASE ~(e = d /\ q = r)
    <3>1. removedAt'[e][q] = removedAt[e][q] /\ (q \in repo'[e] <=> q \in repo[e])
      BY <1>3, <2>3 DEF Withdraw, TypeOK
    <3> QED  BY <2>1, <3>1 DEF InSince, OutSince
  <2> QED  BY <2>2, <2>3
<1>4. \/ UNCHANGED <<repo, removedAt, addedAt>>
      \/ \E d \in Dids, r \in Record : Publish(d, r) \/ Withdraw(d, r)
  BY DEF Next, CallbackStep, Connect, Resolve, Lookup, ListPage, ListFails, Store, Decide,
         Prune, Tick, pdsVars, vars
<1> QED  BY <1>1, <1>2, <1>3, <1>4

LEMMA SeenKept ==
  ASSUME TypeOK, now >= 1, [Next]_vars
  PROVE  \A d \in Dids, r \in Record, t \in Int, ks \in SUBSET Record :
           t < now /\ SeenSince(d, r, ks, t) => SeenSince(d, r, ks, t)'
BY SinceKept DEF SeenSince

\* An earlier bound is a weaker claim.
LEMMA SeenEarlier ==
  ASSUME TypeOK, NEW d \in Dids, NEW r \in Record, NEW ks,
         NEW t \in Int, NEW u \in Int, u <= t, SeenSince(d, r, ks, t)
  PROVE  SeenSince(d, r, ks, u)
BY NumberTypes DEF SeenSince, InSince, OutSince

LEMMA NextPage ==
  ASSUME NEW p \in 1..Pages, p # Pages
  PROVE  p + 1 \in 1..Pages
BY KeyAuthAssumption

LEMMA NextTypeOK ==
  ASSUME TypeOK, [Next]_vars
  PROVE  TypeOK'
<1> USE DEF TypeOK, pdsVars, listVars, outVars
<1>1. CASE UNCHANGED vars
  BY <1>1 DEF vars
<1>2. ASSUME NEW h \in Handshakes, Connect(h) PROVE TypeOK'
  <2>1. now + Timeout \in Nat
    BY KeyAuthAssumption DEF Times
  <2> QED  BY <1>2, <2>1 DEF Connect, Goto
<1>3. ASSUME NEW h \in Handshakes, Resolve(h) PROVE TypeOK'
  BY <1>3 DEF Resolve, Return, Goto, NoPdsVerdict
<1>4. ASSUME NEW h \in Handshakes, Lookup(h) PROVE TypeOK'
  <2>1. DidOf[h] \in Dids /\ 1 \in 1..Pages
    BY KeyAuthAssumption
  <2>2. Usable(DidOf[h]) => cache[DidOf[h]].keys \in SUBSET Record /\ cache[DidOf[h]].ok \in BOOLEAN
    BY <2>1 DEF Usable, Entry
  <2> QED  BY <1>4, <2>1, <2>2 DEF Lookup, Goto
<1>5. ASSUME NEW h \in Handshakes, ListPage(h) PROVE TypeOK'
  <2>1. DidOf[h] \in Dids
    BY KeyAuthAssumption
  <2>2. got' \in [Handshakes -> SUBSET Record]
    BY <1>5, <2>1 DEF ListPage
  <2>3. page' \in [Handshakes -> 1..Pages]
    <3>1. \/ page' = page
          \/ page[h] # Pages /\ page' = [page EXCEPT ![h] = page[h] + 1]
      BY <1>5 DEF ListPage, LastPage
    <3>2. page[h] # Pages => page[h] + 1 \in 1..Pages
      BY NextPage
    <3> QED  BY <3>1, <3>2
  <2> QED  BY <1>5, <2>2, <2>3 DEF ListPage, Goto
<1>6. ASSUME NEW h \in Handshakes, ListFails(h) PROVE TypeOK'
  BY <1>6 DEF ListFails, Goto
<1>7. ASSUME NEW h \in Handshakes, Store(h) PROVE TypeOK'
  <2>1. now + EntryTTL(listed[h]) \in Nat
    BY KeyAuthAssumption DEF EntryTTL, Times
  <2>2. [ok |-> listed[h], keys |-> got[h], expiresAt |-> now + EntryTTL(listed[h])] \in Entry
    BY <2>1 DEF Entry
  <2> QED  BY <1>7, <2>2 DEF Store, Goto
<1>8. ASSUME NEW h \in Handshakes, Decide(h) PROVE TypeOK'
  <2>1. ServicesFor(h) \in SUBSET Services
    BY DEF ServicesFor, Record
  <2> QED  BY <1>8, <2>1 DEF Decide, Return, Goto
<1>9. CASE Prune
  BY <1>9 DEF Prune
<1>10. CASE Tick
  BY <1>10, KeyAuthAssumption DEF Tick, Times
<1>11. ASSUME NEW d \in Dids, NEW r \in Record, Publish(d, r) \/ Withdraw(d, r) PROVE TypeOK'
  <2>1. edits' \in 0..MaxEdits
    BY <1>11, KeyAuthAssumption DEF Publish, Withdraw
  <2>2. repo' \in [Dids -> SUBSET Record]
    BY <1>11 DEF Publish, Withdraw
  <2>3. addedAt' \in [Dids -> [Record -> Times]] /\ removedAt' \in [Dids -> [Record -> Times]]
    <3>1. now \in Times /\ addedAt[d] \in [Record -> Times] /\ removedAt[d] \in [Record -> Times]
      OBVIOUS
    <3>2. /\ [addedAt[d] EXCEPT ![r] = now] \in [Record -> Times]
          /\ [removedAt[d] EXCEPT ![r] = now] \in [Record -> Times]
      BY <3>1
    <3>3. addedAt' \in [Dids -> [Record -> Times]]
      <4>1. \/ addedAt' = addedAt
            \/ addedAt' = [addedAt EXCEPT ![d] = [addedAt[d] EXCEPT ![r] = now]]
        BY <1>11 DEF Publish, Withdraw
      <4> QED  BY <3>2, <4>1
    <3>4. removedAt' \in [Dids -> [Record -> Times]]
      <4>1. \/ removedAt' = removedAt
            \/ removedAt' = [removedAt EXCEPT ![d] = [removedAt[d] EXCEPT ![r] = now]]
        BY <1>11 DEF Publish, Withdraw
      <4> QED  BY <3>2, <4>1
    <3> QED  BY <3>3, <3>4
  <2> QED  BY <1>11, <2>1, <2>2, <2>3 DEF Publish, Withdraw
<1> QED
  BY <1>1, <1>2, <1>3, <1>4, <1>5, <1>6, <1>7, <1>8, <1>9, <1>10, <1>11 DEF Next, CallbackStep

(* The clock and the last failures only move forward.                      *)
LEMMA TimePasses ==
  ASSUME IInv, [Next]_vars
  PROVE  /\ now' \in Int /\ now' >= now
         /\ \A d \in Dids : /\ failedAt'[d] \in Int
                             /\ failedAt[d] <= failedAt'[d] /\ failedAt'[d] <= now'
<1> USE NumberTypes DEF IInv
<1>1. ASSUME NEW h \in Handshakes, ListFails(h)
      PROVE  /\ now' = now
             /\ \A d \in Dids : failedAt'[d] = failedAt[d] \/ failedAt'[d] = now
  BY <1>1 DEF ListFails, TypeOK
<1>2. CASE UNCHANGED failedAt /\ (now' = now \/ now' = now + 1)
  BY <1>2 DEF DeadlineOK
<1>3. \/ UNCHANGED failedAt /\ (now' = now \/ now' = now + 1)
      \/ \E h \in Handshakes : ListFails(h)
  BY DEF Next, CallbackStep, Connect, Resolve, Lookup, ListPage, Store, Decide,
         Prune, Tick, Publish, Withdraw, vars, pdsVars
<1>4. now' \in Int /\ \A d \in Dids : failedAt'[d] \in Int
  BY NextTypeOK DEF TypeOK, Times
<1> QED  BY <1>1, <1>2, <1>3, <1>4 DEF DeadlineOK

LEMMA NextDeadlineOK ==
  ASSUME IInv, [Next]_vars
  PROVE  DeadlineOK'
<1> USE NumberTypes, TimePasses DEF IInv, DeadlineOK
<1>1. CASE Tick
  <2>1. \A h \in Handshakes : pc[h] # "idle" => now < deadline[h]
    BY <1>1 DEF Tick
  <2> QED  BY <1>1, <2>1 DEF Tick
<1>2. ASSUME NEW h \in Handshakes, Connect(h) PROVE DeadlineOK'
  BY <1>2 DEF Connect, Goto, TypeOK
<1>3. ASSUME ~Tick, \A h \in Handshakes : ~Connect(h) PROVE DeadlineOK'
  <2>1. /\ now' = now /\ deadline' = deadline
        /\ \A h \in Handshakes : pc'[h] # "idle" => pc[h] # "idle"
    BY <1>3 DEF Next, CallbackStep, Resolve, Lookup, ListPage, ListFails, Store, Decide,
                Return, Goto, Prune, Publish, Withdraw, vars, TypeOK
  <2> QED  BY <2>1
<1> QED  BY <1>1, <1>2, <1>3

(* What is sound already stays sound as long as it is not written.         *)
LEMMA EntryStays ==
  ASSUME IInv, [Next]_vars, NEW d \in Dids, cache[d] # NoEntry, cache'[d] = cache[d]
  PROVE  EntryTrue(d)'
<1> USE NumberTypes, TimePasses
<1>1. TypeOK /\ now >= 1 /\ EntryTrue(d) /\ cache[d] \in Entry
  BY DEF IInv, DeadlineOK, EntrySound
<1>2. CASE cache[d].ok
  <2>1. cache[d].expiresAt <= now + TTL
    BY <1>1, <1>2 DEF EntryTrue
  <2>2. cache[d].expiresAt - Window - 1 \in Int /\ cache[d].expiresAt - Window - 1 < now
    BY <1>1, <2>1 DEF Window
  <2>3. cache[d].keys \in SUBSET Record
    BY <1>1 DEF Entry
  <2>4. ASSUME NEW r \in Record
        PROVE  SeenSince(d, r, cache[d].keys, cache[d].expiresAt - Window - 1)'
    <3>1. SeenSince(d, r, cache[d].keys, cache[d].expiresAt - Window - 1)
      BY <1>1, <1>2 DEF EntryTrue
    <3> DEFINE t == cache[d].expiresAt - Window - 1
               ks == cache[d].keys
    <3>2. t' = t /\ ks' = ks
      OBVIOUS
    <3>3. \A u \in Int, qs \in SUBSET Record :
            u < now /\ SeenSince(d, r, qs, u) => SeenSince(d, r, qs, u)'
      BY <1>1, SeenKept
    <3>4. \A u \in Int, qs \in SUBSET Record :
            SeenSince(d, r, qs, u)' <=> IF r \in qs
              THEN r \in repo'[d] \/ (removedAt'[d][r] > 0 /\ removedAt'[d][r] > u)
              ELSE r \notin repo'[d] \/ addedAt'[d][r] > u
      BY DEF SeenSince, InSince, OutSince
    <3>5. IF r \in ks
            THEN r \in repo'[d] \/ (removedAt'[d][r] > 0 /\ removedAt'[d][r] > t)
            ELSE r \notin repo'[d] \/ addedAt'[d][r] > t
      BY <2>2, <2>3, <3>1, <3>3, <3>4
    <3> QED  BY <3>2, <3>5 DEF SeenSince, InSince, OutSince
  <2>5. cache'[d].expiresAt <= now' + TTL
    BY <1>1, <2>1
  <2> QED  BY <1>2, <2>4, <2>5 DEF EntryTrue
<1>3. CASE ~cache[d].ok
  BY <1>1, <1>3 DEF EntryTrue
<1> QED  BY <1>2, <1>3

LEMMA NextEntrySound ==
  ASSUME IInv, [Next]_vars
  PROVE  EntrySound'
<1>1. ASSUME NEW d \in Dids, cache'[d] = cache[d], cache'[d] # NoEntry PROVE EntryTrue(d)'
  BY <1>1, EntryStays
<1>2. CASE UNCHANGED cache
  BY <1>1, <1>2 DEF EntrySound
<1>3. CASE Prune
  <2>1. \A d \in Dids : cache'[d] # NoEntry => cache'[d] = cache[d]
    BY <1>3 DEF Prune
  <2> QED  BY <1>1, <2>1 DEF EntrySound
<1>4. ASSUME NEW h \in Handshakes, Store(h) PROVE EntrySound'
  <2> DEFINE d == DidOf[h]
  <2>1. /\ TypeOK /\ d \in Dids /\ pc[h] = "store" /\ ListTrue(h)
        /\ now <= deadline[h]
    BY <1>4, KeyAuthAssumption DEF Store, IInv, ListSound, DeadlineOK
  <2>2. /\ UNCHANGED <<now, repo, removedAt, addedAt, failedAt>>
        /\ \A e \in Dids : e # d => cache'[e] = cache[e]
        /\ cache'[d] = [ok |-> listed[h], keys |-> got[h],
                        expiresAt |-> now + EntryTTL(listed[h])]
    BY <1>4, <2>1 DEF Store, TypeOK, pdsVars
  <2>3. CASE listed[h]
    <3>1. cache'[d].expiresAt = now + TTL /\ cache'[d].keys = got[h] /\ cache'[d].ok
      BY <2>2, <2>3 DEF EntryTTL
    <3>2. ASSUME NEW r \in Record
          PROVE  SeenSince(d, r, got[h], now + TTL - Window - 1)
      <4>1. SeenSince(d, r, got[h], deadline[h] - Timeout - 1)
        BY <2>1, <2>3 DEF ListTrue, IsRead
      <4>2. /\ deadline[h] - Timeout - 1 \in Int /\ now + TTL - Window - 1 \in Int
            /\ now + TTL - Window - 1 <= deadline[h] - Timeout - 1
        BY <2>1, NumberTypes DEF Window
      <4> QED  BY <2>1, <4>1, <4>2, SeenEarlier
    <3>3. ASSUME NEW r \in Record
          PROVE  SeenSince(d, r, cache[d].keys, cache[d].expiresAt - Window - 1)'
      <4> DEFINE u == now + TTL - Window - 1
      <4>1. IF r \in got[h]
              THEN r \in repo[d] \/ (removedAt[d][r] > 0 /\ removedAt[d][r] > u)
              ELSE r \notin repo[d] \/ addedAt[d][r] > u
        BY <3>2 DEF SeenSince, InSince, OutSince
      <4>2. IF r \in cache'[d].keys
              THEN r \in repo'[d] \/ (removedAt'[d][r] > 0 /\ removedAt'[d][r] > u)
              ELSE r \notin repo'[d] \/ addedAt'[d][r] > u
        BY <2>2, <3>1, <4>1
      <4>3. cache'[d].expiresAt - Window - 1 = u
        BY <2>1, <3>1, NumberTypes
      <4> HIDE DEF u, d
      <4> QED  BY <4>2, <4>3 DEF d, SeenSince, InSince, OutSince
    <3>4. cache'[d].expiresAt <= now' + TTL
      BY <2>1, <2>2, <3>1, NumberTypes
    <3>5. EntryTrue(d)'
      BY <3>1, <3>3, <3>4 DEF EntryTrue
    <3> QED  BY <1>1, <2>2, <3>5 DEF EntrySound
  <2>4. CASE ~listed[h]
    <3>1. cache'[d].expiresAt = now + NegTTL /\ ~cache'[d].ok
      BY <2>2, <2>4 DEF EntryTTL
    <3>2. failedAt'[d] = now
      BY <2>1, <2>2, <2>4 DEF ListTrue
    <3>3. EntryTrue(d)'
      BY <2>1, <3>1, <3>2, NumberTypes DEF EntryTrue
    <3> QED  BY <1>1, <2>2, <3>3 DEF EntrySound
  <2> QED  BY <2>3, <2>4
<1>5. UNCHANGED cache \/ Prune \/ \E h \in Handshakes : Store(h)
  BY DEF Next, CallbackStep, Connect, Resolve, Lookup, ListPage, ListFails, Decide,
         Tick, Publish, Withdraw, vars
<1> QED  BY <1>2, <1>3, <1>4, <1>5

(* The same for a handshake whose own variables a step leaves alone.        *)
HandshakeUnchanged(h) ==
  /\ pc'[h] = pc[h] /\ page'[h] = page[h] /\ got'[h] = got[h]
  /\ listed'[h] = listed[h] /\ deadline'[h] = deadline[h]

LEMMA ListStays ==
  ASSUME IInv, [Next]_vars, NEW h \in Handshakes, pc[h] \in {"list", "store"},
         HandshakeUnchanged(h)
  PROVE  ListTrue(h)'
<1> DEFINE d == DidOf[h]
           t == deadline[h] - Timeout - 1
<1> USE NumberTypes, TimePasses
<1>1. /\ TypeOK /\ now >= 1 /\ d \in Dids /\ ListTrue(h) /\ got[h] \in SUBSET Record
      /\ t \in Int /\ t < now
  <2>1. TypeOK /\ now >= 1 /\ d \in Dids /\ ListTrue(h) /\ got[h] \in SUBSET Record
    BY KeyAuthAssumption DEF IInv, DeadlineOK, ListSound, TypeOK
  <2>2. deadline[h] \in Int /\ deadline[h] <= now + Timeout
    BY <2>1 DEF IInv, DeadlineOK
  <2> QED  BY <2>1, <2>2
<1>2. ASSUME NEW r \in Record, SeenSince(d, r, got[h], t)
      PROVE  SeenSince(d, r, got[h], deadline[h] - Timeout - 1)'
  <2> HIDE DEF d, t
  <2>1. \A u \in Int, qs \in SUBSET Record :
          u < now /\ SeenSince(d, r, qs, u) =>
            IF r \in qs
              THEN r \in repo'[d] \/ (removedAt'[d][r] > 0 /\ removedAt'[d][r] > u)
              ELSE r \notin repo'[d] \/ addedAt'[d][r] > u
    BY <1>1, SeenKept DEF SeenSince, InSince, OutSince
  <2>2. IF r \in got[h]
          THEN r \in repo'[d] \/ (removedAt'[d][r] > 0 /\ removedAt'[d][r] > t)
          ELSE r \notin repo'[d] \/ addedAt'[d][r] > t
    BY <1>1, <1>2, <2>1
  <2> QED  BY <2>2 DEF d, t, HandshakeUnchanged, SeenSince, InSince, OutSince
<1>3. CASE listed[h]
  BY <1>1, <1>2, <1>3 DEF ListTrue, IsRead, HandshakeUnchanged
<1>4. CASE ~listed[h]
  <2>1. pc[h] = "store" /\ failedAt[d] = now
    BY <1>1, <1>4 DEF ListTrue
  <2>2. ~Tick
    BY <2>1 DEF Tick
  <2>3. now' = now
    BY <2>2 DEF Next, CallbackStep, Connect, Resolve, Lookup, ListPage, ListFails, Store,
                Decide, Prune, Publish, Withdraw, vars
  <2> QED  BY <1>1, <1>4, <2>1, <2>3 DEF ListTrue, HandshakeUnchanged
<1> QED  BY <1>3, <1>4

LEMMA DecideStays ==
  ASSUME IInv, [Next]_vars, NEW h \in Handshakes, pc[h] = "decide", HandshakeUnchanged(h)
  PROVE  DecideTrue(h)'
<1> DEFINE d == DidOf[h]
           t == now - Window
<1> USE NumberTypes, TimePasses
<1>1. /\ TypeOK /\ now >= 1 /\ d \in Dids /\ DecideTrue(h) /\ got[h] \in SUBSET Record
      /\ t \in Int /\ t < now
  <2>1. TypeOK /\ now >= 1 /\ d \in Dids /\ DecideTrue(h) /\ got[h] \in SUBSET Record
    BY KeyAuthAssumption DEF IInv, DeadlineOK, DecideSound, TypeOK
  <2>2. Window > 0
    BY <2>1 DEF Window
  <2> QED  BY <2>1, <2>2
<1>2. now' = now
  <2>1. ~Tick
    BY DEF Tick
  <2> QED  BY <2>1 DEF Next, CallbackStep, Connect, Resolve, Lookup, ListPage, ListFails,
                       Store, Decide, Prune, Publish, Withdraw, vars
<1>3. ASSUME NEW r \in Record, SeenSince(d, r, got[h], t)
      PROVE  SeenSince(d, r, got[h], now - Window)'
  <2> HIDE DEF d, t
  <2>1. \A u \in Int, qs \in SUBSET Record :
          u < now /\ SeenSince(d, r, qs, u) =>
            IF r \in qs
              THEN r \in repo'[d] \/ (removedAt'[d][r] > 0 /\ removedAt'[d][r] > u)
              ELSE r \notin repo'[d] \/ addedAt'[d][r] > u
    BY <1>1, SeenKept DEF SeenSince, InSince, OutSince
  <2>2. IF r \in got[h]
          THEN r \in repo'[d] \/ (removedAt'[d][r] > 0 /\ removedAt'[d][r] > t)
          ELSE r \notin repo'[d] \/ addedAt'[d][r] > t
    BY <1>1, <1>3, <2>1
  <2> QED  BY <1>2, <2>2 DEF d, t, HandshakeUnchanged, SeenSince, InSince, OutSince
<1>4. CASE listed[h]
  BY <1>1, <1>3, <1>4 DEF DecideTrue, HandshakeUnchanged
<1>5. CASE ~listed[h]
  <2>1. failedAt[d] > now - NegTTL /\ failedAt'[d] >= failedAt[d]
    BY <1>1, <1>5 DEF DecideTrue
  <2> QED  BY <1>1, <1>2, <1>5, <2>1 DEF DecideTrue, HandshakeUnchanged
<1> QED  BY <1>4, <1>5

(* The step a handshake takes itself, and how it leaves the others alone.   *)
LEMMA OthersUnchanged ==
  ASSUME IInv, NEW h \in Handshakes, CallbackStep(h)
  PROVE  \A g \in Handshakes : g # h => HandshakeUnchanged(g)
<1> USE DEF IInv, TypeOK, HandshakeUnchanged, listVars, Goto, Return
<1>1. CASE Connect(h) \/ Resolve(h)
  BY <1>1 DEF Connect, Resolve
<1>2. CASE Lookup(h)
  BY <1>2 DEF Lookup
<1>3. CASE ListPage(h) \/ ListFails(h)
  BY <1>3 DEF ListPage, ListFails
<1>4. CASE Store(h) \/ Decide(h)
  BY <1>4 DEF Store, Decide
<1> QED  BY <1>1, <1>2, <1>3, <1>4 DEF CallbackStep

LEMMA NextListSound ==
  ASSUME IInv, [Next]_vars
  PROVE  ListSound'
<1> USE NumberTypes
<1>1. ASSUME NEW g \in Handshakes, HandshakeUnchanged(g), pc'[g] \in {"list", "store"}
      PROVE  ListTrue(g)'
  BY <1>1, ListStays DEF HandshakeUnchanged
<1>2. CASE \A g \in Handshakes : HandshakeUnchanged(g)
  BY <1>1, <1>2 DEF ListSound
<1>3. ASSUME NEW h \in Handshakes, CallbackStep(h),
             pc'[h] \in {"list", "store"} => ListTrue(h)'
      PROVE  ListSound'
  BY <1>1, <1>3, OthersUnchanged DEF ListSound
<1>4. ASSUME NEW h \in Handshakes, Connect(h) \/ Resolve(h) \/ Store(h) \/ Decide(h)
      PROVE  pc'[h] \notin {"list", "store"}
  BY <1>4 DEF Connect, Resolve, Store, Decide, Return, Goto, IInv, TypeOK
<1>5. ASSUME NEW h \in Handshakes, Lookup(h), pc'[h] \in {"list", "store"}
      PROVE  ListTrue(h)'
  <2>1. /\ listed'[h] = TRUE /\ got'[h] = {} /\ page'[h] = 1 /\ pc'[h] = "list"
    BY <1>5 DEF Lookup, Goto, IInv, TypeOK
  <2>2. \A r \in Record : ~(PageOf[r] < 1)
    BY KeyAuthAssumption
  <2> QED  BY <2>1, <2>2 DEF ListTrue, IsRead
<1>6. ASSUME NEW h \in Handshakes, ListFails(h)
      PROVE  ListTrue(h)'
  <2>1. DidOf[h] \in Dids
    BY KeyAuthAssumption
  <2>2. listed'[h] = FALSE /\ pc'[h] = "store" /\ failedAt'[DidOf[h]] = now /\ now' = now
    BY <1>6, <2>1 DEF ListFails, Goto, IInv, TypeOK
  <2> QED  BY <2>2 DEF ListTrue
<1>7. ASSUME NEW h \in Handshakes, ListPage(h)
      PROVE  ListTrue(h)'
  <2> DEFINE d == DidOf[h]
             t == deadline[h] - Timeout - 1
  <2>1. /\ TypeOK /\ d \in Dids /\ pc[h] = "list" /\ ListTrue(h) /\ listed[h]
        /\ t \in Int /\ t < now /\ now >= 1
    <3>1. /\ TypeOK /\ d \in Dids /\ pc[h] = "list" /\ ListTrue(h) /\ now >= 1
      BY <1>7, KeyAuthAssumption DEF ListPage, IInv, ListSound, DeadlineOK
    <3>2. deadline[h] \in Int /\ deadline[h] <= now + Timeout
      BY <3>1 DEF IInv, DeadlineOK
    <3> QED  BY <3>1, <3>2 DEF ListTrue
  <2>2. /\ UNCHANGED <<now, repo, removedAt, addedAt, deadline, listed>>
        /\ got'[h] = got[h] \cup {r \in repo[d] : PageOf[r] = page[h]}
    BY <1>7, <2>1 DEF ListPage, pdsVars, TypeOK
  <2>3. \A r \in Record : IsRead(h, r)' <=> (PageOf[r] < page[h] \/ PageOf[r] = page[h])
    <3>1. \A r \in Record : PageOf[r] \in 1..Pages /\ Pages \in Nat /\ page[h] \in 1..Pages
      BY <2>1, KeyAuthAssumption DEF TypeOK
    <3>2. \/ page[h] = Pages /\ pc'[h] = "store"
          \/ pc'[h] = "list" /\ page'[h] = page[h] + 1
      BY <1>7, <2>1 DEF ListPage, LastPage, Goto, TypeOK
    <3> QED  BY <3>1, <3>2 DEF IsRead
  <2>4. \A r \in Record : IsRead(h, r) <=> PageOf[r] < page[h]
    BY <2>1 DEF IsRead
  <2>5. ASSUME NEW r \in Record, r \in got'[h] PROVE IsRead(h, r)'
    BY <2>1, <2>2, <2>3, <2>4, <2>5 DEF ListTrue
  <2>6. ASSUME NEW r \in Record, IsRead(h, r)' PROVE SeenSince(d, r, got'[h], t)
    <3>1. CASE PageOf[r] < page[h]
      <4>1. SeenSince(d, r, got[h], t)
        BY <2>1, <2>4, <3>1 DEF ListTrue
      <4>2. r \in got'[h] <=> r \in got[h]
        <5>1. PageOf[r] # page[h]
          BY <2>1, <3>1, KeyAuthAssumption DEF TypeOK
        <5> QED  BY <2>2, <5>1
      <4> QED  BY <4>1, <4>2 DEF SeenSince
    <3>2. CASE PageOf[r] = page[h]
      <4>1. r \notin got[h]
        <5>1. ~(PageOf[r] < page[h])
          BY <2>1, <3>2, KeyAuthAssumption DEF TypeOK
        <5> QED  BY <2>1, <2>4, <5>1 DEF ListTrue
      <4>2. r \in got'[h] <=> r \in repo[d]
        BY <2>2, <3>2, <4>1
      <4> QED  BY <4>2 DEF SeenSince, InSince, OutSince
    <3> QED  BY <2>3, <2>6, <3>1, <3>2
  <2>7. ASSUME NEW r \in Record, IsRead(h, r)'
        PROVE  SeenSince(DidOf[h], r, got[h], deadline[h] - Timeout - 1)'
    BY <2>2, <2>6, <2>7 DEF SeenSince, InSince, OutSince
  <2> QED  BY <2>1, <2>2, <2>5, <2>7 DEF ListTrue
<1>8. \/ \A g \in Handshakes : HandshakeUnchanged(g)
      \/ \E h \in Handshakes : CallbackStep(h)
  BY DEF Next, Prune, Tick, Publish, Withdraw, vars, listVars, HandshakeUnchanged
<1> QED  BY <1>2, <1>3, <1>4, <1>5, <1>6, <1>7, <1>8 DEF CallbackStep

LEMMA NextDecideSound ==
  ASSUME IInv, [Next]_vars
  PROVE  DecideSound'
<1> USE NumberTypes
<1>1. ASSUME NEW g \in Handshakes, HandshakeUnchanged(g), pc'[g] = "decide"
      PROVE  DecideTrue(g)'
  BY <1>1, DecideStays DEF HandshakeUnchanged
<1>2. CASE \A g \in Handshakes : HandshakeUnchanged(g)
  BY <1>1, <1>2 DEF DecideSound
<1>3. ASSUME NEW h \in Handshakes, CallbackStep(h), pc'[h] = "decide" => DecideTrue(h)'
      PROVE  DecideSound'
  BY <1>1, <1>3, OthersUnchanged DEF DecideSound
<1>4. ASSUME NEW h \in Handshakes,
             Connect(h) \/ Resolve(h) \/ ListPage(h) \/ ListFails(h) \/ Decide(h)
      PROVE  pc'[h] # "decide"
  BY <1>4 DEF Connect, Resolve, ListPage, ListFails, Decide, Return, Goto, IInv, TypeOK
<1>5. ASSUME NEW h \in Handshakes, Lookup(h), pc'[h] = "decide"
      PROVE  DecideTrue(h)'
  <2> DEFINE d == DidOf[h]
  <2>1. TypeOK /\ d \in Dids
    BY KeyAuthAssumption DEF IInv
  <2>2. /\ Usable(d) /\ got'[h] = cache[d].keys /\ listed'[h] = cache[d].ok
        /\ UNCHANGED <<now, repo, removedAt, addedAt, failedAt>>
    BY <1>5, <2>1 DEF Lookup, Goto, TypeOK, pdsVars
  <2>3. /\ cache[d] # NoEntry /\ now < cache[d].expiresAt /\ EntryTrue(d)
        /\ cache[d].expiresAt \in Int
    BY <2>1, <2>2 DEF Usable, IInv, EntrySound
  <2>4. CASE cache[d].ok
    <3>1. ASSUME NEW r \in Record PROVE SeenSince(d, r, got[h], now - Window)'
      <4>1. SeenSince(d, r, cache[d].keys, cache[d].expiresAt - Window - 1)
        BY <2>3, <2>4 DEF EntryTrue
      <4>2. SeenSince(d, r, cache[d].keys, now - Window)
        <5>1. /\ cache[d].expiresAt - Window - 1 \in Int /\ now - Window \in Int
              /\ now - Window <= cache[d].expiresAt - Window - 1
          BY <2>1, <2>3
        <5> QED  BY <2>1, <4>1, <5>1, SeenEarlier
      <4> QED  BY <2>2, <4>2 DEF SeenSince, InSince, OutSince
    <3> QED  BY <2>2, <2>4, <3>1 DEF DecideTrue
  <2>5. CASE ~cache[d].ok
    <3>1. failedAt[d] > now - NegTTL
      BY <2>1, <2>3, <2>5 DEF EntryTrue
    <3> QED  BY <2>2, <2>5, <3>1 DEF DecideTrue
  <2> QED  BY <2>4, <2>5
<1>6. ASSUME NEW h \in Handshakes, Store(h)
      PROVE  DecideTrue(h)'
  <2> DEFINE d == DidOf[h]
  <2>1. /\ TypeOK /\ d \in Dids /\ pc[h] = "store" /\ ListTrue(h) /\ now <= deadline[h]
    BY <1>6, KeyAuthAssumption DEF Store, IInv, ListSound, DeadlineOK
  <2>2. UNCHANGED <<now, repo, removedAt, addedAt, failedAt, got, listed>>
    BY <1>6 DEF Store, pdsVars, listVars
  <2>3. CASE listed[h]
    <3>1. ASSUME NEW r \in Record PROVE SeenSince(d, r, got[h], now - Window)'
      <4>1. SeenSince(d, r, got[h], deadline[h] - Timeout - 1)
        BY <2>1, <2>3 DEF ListTrue, IsRead
      <4>2. SeenSince(d, r, got[h], now - Window)
        <5>1. /\ deadline[h] - Timeout - 1 \in Int /\ now - Window \in Int
              /\ now - Window <= deadline[h] - Timeout - 1
          BY <2>1 DEF Window
        <5> QED  BY <2>1, <4>1, <5>1, SeenEarlier
      <4> QED  BY <2>2, <4>2 DEF SeenSince, InSince, OutSince
    <3> QED  BY <2>2, <2>3, <3>1 DEF DecideTrue
  <2>4. CASE ~listed[h]
    <3>1. failedAt[d] > now - NegTTL
      BY <2>1, <2>4 DEF ListTrue
    <3> QED  BY <2>2, <2>4, <3>1 DEF DecideTrue
  <2> QED  BY <2>3, <2>4
<1>7. \/ \A g \in Handshakes : HandshakeUnchanged(g)
      \/ \E h \in Handshakes : CallbackStep(h)
  BY DEF Next, Prune, Tick, Publish, Withdraw, vars, listVars, HandshakeUnchanged
<1> QED  BY <1>2, <1>3, <1>4, <1>5, <1>6, <1>7 DEF CallbackStep

THEOREM KeyAuthInvariant == Spec => []IInv
<1>1. IInv /\ [Next]_vars => IInv'
  BY NextTypeOK, NextDeadlineOK, NextEntrySound, NextListSound, NextDecideSound DEF IInv
<1> QED  BY <1>1, InitIInv, PTL DEF Spec

\* Every variable keeps its type.
THEOREM KeyAuthTypeOK == Spec => []TypeOK
<1>1. IInv => TypeOK
  BY DEF IInv
<1> QED  BY <1>1, KeyAuthInvariant, PTL

\* A key that was withdrawn is not granted its service any more once the TTL and
\* the length of one listing are over, however handshakes overlap.
THEOREM KeyAuthGrantRecent == Spec => GrantRecent
<1> DEFINE Recent == \A h \in Handshakes : pc[h] = "decide" /\ Decide(h) =>
       \A svc \in granted'[h] : InSince(DidOf[h], OfferedRecord(h, svc), now - Window)
<1>1. IInv => Recent
  <2> SUFFICES ASSUME IInv, NEW h \in Handshakes, pc[h] = "decide", Decide(h),
                      NEW svc \in granted'[h]
               PROVE  InSince(DidOf[h], OfferedRecord(h, svc), now - Window)
    OBVIOUS
  <2>1. listed[h] /\ svc \in ServicesFor(h)
    BY DEF Decide, Return, IInv, TypeOK
  <2>2. PICK q \in got[h] : q.key = Offered[h] /\ q.svc = svc
    BY <2>1 DEF ServicesFor
  <2>3. q \in Record /\ q = OfferedRecord(h, svc)
    BY <2>2 DEF IInv, TypeOK, Record, OfferedRecord
  <2> QED  BY <2>1, <2>2, <2>3 DEF IInv, DecideSound, DecideTrue, SeenSince
<1> QED  BY <1>1, KeyAuthInvariant, PTL DEF GrantRecent

\* A key whose record has been published for longer than that is granted its
\* service, unless a listing failed within the negative TTL.
THEOREM KeyAuthGrantComplete == Spec => GrantComplete
<1> DEFINE Complete == \A h \in Handshakes : pc[h] = "decide" /\ Decide(h) =>
       \/ failedAt[DidOf[h]] > now - NegTTL
       \/ \A svc \in Services \ granted'[h] :
            OutSince(DidOf[h], OfferedRecord(h, svc), now - Window)
<1>1. IInv => Complete
  <2> SUFFICES ASSUME IInv, NEW h \in Handshakes, pc[h] = "decide", Decide(h),
                      ~(failedAt[DidOf[h]] > now - NegTTL),
                      NEW svc \in Services \ granted'[h]
               PROVE  OutSince(DidOf[h], OfferedRecord(h, svc), now - Window)
    OBVIOUS
  <2>1. DecideTrue(h) /\ listed[h]
    BY DEF IInv, DecideSound, DecideTrue
  <2>2. OfferedRecord(h, svc) \in Record
    BY KeyAuthAssumption DEF Record, OfferedRecord
  <2>3. svc \notin ServicesFor(h)
    BY <2>1 DEF Decide, Return, IInv, TypeOK
  <2>4. OfferedRecord(h, svc) \notin got[h]
    BY <2>3 DEF ServicesFor, OfferedRecord
  <2> QED  BY <2>1, <2>2, <2>4 DEF DecideTrue, SeenSince
<1> QED  BY <1>1, KeyAuthInvariant, PTL DEF GrantComplete
=============================================================================
