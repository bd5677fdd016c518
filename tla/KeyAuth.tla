------------------------------ MODULE KeyAuth ------------------------------
(***************************************************************************)
(* How the relay decides on an offered SSH key: main's PublicKeyCallback,   *)
(* the cache of each identity's key records (cachedGetSSHPublicKeys and its *)
(* prune loop), and the paginated listing of the records at the user's PDS  *)
(* (getSSHPublicKeys).                                                     *)
(*                                                                         *)
(* Handshakes run concurrently and share the cache.  A lookup and a store   *)
(* are separate critical sections with the whole listing between them, so   *)
(* several handshakes may list at once and store in any order.  The users   *)
(* edit their records at any moment, between two pages too.  Listings take  *)
(* time, at most the callback's 30 s; the relay's own computation takes     *)
(* none.  What is granted here is what ForwardSync calls Permitted.         *)
(***************************************************************************)
EXTENDS Integers

CONSTANTS
  Handshakes,     \* concurrent callbacks, each one taking any number of turns
  Dids, DidOf,    \* [Handshakes -> Dids]: the identity of the user name
  Keys, Offered,  \* [Handshakes -> Keys]
  Services,
  Pages, PageOf,  \* [Record -> 1..Pages]: the page a record is listed on
  NoEntry,
  TTL, NegTTL,    \* sshPublicKeyCacheTTL, sshPublicKeyNegCacheTTL
  Timeout,        \* of the callback's context
  MaxTime, MaxEdits   \* bounds: the clock, the edits

Record == [key : Keys, svc : Services]

ASSUME KeyAuthAssumption ==
  /\ DidOf \in [Handshakes -> Dids]
  /\ Offered \in [Handshakes -> Keys]
  /\ Pages \in Nat \ {0}
  /\ PageOf \in [Record -> 1..Pages]
  /\ TTL \in Nat \ {0} /\ NegTTL \in Nat \ {0} /\ Timeout \in Nat
  /\ MaxTime \in Nat /\ MaxEdits \in Nat
  /\ NoEntry \notin [ok : BOOLEAN, keys : SUBSET Record, expiresAt : Nat]

VARIABLES
  now,
  repo,               \* [Dids -> SUBSET Record]: the records at the PDS
  removedAt, addedAt, \* per identity and record: when last removed, or added
  failedAt,           \* per identity: when a listing last failed
  cache,              \* srv.sshPublicKeyCache
  pc, deadline, page, \* per handshake: place, end of its context, next page
  got, listed,        \* the records found so far, and that nothing failed
  verdict, granted,   \* what the callback returned last
  edits

pdsVars == <<repo, removedAt, addedAt, edits>>
listVars == <<page, got, listed>>
outVars == <<verdict, granted>>
vars == <<now, pdsVars, failedAt, cache, pc, deadline, listVars, outVars>>

Entry == [ok : BOOLEAN, keys : SUBSET Record, expiresAt : Nat]
Times == 0..(MaxTime + 1)

TypeOK ==
  /\ now \in Times
  /\ repo \in [Dids -> SUBSET Record]
  /\ removedAt \in [Dids -> [Record -> Times]]
  /\ addedAt \in [Dids -> [Record -> Times]]
  /\ failedAt \in [Dids -> Times]
  /\ cache \in [Dids -> Entry \cup {NoEntry}]
  /\ pc \in [Handshakes -> {"idle", "resolve", "lookup", "list", "store", "decide"}]
  /\ deadline \in [Handshakes -> Nat]
  /\ page \in [Handshakes -> 1..Pages]
  /\ got \in [Handshakes -> SUBSET Record]
  /\ listed \in [Handshakes -> BOOLEAN]
  /\ verdict \in [Handshakes -> {"none", "accepted", "refused"}]
  /\ granted \in [Handshakes -> SUBSET Services]
  /\ edits \in 0..MaxEdits

\* The clock starts at 1, so that a time of 0 is "never".
Init ==
  /\ now = 1
  /\ repo \in [Dids -> SUBSET Record]
  /\ removedAt = [d \in Dids |-> [r \in Record |-> 0]]
  /\ addedAt = [d \in Dids |-> [r \in Record |-> IF r \in repo[d] THEN 1 ELSE 0]]
  /\ failedAt = [d \in Dids |-> 0]
  /\ cache = [d \in Dids |-> NoEntry]
  /\ pc = [h \in Handshakes |-> "idle"]
  /\ deadline = [h \in Handshakes |-> 0]
  /\ page = [h \in Handshakes |-> 1]
  /\ got = [h \in Handshakes |-> {}]
  /\ listed = [h \in Handshakes |-> FALSE]
  /\ verdict = [h \in Handshakes |-> "none"]
  /\ granted = [h \in Handshakes |-> {}]
  /\ edits = 0

Goto(h, place) == pc' = [pc EXCEPT ![h] = place]

\* The callback returns.
Return(h, v, svcs) ==
  /\ verdict' = [verdict EXCEPT ![h] = v]
  /\ granted' = [granted EXCEPT ![h] = svcs]
  /\ Goto(h, "idle")

-----------------------------------------------------------------------------
(* PublicKeyCallback.                                                      *)

Connect(h) ==
  /\ pc[h] = "idle"
  /\ deadline' = [deadline EXCEPT ![h] = now + Timeout]
  /\ verdict' = [verdict EXCEPT ![h] = "none"]
  /\ granted' = [granted EXCEPT ![h] = {}]
  /\ Goto(h, "resolve")
  /\ UNCHANGED <<now, pdsVars, failedAt, cache, listVars>>

\* What the branch for an identity without a PDS returns: its error wraps a
\* nil one, which is nil again, so the callback returns no error.
NoPdsVerdict == "accepted"

\* resolveATProtoIdentifier: the lookup fails, or the document (external) names
\* no PDS, or one to ask.
Resolve(h) ==
  /\ pc[h] = "resolve"
  /\ \/ Return(h, "refused", {})
     \/ Return(h, NoPdsVerdict, {})
     \/ Goto(h, "lookup") /\ UNCHANGED outVars
  /\ UNCHANGED <<now, pdsVars, failedAt, cache, deadline, listVars>>

\* Slip: an expired entry is used until the prune loop removes it.
Usable_AnyAge(d) == cache[d] # NoEntry

Usable(d) == cache[d] # NoEntry /\ now < cache[d].expiresAt

\* cachedGetSSHPublicKeys, under the read lock: answer from the cache, or
\* begin to list.
Lookup(h) ==
  LET d == DidOf[h]
  IN /\ pc[h] = "lookup"
     /\ \/ /\ Usable(d)
           /\ got' = [got EXCEPT ![h] = cache[d].keys]
           /\ listed' = [listed EXCEPT ![h] = cache[d].ok]
           /\ Goto(h, "decide")
           /\ UNCHANGED page
        \/ /\ ~Usable(d)
           /\ got' = [got EXCEPT ![h] = {}]
           /\ listed' = [listed EXCEPT ![h] = TRUE]
           /\ page' = [page EXCEPT ![h] = 1]
           /\ Goto(h, "list")
  /\ UNCHANGED <<now, pdsVars, failedAt, cache, deadline, outVars>>

\* Slip: one page more is asked for than there are.
LastPage_Beyond(h) == page[h] > Pages

LastPage(h) == page[h] = Pages

\* getSSHPublicKeys: one page more.
ListPage(h) ==
  /\ pc[h] = "list"
  /\ got' = [got EXCEPT ![h] = @ \cup {r \in repo[DidOf[h]] : PageOf[r] = page[h]}]
  /\ \/ /\ LastPage(h)
        /\ Goto(h, "store")
        /\ UNCHANGED page
     \/ /\ ~LastPage(h)
        /\ page' = [page EXCEPT ![h] = @ + 1]
        /\ UNCHANGED pc
  /\ UNCHANGED <<now, pdsVars, failedAt, cache, deadline, listed, outVars>>

\* A request fails or runs into the deadline, or one record does not decode:
\* no record of any page is returned.
ListFails(h) ==
  /\ pc[h] = "list"
  /\ got' = [got EXCEPT ![h] = {}]
  /\ listed' = [listed EXCEPT ![h] = FALSE]
  /\ failedAt' = [failedAt EXCEPT ![DidOf[h]] = now]
  /\ Goto(h, "store")
  /\ UNCHANGED <<now, pdsVars, cache, deadline, page, outVars>>

\* Slip: failures are kept as long as answers.
EntryTTL_Same(ok) == TTL

EntryTTL(ok) == IF ok THEN TTL ELSE NegTTL

\* cachedGetSSHPublicKeys, under the write lock: whatever is in the cache by
\* now is replaced.
Store(h) ==
  /\ pc[h] = "store"
  /\ cache' = [cache EXCEPT ![DidOf[h]] =
                 [ok |-> listed[h], keys |-> got[h],
                  expiresAt |-> now + EntryTTL(listed[h])]]
  /\ Goto(h, "decide")
  /\ UNCHANGED <<now, pdsVars, failedAt, deadline, listVars, outVars>>

\* The services of the records that carry the offered key.
ServicesFor(h) == {r.svc : r \in {q \in got[h] : q.key = Offered[h]}}

Decide(h) ==
  /\ pc[h] = "decide"
  /\ IF listed[h] /\ ServicesFor(h) # {}
       THEN Return(h, "accepted", ServicesFor(h))
       ELSE Return(h, "refused", {})
  /\ UNCHANGED <<now, pdsVars, failedAt, cache, deadline, listVars>>

CallbackStep(h) ==
  \/ Connect(h) \/ Resolve(h) \/ Lookup(h) \/ ListPage(h) \/ ListFails(h)
  \/ Store(h) \/ Decide(h)

-----------------------------------------------------------------------------
\* pruneSSHPublicKeyCacheLoop: drop what has expired.
Prune ==
  /\ cache' = [d \in Dids |-> IF cache[d] # NoEntry /\ now > cache[d].expiresAt
                               THEN NoEntry ELSE cache[d]]
  /\ UNCHANGED <<now, pdsVars, failedAt, pc, deadline, listVars, outVars>>

(* The users (external): they publish and delete key records.              *)
Publish(d, r) ==
  /\ edits < MaxEdits /\ r \notin repo[d]
  /\ repo' = [repo EXCEPT ![d] = @ \cup {r}]
  /\ addedAt' = [addedAt EXCEPT ![d][r] = now]
  /\ edits' = edits + 1
  /\ UNCHANGED <<now, removedAt, failedAt, cache, pc, deadline, listVars, outVars>>

Withdraw(d, r) ==
  /\ edits < MaxEdits /\ r \in repo[d]
  /\ repo' = [repo EXCEPT ![d] = @ \ {r}]
  /\ removedAt' = [removedAt EXCEPT ![d][r] = now]
  /\ edits' = edits + 1
  /\ UNCHANGED <<now, addedAt, failedAt, cache, pc, deadline, listVars, outVars>>

\* Time passes while every handshake waits: for a client, or for an answer
\* that the deadline still allows.
Tick ==
  /\ now < MaxTime
  /\ \A h \in Handshakes :
       \/ pc[h] = "idle"
       \/ pc[h] \in {"resolve", "list"} /\ now < deadline[h]
  /\ now' = now + 1
  /\ UNCHANGED <<pdsVars, failedAt, cache, pc, deadline, listVars, outVars>>

Next ==
  \/ \E h \in Handshakes : CallbackStep(h)
  \/ Prune \/ Tick
  \/ \E d \in Dids, r \in Record : Publish(d, r) \/ Withdraw(d, r)

Spec == Init /\ [][Next]_vars

-----------------------------------------------------------------------------
(* Properties.                                                             *)

\* At some moment since t the record was in the repository; or was not.
InSince(d, r, t) == r \in repo[d] \/ (removedAt[d][r] > 0 /\ removedAt[d][r] > t)
OutSince(d, r, t) == r \notin repo[d] \/ addedAt[d][r] > t

Window == TTL + Timeout

OfferedRecord(h, svc) == [key |-> Offered[h], svc |-> svc]

\* A service is granted only for a record that was published at some moment of
\* the last TTL and the length of one listing: however listings overlap and in
\* whichever order they are stored, a withdrawn key does not live longer.
GrantRecent ==
  [][\A h \in Handshakes : pc[h] = "decide" /\ Decide(h) =>
       \A svc \in granted'[h] : InSince(DidOf[h], OfferedRecord(h, svc), now - Window)]_vars

\* A key that has a record is granted its service once the record is older than
\* the window, unless a listing for the identity failed within the negative TTL.
GrantComplete ==
  [][\A h \in Handshakes : pc[h] = "decide" /\ Decide(h) =>
       \/ failedAt[DidOf[h]] > now - NegTTL
       \/ \A svc \in Services \ granted'[h] :
            OutSince(DidOf[h], OfferedRecord(h, svc), now - Window)]_vars

\* The callback's last words: a key is accepted "if len(services) > 0", and an
\* identity without a PDS is the error "Could not find PDS for user".
AcceptedForService == \A h \in Handshakes : verdict[h] = "accepted" => granted[h] # {}
=============================================================================
