----------------------------- MODULE ProxyAuth -----------------------------
(***************************************************************************)
(* How the webapp's HandleProxy authorises a request: with the session of   *)
(* its cookies (the subject is the account), or with an OIDC token, which   *)
(* validateOIDCToken verifies against the issuers that the identity's own   *)
(* records name.  One identity; its records are listed a page at a time     *)
(* (getRBACRecord) while it edits them.                                    *)
(*                                                                         *)
(* Requests share the cache of providers (getOIDCProvider): a map under a   *)
(* read-write lock that is held for writing during a discovery.  Whether a  *)
(* session is found and resumed is WebSessions' matter, here an error.      *)
(***************************************************************************)
EXTENDS Rbac

CONSTANTS
  Requests,
  Bytes,        \* what paths and patterns are made of
  Inputs,       \* per request, what it may bring: account or token, path, method
  Account,      \* the subject of a request with cookies
  Contents,     \* values of a com.fedproxy.rbac record
  Garbage,      \* a record that does not decode
  NoRecord,
  Repos,        \* what an identity may have to begin with, a record a page
  Nobody,
  MaxEdits      \* bound: edits of records

ASSUME ProxyAssumption ==
  /\ MaxEdits \in Nat
  /\ Nobody \notin Requests
  /\ NoRecord \notin Contents \cup {Garbage}
  /\ \A r \in Requests : \A x \in Inputs[r] : x.path \in Seq(Bytes)
  /\ \A c \in Contents : \A n \in DOMAIN c.policies :
       DOMAIN c.policies[n] \subseteq Seq(Seq(Bytes)) \ {<<>>}
  /\ \A p \in Repos : p \in Seq(Contents \cup {Garbage, NoRecord}) /\ p # <<>>

VARIABLES
  repo,         \* per page, its record
  pc,           \* per request: place
  call,         \* per request: what its handler knows, see Call
  providers,    \* providerCache
  writer,       \* who holds providerCacheMu for writing
  outcome,      \* per request: its answer
  discovered,   \* history: discoveries that succeeded, per issuer
  edits

cacheVars == <<providers, writer, discovered>>
vars == <<repo, edits, pc, call, cacheVars, outcome>>

RoleIssuers == (UNION {{c.roles[n].iss : n \in DOMAIN c.roles} : c \in Contents}) \ {""}

\* input, next page, joined records and whether there were any; issuers to be
\* tried, the one that is tried; and for the properties the repository as it was
\* listed, if nothing in it changed meanwhile, and the issuers that could not be
\* reached.
Call(x) ==
  [input |-> x, page |-> 1, joined |-> EmptyRecord, found |-> FALSE, todo |-> {},
   issuer |-> Nobody, seen |-> repo, failed |-> {}]

RequestPlaces ==
  {"idle", "list", "issuer", "read", "lock", "discover", "verify", "policy", "done"}

TypeOK ==
  /\ repo \in Seq(Contents \cup {Garbage, NoRecord})
  /\ pc \in [Requests -> RequestPlaces]
  /\ \A r \in Requests :
       IF pc[r] \in {"idle", "done"}
       THEN call[r] = Nobody
       ELSE /\ call[r].input \in Inputs[r] /\ call[r].page \in DOMAIN repo
            /\ call[r].todo \cup call[r].failed \subseteq RoleIssuers
            /\ call[r].issuer \in RoleIssuers \cup {Nobody}
  /\ providers \subseteq RoleIssuers
  /\ writer \in Requests \cup {Nobody}
  /\ \A r \in Requests : writer = r <=> pc[r] = "discover"
  /\ outcome \in [Requests -> {"none", "forwarded", "denied", "unverified", "error"}]
  /\ edits \in 0..MaxEdits

Init ==
  /\ repo \in Repos
  /\ pc = [r \in Requests |-> "idle"]
  /\ call = [r \in Requests |-> Nobody]
  /\ providers = {} /\ writer = Nobody
  /\ discovered = [i \in RoleIssuers |-> 0]
  /\ outcome = [r \in Requests |-> "none"]
  /\ edits = 0

At(r, place) == pc[r] = place
Goto(r, place) == pc' = [pc EXCEPT ![r] = place] /\ UNCHANGED outcome
Know(r, c) == call' = [call EXCEPT ![r] = c]

\* writeProxyError, or the answer of the PDS.
Answer(r, what) ==
  /\ pc' = [pc EXCEPT ![r] = "done"]
  /\ outcome' = [outcome EXCEPT ![r] = what]
  /\ Know(r, Nobody)

IsBearer(r) == call[r].input.kind = "bearer"

-----------------------------------------------------------------------------
(* The records.                                                            *)

\* A malformed token or audience, or an identity that does not resolve, ends
\* the request at once.
Begin(r) ==
  /\ At(r, "idle")
  /\ \/ \E x \in Inputs[r] : Know(r, Call(x)) /\ Goto(r, "list")
     \/ Answer(r, "error")
  /\ UNCHANGED <<repo, edits, cacheVars>>

\* All are listed.
EndList(r, all) ==
  IF IsBearer(r)
  THEN Know(r, [call[r] EXCEPT !.joined = all, !.todo = CollectIssuers(all)]) /\ Goto(r, "issuer")
  ELSE Know(r, [call[r] EXCEPT !.joined = all]) /\ Goto(r, "policy")

\* No record on any page is an error, like a page that fails.
ListPage(r) ==
  LET c == repo[call[r].page]
      found == call[r].found \/ c # NoRecord
      all == IF c = NoRecord THEN call[r].joined ELSE Join(call[r].joined, c)
  IN  /\ At(r, "list")
      /\ \/ /\ c # Garbage /\ call[r].page < Len(repo)
            /\ Know(r, [call[r] EXCEPT !.joined = all, !.found = found, !.page = @ + 1])
            /\ UNCHANGED <<pc, outcome>>
         \/ c # Garbage /\ call[r].page = Len(repo) /\ found /\ EndList(r, all)
         \/ Answer(r, "error")
      /\ UNCHANGED <<repo, edits, cacheVars>>

\* The identity edits a record while requests are under way.
EditRecord(m) ==
  /\ edits < MaxEdits
  /\ \E c \in Contents \cup {Garbage, NoRecord} : c # repo[m] /\ repo' = [repo EXCEPT ![m] = c]
  /\ call' = [r \in Requests |-> IF At(r, "list") THEN [call[r] EXCEPT !.seen = NoRecord] ELSE call[r]]
  /\ edits' = edits + 1
  /\ UNCHANGED <<pc, cacheVars, outcome>>

-----------------------------------------------------------------------------
(* The token.                                                              *)

\* The issuers come in the order of a Go map.
NextIssuer(r) ==
  /\ At(r, "issuer")
  /\ \/ call[r].todo = {} /\ Answer(r, "unverified")
     \/ \E i \in call[r].todo :
          /\ Know(r, [call[r] EXCEPT !.issuer = i, !.todo = @ \ {i}])
          /\ Goto(r, "read")
  /\ UNCHANGED <<repo, edits, cacheVars>>

Cached(r) == call[r].issuer \in providers

\* RLock waits while a writer has the lock.
ReadCache(r) ==
  /\ At(r, "read") /\ writer = Nobody
  /\ Goto(r, IF Cached(r) THEN "verify" ELSE "lock")
  /\ UNCHANGED <<repo, edits, call, cacheVars>>

\* Slip: the map is not read again under the lock.
FoundMeanwhile_Unread(r) == FALSE

FoundMeanwhile(r) == Cached(r)

LockCache(r) ==
  /\ At(r, "lock") /\ writer = Nobody
  /\ IF FoundMeanwhile(r)
       THEN Goto(r, "verify") /\ UNCHANGED writer
       ELSE Goto(r, "discover") /\ writer' = r
  /\ UNCHANGED <<repo, edits, call, providers, discovered>>

\* Slip: the first issuer that fails ends the request.
TryNext_Return(r) == Answer(r, "unverified")

\* continue; the issuer counts as failed if it could not be reached.
TryNext(r) ==
  /\ Goto(r, "issuer")
  /\ \/ call[r].issuer = call[r].input.iss
        /\ Know(r, [call[r] EXCEPT !.failed = @ \cup {call[r].issuer}])
     \/ call[r].issuer # call[r].input.iss /\ UNCHANGED call

\* Slip: a failed discovery keeps the lock.
WriterAfterFailure_Kept == writer

WriterAfterFailure == Nobody

\* oidc.NewProvider, under the lock.  A failure is not cached.
Discover(r) ==
  /\ At(r, "discover")
  /\ \/ /\ providers' = providers \cup {call[r].issuer}
        /\ discovered' = [discovered EXCEPT ![call[r].issuer] = @ + 1]
        /\ writer' = Nobody
        /\ Goto(r, "verify") /\ UNCHANGED call
     \/ /\ writer' = WriterAfterFailure
        /\ TryNext(r)
        /\ UNCHANGED <<providers, discovered>>
  /\ UNCHANGED <<repo, edits>>

\* The token verifies against its own issuer, unless the keys cannot be had.
Verify(r) ==
  /\ At(r, "verify")
  /\ \/ call[r].input.iss = call[r].issuer /\ Goto(r, "policy") /\ UNCHANGED call
     \/ TryNext(r)
  /\ UNCHANGED <<repo, edits, cacheVars>>

Subject(r) == IF IsBearer(r) THEN call[r].input.sub ELSE Account

\* The session may be missing; then the policy check, for either kind.
CheckPolicy(r) ==
  LET x == call[r].input
  IN  /\ At(r, "policy")
      /\ \/ Answer(r, "error")
         \/ Answer(r, "forwarded") /\ MayPermit(call[r].joined, Subject(r), x.path, x.method)
         \/ Answer(r, "denied") /\ MayDeny(call[r].joined, Subject(r), x.path, x.method)
      /\ UNCHANGED <<repo, edits, cacheVars>>

AfterBegin(r) ==
  \/ ListPage(r) \/ NextIssuer(r) \/ ReadCache(r) \/ LockCache(r)
  \/ Discover(r) \/ Verify(r) \/ CheckPolicy(r)

Next ==
  \/ \E r \in Requests : Begin(r) \/ AfterBegin(r)
  \/ \E m \in DOMAIN repo : EditRecord(m)

Spec == Init /\ [][Next]_vars

(* Handlers run, and what they wait for ends: the PDS and the issuers       *)
(* answer or the connection fails.                                         *)
FairSpec == Spec /\ \A r \in Requests : WF_vars(AfterBegin(r))

-----------------------------------------------------------------------------
(* Properties.  They speak of requests during whose listing nothing was     *)
(* edited: what a listing across an edit shows is no one's records.         *)

Answers(r, what) == At(r, "done")' /\ ~At(r, "done") /\ outcome'[r] = what /\ call[r] # Nobody

Unedited(r) == call[r].seen # NoRecord
Records(r) == [m \in {n \in DOMAIN repo : call[r].seen[n] # NoRecord} |-> call[r].seen[m]]

\* And where globMatch reads every policy as its comment says (fnmatch).
Steady(r) ==
  /\ Unedited(r)
  /\ LET policies == Latest(Records(r), "policies")
     IN  \A n \in DOMAIN policies : SchemasReadAsFnmatch(policies[n], call[r].input.path)

\* What is forwarded, the records as a whole allow: the last one that defines a
\* role or policy decides, a policy's exact key before its longest pattern, and
\* a token's issuer is one that a role trusts.
ForwardedWasAllowed ==
  [][\A r \in Requests : LET x == call[r].input IN
       (Answers(r, "forwarded") /\ Steady(r)) =>
         /\ MayAllow(Records(r), Subject(r), x.path, x.method)
         /\ IsBearer(r) => x.iss \in Issuers(Records(r))]_vars

\* What the records allow is not denied.
DeniedWasNotAllowed ==
  [][\A r \in Requests : LET x == call[r].input IN
       (Answers(r, "denied") /\ Steady(r)) =>
         ~Allows(Records(r), Subject(r), x.path, x.method)]_vars

\* A token is turned away only when no role trusts its issuer or that issuer
\* could not be reached: another issuer that is down or did not sign it is no
\* reason, in whatever order the map gives them.
UnverifiedHadNoIssuer ==
  [][\A r \in Requests :
       (Answers(r, "unverified") /\ Unedited(r)) =>
         call[r].input.iss \notin Issuers(Records(r)) \ call[r].failed]_vars

\* However many requests miss the cache at once, an issuer is discovered once.
DiscoveredOnce == \A i \in RoleIssuers : discovered[i] <= 1

\* Every request that has come is answered, whoever holds the lock meanwhile.
RequestAnswered == \A r \in Requests : pc[r] = "list" ~> pc[r] = "done"
=============================================================================
