-------------------------------- MODULE Rbac --------------------------------
(***************************************************************************)
(* The decision of the webapp's proxy, without state: an identity's         *)
(* com.fedproxy.rbac records are joined (getRBACRecord), a policy's schema  *)
(* is chosen for a path (matchSchema, globMatch) and the capability of the  *)
(* HTTP method is looked up in it (checkRBACPolicy).                        *)
(*                                                                         *)
(* A path is a sequence of characters.  A pattern is the sequence of its    *)
(* literals: what stands before, between and after its stars.  A policy     *)
(* maps patterns to capabilities; a role has an issuer, a subject and names *)
(* of policies.                                                            *)
(***************************************************************************)
EXTENDS Naturals, SequencesExt

EmptyRecord == [policies |-> <<>>, roles |-> <<>>]

\* Slip: the first record to define a name wins.
Override_First(old, new) == [n \in DOMAIN old \cup DOMAIN new |-> IF n \in DOMAIN old THEN old[n] ELSE new[n]]

Override(old, new) == [n \in DOMAIN old \cup DOMAIN new |-> IF n \in DOMAIN new THEN new[n] ELSE old[n]]

Join(joined, record) ==
  [policies |-> Override(joined.policies, record.policies),
   roles |-> Override(joined.roles, record.roles)]

\* Slip: a role without an issuer counts.
IsIssuer_Any(i) == TRUE

IsIssuer(i) == i # ""

CollectIssuers(rbac) == {i \in {rbac.roles[n].iss : n \in DOMAIN rbac.roles} : IsIssuer(i)}

\* httpMethodCapability; no capability stands for a method without an entry.
Capability(method) ==
  CASE method \in {"GET", "HEAD", "OPTIONS"} -> {"read"}
    [] method = "POST" -> {"create"}
    [] method \in {"PUT", "PATCH"} -> {"update"}
    [] method = "DELETE" -> {"delete"}
    [] OTHER -> {}

-----------------------------------------------------------------------------
(* globMatch.                                                              *)

Places(lit, s) == {n \in 0..(Len(s) - Len(lit)) : SubSeq(s, n + 1, n + Len(lit)) = lit}

\* Where the first k literals end, and where the next may stand.
End(pattern, at, k) == IF k = 0 THEN 0 ELSE at[k] + Len(pattern[k])
Behind(pattern, path, at, k) == {n \in Places(pattern[k], path) : End(pattern, at, k - 1) <= n}

\* The first n literals, each found where it first occurs behind the one before.
FirstPlaces(pattern, path, n) ==
  {at \in [1..n -> 0..Len(path)] : \A k \in 1..n :
     /\ at[k] \in Behind(pattern, path, at, k)
     /\ \A m \in Behind(pattern, path, at, k) : at[k] <= m}

\* A star at the end takes all that is left; a literal there must be all that
\* is left behind the first places of the others.
GlobMatch(pattern, path) ==
  LET stars == Len(pattern) - 1
  IN  \E at \in FirstPlaces(pattern, path, stars) :
        \/ Last(pattern) = SubSeq(path, End(pattern, at, stars) + 1, Len(path))
        \/ stars > 0 /\ Last(pattern) = <<>>

PatternLength(pattern) == FoldLeft(LAMBDA n, lit : n + Len(lit), Len(pattern) - 1, pattern)

Longest(patterns) ==
  {p \in patterns : p # << <<>> >> /\ \A q \in patterns : PatternLength(q) <= PatternLength(p)}

\* Slip: an exact key is one of the candidates.
ExactFirst_Not(schemas, path) == FALSE

ExactFirst(schemas, path) == <<path>> \in DOMAIN schemas

\* matchSchema goes through a Go map: of several longest it finds any.
MatchSchema(schemas, path) ==
  IF ExactFirst(schemas, path)
  THEN {<<path>>}
  ELSE Longest({p \in DOMAIN schemas : GlobMatch(p, path)})

\* The policies that the roles with this subject name.
MatchingPolicies(rbac, sub) ==
  DOMAIN rbac.policies \cap
    UNION {rbac.roles[n].policies : n \in {k \in DOMAIN rbac.roles : rbac.roles[k].sub = sub}}

\* checkRBACPolicy: with a tie it may go either way.
MayPermit(rbac, sub, path, method) ==
  \E n \in MatchingPolicies(rbac, sub) : \E p \in MatchSchema(rbac.policies[n], path) :
    Capability(method) \cap rbac.policies[n][p] # {}

MayDeny(rbac, sub, path, method) ==
  \A n \in MatchingPolicies(rbac, sub) :
    LET found == MatchSchema(rbac.policies[n], path)
    IN  found = {} \/ \E p \in found : Capability(method) \cap rbac.policies[n][p] = {}

-----------------------------------------------------------------------------
(* The same, by definition, over the records in the order they are listed. *)

\* As fnmatch reads a pattern: its literals stand in the path one behind the
\* other, the first where the path begins and the last where it ends.
Covers(pattern, path) ==
  \E at \in [DOMAIN pattern -> 0..Len(path)] :
    /\ \A k \in DOMAIN pattern :
         /\ at[k] \in Places(pattern[k], path)
         /\ k > 1 => at[k - 1] + Len(pattern[k - 1]) <= at[k]
    /\ at[1] = 0
    /\ at[Len(pattern)] + Len(Last(pattern)) = Len(path)

\* Where globMatch reads a pattern so.  It looks for the first literal
\* anywhere, and for a last one right behind the others.
ReadAsFnmatch(pattern, path) ==
  \/ Len(pattern) = 1
  \/ /\ Last(pattern) = <<>>
     /\ Places(pattern[1], path) # {} => 0 \in Places(pattern[1], path)

\* And a policy so: its exact key is no pattern.
SchemasReadAsFnmatch(schemas, path) ==
  <<path>> \in DOMAIN schemas \/ \A p \in DOMAIN schemas : ReadAsFnmatch(p, path)

\* The last record that defines a name has the say.
Latest(records, field) ==
  [n \in UNION {DOMAIN records[m][field] : m \in DOMAIN records} |->
     records[Max({m \in DOMAIN records : n \in DOMAIN records[m][field]})][field][n]]

Governing(schemas, path) ==
  {p \in DOMAIN schemas :
     \/ p = <<path>>
     \/ /\ <<path>> \notin DOMAIN schemas /\ Covers(p, path)
        /\ \A q \in DOMAIN schemas : Covers(q, path) => PatternLength(q) <= PatternLength(p)}

\* The schemas that decide about a request, one set for each policy of each of
\* its subject's roles.
Verdicts(records, sub, path) ==
  LET roles == Latest(records, "roles")
      policies == Latest(records, "policies")
  IN  {{policies[q][p] : p \in Governing(policies[q], path)} :
         q \in DOMAIN policies \cap
                UNION {roles[n].policies : n \in {k \in DOMAIN roles : roles[k].sub = sub}}}

\* Some schema has the capability; some policy has it in every schema that
\* may be taken.
MayAllow(records, sub, path, method) ==
  \E schemas \in Verdicts(records, sub, path) : \E c \in schemas : Capability(method) \cap c # {}

Allows(records, sub, path, method) ==
  \E schemas \in Verdicts(records, sub, path) :
    schemas # {} /\ \A c \in schemas : Capability(method) \cap c # {}

\* A role without an issuer trusts none.
Issuers(records) ==
  {Latest(records, "roles")[n].iss : n \in DOMAIN Latest(records, "roles")} \ {""}
=============================================================================
