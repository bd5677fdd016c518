------------------------------ MODULE CertGate ------------------------------
(***************************************************************************)
(* caddy-check-dns-from-config: Caddy asks it, before it obtains a          *)
(* certificate on demand, whether the name of the TLS handshake may have    *)
(* one.  For each question the gate reads Caddy's configuration afresh and  *)
(* looks for a host matcher that covers the name.                          *)
(*                                                                         *)
(* Meanwhile the relay adds and removes forward routes, moves its catch-all *)
(* (a DELETE, then a POST), and Caddy restarts.  A name is the sequence of  *)
(* its characters, since the gate compares strings.                        *)
(***************************************************************************)
EXTENDS Naturals, SequencesExt

CONSTANTS
  Askers,          \* questions open at the same time (they share nothing)
  Domains,         \* names asked about
  Static,          \* host matchers of the Caddyfile's site blocks
  Forwards,        \* host matchers of forward routes
  CatchAllHost,    \* "*.<endpoint>"
  Lower,           \* strings.ToLower, per character
  MaxChanges       \* bound: changes to Caddy's configuration

Matchers == Static \cup Forwards \cup {CatchAllHost}

ASSUME GateAssumption ==
  /\ \A c \in DOMAIN Lower : Lower[c] \in DOMAIN Lower
  /\ Domains \cup Matchers \subseteq Seq(DOMAIN Lower)
  /\ MaxChanges \in Nat

VARIABLES
  loaded,            \* Caddy is up and has loaded its Caddyfile
  forwards,          \* the forward routes in the configuration
  catchAll,          \* the catch-all route is in the configuration
  stage, domain, hosts, \* per question: where it is, raw name, what fetchHosts returned
  verdict,           \* per question: the answer, 200, 404 or an error status
  known, always,     \* per question: matchers there at some moment since it was
                     \* asked, and at every moment since
  changes

caddyVars == <<loaded, forwards, catchAll>>
askVars == <<stage, domain, hosts, verdict>>
gateVars == <<caddyVars, askVars, known, always, changes>>

\* The host matchers GET /config/ shows: none in a Caddy that has not loaded.
Config ==
  IF loaded THEN Static \cup forwards \cup {CatchAllHost : b \in {catchAll} \cap {TRUE}}
            ELSE {}

\* Slip: compared as they are written.
Normalised_Raw(s) == s

\* strings.ToLower (names carry no spaces to trim).
Normalised(s) == [i \in DOMAIN s |-> Lower[s[i]]]

GateTypeOK ==
  /\ loaded \in BOOLEAN /\ catchAll \in BOOLEAN
  /\ forwards \subseteq Forwards
  /\ stage \in [Askers -> {"idle", "fetch", "decide"}]
  /\ domain \in [Askers -> Domains \cup {<<>>}]
  /\ hosts \in [Askers -> SUBSET ({Normalised(h) : h \in Matchers} \ {<<>>})]
  /\ verdict \in [Askers -> {"none", "allow", "deny", "error"}]
  /\ changes \in 0..MaxChanges

GateInit ==
  /\ loaded = TRUE
  /\ forwards = {}
  /\ catchAll \in BOOLEAN
  /\ stage = [a \in Askers |-> "idle"]
  /\ domain = [a \in Askers |-> <<>>]
  /\ hosts = [a \in Askers |-> {}]
  /\ verdict = [a \in Askers |-> "none"]
  /\ known = [a \in Askers |-> {}]
  /\ always = [a \in Askers |-> {}]
  /\ changes = 0

-----------------------------------------------------------------------------
(* hostAllows(pattern, requested).                                         *)

Slice(s, from) == SubSeq(s, from, Len(s))      \* s[from-1:]

\* requested[:len(requested)-len(suffix)], for a requested that has the suffix.
LabelBefore(requested, suffix) == SubSeq(requested, 1, Len(requested) - Len(suffix))

WildcardSuffix(pattern) == Slice(pattern, 2)
IsWildcard(pattern) == IsPrefix(<<"*", ".">>, pattern)

\* Slip: an empty label in front of the suffix is a label.
HostAllows_EmptyLabel(pattern, requested) ==
  \/ pattern = requested
  \/ /\ IsWildcard(pattern)
     /\ IsSuffix(WildcardSuffix(pattern), requested)
     /\ ~Contains(LabelBefore(requested, WildcardSuffix(pattern)), ".")

HostAllows(pattern, requested) ==
  \/ pattern = requested
  \/ LET suffix == WildcardSuffix(pattern)
         label == LabelBefore(requested, suffix)
     IN /\ IsWildcard(pattern)
        /\ IsSuffix(suffix, requested)
        /\ label # <<>> /\ ~Contains(label, ".")

-----------------------------------------------------------------------------
(* The handler of /check.                                                  *)

Ask(a) ==
  /\ stage[a] = "idle"
  /\ \E d \in Domains :
       /\ domain' = [domain EXCEPT ![a] = d]
       /\ IF d = <<>>
            THEN verdict' = [verdict EXCEPT ![a] = "error"] /\ UNCHANGED stage
            ELSE /\ verdict' = [verdict EXCEPT ![a] = "none"]
                 /\ stage' = [stage EXCEPT ![a] = "fetch"]
  /\ hosts' = [hosts EXCEPT ![a] = {}]
  /\ known' = [known EXCEPT ![a] = Config]
  /\ always' = [always EXCEPT ![a] = Config]
  /\ UNCHANGED <<caddyVars, changes>>

\* Slip: an empty host matcher is kept.
HostsOf_KeepEmpty(config) == {Normalised(h) : h \in config}

HostsOf(config) == {Normalised(h) : h \in config} \ {<<>>}

\* fetchHosts.  A Caddy that answers before it has loaded its Caddyfile shows no
\* host.
Fetch(a) ==
  /\ stage[a] = "fetch"
  /\ hosts' = [hosts EXCEPT ![a] = HostsOf(Config)]
  /\ stage' = [stage EXCEPT ![a] = "decide"]
  /\ UNCHANGED <<caddyVars, domain, verdict, known, always, changes>>

\* The request for the configuration fails: 500, which Caddy takes for a no.
FetchFails(a) ==
  /\ stage[a] = "fetch"
  /\ verdict' = [verdict EXCEPT ![a] = "error"]
  /\ stage' = [stage EXCEPT ![a] = "idle"]
  /\ UNCHANGED <<caddyVars, domain, hosts, known, always, changes>>

Decide(a) ==
  /\ stage[a] = "decide"
  /\ verdict' = [verdict EXCEPT ![a] =
       IF \E p \in hosts[a] : HostAllows(p, Normalised(domain[a])) THEN "allow" ELSE "deny"]
  /\ stage' = [stage EXCEPT ![a] = "idle"]
  /\ UNCHANGED <<caddyVars, domain, hosts, known, always, changes>>

-----------------------------------------------------------------------------
(* The relay's and Caddy's changes to the configuration.                   *)

Change ==
  /\ changes < MaxChanges
  /\ changes' = changes + 1
  /\ known' = [a \in Askers |-> IF stage[a] = "idle" THEN known[a] ELSE known[a] \cup Config']
  /\ always' = [a \in Askers |-> IF stage[a] = "idle" THEN always[a] ELSE always[a] \cap Config']
  /\ UNCHANGED askVars

AddRoute ==
  /\ loaded
  /\ \E f \in Forwards \ forwards : forwards' = forwards \cup {f}
  /\ UNCHANGED <<loaded, catchAll>>
  /\ Change

RemoveRoute ==
  /\ \E f \in forwards : forwards' = forwards \ {f}
  /\ UNCHANGED <<loaded, catchAll>>
  /\ Change

MoveCatchAll ==
  /\ loaded
  /\ catchAll' = ~catchAll
  /\ UNCHANGED <<loaded, forwards>>
  /\ Change

Restart ==
  /\ loaded
  /\ loaded' = FALSE /\ forwards' = {} /\ catchAll' = FALSE
  /\ Change

Load ==
  /\ ~loaded
  /\ loaded' = TRUE
  /\ UNCHANGED <<forwards, catchAll>>
  /\ Change

-----------------------------------------------------------------------------
GateNext ==
  \/ \E a \in Askers : Ask(a) \/ Fetch(a) \/ FetchFails(a) \/ Decide(a)
  \/ AddRoute \/ RemoveRoute \/ MoveCatchAll \/ Restart \/ Load

GateSpec == GateInit /\ [][GateNext]_gateVars

-----------------------------------------------------------------------------
(* Properties.  They go by labels, as a certificate does, not by strings.   *)

\* Where the first label ends and the others begin.
FirstDots(s) == {i \in 1..Len(s) : s[i] = "." /\ \A j \in 1..(i - 1) : s[j] # "."}

FirstLabel(s, dot) == SubSeq(s, 1, dot - 1)
OtherLabels(s, dot) == SubSeq(s, dot + 1, Len(s))

\* "*" stands for one whole label, in front of others.
CoversLabel(m, n) ==
  \E i \in FirstDots(m), j \in FirstDots(n) :
    /\ FirstLabel(m, i) = <<"*">> /\ FirstLabel(n, j) # <<>>
    /\ OtherLabels(m, i) = OtherLabels(n, j)

\* A matcher covers a name label by label, in either case.
Covers(matcher, name) ==
  LET m == [i \in DOMAIN matcher |-> Lower[matcher[i]]]
      n == [i \in DOMAIN name |-> Lower[name[i]]]
  IN  m = n \/ CoversLabel(m, n)

\* A certificate is allowed only for a name that some host matcher covered
\* while the question was open.
AllowedWasRouted ==
  \A a \in Askers : verdict[a] = "allow" => \E m \in known[a] : Covers(m, domain[a])

\* A name whose route was there all the while is not turned down, however its
\* owner spells it.
DeniedWasUnrouted ==
  \A a \in Askers : verdict[a] = "deny" => \A m \in always[a] \ {<<>>} : ~Covers(m, domain[a])
=============================================================================
