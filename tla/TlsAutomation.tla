--------------------------- MODULE TlsAutomation ---------------------------
(***************************************************************************)
(* The TLS half of the base configuration the relay keeps in Caddy: the     *)
(* wildcard's automation policy, the list of names whose certificates Caddy *)
(* is to manage, and srv0's idle timeout (ensureSrv0Exists and what it      *)
(* calls, triggerCertIssuance).                                            *)
(*                                                                         *)
(* Both arrays are written whole: GET, change the copy, then PUT if the GET *)
(* found nothing and PATCH if it found something.  Sessions and the         *)
(* reconcile loop do this against each other; each request is one step.     *)
(***************************************************************************)
EXTENDS Naturals

CONSTANTS
  Sessions, Reconciler,
  Names, Wildcard,    \* names to manage; the shared "*.<endpoint>" among them
  ChildOf,            \* [Sessions -> Names]: "*.svc--user", or Wildcard for a
                      \* normal service, which needs no name of its own
  StaticPolicies, OurPolicy,
  Absent,             \* no value at that path of the configuration
  CaddyfilePolicies, CaddyfileNames,   \* what the Caddyfile's own TLS app has
  MaxFaults, MaxRestarts

Actors == Sessions \cup {Reconciler}
Policies == StaticPolicies \cup {OurPolicy}

ASSUME TlsAssumption ==
  /\ Reconciler \notin Sessions
  /\ Wildcard \in Names
  /\ ChildOf \in [Sessions -> Names]
  /\ OurPolicy \notin StaticPolicies
  /\ CaddyfilePolicies \in (SUBSET StaticPolicies) \cup {Absent}
  /\ CaddyfileNames \in (SUBSET Names) \cup {Absent}
  /\ \A v \in (SUBSET Names) \cup SUBSET Policies : v # Absent
  /\ MaxFaults \in Nat /\ MaxRestarts \in Nat

VARIABLES
  caddy,          \* "down", "booting" (the API answers, no Caddyfile yet), "running"
  policies,       \* apps/tls/automation/policies, as a set, or Absent
  automate,       \* apps/tls/certificates/automate, as a set, or Absent
  idle,           \* srv0's idle_timeout is something other than disabled
  pc,
  want,           \* per actor: the name triggerCertIssuance was called for
  seen,           \* per actor: what the last GET of an array found, or Absent
  faults, restarts

configVars == <<policies, automate, idle>>
vars == <<caddy, configVars, pc, want, seen, faults, restarts>>

TypeOK ==
  /\ caddy \in {"down", "booting", "running"}
  /\ policies \in (SUBSET Policies) \cup {Absent}
  /\ automate \in (SUBSET Names) \cup {Absent}
  /\ idle \in BOOLEAN
  /\ pc \in [Actors -> {"idle", "patchIdle", "hasPolicy", "readPolicies", "writePolicies",
                        "readNames", "writeNames", "done", "failed"}]
  /\ want \in [Actors -> Names]
  /\ seen \in [Actors -> (SUBSET Policies) \cup (SUBSET Names) \cup {Absent}]
  /\ faults \in 0..MaxFaults
  /\ restarts \in 0..MaxRestarts

Init ==
  /\ caddy = "running"
  /\ policies = CaddyfilePolicies
  /\ automate = CaddyfileNames
  /\ idle \in BOOLEAN
  /\ pc = [a \in Actors |-> "idle"]
  /\ want = [a \in Actors |-> Wildcard]
  /\ seen = [a \in Actors |-> Absent]
  /\ faults = 0
  /\ restarts = 0

AsSet(v) == IF v = Absent THEN {} ELSE v

Goto(a, place) == pc' = [pc EXCEPT ![a] = place]

(* A request: it fails with Caddy down, is carried out and answered         *)
(* otherwise, except that a bounded number is lost, before or after Caddy   *)
(* has acted (or because the caller's context ended).                      *)
Request(applied, answered) ==
  IF caddy = "down"
    THEN ~applied /\ ~answered /\ UNCHANGED faults
    ELSE \/ applied /\ answered /\ UNCHANGED faults
         \/ ~answered /\ faults < MaxFaults /\ faults' = faults + 1

\* The end of a caller: a session's configureNewForward, or a tick.
Finish(a, outcome) == Goto(a, IF a = Reconciler THEN "idle" ELSE outcome)

-----------------------------------------------------------------------------
\* ensureSrv0Exists has found srv0, with an idle_timeout to turn off or not.
Begin(a) ==
  /\ pc[a] = "idle" /\ caddy = "running"
  /\ want' = [want EXCEPT ![a] = Wildcard]
  /\ Goto(a, IF idle THEN "patchIdle" ELSE "hasPolicy")
  /\ UNCHANGED <<caddy, configVars, seen, faults, restarts>>

\* ensureSrv0Exists has waited in vain and makes an srv0, with the idle timeout
\* off; Caddy never applies its Caddyfile then.
CreateSrv0(a) ==
  /\ pc[a] = "idle" /\ caddy = "booting"
  /\ caddy' = "running"
  /\ idle' = FALSE
  /\ want' = [want EXCEPT ![a] = Wildcard]
  /\ Goto(a, "hasPolicy")
  /\ UNCHANGED <<policies, automate, seen, faults, restarts>>

\* patchSrv0IdleTimeout, whose failures are logged only.
PatchIdle(a) ==
  /\ pc[a] = "patchIdle"
  /\ \E applied, answered \in BOOLEAN :
       /\ Request(applied, answered)
       /\ idle' = (idle /\ ~applied)
  /\ Goto(a, "hasPolicy")
  /\ UNCHANGED <<caddy, policies, automate, want, seen, restarts>>

\* Slips: with the policy in place there is nothing left to do; the policy is
\* written again all the same.
AfterPolicyFound_Return(a) == Finish(a, "done")
AfterPolicyFound_Rewrite(a) == Goto(a, "readPolicies")

AfterPolicyFound(a) == Goto(a, "readNames")

\* ensureWildcardTLSPolicy: idExists, which takes a failure for "missing".
HasPolicy(a) ==
  /\ pc[a] = "hasPolicy"
  /\ \E applied, answered \in BOOLEAN :
       /\ Request(applied, answered)
       /\ IF answered /\ OurPolicy \in AsSet(policies)
            THEN AfterPolicyFound(a)
            ELSE Goto(a, "readPolicies")
  /\ UNCHANGED <<caddy, configVars, want, seen, restarts>>

\* The GET of an array whose value is v; a failure reads as Absent.
Read(a, v, next) ==
  /\ \E applied, answered \in BOOLEAN :
       /\ Request(applied, answered)
       /\ seen' = [seen EXCEPT ![a] = IF answered THEN v ELSE Absent]
  /\ Goto(a, next)

\* Slip: an array is written whether or not the GET found it.
Accepted_Blind(v, a) == TRUE

\* PATCH needs a value at the path, PUT needs that there is none.
Accepted(v, a) == (seen[a] # Absent) = (v # Absent)

\* upsertAutomationPolicy.
ReadPolicies(a) ==
  /\ pc[a] = "readPolicies"
  /\ Read(a, policies, "writePolicies")
  /\ UNCHANGED <<caddy, configVars, want, restarts>>

WritePolicies(a) ==
  /\ pc[a] = "writePolicies"
  /\ \E applied, answered \in BOOLEAN :
       /\ Request(applied, answered)
       /\ policies' = IF applied /\ Accepted(policies, a)
                        THEN AsSet(seen[a]) \cup {OurPolicy} ELSE policies
       /\ IF answered /\ Accepted(policies, a) THEN Goto(a, "readNames")
                                              ELSE Finish(a, "failed")
  /\ UNCHANGED <<caddy, automate, idle, want, seen, restarts>>

\* Slip: the other array's path.
NameArray_Policies == policies

NameArray == automate

\* triggerCertIssuance(want[a]).
ReadNames(a) ==
  /\ pc[a] = "readNames"
  /\ Read(a, NameArray, "writeNames")
  /\ UNCHANGED <<caddy, configVars, want, restarts>>

\* What follows it: a session registers its child wildcard, if it has one.
AfterTrigger(a) ==
  IF a # Reconciler /\ want[a] = Wildcard /\ ChildOf[a] # Wildcard
    THEN Goto(a, "readNames") /\ want' = [want EXCEPT ![a] = ChildOf[a]]
    ELSE Finish(a, "done") /\ UNCHANGED want

Listed(a) == want[a] \in AsSet(seen[a])

WriteNames(a) ==
  /\ pc[a] = "writeNames"
  /\ \/ Listed(a) /\ UNCHANGED <<automate, faults>>
     \/ /\ ~Listed(a)
        /\ \E applied, answered \in BOOLEAN :
             /\ Request(applied, answered)
             /\ automate' = IF applied /\ Accepted(automate, a)
                              THEN AsSet(seen[a]) \cup {want[a]} ELSE automate
  /\ AfterTrigger(a)
  /\ UNCHANGED <<caddy, policies, idle, seen, restarts>>

Step(a) ==
  \/ PatchIdle(a) \/ HasPolicy(a) \/ ReadPolicies(a) \/ WritePolicies(a)
  \/ ReadNames(a) \/ WriteNames(a)

-----------------------------------------------------------------------------
(* Caddy (external).                                                       *)

CaddyStop ==
  /\ caddy # "down" /\ restarts < MaxRestarts
  /\ caddy' = "down"
  /\ policies' = Absent /\ automate' = Absent /\ idle' = FALSE
  /\ restarts' = restarts + 1
  /\ UNCHANGED <<pc, want, seen, faults>>

CaddyStart ==
  /\ caddy = "down"
  /\ caddy' = "booting"
  /\ UNCHANGED <<configVars, pc, want, seen, faults, restarts>>

CaddyLoad ==
  /\ caddy = "booting"
  /\ caddy' = "running"
  /\ policies' = CaddyfilePolicies /\ automate' = CaddyfileNames /\ idle' \in BOOLEAN
  /\ UNCHANGED <<pc, want, seen, faults, restarts>>

-----------------------------------------------------------------------------
Next ==
  \/ \E a \in Actors : Begin(a) \/ CreateSrv0(a) \/ Step(a)
  \/ CaddyStop \/ CaddyStart \/ CaddyLoad

Spec == Init /\ [][Next]_vars

(* Requests return, the ticker fires, Caddy comes back.  A session need not  *)
(* ask for anything.                                                       *)
FairSpec ==
  /\ Spec
  /\ \A a \in Actors : WF_vars(Step(a))
  /\ WF_vars(Begin(Reconciler))
  /\ WF_vars(CaddyStart) /\ WF_vars(CaddyLoad)

-----------------------------------------------------------------------------
(* Properties.                                                             *)

\* The policies Caddy has of its own survive every rewrite of the array,
\* however the writers interleave and whichever answers are lost.  (A restart
\* ends that: writers may still hold copies read from the process before it.)
PoliciesKept ==
  [][restarts' = 0 => AsSet(policies) \subseteq AsSet(policies')]_vars

\* The wildcard is managed for good once Caddy stays up: a tick finds it
\* missing and puts it back, policy present or not.
WildcardStaysManaged == <>[](Wildcard \in AsSet(automate) /\ OurPolicy \in AsSet(policies))

\* Ticks end up reading only, as each write would reload Caddy and cancel its
\* ACME orders: no race of writers goes on for ever undoing each other's work.
SteadyTicksReadOnly ==
  <>[]\A a \in Actors :
        /\ pc[a] \notin {"patchIdle", "writePolicies"}
        /\ pc[a] = "writeNames" => want[a] \in AsSet(seen[a])
=============================================================================
