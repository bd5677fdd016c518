-------------------------- MODULE CertificateProofs --------------------------
(***************************************************************************)
(* The two modules about certificates, for any number of actors.           *)
(*                                                                         *)
(* TlsAutomation: its type invariant, and that no race of writers drops a  *)
(* policy Caddy has of its own.                                            *)
(*                                                                         *)
(* CertGate: its type invariant, and that each answer of the gate agrees    *)
(* with the matchers that were in the configuration while it was asked,    *)
(* whatever the alphabet, the names and the matchers.                      *)
(***************************************************************************)
EXTENDS CertGate, TlsAutomation, TLAPS

-----------------------------------------------------------------------------
(* TlsAutomation.                                                          *)

\* Both arrays share the per-actor copy: what it holds goes by the place.
CopyOK ==
  \A a \in Actors :
    /\ pc[a] = "writePolicies" => seen[a] \in (SUBSET Policies) \cup {Absent}
    /\ pc[a] = "writeNames" => seen[a] \in (SUBSET Names) \cup {Absent}

\* Until the first restart the relay's own policy is all that ever comes into the
\* array, so that a copy, however old, lacks at most that one.
CopyFresh(a) ==
  seen[a] # Absent =>
    /\ policies # Absent
    /\ seen[a] \subseteq policies
    /\ policies \subseteq seen[a] \cup {OurPolicy}

CopiesFresh ==
  restarts = 0 =>
    /\ caddy = "running"
    /\ \A a \in Actors : pc[a] = "writePolicies" => CopyFresh(a)

TlsInv == TypeOK /\ CopyOK /\ CopiesFresh

LEMMA TlsInit == Init => TlsInv
  BY TlsAssumption DEF Init, TlsInv, TypeOK, CopyOK, CopiesFresh, CopyFresh, Policies, Actors

\* The only step that writes the policies of a Caddy that stays up adds to them,
\* and adds nothing but the relay's own.
LEMMA WriteAdds ==
  ASSUME NEW a \in Actors, TlsInv, WritePolicies(a), restarts = 0
  PROVE  /\ AsSet(policies) \subseteq AsSet(policies')
         /\ AsSet(policies') \subseteq AsSet(policies) \cup {OurPolicy}
         /\ policies # Absent => policies' # Absent
<1>1. seen[a] \in (SUBSET Policies) \cup {Absent} /\ (pc[a] = "writePolicies" => CopyFresh(a))
  BY DEF TlsInv, CopyOK, CopiesFresh, WritePolicies
<1>2. CASE policies' = policies
  BY <1>2
<1>3. CASE Accepted(policies, a) /\ policies' = AsSet(seen[a]) \cup {OurPolicy}
  <2>1. policies' \in SUBSET Policies
    BY <1>1, <1>3 DEF AsSet, Policies
  <2>2. policies' # Absent
    BY <2>1, TlsAssumption
  <2> QED
    BY <1>1, <1>3, <2>2 DEF Accepted, AsSet, CopyFresh, WritePolicies
<1> QED
  BY <1>2, <1>3 DEF WritePolicies

LEMMA TlsStep == TlsInv /\ [Next]_vars => TlsInv'
<1> SUFFICES ASSUME TlsInv, [Next]_vars PROVE TlsInv'
  OBVIOUS
<1> USE TlsAssumption DEF TlsInv
<1>1. ASSUME NEW a \in Actors, Begin(a) PROVE TlsInv'
  BY <1>1 DEF Begin, Goto, configVars, TypeOK, CopyOK, CopiesFresh, CopyFresh
<1>2. ASSUME NEW a \in Actors, CreateSrv0(a) PROVE TlsInv'
  BY <1>2 DEF CreateSrv0, Goto, TypeOK, CopyOK, CopiesFresh, CopyFresh
<1>3. ASSUME NEW a \in Actors, PatchIdle(a) PROVE TlsInv'
  BY <1>3 DEF PatchIdle, Goto, Request, TypeOK, CopyOK, CopiesFresh, CopyFresh
<1>4. ASSUME NEW a \in Actors, HasPolicy(a) PROVE TlsInv'
  BY <1>4 DEF HasPolicy, AfterPolicyFound, Goto, Request, configVars, TypeOK, CopyOK, CopiesFresh, CopyFresh
<1>5. ASSUME NEW a \in Actors, ReadPolicies(a) PROVE TlsInv'
  BY <1>5 DEF ReadPolicies, Read, Goto, Request, configVars, TypeOK, CopyOK, CopiesFresh, CopyFresh
<1>6. ASSUME NEW a \in Actors, WritePolicies(a) PROVE TlsInv'
  <2>1. /\ UNCHANGED <<caddy, automate, idle, want, seen, restarts>>
        /\ pc[a] = "writePolicies"
        /\ \E p \in {"readNames", "idle", "failed"} : pc' = [pc EXCEPT ![a] = p]
    BY <1>6 DEF WritePolicies, Finish, Goto
  <2>2. policies' \in (SUBSET Policies) \cup {Absent}
    BY <1>6, <2>1 DEF WritePolicies, AsSet, TypeOK, CopyOK, Policies
  <2>3. faults' \in 0..MaxFaults
    BY <1>6 DEF WritePolicies, Request, TypeOK
  <2>4. TypeOK' /\ CopyOK'
    BY <2>1, <2>2, <2>3 DEF TypeOK, CopyOK
  <2>5. ASSUME restarts = 0, NEW b \in Actors, pc'[b] = "writePolicies", seen[b] # Absent
        PROVE  /\ policies' # Absent
               /\ seen[b] \subseteq policies'
               /\ policies' \subseteq seen[b] \cup {OurPolicy}
    <3>1. CopyFresh(b)
      BY <2>1, <2>5 DEF TypeOK, CopiesFresh
    <3> QED
      BY <1>6, <2>5, <3>1, WriteAdds DEF CopyFresh, AsSet
  <2> QED
    BY <2>1, <2>4, <2>5 DEF CopiesFresh, CopyFresh
<1>7. ASSUME NEW a \in Actors, ReadNames(a) PROVE TlsInv'
  BY <1>7 DEF ReadNames, Read, NameArray, Goto, Request, configVars, TypeOK, CopyOK, CopiesFresh, CopyFresh
<1>8. ASSUME NEW a \in Actors, WriteNames(a) PROVE TlsInv'
  BY <1>8 DEF WriteNames, AfterTrigger, Listed, Finish, Goto, Request, AsSet, Accepted, TypeOK, CopyOK, CopiesFresh, CopyFresh, Actors
<1>9. CASE CaddyStop
  <2>1. restarts' \in 0..MaxRestarts /\ restarts' # 0
    BY <1>9 DEF CaddyStop, TypeOK
  <2>2. TypeOK' /\ CopyOK'
    BY <1>9, <2>1 DEF CaddyStop, TypeOK, CopyOK
  <2> QED
    BY <2>1, <2>2 DEF CopiesFresh
<1>10. CASE CaddyStart
  BY <1>10 DEF CaddyStart, configVars, TypeOK, CopyOK, CopiesFresh, CopyFresh
<1>11. CASE CaddyLoad
  BY <1>11 DEF CaddyLoad, TypeOK, CopyOK, CopiesFresh, CopyFresh, Policies
<1>12. CASE UNCHANGED vars
  BY <1>12 DEF vars, configVars, TypeOK, CopyOK, CopiesFresh, CopyFresh
<1> QED
  BY <1>1, <1>2, <1>3, <1>4, <1>5, <1>6, <1>7, <1>8, <1>9, <1>10, <1>11, <1>12 DEF Next, Step

-----------------------------------------------------------------------------
\* Configuration arrays, copies and places keep their types, whoever writes what
\* when and whichever requests are lost.
THEOREM TlsTypeOK == Spec => []TypeOK
  BY TlsInit, TlsStep, PTL DEF Spec, TlsInv

LEMMA TlsPoliciesStep == TlsInv /\ [Next]_vars => [restarts' = 0 => AsSet(policies) \subseteq AsSet(policies')]_vars
<1> SUFFICES ASSUME TlsInv, Next, restarts' = 0
             PROVE  AsSet(policies) \subseteq AsSet(policies')
  BY DEF vars, configVars
<1>1. ASSUME NEW a \in Actors, WritePolicies(a) PROVE AsSet(policies) \subseteq AsSet(policies')
  BY <1>1, WriteAdds DEF WritePolicies
<1>2. CASE CaddyStop
  BY <1>2 DEF CaddyStop, TlsInv, TypeOK
<1>3. CASE CaddyLoad
  BY <1>3 DEF CaddyLoad, TlsInv, CopiesFresh
<1>4. ASSUME policies' = policies PROVE AsSet(policies) \subseteq AsSet(policies')
  BY <1>4
<1> QED
  BY <1>1, <1>2, <1>3, <1>4 DEF Next, Step, Begin, CreateSrv0, PatchIdle, HasPolicy, ReadPolicies,
     ReadNames, WriteNames, CaddyStart, configVars

\* However many sessions and ticks interleave their read-modify-writes, and
\* whatever is lost, Caddy's own policies stay until its first restart.
THEOREM TlsPoliciesKept == Spec => PoliciesKept
  BY TlsInit, TlsStep, TlsPoliciesStep, PTL DEF Spec, PoliciesKept

-----------------------------------------------------------------------------
(* CertGate: hostAllows compares strings as certificates compare labels.   *)

\* The characters the names are made of.
Chars == DOMAIN Lower

\* The library compares the reversals; place by place it is this.
LEMMA SuffixIs ==
  ASSUME NEW C, NEW s \in Seq(C), NEW t \in Seq(C)
  PROVE  IsSuffix(s, t) <=>
           /\ Len(s) <= Len(t)
           /\ \A k \in 1..Len(s) : s[k] = t[Len(t) - Len(s) + k]
<1> DEFINE n == Len(s)
           l == Len(t)
<1>1. n \in Nat /\ l \in Nat /\ s \in [1..n -> C] /\ t \in [1..l -> C]
  OBVIOUS
<1>2. /\ Reverse(s) \in Seq(C) /\ Len(Reverse(s)) = n
      /\ \A k \in 1..n : Reverse(s)[k] = s[n - k + 1]
  BY DEF Reverse
<1>3. /\ Reverse(t) \in Seq(C) /\ Len(Reverse(t)) = l
      /\ \A k \in 1..l : Reverse(t)[k] = t[l - k + 1]
  BY DEF Reverse
<1> HIDE DEF n, l
<1>4. IsSuffix(s, t) <=> n <= l /\ SubSeq(Reverse(s), 1, n) = SubSeq(Reverse(t), 1, n)
  BY <1>2, <1>3 DEF IsSuffix, IsPrefix
<1>5. ASSUME n <= l
      PROVE  SubSeq(Reverse(s), 1, n) = SubSeq(Reverse(t), 1, n) <=>
               \A k \in 1..n : s[n - k + 1] = t[l - k + 1]
  <2>1. /\ SubSeq(Reverse(s), 1, n) = [k \in 1..n |-> Reverse(s)[k]]
        /\ SubSeq(Reverse(t), 1, n) = [k \in 1..n |-> Reverse(t)[k]]
    BY <1>1, <1>2, <1>3, <1>5
  <2>2. \A k \in 1..n : k \in 1..l
    BY <1>1, <1>5
  <2>3. \A k \in 1..n : Reverse(s)[k] = s[n - k + 1] /\ Reverse(t)[k] = t[l - k + 1]
    BY <1>2, <1>3, <2>2
  <2>4. SubSeq(Reverse(s), 1, n) = SubSeq(Reverse(t), 1, n) <=>
          \A k \in 1..n : Reverse(s)[k] = Reverse(t)[k]
    BY <2>1
  <2>5. (\A k \in 1..n : Reverse(s)[k] = Reverse(t)[k]) <=>
          \A k \in 1..n : s[n - k + 1] = t[l - k + 1]
    <3>1. ASSUME NEW k \in 1..n
          PROVE  Reverse(s)[k] = Reverse(t)[k] <=> s[n - k + 1] = t[l - k + 1]
      <4>1. Reverse(s)[k] = s[n - k + 1] /\ Reverse(t)[k] = t[l - k + 1]
        BY <2>3
      <4> QED  BY <4>1
    <3> QED  BY <3>1, Zenon
  <2> QED  BY <2>4, <2>5
<1>6. (\A k \in 1..n : s[n - k + 1] = t[l - k + 1]) <=> (\A k \in 1..n : s[k] = t[l - n + k])
  <2>1. ASSUME \A k \in 1..n : s[n - k + 1] = t[l - k + 1], NEW k \in 1..n
        PROVE  s[k] = t[l - n + k]
    <3>1. n - k + 1 \in 1..n /\ n - (n - k + 1) + 1 = k /\ l - (n - k + 1) + 1 = l - n + k
      BY <1>1
    <3>2. s[n - (n - k + 1) + 1] = t[l - (n - k + 1) + 1]
      BY <2>1, <3>1
    <3> QED  BY <3>1, <3>2
  <2>2. ASSUME \A k \in 1..n : s[k] = t[l - n + k], NEW k \in 1..n
        PROVE  s[n - k + 1] = t[l - k + 1]
    <3>1. n - k + 1 \in 1..n /\ l - n + (n - k + 1) = l - k + 1
      BY <1>1
    <3>2. s[n - k + 1] = t[l - n + (n - k + 1)]
      BY <2>2, <3>1
    <3> QED  BY <3>1, <3>2
  <2> QED  BY <2>1, <2>2
<1> QED  BY <1>4, <1>5, <1>6 DEF n, l

\* A wildcard is a star, a dot and the rest, to both.
LEMMA WildcardIs ==
  ASSUME NEW C, NEW p \in Seq(C), NEW i \in FirstDots(p), FirstLabel(p, i) = <<"*">>
  PROVE  i = 2 /\ Len(p) >= 2 /\ p[1] = "*" /\ p[2] = "."
<1>1. i \in 1..Len(p) /\ p[i] = "." /\ Len(p) \in Nat
  BY DEF FirstDots
<1>2. Len(SubSeq(p, 1, i - 1)) = i - 1
  BY <1>1
<1>3. i - 1 = 1
  BY <1>1, <1>2 DEF FirstLabel
<1>4. SubSeq(p, 1, 1)[1] = p[1]
  BY <1>1, <1>3
<1>5. p[1] = "*"
  <2>1. SubSeq(p, 1, 1) = <<"*">>
    BY <1>3 DEF FirstLabel
  <2>2. <<"*">>[1] = "*"
    OBVIOUS
  <2> QED  BY <1>4, <2>1, <2>2, Zenon
<1> QED  BY <1>1, <1>3, <1>5

LEMMA WildcardDot ==
  ASSUME NEW C, NEW p \in Seq(C)
  PROVE  IsWildcard(p) <=> Len(p) >= 2 /\ p[1] = "*" /\ p[2] = "."
<1> DEFINE w == <<"*", ".">>
<1>1. Len(w) = 2 /\ w[1] = "*" /\ w[2] = "." /\ w \in Seq({"*", "."})
  OBVIOUS
<1>2. Len(p) \in Nat /\ Len(w) <= Len(w)
  BY <1>1
<1> HIDE DEF w
<1>3. SubSeq(w, 1, 2) = [k \in 1..2 |-> w[k]]
  BY <1>1
<1>4. Len(p) >= 2 => SubSeq(p, 1, 2) = [k \in 1..2 |-> p[k]]
  BY <1>2
<1>5. IsWildcard(p) <=> 2 <= Len(p) /\ SubSeq(w, 1, 2) = SubSeq(p, 1, 2)
  BY <1>1 DEF IsWildcard, IsPrefix, w
<1>6. 1 \in 1..2 /\ 2 \in 1..2 /\ \A k \in 1..2 : k = 1 \/ k = 2
  OBVIOUS
<1>7. [k \in 1..2 |-> w[k]] = [k \in 1..2 |-> p[k]] <=> w[1] = p[1] /\ w[2] = p[2]
  BY <1>6, Zenon
<1> QED  BY <1>1, <1>2, <1>3, <1>4, <1>5, <1>7

\* A matcher that is not the name itself allows it when it is a star in the place
\* of the name's first label, and the other labels are the same.
LEMMA AllowsIsCovers ==
  ASSUME NEW C, NEW p \in Seq(C), NEW q \in Seq(C)
  PROVE  HostAllows(p, q) <=> p = q \/ CoversLabel(p, q)
<1> DEFINE suffix == SubSeq(p, 2, Len(p))
           n == Len(suffix)
           l == Len(q)
           label == SubSeq(q, 1, l - n)
<1>1. HostAllows(p, q) <=>
        \/ p = q
        \/ /\ IsWildcard(p) /\ IsSuffix(suffix, q)
           /\ label # <<>> /\ ~Contains(label, ".")
  BY DEF HostAllows, WildcardSuffix, LabelBefore, Slice
<1>2. l \in Nat /\ Len(p) \in Nat
  OBVIOUS
<1>3. ASSUME Len(p) >= 2
      PROVE  /\ suffix \in Seq(C) /\ n = Len(p) - 1 /\ n \in Nat
             /\ \A k \in 1..n : suffix[k] = p[k + 1]
  BY <1>2, <1>3
<1> HIDE DEF suffix, n, l
<1>4. ASSUME IsWildcard(p), IsSuffix(suffix, q), label # <<>>, ~Contains(label, ".")
      PROVE  CoversLabel(p, q)
  <2>1. Len(p) >= 2 /\ p[1] = "*" /\ p[2] = "."
    BY <1>4, WildcardDot
  <2>2. n <= l /\ \A k \in 1..n : suffix[k] = q[l - n + k]
    BY <1>3, <1>4, <2>1, SuffixIs DEF n, l
  <2> DEFINE j == l - n + 1
  <2>3. n \in Nat /\ n >= 1 /\ j \in 1..l /\ j - 1 = l - n
    BY <1>2, <1>3, <2>1, <2>2
  <2>4. Len(label) = j - 1 /\ \A k \in 1..(j - 1) : label[k] = q[k]
    BY <1>2, <2>3 DEF l
  <2>5. q[j] = "."
    <3>1. suffix[1] = p[2] /\ suffix[1] = q[l - n + 1]
      BY <1>3, <2>1, <2>2, <2>3
    <3> QED  BY <2>1, <3>1
  <2>6. \A k \in 1..(j - 1) : q[k] # "."
    BY <1>4, <2>4 DEF Contains
  <2>7. j \in FirstDots(q)
    BY <2>3, <2>5, <2>6 DEF FirstDots, l
  <2>8. 2 \in FirstDots(p)
    BY <1>2, <2>1 DEF FirstDots
  <2>9. FirstLabel(p, 2) = <<"*">>
    <3>1. SubSeq(p, 1, 1) = [k \in 1..1 |-> p[k]]
      BY <1>2, <2>1
    <3>2. [k \in 1..1 |-> p[k]] = [k \in 1..1 |-> "*"]
      BY <2>1
    <3>3. [k \in 1..1 |-> "*"] = <<"*">>
      OBVIOUS
    <3>4. FirstLabel(p, 2) = SubSeq(p, 1, 1)
      BY DEF FirstLabel
    <3> QED  BY <3>1, <3>2, <3>3, <3>4
  <2>10. FirstLabel(q, j) # <<>>
    BY <1>4, <2>3 DEF FirstLabel
  <2>11. OtherLabels(p, 2) = OtherLabels(q, j)
    <3> HIDE DEF j
    <3>1. OtherLabels(p, 2) = [k \in 1..(n - 1) |-> p[k + 2]]
      BY <1>2, <1>3, <2>1, <2>3 DEF OtherLabels
    <3>2. OtherLabels(q, j) = [k \in 1..(n - 1) |-> q[k + j]]
      BY <1>2, <2>3 DEF OtherLabels, l
    <3>3. ASSUME NEW k \in 1..(n - 1) PROVE p[k + 2] = q[k + j]
      <4>1. k + 1 \in 1..n /\ (k + 1) + 1 = k + 2 /\ l - n + (k + 1) = k + j
        BY <1>2, <2>3
      <4>2. suffix[k + 1] = p[(k + 1) + 1] /\ suffix[k + 1] = q[l - n + (k + 1)]
        BY <1>3, <2>1, <2>2, <4>1
      <4> QED  BY <4>1, <4>2
    <3> QED  BY <3>1, <3>2, <3>3
  <2> HIDE DEF j
  <2> QED  BY <2>7, <2>8, <2>9, <2>10, <2>11 DEF CoversLabel
<1>5. ASSUME CoversLabel(p, q)
      PROVE  IsWildcard(p) /\ IsSuffix(suffix, q) /\ label # <<>> /\ ~Contains(label, ".")
  <2>1. PICK i \in FirstDots(p), j \in FirstDots(q) :
          /\ FirstLabel(p, i) = <<"*">> /\ FirstLabel(q, j) # <<>>
          /\ OtherLabels(p, i) = OtherLabels(q, j)
    BY <1>5 DEF CoversLabel
  <2>2. i = 2 /\ Len(p) >= 2 /\ p[1] = "*" /\ p[2] = "."
    BY <2>1, WildcardIs
  <2>3. j \in 1..l /\ q[j] = "." /\ \A k \in 1..(j - 1) : q[k] # "."
    BY DEF FirstDots, l
  <2>4. /\ OtherLabels(p, 2) \in Seq(C) /\ Len(OtherLabels(p, 2)) = n - 1
        /\ \A k \in 1..(n - 1) : OtherLabels(p, 2)[k] = p[k + 2]
    <3>1. n = Len(p) - 1 /\ n - 1 = Len(p) - 2
      BY <1>2, <1>3, <2>2
    <3>2. OtherLabels(p, 2) = [k \in 1..(n - 1) |-> p[k + 2]]
      BY <1>2, <2>2, <3>1 DEF OtherLabels
    <3>3. OtherLabels(p, 2) \in Seq(C)
      BY <1>2, <2>2 DEF OtherLabels
    <3>4. Len(OtherLabels(p, 2)) = n - 1
      BY <1>2, <2>2, <3>1 DEF OtherLabels
    <3> QED  BY <3>2, <3>3, <3>4
  <2>5. /\ Len(OtherLabels(q, j)) = l - j
        /\ \A k \in 1..(l - j) : OtherLabels(q, j)[k] = q[k + j]
    BY <1>2, <2>3 DEF OtherLabels, l
  <2>6. n - 1 = l - j /\ n \in Nat /\ n <= l /\ j - 1 = l - n
    <3>1. n - 1 = l - j
      BY <2>1, <2>2, <2>4, <2>5
    <3>2. n \in Nat /\ n >= 1 /\ j \in Nat /\ j >= 1 /\ j <= l
      BY <1>2, <1>3, <2>2, <2>3
    <3> QED  BY <1>2, <3>1, <3>2
  <2>7. ASSUME NEW k \in 1..n PROVE suffix[k] = q[l - n + k]
    <3>1. suffix[k] = p[k + 1]
      BY <1>3, <2>2
    <3>2. CASE k = 1
      <4>1. l - n + k = j
        BY <1>2, <2>3, <2>6, <3>2
      <4> QED  BY <2>2, <2>3, <3>1, <3>2, <4>1
    <3>3. CASE k # 1
      <4>1. k - 1 \in 1..(n - 1) /\ k - 1 \in 1..(l - j) /\ (k - 1) + 2 = k + 1
            /\ (k - 1) + j = l - n + k
        BY <1>2, <2>3, <2>6, <3>3
      <4>2. p[(k - 1) + 2] = q[(k - 1) + j]
        BY <2>1, <2>2, <2>4, <2>5, <4>1
      <4> QED  BY <3>1, <4>1, <4>2
    <3> QED  BY <3>2, <3>3
  <2>8. IsSuffix(suffix, q)
    BY <1>3, <2>2, <2>6, <2>7, SuffixIs DEF n, l
  <2>9. label = FirstLabel(q, j)
    BY <2>6 DEF FirstLabel
  <2>10. Len(label) = j - 1 /\ \A k \in 1..(j - 1) : label[k] = q[k]
    BY <1>2, <2>3, <2>6 DEF l
  <2>11. ~Contains(label, ".")
    <3> HIDE DEF label
    <3> QED  BY <2>3, <2>10 DEF Contains
  <2> QED  BY <2>1, <2>2, <2>8, <2>9, <2>11, WildcardDot
<1> QED  BY <1>1, <1>4, <1>5

LEMMA NormalisedIs ==
  ASSUME NEW s \in Seq(Chars)
  PROVE  Normalised(s) \in Seq(Chars)
BY GateAssumption DEF Normalised, Chars

LEMMA NormalisedKeepsEmpty ==
  ASSUME NEW s \in Seq(Chars), s # <<>>
  PROVE  Normalised(s) # <<>>
<1>1. Len(s) \in Nat /\ Len(s) # 0 /\ DOMAIN s = 1..Len(s)
  OBVIOUS
<1>2. 1 \in DOMAIN s
  BY <1>1
<1>3. DOMAIN Normalised(s) = DOMAIN s
  BY DEF Normalised
<1>4. DOMAIN <<>> = {}
  OBVIOUS
<1> QED  BY <1>2, <1>3, <1>4

\* Case set aside, the gate's test is the label-by-label one.
LEMMA CoversIs ==
  ASSUME NEW matcher \in Seq(Chars), NEW name \in Seq(Chars)
  PROVE  HostAllows(Normalised(matcher), Normalised(name)) <=> Covers(matcher, name)
<1>1. Normalised(matcher) \in Seq(Chars) /\ Normalised(name) \in Seq(Chars)
  BY NormalisedIs
<1>2. Covers(matcher, name) <=>
        \/ Normalised(matcher) = Normalised(name)
        \/ CoversLabel(Normalised(matcher), Normalised(name))
  BY DEF Covers, Normalised
<1> QED  BY <1>1, <1>2, AllowsIsCovers

-----------------------------------------------------------------------------
(* What a question knows of the configuration.                             *)

\* While it is open, the configuration is among what it has known, and what was
\* there always is in the configuration.
OpenOK ==
  \A a \in Askers : stage[a] # "idle" =>
    /\ verdict[a] = "none"
    /\ Config \subseteq known[a] /\ always[a] \subseteq Config

\* The answer of Caddy, however old, lies between the two.
AnswerOK ==
  \A a \in Askers : stage[a] = "decide" =>
    /\ hosts[a] \subseteq HostsOf(known[a])
    /\ HostsOf(always[a]) \subseteq hosts[a]

HistoryOK ==
  /\ known \in [Askers -> SUBSET Matchers]
  /\ always \in [Askers -> SUBSET Matchers]

GateInv ==
  GateTypeOK /\ HistoryOK /\ OpenOK /\ AnswerOK /\ AllowedWasRouted /\ DeniedWasUnrouted

LEMMA HostsGrow ==
  ASSUME NEW S, NEW T, S \subseteq T
  PROVE  HostsOf(S) \subseteq HostsOf(T)
BY DEF HostsOf

LEMMA ConfigIs == GateTypeOK => Config \in SUBSET Matchers
  BY DEF GateTypeOK, Config, Matchers

LEMMA GateInits == GateInit => GateInv
<1> SUFFICES ASSUME GateInit PROVE GateInv
  OBVIOUS
<1> USE DEF GateInit
<1>1. GateTypeOK
  BY GateAssumption DEF GateTypeOK
<1>2. HistoryOK
  BY DEF HistoryOK
<1>3. OpenOK /\ AnswerOK
  BY DEF OpenOK, AnswerOK
<1>4. AllowedWasRouted /\ DeniedWasUnrouted
  BY DEF AllowedWasRouted, DeniedWasUnrouted
<1> QED  BY <1>1, <1>2, <1>3, <1>4 DEF GateInv

\* One step of the handler is about one question.
LEMMA GateAsk ==
  ASSUME GateInv, NEW a \in Askers, Ask(a)
  PROVE  GateInv'
<1> USE DEF GateInv
<1>1. PICK d \in Domains :
        /\ domain' = [domain EXCEPT ![a] = d]
        /\ \/ verdict' = [verdict EXCEPT ![a] = "error"] /\ stage' = stage
           \/ verdict' = [verdict EXCEPT ![a] = "none"] /\ stage' = [stage EXCEPT ![a] = "fetch"]
  BY DEF Ask
<1>2. /\ stage[a] = "idle"
      /\ hosts' = [hosts EXCEPT ![a] = {}]
      /\ known' = [known EXCEPT ![a] = Config]
      /\ always' = [always EXCEPT ![a] = Config]
      /\ UNCHANGED <<loaded, forwards, catchAll, changes>>
  BY DEF Ask, caddyVars
<1>3. Config' = Config
  BY <1>2 DEF Config
<1>4. GateTypeOK'
  <2>1. hosts' \in [Askers -> SUBSET ({Normalised(h) : h \in Matchers} \ {<<>>})]
    BY <1>2 DEF GateTypeOK
  <2> QED  BY <1>1, <1>2, <2>1 DEF GateTypeOK
<1>5. HistoryOK'
  BY <1>2, ConfigIs DEF HistoryOK
<1>6. OpenOK'
  BY <1>1, <1>2, <1>3 DEF OpenOK, GateTypeOK, HistoryOK
<1>7. AnswerOK'
  <2>1. \A b \in Askers : stage'[b] = "decide" =>
          b # a /\ stage[b] = "decide" /\ hosts'[b] = hosts[b] /\ known'[b] = known[b] /\ always'[b] = always[b]
    BY <1>1, <1>2 DEF GateTypeOK, HistoryOK
  <2> QED  BY <2>1 DEF AnswerOK, HostsOf
<1>8. AllowedWasRouted' /\ DeniedWasUnrouted'
  <2>1. \A b \in Askers : verdict'[b] \in {"allow", "deny"} =>
          b # a /\ verdict'[b] = verdict[b] /\ domain'[b] = domain[b] /\ known'[b] = known[b] /\ always'[b] = always[b]
    BY <1>1, <1>2 DEF GateTypeOK, HistoryOK
  <2> QED  BY <2>1 DEF AllowedWasRouted, DeniedWasUnrouted
<1> QED  BY <1>4, <1>5, <1>6, <1>7, <1>8

LEMMA GateFetch ==
  ASSUME GateInv, NEW a \in Askers, Fetch(a)
  PROVE  GateInv'
<1> USE DEF GateInv
<1>1. /\ stage[a] = "fetch"
      /\ hosts' = [hosts EXCEPT ![a] = HostsOf(Config)]
      /\ stage' = [stage EXCEPT ![a] = "decide"]
      /\ UNCHANGED <<loaded, forwards, catchAll, domain, verdict, known, always, changes>>
  BY DEF Fetch, caddyVars
<1>2. Config' = Config
  BY <1>1 DEF Config
<1>3. GateTypeOK'
  <2>1. HostsOf(Config) \subseteq {Normalised(h) : h \in Matchers} \ {<<>>}
    BY ConfigIs DEF HostsOf
  <2>2. hosts' \in [Askers -> SUBSET ({Normalised(h) : h \in Matchers} \ {<<>>})]
    BY <1>1, <2>1 DEF GateTypeOK
  <2> QED  BY <1>1, <2>2 DEF GateTypeOK
<1>4. HistoryOK'
  BY <1>1 DEF HistoryOK
<1>5. OpenOK'
  BY <1>1, <1>2 DEF OpenOK, GateTypeOK
<1>6. AnswerOK'
  <2>1. Config \subseteq known[a] /\ always[a] \subseteq Config
    BY <1>1 DEF OpenOK
  <2>2. HostsOf(Config) \subseteq HostsOf(known[a]) /\ HostsOf(always[a]) \subseteq HostsOf(Config)
    BY <2>1, HostsGrow
  <2>3. hosts'[a] = HostsOf(Config) /\ known'[a] = known[a] /\ always'[a] = always[a]
    BY <1>1 DEF GateTypeOK
  <2>4. \A b \in Askers \ {a} : stage'[b] = stage[b] /\ hosts'[b] = hosts[b]
    BY <1>1 DEF GateTypeOK
  <2>5. ASSUME NEW b \in Askers, stage'[b] = "decide"
        PROVE  hosts'[b] \subseteq HostsOf(known[b]) /\ HostsOf(always[b]) \subseteq hosts'[b]
    BY <2>2, <2>3, <2>4, <2>5 DEF AnswerOK
  <2> QED  BY <1>1, <2>5 DEF AnswerOK, HostsOf
<1>7. AllowedWasRouted' /\ DeniedWasUnrouted'
  BY <1>1 DEF AllowedWasRouted, DeniedWasUnrouted
<1> QED  BY <1>3, <1>4, <1>5, <1>6, <1>7

LEMMA GateFetchFails ==
  ASSUME GateInv, NEW a \in Askers, FetchFails(a)
  PROVE  GateInv'
<1> USE DEF GateInv
<1>1. /\ verdict' = [verdict EXCEPT ![a] = "error"]
      /\ stage' = [stage EXCEPT ![a] = "idle"]
      /\ UNCHANGED <<loaded, forwards, catchAll, domain, hosts, known, always, changes>>
  BY DEF FetchFails, caddyVars
<1>2. Config' = Config
  BY <1>1 DEF Config
<1>3. GateTypeOK' /\ HistoryOK'
  BY <1>1 DEF GateTypeOK, HistoryOK
<1>4. OpenOK' /\ AnswerOK'
  BY <1>1, <1>2 DEF OpenOK, AnswerOK, HostsOf, GateTypeOK
<1>5. AllowedWasRouted' /\ DeniedWasUnrouted'
  <2>1. \A b \in Askers : verdict'[b] \in {"allow", "deny"} => verdict'[b] = verdict[b]
    BY <1>1 DEF GateTypeOK
  <2> QED  BY <1>1, <2>1 DEF AllowedWasRouted, DeniedWasUnrouted
<1> QED  BY <1>3, <1>4, <1>5

LEMMA GateDecide ==
  ASSUME GateInv, NEW a \in Askers, Decide(a)
  PROVE  GateInv'
<1> USE DEF GateInv
<1> DEFINE matched == \E p \in hosts[a] : HostAllows(p, Normalised(domain[a]))
<1>1. /\ stage[a] = "decide"
      /\ verdict' = [verdict EXCEPT ![a] = IF matched THEN "allow" ELSE "deny"]
      /\ stage' = [stage EXCEPT ![a] = "idle"]
      /\ UNCHANGED <<loaded, forwards, catchAll, domain, hosts, known, always, changes>>
  BY DEF Decide, caddyVars
<1>2. Config' = Config
  BY <1>1 DEF Config
<1>3. domain[a] \in Seq(Chars) /\ Matchers \subseteq Seq(Chars)
  <2>1. domain[a] \in Domains \/ domain[a] = <<>>
    BY DEF GateTypeOK
  <2>2. <<>> \in Seq(Chars)
    OBVIOUS
  <2>3. Domains \subseteq Seq(Chars) /\ Matchers \subseteq Seq(Chars)
    BY GateAssumption DEF Chars
  <2> QED  BY <2>1, <2>2, <2>3
<1>4. known[a] \subseteq Seq(Chars) /\ always[a] \subseteq Seq(Chars)
  BY <1>3 DEF HistoryOK
<1>5. matched => \E m \in known[a] : Covers(m, domain[a])
  <2> SUFFICES ASSUME NEW p \in hosts[a], HostAllows(p, Normalised(domain[a]))
               PROVE  \E m \in known[a] : Covers(m, domain[a])
    OBVIOUS
  <2>1. p \in HostsOf(known[a])
    BY <1>1 DEF AnswerOK
  <2>2. PICK m \in known[a] : p = Normalised(m)
    BY <2>1 DEF HostsOf
  <2>3. HostAllows(Normalised(m), Normalised(domain[a]))
    BY <2>2
  <2>4. m \in Seq(Chars)
    BY <1>4
  <2> QED  BY <1>3, <2>3, <2>4, CoversIs
<1>6. ~matched => \A m \in always[a] \ {<<>>} : ~Covers(m, domain[a])
  <2> SUFFICES ASSUME NEW m \in always[a] \ {<<>>}, Covers(m, domain[a])
               PROVE  matched
    OBVIOUS
  <2>1. m \in Seq(Chars)
    BY <1>4
  <2>2. HostAllows(Normalised(m), Normalised(domain[a]))
    BY <1>3, <2>1, CoversIs
  <2>3. Normalised(m) # <<>>
    BY <2>1, NormalisedKeepsEmpty
  <2>4. Normalised(m) \in HostsOf(always[a])
    BY <2>3 DEF HostsOf
  <2>5. Normalised(m) \in hosts[a]
    BY <1>1, <2>4 DEF AnswerOK
  <2> QED  BY <2>2, <2>5
<1> HIDE DEF matched
<1>7. GateTypeOK' /\ HistoryOK'
  BY <1>1 DEF GateTypeOK, HistoryOK
<1>8. OpenOK' /\ AnswerOK'
  BY <1>1, <1>2 DEF OpenOK, AnswerOK, HostsOf, GateTypeOK
<1>9. verdict'[a] = (IF matched THEN "allow" ELSE "deny") /\ \A b \in Askers \ {a} : verdict'[b] = verdict[b]
  BY <1>1 DEF GateTypeOK
<1>10. \A b \in Askers : verdict'[b] = "allow" => \E m \in known[b] : Covers(m, domain[b])
  BY <1>5, <1>9 DEF AllowedWasRouted
<1>11. \A b \in Askers : verdict'[b] = "deny" => \A m \in always[b] \ {<<>>} : ~Covers(m, domain[b])
  BY <1>6, <1>9 DEF DeniedWasUnrouted
<1>12. AllowedWasRouted' /\ DeniedWasUnrouted'
  BY <1>1, <1>10, <1>11 DEF AllowedWasRouted, DeniedWasUnrouted
<1> QED  BY <1>7, <1>8, <1>12

\* A change to the configuration touches no question, only what the open ones know.
LEMMA GateChange ==
  ASSUME GateInv, Change, GateTypeOK'
  PROVE  GateInv'
<1> USE DEF GateInv
<1>1. /\ known' = [a \in Askers |-> IF stage[a] = "idle" THEN known[a] ELSE known[a] \cup Config']
      /\ always' = [a \in Askers |-> IF stage[a] = "idle" THEN always[a] ELSE always[a] \cap Config']
      /\ UNCHANGED <<stage, domain, hosts, verdict>>
  BY DEF Change, askVars
<1>2. Config' \in SUBSET Matchers
  BY DEF GateTypeOK, Config, Matchers
<1>3. HistoryOK'
  BY <1>1, <1>2 DEF HistoryOK
<1>4. OpenOK'
  BY <1>1 DEF OpenOK
<1>5. AnswerOK'
  <2> SUFFICES ASSUME NEW a \in Askers, stage[a] = "decide"
               PROVE  hosts[a] \subseteq HostsOf(known'[a]) /\ HostsOf(always'[a]) \subseteq hosts[a]
    BY <1>1 DEF AnswerOK, HostsOf
  <2>1. known[a] \subseteq known'[a] /\ always'[a] \subseteq always[a]
    BY <1>1
  <2>2. HostsOf(known[a]) \subseteq HostsOf(known'[a]) /\ HostsOf(always'[a]) \subseteq HostsOf(always[a])
    BY <2>1, HostsGrow
  <2> QED  BY <2>2 DEF AnswerOK
<1>6. \A a \in Askers : verdict[a] # "none" => known'[a] = known[a] /\ always'[a] = always[a]
  BY <1>1 DEF OpenOK
<1>7. AllowedWasRouted' /\ DeniedWasUnrouted'
  BY <1>1, <1>6 DEF AllowedWasRouted, DeniedWasUnrouted
<1> QED  BY <1>3, <1>4, <1>5, <1>7

LEMMA ChangeType ==
  ASSUME GateInv, Change, forwards' \subseteq Forwards, loaded' \in BOOLEAN, catchAll' \in BOOLEAN
  PROVE  GateTypeOK'
BY GateAssumption DEF GateInv, GateTypeOK, Change, askVars

LEMMA GateStep == GateInv /\ [GateNext]_gateVars => GateInv'
<1> SUFFICES ASSUME GateInv, [GateNext]_gateVars PROVE GateInv'
  OBVIOUS
<1>1. ASSUME NEW a \in Askers, Ask(a) PROVE GateInv'
  BY <1>1, GateAsk
<1>2. ASSUME NEW a \in Askers, Fetch(a) PROVE GateInv'
  BY <1>2, GateFetch
<1>3. ASSUME NEW a \in Askers, FetchFails(a) PROVE GateInv'
  BY <1>3, GateFetchFails
<1>4. ASSUME NEW a \in Askers, Decide(a) PROVE GateInv'
  BY <1>4, GateDecide
<1> DEFINE Moved == forwards' \subseteq Forwards /\ loaded' \in BOOLEAN /\ catchAll' \in BOOLEAN /\ Change
<1>5. AddRoute => Moved
  BY DEF AddRoute, GateInv, GateTypeOK
<1>6. RemoveRoute => Moved
  BY DEF RemoveRoute, GateInv, GateTypeOK
<1>7. MoveCatchAll => Moved
  BY DEF MoveCatchAll, GateInv, GateTypeOK
<1>8. Restart => Moved
  BY DEF Restart
<1>9. Load => Moved
  BY DEF Load, GateInv, GateTypeOK
<1>10. Moved => GateInv'
  BY ChangeType, GateChange
<1>11. CASE UNCHANGED gateVars
  BY <1>11 DEF gateVars, caddyVars, askVars, GateInv, GateTypeOK, HistoryOK, OpenOK, AnswerOK,
     Config, HostsOf, AllowedWasRouted, DeniedWasUnrouted
<1> HIDE DEF Moved
<1> QED
  BY <1>1, <1>2, <1>3, <1>4, <1>5, <1>6, <1>7, <1>8, <1>9, <1>10, <1>11 DEF GateNext

LEMMA GateInvariant == GateSpec => []GateInv
  BY GateInits, GateStep, PTL DEF GateSpec

-----------------------------------------------------------------------------
\* Places, answers and the hosts read keep their types, however many questions
\* are open and however the configuration changes: no empty matcher is kept.
THEOREM GateTypeCorrect == GateSpec => []GateTypeOK
  BY GateInvariant, PTL DEF GateInv

\* Whatever the characters, the matchers and the interleaving of changes with a
\* question, an allowed name was covered, label by label, by a matcher that was in
\* the configuration while the question was open.
THEOREM GateAllowedWasRouted == GateSpec => []AllowedWasRouted
  BY GateInvariant, PTL DEF GateInv

\* And a name that is turned down had no matcher that covers it throughout.
THEOREM GateDeniedWasUnrouted == GateSpec => []DeniedWasUnrouted
  BY GateInvariant, PTL DEF GateInv
=============================================================================
