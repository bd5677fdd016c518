------------------------- MODULE TunnelClientProofs -------------------------
(* Type correctness of TunnelClient, and that the client dials only with a  *)
(* published key.                                                          *)
EXTENDS TunnelClient, TLAPS

\* A process past the file has its key; past createRecord the key is published.
TunnelInv ==
  /\ TypeOK
  /\ pc \in {"write", "token", "record"} \cup TunnelPlaces => key \in Keys
  /\ DialsPublishedKey

\* The state's types and the client's key discipline hold initially ...
LEMMA TunnelInit == Init => TunnelInv
<1> SUFFICES ASSUME Init PROVE TunnelInv
  OBVIOUS
<1>1. pc \notin {"write", "token", "record"} \cup TunnelPlaces
  BY DEF Init, TunnelPlaces
<1>2. starts \in 0..MaxStarts /\ kills \in 0..MaxKills
      /\ losses \in 0..MaxLosses /\ refusals \in 0..MaxRefusals
      /\ silences \in 0..MaxSilences
  BY TunnelAssumption DEF Init
<1>3. TypeOK
  BY <1>2 DEF Init, TypeOK
<1> QED
  BY <1>1, <1>3 DEF TunnelInv, DialsPublishedKey

\* ... and every step of the process, and of its surroundings, keeps them.
LEMMA TunnelNext == TunnelInv /\ [Next]_vars => TunnelInv'
<1> SUFFICES ASSUME TunnelInv, [Next]_vars PROVE TunnelInv'
  OBVIOUS
<1> USE TunnelAssumption DEF TunnelInv, TypeOK, DialsPublishedKey, StartPlaces, TunnelPlaces,
                             Goto, diskVars, relayVars, processVars, boundVars
<1>1. CASE LoadKey
  BY <1>1 DEF LoadKey, KeyOnDisk, AfterOldKey
<1>2. CASE WriteKey
  BY <1>2 DEF WriteKey
<1>3. CASE GetToken
  BY <1>3 DEF GetToken
<1>4. CASE CreateRecord
  BY <1>4 DEF CreateRecord, Published
<1>5. CASE Fatal
  BY <1>5 DEF Fatal, Published
<1>6. CASE Dial
  BY <1>6 DEF Dial, AfterRefusal
<1>14. CASE DialFails
  <2>1. refusals' \in 0..MaxRefusals
    BY <1>14 DEF DialFails
  <2> QED
    BY <1>14, <2>1 DEF DialFails, AfterRefusal
<1>7. CASE Listen
  <2>1. pc = "listen" /\ pc' \in {"accept", "close"} /\ UNCHANGED <<key, records>>
    BY <1>7 DEF Listen
  <2>2. refusals' = refusals \/ (refusals < MaxRefusals /\ refusals' = refusals + 1)
    BY <1>7 DEF Listen
  <2>3. refusals' \in 0..MaxRefusals
    BY <2>2
  <2>4. listening' = TRUE \/ listening' = listening
    BY <1>7 DEF Listen
  <2>5. TypeOK'
    BY <1>7, <2>1, <2>3, <2>4 DEF Listen
  <2> QED
    BY <2>1, <2>5
<1>8. CASE CloseListener \/ AcceptFails \/ Close \/ Pause
  BY <1>8 DEF CloseListener, AcceptFails, Close, Pause
<1>9. CASE Start
  <2>1. starts' \in 0..MaxStarts
    BY <1>9 DEF Start
  <2> QED
    BY <1>9, <2>1 DEF Start
<1>12. CASE Signal
  BY <1>12 DEF Signal
<1>13. CASE Kill
  <2>1. kills' \in 0..MaxKills
    BY <1>13 DEF Kill
  <2> QED
    BY <1>13, <2>1 DEF Kill
<1>10. CASE Lose
  <2>1. losses' \in 0..MaxLosses
    BY <1>10 DEF Lose
  <2> QED
    BY <1>10, <2>1 DEF Lose
<1>16. CASE GiveUp \/ Relist \/ AnswerAgain
  BY <1>16 DEF GiveUp, Relist, AnswerAgain
<1>15. CASE FallSilent
  <2>1. silences' \in 0..MaxSilences
    BY <1>15 DEF FallSilent
  <2> QED
    BY <1>15, <2>1 DEF FallSilent
<1>11. CASE UNCHANGED vars
  BY <1>11 DEF vars
<1> QED
  BY <1>1, <1>2, <1>3, <1>4, <1>5, <1>6, <1>7, <1>8, <1>9, <1>10, <1>11, <1>12, <1>13,
     <1>14, <1>15, <1>16
     DEF Next, StartStep, TunnelStep

\* Whatever is killed, torn or restarted in between, the process always has a
\* parsed key from the moment it has left ensureSSHKey, and a published one in
\* the tunnel loop.
THEOREM TunnelInvariant == Spec => []TunnelInv
BY TunnelInit, TunnelNext, PTL DEF Spec

\* The variables keep their types, the bounded counters their bounds.
THEOREM TunnelTypeOK == Spec => []TypeOK
<1>1. TunnelInv => TypeOK
  BY DEF TunnelInv
<1> QED
  BY <1>1, TunnelInvariant, PTL

\* The client dials only with a key it has published (createRecord comes before
\* runTunnel in every process, whichever process generated the key).
THEOREM TunnelDialsPublishedKey == Spec => []DialsPublishedKey
<1>1. TunnelInv => DialsPublishedKey
  BY DEF TunnelInv
<1> QED
  BY <1>1, TunnelInvariant, PTL
=============================================================================
