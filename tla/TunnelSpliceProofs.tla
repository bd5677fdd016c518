------------------------- MODULE TunnelSpliceProofs -------------------------
(* Proofs about TunnelSplice: for any number of chunks from either end and   *)
(* any capacity.  What one end sends passes two copies and three hops; the   *)
(* names below say which, so that both directions have one proof.           *)
EXTENDS TunnelSplice, Integers, TLAPS

(* The handler next to an end; the hop in the middle of what the end sends, *)
(* and the two copies it passes.                                           *)
Near(e) == IF e = "caddy" THEN "relay" ELSE "client"
MidHop(e) == IF e = "caddy" THEN "relay-client" ELSE "client-relay"
FirstCopy(e) == IF e = "caddy" THEN <<"relay", "up">> ELSE <<"client", "down">>
SecondCopy(e) == IF e = "caddy" THEN <<"client", "up">> ELSE <<"relay", "down">>

LEMMA CopiesListed ==
  /\ Copies = {FirstCopy("caddy"), SecondCopy("caddy"),
               FirstCopy("service"), SecondCopy("service")}
  /\ Peer("caddy") = "service" /\ Peer("service") = "caddy"
BY DEF Copies, Handlers, FirstCopy, SecondCopy, Peer

(* The route of the data, seen from either end.                            *)
LEMMA Layout ==
  ASSUME NEW e \in Ends, NEW p, p = Peer(e)
  PROVE  /\ p \in Ends /\ Peer(p) = e /\ p # e /\ Ends = {e, p}
         /\ Handlers = {Near(e), Near(p)} /\ Near(e) # Near(p)
         /\ Hops = {OutHop(e), MidHop(e), InHop(p), OutHop(p), MidHop(p), InHop(e)}
         /\ ChannelHops = {MidHop(e), MidHop(p)}
         /\ Copies = {FirstCopy(e), SecondCopy(e), FirstCopy(p), SecondCopy(p)}
<1>1. CASE e = "caddy"
  BY <1>1, CopiesListed DEF Peer, Ends, Handlers, Near, Hops, ChannelHops, OutHop, MidHop, InHop
<1>2. CASE e = "service"
  BY <1>2, CopiesListed DEF Peer, Ends, Handlers, Near, Hops, ChannelHops, OutHop, MidHop, InHop
<1> QED  BY <1>1, <1>2 DEF Ends

LEMMA HopsDistinct ==
  ASSUME NEW e \in Ends, NEW p, p = Peer(e)
  PROVE  /\ OutHop(e) \notin {MidHop(e), InHop(p), OutHop(p), MidHop(p), InHop(e)}
         /\ MidHop(e) \notin {OutHop(e), InHop(p), OutHop(p), MidHop(p), InHop(e)}
         /\ InHop(p) \notin {OutHop(e), MidHop(e), OutHop(p), MidHop(p), InHop(e)}
BY DEF Peer, Ends, OutHop, MidHop, InHop

LEMMA CopiesDistinct ==
  ASSUME NEW e \in Ends, NEW p, p = Peer(e)
  PROVE  /\ FirstCopy(e) \notin {SecondCopy(e), FirstCopy(p), SecondCopy(p)}
         /\ SecondCopy(e) \notin {FirstCopy(e), FirstCopy(p), SecondCopy(p)}
BY DEF Peer, Ends, FirstCopy, SecondCopy

LEMMA CopyEndsOf ==
  ASSUME NEW e \in Ends, NEW p, p = Peer(e)
  PROVE  /\ Handler(FirstCopy(e)) = Near(e) /\ Handler(SecondCopy(e)) = Near(p)
         /\ Source[FirstCopy(e)] = OutHop(e) /\ Sink[FirstCopy(e)] = MidHop(e)
         /\ Source[SecondCopy(e)] = MidHop(e) /\ Sink[SecondCopy(e)] = InHop(p)
         /\ Opposite[MidHop(e)] = MidHop(e) /\ Opposite[InHop(p)] = OutHop(p)
<1>1. FirstCopy(e) \in Copies /\ SecondCopy(e) \in Copies
  BY Layout
<1>2. MidHop(e) \in Hops /\ InHop(p) \in Hops
  BY Layout
<1>3. CASE e = "caddy"
  <2>1. FirstCopy(e) = <<"relay", "up">> /\ SecondCopy(e) = <<"client", "up">>
    BY <1>3 DEF FirstCopy, SecondCopy
  <2> QED  BY <1>1, <1>2, <1>3, <2>1
        DEF Peer, Handler, Near, Source, Sink, Opposite, OutHop, MidHop, InHop
<1>4. CASE e = "service"
  <2>1. FirstCopy(e) = <<"client", "down">> /\ SecondCopy(e) = <<"relay", "down">>
    BY <1>4 DEF FirstCopy, SecondCopy
  <2> QED  BY <1>1, <1>2, <1>4, <2>1
        DEF Peer, Handler, Near, Source, Sink, Opposite, OutHop, MidHop, InHop
<1> QED  BY <1>3, <1>4 DEF Ends

(* TypeOK but for the bound of got, which depends on what the hops hold.    *)
Typed ==
  /\ session \in BOOLEAN
  /\ buf \in [Hops -> 0..Capacity]
  /\ eof \in [Hops -> BOOLEAN] /\ gone \in [Hops -> BOOLEAN]
  /\ hand \in [Copies -> BOOLEAN]
  /\ copying \in [Copies -> {"unstarted", "copying", "signal", "finished"}]
  /\ handler \in [Handlers -> {"unstarted", "open", "wait", "close", "closeLast", "finished"}]
  /\ signals \in [Handlers -> 0..2]
  /\ sent \in [Ends -> Nat] /\ got \in [Ends -> Nat]
  /\ \A e \in Ends : sent[e] <= MaxChunks[e]

(* What the places of handlers and copies imply for one another.            *)
Gone(d) == handler[Near(d)] \in {"closeLast", "finished"}

HandsEmpty == \A c \in Copies : copying[c] # "copying" => ~hand[c]
ChannelRead == \A d \in Ends : ~gone[MidHop(d)]
ClosedByHandler ==
  /\ \A d \in Ends : gone[OutHop(d)] \/ eof[InHop(d)] => Gone(d)
  /\ eof[InHop("service")] => copying[FirstCopy("service")] # "unstarted"
Started ==
  /\ \A c, d \in Copies :
       Handler(c) = Handler(d) /\ copying[c] = "unstarted" => copying[d] = "unstarted"
  /\ \A c \in Copies :
       /\ handler[Handler(c)] \in {"unstarted", "open"} => copying[c] = "unstarted"
       /\ handler[Handler(c)] \in {"wait", "close"} => copying[c] # "unstarted"
  /\ copying[FirstCopy("caddy")] = "unstarted" => handler["client"] = "unstarted"
  /\ copying[FirstCopy("service")] = "unstarted" => sent["service"] = 0
Signalled ==
  \A x \in Handlers :
    signals[x] > 0 => \E c \in Copies : Handler(c) = x /\ copying[c] = "finished"

Places == HandsEmpty /\ ChannelRead /\ ClosedByHandler /\ Started /\ Signalled

LEMMA HopsListed ==
  /\ \A e \in Ends : {OutHop(e), MidHop(e), InHop(e)} \subseteq Hops /\ Near(e) \in Handlers
  /\ \A c \in Copies : Source[c] \in Hops /\ Sink[c] \in Hops /\ Handler(c) \in Handlers
  /\ \A h \in Hops : Opposite[h] \in Hops
  /\ "relay-client" \in Hops /\ {"relay", "client"} = Handlers
<1>1. \A e \in Ends : {OutHop(e), MidHop(e), InHop(e)} \subseteq Hops /\ Near(e) \in Handlers
  BY DEF OutHop, MidHop, InHop, Hops, Near, Handlers
<1>2. \A c \in Copies : Source[c] \in Hops /\ Sink[c] \in Hops /\ Handler(c) \in Handlers
  BY DEF Source, Sink, Hops, Copies, Handlers, Handler
<1>3. \A h \in Hops : Opposite[h] \in Hops
  BY DEF Opposite, Hops
<1> QED  BY <1>1, <1>2, <1>3 DEF Hops, Handlers

LEMMA InitTyped == Init => Typed /\ Places
<1> SUFFICES ASSUME Init PROVE Typed /\ Places
  OBVIOUS
<1>1. Typed
  BY SpliceAssumption DEF Init, Typed
<1>2. Places
  BY HopsListed, CopiesListed
     DEF Init, Places, HandsEmpty, ChannelRead, ClosedByHandler, Started, Signalled, Ends, Gone
<1> QED  BY <1>1, <1>2

LEMMA NextTyped ==
  ASSUME Typed, [Next]_vars
  PROVE  Typed'
<1> USE SpliceAssumption, HopsListed
<1>1. CASE UNCHANGED vars
  BY <1>1 DEF vars, hopVars, endVars, Typed
<1>2. ASSUME NEW c \in Copies, CopyRead(c) PROVE Typed'
  BY <1>2 DEF CopyRead, Typed, endVars
<1>3. ASSUME NEW c \in Copies, CopyWrite(c) PROVE Typed'
  <2>1. buf' \in [Hops -> 0..Capacity]
    BY <1>3 DEF CopyWrite, Typed, Room
  <2> QED  BY <1>3, <2>1 DEF CopyWrite, Typed, endVars
<1>4. ASSUME NEW c \in Copies, CopyEnds(c) PROVE Typed'
  <2>1. eof' \in [Hops -> BOOLEAN]
    BY <1>4, Zenon DEF CopyEnds, Typed
  <2>2. copying' \in [Copies -> {"unstarted", "copying", "signal", "finished"}]
    BY <1>4 DEF CopyEnds, Typed
  <2> QED  BY <1>4, <2>1, <2>2 DEF CopyEnds, Typed, endVars
<1>5. ASSUME NEW c \in Copies, Signal(c) PROVE Typed'
  BY <1>5 DEF Signal, SignalRoom, Typed, hopVars, endVars
<1>6. ASSUME NEW in \in Hops, NEW out \in Hops, CloseSocket(in, out)
      PROVE  /\ buf' \in [Hops -> 0..Capacity]
             /\ eof' \in [Hops -> BOOLEAN] /\ gone' \in [Hops -> BOOLEAN]
  BY <1>6 DEF CloseSocket, Typed
<1>7. ASSUME CloseChannel
      PROVE  /\ buf' \in [Hops -> 0..Capacity]
             /\ eof' \in [Hops -> BOOLEAN] /\ gone' \in [Hops -> BOOLEAN]
  BY <1>7 DEF CloseChannel, Typed
<1>8. {"caddy-relay", "relay-caddy", "service-client", "client-service"} \subseteq Hops
  BY DEF Hops
<1>9. CASE RelayStep
  <2>1. CASE Accept
    BY <1>6, <1>8, <2>1 DEF Accept, Goto, Typed, hopVars, endVars
  <2>2. CASE OpenChannel
    BY <2>2 DEF OpenChannel, Goto, Typed, hopVars, endVars
  <2>3. CASE RelayWakes
    BY <2>3 DEF RelayWakes, Goto, Typed, hopVars, endVars
  <2>4. CASE RelayClosesChannel
    BY <1>7, <2>4 DEF RelayClosesChannel, Goto, Typed, endVars
  <2>5. CASE RelayClosesConn
    BY <1>6, <1>8, <2>5 DEF RelayClosesConn, Goto, Typed, endVars
  <2> QED  BY <1>9, <2>1, <2>2, <2>3, <2>4, <2>5 DEF RelayStep
<1>10. CASE ClientStep
  <2>1. CASE DialLocal
    BY <2>1 DEF DialLocal, Start, Goto, Typed, hopVars, endVars
  <2>2. CASE ClientWakes
    BY <2>2 DEF ClientWakes, Goto, Typed, hopVars, endVars
  <2>3. CASE ClientClosesLocal
    BY <1>6, <1>8, <2>3 DEF ClientClosesLocal, Goto, Typed, endVars
  <2>4. CASE ClientClosesRemote
    BY <1>7, <2>4 DEF ClientClosesRemote, Goto, Typed, endVars
  <2> QED  BY <1>10, <2>1, <2>2, <2>3, <2>4 DEF ClientStep
<1>11. ASSUME NEW d \in Ends, Send(d) PROVE Typed'
  BY <1>11 DEF Send, Room, Typed
<1>12. ASSUME NEW d \in Ends, Receive(d) PROVE Typed'
  BY <1>12 DEF Receive, Typed
<1>13. ASSUME NEW d \in Ends, HangUp(d) PROVE Typed'
  BY <1>6, <1>13 DEF HangUp, Typed, endVars
<1>14. CASE LoseSession
  <2>1. buf' \in [Hops -> 0..Capacity]
    BY <1>14 DEF LoseSession, Typed
  <2>2. eof' \in [Hops -> BOOLEAN]
    BY <1>14, Zenon DEF LoseSession, Typed
  <2> QED  BY <1>14, <2>1, <2>2 DEF LoseSession, Typed, endVars
<1> QED
  BY <1>1, <1>2, <1>3, <1>4, <1>5, <1>9, <1>10, <1>11, <1>12, <1>13, <1>14
     DEF Next, CopyStep, EndStep

(* The two ends, their handlers and the places where the connections of one *)
(* are closed.                                                             *)
LEMMA NearFacts ==
  /\ Near("caddy") = "relay" /\ Near("service") = "client"
  /\ OutHop("caddy") = "caddy-relay" /\ InHop("caddy") = "relay-caddy"
  /\ OutHop("service") = "service-client" /\ InHop("service") = "client-service"
  /\ MidHop("caddy") = "relay-client" /\ MidHop("service") = "client-relay"
  /\ Ends = {"caddy", "service"}
BY DEF Near, OutHop, InHop, MidHop, Ends

LEMMA HandlersOf ==
  /\ Handler(FirstCopy("caddy")) = "relay" /\ Handler(SecondCopy("caddy")) = "client"
  /\ Handler(FirstCopy("service")) = "client" /\ Handler(SecondCopy("service")) = "relay"
  /\ FirstCopy("service") # <<"client", "up">> /\ <<"client", "up">> = SecondCopy("caddy")
  /\ <<"relay", "up">> = FirstCopy("caddy")
BY CopiesListed, CopyEndsOf, NearFacts DEF FirstCopy, SecondCopy

LEMMA NextHandsEmpty ==
  ASSUME Typed, HandsEmpty, [Next]_vars
  PROVE  HandsEmpty'
<1> USE DEF Typed, HandsEmpty
<1>1. CASE UNCHANGED vars
  BY <1>1 DEF vars
<1>2. ASSUME NEW c \in Copies, CopyStep(c) PROVE HandsEmpty'
  BY <1>2 DEF CopyStep, CopyRead, CopyWrite, CopyEnds, Signal
<1>3. CASE RelayStep
  BY <1>3 DEF RelayStep, Accept, OpenChannel, RelayWakes, RelayClosesChannel, RelayClosesConn
<1>4. CASE ClientStep
  BY <1>4 DEF ClientStep, DialLocal, Start, ClientWakes, ClientClosesLocal, ClientClosesRemote
<1>5. CASE LoseSession \/ \E d \in Ends : EndStep(d)
  BY <1>5 DEF LoseSession, EndStep, Send, Receive, HangUp
<1> QED  BY <1>1, <1>2, <1>3, <1>4, <1>5 DEF Next

(* What closes, and by whom.                                               *)
LEMMA GoneStep ==
  ASSUME Typed, [Next]_vars
  PROVE  \/ UNCHANGED gone
         \/ \E d \in Ends : CloseSocket(OutHop(d), InHop(d)) /\ Gone(d)'
         \/ \E d \in Ends : CloseSocket(InHop(d), OutHop(d))
<1> USE NearFacts
<1>1. CASE UNCHANGED vars
  BY <1>1 DEF vars, hopVars
<1>2. ASSUME NEW c \in Copies, CopyStep(c) PROVE UNCHANGED gone
  BY <1>2 DEF CopyStep, CopyRead, CopyWrite, CopyEnds, Signal, hopVars
<1>3. CASE Accept \/ RelayClosesConn
  <2>1. \/ UNCHANGED gone
        \/ CloseSocket("caddy-relay", "relay-caddy") /\ handler'["relay"] = "finished"
    BY <1>3, HopsListed DEF Accept, RelayClosesConn, Goto, Typed, hopVars
  <2> QED  BY <2>1 DEF Gone
<1>4. CASE ClientClosesLocal
  <2>1. CloseSocket("service-client", "client-service") /\ handler'["client"] = "closeLast"
    BY <1>4, HopsListed DEF ClientClosesLocal, Goto, Typed
  <2> QED  BY <2>1 DEF Gone
<1>5. CASE RelayStep
  BY <1>3, <1>5 DEF RelayStep, OpenChannel, RelayWakes, RelayClosesChannel, CloseChannel, hopVars
<1>6. CASE ClientStep
  BY <1>4, <1>6 DEF ClientStep, DialLocal, ClientWakes, ClientClosesRemote, CloseChannel, hopVars
<1>7. ASSUME NEW d \in Ends, EndStep(d)
      PROVE  UNCHANGED gone \/ CloseSocket(InHop(d), OutHop(d))
  BY <1>7 DEF EndStep, Send, Receive, HangUp
<1>8. CASE LoseSession
  BY <1>8 DEF LoseSession
<1> QED  BY <1>1, <1>2, <1>5, <1>6, <1>7, <1>8 DEF Next

LEMMA NextChannelRead ==
  ASSUME Typed, ChannelRead, [Next]_vars
  PROVE  ChannelRead'
<1>1. CASE UNCHANGED gone
  BY <1>1 DEF ChannelRead
<1>2. ASSUME NEW in \in Hops, NEW out \in Hops, CloseSocket(in, out),
             \A d \in Ends : in # MidHop(d)
      PROVE  ChannelRead'
  BY <1>2, HopsListed DEF CloseSocket, ChannelRead, Typed
<1>3. \A d, e \in Ends : OutHop(d) # MidHop(e) /\ InHop(d) # MidHop(e)
  BY DEF OutHop, InHop, MidHop
<1> QED  BY <1>1, <1>2, <1>3, HopsListed, GoneStep

LEMMA EofInStep ==
  ASSUME Typed, [Next]_vars, NEW d \in Ends, eof'[InHop(d)], ~eof[InHop(d)]
  PROVE  /\ Gone(d)'
         /\ d = "service" => ClientClosesLocal
<1> USE NearFacts, HopsListed DEF Typed
<1>1. /\ InHop(d) \in Hops /\ InHop(d) \notin ChannelHops
      /\ \A e \in Ends : InHop(d) # OutHop(e)
      /\ \A e \in Ends : e # d => InHop(e) # InHop(d)
  BY DEF InHop, OutHop, ChannelHops
<1>2. ~UNCHANGED eof
  OBVIOUS
<1>3. ASSUME NEW c \in Copies, CopyStep(c) PROVE FALSE
  <2>1. CopyEnds(c)
    BY <1>2, <1>3 DEF CopyStep, CopyRead, CopyWrite, Signal, hopVars
  <2>2. eof' = [eof EXCEPT !["relay-client"] = @ \/ c = <<"relay", "up">>]
    BY <2>1 DEF CopyEnds
  <2> QED  BY <1>1, <2>2 DEF ChannelHops
<1>4. ASSUME CloseChannel PROVE FALSE
  BY <1>1, <1>4 DEF CloseChannel
<1>5. ASSUME NEW e \in Ends, CloseSocket(OutHop(e), InHop(e)) PROVE e = d
  BY <1>1, <1>5 DEF CloseSocket
<1>6. ASSUME NEW e \in Ends, CloseSocket(InHop(e), OutHop(e)) PROVE FALSE
  BY <1>1, <1>6 DEF CloseSocket
<1>7. CASE Accept \/ RelayClosesConn
  <2>1. CloseSocket(OutHop("caddy"), InHop("caddy")) /\ handler'["relay"] = "finished"
    BY <1>2, <1>7 DEF Accept, RelayClosesConn, Goto, hopVars
  <2> QED  BY <1>5, <2>1 DEF Gone
<1>8. CASE ClientClosesLocal
  <2>1. CloseSocket(OutHop("service"), InHop("service")) /\ handler'["client"] = "closeLast"
    BY <1>8 DEF ClientClosesLocal, Goto
  <2> QED  BY <1>5, <1>8, <2>1 DEF Gone
<1>9. CASE RelayStep
  BY <1>2, <1>4, <1>7, <1>9 DEF RelayStep, OpenChannel, RelayWakes, RelayClosesChannel, hopVars
<1>10. CASE ClientStep
  BY <1>2, <1>4, <1>8, <1>10 DEF ClientStep, DialLocal, ClientWakes, ClientClosesRemote, hopVars
<1>11. ASSUME NEW e \in Ends, EndStep(e) PROVE FALSE
  <2>1. HangUp(e)
    BY <1>2, <1>11 DEF EndStep, Send, Receive
  <2>2. eof' = [eof EXCEPT ![OutHop(e)] = TRUE]
    BY <1>6, <2>1 DEF HangUp
  <2> QED  BY <1>1, <2>2
<1>12. CASE LoseSession
  BY <1>1, <1>12 DEF LoseSession
<1> QED  BY <1>2, <1>3, <1>9, <1>10, <1>11, <1>12 DEF Next, vars, hopVars

LEMMA NextStarted ==
  ASSUME Typed, Started, [Next]_vars
  PROVE  /\ Started'
         /\ \A c \in Copies : copying'[c] = "unstarted" => copying[c] = "unstarted"
         /\ \A d \in Ends : Gone(d) => Gone(d)'
<1> DEFINE Goal == /\ Started'
                   /\ \A c \in Copies : copying'[c] = "unstarted" => copying[c] = "unstarted"
                   /\ \A d \in Ends : Gone(d) => Gone(d)'
<1> USE NearFacts, HandlersOf, CopiesListed, HopsListed DEF Typed, Started, Gone
<1>1. CASE UNCHANGED <<copying, handler, sent>>
  BY <1>1
<1>2. ASSUME NEW c \in Copies, CopyStep(c) PROVE Goal
  <2>1. UNCHANGED <<handler, sent>>
    BY <1>2 DEF CopyStep, CopyRead, CopyWrite, CopyEnds, Signal, endVars
  <2>2. \A d \in Copies : copying'[d] = "unstarted" <=> copying[d] = "unstarted"
    BY <1>2 DEF CopyStep, CopyRead, CopyWrite, CopyEnds, Signal
  <2> QED  BY <2>1, <2>2
<1>3. ASSUME NEW x \in Handlers, UNCHANGED <<copying, sent>>,
             \/ /\ handler[x] = "unstarted" /\ x = "relay"
                /\ \/ handler' = [handler EXCEPT ![x] = "open"]
                   \/ handler' = [handler EXCEPT ![x] = "finished"]
             \/ /\ handler[x] = "open"
                /\ handler' = [handler EXCEPT ![x] = "closeLast"]
             \/ /\ handler[x] = "wait"
                /\ handler' = [handler EXCEPT ![x] = "close"]
             \/ /\ handler[x] = "close"
                /\ handler' = [handler EXCEPT ![x] = "closeLast"]
             \/ /\ handler[x] = "closeLast"
                /\ handler' = [handler EXCEPT ![x] = "finished"]
      PROVE Goal
  BY <1>3
<1>4. CASE OpenChannel
  <2>1. CASE UNCHANGED copying
    <3>1. handler["relay"] = "open" /\ handler' = [handler EXCEPT !["relay"] = "closeLast"]
          /\ UNCHANGED sent
      <4>1. \A c \in Copies : Handler(c) = "relay" => copying[c] = "unstarted"
        BY <1>4 DEF OpenChannel
      <4> QED  BY <1>4, <2>1, <4>1 DEF OpenChannel, Goto, endVars
    <3> QED  BY <1>3, <2>1, <3>1
  <2>2. CASE /\ handler' = [handler EXCEPT !["relay"] = "wait", !["client"] = "open"]
             /\ copying' = [c \in Copies |-> IF Handler(c) = "relay" THEN "copying" ELSE copying[c]]
    <3>1. handler["relay"] = "open" /\ handler["client"] = "unstarted" /\ UNCHANGED sent
      BY <1>4 DEF OpenChannel, endVars
    <3>2. handler'["relay"] = "wait" /\ handler'["client"] = "open"
      BY <2>2
    <3>3. \A c \in Copies : /\ Handler(c) = "relay" => copying'[c] = "copying"
                            /\ Handler(c) = "client" =>
                                 copying'[c] = "unstarted" /\ copying[c] = "unstarted"
      BY <2>2, <3>1
    <3> QED  BY <3>1, <3>2, <3>3
  <2> QED  BY <1>4, <2>1, <2>2 DEF OpenChannel
<1>5. CASE DialLocal
  <2>1. CASE UNCHANGED copying /\ Goto("client", "closeLast")
    BY <1>3, <1>5, <2>1 DEF DialLocal, Goto, endVars
  <2>2. CASE Goto("client", "wait") /\ Start("client")
    <3>1. handler["client"] = "open" /\ UNCHANGED sent
      BY <1>5 DEF DialLocal, endVars
    <3>2. handler'["relay"] = handler["relay"] /\ handler'["client"] = "wait"
      BY <2>2 DEF Goto
    <3>3. \A c \in Copies : /\ Handler(c) = "client" => copying'[c] = "copying"
                            /\ Handler(c) = "relay" => copying'[c] = copying[c]
      BY <2>2 DEF Start
    <3> QED  BY <3>1, <3>2, <3>3
  <2> QED  BY <1>5, <2>1, <2>2 DEF DialLocal
<1>6. CASE RelayStep
  <2>1. CASE Accept
    BY <1>3, <2>1 DEF Accept, Goto, endVars
  <2>2. CASE RelayWakes \/ RelayClosesChannel \/ RelayClosesConn
    BY <1>3, <2>2 DEF RelayWakes, RelayClosesChannel, RelayClosesConn, Goto, endVars
  <2> QED  BY <1>4, <1>6, <2>1, <2>2 DEF RelayStep
<1>7. CASE ClientStep
  <2>1. CASE ClientWakes \/ ClientClosesLocal \/ ClientClosesRemote
    BY <1>3, <2>1 DEF ClientWakes, ClientClosesLocal, ClientClosesRemote, Goto, endVars
  <2> QED  BY <1>5, <1>7, <2>1 DEF ClientStep
<1>8. ASSUME NEW d \in Ends, EndStep(d) PROVE Goal
  <2>1. CASE Send(d)
    <3>1. UNCHANGED <<copying, handler>>
      BY <2>1 DEF Send
    <3>2. d = "service" => copying[FirstCopy("service")] # "unstarted"
      BY <2>1 DEF Send, Connected
    <3>3. d = "caddy" => sent'["service"] = sent["service"]
      BY <2>1 DEF Send
    <3> QED  BY <3>1, <3>2, <3>3
  <2> QED  BY <1>1, <1>8, <2>1 DEF EndStep, Receive, HangUp, endVars
<1>9. CASE LoseSession \/ UNCHANGED vars
  BY <1>1, <1>9 DEF LoseSession, vars, endVars
<1> QED  BY <1>2, <1>6, <1>7, <1>8, <1>9 DEF Next

LEMMA NextClosedByHandler ==
  ASSUME Typed, ClosedByHandler, Started, [Next]_vars
  PROVE  ClosedByHandler'
<1>1. ASSUME NEW d \in Ends, gone'[OutHop(d)] PROVE Gone(d)'
  <2>1. CASE gone[OutHop(d)]
    BY <2>1, NextStarted DEF ClosedByHandler
  <2>2. ASSUME NEW e \in Ends, CloseSocket(OutHop(e), InHop(e)), Gone(e)', ~gone[OutHop(d)]
        PROVE  Gone(d)'
    <3>1. OutHop(d) = OutHop(e)
      BY <1>1, <2>2, HopsListed DEF CloseSocket, Typed
    <3>2. d = e
      BY <3>1, NearFacts
    <3> QED  BY <2>2, <3>2
  <2>3. ASSUME NEW e \in Ends, CloseSocket(InHop(e), OutHop(e)) PROVE gone[OutHop(d)]
    BY <1>1, <2>3, HopsListed, NearFacts DEF CloseSocket, Typed
  <2> QED  BY <1>1, <2>1, <2>2, <2>3, GoneStep
<1>2. ASSUME NEW d \in Ends, eof'[InHop(d)] PROVE Gone(d)'
  BY <1>2, EofInStep, NextStarted DEF ClosedByHandler
<1>3. ASSUME eof'[InHop("service")] PROVE copying'[FirstCopy("service")] # "unstarted"
  <2>1. CASE eof[InHop("service")]
    BY <2>1, NextStarted, CopiesListed DEF ClosedByHandler
  <2>2. CASE ClientClosesLocal
    BY <2>2, HandlersOf, CopiesListed DEF ClientClosesLocal, Started
  <2> QED  BY <1>3, <2>1, <2>2, EofInStep, NearFacts
<1> QED  BY <1>1, <1>2, <1>3 DEF ClosedByHandler

LEMMA NextSignalled ==
  ASSUME Typed, Started, Signalled, [Next]_vars
  PROVE  Signalled'
<1> USE HopsListed DEF Typed, Signalled
<1>1. CASE UNCHANGED <<signals, copying>>
  BY <1>1
<1>2. ASSUME UNCHANGED signals,
             \A c \in Copies : copying[c] = "finished" => copying'[c] = "finished"
      PROVE  Signalled'
  BY <1>2
<1>3. ASSUME NEW c \in Copies, CopyStep(c) PROVE Signalled'
  <2>1. CASE Signal(c)
    BY <2>1 DEF Signal
  <2>2. CASE CopyEnds(c)
    BY <1>2, <2>2 DEF CopyEnds
  <2> QED  BY <1>1, <1>3, <2>1, <2>2 DEF CopyStep, CopyRead, CopyWrite
<1>4. CASE OpenChannel \/ DialLocal
  <2>1. UNCHANGED signals
    BY <1>4 DEF OpenChannel, DialLocal
  <2>2. UNCHANGED copying \/ \E x \in Handlers : handler[x] = "open" /\ Start(x)
    BY <1>4 DEF OpenChannel, DialLocal, Start
  <2>3. \A c \in Copies : copying[c] = "finished" => copying'[c] = "finished"
    BY <2>2 DEF Start, Started
  <2> QED  BY <1>2, <2>1, <2>3
<1>5. CASE RelayStep
  BY <1>1, <1>4, <1>5 DEF RelayStep, Accept, RelayWakes, RelayClosesChannel, RelayClosesConn
<1>6. CASE ClientStep
  BY <1>1, <1>4, <1>6 DEF ClientStep, ClientWakes, ClientClosesLocal, ClientClosesRemote
<1>7. CASE LoseSession \/ UNCHANGED vars \/ \E d \in Ends : EndStep(d)
  BY <1>1, <1>7 DEF LoseSession, vars, EndStep, Send, Receive, HangUp
<1> QED  BY <1>3, <1>5, <1>6, <1>7 DEF Next

(* What an end has sent, its peer has read, or it is under way, or it is    *)
(* lost: a copy held it when its write broke, or a reset took it.           *)
One(b) == IF b THEN 1 ELSE 0
InFlight(e) ==
  buf[OutHop(e)] + One(hand[FirstCopy(e)]) + buf[MidHop(e)] + One(hand[SecondCopy(e)])
    + buf[InHop(Peer(e))]
Lost(e) == sent[e] - (got[Peer(e)] + InFlight(e))

\* Nothing is read that was not sent, and nothing is read twice.
Conserved == \A e \in Ends : Lost(e) >= 0

LEMMA Counts ==
  ASSUME Typed, NEW e \in Ends, NEW p, p = Peer(e)
  PROVE  /\ buf[OutHop(e)] \in Nat /\ buf[MidHop(e)] \in Nat /\ buf[InHop(p)] \in Nat
         /\ One(hand[FirstCopy(e)]) \in 0..1 /\ One(hand[SecondCopy(e)]) \in 0..1
         /\ sent[e] \in Nat /\ got[p] \in Nat /\ Lost(e) \in Int
<1>1. \A b : One(b) \in 0..1
  BY DEF One
<1>2. /\ buf[OutHop(e)] \in Nat /\ buf[MidHop(e)] \in Nat /\ buf[InHop(p)] \in Nat
      /\ sent[e] \in Nat /\ got[p] \in Nat
  BY Layout, SpliceAssumption DEF Typed
<1> QED  BY <1>1, <1>2 DEF Lost, InFlight

(* What a step may do to it.  What is lost is never found again.  What lies *)
(* unread in a closed hop of the route stays there or is lost.  And Dropped *)
(* lists what can lose anything: a copy that writes to a broken hop, a      *)
(* reset of the first hop or the last (a write from the other side that was *)
(* lost, or a close that left something unread), the end of the session.    *)
Dropped(e) ==
  \/ \E c \in {FirstCopy(e), SecondCopy(e)} : copying[c] = "copying" /\ Broken(Sink[c])
  \/ Lost(Peer(e))' > Lost(Peer(e))
  \/ \E h \in {OutHop(Peer(e)), InHop(e)} : gone'[h] /\ buf'[h] > 0
  \/ ~session'
LostFor(e) ==
  /\ Lost(e)' >= Lost(e)
  /\ \A h \in {OutHop(e), InHop(Peer(e))} :
       gone[h] /\ buf[h] > 0 => buf'[h] > 0 \/ Lost(e)' > Lost(e)
  /\ Lost(e)' = Lost(e) \/ Dropped(e)

LEMMA LostSums ==
  ASSUME NEW e \in Ends, NEW p, p = Peer(e)
  PROVE  /\ Lost(e) = sent[e] - (got[p] + (buf[OutHop(e)] + One(hand[FirstCopy(e)])
                         + buf[MidHop(e)] + One(hand[SecondCopy(e)]) + buf[InHop(p)]))
         /\ Lost(e)' = sent'[e] - (got'[p] + (buf'[OutHop(e)] + One(hand[FirstCopy(e)])'
                         + buf'[MidHop(e)] + One(hand[SecondCopy(e)])' + buf'[InHop(p)]))
BY DEF Lost, InFlight

\* A step that only empties hops, or drops what a copy holds.
LEMMA OnlyDrops ==
  ASSUME Typed, Typed', NEW e \in Ends, sent'[e] = sent[e], got'[Peer(e)] = got[Peer(e)],
         \A h \in {OutHop(e), MidHop(e), InHop(Peer(e))} : buf'[h] = buf[h] \/ buf'[h] = 0,
         \A c \in {FirstCopy(e), SecondCopy(e)} : hand'[c] = hand[c] \/ ~hand'[c]
  PROVE  /\ Lost(e)' >= Lost(e)
         /\ \A h \in {OutHop(e), InHop(Peer(e))} :
              gone[h] /\ buf[h] > 0 => buf'[h] > 0 \/ Lost(e)' > Lost(e)
         /\ \A c \in {FirstCopy(e), SecondCopy(e)} : hand[c] /\ ~hand'[c] => Lost(e)' > Lost(e)
         /\ (/\ \A h \in {OutHop(e), MidHop(e), InHop(Peer(e))} : buf'[h] = buf[h]
             /\ \A c \in {FirstCopy(e), SecondCopy(e)} : hand'[c] <=> hand[c])
              => Lost(e)' = Lost(e)
<1> DEFINE p == Peer(e)
<1>1. One(hand[FirstCopy(e)])' <= One(hand[FirstCopy(e)])
  BY DEF One
<1>2. One(hand[SecondCopy(e)])' <= One(hand[SecondCopy(e)])
  BY DEF One
<1>3. /\ buf[OutHop(e)] \in Nat /\ buf[MidHop(e)] \in Nat /\ buf[InHop(p)] \in Nat
      /\ One(hand[FirstCopy(e)]) \in 0..1 /\ One(hand[SecondCopy(e)]) \in 0..1
      /\ sent[e] \in Nat /\ got[p] \in Nat
  BY Counts
<1>4. /\ buf'[OutHop(e)] \in Nat /\ buf'[MidHop(e)] \in Nat /\ buf'[InHop(p)] \in Nat
      /\ One(hand[FirstCopy(e)])' \in 0..1 /\ One(hand[SecondCopy(e)])' \in 0..1
  <2>1. One(hand[FirstCopy(e)])' \in 0..1 /\ One(hand[SecondCopy(e)])' \in 0..1
    BY DEF One
  <2> QED  BY <2>1, Layout, SpliceAssumption DEF Typed
<1>a. sent'[e] = sent[e] /\ got'[p] = got[p]
  OBVIOUS
<1>b. /\ buf'[OutHop(e)] <= buf[OutHop(e)] /\ buf'[MidHop(e)] <= buf[MidHop(e)]
      /\ buf'[InHop(p)] <= buf[InHop(p)]
  BY <1>3
<1>c. /\ Lost(e) = sent[e] - (got[p] + (buf[OutHop(e)] + One(hand[FirstCopy(e)])
                       + buf[MidHop(e)] + One(hand[SecondCopy(e)]) + buf[InHop(p)]))
      /\ Lost(e)' = sent'[e] - (got'[p] + (buf'[OutHop(e)] + One(hand[FirstCopy(e)])'
                       + buf'[MidHop(e)] + One(hand[SecondCopy(e)])' + buf'[InHop(p)]))
  BY LostSums
<1> HIDE DEF p
<1>5. Lost(e)' >= Lost(e)
  BY <1>1, <1>2, <1>3, <1>4, <1>a, <1>b, <1>c
<1>6. ASSUME buf[OutHop(e)] > 0, buf'[OutHop(e)] = 0 PROVE Lost(e)' > Lost(e)
  BY <1>1, <1>2, <1>3, <1>4, <1>a, <1>b, <1>c, <1>6, SMTT(60)
<1>7. ASSUME buf[InHop(p)] > 0, buf'[InHop(p)] = 0 PROVE Lost(e)' > Lost(e)
  BY <1>1, <1>2, <1>3, <1>4, <1>a, <1>b, <1>c, <1>7
<1>8. ASSUME hand[FirstCopy(e)], ~hand'[FirstCopy(e)] PROVE Lost(e)' > Lost(e)
  <2>1. One(hand[FirstCopy(e)])' = One(hand[FirstCopy(e)]) - 1
    BY <1>8 DEF One
  <2> QED  BY <1>2, <1>3, <1>4, <1>a, <1>b, <1>c, <2>1, SMTT(60)
<1>9. ASSUME hand[SecondCopy(e)], ~hand'[SecondCopy(e)] PROVE Lost(e)' > Lost(e)
  <2>1. One(hand[SecondCopy(e)])' = One(hand[SecondCopy(e)]) - 1
    BY <1>9 DEF One
  <2> QED  BY <1>1, <1>3, <1>4, <1>a, <1>b, <1>c, <2>1, SMTT(60)
<1>10. ASSUME \A h \in {OutHop(e), MidHop(e), InHop(p)} : buf'[h] = buf[h],
              \A c \in {FirstCopy(e), SecondCopy(e)} : hand'[c] <=> hand[c]
       PROVE  Lost(e)' = Lost(e)
  <2>1. One(hand[FirstCopy(e)])' = One(hand[FirstCopy(e)])
    BY <1>10 DEF One
  <2>2. One(hand[SecondCopy(e)])' = One(hand[SecondCopy(e)])
    BY <1>10 DEF One
  <2>3. /\ buf'[OutHop(e)] = buf[OutHop(e)] /\ buf'[MidHop(e)] = buf[MidHop(e)]
        /\ buf'[InHop(p)] = buf[InHop(p)]
    BY <1>10
  <2> QED  BY <1>a, <1>c, <2>1, <2>2, <2>3
<1> QED  BY <1>3, <1>4, <1>5, <1>6, <1>7, <1>8, <1>9, <1>10 DEF p

LEMMA EndsWithHand ==
  ASSUME Typed, [Next]_vars, NEW e \in Ends,
         NEW c \in {FirstCopy(e), SecondCopy(e)}, CopyEnds(c), hand[c]
  PROVE  Lost(e)' > Lost(e)
<1>1. Typed'
  BY NextTyped
<1>2. /\ hand' = [hand EXCEPT ![c] = FALSE] /\ UNCHANGED <<buf, sent, got>>
  BY DEF CopyEnds, endVars
<1>a. {FirstCopy(e), SecondCopy(e)} \subseteq Copies
  BY Layout
<1>b. hand \in [Copies -> BOOLEAN]
  BY DEF Typed
<1>3. ASSUME NEW d \in {FirstCopy(e), SecondCopy(e)}
      PROVE  hand'[d] = hand[d] \/ ~hand'[d]
  <2>1. d \in Copies
    BY <1>a
  <2> QED  BY <1>2, <1>b, <2>1, Zenon
<1>4. ~hand'[c]
  BY <1>2, <1>a, <1>b, Zenon
<1> QED  BY <1>1, <1>2, <1>3, <1>4, OnlyDrops

LEMMA LostStep ==
  ASSUME Typed, Places, [Next]_vars, NEW e \in Ends
  PROVE  LostFor(e)
<1> DEFINE p == Peer(e)
<1>0. Typed'
  BY NextTyped
<1>a. /\ p \in Ends /\ Peer(p) = e /\ p # e /\ Ends = {e, p}
      /\ Copies = {FirstCopy(e), SecondCopy(e), FirstCopy(p), SecondCopy(p)}
      /\ {OutHop(e), MidHop(e), InHop(p), OutHop(p), MidHop(p), InHop(e)} \subseteq Hops
      /\ ChannelHops = {MidHop(e), MidHop(p)}
  BY Layout
<1>b. /\ Source[FirstCopy(e)] = OutHop(e) /\ Sink[FirstCopy(e)] = MidHop(e)
      /\ Source[SecondCopy(e)] = MidHop(e) /\ Sink[SecondCopy(e)] = InHop(p)
      /\ Source[FirstCopy(p)] = OutHop(p) /\ Sink[FirstCopy(p)] = MidHop(p)
      /\ Source[SecondCopy(p)] = MidHop(p) /\ Sink[SecondCopy(p)] = InHop(e)
      /\ Opposite[MidHop(e)] = MidHop(e) /\ Opposite[InHop(p)] = OutHop(p)
      /\ Opposite[MidHop(p)] = MidHop(p) /\ Opposite[InHop(e)] = OutHop(e)
  BY CopyEndsOf, <1>a
<1>c. /\ OutHop(e) \notin {MidHop(e), InHop(p), OutHop(p), MidHop(p), InHop(e)}
      /\ MidHop(e) \notin {OutHop(e), InHop(p), OutHop(p), MidHop(p), InHop(e)}
      /\ InHop(p) \notin {OutHop(e), MidHop(e), OutHop(p), MidHop(p), InHop(e)}
  BY HopsDistinct
<1>d. /\ FirstCopy(e) \notin {SecondCopy(e), FirstCopy(p), SecondCopy(p)}
      /\ SecondCopy(e) \notin {FirstCopy(e), FirstCopy(p), SecondCopy(p)}
  BY CopiesDistinct
<1>e. /\ buf[OutHop(e)] \in Nat /\ buf[MidHop(e)] \in Nat /\ buf[InHop(p)] \in Nat
      /\ One(hand[FirstCopy(e)]) \in 0..1 /\ One(hand[SecondCopy(e)]) \in 0..1
      /\ sent[e] \in Nat /\ got[p] \in Nat /\ Lost(e) \in Int
  BY Counts
<1>f. /\ Lost(e) = sent[e] - (got[p] + (buf[OutHop(e)] + One(hand[FirstCopy(e)])
                       + buf[MidHop(e)] + One(hand[SecondCopy(e)]) + buf[InHop(p)]))
      /\ Lost(e)' = sent'[e] - (got'[p] + (buf'[OutHop(e)] + One(hand[FirstCopy(e)])'
                       + buf'[MidHop(e)] + One(hand[SecondCopy(e)])' + buf'[InHop(p)]))
  BY LostSums
<1>g. ~gone[MidHop(e)] /\ ~gone[MidHop(p)]
  BY <1>a DEF Places, ChannelRead
<1> HIDE DEF p
<1>h. ASSUME sent'[e] = sent[e], got'[p] = got[p],
             \A h \in {OutHop(e), MidHop(e), InHop(p)} : buf'[h] = buf[h] \/ buf'[h] = 0,
             \A c \in {FirstCopy(e), SecondCopy(e)} : hand'[c] = hand[c] \/ ~hand'[c],
             \/ Dropped(e)
             \/ /\ \A h \in {OutHop(e), MidHop(e), InHop(p)} : buf'[h] = buf[h]
                /\ \A c \in {FirstCopy(e), SecondCopy(e)} : hand'[c] <=> hand[c]
      PROVE  LostFor(e)
  BY <1>0, <1>h, OnlyDrops DEF LostFor, p
<1>1. ASSUME UNCHANGED <<buf, hand, sent, got>> PROVE LostFor(e)
  BY <1>1, <1>h
<1>2. ASSUME NEW c \in Copies, CopyRead(c) PROVE LostFor(e)
  <2>1. /\ buf' = [buf EXCEPT ![Source[c]] = @ - 1] /\ hand' = [hand EXCEPT ![c] = TRUE]
        /\ ~hand[c] /\ ~gone[Source[c]] /\ UNCHANGED <<sent, got>>
    BY <1>2 DEF CopyRead, endVars
  <2>2. CASE c = FirstCopy(e)
    <3>1. /\ buf'[OutHop(e)] = buf[OutHop(e)] - 1 /\ buf'[MidHop(e)] = buf[MidHop(e)]
          /\ buf'[InHop(p)] = buf[InHop(p)]
      BY <1>a, <1>b, <1>c, <2>1, <2>2 DEF Typed
    <3>2. /\ hand'[FirstCopy(e)] /\ ~hand[FirstCopy(e)]
          /\ (hand'[SecondCopy(e)] <=> hand[SecondCopy(e)])
      BY <1>a, <1>d, <2>1, <2>2 DEF Typed
    <3>3. /\ One(hand[FirstCopy(e)])' = One(hand[FirstCopy(e)]) + 1
          /\ One(hand[SecondCopy(e)])' = One(hand[SecondCopy(e)])
      BY <3>2 DEF One
    <3>4. sent'[e] = sent[e] /\ got'[p] = got[p]
      BY <2>1
    <3>5. Lost(e)' = Lost(e)
      BY <1>e, <1>f, <3>1, <3>3, <3>4
    <3> QED  BY <1>b, <1>e, <2>1, <2>2, <3>1, <3>5 DEF LostFor, p
  <2>3. CASE c = SecondCopy(e)
    <3>1. /\ buf'[OutHop(e)] = buf[OutHop(e)] /\ buf'[MidHop(e)] = buf[MidHop(e)] - 1
          /\ buf'[InHop(p)] = buf[InHop(p)]
      BY <1>a, <1>b, <1>c, <2>1, <2>3 DEF Typed
    <3>2. /\ hand'[SecondCopy(e)] /\ ~hand[SecondCopy(e)]
          /\ (hand'[FirstCopy(e)] <=> hand[FirstCopy(e)])
      BY <1>a, <1>d, <2>1, <2>3 DEF Typed
    <3>3. /\ One(hand[SecondCopy(e)])' = One(hand[SecondCopy(e)]) + 1
          /\ One(hand[FirstCopy(e)])' = One(hand[FirstCopy(e)])
      BY <3>2 DEF One
    <3>4. sent'[e] = sent[e] /\ got'[p] = got[p]
      BY <2>1
    <3>5. Lost(e)' = Lost(e)
      BY <1>e, <1>f, <3>1, <3>3, <3>4
    <3> QED  BY <1>b, <1>e, <2>1, <2>3, <3>1, <3>5 DEF LostFor, p
  <2>4. CASE c \in {FirstCopy(p), SecondCopy(p)}
    <3>1. \A h \in {OutHop(e), MidHop(e), InHop(p)} : buf'[h] = buf[h]
      BY <1>a, <1>b, <1>c, <2>1, <2>4 DEF Typed
    <3>2. \A d \in {FirstCopy(e), SecondCopy(e)} : hand'[d] = hand[d]
      BY <1>a, <1>d, <2>1, <2>4 DEF Typed
    <3> QED  BY <1>h, <2>1, <3>1, <3>2
  <2> QED  BY <1>a, <2>2, <2>3, <2>4
<1>3. ASSUME NEW c \in Copies, CopyWrite(c) PROVE LostFor(e)
  <2>1. hand' = [hand EXCEPT ![c] = FALSE] /\ hand[c] /\ UNCHANGED <<sent, got>>
    BY <1>3 DEF CopyWrite, endVars
  <2>2. CASE \/ Broken(Sink[c]) /\ UNCHANGED buf
             \/ gone[Sink[c]] /\ buf' = [buf EXCEPT ![Opposite[Sink[c]]] = 0]
    <3>1. \A h \in Hops : buf'[h] = buf[h] \/ buf'[h] = 0
      BY <2>2 DEF Typed
    <3>2. \A d \in Copies : hand'[d] = hand[d] \/ ~hand'[d]
      BY <2>1 DEF Typed
    <3>3. CASE c \in {FirstCopy(e), SecondCopy(e)}
      <4>1. Broken(Sink[c]) /\ copying[c] = "copying"
        BY <1>3, <2>2 DEF CopyWrite, Broken
      <4>2. Dropped(e)
        BY <3>3, <4>1 DEF Dropped
      <4> QED  BY <1>a, <1>h, <2>1, <3>1, <3>2, <4>2
    <3>4. CASE c \in {FirstCopy(p), SecondCopy(p)} /\ UNCHANGED buf
      <4>1. \A d \in {FirstCopy(e), SecondCopy(e)} : hand'[d] = hand[d]
        BY <1>a, <1>d, <2>1, <3>4 DEF Typed
      <4> QED  BY <1>h, <2>1, <3>4, <4>1
    <3>5. CASE c \in {FirstCopy(p), SecondCopy(p)} /\ gone[Sink[c]]
      <4>1. c = SecondCopy(p)
        BY <1>b, <1>g, <3>5
      <4>2. ~hand'[c]
        BY <2>1 DEF Typed
      <4>3. Lost(p)' > Lost(p)
        BY <1>0, <1>a, <2>1, <3>1, <3>2, <4>1, <4>2, OnlyDrops
      <4>4. Dropped(e)
        BY <4>3 DEF Dropped, p
      <4> QED  BY <1>a, <1>h, <2>1, <3>1, <3>2, <4>4
    <3> QED  BY <1>a, <2>2, <3>3, <3>4, <3>5
  <2>3. CASE buf' = [buf EXCEPT ![Sink[c]] = @ + 1]
    <3>1. CASE c = FirstCopy(e)
      <4>1. /\ buf'[OutHop(e)] = buf[OutHop(e)] /\ buf'[MidHop(e)] = buf[MidHop(e)] + 1
            /\ buf'[InHop(p)] = buf[InHop(p)]
        BY <1>a, <1>b, <1>c, <2>3, <3>1 DEF Typed
      <4>2. /\ ~hand'[FirstCopy(e)] /\ hand[FirstCopy(e)]
            /\ (hand'[SecondCopy(e)] <=> hand[SecondCopy(e)])
        BY <1>a, <1>d, <2>1, <3>1 DEF Typed
      <4>3. /\ One(hand[FirstCopy(e)])' = One(hand[FirstCopy(e)]) - 1
            /\ One(hand[SecondCopy(e)])' = One(hand[SecondCopy(e)])
        BY <4>2 DEF One
      <4>4. sent'[e] = sent[e] /\ got'[p] = got[p]
        BY <2>1
      <4>5. Lost(e)' = Lost(e)
        BY <1>e, <1>f, <4>1, <4>3, <4>4
      <4> QED  BY <1>e, <2>1, <4>1, <4>5 DEF LostFor, p
    <3>2. CASE c = SecondCopy(e)
      <4>1. /\ buf'[OutHop(e)] = buf[OutHop(e)] /\ buf'[MidHop(e)] = buf[MidHop(e)]
            /\ buf'[InHop(p)] = buf[InHop(p)] + 1
        BY <1>a, <1>b, <1>c, <2>3, <3>2 DEF Typed
      <4>2. /\ ~hand'[SecondCopy(e)] /\ hand[SecondCopy(e)]
            /\ (hand'[FirstCopy(e)] <=> hand[FirstCopy(e)])
        BY <1>a, <1>d, <2>1, <3>2 DEF Typed
      <4>3. /\ One(hand[SecondCopy(e)])' = One(hand[SecondCopy(e)]) - 1
            /\ One(hand[FirstCopy(e)])' = One(hand[FirstCopy(e)])
        BY <4>2 DEF One
      <4>4. sent'[e] = sent[e] /\ got'[p] = got[p]
        BY <2>1
      <4>5. Lost(e)' = Lost(e)
        BY <1>e, <1>f, <4>1, <4>3, <4>4
      <4> QED  BY <1>e, <2>1, <4>1, <4>5 DEF LostFor, p
    <3>3. CASE c \in {FirstCopy(p), SecondCopy(p)}
      <4>1. \A h \in {OutHop(e), MidHop(e), InHop(p)} : buf'[h] = buf[h]
        BY <1>a, <1>b, <1>c, <2>3, <3>3 DEF Typed
      <4>2. \A d \in {FirstCopy(e), SecondCopy(e)} : hand'[d] = hand[d]
        BY <1>a, <1>d, <2>1, <3>3 DEF Typed
      <4> QED  BY <1>h, <2>1, <4>1, <4>2
    <3> QED  BY <1>a, <3>1, <3>2, <3>3
  <2> QED  BY <1>3, <2>2, <2>3 DEF CopyWrite
<1>4. ASSUME NEW c \in Copies, CopyEnds(c) PROVE LostFor(e)
  <2>1. hand' = [hand EXCEPT ![c] = FALSE] /\ UNCHANGED <<buf, sent, got>>
    BY <1>4 DEF CopyEnds, endVars
  <2>2. \A d \in Copies : hand'[d] = hand[d] \/ ~hand'[d]
    BY <2>1 DEF Typed
  <2>3. CASE c \in {FirstCopy(e), SecondCopy(e)} /\ hand[c]
    <3>1. Dropped(e)
      BY <1>4, <2>3 DEF Dropped, CopyEnds
    <3> QED  BY <1>a, <1>h, <2>1, <2>2, <3>1
  <2>4. CASE ~(c \in {FirstCopy(e), SecondCopy(e)} /\ hand[c])
    <3>1. \A d \in {FirstCopy(e), SecondCopy(e)} : hand'[d] <=> hand[d]
      BY <1>a, <2>1, <2>4 DEF Typed
    <3> QED  BY <1>a, <1>h, <2>1, <2>2, <3>1
  <2> QED  BY <2>3, <2>4
<1>5. ASSUME NEW d \in Ends, UNCHANGED <<hand, sent, got>>,
             NEW in, NEW out, {in, out} = {InHop(d), OutHop(d)}, CloseSocket(in, out)
      PROVE  LostFor(e)
  <2>1. in \in Hops /\ out \in Hops /\ in # out
    BY <1>5, <1>a, <1>c, HopsDistinct
  <2>2. CASE UNCHANGED buf
    BY <1>1, <1>5, <2>2
  <2>3. CASE buf[in] > 0 /\ buf' = [buf EXCEPT ![out] = 0]
    <3>1. \A h \in {OutHop(e), MidHop(e), InHop(p)} : buf'[h] = buf[h] \/ buf'[h] = 0
      BY <1>a, <2>1, <2>3 DEF Typed
    <3>2. gone'[in] /\ buf'[in] > 0
      BY <1>5, <2>1, <2>3 DEF CloseSocket, Typed
    <3>3. CASE out \in {OutHop(e), InHop(p)}
      <4>1. in \in {OutHop(p), InHop(e)}
        BY <1>a, <1>c, <1>5, <2>1, <3>3, HopsDistinct
      <4>2. Dropped(e)
        BY <3>2, <4>1 DEF Dropped, p
      <4> QED  BY <1>5, <1>h, <3>1, <4>2
    <3>4. CASE out \notin {OutHop(e), InHop(p)}
      <4>1. out # MidHop(e)
        BY <1>a, <1>c, <1>5
      <4>2. \A h \in {OutHop(e), MidHop(e), InHop(p)} : buf'[h] = buf[h]
        BY <1>a, <2>1, <2>3, <3>4, <4>1 DEF Typed
      <4> QED  BY <1>5, <1>h, <4>2
    <3> QED  BY <3>3, <3>4
  <2> QED  BY <1>5, <2>2, <2>3 DEF CloseSocket
<1>6. CASE RelayStep
  BY <1>1, <1>5, <1>6, NearFacts
     DEF RelayStep, Accept, OpenChannel, RelayWakes, RelayClosesChannel, RelayClosesConn,
         CloseChannel, hopVars, endVars
<1>7. CASE ClientStep
  BY <1>1, <1>5, <1>7, NearFacts
     DEF ClientStep, DialLocal, ClientWakes, ClientClosesLocal, ClientClosesRemote,
         CloseChannel, hopVars, endVars
<1>8. ASSUME NEW d \in Ends, Send(d) PROVE LostFor(e)
  <2>1. /\ sent' = [sent EXCEPT ![d] = @ + 1] /\ UNCHANGED <<hand, got>>
        /\ buf' = [buf EXCEPT ![OutHop(d)] = @ + 1]
    BY <1>8 DEF Send
  <2>2. /\ d = e => sent'[e] = sent[e] + 1 /\ buf'[OutHop(e)] = buf[OutHop(e)] + 1
        /\ d = p => sent'[e] = sent[e] /\ buf'[OutHop(e)] = buf[OutHop(e)]
        /\ buf'[MidHop(e)] = buf[MidHop(e)] /\ buf'[InHop(p)] = buf[InHop(p)]
    BY <1>a, <1>c, <2>1 DEF Typed
  <2> QED  BY <1>a, <1>e, <2>1, <2>2 DEF LostFor, Lost, InFlight, p
<1>9. ASSUME NEW d \in Ends, Receive(d) PROVE LostFor(e)
  <2>1. /\ got' = [got EXCEPT ![d] = @ + 1] /\ UNCHANGED <<hand, sent>>
        /\ buf' = [buf EXCEPT ![InHop(d)] = @ - 1] /\ ~gone[InHop(d)]
    BY <1>9 DEF Receive
  <2>2. /\ d = p => got'[p] = got[p] + 1 /\ buf'[InHop(p)] = buf[InHop(p)] - 1
        /\ d = e => got'[p] = got[p] /\ buf'[InHop(p)] = buf[InHop(p)]
        /\ buf'[MidHop(e)] = buf[MidHop(e)] /\ buf'[OutHop(e)] = buf[OutHop(e)]
    BY <1>a, <1>c, <2>1 DEF Typed
  <2> QED  BY <1>a, <1>e, <2>1, <2>2 DEF LostFor, Lost, InFlight, p
<1>10. ASSUME NEW d \in Ends, HangUp(d) PROVE LostFor(e)
  BY <1>1, <1>5, <1>10 DEF HangUp, endVars
<1>11. CASE LoseSession
  <2>1. \A h \in {OutHop(e), MidHop(e), InHop(p)} : buf'[h] = buf[h] \/ buf'[h] = 0
    BY <1>11, <1>a DEF LoseSession, Typed
  <2>2. Dropped(e)
    BY <1>11 DEF LoseSession, Dropped
  <2> QED  BY <1>11, <1>h, <2>1, <2>2 DEF LoseSession, endVars
<1>12. CASE UNCHANGED vars
  BY <1>1, <1>12 DEF vars, hopVars, endVars
<1>13. ASSUME NEW c \in Copies, Signal(c) PROVE LostFor(e)
  BY <1>1, <1>13 DEF Signal, hopVars, endVars
<1> QED
  BY <1>2, <1>3, <1>4, <1>6, <1>7, <1>8, <1>9, <1>10, <1>11, <1>12, <1>13
     DEF Next, CopyStep, EndStep

(* What is closed stays closed, what has ended stays ended, and what was    *)
(* refused is never started.                                               *)
Ended(c) == copying[c] \in {"signal", "finished"}
Refused == \E d \in Ends : Gone(d) /\ copying[FirstCopy(d)] = "unstarted"

LEMMA EofStays ==
  ASSUME Typed, [Next]_vars, NEW h \in Hops, eof[h]
  PROVE  eof'[h]
<1> USE DEF Typed
<1>1. ASSUME NEW in, NEW out, CloseSocket(in, out) PROVE eof'[h]
  BY <1>1 DEF CloseSocket
<1>2. CASE CloseChannel
  BY <1>2 DEF CloseChannel
<1>3. ASSUME NEW c \in Copies, CopyStep(c) PROVE eof'[h]
  BY <1>3, Zenon DEF CopyStep, CopyRead, CopyWrite, CopyEnds, Signal, hopVars
<1>4. CASE RelayStep
  BY <1>1, <1>2, <1>4 DEF RelayStep, Accept, OpenChannel, RelayWakes, RelayClosesChannel,
     RelayClosesConn, hopVars
<1>5. CASE ClientStep
  BY <1>1, <1>2, <1>5 DEF ClientStep, DialLocal, ClientWakes, ClientClosesLocal,
     ClientClosesRemote, hopVars
<1>6. ASSUME NEW d \in Ends, EndStep(d) PROVE eof'[h]
  BY <1>1, <1>6 DEF EndStep, Send, Receive, HangUp
<1>7. CASE LoseSession
  BY <1>7 DEF LoseSession
<1> QED  BY <1>3, <1>4, <1>5, <1>6, <1>7 DEF Next, vars, hopVars

LEMMA GoneStays ==
  ASSUME Typed, [Next]_vars, NEW h \in Hops, gone[h]
  PROVE  gone'[h]
BY GoneStep DEF CloseSocket, Typed

LEMMA SessionLost ==
  ASSUME [Next]_vars, session'
  PROVE  session
<1>1. CASE LoseSession
  BY <1>1 DEF LoseSession
<1> QED
  BY <1>1 DEF Next, vars, CopyStep, CopyRead, CopyWrite, CopyEnds, Signal,
     RelayStep, Accept, OpenChannel, RelayWakes, RelayClosesChannel, RelayClosesConn,
     ClientStep, DialLocal, ClientWakes, ClientClosesLocal, ClientClosesRemote,
     EndStep, Send, Receive, HangUp

(* The places of a copy, from one step to the next.                         *)
LEMMA CopyingStep ==
  ASSUME Typed, Started, [Next]_vars, NEW c \in Copies
  PROVE  \/ copying'[c] = copying[c]
         \/ copying[c] = "unstarted" /\ handler[Handler(c)] = "open" /\ ~Ended(c)'
         \/ copying[c] = "copying" /\ CopyEnds(c)
         \/ Ended(c) /\ Ended(c)'
<1> DEFINE Goal == \/ copying'[c] = copying[c]
                   \/ copying[c] = "unstarted" /\ handler[Handler(c)] = "open" /\ ~Ended(c)'
                   \/ copying[c] = "copying" /\ CopyEnds(c)
                   \/ Ended(c) /\ Ended(c)'
<1> USE DEF Typed
<1>1. CASE UNCHANGED copying
  BY <1>1
<1>2. ASSUME NEW d \in Copies, CopyStep(d) PROVE Goal
  <2>1. CASE CopyEnds(d)
    BY <2>1 DEF CopyEnds
  <2>2. CASE Signal(d)
    BY <2>2 DEF Signal, Ended
  <2> QED  BY <1>1, <1>2, <2>1, <2>2 DEF CopyStep, CopyRead, CopyWrite
<1>3. CASE OpenChannel
  BY <1>1, <1>3 DEF OpenChannel, Started, Ended
<1>4. CASE DialLocal
  BY <1>1, <1>4 DEF DialLocal, Start, Started, Ended
<1>5. CASE RelayStep
  BY <1>1, <1>3, <1>5 DEF RelayStep, Accept, RelayWakes, RelayClosesChannel, RelayClosesConn
<1>6. CASE ClientStep
  BY <1>1, <1>4, <1>6 DEF ClientStep, ClientWakes, ClientClosesLocal, ClientClosesRemote
<1>7. CASE LoseSession \/ UNCHANGED vars \/ \E d \in Ends : EndStep(d)
  BY <1>1, <1>7 DEF LoseSession, vars, EndStep, Send, Receive, HangUp
<1> QED  BY <1>2, <1>5, <1>6, <1>7 DEF Next

LEMMA RefusedStays ==
  ASSUME Typed, Started, [Next]_vars, Refused
  PROVE  Refused'
<1>1. PICK d \in Ends : Gone(d) /\ copying[FirstCopy(d)] = "unstarted"
  BY DEF Refused
<1>2. FirstCopy(d) \in Copies /\ Handler(FirstCopy(d)) = Near(d)
  BY Layout, CopyEndsOf
<1>3. copying'[FirstCopy(d)] = "unstarted"
  BY <1>1, <1>2, CopyingStep DEF Gone, CopyEnds, Ended
<1>4. Gone(d)'
  BY <1>1, NextStarted
<1> QED  BY <1>3, <1>4 DEF Refused

(* A closed and empty hop stays empty.                                      *)
LEMMA StaysEmpty ==
  ASSUME Typed, [Next]_vars, NEW h \in Hops, eof[h], buf[h] = 0
  PROVE  buf'[h] = 0
<1> USE HopsListed DEF Typed
<1>1. ASSUME NEW in, NEW out, CloseSocket(in, out) PROVE buf'[h] = 0
  BY <1>1 DEF CloseSocket
<1>2. CASE UNCHANGED buf
  BY <1>2
<1>3. ASSUME NEW c \in Copies, CopyStep(c) PROVE buf'[h] = 0
  <2>1. CASE CopyRead(c)
    BY <2>1 DEF CopyRead
  <2>2. CASE CopyWrite(c)
    BY <2>2 DEF CopyWrite, Broken
  <2> QED  BY <1>2, <1>3, <2>1, <2>2 DEF CopyStep, CopyEnds, Signal, hopVars
<1>4. CASE RelayStep
  BY <1>1, <1>2, <1>4 DEF RelayStep, Accept, OpenChannel, RelayWakes, RelayClosesChannel,
     RelayClosesConn, CloseChannel, hopVars
<1>5. CASE ClientStep
  BY <1>1, <1>2, <1>5 DEF ClientStep, DialLocal, ClientWakes, ClientClosesLocal,
     ClientClosesRemote, CloseChannel, hopVars
<1>6. ASSUME NEW d \in Ends, EndStep(d) PROVE buf'[h] = 0
  <2>1. CASE Send(d)
    BY <2>1 DEF Send, Broken
  <2>2. CASE Receive(d)
    BY <2>2 DEF Receive
  <2> QED  BY <1>1, <1>2, <1>6, <2>1, <2>2 DEF EndStep, HangUp
<1>7. CASE LoseSession
  BY <1>7 DEF LoseSession
<1> QED  BY <1>2, <1>3, <1>4, <1>5, <1>6, <1>7 DEF Next, vars, hopVars

(* Who begins to close, and why; who closes the channel.                    *)
Closing == {"close", "closeLast", "finished"}

LEMMA ClosingStep ==
  ASSUME Typed, Started, [Next]_vars,
         NEW x \in Handlers, handler'[x] \in Closing, handler[x] \notin Closing
  PROVE  signals[x] > 0 \/ ~session \/ Refused'
<1> USE HopsListed DEF Typed, Closing
<1>1. CASE UNCHANGED handler
  BY <1>1
<1>2. ASSUME NEW d \in Ends, x = Near(d), handler'[x] \in {"closeLast", "finished"},
             copying'[FirstCopy(d)] = "unstarted"
      PROVE  Refused'
  BY <1>2 DEF Refused, Gone
<1>3. ASSUME NEW d \in Ends, x = Near(d), handler[x] \in {"unstarted", "open"}
      PROVE  copying[FirstCopy(d)] = "unstarted"
  BY <1>3, Layout, CopyEndsOf DEF Started
<1>4. \A d \in Ends : x # Near(d) => \E f \in Ends : x = Near(f)
  BY NearFacts
<1>5. CASE RelayStep
  <2>1. CASE Accept \/ (OpenChannel /\ Goto("relay", "closeLast") /\ UNCHANGED copying)
    <3>1. x = "relay" /\ handler[x] \in {"unstarted", "open"} /\ UNCHANGED copying
          /\ handler'[x] \in {"closeLast", "finished"}
      BY <2>1 DEF Accept, OpenChannel, Goto
    <3> QED  BY <1>2, <1>3, <3>1, NearFacts
  <2>2. CASE handler' = [handler EXCEPT !["relay"] = "wait", !["client"] = "open"]
    BY <2>2
  <2>3. CASE RelayWakes
    BY <2>3 DEF RelayWakes, Goto
  <2>4. CASE RelayClosesChannel \/ RelayClosesConn
    BY <2>4 DEF RelayClosesChannel, RelayClosesConn, Goto
  <2> QED  BY <1>5, <2>1, <2>2, <2>3, <2>4 DEF RelayStep, OpenChannel
<1>6. CASE ClientStep
  <2>1. CASE DialLocal /\ Goto("client", "closeLast") /\ UNCHANGED copying
    <3>1. x = "client" /\ handler[x] = "open" /\ UNCHANGED copying
          /\ handler'[x] = "closeLast"
      BY <2>1 DEF DialLocal, Goto
    <3> QED  BY <1>2, <1>3, <3>1, NearFacts
  <2>2. CASE Goto("client", "wait")
    BY <2>2 DEF Goto
  <2>3. CASE ClientWakes
    BY <2>3 DEF ClientWakes, FirstDone, Goto
  <2>4. CASE ClientClosesLocal \/ ClientClosesRemote
    BY <2>4 DEF ClientClosesLocal, ClientClosesRemote, Goto
  <2> QED  BY <1>6, <2>1, <2>2, <2>3, <2>4 DEF ClientStep, DialLocal
<1> QED
  BY <1>1, <1>5, <1>6 DEF Next, vars, CopyStep, CopyRead, CopyWrite, CopyEnds, Signal,
     EndStep, Send, Receive, HangUp, LoseSession

LEMMA MidEofStep ==
  ASSUME Typed, [Next]_vars, NEW d \in Ends, eof'[MidHop(d)], ~eof[MidHop(d)]
  PROVE  \/ ~session'
         \/ \E x \in Handlers : handler[x] \in Closing
         \/ CopyEnds(FirstCopy(d))
<1> USE HopsListed DEF Typed
<1>1. ~UNCHANGED eof
  OBVIOUS
<1>2. \A f \in Ends : MidHop(d) # OutHop(f) /\ MidHop(d) # InHop(f)
  BY DEF MidHop, OutHop, InHop
<1>3. ASSUME NEW f \in Ends, CloseSocket(OutHop(f), InHop(f)) \/ CloseSocket(InHop(f), OutHop(f))
      PROVE  FALSE
  BY <1>2, <1>3 DEF CloseSocket
<1>4. ASSUME NEW c \in Copies, CopyStep(c) PROVE CopyEnds(FirstCopy(d))
  <2>1. CopyEnds(c)
    BY <1>1, <1>4 DEF CopyStep, CopyRead, CopyWrite, Signal, hopVars
  <2>2. eof' = [eof EXCEPT !["relay-client"] = @ \/ c = <<"relay", "up">>]
    BY <2>1 DEF CopyEnds
  <2>3. MidHop(d) = "relay-client" /\ c = <<"relay", "up">>
    BY <2>2
  <2>4. d = "caddy"
    BY <2>3, NearFacts
  <2> QED  BY <2>1, <2>3, <2>4, HandlersOf
<1>5. CASE RelayStep
  BY <1>1, <1>3, <1>5, NearFacts DEF RelayStep, Accept, OpenChannel, RelayWakes,
     RelayClosesChannel, RelayClosesConn, Closing, hopVars
<1>6. CASE ClientStep
  BY <1>1, <1>3, <1>6, NearFacts DEF ClientStep, DialLocal, ClientWakes,
     ClientClosesLocal, ClientClosesRemote, Closing, hopVars
<1>7. ASSUME NEW f \in Ends, EndStep(f) PROVE FALSE
  BY <1>1, <1>2, <1>3, <1>7 DEF EndStep, Send, Receive, HangUp
<1>8. CASE LoseSession
  BY <1>8 DEF LoseSession
<1> QED  BY <1>1, <1>4, <1>5, <1>6, <1>7, <1>8 DEF Next, vars, hopVars

(* An end that is tidy has not hung up and has lost nothing, nor can what   *)
(* it sent be lost any more: nothing of it lies in a hop that is closed.    *)
Tidy(e) ==
  /\ session /\ ~HungUp(e) /\ ~Refused
  /\ Lost(e) = 0
  /\ gone[OutHop(e)] => buf[OutHop(e)] = 0
  /\ gone[InHop(Peer(e))] => buf[InHop(Peer(e))] = 0

(* While it is, the connection comes down in one order only, from its peer: *)
(* the peer's end of stream, the copy that reads it, the channel, the copy  *)
(* that writes to the tidy end, its own handler; and each of these has      *)
(* passed everything on before.  The other direction ends after that.       *)
FlowOf(e, p) ==
  /\ handler[Near(e)] \in Closing => Ended(SecondCopy(p))
  /\ handler[Near(p)] \in Closing => Ended(FirstCopy(p))
  /\ eof[MidHop(p)] \/ eof[MidHop(e)] => Ended(FirstCopy(p))
  /\ Ended(SecondCopy(p)) => eof[MidHop(p)] /\ buf[MidHop(p)] = 0
  /\ Ended(FirstCopy(p)) => eof[OutHop(p)] /\ buf[OutHop(p)] = 0
  /\ Ended(SecondCopy(e)) => eof[MidHop(e)]
  /\ Ended(FirstCopy(e)) => gone[OutHop(e)]
  /\ Lost(p) = 0
Flow == \A e \in Ends : Tidy(e) => FlowOf(e, Peer(e))

SInv == Typed /\ Places /\ Conserved /\ Flow

LEMMA InitSInv == Init => SInv
<1> SUFFICES ASSUME Init PROVE SInv
  OBVIOUS
<1>1. Typed /\ Places
  BY InitTyped
<1>2. \A e \in Ends : Lost(e) = 0
  <2>1. ASSUME NEW e \in Ends PROVE Lost(e) = 0
    <3> DEFINE p == Peer(e)
    <3>1. buf[OutHop(e)] = 0 /\ buf[MidHop(e)] = 0 /\ buf[InHop(p)] = 0
      BY Layout DEF Init
    <3>2. ~hand[FirstCopy(e)] /\ ~hand[SecondCopy(e)]
      BY Layout DEF Init
    <3>3. One(hand[FirstCopy(e)]) = 0 /\ One(hand[SecondCopy(e)]) = 0
      BY <3>2 DEF One
    <3>4. sent[e] = 0 /\ got[p] = 0
      BY Layout DEF Init
    <3> QED  BY <3>1, <3>3, <3>4, LostSums
  <2> QED  BY <2>1
<1>3. ASSUME NEW e \in Ends PROVE FlowOf(e, Peer(e))
  BY <1>2, <1>3, Layout DEF Init, FlowOf, Ended, Closing
<1> QED  BY <1>1, <1>2, <1>3 DEF SInv, Conserved, Flow

LEMMA NextConserved ==
  ASSUME Typed, Places, Conserved, [Next]_vars
  PROVE  Conserved'
<1>1. ASSUME NEW e \in Ends PROVE Lost(e)' >= 0
  <2>1. Lost(e)' >= Lost(e) /\ Lost(e) >= 0
    BY LostStep DEF LostFor, Conserved
  <2>2. Lost(e) \in Int /\ Lost(e)' \in Int
    <3>1. Typed'
      BY NextTyped
    <3>2. Lost(e) \in Int
      BY Counts
    <3>3. \A b : One(b) \in 0..1
      BY DEF One
    <3>4. /\ One(hand[FirstCopy(e)])' \in Nat /\ One(hand[SecondCopy(e)])' \in Nat
      BY DEF One
    <3>5. /\ sent'[e] \in Nat /\ got'[Peer(e)] \in Nat /\ buf'[OutHop(e)] \in Nat
          /\ buf'[MidHop(e)] \in Nat /\ buf'[InHop(Peer(e))] \in Nat
      BY <3>1, Layout, SpliceAssumption DEF Typed
    <3> QED  BY <3>2, <3>4, <3>5, LostSums
  <2> QED  BY <2>1, <2>2
<1> QED  BY <1>1 DEF Conserved

(* Tidiness is never regained.                                             *)
LEMMA TidyBefore ==
  ASSUME Typed, Places, Conserved, [Next]_vars, NEW e \in Ends, Tidy(e)'
  PROVE  Tidy(e) /\ Lost(e)' = Lost(e)
<1> DEFINE p == Peer(e)
<1>1. {OutHop(e), InHop(e), InHop(p)} \subseteq Hops
  BY Layout
<1>2. session
  BY SessionLost DEF Tidy
<1>3. ~HungUp(e)
  BY <1>1, EofStays, GoneStays DEF Tidy, HungUp
<1>4. ~Refused
  BY RefusedStays DEF Tidy, Places
<1>5. Lost(e) = 0 /\ Lost(e)' = 0
  <2>1. Lost(e)' = 0 /\ Lost(e)' >= Lost(e) /\ Lost(e) >= 0 /\ Lost(e) \in Int
    BY LostStep, Counts DEF Tidy, LostFor, Conserved
  <2> QED  BY <2>1
<1>6. ASSUME NEW h \in {OutHop(e), InHop(p)}, gone[h] PROVE buf[h] = 0
  <2>1. gone'[h] /\ buf'[h] = 0
    BY <1>1, <1>6, GoneStays DEF Tidy
  <2>2. ~(buf[h] > 0)
    BY <1>5, <1>6, <2>1, LostStep DEF LostFor
  <2> QED  BY <1>1, <2>2, SpliceAssumption DEF Typed
<1> QED  BY <1>2, <1>3, <1>4, <1>5, <1>6 DEF Tidy

LEMMA NextFlow ==
  ASSUME SInv, [Next]_vars, NEW e \in Ends, Tidy(e)'
  PROVE  FlowOf(e, Peer(e))'
<1> DEFINE p == Peer(e)
<1>1. Typed /\ Places /\ Conserved /\ HandsEmpty /\ ChannelRead /\ ClosedByHandler /\ Started
      /\ Signalled
  BY DEF SInv, Places
<1>2. Tidy(e) /\ Lost(e)' = Lost(e)
  BY <1>1, TidyBefore
<1>3. FlowOf(e, p)
  BY <1>2 DEF SInv, Flow
<1>a. /\ p \in Ends /\ Peer(p) = e /\ Handlers = {Near(e), Near(p)}
      /\ Copies = {FirstCopy(e), SecondCopy(e), FirstCopy(p), SecondCopy(p)}
      /\ {OutHop(e), MidHop(e), InHop(p), OutHop(p), MidHop(p), InHop(e)} \subseteq Hops
      /\ {FirstCopy(e), SecondCopy(e), FirstCopy(p), SecondCopy(p)} \subseteq Copies
      /\ Near(e) # Near(p)
  BY Layout
<1>b. /\ Source[FirstCopy(e)] = OutHop(e) /\ Sink[FirstCopy(e)] = MidHop(e)
      /\ Source[SecondCopy(e)] = MidHop(e) /\ Sink[SecondCopy(e)] = InHop(p)
      /\ Source[FirstCopy(p)] = OutHop(p) /\ Sink[FirstCopy(p)] = MidHop(p)
      /\ Source[SecondCopy(p)] = MidHop(p) /\ Sink[SecondCopy(p)] = InHop(e)
      /\ Handler(FirstCopy(e)) = Near(e) /\ Handler(SecondCopy(e)) = Near(p)
      /\ Handler(FirstCopy(p)) = Near(p) /\ Handler(SecondCopy(p)) = Near(e)
  BY CopyEndsOf, <1>a
<1> HIDE DEF p
<1>c. /\ session /\ ~gone[InHop(e)] /\ ~eof[OutHop(e)] /\ session' /\ ~Refused'
  BY <1>2 DEF Tidy, HungUp
<1>d. ~gone[MidHop(e)] /\ ~gone[MidHop(p)]
  BY <1>1, <1>a DEF ChannelRead
<1>e. /\ handler[Near(e)] \in Closing => Ended(SecondCopy(p))
      /\ handler[Near(p)] \in Closing => Ended(FirstCopy(p))
      /\ eof[MidHop(p)] \/ eof[MidHop(e)] => Ended(FirstCopy(p))
      /\ Ended(SecondCopy(p)) => eof[MidHop(p)] /\ buf[MidHop(p)] = 0
      /\ Ended(FirstCopy(p)) => eof[OutHop(p)] /\ buf[OutHop(p)] = 0
      /\ Ended(SecondCopy(e)) => eof[MidHop(e)]
      /\ Ended(FirstCopy(e)) => gone[OutHop(e)]
      /\ Lost(p) = 0
  BY <1>3 DEF FlowOf
\* Once a handler is done with a connection, it is closing it.
<1>f. \A d \in Ends : gone[OutHop(d)] \/ eof[InHop(d)] => handler[Near(d)] \in Closing
  BY <1>1 DEF ClosedByHandler, Gone, Closing
\* What has ended stays so, and what newly ends is a copy that returns.
<1>g. ASSUME NEW c \in Copies
      PROVE  /\ Ended(c) => Ended(c)'
             /\ Ended(c)' /\ ~Ended(c) => CopyEnds(c) /\ copying[c] = "copying"
  BY <1>1, CopyingStep DEF Ended
<1>h. ASSUME NEW c \in Copies, ~(hand[c] /\ Broken(Sink[c])), CopyEnds(c)
      PROVE  gone[Source[c]] \/ (eof[Source[c]] /\ buf[Source[c]] = 0)
  BY <1>h DEF CopyEnds, ReadEnds
\* No copy of what the peer sent finds its hop broken.
<1>i. ~Ended(FirstCopy(p)) => ~Broken(MidHop(p))
  BY <1>d, <1>e DEF Broken
<1>j. ~Ended(SecondCopy(p)) => ~Broken(InHop(e))
  BY <1>c, <1>e, <1>f DEF Broken
\* No copy of what the tidy end sent is cut off with a chunk in its hand.
<1>k. ASSUME NEW c \in {FirstCopy(e), SecondCopy(e)}, CopyEnds(c)
      PROVE  gone[Source[c]] \/ eof[Source[c]]
  <2>1. ~(Lost(e)' > Lost(e))
    <3>1. Lost(e) = 0
      BY <1>2 DEF Tidy
    <3> QED  BY <1>2, <3>1
  <2>2. ~hand[c]
    BY <1>1, <1>k, <2>1, EndsWithHand
  <2> QED  BY <1>a, <1>h, <1>k, <2>2
<1>l. \A h \in Hops : eof[h] => eof'[h] /\ (buf[h] = 0 => buf'[h] = 0)
  BY <1>1, EofStays, StaysEmpty
<1>m. \A h \in Hops : gone[h] => gone'[h]
  BY <1>1, GoneStays
<1>n. \A x \in Handlers : signals[x] > 0 => \E c \in Copies : Handler(c) = x /\ Ended(c)
  BY <1>1 DEF Signalled, Ended
<1>4. handler'[Near(e)] \in Closing => Ended(SecondCopy(p))'
  <2>1. CASE handler[Near(e)] \in Closing
    BY <1>a, <1>e, <1>g, <2>1
  <2>2. ASSUME handler'[Near(e)] \in Closing, handler[Near(e)] \notin Closing
        PROVE  Ended(SecondCopy(p))
    <3>1. signals[Near(e)] > 0
      BY <1>1, <1>a, <1>c, <2>2, ClosingStep
    <3>2. Ended(FirstCopy(e)) \/ Ended(SecondCopy(p))
      BY <1>a, <1>b, <1>n, <3>1
    <3> QED  BY <1>e, <1>f, <2>2, <3>2
  <2> QED  BY <1>a, <1>g, <2>1, <2>2
<1>5. handler'[Near(p)] \in Closing => Ended(FirstCopy(p))'
  <2>1. CASE handler[Near(p)] \in Closing
    BY <1>a, <1>e, <1>g, <2>1
  <2>2. ASSUME handler'[Near(p)] \in Closing, handler[Near(p)] \notin Closing
        PROVE  Ended(FirstCopy(p))
    <3>1. signals[Near(p)] > 0
      BY <1>1, <1>a, <1>c, <2>2, ClosingStep
    <3>2. Ended(FirstCopy(p)) \/ Ended(SecondCopy(e))
      BY <1>a, <1>b, <1>n, <3>1
    <3> QED  BY <1>e, <3>2
  <2> QED  BY <1>a, <1>g, <2>1, <2>2
<1>6. ASSUME NEW d \in Ends, eof'[MidHop(d)] PROVE Ended(FirstCopy(p))'
  <2>0. d \in {e, p}
    BY Layout DEF p
  <2>1. CASE Ended(FirstCopy(p))
    BY <1>a, <1>g, <2>1
  <2>2. CASE eof[MidHop(d)]
    BY <1>a, <1>e, <1>g, <2>0, <2>2
  <2>3. ASSUME NEW x \in Handlers, handler[x] \in Closing PROVE Ended(FirstCopy(p))
    BY <1>a, <1>e, <2>3
  <2>4. ASSUME CopyEnds(FirstCopy(d)), ~Ended(FirstCopy(p)) PROVE Ended(FirstCopy(p))'
    <3>1. CASE d = p
      <4>1. copying'[FirstCopy(p)] = "signal"
        BY <1>1, <1>a, <2>4, <3>1 DEF CopyEnds, Typed
      <4> QED  BY <4>1 DEF Ended
    <3>2. CASE d = e
      <4>1. gone[OutHop(e)]
        BY <1>b, <1>c, <1>k, <2>4, <3>2
      <4> QED  BY <1>a, <1>e, <1>f, <2>4, <4>1
    <3> QED  BY <2>0, <3>1, <3>2
  <2> QED  BY <1>1, <1>a, <1>c, <1>6, <2>1, <2>2, <2>3, <2>4, MidEofStep
<1>7. Ended(SecondCopy(p))' => eof'[MidHop(p)] /\ buf'[MidHop(p)] = 0
  <2>1. CASE Ended(SecondCopy(p))
    BY <1>a, <1>e, <1>l, <2>1
  <2>2. ASSUME Ended(SecondCopy(p))', ~Ended(SecondCopy(p))
        PROVE  eof[MidHop(p)] /\ buf[MidHop(p)] = 0
    BY <1>a, <1>b, <1>d, <1>g, <1>h, <1>j, <2>2
  <2> QED  BY <1>a, <1>l, <2>1, <2>2
<1>8. Ended(FirstCopy(p))' => eof'[OutHop(p)] /\ buf'[OutHop(p)] = 0
  <2>1. CASE Ended(FirstCopy(p))
    BY <1>a, <1>e, <1>l, <2>1
  <2>2. ASSUME Ended(FirstCopy(p))', ~Ended(FirstCopy(p))
        PROVE  eof[OutHop(p)] /\ buf[OutHop(p)] = 0
    <3>1. ~gone[OutHop(p)]
      BY <1>a, <1>e, <1>f, <2>2
    <3> QED  BY <1>a, <1>b, <1>g, <1>h, <1>i, <2>2, <3>1
  <2> QED  BY <1>a, <1>l, <2>1, <2>2
<1>9. Ended(SecondCopy(e))' => eof'[MidHop(e)]
  <2>1. CASE Ended(SecondCopy(e))
    BY <1>a, <1>e, <1>l, <2>1
  <2>2. ASSUME Ended(SecondCopy(e))', ~Ended(SecondCopy(e)) PROVE eof[MidHop(e)]
    BY <1>a, <1>b, <1>d, <1>g, <1>k, <2>2
  <2> QED  BY <1>a, <1>l, <2>1, <2>2
<1>10. Ended(FirstCopy(e))' => gone'[OutHop(e)]
  <2>1. CASE Ended(FirstCopy(e))
    BY <1>a, <1>e, <1>m, <2>1
  <2>2. ASSUME Ended(FirstCopy(e))', ~Ended(FirstCopy(e)) PROVE gone[OutHop(e)]
    BY <1>a, <1>b, <1>c, <1>g, <1>k, <2>2
  <2> QED  BY <1>a, <1>m, <2>1, <2>2
<1>11. Lost(p)' = 0
  <2>1. ~\E c \in {FirstCopy(p), SecondCopy(p)} : copying[c] = "copying" /\ Broken(Sink[c])
    <3>1. \A c \in Copies : copying[c] = "copying" => ~Ended(c)
      BY DEF Ended
    <3> QED  BY <1>a, <1>b, <1>i, <1>j, <3>1
  <2>2. ~(Lost(e)' > Lost(e))
    <3>1. Lost(e) = 0
      BY <1>2 DEF Tidy
    <3> QED  BY <1>2, <3>1
  <2>3. ~\E h \in {OutHop(e), InHop(p)} : gone'[h] /\ buf'[h] > 0
    BY DEF Tidy, p
  <2>4. ~Dropped(p)
    BY <1>a, <1>c, <2>1, <2>2, <2>3 DEF Dropped
  <2>5. LostFor(p)
    BY <1>1, <1>a, LostStep
  <2> QED  BY <1>e, <2>4, <2>5 DEF LostFor
<1> QED
  BY <1>4, <1>5, <1>6, <1>7, <1>8, <1>9, <1>10, <1>11, <1>a DEF FlowOf, p

(* The invariant.                                                          *)
THEOREM SpliceInvariant == Spec => []SInv
<1>1. ASSUME SInv, [Next]_vars PROVE SInv'
  <2>1. Typed /\ Places /\ Conserved
    BY <1>1 DEF SInv
  <2>2. Typed'
    BY <1>1, <2>1, NextTyped
  <2>3. Places'
    BY <1>1, <2>1, NextHandsEmpty, NextChannelRead, NextClosedByHandler, NextStarted,
       NextSignalled DEF Places
  <2>4. Conserved'
    BY <1>1, <2>1, NextConserved
  <2>5. Flow'
    BY <1>1, NextFlow DEF Flow
  <2> QED  BY <2>2, <2>3, <2>4, <2>5 DEF SInv
<1> QED  BY <1>1, InitSInv, PTL DEF Spec

(* Every variable keeps its range, and no end reads more than its peer has  *)
(* sent.                                                                   *)
THEOREM SpliceTypeOK == Spec => []TypeOK
<1>1. ASSUME SInv PROVE TypeOK
  <2>1. Typed
    BY <1>1 DEF SInv
  <2>2. ASSUME NEW e \in Ends PROVE sent[e] \in 0..MaxChunks[e] /\ got[e] \in 0..sent[Peer(e)]
    <3>1. Peer(e) \in Ends /\ e = Peer(Peer(e))
      BY Layout
    <3>2. sent[e] \in Nat /\ sent[e] <= MaxChunks[e] /\ MaxChunks[e] \in Nat
      BY <2>1, SpliceAssumption DEF Typed
    <3>3. Lost(Peer(e)) >= 0
      BY <1>1, <3>1 DEF SInv, Conserved
    <3>4. /\ buf[OutHop(Peer(e))] \in Nat /\ buf[MidHop(Peer(e))] \in Nat /\ buf[InHop(e)] \in Nat
          /\ One(hand[FirstCopy(Peer(e))]) \in 0..1 /\ One(hand[SecondCopy(Peer(e))]) \in 0..1
          /\ sent[Peer(e)] \in Nat /\ got[e] \in Nat
      BY <2>1, <3>1, Counts
    <3>5. Lost(Peer(e)) = sent[Peer(e)]
            - (got[e] + (buf[OutHop(Peer(e))] + One(hand[FirstCopy(Peer(e))])
               + buf[MidHop(Peer(e))] + One(hand[SecondCopy(Peer(e))]) + buf[InHop(e)]))
      BY <3>1, LostSums
    <3>6. got[e] <= sent[Peer(e)]
      BY <3>3, <3>4, <3>5
    <3> QED  BY <3>2, <3>4, <3>6
  <2> QED  BY <2>1, <2>2 DEF Typed, TypeOK
<1> QED  BY <1>1, SpliceInvariant, PTL

(* Closing on the first copy that ends costs an end nothing it was due: if  *)
(* it did not hang up itself, the session lived and all it sent was read,   *)
(* then at the end of its stream it has read all that its peer sent.        *)
THEOREM SpliceNothingLost == Spec => []NothingLost
<1>1. ASSUME SInv PROVE NothingLost
  <2>1. SUFFICES ASSUME NEW e \in Ends, AtEnd(e), session, got[Peer(e)] = sent[e], ~HungUp(e)
                 PROVE  got[e] = sent[Peer(e)]
    BY DEF NothingLost
  <2> DEFINE p == Peer(e)
  <2>2. Typed /\ Conserved /\ ClosedByHandler /\ Started /\ HandsEmpty
    BY <1>1 DEF SInv, Places
  <2>3. p \in Ends /\ Peer(p) = e
    BY Layout
  <2>4. /\ buf[OutHop(p)] \in Nat /\ buf[MidHop(p)] \in Nat /\ buf[InHop(e)] \in Nat
        /\ One(hand[FirstCopy(p)]) \in 0..1 /\ One(hand[SecondCopy(p)]) \in 0..1
        /\ sent[p] \in Nat /\ got[e] \in Nat /\ Lost(p) >= 0
        /\ Lost(p) = sent[p] - (got[e] + (buf[OutHop(p)] + One(hand[FirstCopy(p)])
                       + buf[MidHop(p)] + One(hand[SecondCopy(p)]) + buf[InHop(e)]))
    BY <2>2, <2>3, Counts, LostSums DEF Conserved
  <2>5. /\ buf[OutHop(e)] \in Nat /\ buf[MidHop(e)] \in Nat /\ buf[InHop(p)] \in Nat
        /\ One(hand[FirstCopy(e)]) \in 0..1 /\ One(hand[SecondCopy(e)]) \in 0..1
        /\ sent[e] \in Nat /\ got[p] \in Nat /\ Lost(e) >= 0
        /\ Lost(e) = sent[e] - (got[p] + (buf[OutHop(e)] + One(hand[FirstCopy(e)])
                       + buf[MidHop(e)] + One(hand[SecondCopy(e)]) + buf[InHop(p)]))
    BY <2>2, Counts, LostSums DEF Conserved
  <2>6. eof[InHop(e)] /\ buf[InHop(e)] = 0 /\ Gone(e)
    BY <2>1, <2>2 DEF AtEnd, ClosedByHandler
  <2> HIDE DEF p
  \* A refused connection: the service has had no connection, or has it still.
  <2>7. CASE Refused
    <3>1. copying[FirstCopy("service")] = "unstarted"
      <4>1. PICK d \in Ends : Gone(d) /\ copying[FirstCopy(d)] = "unstarted"
        BY <2>7 DEF Refused
      <4>2. CASE d = "caddy"
        <5>1. handler["client"] = "unstarted"
          BY <2>2, <4>1, <4>2 DEF Started
        <5> QED  BY <2>2, <5>1, HandlersOf, CopiesListed DEF Started
      <4> QED  BY <4>1, <4>2, NearFacts
    <3>2. sent["service"] = 0
      BY <2>2, <3>1 DEF Started
    <3>3. e # "service"
      BY <2>2, <2>6, <3>1 DEF ClosedByHandler
    <3>4. p = "service"
      BY <2>3, <3>3, NearFacts DEF p, Peer
    <3>5. sent[p] = 0
      BY <3>2, <3>4
    <3>6. got[e] = 0
      <4>1. got[e] <= sent[p]
        BY <2>4, SMTT(60)
      <4> QED  BY <2>4, <3>5, <4>1
    <3> QED  BY <3>5, <3>6 DEF p
  <2>8. CASE ~Refused
    <3>1. Lost(e) = 0 /\ buf[OutHop(e)] = 0 /\ buf[InHop(p)] = 0
      <4>1. got[p] = sent[e]
        BY <2>1 DEF p
      <4> QED  BY <2>5, <4>1
    <3>2. Tidy(e)
      BY <2>1, <2>8, <3>1 DEF Tidy, p
    <3>3. FlowOf(e, p)
      BY <1>1, <3>2 DEF SInv, Flow, p
    <3>4. Ended(SecondCopy(p)) /\ buf[MidHop(p)] = 0 /\ eof[MidHop(p)]
      BY <2>6, <3>3 DEF FlowOf, Gone, Closing
    <3>5. Ended(FirstCopy(p)) /\ buf[OutHop(p)] = 0 /\ Lost(p) = 0
      BY <3>3, <3>4 DEF FlowOf
    <3>6. ~hand[FirstCopy(p)] /\ ~hand[SecondCopy(p)]
      BY <2>2, <2>3, <3>4, <3>5, Layout DEF HandsEmpty, Ended
    <3>7. One(hand[FirstCopy(p)]) = 0 /\ One(hand[SecondCopy(p)]) = 0
      BY <3>6 DEF One
    <3>8. got[e] = sent[p]
      BY <2>4, <2>6, <3>4, <3>5, <3>7
    <3> QED  BY <3>8 DEF p
  <2> QED  BY <2>7, <2>8
<1> QED  BY <1>1, SpliceInvariant, PTL
=============================================================================
