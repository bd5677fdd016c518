---------------------------- MODULE TunnelSplice ----------------------------
(***************************************************************************)
(* One connection through the tunnel: Caddy's connection to the forward's   *)
(* socket, the relay's handleTCPConn, an SSH channel, the client's forward, *)
(* and a connection to the local service.                                  *)
(*                                                                         *)
(* Data are counted, not named: every hop is first in, first out.  A hop is *)
(* one direction of one of the three connections.  Each io.Copy is a        *)
(* goroutine that holds at most one chunk between a read and a write.       *)
(***************************************************************************)
EXTENDS Naturals

CONSTANTS
  MaxChunks,    \* bound, per end: chunks it sends
  Capacity      \* bound: chunks in a hop (socket buffer, channel window)

Ends == {"caddy", "service"}

ASSUME SpliceAssumption == MaxChunks \in [Ends -> Nat] /\ Capacity \in Nat \ {0}

Peer(e) == IF e = "caddy" THEN "service" ELSE "caddy"

(* The six hops, by who writes and who reads.                              *)
Hops == {"caddy-relay", "relay-client", "client-service",
         "service-client", "client-relay", "relay-caddy"}
OutHop(e) == IF e = "caddy" THEN "caddy-relay" ELSE "service-client"
InHop(e) == IF e = "caddy" THEN "relay-caddy" ELSE "client-service"

Handlers == {"relay", "client"}
Copies == Handlers \X {"up", "down"}      \* up: towards the service
Handler(c) == c[1]
Source == [c \in Copies |->
  CASE c = <<"relay", "up">> -> "caddy-relay" [] c = <<"relay", "down">> -> "client-relay"
    [] c = <<"client", "up">> -> "relay-client" [] c = <<"client", "down">> -> "service-client"]
Sink == [c \in Copies |->
  CASE c = <<"relay", "up">> -> "relay-client" [] c = <<"relay", "down">> -> "relay-caddy"
    [] c = <<"client", "up">> -> "client-service" [] c = <<"client", "down">> -> "client-relay"]

VARIABLES
  session,     \* the SSH connection lives; on the relay, ctx is not done
  buf,         \* per hop: chunks written and not read
  eof,         \* per hop: its writer has closed, nothing follows
  gone,        \* per hop: its reader has closed, nothing more is read
  hand,        \* per copy: it holds a chunk
  copying,     \* per copy: place
  handler,     \* per handler: place
  signals,     \* per handler: values in its done channel
  sent, got    \* per end: chunks it has sent, chunks it has read

hopVars == <<buf, eof, gone>>
endVars == <<sent, got>>
vars == <<session, hopVars, hand, copying, handler, signals, endVars>>

TypeOK ==
  /\ session \in BOOLEAN
  /\ buf \in [Hops -> 0..Capacity]
  /\ eof \in [Hops -> BOOLEAN] /\ gone \in [Hops -> BOOLEAN]
  /\ hand \in [Copies -> BOOLEAN]
  /\ copying \in [Copies -> {"unstarted", "copying", "signal", "finished"}]
  /\ handler \in [Handlers -> {"unstarted", "open", "wait", "close", "closeLast", "finished"}]
  /\ signals \in [Handlers -> 0..2]
  /\ \A e \in Ends : sent[e] \in 0..MaxChunks[e] /\ got[e] \in 0..sent[Peer(e)]

\* Caddy has connected to the socket and waits in its backlog.
Init ==
  /\ session = TRUE
  /\ buf = [h \in Hops |-> 0]
  /\ eof = [h \in Hops |-> FALSE] /\ gone = [h \in Hops |-> FALSE]
  /\ hand = [c \in Copies |-> FALSE]
  /\ copying = [c \in Copies |-> "unstarted"]
  /\ handler = [x \in Handlers |-> "unstarted"]
  /\ signals = [x \in Handlers |-> 0]
  /\ sent = [e \in Ends |-> 0] /\ got = [e \in Ends |-> 0]

(* A socket closed by its owner: what it wrote is still delivered, what it  *)
(* has not read is not; and then the kernel resets the connection, which    *)
(* may also take what it wrote.                                            *)
CloseSocket(in, out) ==
  /\ eof' = [eof EXCEPT ![out] = TRUE]
  /\ gone' = [gone EXCEPT ![in] = TRUE]
  /\ \/ UNCHANGED buf
     \/ buf[in] > 0 /\ buf' = [buf EXCEPT ![out] = 0]

(* ssh.Channel.Close by either side, or the connection's mux at its end:    *)
(* both sides read what has arrived and then the end; writes no longer get  *)
(* through.                                                                *)
ChannelHops == {"relay-client", "client-relay"}
CloseChannel ==
  /\ eof' = [h \in Hops |-> eof[h] \/ h \in ChannelHops]
  /\ UNCHANGED <<buf, gone>>

Goto(x, place) == handler' = [handler EXCEPT ![x] = place]
Start(x) == copying' = [c \in Copies |-> IF Handler(c) = x THEN "copying" ELSE copying[c]]

-----------------------------------------------------------------------------
(* io.Copy.                                                                *)

CopyRead(c) ==
  /\ copying[c] = "copying" /\ ~hand[c]
  /\ buf[Source[c]] > 0 /\ ~gone[Source[c]]
  /\ buf' = [buf EXCEPT ![Source[c]] = @ - 1]
  /\ hand' = [hand EXCEPT ![c] = TRUE]
  /\ UNCHANGED <<session, eof, gone, copying, handler, signals, endVars>>

Broken(h) == eof[h] \/ gone[h]

\* Slip: a write does not wait for room.
Room_Always(h) == TRUE

Room(h) == buf[h] < Capacity

(* A write that the other side no longer takes may still seem to succeed;   *)
(* on a socket it resets the connection.                                   *)
Opposite == [h \in Hops |->
  CASE h = "relay-caddy" -> "caddy-relay" [] h = "client-service" -> "service-client"
    [] OTHER -> h]
CopyWrite(c) ==
  /\ copying[c] = "copying" /\ hand[c]
  /\ \/ /\ ~Broken(Sink[c]) /\ Room(Sink[c])
        /\ buf' = [buf EXCEPT ![Sink[c]] = @ + 1]
     \/ Broken(Sink[c]) /\ UNCHANGED buf
     \/ gone[Sink[c]] /\ buf' = [buf EXCEPT ![Opposite[Sink[c]]] = 0]
  /\ hand' = [hand EXCEPT ![c] = FALSE]
  /\ UNCHANGED <<session, eof, gone, copying, handler, signals, endVars>>

\* The read side: closed here, or at its end.
ReadEnds(c) == gone[Source[c]] \/ (eof[Source[c]] /\ buf[Source[c]] = 0)

\* Only the relay's copy into the channel is followed by a CloseWrite.
CopyEnds(c) ==
  /\ copying[c] = "copying"
  /\ IF hand[c] THEN Broken(Sink[c]) ELSE ReadEnds(c)
  /\ hand' = [hand EXCEPT ![c] = FALSE]
  /\ eof' = [eof EXCEPT !["relay-client"] = @ \/ c = <<"relay", "up">>]
  /\ copying' = [copying EXCEPT ![c] = "signal"]
  /\ UNCHANGED <<session, buf, gone, handler, signals, endVars>>

\* Slip: done is made without a buffer; only a waiting handler receives.
SignalRoom_Unbuffered(x) == handler[x] = "wait" /\ signals[x] = 0

\* make(chan struct{}, 2)
SignalRoom(x) == signals[x] < 2

\* done <- struct{}{}
Signal(c) ==
  /\ copying[c] = "signal"
  /\ SignalRoom(Handler(c))
  /\ signals' = [signals EXCEPT ![Handler(c)] = @ + 1]
  /\ copying' = [copying EXCEPT ![c] = "finished"]
  /\ UNCHANGED <<session, hopVars, hand, handler, endVars>>

CopyStep(c) == CopyRead(c) \/ CopyWrite(c) \/ CopyEnds(c) \/ Signal(c)

-----------------------------------------------------------------------------
(* The relay: acceptTCPLoop, handleTCPConn.                                *)

\* The loop accepts; or its listener was closed first (a cancel, the end of
\* the session), and what waited in the backlog is reset.
Accept ==
  /\ handler["relay"] = "unstarted"
  /\ \/ Goto("relay", "open") /\ UNCHANGED hopVars
     \/ Goto("relay", "finished") /\ CloseSocket("caddy-relay", "relay-caddy")
  /\ UNCHANGED <<session, hand, copying, signals, endVars>>

\* OpenChannel, which the client's ssh package confirms when its listener
\* accepts (handler "client" then begins), or refuses, or which fails with
\* the connection.
OpenChannel ==
  /\ handler["relay"] = "open"
  /\ \/ /\ session
        /\ handler' = [handler EXCEPT !["relay"] = "wait", !["client"] = "open"]
        /\ copying' = [c \in Copies |-> IF Handler(c) = "relay" THEN "copying" ELSE copying[c]]
     \/ Goto("relay", "closeLast") /\ UNCHANGED copying
  /\ UNCHANGED <<session, hopVars, hand, signals, endVars>>

\* The select: the first copy that ends, or the end of the session.
RelayWakes ==
  /\ handler["relay"] = "wait"
  /\ signals["relay"] > 0 \/ ~session
  /\ Goto("relay", "close")
  /\ UNCHANGED <<session, hopVars, hand, copying, signals, endVars>>

RelayClosesChannel ==
  /\ handler["relay"] = "close"
  /\ CloseChannel
  /\ Goto("relay", "closeLast")
  /\ UNCHANGED <<session, hand, copying, signals, endVars>>

\* defer conn.Close()
RelayClosesConn ==
  /\ handler["relay"] = "closeLast"
  /\ CloseSocket("caddy-relay", "relay-caddy")
  /\ Goto("relay", "finished")
  /\ UNCHANGED <<session, hand, copying, signals, endVars>>

RelayStep == Accept \/ OpenChannel \/ RelayWakes \/ RelayClosesChannel \/ RelayClosesConn

-----------------------------------------------------------------------------
(* The client: forward.                                                    *)

DialLocal ==
  /\ handler["client"] = "open"
  /\ \/ Goto("client", "wait") /\ Start("client")
     \/ Goto("client", "closeLast") /\ UNCHANGED copying
  /\ UNCHANGED <<session, hopVars, hand, signals, endVars>>

\* Slip: the handler does not wait for its copies.
FirstDone_Now == TRUE

FirstDone == signals["client"] > 0

\* <-done
ClientWakes ==
  /\ handler["client"] = "wait"
  /\ FirstDone
  /\ Goto("client", "close")
  /\ UNCHANGED <<session, hopVars, hand, copying, signals, endVars>>

\* defer local.Close(), the first of the deferred calls to run ...
ClientClosesLocal ==
  /\ handler["client"] = "close"
  /\ CloseSocket("service-client", "client-service")
  /\ Goto("client", "closeLast")
  /\ UNCHANGED <<session, hand, copying, signals, endVars>>

\* ... and defer remote.Close().
ClientClosesRemote ==
  /\ handler["client"] = "closeLast"
  /\ CloseChannel
  /\ Goto("client", "finished")
  /\ UNCHANGED <<session, hand, copying, signals, endVars>>

ClientStep == DialLocal \/ ClientWakes \/ ClientClosesLocal \/ ClientClosesRemote

-----------------------------------------------------------------------------
(* Caddy and the local service (external).                                 *)

Connected(e) == e = "caddy" \/ copying[<<"client", "up">>] # "unstarted"

Send(e) ==
  /\ Connected(e) /\ ~Broken(OutHop(e))
  /\ sent[e] < MaxChunks[e] /\ Room(OutHop(e))
  /\ sent' = [sent EXCEPT ![e] = @ + 1]
  /\ buf' = [buf EXCEPT ![OutHop(e)] = @ + 1]
  /\ UNCHANGED <<session, eof, gone, hand, copying, handler, signals, got>>

Receive(e) ==
  /\ ~gone[InHop(e)] /\ buf[InHop(e)] > 0
  /\ buf' = [buf EXCEPT ![InHop(e)] = @ - 1]
  /\ got' = [got EXCEPT ![e] = @ + 1]
  /\ UNCHANGED <<session, eof, gone, hand, copying, handler, signals, sent>>

\* The end closes its connection, or only its write side.
HangUp(e) ==
  /\ Connected(e) /\ ~gone[InHop(e)]
  /\ \/ CloseSocket(InHop(e), OutHop(e))
     \/ ~eof[OutHop(e)] /\ eof' = [eof EXCEPT ![OutHop(e)] = TRUE] /\ UNCHANGED <<buf, gone>>
  /\ UNCHANGED <<session, hand, copying, handler, signals, endVars>>

\* The SSH connection ends; what it carried may be lost.
LoseSession ==
  /\ session
  /\ session' = FALSE
  /\ \/ UNCHANGED buf
     \/ buf' = [h \in Hops |-> IF h \in ChannelHops THEN 0 ELSE buf[h]]
  /\ eof' = [h \in Hops |-> eof[h] \/ h \in ChannelHops]
  /\ UNCHANGED <<gone, hand, copying, handler, signals, endVars>>

EndStep(e) == Send(e) \/ Receive(e) \/ HangUp(e)

Next ==
  \/ \E c \in Copies : CopyStep(c)
  \/ RelayStep \/ ClientStep
  \/ \E e \in Ends : EndStep(e)
  \/ LoseSession

Spec == Init /\ [][Next]_vars

(* Goroutines run, calls return, and an end that has not hung up reads what *)
(* comes.  Nobody has to send, close or lose anything.  One condition for   *)
(* them all is enough, and the weaker one: none of these steps can be taken *)
(* again and again.                                                        *)
FairSpec ==
  /\ Spec
  /\ WF_vars(\/ \E c \in Copies : CopyStep(c)
             \/ RelayStep \/ ClientStep
             \/ \E e \in Ends : Receive(e))

-----------------------------------------------------------------------------
(* Properties.                                                             *)

HungUp(e) == gone[InHop(e)] \/ eof[OutHop(e)]

AtEnd(e) == eof[InHop(e)] /\ buf[InHop(e)] = 0

\* An end that is at the end of its stream has read all that was sent to it,
\* if the session lived, it had not hung up itself, and nothing it sent was
\* left unread: closing on the first copy that ends (the select, <-done) cuts
\* off only what an end gave up or what crossed a hang-up.
NothingLost ==
  \A e \in Ends :
    (AtEnd(e) /\ session /\ got[Peer(e)] = sent[e] /\ ~HungUp(e))
      => got[e] = sent[Peer(e)]

Released ==
  /\ handler["relay"] = "finished" /\ handler["client"] \in {"unstarted", "finished"}
  /\ \A c \in Copies : copying[c] \in {"unstarted", "finished"}

\* Once an end has hung up or the session is gone, everything held for the
\* connection is given back, on both machines and whichever side noticed: the
\* sockets, the channel and the four goroutines (done holds two values).
EverythingReleased == (~session \/ \E e \in Ends : HungUp(e)) ~> Released
=============================================================================
