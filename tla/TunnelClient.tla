---------------------------- MODULE TunnelClient ----------------------------
(***************************************************************************)
(* fedproxy-client: get a key, get a token, publish the key as a record,    *)
(* then hold an SSH tunnel to the relay for ever, dialling again one second *)
(* after each one ends.                                                    *)
(*                                                                         *)
(* The process may be told to stop or be killed at any point, between the   *)
(* two halves of a file write too, and be started again; its key file and   *)
(* its records outlive it.  Around it: the relay, which knows the records   *)
(* as of its last listing (KeyAuth), may refuse a forward (ForwardSync) and  *)
(* may answer nothing for as long as it likes (AcceptLoop: a connection     *)
(* behind Capacity others is accepted by TCP and never greeted); the        *)
(* network, which may lose a connection with neither end noticing until TCP *)
(* gives up.                                                               *)
(***************************************************************************)
EXTENDS Naturals

CONSTANTS
  Keys,          \* keys there are to generate, a bound on generations
  NoKey, Torn,   \* the key file: missing; or cut short by a crash
  Regenerate,    \* SSH_KEY_REGENERATE is "true"
  MaxStarts, MaxKills, MaxLosses, MaxRefusals, MaxSilences    \* bounds

ASSUME TunnelAssumption ==
  /\ NoKey \notin Keys /\ Torn \notin Keys /\ NoKey # Torn
  /\ Regenerate \in BOOLEAN
  /\ MaxStarts \in Nat /\ MaxKills \in Nat /\ MaxLosses \in Nat /\ MaxRefusals \in Nat
  /\ MaxSilences \in Nat

VARIABLES
  file,       \* what is at SSH_KEY_PATH
  records,    \* the keys published for the service at the user's PDS
  known,      \* those the relay has listed
  silent,     \* the relay answers nothing, neither a handshake nor a request
  pc,         \* the process; "off" when there is none
  key,        \* its signer
  unused,     \* keys nobody has generated yet
  stop,       \* its context is done (SIGINT, SIGTERM)
  conn,       \* its SSH connection: "none", "up", "lost" (silently) or "broken"
  listening,  \* its remote listener is registered
  starts, kills, losses, refusals, silences

diskVars == <<file, unused>>
processVars == <<pc, key, stop, conn, listening>>
relayVars == <<known, silent>>
boundVars == <<starts, kills, losses, refusals, silences>>
vars == <<diskVars, records, relayVars, processVars, boundVars>>

StartPlaces == {"load", "write", "token", "record"}
TunnelPlaces == {"dial", "listen", "accept", "close", "pause"}

TypeOK ==
  /\ file \in Keys \cup {NoKey, Torn}
  /\ records \subseteq Keys /\ known \subseteq Keys /\ unused \subseteq Keys
  /\ pc \in StartPlaces \cup TunnelPlaces \cup {"off", "exited"}
  /\ key \in Keys \cup {NoKey}
  /\ stop \in BOOLEAN /\ listening \in BOOLEAN /\ silent \in BOOLEAN
  /\ conn \in {"none", "up", "lost", "broken"}
  /\ starts \in 0..MaxStarts /\ kills \in 0..MaxKills
  /\ losses \in 0..MaxLosses /\ refusals \in 0..MaxRefusals
  /\ silences \in 0..MaxSilences

Init ==
  /\ file = NoKey
  /\ records = {} /\ known = {} /\ unused = Keys /\ silent = FALSE
  /\ pc = "off" /\ key = NoKey /\ stop = FALSE /\ conn = "none" /\ listening = FALSE
  /\ starts = 0 /\ kills = 0 /\ losses = 0 /\ refusals = 0 /\ silences = 0

Goto(place) == pc' = place

-----------------------------------------------------------------------------
(* Start-up: every error is fatal.                                         *)

\* Slip: a key file that does not parse is taken for a key.
KeyOnDisk_Unparsed == file # NoKey

KeyOnDisk == file \in Keys

\* Slip: a key that was on disk is taken to be published.
AfterOldKey_Dial == "dial"

AfterOldKey == "token"

\* ensureSSHKey: the key on disk, or a new one, whose file is first truncated ...
LoadKey ==
  /\ pc = "load"
  /\ \/ /\ KeyOnDisk /\ ~Regenerate
        /\ key' = file
        /\ Goto(AfterOldKey)
        /\ UNCHANGED diskVars
     \/ /\ ~KeyOnDisk \/ Regenerate
        /\ \E k \in unused : key' = k /\ unused' = unused \ {k}
        /\ file' = Torn
        /\ Goto("write")
  /\ UNCHANGED <<records, relayVars, stop, conn, listening, boundVars>>

\* ... and then written.
WriteKey ==
  /\ pc = "write"
  /\ file' = key
  /\ Goto("token")
  /\ UNCHANGED <<unused, records, relayVars, key, stop, conn, listening, boundVars>>

GetToken ==
  /\ pc = "token" /\ ~stop
  /\ Goto("record")
  /\ UNCHANGED <<diskVars, records, relayVars, key, stop, conn, listening, boundVars>>

Published == records \cup {key}

CreateRecord ==
  /\ pc = "record" /\ ~stop
  /\ records' = Published
  /\ Goto("dial")
  /\ UNCHANGED <<diskVars, relayVars, key, stop, conn, listening, boundVars>>

\* logFatal: a file cannot be written, a request fails (all of them once the
\* context is done); createRecord may have been carried out.
Fatal ==
  /\ pc \in StartPlaces
  /\ records' \in IF pc = "record" THEN {records, Published} ELSE {records}
  /\ Goto("exited")
  /\ UNCHANGED <<diskVars, relayVars, key, stop, conn, listening, boundVars>>

-----------------------------------------------------------------------------
(* runTunnel.                                                              *)

\* Slip: a key the relay refuses is a fatal error.
AfterRefusal_Fatal == "exited"

AfterRefusal == "pause"

\* ssh.Dial: TCP's 30 seconds end with the connection, and the handshake has
\* neither a deadline nor the context: it waits for a silent relay.  One that
\* answers goes by the records it has listed.
Dial ==
  /\ pc = "dial" /\ ~silent
  /\ \/ /\ key \in known
        /\ conn' = "up"
        /\ Goto("listen")
     \/ /\ key \notin known
        /\ Goto(AfterRefusal)
        /\ UNCHANGED conn
  /\ UNCHANGED <<diskVars, records, relayVars, key, stop, listening, boundVars>>

\* Or no connection can be made, or it ends before the handshake does.
DialFails ==
  /\ pc = "dial" /\ refusals < MaxRefusals
  /\ refusals' = refusals + 1
  /\ Goto(AfterRefusal)
  /\ UNCHANGED <<diskVars, records, relayVars, key, stop, conn, listening, starts, kills, losses, silences>>

\* client.Listen sends tcpip-forward and waits for the reply, true or false, or
\* for the end of the connection.
Listen ==
  /\ pc = "listen"
  /\ \/ /\ conn = "up" /\ ~silent
        /\ listening' = TRUE
        /\ Goto("accept")
        /\ UNCHANGED refusals
     \/ /\ conn = "up" /\ ~silent /\ refusals < MaxRefusals
        /\ refusals' = refusals + 1
        /\ Goto("close")
        /\ UNCHANGED listening
     \/ /\ conn = "broken"
        /\ Goto("close")
        /\ UNCHANGED <<listening, refusals>>
  /\ UNCHANGED <<diskVars, records, relayVars, key, stop, conn, starts, kills, losses, silences>>

\* Slips: nobody watches the context; nobody watches the connection.
ShouldClose_Broken == conn = "broken"
ShouldClose_Stopped == stop

\* What closes the listener: the goroutine that waits for the context, and the
\* one whose keepalive fails, or the end of the connection itself.
ShouldClose == stop \/ conn = "broken"

CloseListener ==
  /\ pc = "accept" /\ listening
  /\ ShouldClose
  /\ listening' = FALSE
  /\ UNCHANGED <<diskVars, records, relayVars, pc, key, stop, conn, boundVars>>

\* Accept fails once the listener is closed, and runTunnel returns.
AcceptFails ==
  /\ pc = "accept" /\ ~listening
  /\ Goto("close")
  /\ UNCHANGED <<diskVars, records, relayVars, key, stop, conn, listening, boundVars>>

\* The deferred calls: ln.Close waits for the reply to cancel-tcpip-forward, or
\* for the end of the connection; only then comes client.Close.
Close ==
  /\ pc = "close"
  /\ conn = "broken" \/ (conn = "up" /\ ~silent)
  /\ conn' = "none"
  /\ Goto("pause")
  /\ UNCHANGED <<diskVars, records, relayVars, key, stop, listening, boundVars>>

\* main's loop: one second, or the end of the context.
Pause ==
  /\ pc = "pause"
  /\ Goto(IF stop THEN "exited" ELSE "dial")
  /\ UNCHANGED <<diskVars, records, relayVars, key, stop, conn, listening, boundVars>>

StartStep == LoadKey \/ WriteKey \/ GetToken \/ CreateRecord \/ Fatal
TunnelStep == Dial \/ Listen \/ CloseListener \/ AcceptFails \/ Close \/ Pause

-----------------------------------------------------------------------------
(* Around the process (external).                                          *)

Start ==
  /\ pc \in {"off", "exited"} /\ starts < MaxStarts
  /\ starts' = starts + 1
  /\ key' = NoKey /\ stop' = FALSE
  /\ Goto("load")
  /\ UNCHANGED <<diskVars, records, relayVars, conn, listening, kills, losses, refusals, silences>>

Signal ==
  /\ pc \in StartPlaces \cup TunnelPlaces /\ ~stop
  /\ stop' = TRUE
  /\ UNCHANGED <<diskVars, records, relayVars, pc, key, conn, listening, boundVars>>

Kill ==
  /\ pc \in StartPlaces \cup TunnelPlaces /\ kills < MaxKills
  /\ kills' = kills + 1
  /\ key' = NoKey /\ conn' = "none" /\ listening' = FALSE
  /\ Goto("off")
  /\ UNCHANGED <<diskVars, records, relayVars, stop, starts, losses, refusals, silences>>

\* The connection stops carrying anything; or the relay closes it.
Lose ==
  /\ conn = "up" /\ losses < MaxLosses
  /\ losses' = losses + 1
  /\ conn' \in {"lost", "broken"}
  /\ UNCHANGED <<diskVars, records, relayVars, pc, key, stop, listening, starts, kills, refusals, silences>>

\* TCP gives up on what it has sent, a keepalive or a request.
GiveUp ==
  /\ conn = "lost"
  /\ conn' = "broken"
  /\ UNCHANGED <<diskVars, records, relayVars, pc, key, stop, listening, boundVars>>

\* The relay's cached listing expires, and it lists again.
Relist ==
  /\ known # records
  /\ known' = records
  /\ UNCHANGED <<diskVars, records, silent, processVars, boundVars>>

\* The relay stops answering (it hangs, or all its slots are taken) and, some
\* time or never, goes on.
FallSilent ==
  /\ ~silent /\ silences < MaxSilences
  /\ silences' = silences + 1
  /\ silent' = TRUE
  /\ UNCHANGED <<diskVars, records, known, processVars, starts, kills, losses, refusals>>

AnswerAgain ==
  /\ silent
  /\ silent' = FALSE
  /\ UNCHANGED <<diskVars, records, known, processVars, boundVars>>

-----------------------------------------------------------------------------
Next ==
  \/ StartStep \/ TunnelStep \/ DialFails
  \/ Start \/ Signal \/ Kill
  \/ Lose \/ GiveUp \/ Relist \/ FallSilent \/ AnswerAgain

Spec == Init /\ [][Next]_vars

(* The process runs, TCP gives up in the end on a connection that carries    *)
(* nothing, and cached listings expire.  Nothing makes a silent relay answer *)
(* or a dial fail, and nothing makes anybody start the process.              *)
FairSpec ==
  /\ Spec
  /\ WF_vars(StartStep) /\ WF_vars(TunnelStep)
  /\ WF_vars(GiveUp) /\ WF_vars(Relist)

-----------------------------------------------------------------------------
(* Properties.                                                             *)

\* Whatever was torn, killed or regenerated before, the key a process dials
\* with has been published: a key left on disk by a process that died before
\* createRecord is published by the next one.
DialsPublishedKey == pc \in TunnelPlaces => key \in records

\* The process waits, with nothing to end the wait, for an answer of a relay
\* that gives none: to the handshake, to tcpip-forward or to cancel-tcpip-forward.
AwaitsSilentRelay ==
  silent /\ (pc = "dial" \/ (pc \in {"listen", "close"} /\ conn = "up"))

\* A process that was not told to stop and lost its tunnel, or was refused, has
\* one again, or waits for ever for a relay that never answers again: nothing
\* after start-up is fatal, not even a relay that has not heard of the key yet,
\* and no dead connection is waited on for ever.
TunnelComesBack ==
  (pc \in TunnelPlaces /\ ~stop) ~>
    (pc = "accept" /\ conn = "up") \/ stop \/ pc = "off" \/ []AwaitsSilentRelay

\* A process told to stop exits, wherever it is, unless the relay owes it an
\* answer and never gives it: ssh.Dial and ln.Close do not heed the context.
StopHeeded == stop ~> pc \in {"exited", "off"} \/ []AwaitsSilentRelay
=============================================================================
