---------------------------- MODULE SessionStore ----------------------------
(***************************************************************************)
(* What the webapp's AppStore promises to its callers, in memory or in a    *)
(* database.  A caller asks for a session of an identity, by its id or for  *)
(* the most recent one.  By its id it is given that session as it was saved *)
(* last.  The most recent one was saved since the identity's newest login,  *)
(* or by the clock at the same instant as that login; it need not be the    *)
(* newest login's own, because an older session may be saved again (its     *)
(* tokens were refreshed).  "None" is answered only when there is none.     *)
(***************************************************************************)
CONSTANTS
  Dids, Sids, DidOf,   \* identities; sessions; whose each session is
  Clients,             \* who reads
  Data, NoData, SidOf  \* what a session holds; the session it belongs to

VARIABLES
  content,   \* what was saved last for each session
  recent,    \* per identity: the sessions that count as its most recent
  instant,   \* sessions saved since the store's clock moved last
  asked,     \* per client: the identity and perhaps the session it asks for
  answer,    \* per client: what it was given last
  unknown    \* the clients that were told there is no session

vars == <<content, recent, instant, asked, answer, unknown>>
storeVars == <<content, recent, instant>>

Init ==
  /\ content = [i \in Sids |-> NoData]
  /\ recent = [d \in Dids |-> {}]
  /\ instant = {}
  /\ asked = [c \in Clients |-> NoData]
  /\ answer = [c \in Clients |-> NoData]
  /\ unknown = {}

Ask(c) ==
  /\ \E d \in Dids, s \in Sids \cup {NoData} :
       asked' = [asked EXCEPT ![c] = [did |-> d, sid |-> s]]
  /\ UNCHANGED <<storeVars, answer, unknown>>

Answer(c, x) ==
  /\ asked[c] # NoData /\ x # NoData
  /\ answer' = [answer EXCEPT ![c] = x]
  /\ asked' = [asked EXCEPT ![c] = NoData]
  /\ UNCHANGED <<storeVars, unknown>>

Get(c) == asked[c] # NoData /\ asked[c].sid # NoData /\ Answer(c, content[asked[c].sid])

GetRecent(c) == asked[c] # NoData /\ \E i \in recent[asked[c].did] : Answer(c, content[i])

GetNone(c) ==
  /\ asked[c] # NoData
  /\ \A i \in Sids : DidOf[i] = asked[c].did => content[i] = NoData
  /\ unknown' = unknown \cup {c}
  /\ asked' = [asked EXCEPT ![c] = NoData]
  /\ UNCHANGED <<storeVars, answer>>

\* The session that was given is read once more.
GetAgain(c) ==
  /\ answer[c] # NoData
  /\ LET again == content[SidOf[answer[c]]]
     IN  again # NoData /\ answer' = [answer EXCEPT ![c] = again]
  /\ UNCHANGED <<storeVars, asked, unknown>>

\* The client is done with what it was given.
Forget(c) ==
  /\ answer' = [answer EXCEPT ![c] = NoData]
  /\ UNCHANGED <<storeVars, asked, unknown>>

\* A failure: the client is given nothing, and is not told that there is none.
Fail(c) ==
  /\ asked' = [asked EXCEPT ![c] = NoData]
  /\ UNCHANGED <<storeVars, answer, unknown>>

\* What is saved becomes the identity's most recent, beside those of the same
\* instant; a session that is not new may keep its place instead.
Save(x) ==
  LET i == SidOf[x]
  IN  /\ content' = [content EXCEPT ![i] = x]
      /\ \/ recent' = [recent EXCEPT ![DidOf[i]] = {i} \cup (@ \cap instant)]
         \/ content[i] # NoData /\ UNCHANGED recent
      /\ instant' = instant \cup {i} \/ instant' = {}
      /\ UNCHANGED <<asked, answer, unknown>>

Tick ==
  /\ instant' = {}
  /\ UNCHANGED <<content, recent, asked, answer, unknown>>

\* The process ends, and with it a store in memory.
Restart ==
  /\ \/ UNCHANGED storeVars
     \/ /\ content' = [i \in Sids |-> NoData]
        /\ recent' = [d \in Dids |-> {}]
        /\ instant' = {}
  /\ asked' = [c \in Clients |-> NoData]
  /\ answer' = [c \in Clients |-> NoData]
  /\ UNCHANGED unknown

Next ==
  \/ \E c \in Clients :
       Ask(c) \/ Get(c) \/ GetRecent(c) \/ GetNone(c) \/ Fail(c) \/ GetAgain(c) \/ Forget(c)
  \/ \E x \in Data : Save(x)
  \/ Tick \/ Restart

Spec == Init /\ [][Next]_vars
=============================================================================
