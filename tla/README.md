# TLA+ for the AT Protocol reverse proxy

The repository lets a user put a local web service on the internet: a client
holds an SSH tunnel to a relay, the relay gives the tunnel a unix socket and
tells Caddy, through Caddy's admin API, to proxy a host name to that socket.  A
web application logs users in at their PDS and lets browsers and workloads make
calls there in a user's name, as far as the user's own records allow.
This directory models the parts of it that are hard to test, checks them with
TLC on small instances and proves the safety properties with TLAPS for
all values of the constants.

Paths below are relative to `src/golang/cmd/`; `relay` stands for
`atprp-ssh-relay/main.go`, `gate` for `caddy-check-dns-from-config/main.go`,
`client` for `fedproxy-client/main.go`, `webapp` for
`oauth-client-webapp/main.go`.

## 1. Inventory

| Component | Code | State it keeps | Operations |
|---|---|---|---|
| Accept loop | relay 232-256, 284-335 | `activeConns`, `handshakeSem` | accept, count, drop at the limit, acquire a slot, run `handleSSH`, release |
| Key authentication | relay 127-183, 1158-1291 | `sshPublicKeyCache` | resolve the identity, look up, list pages of key records, store, decide, prune |
| Forwards | relay 337-439, 848-968, 1108-1153 | per session `forwards`, the socket; shared `srv.reg` | tcpip-forward, cancel-tcpip-forward, end of session |
| Reconcile loop | relay 1049-1106 | a snapshot of the registry, `appended` | every 30 s: base configuration, missing routes, catch-all |
| TLS automation | relay 505-536, 609-663, 703-773, 970-1032 | none of its own; two arrays in Caddy | read, change, write back |
| Splice | relay 441-488, client 578-590 | two copies and a channel per connection | accept, open a channel, dial, copy until one ends, close |
| Caddy (external) | `src/golang/Caddyfile` | routes, TLS app, certificates | admin API, restart, load of the Caddyfile, on-demand question |
| Certificate gate | gate 34-158 | none | read the configuration, compare the name, answer |
| Tunnel client | client 416-590, 662-766 | key file, records at the PDS, one SSH connection | key, token, record, dial, listen, keepalive, retry |
| Session stores | webapp 72-343 | OAuth sessions and logins under way, in memory (`sessions`, `didOrder`) or in a database | save, get, delete, most recent of an identity |
| Login, request sessions | webapp 344-469, 1006-1071 | cookies; tokens at the server | begin a login, call back, find and resume a session, refresh and save |
| RBAC | webapp 559-667, 851-980 | none; records at the PDS | list and join records, match subject, schema and glob |
| Workload proxy | webapp 669-824, 1107-1255 | `providerCache` and its lock | verify a token, authorise, forward an xrpc call |
| Browser UI, deployment | `src/javascript`, `scripts` | none | edit key records; install |

How they interact.  The client publishes its key as a record at the user's PDS
(through the webapp) and dials the relay.  The accept loop starts a handler,
whose handshake calls the key authentication.  Each `tcpip-forward` of a session
makes the handler write to Caddy; the reconcile loop writes the same objects
every 30 s from the registry the handlers fill.  Caddy asks the gate before it
obtains a certificate on demand, and the gate reads back what the relay wrote.
Shared memory is the relay's (registry, key cache, two counters) and the webapp's
(session store, provider cache); the rest is HTTP requests, none of them
transactional.  In the webapp handlers share sessions: each works on a copy of
the row it read and writes it back whole.

What is hard.

* Concurrency: every session and the tick run the same multi-request helpers
  against one Caddy, which has no conditional writes.  DELETE-then-POST and
  GET-then-PATCH interleave at each request.
* Failure: a request may be lost before or after Caddy has acted; Caddy restarts
  on its own and comes back empty, with its Caddyfile's server appearing some
  time after its API; a session dies at any point; the client too.
* Ordering: Caddy uses the first terminal route, POST appends, so the catch-all
  has to be moved behind each new route.  A reconnected session and the cleanup
  of its predecessor run in either order.
* Timeouts: a tick's context (30 s), a cleanup's (5 s), a key lookup's (30 s), the
  TTLs of the key cache (5 min, 30 s), the retries for srv0 (20).
* Limits: 200 connections, 50 slots.
* Choices of the Go runtime: the order of a map decides which issuer is tried first
  and which of several longest patterns is taken.

What makes each component correct: slots and counts are exact and clients get an
answer (accept loop); a key is granted for what was recently published and not
refused for long (authentication); the registry holds what is served, routes lead
to authorised sockets, a registered forward is served again after anything that
went wrong, nobody forgets a newer registration, the catch-all comes back
(forwards); foreign policies survive, the wildcard stays managed, ticks end up
reading only (TLS); a certificate is allowed for routed names only (gate); the
tunnel comes back and a signal is heeded, as far as the relay answers (client); what one end sent the other
gets, and nothing is held once one is gone (splice); both stores keep one
promise, and a session stays fit to be refreshed (sessions); what is forwarded the records
allow, what they allow is not refused, whatever the order of maps, and no request
waits for ever for another's discovery (proxy).  `PROJECT.json` lists the
hazards at their lines with the properties that watch them.

## 2. Modules

| Module | Models | Composed with |
|---|---|---|
| `ForwardRegistry` | what the relay promises about registrations (abstract) | implemented by `ForwardSync` |
| `CaddyAdmin` | srv0's routes as a sequence; DELETE and POST by id, host matching (external) | extended by `ForwardSync` |
| `ForwardSync` | sessions, reconcile loop, Caddy's and the relay's restarts | `CaddyAdmin`, `ForwardRegistry`; `Permitted` is what `KeyAuth` grants |
| `TlsAutomation` | both TLS arrays and the idle timeout | the detail behind `EnsureTLS` of `ForwardSync` |
| `KeyAuth` | callback, cache, listings, the users' edits | |
| `AcceptLoop` | limit, semaphore, life of a handler | |
| `CertGate` | the gate against a changing configuration | the relay's route writes |
| `TunnelClient` | the client's process, disk and tunnel | `Relist` stands for `KeyAuth`'s cache, refusals for the relay's |
| `TunnelSplice` | one connection from Caddy to the local service | the handlers of relay and client on one SSH connection |
| `SessionStore` | what an `AppStore` promises (abstract) | implemented by `WebSessions` |
| `WebSessions` | both stores, logins, requests, token rotation | `SessionStore` |
| `Rbac` | the decision about a request, without state, beside a definition of it over whole records | extended by `ProxyAuth` |
| `ProxyAuth` | authorising requests while records change | `Rbac`; whether a session is found is `WebSessions`' |
| `MC*` | the small instances, chosen in the `.cfg` files | |
| `*Proofs` | the theorems | |

Definitions keep the source's names where they can.  A definition that ends in
`_Something` just before the one it resembles is a *slip*: a plausible mistake in
that piece of code.  No specification uses it; each property of each passing run
is violated when one slip takes its original's place.

### ForwardSync

An actor is a session's request loop or the reconcile loop.  `pc[a]` is the place
in the code, `cur[a]` the `*forward` it works on, `ctxLive[a]` its context.  One
HTTP request is one step (`Request`): with Caddy down or the context done it
fails; otherwise it is carried out and answered, except that `MaxFaults` of them
are lost on the way in or on the way out.  A critical section under `regMu` is one
step.  The helper steps (`GetSrv0` ... `PostCatchAll`) are shared, as the functions
are: what differs after them is whether the caller is a session or the tick.

* A `*forward` is the pair of session and service.  That is faithful because a
  session has at most one whose listener is open: all its forwards listen on the
  same `tcp.sock` of its temporary directory, and a second `Listen` there fails.
* Sessions begin after a handshake that granted permissions; one that `keys_nopds`
  describes has none, and what relay 352 makes of that is not modelled.
* Queued requests are still read after the connection is gone, as the channel is
  drained before `<-ctx.Done()`.
* `EnsureTLS` is one step with an error; the calls behind it are in
  `TlsAutomation`.  The idle timeout's PATCH has no error and no route in it.
* `triggerCertIssuance` of a child wildcard returns nothing and is left out here.
* Whether Caddy refuses a second object with an id depends on its version, which
  `scripts/deploy.sh` does not pin: constant `RejectDuplicateIds`, TRUE in the runs,
  either in the proofs.
* The fallback POST may be refused by Caddy without the relay noticing, since the
  response's status is not read.
* One host per forward, as `forwardFQDNs` returns; `HostOf` is an arbitrary
  function, so two keys may share a host (the flattening is not injective) in
  everything that is proved.

* The relay's restart (`RelayRestart`) empties the registry and ends the sessions that
  were about anything, and the tick; Caddy keeps what it was told.  A session that
  has not begun stands for one of the next relay's.

`ForwardRegistry` leaves all of Caddy out: a key has an owner, a session asks, is
granted or refused, leaves, and gives up what is still its own.  The mapping
(`owner` is the registry, `stage` follows the place in the handler, `work` is
`cur` of a session) makes `Record` and `Unregister` the only steps that change an
owner; every request to Caddy and every step of the tick stutters.

### TlsAutomation, KeyAuth, AcceptLoop, CertGate, TunnelClient

`TlsAutomation`: an array is a set or `Absent`; `seen[a]` is what an actor's last
GET found.  PUT needs an absent path, PATCH a present one, else Caddy refuses.
`PoliciesKept` speaks of the time before the first restart: after it, writers may
hold copies read from the process before.

`KeyAuth`: resolving an identity may end in any way, as its document is not the
relay's; a listing takes one step per page and time may pass between them;
the clock moves only while every handshake waits for something.  `removedAt` and
`addedAt` are history for the properties.  A record that does not decode fails the
whole listing (`ListFails`), as in the code.

`AcceptLoop`: one connection is dialled once; `place` says how far it got.  The two
deferred calls of the handler goroutine are separate steps, count first.  `limit` is
chosen at the start from `Limits`: at the capacity, where connections are turned away,
and above it, as deployed (200 and 50).  There the limit is never reached, which
`AcceptLimitNeverBites` proves: the 51st client is not turned away but waits.

`CertGate`: names are sequences of characters because `hostAllows` slices
strings; the properties are stated by labels (`Covers`), which the places of the first
dots tell apart.  `known` and `always` are history for them: the matchers there at some
moment, and at every moment, since the question was asked.  Questions share no state,
so one at a time is enough.  A Caddy that runs without its Caddyfile yet answers a
fetch with no hosts, and the gate then answers no.

`TunnelClient`: every start may find a key of its own (`Regenerate`, the code's
`SSH_KEY_REGENERATE`; the run keeps the key, the proofs take either); the key file
is written in two steps so that a crash can tear it.  `conn` is "lost" when nothing
gets through and neither end knows, "broken" when the SSH mux has ended.  `silent` is a
relay that answers nothing, as one whose slots are taken does (`AcceptLoop`): the handshake
in `ssh.Dial`, `Listen` and the deferred `ln.Close` wait for it, with no deadline and
without heeding the context.

### TunnelSplice

One connection is three: Caddy to the socket, the SSH channel, the client to the
local service.  Each direction of each is a *hop* with at most `Capacity` chunks,
a flag for its writer (`eof`) and one for its reader (`gone`).  The four `io.Copy`
goroutines hold at most one chunk; `signals` is the length of the `done` channel.
Deferred calls are steps of their own, in their order.  `CloseSocket` is what the
kernel does: data that was written arrives, unless something unread makes it a reset,
which may take it; closing a channel does not discard what has arrived.  The ends may send, read,
close or half-close at any time; the session may be lost at any time.  A connection
is independent of others (each has its own goroutines and channel), so one is
modelled; the channel's and the sockets' flow control is `Capacity`.

### SessionStore and WebSessions

One login per session id (`Sids`), each begun, away at the server, called back or
never.  `rows` is what is stored, `order` the memory store's `didOrder`, `updated`
the database's column; `backend` is chosen at the start, as `main` does.  What a
session holds is its id and the generation of its refresh token; the server accepts
the current one once (`live`) and its answer may be lost after that.  A request
is found a session by its cookie or by its identity, resumes it (a second read), is
checked and sent, any number of times, with saves after new nonces and refreshes.
The callback saves twice, as the code does: once inside the library, once itself.
Nothing in the program deletes a session, so nothing in the model does.

`SessionStore` maps onto both: `content` is `rows`, `recent` what `GetSessionByDID`
may return, `asked` what a request has asked for and not yet been answered, `instant` the
sessions that the database's clock, which counts seconds, does not tell from what is
saved now.  A caller who asks by id is given that session and no other, as it was saved
last; one who asks by identity a session in that identity's `recent`; "none" is answered
only when there is none.  A login's first save makes its session the only recent one,
beside those of the same instant, so what an identity is given was saved since its newest
login or at that login's instant.  It need not be the newest login's own.  The two back
ends differ here: in memory the order is that of first saves (webapp 152), in the
database that of last saves (webapp 214), where an older login whose tokens are refreshed
comes first again.

### Rbac and ProxyAuth

A path is a sequence of characters and a pattern the sequence of its literals, as
`strings.Split(pattern, "*")` makes them.  `globMatch` looks for each literal but the
last where it first occurs behind the one before (`FirstPlaces`) and never goes back.
`MatchSchema` returns the *set* of schemas
the code may find, as it goes through a Go map; hence `MayPermit` and `MayDeny`,
which may both hold when two patterns tie.  The definition beside it says which
schemas govern a path as fnmatch does, to which webapp 947 refers: by any embedding of
the literals whose first stands where the path begins and whose last where it ends
(`Covers`).  It takes the last record to define a name (`Latest`).  `globMatch` differs
from fnmatch in two ways, so that the properties need a premise: `SchemasReadAsFnmatch`
holds of a policy that has the path for an exact key, or whose patterns are literals, or
end in a star and have their first literal at the path's beginning or nowhere in it.

In `ProxyAuth` the identity's repository has one record a page, the same number of
pages throughout; records are edited, made undecodable and removed.  A request lists it page by
page, then, with a token, tries the collected issuers in any order.  The read-write
lock of the provider cache is `writer`: reads wait for it, a discovery holds it.  A
token verifies against its own issuer only (the OIDC library is external), which may fail
for want of its keys.  `seen` and `failed` are history for the properties.

## 3. Runs

| Run | Shows | Bounds |
|---|---|---|
| `sync_safety` | `RegistryBacked`, `RoutesAuthorised`, `AnnouncedIsServed`, `NewerRegistrationKept`, `ImplementsRegistry` | 2 sessions of one user whose keys are for one and for two services, 1 request each, 1 fault, 1 restart of Caddy, restarts of the relay |
| `sync_repair` | `RegisteredGetsServed`, `CatchAllRestored`, `DisconnectedFinishes` | 1 session and the tick, a service under the catch-all, one with a child wildcard, one whose label is too long, 2 requests, 1 retry, 1 fault, 1 restart |
| `splice_release` | `NothingLost`, `EverythingReleased` | one chunk to the service, two back, one in a hop |
| `accept_limited` | `CountersExact`, `EveryConnAnswered` | 4 connections, capacity 2, limits 2 and 3 |
| `keys_recent` | `GrantRecent`, `GrantComplete` | 2 handshakes of one identity, 2 pages, 1 edit, clock to 5 |
| `tls_base` | `PoliciesKept`, `WildcardStaysManaged`, `SteadyTicksReadOnly` | 2 sessions with child wildcards, 1 fault, 1 restart |
| `gate_answers` | `AllowedWasRouted`, `DeniedWasUnrouted` | 16 matchers, 43 names of up to 5 characters, 2 changes while a question is open |
| `tunnel_keep` | `DialsPublishedKey`, `TunnelComesBack`, `StopHeeded` | 3 starts, 2 kills, 2 losses, 2 refusals, 2 silences |
| `web_sessions` | `IndexExact`, `TokensKept`, `ImplementsStore`, for both back ends | 2 logins of one identity, 2 requests, 3 generations, 2 times, 1 fault, 1 restart |
| `web_auth` | `ForwardedWasAllowed`, `DeniedWasNotAllowed`, `UnverifiedHadNoIssuer`, `DiscoveredOnce`, `RequestAnswered` | 2 requests of 7 kinds, 5 repositories of two records, 2 issuers, 1 edit |

Each run checks its module's type invariant as well (`sync_repair` excepted, its
module's is `sync_safety`'s).  The bounds keep the order the code's constants have
(TTL above negative TTL, listing shorter than TTL, limit above capacity) and allow each interesting event
at least once: two writers in one helper, a restart in the middle of it, a lost
answer, an edit between two pages.  `MaxRetries` (20 in the code) is 0 or 1: a retry
only repeats the GET.  Two chunks in one direction are the least with which one can
be in a hop and another in a copy's hand; three generations let a stale copy be
older than the refused one.  The repositories of `web_auth` let a role move to another issuer in a
later record, a policy be overridden in either order, an exact key stand against a
longer pattern, and patterns have one to three literals.  Deadlock is checked
everywhere but where all work can be done: `AcceptLoop` (all connections used up),
`TunnelClient` (the process has exited), `TunnelSplice` (all is closed), `WebSessions`
and `ProxyAuth` (all requests answered).

Some of the properties have conditions that are worth knowing:

* `AnnouncedIsServed` speaks of a forward that nothing has disturbed: no request or
  Caddy lost, its session's first, no other session on its host but those that a
  restart of the relay has ended.  Each condition
  stands for something the code lets shadow an announced route for up to a tick
  or for good; what is left is every interleaving of the sessions' and the tick's
  moves of the catch-all.
* `RegisteredGetsServed` leaves out a host under the catch-all once a request has
  been lost (`MayBeShadowed`): an append whose answer is lost is not counted by the
  tick, the catch-all stays in front of it, and later ticks find both ids.  For a
  child wildcard, which the catch-all does not match, the property holds whatever is
  lost.
* `NothingLost` promises nothing to an end that has hung up, half or fully, nor to one
  whose peer left something unread: both ends of a splice stop at the first copy
  that ends, so a half-close may cut off the other direction.
* `TokensKept` speaks of sessions that handlers used one after the other and that
  no lost answer, failed save or restart came between.  Two overlapping handlers
  can write an older token over a newer one (webapp 376, 1047); that is in the model
  and takes the session out of `clean`.
* `EveryConnAnswered` lets a client wait for good behind `Capacity` clients who stay for
  good when the limit is above the capacity, and behind nobody else: with the deployed
  numbers 50 live sessions keep the 51st client unanswered.
* `StopHeeded` and `TunnelComesBack` except a process that waits for a silent relay
  (`AwaitsSilentRelay`) and goes on waiting for ever.  Without the exception `StopHeeded`
  is false, as TLC finds: SIGINT and SIGTERM, which `NotifyContext` has taken, do not
  end a handshake or an `ln.Close` that nobody answers.
* `ForwardedWasAllowed` and `DeniedWasNotAllowed` speak of listings during which nothing
  was edited, and of policies and paths for which `globMatch` reads patterns as fnmatch
  does (`Steady`).  Elsewhere `globMatch` is not what its comment says, also for patterns
  as plain as `a*`: it looks for the first literal anywhere, so `a*` lets `bba` through,
  and being longer takes precedence there over `*`, which can allow as well as deny what
  fnmatch would not; and it wants a last literal to be all that is left, so `*b`
  does not cover `bab`.
* `ImplementsStore` says of the most recent session that it was saved since the newest
  login, not that it is that login's; see above.

Runs that are expected to fail state what a comment or a test says and the code
does not do:

| Run | Statement | What happens |
|---|---|---|
| `sync_reconnect` | the loop keeps Caddy in sync (relay 1049) | the old session's socket comes back under the route id of the reconnected one; ids are compared, sockets are not |
| `keys_nopds` | no PDS is an error (relay 148) | the wrapped error is nil, so the key is accepted with nil permissions |

Further places where the model, like the code, does not do what a comment says;
they are hazards in `PROJECT.json` and have no run:

* The loop can re-add a route that a cleanup has just removed, since its snapshot is
  older (relay 1114 says it does not race to do so).
* 50 connections are served at a time, not the 200 of the integration test's comment
  (line 291): the semaphore is held for the whole session.
* A name of an earlier call can be dropped by a concurrent write of the list of managed
  names (relay 976).
* `globMatch` is called "consistent with Python fnmatch" (webapp 947) and is not: with
  `{"a*": create, "*": read}` it forwards a POST of `bba` and denies a GET of it; see above.
* POST appends, so a new route is not "at index 0" (relay 900).
* The fallback may replace an srv0 that the Caddyfile has made between the last GET
  and the POST, or that a failed GET did not show (relay 557).
* In a Caddy that accepts a duplicate id, two interleaved moves of the catch-all
  leave two of them, of which only the last is ever moved (relay 666).  Setting
  `RejectDuplicateIds` to FALSE gives that Caddy.
* After a Caddy restart no tick registers a child wildcard's name again (relay 970).
* The gate allows every single label below the endpoint while the relay's catch-all
  is in the configuration (gate 9).

### Fairness

`ForwardSync`: goroutines are scheduled, each HTTP call returns (with a result or an
error), the ticker fires, a stopped Caddy is started again and loads its
Caddyfile (systemd does both).  Nothing is asked of clients.  `TlsAutomation`: the same;
only the tick begins for certain.  `AcceptLoop`: the relay's goroutines; a client may
be silent for good.  `TunnelClient`: the process runs, TCP gives up
on a dead connection, cached listings expire.  Neither that the relay answers nor that a
dial fails is assumed.  `TunnelSplice`: the goroutines of
both machines run and an end that has not hung up reads what comes; nobody has to
send or close.  `ProxyAuth`: handlers run; the PDS and the issuers answer or their
connection fails, so a discovery ends (it has no deadline of its own).  Nothing is
asked of `WebSessions`, whose properties are all safety.
Lost requests, losses and refusals are finite in number, so liveness
says: once things stop going wrong, it gets done.

## 4. Proofs

`tlapm` checks every theorem with no bound on sets or counters.

* `ForwardSyncProofs`.  `SyncInv` strengthens the properties with: what `cur`
  may be in each place of a session (a forward of its own whose service its key
  allows, from `TcpipForward` to the end of the cleanup), that what the tick holds
  in `todo` and `cur` came out of the registry at some time, and that
  every route's upstream matches its host.  `RegistryBacked` alone is not
  inductive: that `Record` writes the session's own forward needs the first part,
  that a tick posts only authorised routes needs the second, although the forward
  may be gone by then.  The module begins with what DELETE and POST do to a sequence.  The refinement is proved from the same invariant: a step of a handler
  maps to the step of `ForwardRegistry` its place stands for, requests and ticks to
  stutters, a restart to one that ends the sessions it interrupts.
  `AnnouncedIsServed` needs an invariant about the order of the routes (`AInv`): from
  its POST on, an undisturbed session's route is in the array (`RoutePut`); from the
  moment the session has taken the catch-all out, no catch-all stands in front of it
  (`CatchAllBehind`), since every other writer takes the catch-all out before it
  appends; and the tick, whose copy of the registry may be old, neither deletes nor
  posts that route again (`TickLeaves`), because what it still has to do is the
  session's own forward and is found present (`TickKnows`).  Theorems:
  `SyncTypeOK`, `SyncRegistryBacked`, `SyncRoutesAuthorised`, `SyncAnnouncedIsServed`,
  `SyncNewerRegistrationKept`, `SyncImplementsRegistry`.
* `AcceptLoopProofs`.  Counts equal cardinalities; each step moves one
  connection between places.  The limit theorem adds that the acceptor holds at
  most one connection beyond the slots, so the count it compares is at most
  capacity + 1.  Theorems: `AcceptTypeOK`, `AcceptCountersExact`,
  `AcceptLimitNeverBites`.
* `KeyAuthProofs`.  Each entry and each listing in progress is tied to the time
  it may have started: what it contains was in the repository at some moment since,
  what it lacks was out at some moment since.  Theorems: `KeyAuthTypeOK`,
  `KeyAuthGrantRecent`, `KeyAuthGrantComplete`.
* `CertificateProofs`, about the two modules that decide on certificates.  In
  `TlsAutomation`, until the first restart the relay's own policy is all that
  ever comes into the array, so any copy, however old, lacks at most that one, and
  writing it back with that policy added loses nothing; a copy that found the path
  absent can only be PUT where it still is.  `PoliciesKept` alone says nothing about
  the copies, hence `CopiesFresh`.  The list of names grows by several names and has
  no such invariant, and names do get lost.  In `CertGate`, an open question's `known`
  contains the configuration and its `always` is contained in it (`OpenOK`), so that the
  hosts read, however old, lie between those of the two (`AnswerOK`); a decided
  question's history no longer changes.  `AllowsIsCovers` is about strings: what
  `hostAllows` slices off by lengths, suffix and label, is what `Covers` finds at the
  dots, for every two sequences of characters.  Theorems: `TlsTypeOK`,
  `TlsPoliciesKept`, `GateTypeCorrect`, `GateAllowedWasRouted`, `GateDeniedWasUnrouted`.
* `WebSessionsProofs`.  The invariant adds to the types what each handler holds at its
  place and that the database's clock is ahead of what it wrote.  `IndexExact` carries
  the refinement for memory: the last of a list without gaps is a session that exists.
  For the database it is a maximum of `updated`, which exists because times are
  natural numbers (well-foundedness, not induction over the sessions, of which there may
  be any number).  A save in the database leaves that session and those of the same time
  as the maximum, which is what `Save` of `SessionStore` says of `recent` and `instant`.
  Each request, save, read and restart then maps to `SessionStore`'s, the rest stutters.  `TokensKept` speaks of sessions nobody uses; `TInv` says what holds while one
  handler does: its copy has the generation the server accepts, and so has the row
  unless the handler is about to save (`Fit`), and nobody has a session before its login
  has saved it (`Unsaved`).  Theorems: `WebTypeOK`, `WebIndexExact`, `WebImplementsStore`,
  `WebTokensKept`.
* `ProxyAuthProofs`.  That an issuer in hand is a known one needs that all roles that
  were joined name known ones (`WellFormed`), which joining keeps and editing does not touch.  That it is
  discovered once needs that who discovers has the lock and its issuer is still not
  cached (`LockHeld`), which is what the second look under the lock gives.
  `OInv` adds that the joined fields of the pages so far are, name by name,
  those of the last page to define the name (`RecordIs`), so that at the end they are
  what the definition takes from the whole (`Latest`); that only issuers of joined roles
  are tried, and a token that passes is of one (`Candidates`); and that the token's own
  issuer, if it is among them, is still to be tried or could not be reached (`Owed`).
  The two policy theorems then rest on `MatchIsGoverning`: where a policy is read as
  fnmatch (`SchemasReadAsFnmatch`) the search of `globMatch` succeeds exactly when the
  literals stand in the path one behind the other, the first where it begins, since a
  first literal that stands there is found there, and the first place of a literal behind
  an earlier end is never behind a place that would do (`ReachedNext`, by least
  counterexample over the number of literals).
  Theorems: `ProxyTypeOK`, `ProxyDiscoveredOnce`, `ProxyUnverifiedHadNoIssuer`,
  `ProxyForwardedWasAllowed`, `ProxyDeniedWasNotAllowed`.
* `TunnelSpliceProofs`.  What an end sends passes two copies and three hops; naming
  these from the end (`FirstCopy`, `MidHop`, ...) gives both directions one proof.  `SInv`
  has the types, what the places of handlers and copies imply for one another
  (`Places`: nobody reads a hop that is gone, a hand is empty once its copy stops, a
  signal means a copy that has finished), and a count: `Lost`, what was sent less what
  is in hops, hands and the peer, is never negative, so nothing is made up
  (`Conserved`).  `Flow` is the order in which a splice winds up while an end stays
  tidy: its peer's end of stream, the copy that reads it, the channel, the copy that
  writes to the tidy end, that end's handler; each has passed on all it had before the
  next one stops, and nothing sent to the tidy end is lost.  Theorems: `SpliceTypeOK`, `SpliceNothingLost`.
* `TunnelClientProofs`.  A process past `ensureSSHKey` has a parsed key; past
  `createRecord` a published one.  Theorems: `TunnelTypeOK`,
  `TunnelDialsPublishedKey`.

Assumptions are the named `ASSUME`s of the modules, which TLC evaluates in each run.

`AInv`, `SInv`, `OInv` and `GateInv` were checked by TLC on the instances of their runs before
they were proved.

Every invariant and every action property that a passing run checks is stated by one of
these theorems, and so is each refinement.  Only model-checked are the properties with
`~>`, `[]<>` or `<>[]`: liveness under fairness and `ENABLED` are beyond the prover.

## 5. Not modelled

* `DeleteSession` of both stores: nothing calls it.  The choice of the database, its schema and
  migrations.
* The two token plugins of the client: one step that succeeds or fails, as they keep
  nothing across it.
* The test bypass `TEST_ACCEPT_ANY_KEY`, the relay's host key, pprof and heap return.
* What relay 352 makes of nil permissions, after `keys_nopds`.
* OAuth itself (the library's exchange, DPoP, nonces), signatures and claims of OIDC tokens, JSON and header details,
  what `httputil.ReverseProxy` does with a request that is let through.
* The browser UI and the scripts: they keep no state; what they do is in the models
  as edits of records and as restarts.

Reasons by component are in `PROJECT.json`.

## 6. Plan

What is left, in this order:

1. `TunnelClient` composed with sessions of `ForwardSync`: reconnecting end to end,
   with the relay's cache between a published record and a granted key.
2. The token plugins as processes of their own (timeouts, exit codes).
