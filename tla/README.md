# A TLA+ model of couchdb-howler

couchdb-howler tells browsers and apps which CouchDB databases have changed. A
server (`src/src/server`) reads the `_global_changes` feed of CouchDB and
notifies, over socket.io, the clients (`src/src/client`) that subscribed to the
database. This directory holds a model of both, the TLC runs that check it on
small instances, and proofs that hold for instances of any size. Paths below
are relative to the repository (`src/` here); `client.js` is
`src/client/client.js`, `server.js` and `sockets.js` are in `src/server/`. `lib/`
holds what Babel makes of `src/`; it is what applications load. `Howler`,
`Heartbeat`, `Command` and `Sessions` were read from it, the others from `src/`:
both have the same statements in the same order, an `await` of the one being a
`return` of a promise in a generator of the other.

## Inventory

| Component | State it keeps | Operations | Talks to | Hard behaviour | Correct when |
|---|---|---|---|---|---|
| `sockets.js` registry | `_sockets` (id to subscriptions and cookie), `_socketsByDBName` (the index by database) | add, setCookie, remove, subscribe, unsubscribe, close, emitChangeForDBName | called by the server | the same relation is stored twice; subscribe and remove throw on an unknown socket; close removes what a disconnect event removes too | both maps agree, no empty entry is left |
| `server.js` | `_io`, `_sockets`, `_iterator`, `_started`, and the listeners on each socket | start, stop, authenticate, log-out, subscribe, unsubscribe, heartbeat, disconnect, a row of the feed | clients by events and acknowledgements, CouchDB by calls and the feed | each authentication awaits CouchDB while the socket may close or the server stop; requests arrive before the listeners are attached or after a log-out | exactly the live subscribers are told, a verdict comes first and comes, no disconnect listener and no `stop()` throws (a log-out that carries no acknowledgement does throw out of its listener, `server.js:97`; `client.js` always asks for one) |
| `command.js`, `bin/server.js`, `log.js` | the server, the process | run, SIGINT, fatal error | the server | a start that fails half way, when `stop()` does nothing; a SIGINT while sockets are authenticated or the feed has ended | no process whose `start()` failed serves clients, SIGINT ends the process |
| `client.js` | `_socket`, `_subscribedToDBs`, `_connected`, `_ready`, `_stopped`, `_disconnectingSocket`, `_heartbeatChecker`, `_lastHeartbeatAt`, one suspended chain of awaits per `_connect` | logIn, logOut, subscribe, unsubscribe, stop; connect, disconnect, authenticated and not-authenticated events; the heartbeat timer; the backoff | the server, the session store | socket.io reconnects by itself, the client does too; `_socket` changes during awaits; acknowledgements that never come; retries with old data; stop and log out in the middle of all this | one connection, nothing goes on without a verdict, the server knows the subscriptions, stop starts nothing |
| `session.js`, `cookie.js`, `node-cookie.js` | one cookie | get, set, clear, all asynchronous | the client | the answer comes later than the question; in node all clients of a process share one store; the application restarts | a client comes back as the user it logged in, until it logs out |
| `utils.js`, `server/utils.js` | none | error and response conversion, query string, `respond` | both | a throw of a handler becomes an answer | an error survives the round trip |
| `lib/` | as above | Babel's output for the above | | | |
| docker, scripts, tests | | | | | |

socket.io, couch-slouch, CouchDB and backoff-promise are external. What the
model relies on:

* Server side: `_io.close()` runs the disconnect listeners of every socket and
  closes it before it returns. `disconnect()` on an open socket runs them too,
  on a closed one it does nothing. What is written to a closed socket is
  dropped. An event nobody listens for is dropped. The packets decoded together
  are dispatched one after the other, even when the first of them, a log-out,
  closes the socket.
* Client side: each `io(url)` to the same namespace makes a connection of its
  own. A socket whose transport is lost is connected again, and the server
  authenticates it again with the same query string, or it is not, as the comment at
  `client.js:83` says of a hybrid app; one that either side disconnects is not.
  `disconnect()` on an open socket runs the disconnect listeners before it returns.
  An acknowledgement that is outstanding when the connection ends never comes. What
  is emitted before the connection is open is sent as soon as it is, hence before
  the server has authenticated it, and is lost.
* The backoff runs the closure it was given again, with what it captured.

## Modules

* `Sockets`: the registry. Its two JavaScript objects are partial functions, a
  deleted key leaves the DOMAIN. `Add` is `add` and `setCookie`, which the server
  calls back to back. A `forEach` over database names or sockets is one step, as
  no other code runs in between.
* `Notifier`: the abstract specification of the server: sessions, what they
  subscribe to, and changes told to exactly the subscribed live sessions.
* `Server`: extends `Sockets` with the lifecycle, the authentication and the
  requests. The server is one JavaScript thread, so that an action is one run of
  a callback up to its next await; only the call to CouchDB lets other callbacks
  in. `sent` holds what the last step wrote to each socket. `crashed` is set
  where the code would throw out of a listener or out of `stop()`.
* `Client`: one client, all the sockets it ever makes, and, in the other
  direction, as much of the server as the client can tell: it accepts or
  refuses a connection, and answers requests in order. Each `_connect` makes a
  socket and a flow of the same number; `flow[k].state` is the await at which it
  is suspended, `flow[k].via` the socket whose verdict it waits for, which is
  the one that was current after the connect event. `conn[k].onDisconnect`
  counts the disconnect listeners put on a socket. `lookups` counts the
  questions to the session store that are not answered yet; the store may be an
  asynchronous one (`session.js:10`). `AfterLoss` says what may become of a socket
  whose transport is lost: socket.io connects it again (`"down"`) or does not
  (`"lost"`); `conn[k].admitted` records that the server has once accepted it.
* `Delivery`: the abstract specification of howler as an application sees it, with
  no server, connection or request: the databases it may be told of, those it must
  be told of, and the changes it is owed, in order.
* `Howler`: extends `Server` with the channels of a connection and with the client
  at their other end, its flags and the promises of the application's calls
  (`calls`). It has actions of the application (`LogIn`, `SubscribeCall`, ...), of
  the connection (`Opens`, `Cut`, `Notices`), one per packet the client receives,
  and the server's actions, each of which puts what it writes (`sent`) on its way.
  `Cut` loses what is under way; each side then notices, in its own time
  (`Notices`, `ServerNotices`). `chain` is the await at which `_connect` is
  suspended: only a `_connect` that is through has an authenticated listener. The
  promise callbacks that follow a packet run before the next packet is read.
* `Heartbeat`: `_startHeartbeatChecker`, `_beat` and
  `_reconnectIfTooLongSinceHeartbeat` in discrete time. `pending` holds when the
  unanswered heartbeats were sent. A timer is up to `Jitter` late, an answer takes
  up to `RoundTrip`, the longest delay for which the code's expiration is in time;
  a suspended app runs no callback while time goes on.
* `Sessions`: several clients and their session stores. `jar[s]` is the cookie a
  store keeps, `ops[s]` what it was asked and has not done. The built-in stores
  act at once, which `AtRest` expresses; with `Async` they do not. `own[c]` is what
  the last `logIn()` of a client resolved to, `writer[s]` the client whose set or
  remove a store did last. Each client is reduced to its use of
  the store (`client.js` `logIn`, `logOut`, `_connectIfCookie`, `_disconnect`).
* `Command`: extends `Server` with the process around it. `Run` and `StartThrows`
  are the two outcomes of `start()`, `FatalError` is `_onFatalError` up to the exit
  of `log.fatal`, `SigInt` the signal handler, `BadRow` a row whose id has no colon
  (`_toDBName` throws in the callback of the feed, and what comes of a promise that
  nobody looks at depends on node and couch-slouch), `Exit` the end of a process
  that waits for nothing.
* `ServerProofs` (about `Sockets` and `Server`), `ClientProofs`, `ClientCalmProofs`,
  `HeartbeatProofs`, `SessionsProofs`, `HowlerProofs`, `DeliveryProofs` (about `Howler`
  and `Delivery`), `CommandProofs`: the theorems.
  `MCServer`, `MCClient`, `MCHeartbeat`, `MCSessions`, `MCHowler`, `MCCommand`: the
  instances for TLC.

`Client` and `Howler` model the same client. `Client` has everything that makes its
connections overlap (cookie, backoff, forced reconnects) and an abstract server;
`Howler` has the whole server and the delays between the two, for a client whose
session store keeps no cookie, so that its connections come one after the other:
socket.io connects again what was lost, and the application logs in anew when the
server has disconnected it.

The operators whose comment begins with "Mutant:" are plausible mistakes in the
definition that follows them. They are not part of the model: each shows, when
it is put in place of the definition, that a property notices the mistake.

## Runs

| Run | Question | Bounds |
|---|---|---|
| `ServerSafety` | Do the safety properties of the server, and the refinement of `Notifier`, hold? | 3 sockets, 2 databases, 1 cookie, symmetric |
| `ClientCalm` | When only the client itself makes a lost connection again, does it do what it promises, and does what it begins come to an end? | 3 connections in a row, 1 lost transport |
| `ClientRough` | Which properties survive every failure? | 2 connections, 1 lost transport, 1 overdue heartbeat, 1 refused cookie, an impatient user |
| `HeartbeatTime` | How late is a hung connection noticed, and is a live one kept? | interval 2, expiration 4, jitter 1, up to time 14 |
| `HowlerSafety` | Is the application told what it must and nothing else? | 3 connections, 1 database, 2 calls at a time, 2 packets under way when a database changes |
| `HowlerLiveness` | Are promises settled, is a client ready again after a loss, and are sockets authenticated or closed? | 2 connections, 1 database, 2 calls at a time, 1 packet |
| `CommandLife` | Does the process end when it must, and never serve half? | 2 sockets, 1 database |
| `SessionsSafety` | Do clients stay logged in, each as its own user? | 2 clients that share a store and 1 with its own, 2 cookies, a browser |
| `ClientForcedTwice`, `ClientRetry`, `ClientLogOut`, `HowlerLost` (violated) | What does each single failure break? | the failure in question, no other |

Why the bounds are enough. The sockets of a server do not interact but through
the registry and `stop()`: with three sockets one is live while two others race
authentication, log-out and loss, and a database may have two subscribers and
lose one. One tag for acknowledgements and one cookie suffice, as no property
compares two of them. The connections of a client do interact, two at a time: a
flow takes the socket of the next one. Two connections therefore show every
interference of a pair, three are used where a property is about a sequence of
log in and log out. `MaxRequests` bounds the requests in flight per connection
(in the guard of sending), `MaxDrops`, `MaxTimeouts` and `MaxExpired` the
failures; at most one `logOut()` is under way. A calm run has no overdue heartbeat
and no refused cookie, leaves a lost socket to the client (`AfterLoss = {"lost"}`),
and makes the user wait (`Patient`) until nothing is going on before a log in; the
server may still refuse the log in, and log out, stop, subscribe, unsubscribe and the
loss come at any time. One loss suffices: it leaves two more connections, to make
again and to log in anew.

In `Howler` the connections do not overlap; three of them show what a call or a
packet of one can do to the next one and the one after. Two calls at a time race
each other and the resubscription, which has a tag of its own. `MaxPackets` bounds
the feed: a database changes only while fewer packets are on their way. The time of
`HeartbeatTime` is long enough for three expirations in a row, its jitter half an
interval. In `Sessions` the clients meet in a store only, so that a pair that shares
one and a client beside them are enough; `MaxOps`
bounds what an asynchronous store has still to do.

A heartbeat is overdue in `Client` as soon as one was not answered
(`answered`); the code waits for twice the interval, at least 5 s. A suspended
app may find any heartbeat overdue when it resumes, so that no bound on time is
assumed. The properties that hold in `ClientRough` hold whatever the delay.

Deadlock is not checked: a stopped server or client, a client that has used up its
sockets, a process that exited and a clock at its bound legitimately stop.

### What the passing runs show

* `IndexAgrees`, `NoEmptyEntry`: whatever removes subscriptions, and in whatever
  order requests, log-outs and losses come, the two maps of the registry stay
  the same relation, with no empty entry left.
* `NeverCrashes`: no disconnect listener finds its entry gone, and `stop()`
  reaches `_iterator.abort()`. `Sockets.close` alone would throw: it disconnects
  a socket, whose listener removes the entry, and removes it again. It does not,
  because `_io.close()` has closed every socket before.
* `OnlyLiveIndexed`, `StoppedIsSilent`: no dead socket is notified, though one
  that closed during its authentication keeps an (empty) entry; a server that
  was stopped in the middle of authentications notifies nobody.
* `VerdictFirst`: the verdict precedes every other packet and is given once.
* `ImplementsNotifier`: all of the above from the clients' side.
* `EveryChangeIsTold`: a socket whose subscription was confirmed is told each change,
  whatever the other subscribers of the database do.
* `ConnectionsSettle`: a connection does not stay open unauthenticated.
* `SubscriptionsInSync`, `SingleConnection`, `ConnectedIsReal`, `StopIsFinal`,
  `LogInSettles`, `SubscriptionsArrive`: the promises of the client, in calm runs. A
  lost connection is made again once, with the cookie of the session, whatever was
  under way, and `stop()` of a connected client leaves no attempt to connect: the
  disconnect event that it causes finds `_stopped` set.
* `HeartbeatWhileReady`, `GoesByVerdict`, `StopAddsNothing`: they hold under every
  failure, with overlapping connections too. A log in may take the verdict of another
  connection (`ClientHijack` below), but none goes on without one. `stop()` is not
  final: a look-up, a retry and a connection that are under way go on, and may still
  connect (`client.js:200` does not look at `_stopped`), but no step adds another,
  and the heartbeat of a connection that becomes ready ends with it.
* `HungIsNoticed`, `LiveIsKept`: the check of the expiration runs right after a
  heartbeat was sent and so is one heartbeat behind; twice the interval is enough
  not to give up a live connection, though timers and answers are late, and a hung
  one is given up an expiration and an interval after it hung, or as soon as a
  suspended app resumes.
* `RequestsAreHeard`: `isConnected()` is a promise about the server: no request is
  under way to a socket whose listeners are not attached, if the session store keeps
  no cookie, so that connections do not overlap (otherwise see `ClientDeaf`).
* `ImplementsDelivery`: from the answer to `subscribe()` on (or from the moment the
  client is ready again) every change is told, in order, unless the connection is
  lost; from the answer to `unsubscribe()` on none is, not even one that was under
  way. It needs the order in which the server answers and notifies, that the
  channel keeps, and that the client is ready only after its resubscription.
* `CallsSettle`: every promise of `subscribe()`, `unsubscribe()` and `logOut()` is
  settled unless the transport is cut, the server stops, or another `logOut()` on the
  same connection may end it. The hang-up with which the server ends a log-out is
  no excuse for the log-out itself: its answer has to come before it.
* `ReconnectsBecomeReady`: wherever a connection is lost, in a resubscription or with
  calls under way, the client is ready again on the next one that is accepted and
  lasts.
* `NoHalfServer`, `SigIntEnds`: when `start()` throws, `stop()` does nothing, as
  `_started` is still false; only the exit of `log.fatal` keeps the port from staying
  taken by a server without a feed. After SIGINT nothing keeps the process alive.
* `ConnectsAsItself`, `StaysLoggedIn`: on a shared store too, what other clients do but
  a log in or log out (read it, fail to log in, restart, connect) leaves a client the
  cookie of its own user. They need that the store acts at once, that a set replaces the
  cookie there is and gives it an expiration. A log in or log out of another client
  does disturb (`SessionsShared` below).

### What the violated runs show

* `ClientForcedTwice`: `_disconnectingSocket` is never reset; the second forced
  reconnect of a client does not close the hung socket.
* `ClientRetry`: the backoff connects with a cookie that `logOut()` has cleared.
* `ClientLogOut`: `logOut()` clears the session between the verdict of a log in and
  `set()`, which stores the cookie again; the client then logs out and connects
  with that cookie.
* `HowlerLost`: the connection is lost before `subscribe()` is answered: the promise
  stays pending, and the next connection does not subscribe to the database.

Other configurations beside them end in a counterexample as well; run them with
`tlc -config <name>.cfg MCServer` (`MCClient`, `MCSessions`):

* `ServerLeak` (`DisconnectRemoves`): the connection ends while CouchDB is asked, so
  its disconnect event comes before the listener is attached; `sockets.add` then
  registers a socket that nothing removes. It is never notified, but the entry
  stays until the server stops.
* `ClientDrop` (`SingleConnection`): after one lost transport both socket.io (same
  socket) and `_disconnect` (new socket from the cookie) connect.
* `ClientForced` (`SingleConnection`): `_reconnect` runs `_disconnect` by way of the
  listener and once more directly, so that two sockets are made.
* `ClientDeaf` (`ConnectedIsReal`): after one lost transport with a cookie in the
  session, the old socket, which socket.io connected again, is accepted and makes the
  client connected, while its current socket is another one, not accepted yet: a request
  sent then is lost.
* `ClientHijack` (`OwnVerdict`): two overlapping `_connect`s, for instance the one of
  the constructor with a stored cookie and a `logIn()` just after it: both wait for
  the verdict on the later socket.
* `ClientLost` (`SubscriptionsArrive`): a transport lost before `_connect` is through,
  when no cookie is stored: socket.io reconnects and the server accepts, but nobody
  listens for `authenticated` yet. (TLC's own trace loses the transport after a
  refusal and before the server's disconnect; losing it while the first
  resubscription is unanswered ends in the same state.)
* `ClientStopEarly` (`StopBeforeConnecting`): `stop()` while the constructor's
  `_connect` is under way with a stored cookie: the client connects all the same.
* `SessionsShared` (`CookieIsUsed`): two clients of a node process share
  `node-cookie.js`; the log out of one takes the cookie of the other, which stays
  away when it loses its connection. (The comment at test/spec/client/client.js:35
  makes a second client "so that we don't change anything in our test client".)
* `SessionsAsync` (`CookieIsUsed`): `Session.set` does not await the store, so that
  `logIn()` resolves before an asynchronous store has the cookie, and a restart
  loses it.
* `SessionsLogOut` (`LogOutEndsUse`): `logOut()` during a reconnection clears the
  session and rejects; the connection begun with the cookie is made and stays.

With overlapping `_connect`s and several lost transports `ConnectedIsReal` fails in
another way: the connection that was opened may have no disconnect listener, which
went to a later socket. It is therefore stated for calm runs only.

## Fairness

`FairClientSpec`: each thing under way goes on, one weak fairness
condition each: the session store answers and stores, a socket connects
(socket.io tries again without end), the server gives its verdict, disconnects
whom it refused and answers requests, and a `logOut()` goes on after its await.
The promise callbacks and socket.io's retries justify it.

`FairHowlerSpec`: CouchDB answers every call (accepts or refuses; a call that
fails counts as a refusal, as the code treats it; one that never returns is out of
the properties' reach: the code has no timeout), what is on a channel that is not
cut arrives at either end and is handled, both sides notice a cut, and a socket of
the client connects. A step of the transport may be slower than any other step,
but not for ever. `FairCommandSpec`: the start goes through or throws, a fatal error
goes on to its exit, node ends a process that waits for nothing, and CouchDB
answers. A peer that hangs keeps its socket open only until `stop()`, which closes
all of them.

In none of them does anything make the user
call, a heartbeat tick, a database change or a failure happen.

## Proofs

`ServerProofs` proves first, for any set of sockets, databases and cookies, that every
call of the registry preserves `RegistryInv` (types, `IndexAgrees`,
`NoEmptyEntry`: `RegistryIsConsistent`). It then cites these lemmas for `ServerInv`,
the inductive invariant of the server. `IndexAgrees` is inductive alone, but `OnlyLiveIndexed`
and `NeverCrashes` are not; `ServerInv` adds to them

* `LiveAreRegistered`: so that a disconnect listener finds its entry;
* `EntriesAreAttached`: an entry exists only after CouchDB accepted;
* `DeadEntriesAreEmpty`: the entry left by a socket that closed too early has no
  subscription, as its requests were never listened for;
* `DrainingAreRemoved`: a request dispatched after a log-out finds no entry and
  is answered with an error;
* `UnusedAreFresh`, `Lifecycle`: a socket begins with an authentication under
  way; `started`, `listening` and the feed go together, and a server that does
  not listen has no open connection.

Each conjunct of it that a run checks has a theorem (`ServerTypes`, `RegistryAgrees`,
`IndexIsPruned`, `ServerNeverCrashes`, `ServerNotifiesTheLiving`), and so have
`StoppedServerIsSilent`, `ServerTellsEveryChange`, `ServerVerdictFirst`, and
`ServerImplementsNotifier`, which maps the initial state and every step to
`Notifier`. `ServerVerdictFirst`
rests on `OnlyLiveIndexed`: a change is written to subscribers only, and these
had their verdict. The only assumption is `NoCookieAssumption`.

`ClientProofs` proves `ClientTypes`, `HeartbeatIsReadiness`, `NothingGoesUnverified`
and `StopWindsDown` for any number of sockets, databases, cookies, lost connections,
late heartbeats and expired cookies, from `ClientAssumption`. Its invariant, `ClientInv`, adds to the
types and to `HeartbeatWhileReady`

* `UnusedAreFresh` and `NoSocketNoConn`: a socket that was not made has no flow
  and no verdict, and a client that is connected has a socket whose disconnect
  listeners can be counted;
* `WaitingKnowVia`: a flow that awaits a verdict, a resubscription or the session
  store knows its socket, so that `logIn()` stores a cookie that exists;
* `QueuedKnowVia`: a resubscription under way names only such flows, so that its
  answer moves on no flow that was never begun.

Each part of several steps (`Ready`, `Ended`, `Send`, `Disconnected`, ...) has a
lemma that says what it keeps, each action a lemma built from those. `VerdictInv`
goes with `ClientInv` for `NothingGoesUnverified`: a flow that a queued resubscription
names took its verdict from a socket that was admitted, a flow that is connecting
awaits no verdict yet, and a log in is never retried. For `StopWindsDown` the sets of sockets in use and of
retries are counted: each action of a stopped client keeps them, takes from one, or
moves one attempt (a look-up or a retry becomes a socket), which the library's theorems
on cardinality add up.

`ClientCalmProofs` proves what the run `ClientCalm` checks, but for the liveness:
`OneConnection`, `ConnectedTellsTrue`, `SubscriptionsAgree` and `StopEndsAll`, each
under the assumption `Calm` (no overdue heartbeat and no refused cookie, socket.io does
not connect a lost socket again, and the user waits before a log in) and for any number
of sockets, databases, cookies and lost connections. `CalmInv` goes with `ClientInv`:

* `CalmLink`: only the current socket is connecting or open, and its disconnect
  listeners are there once it has opened, so that its end is heard once;
* `CalmFlow`: the flow of a socket follows it, waits for its own verdict, or for ever if
  it was lost before, and is never retried;
* `CalmServed`: the server has the subscriptions of a client that is ready
  (`Subscribed`), and before that they are the first request on their way and name
  the flow of the socket (`Subscribing`);
* `CalmLookUp`: the session is asked when no socket is in use, and once;
* `CalmStatus`: a client that is connected has a socket that was accepted.

None of them is inductive alone: a second socket could be made if a cookie were
looked up while one is open (`CalmLookUp`), and no look up is due then because its
end is heard once, after it (`CalmLink`).

`HeartbeatProofs` proves both time bounds for every interval, minimal expiration and
jitter up to an interval, from `HeartbeatAssumption`. `HeartbeatInv` adds to the types

* `DueInTime`, `AnswersInTime`: no callback is later than `Jitter`, no answer later
  than `RoundTrip`, both counted from the last resumption at the earliest;
* `LastCheckPassed`, `HungAfterLast`: the next callback is due at most an expiration
  and an interval after the last answer, which came before the connection hung.
  With `DueInTime` this is `HungIsNoticed`;
* `SoonAnswered`: after the last answer the next heartbeat is due within an interval,
  or it was sent within an interval and a jitter and will be answered. With
  `AnswersInTime` this is `LiveIsKept`.

`CommandProofs` proves `CommandTypes` and `CommandHasNoHalfServer`. A server whose
`start()` failed half way does not satisfy `ServerInv`, as it listens without a
feed; `CommandInv` therefore has `ServerInv` for a process that starts or runs only,
and, until it runs, that nothing has connected (`Unstarted`). `_onFatalError` follows
the failed start with no event in between, so that nothing does. The steps of the
running server cite `ServerProofs`.

`HowlerProofs` proves `HowlerTypes` and `HowlerRequestsAreHeard` for any number of
connections, databases and calls. `HowlerInv` has `ServerInv`, kept by citing
`ServerProofs` for each server step, and

* `AcceptedIsHeard`: when an authenticated packet is under way, the listeners of the
  client's last connection are attached;
* `ConnectedIsHeard`: so they are when the client believes it is connected;
* `RequestsAreLate`: requests are under way only from a client that is connected;
* `LinkedIsCurrent`: a connection of the client has a socket of the server.

The verdict is thus the only thing that carries the server's state to the client,
and the channel keeps it in front of the request. `HowlerImplementsNotifier` says that
the server also keeps the promise of `Notifier` in the composition, where it waits
while the client acts.

`DeliveryProofs` proves `HowlerDelivers`: client and server implement `Delivery`, for
any number of connections, databases, calls and packets under way. What the
application may and must be told (`May`, `Must`) is in the client's variables, what it
is told is in the server's registry (`Served`), and they differ by what is under way
in two channels. `DeliveryInv` goes with `HowlerInv` and is about just that:

* `QuietBeforeVerdict`, `VerdictIsRead`, `DisconnectIsLast`, `LostIsEmpty`,
  `UnconnectedIsQuiet`: where a verdict and a disconnect are in the channel, and that
  nothing is answered or notified before the client knows it is connected;
* `CallsAreMade`, `RequestsAreCalls`, `AnswersAreCalls`, `OneAnswerEach`: a request and
  an answer are those of one pending call of this connection, or of the
  resubscription, which is the first request and has the databases that the client
  still has. So a call that is pending since an earlier connection is not about the
  new one, whose socket is new, and a call has one outcome;
* `SubscribesHold`, `UnsubscribesHold`: when the answer to `subscribe(d)` is under way,
  the server has `d` in its registry, or an answer to `unsubscribe(d)` is behind it;
  when the answer to `unsubscribe(d)` is under way, it has not, and no change of `d`
  is behind it, or an answer to `subscribe(d)` is in between;
* `MayIsKept`, `MustIsKept`: the relation itself. The client changes what it noted only
  when it reads an answer, at which point the answer is the first packet, and the two
  conjuncts before say what it makes of the registry.

The last two are not inductive without the others: an answer read after the opposite
call was handled would have the client note what the server no longer has. Each action
has a lemma that it preserves `DeliveryInv` and is a step of `Delivery`; the steps of the
server that do not write to the client's connection, or end it, share one (`Stays`).
The changes under way, `Changes(toClient)`, are a recursive function; that an `Append`
adds one at the end and a `Tail` takes one from the front is proved through the least
number of packets that would refute it, from the library's theorem that `<` on
the naturals is well-founded. TLC checked `DeliveryInv` on the instance of
`HowlerSafety` before it was proved. `RegistryFollowsCalls` states `MayIsKept` and
`MustIsKept` on their own.

`SessionsProofs` proves `SessionsTypes`, `SessionsConnectAsThemselves` and
`SessionsStay` for any number of clients and stores, however many clients share one,
under one condition: the stores act at once (`~Async`). `SessionsInv` says what a store
may have been asked and not done, one operation at most (`OpRight`), and that the cookie
of a client that is logged in, and to whose store nobody else wrote since, is kept, with
an expiration, or is about to be (`CookieKept`).

Only model-checked: liveness (`LogInSettles`, `SubscriptionsArrive`,
`ConnectionsSettle`, `CallsSettle`, `ReconnectsBecomeReady`, `SigIntEnds`), as the
prover has no rule for fairness and ENABLED. Every invariant, action property and
refinement that a passing run checks has a theorem.

## Not modelled

* The error and response conversions and the query string of `utils.js`: a
  response is its error flag.
* The argument parsing of `command.js` (yargs), and the lines `log.js` writes.
* The events the client emits to the application, but for the change event, hence
  also the not-authenticated listener of a later connection, whose only effect is
  an error event.
* The delays of the backoff; that a cookie expires after 30 days (its refusal by the
  server is a failure of `Client`).
* A client with a cookie together with the whole server: its connections overlap in
  `Client`, which has the server's verdicts and answers only.
* Docker, scripts and tests.

## Plan

Done: all modules above with their runs and proofs. What is left: `Howler` with a
client that has a cookie, on instances small enough for TLC.
