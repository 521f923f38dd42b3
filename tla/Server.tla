------------------------------- MODULE Server --------------------------------
(***************************************************************************)
(* A howler server (src/src/server/server.js) with its registry (Sockets)  *)
(* and the process that runs it (command.js).                              *)
(*                                                                         *)
(* The server is one JavaScript thread, so an action is one run of a       *)
(* callback up to its next await.  The only await that lets another        *)
(* callback in is the call to CouchDB that authenticates a socket: the     *)
(* socket may close, and the server may stop, before CouchDB answers.      *)
(* utils.respond calls the handler of a request before its first await,    *)
(* so that handling a request and answering it are one step.               *)
(*                                                                         *)
(* socket.io, CouchDB and the clients are external and modelled by what    *)
(* server.js relies on: which requests a client sends, and when a          *)
(* connection is lost, is left open.                                       *)
(***************************************************************************)
EXTENDS Sockets, Sequences

CONSTANT CallId     \* tags that pair the answer to a request with its caller

VARIABLES
    started,    \* _started
    listening,  \* _io accepts connections
    iterator,   \* _iterator, the _global_changes feed
    conn,       \* per socket: is its connection open?
    auth,       \* per socket: how far _authenticate came
    handshake,  \* per socket: the cookie of its query string, if it has one
    draining,   \* per socket: requests read before it closed may still run
    sent,       \* per socket: the packets the last step wrote to it
    crashed     \* an exception left an event handler or stop()

serverVars == <<registryVars, started, listening, iterator, conn, auth,
                handshake, draining, sent, crashed>>

Request == [type : {"subscribe", "unsubscribe", "heartbeat", "log-out"},
            dbNames : SUBSET DB, id : CallId]

Packet ==
    [type : {"authenticated"}, cookie : Cookie]
    \cup [type : {"not-authenticated", "disconnect"}]
    \cup [type : {"change"}, db : DB]
    \cup [type : {"ack"}, id : CallId, error : BOOLEAN]

ServerTypeOK ==
    /\ RegistryTypeOK
    /\ started \in BOOLEAN
    /\ listening \in BOOLEAN
    /\ iterator \in {"null", "open", "aborted"}
    /\ conn \in [Socket -> {"unused", "open", "closed"}]
    /\ auth \in [Socket -> {"none", "pending", "done", "failed"}]
    /\ handshake \in [Socket -> Cookie \cup {NoCookie}]
    /\ draining \in [Socket -> BOOLEAN]
    /\ sent \in [Socket -> Seq(Packet)]
    /\ crashed \in BOOLEAN

ServerInit ==
    /\ SocketsInit
    /\ started = FALSE
    /\ listening = FALSE
    /\ iterator = "null"
    /\ conn = [s \in Socket |-> "unused"]
    /\ auth = [s \in Socket |-> "none"]
    /\ handshake = [s \in Socket |-> NoCookie]
    /\ draining = [s \in Socket |-> FALSE]
    /\ sent = [s \in Socket |-> <<>>]
    /\ crashed = FALSE

-----------------------------------------------------------------------------
(* Writing to sockets and closing them *)

Change(d) == [type |-> "change", db |-> d]
Ack(r, error) == [type |-> "ack", id |-> r.id, error |-> error]
Authenticated(c) == [type |-> "authenticated", cookie |-> c]
NotAuthenticated == [type |-> "not-authenticated"]
Disconnect == [type |-> "disconnect"]

\* What this step writes: packets to the sockets in to, nothing to the others.
\* socket.io drops what is written to a socket that is closed.
Emit(to, packets) ==
    sent' = [s \in Socket |->
               IF s \in to /\ conn[s] = "open" THEN packets ELSE <<>>]

Silent == Emit({}, <<>>)

\* Mutant: the listeners are attached when the socket connects.
AttachedFromConnect(s) == auth[s] \in {"pending", "done"}

\* _onAuthenticated attached the listeners, disconnect among them.
Attached(s) == auth[s] = "done"
Live(s) == conn[s] = "open" /\ Attached(s)

\* The connection of s ends: the disconnect listener, if it is attached,
\* removes s.  remove() throws on a socket without an entry.
Hangup(s) ==
    /\ conn' = [conn EXCEPT ![s] = "closed"]
    /\ \/ /\ ~Live(s)
          /\ UNCHANGED <<registryVars, crashed>>
       \/ /\ Live(s)
          /\ Remove(s)
          /\ UNCHANGED crashed
       \/ /\ Live(s)
          /\ ~Registered(s)
          /\ crashed' = TRUE
          /\ UNCHANGED registryVars

-----------------------------------------------------------------------------
(* start and stop *)

lifecycleVars == <<started, listening, iterator>>
socketVars == <<conn, auth, handshake, draining>>

Start ==
    /\ ~started
    /\ iterator = "null"
    /\ listening' = TRUE
    /\ iterator' = "open"
    /\ started' = TRUE
    /\ Silent
    /\ UNCHANGED <<registryVars, socketVars, crashed>>

\* Mutant: only the sockets that are authenticated are closed.
LiveClosed(c) ==
    [s \in Socket |-> IF c[s] = "open" /\ Attached(s) THEN "closed" ELSE c[s]]

\* _io.close: socket.io closes every connection.
IoClosed(c) == [s \in Socket |-> IF c[s] = "open" THEN "closed" ELSE c[s]]

\* SIGINT.  _io.close runs the disconnect listener of every live socket, so
\* Sockets.close finds only the entries of sockets without one; it disconnects
\* and removes these.  For a socket that is still open its disconnect() would
\* run the listener, and the remove() after it would throw with the feed open.
Stop ==
    /\ started
    /\ listening' = FALSE
    /\ conn' = IoClosed(conn)
    /\ IF /\ {s \in Socket : Live(s)} \subseteq DOMAIN sockets
          /\ \A s \in DOMAIN sockets : ~(conn'[s] = "open" /\ Attached(s))
       THEN /\ Close
            /\ iterator' = "aborted"
            /\ started' = FALSE
            /\ UNCHANGED crashed
       ELSE /\ crashed' = TRUE
            /\ UNCHANGED <<registryVars, iterator, started>>
    /\ Silent
    /\ UNCHANGED <<auth, handshake, draining>>

-----------------------------------------------------------------------------
(* Connections and their authentication *)

\* A client connects, with the cookie c or with a username and a password, and
\* the call to CouchDB begins.
Connect(s, c) ==
    /\ listening
    /\ conn[s] = "unused"
    /\ conn' = [conn EXCEPT ![s] = "open"]
    /\ auth' = [auth EXCEPT ![s] = "pending"]
    /\ handshake' = [handshake EXCEPT ![s] = c]
    /\ Silent
    /\ UNCHANGED <<registryVars, lifecycleVars, draining, crashed>>

\* CouchDB accepts.  The code does not look whether the socket is still open.
AuthSucceeds(s, c) ==
    /\ auth[s] = "pending"
    /\ c = handshake[s] \/ handshake[s] = NoCookie
    /\ Add(s, c)
    /\ Emit({s}, <<Authenticated(c)>>)
    /\ auth' = [auth EXCEPT ![s] = "done"]
    /\ UNCHANGED <<lifecycleVars, conn, handshake, draining, crashed>>

\* Mutant: a socket that CouchDB refuses is not disconnected.
AuthFailsLeftOpen(s) ==
    /\ auth[s] = "pending"
    /\ auth' = [auth EXCEPT ![s] = "failed"]
    /\ Emit({s}, <<NotAuthenticated>>)
    /\ UNCHANGED <<registryVars, lifecycleVars, conn, handshake, draining, crashed>>

\* CouchDB refuses, or cannot be reached.
AuthFails(s) ==
    /\ auth[s] = "pending"
    /\ auth' = [auth EXCEPT ![s] = "failed"]
    /\ Emit({s}, <<NotAuthenticated, Disconnect>>)
    /\ Hangup(s)
    /\ UNCHANGED <<lifecycleVars, handshake, draining>>

\* The client disconnects or its transport is lost.  Requests that were decoded
\* together with the disconnect run after it, if somebody listens to them.
Hangs(s) ==
    /\ conn[s] = "open"
    /\ Hangup(s)
    /\ draining' = [draining EXCEPT ![s] = Attached(s)]
    /\ Silent
    /\ UNCHANGED <<lifecycleVars, auth, handshake>>

-----------------------------------------------------------------------------
(* Requests *)

\* socket.io runs the listeners of a packet some ticks after it decoded it,
\* and the packets decoded together with what ends a connection run after it.
CanArrive(s) == conn[s] = "open" \/ draining[s]

Arrives(s, type, r) ==
    /\ CanArrive(s)
    /\ r.type = type
    /\ UNCHANGED <<lifecycleVars, auth, handshake>>

\* Answers a request that changes the registry: respond() turns a throw into
\* an answer with an error.
Responds(s, r) ==
    /\ Attached(s)
    /\ Emit({s}, <<Ack(r, Throws(s, r.dbNames))>>)
    /\ UNCHANGED <<conn, draining, crashed>>

HandleSubscribe(s, r) ==
    /\ Arrives(s, "subscribe", r)
    /\ Subscribe(s, r.dbNames)
    /\ Responds(s, r)

HandleUnsubscribe(s, r) ==
    /\ Arrives(s, "unsubscribe", r)
    /\ Unsubscribe(s, r.dbNames)
    /\ Responds(s, r)

HandleHeartbeat(s, r) ==
    /\ Arrives(s, "heartbeat", r)
    /\ Attached(s)
    /\ Emit({s}, <<Ack(r, FALSE)>>)
    /\ UNCHANGED <<registryVars, conn, draining, crashed>>

\* Mutant: disconnects, then answers: the answer is dropped.
LogOutAnsweredLate(s, r) ==
    /\ Arrives(s, "log-out", r)
    /\ Attached(s)
    /\ Emit({s}, <<Disconnect>>)
    /\ Hangup(s)
    /\ draining' = [draining EXCEPT ![s] = TRUE]

\* Answers first, then disconnects.  Every log-out carries a callback, as
\* logOut() of the client sends it; without one the listener would throw.
HandleLogOut(s, r) ==
    /\ Arrives(s, "log-out", r)
    /\ Attached(s)
    /\ Emit({s}, <<Ack(r, FALSE), Disconnect>>)
    /\ Hangup(s)
    /\ draining' = [draining EXCEPT ![s] = TRUE]

\* Before the socket is authenticated nobody listens to it: a request is lost.
IgnoreRequest(s, r) ==
    /\ Arrives(s, r.type, r)
    /\ ~Attached(s)
    /\ Silent
    /\ UNCHANGED <<registryVars, conn, draining, crashed>>

\* No packet that was decoded before the connection ended is left.
EndBatch(s) ==
    /\ draining[s]
    /\ draining' = [draining EXCEPT ![s] = FALSE]
    /\ Silent
    /\ UNCHANGED <<registryVars, lifecycleVars, conn, auth, handshake, crashed>>

-----------------------------------------------------------------------------

\* Mutant: a change is sent to every socket of the registry.
EmitChangeToAll(d) ==
    /\ iterator = "open"
    /\ Emit(DOMAIN sockets, <<Change(d)>>)
    /\ UNCHANGED <<registryVars, lifecycleVars, socketVars, crashed>>

\* Mutant: the change is emitted to one of the subscribers.
EmitChangeToOne(d) ==
    /\ iterator = "open"
    /\ \/ Subscribers(d) = {} /\ Silent
       \/ \E s \in Subscribers(d) : Emit({s}, <<Change(d)>>)
    /\ UNCHANGED <<registryVars, lifecycleVars, socketVars, crashed>>

\* A row of the _global_changes feed says that d changed.
EmitChangeForDBName(d) ==
    /\ iterator = "open"
    /\ Emit(Subscribers(d), <<Change(d)>>)
    /\ UNCHANGED <<registryVars, lifecycleVars, socketVars, crashed>>

Handles(s, r) ==
    \/ HandleSubscribe(s, r)
    \/ HandleUnsubscribe(s, r)
    \/ HandleHeartbeat(s, r)
    \/ HandleLogOut(s, r)
    \/ IgnoreRequest(s, r)

CouchDBAnswers(s) == AuthFails(s) \/ \E c \in Cookie : AuthSucceeds(s, c)

ServerNext ==
    \/ Start
    \/ Stop
    \/ \E s \in Socket, c \in Cookie \cup {NoCookie} : Connect(s, c)
    \/ \E s \in Socket : CouchDBAnswers(s) \/ Hangs(s) \/ EndBatch(s)
    \/ \E s \in Socket, r \in Request : Handles(s, r)
    \/ \E d \in DB : EmitChangeForDBName(d)

ServerSpec == ServerInit /\ [][ServerNext]_serverVars

-----------------------------------------------------------------------------
(* Properties *)

\* No exception leaves a disconnect listener or stop(): the feed is aborted
\* whenever the server stops.
NeverCrashes == ~crashed

\* Only sockets that are authenticated and still open are notified of a
\* change, although a socket that closed while CouchDB was asked keeps an
\* entry for ever, and a subscribe may run after its socket has logged out.
OnlyLiveIndexed == \A d \in DB : \A s \in Subscribers(d) : Live(s)

\* Once the server has stopped no socket is live or subscribed, even if it
\* connected before and CouchDB accepts it afterwards.
StoppedIsSilent ==
    iterator = "aborted" => /\ \A s \in Socket : ~Live(s)
                            /\ \A d \in DB : Subscribers(d) = {}

\* The verdict on its authentication is the first packet a socket is sent, and
\* it gets no second one: no change, no answer comes before it.
IsVerdict(p) == p.type \in {"authenticated", "not-authenticated"}
VerdictFirst ==
    [][\A s \in Socket : \A i \in DOMAIN sent'[s] :
         IsVerdict(sent'[s][i]) <=> (i = 1 /\ auth[s] = "pending")]_serverVars

\* As long as CouchDB answers, every connection ends up authenticated or
\* closed: "we do not want a connection if it is not authorized"
\* (server.js:86).
ConnectionsSettle ==
    \A s \in Socket :
        conn[s] = "open" ~> (Live(s) \/ conn[s] = "closed")

\* Read literally, server.js:86-87: the disconnect event "will remove the
\* socket from sockets".
DisconnectRemoves == \A s \in Socket : conn[s] = "closed" => ~Registered(s)

\* The changes that the last step told, and to whom.
Told == {p \in Socket \X DB :
            \E i \in DOMAIN sent[p[1]] : sent[p[1]][i] = Change(p[2])}

\* A change is told to each live socket whose entry names the database, and to
\* no other: no subscriber is forgotten, however it came to subscribe
\* (emitChangeForDBName reads the index only).
EveryChangeIsTold ==
    [][\A d \in DB : EmitChangeForDBName(d) =>
         \A s \in Socket : <<s, d>> \in Told' <=>
            (Live(s) /\ Registered(s) /\ d \in sockets[s].dbNames)]_serverVars

\* The server implements Notifier: a session is live while its socket is, it
\* is told what is written to its socket.
N == INSTANCE Notifier WITH
        Session   <- Socket,
        live      <- {s \in Socket : Live(s)},
        subs      <- [s \in Socket |-> IF Live(s) /\ Registered(s)
                                       THEN sockets[s].dbNames ELSE {}],
        delivered <- Told
ImplementsNotifier == N!NotifierSpec

==============================================================================
