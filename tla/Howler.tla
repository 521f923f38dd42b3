------------------------------- MODULE Howler --------------------------------
(***************************************************************************)
(* A howler client and the howler server, composed: Server, the channels   *)
(* of the connection, and of the client (lib/client/client.js, which is    *)
(* what applications load) the calls of the application, each a promise.   *)
(*                                                                         *)
(* The client uses its connections one after the other: its session store  *)
(* keeps no cookie, so that only socket.io connects again what was lost    *)
(* (a client with a cookie makes connections that overlap: see Client).    *)
(* A channel delivers in order what it is given, until the transport is    *)
(* cut: what is under way is lost then, and client and server notice it,   *)
(* each in its own time.  External, as in Server and in Client: socket.io, *)
(* CouchDB.                                                                *)
(***************************************************************************)
EXTENDS Server, Naturals

CONSTANTS
    NoSocket,       \* before the first connection
    Resubscription, \* the tag of the request that _resubscribe sends
    MaxPackets      \* bound: packets on their way to the client when a
                    \* database changes

ASSUME HowlerAssumption ==
    /\ NoSocket \notin Socket
    /\ Resubscription \in CallId
    /\ MaxPackets \in Nat

VARIABLES
    subscribedToDBs,    \* _subscribedToDBs
    connected,          \* _connected
    ready,              \* _ready
    chain,              \* how far the _connect of the socket has come
    reconnects,         \* does socket.io connect the socket, again or at all?
    current,            \* the server's socket of the client's last connection
    link,               \* the transport of that connection
    calls,              \* per tag: the call whose promise is pending
    toServer, toClient, \* the channels
    changed             \* the database that changed in the last step, as a set

clientVars == <<subscribedToDBs, connected, ready, chain, reconnects, current,
                link, calls, toServer, toClient, changed>>
howlerVars == <<serverVars, clientVars>>

Call == CallId \ {Resubscription}

\* No promise is pending.
Idle == [type |-> "none", dbNames |-> {}, at |-> NoSocket]

PendingCall == [type : {"subscribe", "unsubscribe", "log-out"}, dbNames : SUBSET DB,
                at : Socket]

HowlerTypeOK ==
    /\ ServerTypeOK
    /\ subscribedToDBs \in SUBSET DB
    /\ connected \in BOOLEAN /\ ready \in BOOLEAN /\ reconnects \in BOOLEAN
    /\ chain \in {"none", "connecting", "verdict", "resubscribing", "done", "failed"}
    /\ current \in Socket \cup {NoSocket}
    /\ link \in {"none", "up", "cut"}
    /\ calls \in [Call -> {Idle} \cup PendingCall]
    /\ toServer \in Seq(Request)
    /\ toClient \in Seq(Packet)
    /\ changed \in SUBSET DB

HowlerInit ==
    /\ ServerInit
    /\ subscribedToDBs = {}
    /\ connected = FALSE /\ ready = FALSE /\ reconnects = FALSE
    /\ chain = "none"
    /\ current = NoSocket /\ link = "none"
    /\ calls = [id \in Call |-> Idle]
    /\ toServer = <<>> /\ toClient = <<>>
    /\ changed = {}

\* A step of the client: the server and its feed do nothing.
ServerWaits ==
    /\ Silent
    /\ changed' = {}
    /\ UNCHANGED <<registryVars, lifecycleVars, socketVars, crashed>>

-----------------------------------------------------------------------------
(* Calls of the application *)

\* logIn() up to its _connect, which makes a socket; the session.set that comes
\* after it keeps nothing.  The application waits until there is no other socket.
LogIn ==
    /\ link = "none" /\ ~reconnects
    /\ chain' = "connecting"
    /\ reconnects' = TRUE
    /\ ServerWaits
    /\ UNCHANGED <<subscribedToDBs, connected, ready, current, link, calls,
                   toServer, toClient>>

\* _emit on a connected client.  What is sent on a transport that was cut is lost.
Emits(id, type, dbNames) ==
    /\ calls' = [calls EXCEPT ![id] = [type |-> type, dbNames |-> dbNames, at |-> current]]
    /\ toServer' = IF link = "up"
                   THEN Append(toServer, [type |-> type, dbNames |-> dbNames, id |-> id])
                   ELSE toServer

CallsOf(id) ==
    /\ calls[id] = Idle
    /\ ServerWaits
    /\ UNCHANGED <<connected,
                   ready, chain, reconnects, current, link, toClient>>

\* Mutant: a request is sent whether the client is connected or not.
SubscribeUnconnected(id, d) ==
    /\ CallsOf(id)
    /\ Emits(id, "subscribe", {d})
    /\ UNCHANGED subscribedToDBs

\* subscribe()
SubscribeCall(id, d) ==
    /\ CallsOf(id)
    /\ \/ /\ connected
          /\ Emits(id, "subscribe", {d})
          /\ UNCHANGED subscribedToDBs
       \/ /\ ~connected
          /\ subscribedToDBs' = subscribedToDBs \cup {d}
          /\ UNCHANGED <<calls, toServer>>

\* unsubscribe()
UnsubscribeCall(id, d) ==
    /\ CallsOf(id)
    /\ \/ /\ connected
          /\ Emits(id, "unsubscribe", {d})
          /\ UNCHANGED subscribedToDBs
       \/ /\ ~connected
          /\ subscribedToDBs' = subscribedToDBs \ {d}
          /\ UNCHANGED <<calls, toServer>>

\* logOut(), once the session is cleared; it rejects when not connected.
LogOutCall(id) ==
    /\ CallsOf(id)
    /\ connected
    /\ Emits(id, "log-out", {})
    /\ UNCHANGED subscribedToDBs

-----------------------------------------------------------------------------
(* Connections of the client *)

\* Mutant: the client believes to be connected when the transport is.
OpensConnected(s) ==
    /\ reconnects /\ link = "none"
    /\ Connect(s, NoCookie)
    /\ current' = s /\ link' = "up"
    /\ toServer' = <<>> /\ toClient' = <<>> /\ changed' = {}
    /\ chain' = IF chain = "connecting" THEN "verdict" ELSE chain
    /\ connected' = TRUE
    /\ UNCHANGED <<subscribedToDBs, ready, reconnects, calls>>

\* The client's socket connects, to what is a new socket of the server.  The
\* first time _connect goes on.
Opens(s) ==
    /\ reconnects /\ link = "none"
    /\ Connect(s, NoCookie)
    /\ current' = s /\ link' = "up"
    /\ toServer' = <<>> /\ toClient' = <<>> /\ changed' = {}
    /\ chain' = IF chain = "connecting" THEN "verdict" ELSE chain
    /\ UNCHANGED <<subscribedToDBs, connected, ready, reconnects, calls>>

\* _disconnect() of a client whose store keeps no cookie: _connectIfCookie finds
\* none and returns.
Disconnected ==
    /\ link' = "none"
    /\ connected' = FALSE
    /\ ready' = FALSE

\* The client notices that its connection is lost: socket.io will connect again.
Notices ==
    /\ \/ link = "cut"
       \/ link = "up" /\ conn[current] = "closed" /\ toClient = <<>>
    /\ Disconnected
    /\ toServer' = <<>>
    /\ ServerWaits
    /\ UNCHANGED <<subscribedToDBs, chain, reconnects, current, calls, toClient>>

\* The transport is cut.
Cut ==
    /\ link = "up"
    /\ link' = "cut"
    /\ toServer' = <<>> /\ toClient' = <<>>
    /\ ServerWaits
    /\ UNCHANGED <<subscribedToDBs, connected, ready, chain, reconnects, current,
                   calls>>

-----------------------------------------------------------------------------
(* Packets that the client receives *)

Receives(type) ==
    /\ link = "up"
    /\ toClient # <<>>
    /\ Head(toClient).type = type
    /\ toClient' = Tail(toClient)
    /\ ServerWaits
    /\ UNCHANGED <<current>>

\* Mutant: the client is ready before its resubscription is answered.
OnConnectReady ==
    /\ connected' = TRUE
    /\ ready' = TRUE
    /\ chain' = "done"
    /\ toServer' = IF subscribedToDBs = {} THEN toServer
                   ELSE Append(toServer, [type |-> "subscribe", id |-> Resubscription,
                                          dbNames |-> subscribedToDBs])

\* _onConnect: _resubscribe, then ready.
OnConnect ==
    /\ connected' = TRUE
    /\ \/ /\ subscribedToDBs = {}
          /\ ready' = TRUE
          /\ chain' = "done"
          /\ UNCHANGED toServer
       \/ /\ subscribedToDBs # {}
          /\ toServer' = Append(toServer,
                 [type |-> "subscribe", dbNames |-> subscribedToDBs,
                  id |-> Resubscription])
          /\ chain' = IF chain = "verdict" THEN "resubscribing" ELSE chain
          /\ UNCHANGED ready

\* Mutant: nobody listens once _connect is through.
HeardOnce ==
    /\ Receives("authenticated")
    /\ \/ chain = "verdict" /\ OnConnect
       \/ /\ chain # "verdict"
          /\ UNCHANGED <<connected, ready, chain, toServer>>
    /\ UNCHANGED <<subscribedToDBs, reconnects, link, calls>>

\* The first time _connect waits for the verdict; once it is through, there is
\* a listener.  A _connect that never came through hears nothing.
ReceiveAuthenticated ==
    /\ Receives("authenticated")
    /\ \/ chain \in {"verdict", "done"} /\ OnConnect
       \/ /\ chain \notin {"verdict", "done"}
          /\ UNCHANGED <<connected, ready, chain, toServer>>
    /\ UNCHANGED <<subscribedToDBs, reconnects, link, calls>>

\* logIn() throws; later it is only reported.
ReceiveNotAuthenticated ==
    /\ Receives("not-authenticated")
    /\ chain' = IF chain = "verdict" THEN "failed" ELSE chain
    /\ UNCHANGED <<subscribedToDBs, connected, ready, reconnects, link, calls,
                   toServer>>

\* The server disconnected the socket: socket.io does not connect it again.
ReceiveDisconnect ==
    /\ Receives("disconnect")
    /\ Disconnected
    /\ reconnects' = FALSE
    /\ toServer' = <<>>
    /\ UNCHANGED <<subscribedToDBs, chain, calls>>

\* The change event of the application.
ReceiveChange ==
    /\ Receives("change")
    /\ UNCHANGED <<subscribedToDBs, connected, ready, chain, reconnects, link,
                   calls, toServer>>

\* _onConnect goes on, and with it the _connect that waits for it.
ReceiveResubscribed ==
    /\ Receives("ack")
    /\ Head(toClient).id = Resubscription
    /\ ready' = (ready \/ ~Head(toClient).error)
    /\ chain' = IF chain # "resubscribing" THEN chain
                ELSE IF Head(toClient).error THEN "failed" ELSE "done"
    /\ UNCHANGED <<subscribedToDBs, connected, reconnects, link, calls, toServer>>

\* What subscribe() and unsubscribe() do when they are answered.
Noted(call) ==
    CASE call.type = "subscribe"   -> subscribedToDBs \cup call.dbNames
      [] call.type = "unsubscribe" -> subscribedToDBs \ call.dbNames
      [] OTHER                     -> subscribedToDBs

\* The promise of a call is settled.
ReceiveAnswer(id) ==
    /\ Receives("ack")
    /\ Head(toClient).id = id
    /\ subscribedToDBs' = IF Head(toClient).error THEN subscribedToDBs
                          ELSE Noted(calls[id])
    /\ calls' = [calls EXCEPT ![id] = Idle]
    /\ UNCHANGED <<connected, ready, chain, reconnects, link, toServer>>

ClientReceives ==
    \/ ReceiveAuthenticated \/ ReceiveNotAuthenticated \/ ReceiveDisconnect
    \/ ReceiveChange \/ ReceiveResubscribed
    \/ \E id \in Call : ReceiveAnswer(id)

-----------------------------------------------------------------------------
(* Steps of the server *)

\* What the step writes to the client's connection is on its way.
Transmits ==
    /\ toClient' = IF link = "up" THEN toClient \o sent'[current] ELSE toClient
    /\ UNCHANGED <<subscribedToDBs, connected, ready, chain, reconnects, current,
                   link, calls>>

FeedWaits == changed' = {}

ServerLifecycle == (Start \/ Stop) /\ Transmits /\ FeedWaits /\ UNCHANGED toServer

ServerAuthenticates(s) ==
    CouchDBAnswers(s) /\ Transmits /\ FeedWaits /\ UNCHANGED toServer

\* The server handles the next request.
ServerHandles ==
    /\ link = "up" /\ toServer # <<>>
    /\ Handles(current, Head(toServer))
    /\ toServer' = Tail(toServer)
    /\ Transmits /\ FeedWaits

\* The server notices that the transport of s was cut.
ServerNotices(s) ==
    /\ s # current \/ link # "up"
    /\ Hangs(s)
    /\ Transmits /\ FeedWaits
    /\ UNCHANGED toServer

ServerEndsBatch(s) ==
    EndBatch(s) /\ Transmits /\ FeedWaits /\ UNCHANGED toServer

ServerPublishes(d) ==
    /\ Len(toClient) < MaxPackets
    /\ EmitChangeForDBName(d)
    /\ changed' = {d}
    /\ Transmits
    /\ UNCHANGED toServer

HowlerNext ==
    \/ LogIn \/ Notices \/ Cut \/ ClientReceives
    \/ \E id \in Call, d \in DB : SubscribeCall(id, d) \/ UnsubscribeCall(id, d)
    \/ \E id \in Call : LogOutCall(id)
    \/ \E s \in Socket : Opens(s) \/ ServerAuthenticates(s) \/ ServerNotices(s)
                           \/ ServerEndsBatch(s)
    \/ ServerLifecycle \/ ServerHandles
    \/ \E d \in DB : ServerPublishes(d)

HowlerSpec == HowlerInit /\ [][HowlerNext]_howlerVars

\* CouchDB answers, the transport carries what it is given, as long as it is not
\* cut, and both sides notice that it is.
FairHowlerSpec ==
    /\ HowlerSpec
    /\ WF_howlerVars(ClientReceives) /\ WF_howlerVars(ServerHandles)
    /\ WF_howlerVars(Notices) /\ WF_howlerVars(\E s \in Socket : Opens(s))
    /\ \A s \in Socket : /\ WF_howlerVars(ServerAuthenticates(s))
                         /\ WF_howlerVars(ServerNotices(s))

-----------------------------------------------------------------------------
(* Properties *)

Waits(id) == calls[id] # Idle
ConnectedTo(s) == current = s /\ link = "up" /\ conn[s] = "open"

\* isConnected() of a client that keeps no cookie is a promise about the server: a request is sent only on a
\* connection whose listeners are attached, and finds the socket registered, so
\* that it is neither ignored nor refused, as long as the connection lasts.
RequestsAreHeard ==
    toServer # <<>> /\ ConnectedTo(current) => Attached(current) /\ Registered(current)

\* Another call may log s out.
LoggedOutBy(other, s) == calls[other].type = "log-out" /\ calls[other].at = s

\* A promise of subscribe(), unsubscribe() or logOut() is settled, unless the
\* transport is cut, the server stops, or another logOut() ends the connection:
\* the log-out itself is answered although its handling ends the connection.
CallsSettle ==
    \A id \in Call, s \in Socket :
        (Waits(id) /\ calls[id].at = s /\ ConnectedTo(s))
        ~> \/ calls[id].at # s
           \/ link = "cut" \/ ~started
           \/ \E other \in Call \ {id} : LoggedOutBy(other, s)

\* A client that came through its first connection is ready again on every later
\* one that the server accepts, if that lasts, wherever the one before was lost:
\* in its resubscription, with calls under way, or unnoticed by the server.
ReconnectsBecomeReady ==
    \A s \in Socket :
        (chain = "done" /\ ConnectedTo(s) /\ Live(s)) ~> (ready \/ ~ConnectedTo(s))

\* The client implements Delivery, as long as its store keeps no cookie.  The
\* application may be told of the databases it subscribed to and of those it waits
\* for an answer about; it must be told of those it subscribed to when it is
\* ready, and does not unsubscribe from.
Pending(types) ==
    UNION {calls[id].dbNames :
             id \in {i \in Call : calls[i].type \in types /\ calls[i].at = current}}

\* The databases that the changes among packets name, in order.
ChangesUpTo(packets) ==
    LET upTo[n \in 0..Len(packets)] ==
          IF n = 0 THEN <<>>
          ELSE IF packets[n].type = "change" THEN Append(upTo[n - 1], packets[n].db)
          ELSE upTo[n - 1]
    IN  upTo
Changes(packets) == ChangesUpTo(packets)[Len(packets)]

D == INSTANCE Delivery WITH
        may  <- subscribedToDBs \cup Pending({"subscribe", "unsubscribe"}),
        must <- IF ready /\ ConnectedTo(current)
                THEN subscribedToDBs \ Pending({"unsubscribe"}) ELSE {},
        owed <- Changes(toClient),
        latest <- changed
ImplementsDelivery == D!DeliverySpec

\* Once the client has reconnected and is ready, it is subscribed to what the
\* application subscribed to on the connection that was lost ("The subscriptions
\* persist through reconnects", README.md:107).
SubscriptionsPersist ==
    \A id \in Call :
        (ready /\ calls[id].type = "subscribe" /\ calls[id].at # current)
        => calls[id].dbNames \subseteq subscribedToDBs

==============================================================================
