---------------------------- MODULE HowlerProofs -----------------------------
(***************************************************************************)
(* Theorems about Howler, for every number of connections, calls and       *)
(* databases: what holds of a server alone goes on to hold when a client   *)
(* uses it, and a request of that client never comes too early.            *)
(*                                                                         *)
(* The argument: the client is connected only after it has received the    *)
(* authenticated event of its last connection, which the server wrote to   *)
(* no socket but one whose listeners it attached in the same step; and     *)
(* what is on its way to the server was sent since then.                   *)
(***************************************************************************)
EXTENDS Howler, ServerProofs

IsAccepted(p) == p.type = "authenticated"
HasAccepted(packets) == \E i \in DOMAIN packets : IsAccepted(packets[i])

\* The client's last connection is one whose listeners are attached.
Heard == current \in Socket /\ Attached(current)

AcceptedIsHeard == HasAccepted(toClient) => Heard
ConnectedIsHeard == connected => Heard /\ link # "none"
RequestsAreLate == toServer # <<>> => connected /\ link = "up"
LinkedIsCurrent == link # "none" => current \in Socket

\* The part of HowlerTypeOK that is not the server's.
ClientTypes ==
    /\ subscribedToDBs \in SUBSET DB
    /\ connected \in BOOLEAN /\ ready \in BOOLEAN /\ reconnects \in BOOLEAN
    /\ chain \in {"none", "connecting", "verdict", "resubscribing", "done", "failed"}
    /\ current \in Socket \cup {NoSocket}
    /\ link \in {"none", "up", "cut"}
    /\ calls \in [Call -> {Idle} \cup PendingCall]
    /\ toServer \in Seq(Request)
    /\ toClient \in Seq(Packet)
    /\ changed \in SUBSET DB

\* The inductive invariant.
HowlerInv ==
    /\ ServerInv
    /\ HowlerTypeOK
    /\ AcceptedIsHeard
    /\ ConnectedIsHeard
    /\ RequestsAreLate
    /\ LinkedIsCurrent

-----------------------------------------------------------------------------
(* Packets *)

\* What is left of the packets after the first.
LEMMA TailAccepted ==
    ASSUME NEW packets \in Seq(Packet), packets # <<>>, HasAccepted(Tail(packets))
    PROVE  HasAccepted(packets)
  BY DEF HasAccepted

\* What is there after more packets are written.
LEMMA ConcatAccepted ==
    ASSUME NEW p \in Seq(Packet), NEW q \in Seq(Packet), HasAccepted(p \o q)
    PROVE  HasAccepted(p) \/ HasAccepted(q)
  <1>1. PICK i \in DOMAIN (p \o q) : IsAccepted((p \o q)[i])
    BY DEF HasAccepted
  <1>2. CASE i <= Len(p)
    BY <1>1, <1>2 DEF HasAccepted
  <1>3. CASE i > Len(p)
    <2>1. i - Len(p) \in DOMAIN q /\ (p \o q)[i] = q[i - Len(p)]
      BY <1>1, <1>3
    <2> QED
      BY <1>1, <2>1 DEF HasAccepted
  <1> QED
    BY <1>1, <1>2, <1>3

-----------------------------------------------------------------------------
(* Steps of the server *)

\* A socket whose listeners are attached keeps them.
LEMMA AttachedStays ==
    ASSUME ServerInv, ServerNext, NEW s \in Socket, Attached(s)
    PROVE  Attached(s)'
  <1> USE DEF Attached
  <1>t. auth \in [Socket -> {"none", "pending", "done", "failed"}]
    BY DEF ServerInv, ServerTypeOK
  <1>1. CASE Start \/ Stop
    BY <1>1 DEF Start, Stop, socketVars
  <1>2. ASSUME NEW t \in Socket, NEW c \in Cookie \cup {NoCookie}, Connect(t, c)
        PROVE  auth'[s] = "done"
    BY <1>2, <1>t DEF Connect, ServerInv, UnusedAreFresh
  <1>3. ASSUME NEW t \in Socket, CouchDBAnswers(t)
        PROVE  auth'[s] = "done"
    BY <1>3, <1>t DEF CouchDBAnswers, AuthFails, AuthSucceeds
  <1>4. ASSUME NEW t \in Socket, Hangs(t) \/ EndBatch(t)
        PROVE  auth'[s] = "done"
    BY <1>4 DEF Hangs, EndBatch
  <1>5. ASSUME NEW t \in Socket, NEW r \in Request, Handles(t, r)
        PROVE  auth'[s] = "done"
    BY <1>5 DEF Handles, HandleSubscribe, HandleUnsubscribe, HandleHeartbeat,
       HandleLogOut, IgnoreRequest, Arrives
  <1>6. ASSUME NEW d \in DB, EmitChangeForDBName(d)
        PROVE  auth'[s] = "done"
    BY <1>6 DEF EmitChangeForDBName, socketVars
  <1> QED
    BY <1>1, <1>2, <1>3, <1>4, <1>5, <1>6 DEF ServerNext

\* Only the step that attaches the listeners of a socket writes authenticated
\* to it.
LEMMA AcceptedIsAttached ==
    ASSUME ServerInv, ServerNext, NEW s \in Socket, HasAccepted(sent'[s])
    PROVE  Attached(s)'
  <1>t. auth \in [Socket -> {"none", "pending", "done", "failed"}]
    BY DEF ServerInv, ServerTypeOK
  <1>n. ~HasAccepted(<<>>)
    BY DEF HasAccepted
  <1>s. ~Silent
    BY <1>n, Written DEF Silent
  <1>1. ASSUME NEW t \in Socket, NEW c \in Cookie, AuthSucceeds(t, c)
        PROVE  Attached(s)'
    <2>1. s = t
      BY <1>1, <1>n, Written DEF AuthSucceeds
    <2> QED
      BY <1>1, <1>t, <2>1 DEF AuthSucceeds, Attached
  <1>2. ASSUME NEW t \in Socket, AuthFails(t)
        PROVE  FALSE
    <2>1. sent'[s] = <<NotAuthenticated, Disconnect>>
      BY <1>2, <1>n, Written DEF AuthFails
    <2>2. \A i \in DOMAIN sent'[s] : sent'[s][i] \in {NotAuthenticated, Disconnect}
      BY <2>1
    <2> QED
      BY <2>2 DEF HasAccepted, IsAccepted, NotAuthenticated, Disconnect
  <1>3. ASSUME NEW t \in Socket, NEW r \in Request, Handles(t, r)
        PROVE  FALSE
    <2>1. PICK e \in BOOLEAN : \/ Emit({t}, <<Ack(r, e)>>)
                               \/ Emit({t}, <<Ack(r, e), Disconnect>>)
      <3>1. Throws(t, r.dbNames) \in BOOLEAN
        BY DEF Throws
      <3> QED
        BY <1>3, <1>s, <3>1 DEF Handles, HandleSubscribe, HandleUnsubscribe,
           HandleHeartbeat, HandleLogOut, IgnoreRequest, Responds
    <2>2. \/ sent'[s] = <<Ack(r, e)>>
          \/ sent'[s] = <<Ack(r, e), Disconnect>>
      BY <1>n, <2>1, Written
    <2>3. \A i \in DOMAIN sent'[s] : sent'[s][i] \in {Ack(r, e), Disconnect}
      BY <2>2
    <2> QED
      BY <2>3 DEF HasAccepted, IsAccepted, Ack, Disconnect
  <1>4. ASSUME NEW d \in DB, EmitChangeForDBName(d)
        PROVE  FALSE
    <2>1. sent'[s] = <<Change(d)>>
      BY <1>4, <1>n, Written DEF EmitChangeForDBName
    <2>2. \A i \in DOMAIN sent'[s] : sent'[s][i] = Change(d)
      BY <2>1
    <2> QED
      BY <2>2 DEF HasAccepted, IsAccepted, Change
  <1>5. ~Start /\ ~Stop
    BY <1>s DEF Start, Stop
  <1>6. \A t \in Socket, c \in Cookie \cup {NoCookie} : ~Connect(t, c)
    BY <1>s DEF Connect
  <1>7. \A t \in Socket : ~Hangs(t) /\ ~EndBatch(t)
    BY <1>s DEF Hangs, EndBatch
  <1> QED
    BY <1>1, <1>2, <1>3, <1>4, <1>5, <1>6, <1>7 DEF ServerNext, CouchDBAnswers

\* While the client acts the server waits: it keeps its invariant.
LEMMA WaitingServer ==
    ASSUME ServerInv, ServerWaits
    PROVE  ServerInv' /\ (\A s \in Socket : Attached(s)' <=> Attached(s))
  <1>1. UNCHANGED <<registryVars, lifecycleVars, conn, auth, handshake, draining, crashed>>
    BY DEF ServerWaits, socketVars
  <1>2. sent' \in [Socket -> Seq(Packet)]
    BY SilentType DEF ServerWaits
  <1>3. draining' \in [Socket -> BOOLEAN] /\ \A s \in Socket : draining'[s] => draining[s]
    BY <1>1 DEF ServerInv, ServerTypeOK
  <1>4. ServerInv'
    BY <1>1, <1>2, <1>3, QuietStep
  <1> QED
    BY <1>1, <1>4 DEF Attached

\* A step of the server that the client does not take part in.
LEMMA ServerActs ==
    ASSUME HowlerInv, ServerNext, Transmits, changed' \in SUBSET DB,
           \/ UNCHANGED toServer
           \/ toServer # <<>> /\ toServer' = Tail(toServer)
    PROVE  HowlerInv'
  <1>t. /\ HowlerTypeOK /\ ServerInv
        /\ toServer \in Seq(Request) /\ toClient \in Seq(Packet)
    BY DEF HowlerInv, HowlerTypeOK
  <1>1. ServerInv'
    BY <1>t, NextServerInv
  <1>2. UNCHANGED <<subscribedToDBs, connected, ready, chain, reconnects, current,
                    link, calls>>
    BY DEF Transmits
  <1>3. Heard => Heard'
    BY <1>t, <1>2, AttachedStays DEF Heard
  <1>4. /\ toServer' \in Seq(Request)
        /\ toServer' # <<>> => toServer # <<>>
    BY <1>t
  <1>5. /\ toClient' \in Seq(Packet)
        /\ HasAccepted(toClient') => Heard'
    <2>1. CASE link = "up"
      <3>1. current \in Socket
        BY <2>1 DEF HowlerInv, LinkedIsCurrent
      <3>2. sent'[current] \in Seq(Packet) /\ toClient' = toClient \o sent'[current]
        BY <1>1, <2>1, <3>1 DEF ServerInv, ServerTypeOK, Transmits
      <3>3. HasAccepted(sent'[current]) => Heard'
        BY <1>t, <1>2, <3>1, AcceptedIsAttached DEF Heard
      <3>4. HasAccepted(toClient) => Heard'
        BY <1>3 DEF HowlerInv, AcceptedIsHeard
      <3>5. toClient' \in Seq(Packet)
        BY <1>t, <3>2
      <3> QED
        BY <1>t, <3>2, <3>3, <3>4, <3>5, ConcatAccepted
    <2>2. CASE link # "up"
      BY <1>t, <1>3, <2>2 DEF Transmits, HowlerInv, AcceptedIsHeard
    <2> QED
      BY <2>1, <2>2
  <1>6. HowlerTypeOK'
    BY <1>t, <1>1, <1>2, <1>4, <1>5 DEF HowlerTypeOK, ServerInv
  <1>7. AcceptedIsHeard'
    BY <1>5 DEF AcceptedIsHeard
  <1>8. ConnectedIsHeard' /\ RequestsAreLate' /\ LinkedIsCurrent'
    BY <1>2, <1>3, <1>4 DEF HowlerInv, ConnectedIsHeard, RequestsAreLate, LinkedIsCurrent
  <1> QED
    BY <1>1, <1>6, <1>7, <1>8 DEF HowlerInv

\* The server's own steps.
LEMMA ServerSteps ==
    ASSUME HowlerInv,
           \/ ServerLifecycle \/ ServerHandles
           \/ \E s \in Socket : ServerAuthenticates(s) \/ ServerNotices(s) \/ ServerEndsBatch(s)
           \/ \E d \in DB : ServerPublishes(d)
    PROVE  HowlerInv'
  <1>1. CASE ServerLifecycle
    BY <1>1, ServerActs DEF ServerLifecycle, FeedWaits, ServerNext
  <1>2. CASE ServerHandles
    <2>1. Head(toServer) \in Request /\ current \in Socket
      BY <1>2 DEF ServerHandles, HowlerInv, HowlerTypeOK, LinkedIsCurrent
    <2>2. ServerNext
      BY <1>2, <2>1 DEF ServerHandles, ServerNext
    <2> QED
      BY <1>2, <2>2, ServerActs DEF ServerHandles, FeedWaits
  <1>3. ASSUME NEW s \in Socket, ServerAuthenticates(s)
        PROVE  HowlerInv'
    BY <1>3, ServerActs DEF ServerAuthenticates, FeedWaits, ServerNext
  <1>4. ASSUME NEW s \in Socket, ServerNotices(s)
        PROVE  HowlerInv'
    BY <1>4, ServerActs DEF ServerNotices, FeedWaits, ServerNext
  <1>5. ASSUME NEW s \in Socket, ServerEndsBatch(s)
        PROVE  HowlerInv'
    BY <1>5, ServerActs DEF ServerEndsBatch, FeedWaits, ServerNext
  <1>6. ASSUME NEW d \in DB, ServerPublishes(d)
        PROVE  HowlerInv'
    BY <1>6, ServerActs DEF ServerPublishes, ServerNext
  <1> QED
    BY <1>1, <1>2, <1>3, <1>4, <1>5, <1>6

\* The client connects, with a socket that has no listeners yet.
LEMMA OpensStep ==
    ASSUME HowlerInv, NEW s \in Socket, Opens(s)
    PROVE  HowlerInv'
  <1>1. ServerInv' /\ HowlerTypeOK
    <2>1. ServerNext
      BY DEF Opens, ServerNext
    <2> QED
      BY <2>1, NextServerInv DEF HowlerInv
  <1>2. /\ current' = s /\ link' = "up" /\ link = "none"
        /\ toServer' = <<>> /\ toClient' = <<>> /\ changed' = {}
        /\ UNCHANGED <<subscribedToDBs, connected, ready, reconnects, calls>>
        /\ chain' \in {chain, "verdict"}
    BY DEF Opens
  <1>3. HowlerTypeOK'
    BY <1>1, <1>2 DEF HowlerTypeOK, ServerInv
  <1>4. AcceptedIsHeard'
    BY <1>2 DEF AcceptedIsHeard, HasAccepted
  <1>5. ConnectedIsHeard' /\ RequestsAreLate' /\ LinkedIsCurrent'
    BY <1>2 DEF HowlerInv, ConnectedIsHeard, RequestsAreLate, LinkedIsCurrent
  <1> QED
    BY <1>1, <1>3, <1>4, <1>5 DEF HowlerInv

-----------------------------------------------------------------------------
(* Steps of the client *)

\* A step of the client, which leaves the server alone.
LEMMA ClientActs ==
    ASSUME HowlerInv, ServerWaits, UNCHANGED current,
           ClientTypes',
           toClient' \in {toClient, <<>>} \/ (toClient # <<>> /\ toClient' = Tail(toClient)),
           connected' => (connected \/ HasAccepted(toClient)) /\ link' # "none",
           toServer' # <<>> => connected' /\ link' = "up",
           link' # "none" => link # "none"
    PROVE  HowlerInv'
  <1>1. ServerInv' /\ (Heard' <=> Heard)
    BY WaitingServer DEF HowlerInv, Heard
  <1>2. HowlerTypeOK'
    BY <1>1 DEF ServerInv, ClientTypes, HowlerTypeOK
  <1>3. HasAccepted(toClient') => HasAccepted(toClient)
    <2>1. ~HasAccepted(<<>>)
      BY DEF HasAccepted
    <2> QED
      BY <2>1, TailAccepted DEF HowlerInv, HowlerTypeOK
  <1>4. AcceptedIsHeard' /\ ConnectedIsHeard' /\ RequestsAreLate' /\ LinkedIsCurrent'
    BY <1>1, <1>3 DEF HowlerInv, AcceptedIsHeard, ConnectedIsHeard, RequestsAreLate,
       LinkedIsCurrent
  <1> QED
    BY <1>1, <1>2, <1>4 DEF HowlerInv

\* What the client knows of itself.
LEMMA HowlerInvTypes ==
    ASSUME HowlerInv
    PROVE  ClientTypes
  BY DEF HowlerInv, HowlerTypeOK, ClientTypes

\* The requests of the client, and what becomes of the channel to the server.
LEMMA RequestTypes ==
    ASSUME NEW dbNames \in SUBSET DB, NEW id \in CallId,
           NEW type \in {"subscribe", "unsubscribe", "heartbeat", "log-out"},
           NEW requests \in Seq(Request)
    PROVE  Append(requests, [type |-> type, dbNames |-> dbNames, id |-> id])
             \in Seq(Request)
  <1>1. [type |-> type, dbNames |-> dbNames, id |-> id] \in Request
    BY DEF Request
  <1> QED
    BY <1>1

\* A call that is sent, on the connection there is.
LEMMA EmitsTypes ==
    ASSUME HowlerInv, connected, NEW id \in Call, NEW dbNames \in SUBSET DB,
           NEW type \in {"subscribe", "unsubscribe", "log-out"},
           Emits(id, type, dbNames)
    PROVE  /\ calls' \in [Call -> {Idle} \cup PendingCall]
           /\ toServer' \in Seq(Request)
           /\ toServer' # <<>> => link = "up"
  <1>1. ClientTypes /\ current \in Socket /\ (toServer # <<>> => link = "up")
    BY HowlerInvTypes DEF HowlerInv, ConnectedIsHeard, Heard, RequestsAreLate
  <1>2. [type |-> type, dbNames |-> dbNames, at |-> current] \in PendingCall
    BY <1>1 DEF PendingCall
  <1>3. calls' \in [Call -> {Idle} \cup PendingCall]
    BY <1>1, <1>2 DEF Emits, ClientTypes
  <1>4. id \in CallId
    BY DEF Call
  <1>5. toServer' \in Seq(Request) /\ (toServer' # <<>> => link = "up")
    BY <1>1, <1>4, RequestTypes DEF Emits, ClientTypes
  <1> QED
    BY <1>3, <1>5

\* subscribe(), unsubscribe() and logOut(), of which the last names no database.
LEMMA CallsStep ==
    ASSUME HowlerInv, NEW id \in Call,
           \/ \E d \in DB : SubscribeCall(id, d) \/ UnsubscribeCall(id, d)
           \/ LogOutCall(id)
    PROVE  HowlerInv'
  <1>1. /\ ServerWaits
        /\ UNCHANGED <<connected, ready, chain, reconnects, current, link, toClient>>
    BY DEF SubscribeCall, UnsubscribeCall, LogOutCall, CallsOf
  <1>2. ClientTypes /\ (connected => link # "none")
        /\ (toServer # <<>> => connected /\ link = "up")
    BY HowlerInvTypes DEF HowlerInv, ConnectedIsHeard, RequestsAreLate
  <1>3. subscribedToDBs' \in SUBSET DB
    BY <1>2 DEF SubscribeCall, UnsubscribeCall, LogOutCall, ClientTypes
  <1>4. /\ calls' \in [Call -> {Idle} \cup PendingCall]
        /\ toServer' \in Seq(Request)
        /\ toServer' # <<>> => connected /\ link = "up"
    <2>1. CASE connected
      <3>1. \/ \E d \in DB : Emits(id, "subscribe", {d}) \/ Emits(id, "unsubscribe", {d})
            \/ Emits(id, "log-out", {})
        BY <2>1 DEF SubscribeCall, UnsubscribeCall, LogOutCall
      <3> QED
        BY <2>1, <3>1, EmitsTypes
    <2>2. CASE ~connected
      BY <1>2, <2>2 DEF SubscribeCall, UnsubscribeCall, LogOutCall, ClientTypes
    <2> QED
      BY <2>1, <2>2
  <1>5. changed' = {}
    BY <1>1 DEF ServerWaits
  <1>6. ClientTypes'
    BY <1>1, <1>2, <1>3, <1>4, <1>5 DEF ClientTypes
  <1> QED
    BY <1>1, <1>2, <1>4, <1>6, ClientActs

\* logIn(), and the end of a connection that the client notices or not.
LEMMA ConnectionStep ==
    ASSUME HowlerInv, LogIn \/ Notices \/ Cut
    PROVE  HowlerInv'
  <1>1. ServerWaits /\ UNCHANGED current /\ changed' = {}
    BY DEF LogIn, Notices, Cut, ServerWaits
  <1>2. ClientTypes /\ (connected => link # "none")
        /\ (toServer # <<>> => connected /\ link = "up")
    BY HowlerInvTypes DEF HowlerInv, ConnectedIsHeard, RequestsAreLate
  <1>3. CASE LogIn
    <2>1. ClientTypes'
      BY <1>1, <1>2, <1>3 DEF LogIn, ClientTypes
    <2> QED
      BY <1>1, <1>2, <1>3, <2>1, ClientActs DEF LogIn
  <1>4. CASE Notices
    <2>1. ClientTypes'
      <3>1. /\ link' = "none" /\ connected' = FALSE /\ ready' = FALSE
            /\ toServer' = <<>>
            /\ UNCHANGED <<subscribedToDBs, chain, reconnects, calls, toClient>>
        BY <1>4 DEF Notices, Disconnected
      <3>2. <<>> \in Seq(Request)
        OBVIOUS
      <3> QED
        BY <1>1, <1>2, <3>1, <3>2 DEF ClientTypes
    <2> QED
      BY <1>1, <1>4, <2>1, ClientActs DEF Notices, Disconnected
  <1>5. CASE Cut
    <2>1. ClientTypes'
      BY <1>1, <1>2, <1>5 DEF Cut, ClientTypes
    <2> QED
      BY <1>1, <1>2, <1>5, <2>1, ClientActs DEF Cut
  <1> QED
    BY <1>3, <1>4, <1>5

\* A packet that is received is the first on its way.
LEMMA ReceivesFirst ==
    ASSUME HowlerInv, NEW type, Receives(type)
    PROVE  /\ ServerWaits /\ UNCHANGED current /\ changed' = {}
           /\ link = "up" /\ toClient # <<>> /\ toClient' = Tail(toClient)
           /\ toClient' \in Seq(Packet)
           /\ Head(toClient).type = type
  BY HowlerInvTypes DEF Receives, ServerWaits, ClientTypes

\* _onConnect.
LEMMA OnConnectTypes ==
    ASSUME HowlerInv, OnConnect, link = "up"
    PROVE  /\ connected' = TRUE /\ ready' \in BOOLEAN
           /\ chain' \in {chain, "done", "resubscribing"}
           /\ toServer' \in Seq(Request)
  <1>1. ClientTypes /\ Resubscription \in CallId
    BY HowlerInvTypes, HowlerAssumption
  <1>2. CASE subscribedToDBs = {}
    BY <1>1, <1>2 DEF OnConnect, ClientTypes
  <1>3. CASE subscribedToDBs # {}
    <2>1. toServer' \in Seq(Request)
      BY <1>1, <1>3, RequestTypes DEF OnConnect, ClientTypes
    <2> QED
      BY <1>1, <1>3, <2>1 DEF OnConnect, ClientTypes
  <1> QED
    BY <1>2, <1>3

\* The authenticated event: the only step in which the client becomes connected.
LEMMA ReceiveAuthenticatedStep ==
    ASSUME HowlerInv, ReceiveAuthenticated
    PROVE  HowlerInv'
  <1>1. /\ ServerWaits /\ UNCHANGED current /\ changed' = {}
        /\ link = "up" /\ toClient # <<>> /\ toClient' = Tail(toClient)
        /\ toClient' \in Seq(Packet)
        /\ Head(toClient).type = "authenticated"
    BY ReceivesFirst DEF ReceiveAuthenticated
  <1>2. ClientTypes /\ (connected => link # "none")
        /\ (toServer # <<>> => connected /\ link = "up")
    BY HowlerInvTypes DEF HowlerInv, ConnectedIsHeard, RequestsAreLate
  <1>3. HasAccepted(toClient)
    <2>1. 1 \in DOMAIN toClient /\ toClient[1] = Head(toClient)
      BY <1>1, <1>2 DEF ClientTypes
    <2> QED
      BY <1>1, <2>1 DEF HasAccepted, IsAccepted
  <1>4. UNCHANGED <<subscribedToDBs, reconnects, link, calls>>
    BY DEF ReceiveAuthenticated
  <1>5. CASE OnConnect
    <2>1. /\ connected' = TRUE /\ ready' \in BOOLEAN
          /\ chain' \in {chain, "done", "resubscribing"}
          /\ toServer' \in Seq(Request)
      BY <1>1, <1>5, OnConnectTypes
    <2>2. ClientTypes'
      BY <1>1, <1>2, <1>4, <2>1 DEF ClientTypes
    <2> QED
      BY <1>1, <1>3, <1>4, <2>1, <2>2, ClientActs
  <1>6. CASE UNCHANGED <<connected, ready, chain, toServer>>
    <2>1. ClientTypes'
      BY <1>1, <1>2, <1>4, <1>6 DEF ClientTypes
    <2> QED
      BY <1>1, <1>2, <1>4, <1>6, <2>1, ClientActs
  <1> QED
    BY <1>5, <1>6 DEF ReceiveAuthenticated

\* The other packets.
LEMMA ReceiveOtherStep ==
    ASSUME HowlerInv,
           \/ ReceiveNotAuthenticated \/ ReceiveDisconnect \/ ReceiveChange
           \/ ReceiveResubscribed
           \/ \E id \in Call : ReceiveAnswer(id)
    PROVE  HowlerInv'
  <1>1. ClientTypes /\ (connected => link # "none")
        /\ (toServer # <<>> => connected /\ link = "up")
    BY HowlerInvTypes DEF HowlerInv, ConnectedIsHeard, RequestsAreLate
  <1>2. \E type \in {"not-authenticated", "disconnect", "change", "ack"} : Receives(type)
    BY DEF ReceiveNotAuthenticated, ReceiveDisconnect, ReceiveChange,
       ReceiveResubscribed, ReceiveAnswer
  <1>3. /\ ServerWaits /\ UNCHANGED current /\ changed' = {}
        /\ link = "up" /\ toClient # <<>> /\ toClient' = Tail(toClient)
        /\ toClient' \in Seq(Packet)
    BY <1>2, ReceivesFirst
  <1>4. CASE ReceiveDisconnect
    <2>1. ClientTypes'
      <3>1. /\ link' = "none" /\ connected' = FALSE /\ ready' = FALSE
            /\ reconnects' = FALSE /\ toServer' = <<>>
            /\ UNCHANGED <<subscribedToDBs, chain, calls>>
        BY <1>4 DEF ReceiveDisconnect, Disconnected
      <3>2. <<>> \in Seq(Request)
        OBVIOUS
      <3> QED
        BY <1>1, <1>3, <3>1, <3>2 DEF ClientTypes
    <2> QED
      BY <1>3, <1>4, <2>1, ClientActs DEF ReceiveDisconnect, Disconnected
  <1>5. CASE ReceiveNotAuthenticated \/ ReceiveChange
    <2>1. ClientTypes'
      BY <1>1, <1>3, <1>5 DEF ReceiveNotAuthenticated, ReceiveChange, ClientTypes
    <2> QED
      BY <1>1, <1>3, <1>5, <2>1, ClientActs DEF ReceiveNotAuthenticated, ReceiveChange
  <1>6. CASE ReceiveResubscribed
    <2>1. ClientTypes'
      BY <1>1, <1>3, <1>6 DEF ReceiveResubscribed, ClientTypes
    <2> QED
      BY <1>1, <1>3, <1>6, <2>1, ClientActs DEF ReceiveResubscribed
  <1>7. ASSUME NEW id \in Call, ReceiveAnswer(id)
        PROVE  HowlerInv'
    <2>1. subscribedToDBs' \in SUBSET DB
      <3>1. calls[id] = Idle \/ calls[id] \in PendingCall
        BY <1>1, <1>7 DEF ClientTypes
      <3>2. calls[id].dbNames \in SUBSET DB
        BY <3>1 DEF PendingCall, Idle
      <3>3. Noted(calls[id]) \in SUBSET DB
        BY <1>1, <3>2 DEF Noted, ClientTypes
      <3> QED
        BY <1>1, <1>7, <3>3 DEF ReceiveAnswer, ClientTypes
    <2>2. ClientTypes'
      BY <1>1, <1>3, <1>7, <2>1 DEF ReceiveAnswer, ClientTypes
    <2> QED
      BY <1>1, <1>3, <1>7, <2>2, ClientActs DEF ReceiveAnswer
  <1> QED
    BY <1>4, <1>5, <1>6, <1>7

-----------------------------------------------------------------------------
(* HowlerInv is inductive *)

\* Before anything is called.
LEMMA InitHowlerInv ==
    ASSUME HowlerInit
    PROVE  HowlerInv
  <1>1. ServerInv
    BY InitServerInv DEF HowlerInit
  <1>2. HowlerTypeOK
    <2>1. calls \in [Call -> {Idle} \cup PendingCall]
      BY DEF HowlerInit
    <2>2. toServer \in Seq(Request) /\ toClient \in Seq(Packet)
      BY DEF HowlerInit
    <2> QED
      BY <1>1, <2>1, <2>2 DEF HowlerInit, HowlerTypeOK, ServerInv
  <1> QED
    BY <1>1, <1>2 DEF HowlerInit, HowlerInv, AcceptedIsHeard, HasAccepted,
       ConnectedIsHeard, RequestsAreLate, LinkedIsCurrent

\* Every step preserves HowlerInv.
LEMMA NextHowlerInv ==
    ASSUME HowlerInv, [HowlerNext]_howlerVars
    PROVE  HowlerInv'
  <1>1. CASE UNCHANGED howlerVars
    <2>1. ServerInv'
      BY <1>1, NextServerInv DEF HowlerInv, howlerVars
    <2>2. UNCHANGED <<serverVars, clientVars>>
      BY <1>1 DEF howlerVars
    <2> QED
      BY <2>1, <2>2 DEF HowlerInv, HowlerTypeOK, ServerInv, AcceptedIsHeard,
         HasAccepted, ConnectedIsHeard, RequestsAreLate, LinkedIsCurrent, Heard,
         Attached, serverVars, clientVars
  <1>2. CASE HowlerNext
    <2>1. CASE LogIn \/ Notices \/ Cut
      BY <2>1, ConnectionStep
    <2>2. CASE ClientReceives
      BY <2>2, ReceiveAuthenticatedStep, ReceiveOtherStep DEF ClientReceives
    <2>3. ASSUME NEW id \in Call, NEW d \in DB, SubscribeCall(id, d) \/ UnsubscribeCall(id, d)
          PROVE  HowlerInv'
      BY <2>3, CallsStep
    <2>4. ASSUME NEW id \in Call, LogOutCall(id)
          PROVE  HowlerInv'
      BY <2>4, CallsStep
    <2>5. ASSUME NEW s \in Socket, Opens(s)
          PROVE  HowlerInv'
      BY <2>5, OpensStep
    <2> QED
      BY <1>2, <2>1, <2>2, <2>3, <2>4, <2>5, ServerSteps DEF HowlerNext
  <1> QED
    BY <1>1, <1>2

-----------------------------------------------------------------------------
(* The server in the composition *)

\* A step is one of the server, or one that the server waits in.
LEMMA ServerTakesPart ==
    ASSUME HowlerInv, [HowlerNext]_howlerVars
    PROVE  ServerWaits \/ [ServerNext]_serverVars
  <1>1. CASE UNCHANGED howlerVars
    BY <1>1 DEF howlerVars
  <1>2. CASE LogIn \/ Notices \/ Cut \/ ClientReceives
    BY <1>2 DEF LogIn, Notices, Cut, ClientReceives, ReceiveAuthenticated,
       ReceiveNotAuthenticated, ReceiveDisconnect, ReceiveChange, ReceiveResubscribed,
       ReceiveAnswer, Receives
  <1>3. CASE \/ \E id \in Call, d \in DB : SubscribeCall(id, d) \/ UnsubscribeCall(id, d)
             \/ \E id \in Call : LogOutCall(id)
    BY <1>3 DEF SubscribeCall, UnsubscribeCall, LogOutCall, CallsOf
  <1>4. CASE \E s \in Socket : \/ Opens(s) \/ ServerAuthenticates(s)
                               \/ ServerNotices(s) \/ ServerEndsBatch(s)
    BY <1>4 DEF Opens, ServerAuthenticates, ServerNotices, ServerEndsBatch, ServerNext
  <1>5. CASE ServerLifecycle \/ \E d \in DB : ServerPublishes(d)
    BY <1>5 DEF ServerLifecycle, ServerPublishes, ServerNext
  <1>6. CASE ServerHandles
    <2>1. Head(toServer) \in Request /\ current \in Socket
      BY <1>6 DEF ServerHandles, HowlerInv, HowlerTypeOK, LinkedIsCurrent
    <2> QED
      BY <1>6, <2>1 DEF ServerHandles, ServerNext
  <1> QED
    BY <1>1, <1>2, <1>3, <1>4, <1>5, <1>6 DEF HowlerNext

-----------------------------------------------------------------------------
(* The theorems *)

\* HowlerInv is an invariant: the server of a client keeps ServerInv.
THEOREM HowlerInvariant == HowlerSpec => []HowlerInv
  <1>1. HowlerInit => HowlerInv
    BY InitHowlerInv
  <1>2. HowlerInv /\ [HowlerNext]_howlerVars => HowlerInv'
    BY NextHowlerInv
  <1> QED
    BY <1>1, <1>2, PTL DEF HowlerSpec

\* The state of a client and its server keeps its types: a promise is pending on
\* a connection that was made, a packet and a request are what they should be.
THEOREM HowlerTypes == HowlerSpec => []HowlerTypeOK
  <1>1. HowlerInv => HowlerTypeOK
    BY DEF HowlerInv
  <1> QED
    BY <1>1, HowlerInvariant, PTL

\* No request of the client is ignored or refused for coming too early, whatever
\* connections are lost and made again: when it is sent, the server has attached
\* its listeners and registered the socket.
THEOREM HowlerRequestsAreHeard == HowlerSpec => []RequestsAreHeard
  <1>1. HowlerInv => RequestsAreHeard
    <2> SUFFICES ASSUME HowlerInv, toServer # <<>>, ConnectedTo(current)
                 PROVE  Attached(current) /\ Registered(current)
      BY DEF RequestsAreHeard
    <2>1. current \in Socket /\ Attached(current)
      BY DEF HowlerInv, RequestsAreLate, ConnectedIsHeard, Heard
    <2>2. Live(current)
      BY <2>1 DEF Live, ConnectedTo
    <2> QED
      BY <2>1, <2>2 DEF HowlerInv, ServerInv, LiveAreRegistered
  <1> QED
    BY <1>1, HowlerInvariant, PTL

\* The server of a client still implements Notifier: while the client acts
\* nobody is told anything, and no session begins, ends or changes what it is
\* subscribed to.
THEOREM HowlerImplementsNotifier == HowlerSpec => ImplementsNotifier
  <1>1. HowlerInit => N!NotifierInit
    BY InitNotifier DEF HowlerInit
  <1>2. HowlerInv /\ HowlerInv' /\ [HowlerNext]_howlerVars
        => [N!NotifierNext]_(N!notifierVars)
    <2> SUFFICES ASSUME HowlerInv, HowlerInv', [HowlerNext]_howlerVars
                 PROVE  [N!NotifierNext]_(N!notifierVars)
      OBVIOUS
    <2>1. ServerInv /\ ServerInv'
      BY DEF HowlerInv
    <2>2. ServerWaits \/ [ServerNext]_serverVars
      BY ServerTakesPart
    <2>3. CASE ServerWaits
      <3>1. UNCHANGED <<registryVars, conn, auth>> /\ Silent
        BY <2>3 DEF ServerWaits, socketVars
      <3>2. LiveSet' = LiveSet /\ Subs' = Subs /\ Told' = {}
        BY <3>1, QuietMaps, SilentTellsNothing
      <3>3. N!Quiet
        BY <3>2 DEF N!Quiet, LiveSet, Subs
      <3> QED
        BY <3>3 DEF N!NotifierNext
    <2>4. CASE [ServerNext]_serverVars
      BY <2>1, <2>4, NextNotifier
    <2> QED
      BY <2>2, <2>3, <2>4
  <1> QED
    BY <1>1, <1>2, HowlerInvariant, PTL DEF HowlerSpec, ImplementsNotifier, N!NotifierSpec

==============================================================================
