----------------------------- MODULE ClientProofs -----------------------------
(***************************************************************************)
(* Proofs about Client, for any number of sockets, databases, cookies and  *)
(* failures: its types, what its flags say of its heartbeat, that nothing  *)
(* goes on without a verdict of the server, and what stop() prevents.      *)
(*                                                                         *)
(* Types alone are not inductive: what logIn() stores is read from the     *)
(* socket whose verdict it got, an answer moves on the flows that the      *)
(* request names, and a client that is connected counts the listeners of   *)
(* its socket.  ClientInv adds that these sockets and flows exist.         *)
(***************************************************************************)
EXTENDS Client, FiniteSetTheorems, TLAPS

UnusedAreFresh ==
    \A k \in Socket : conn[k].link = "unused"
                       => conn[k].verdict = "none" /\ flow[k] = NoFlow

NoSocketNoConn ==
    socket = 0 => ~connected /\ \A k \in Socket : conn[k].link = "unused"

\* The states of a flow from the connect event on, as far as a step reads via.
WaitStates == {"authenticating", "resubscribing", "storing"}
WaitingKnowVia == \A k \in Socket : flow[k].state \in WaitStates => flow[k].via # 0

QueuedKnowVia ==
    \A k \in Socket : \A i \in DOMAIN queue[k] :
        queue[k][i].type = "resubscribe"
          => \A f \in queue[k][i].flows : flow[f].via # 0

ClientInv ==
    /\ ClientTypeOK
    /\ HeartbeatWhileReady
    /\ UnusedAreFresh
    /\ NoSocketNoConn
    /\ WaitingKnowVia
    /\ QueuedKnowVia

\* The states a flow can be moved to.
FlowStates == {"connecting", "authenticating", "resubscribing", "storing",
               "retrying", "done", "failed"}

-----------------------------------------------------------------------------
(* The parts of several steps *)

At(f, s) == [f EXCEPT !.state = s]
AtVia(f, s, v) == [f EXCEPT !.state = s, !.via = v]

\* A flow that exists is one of the records of Flow, and keeps its type when
\* its state changes.
LEMMA FlowRecord ==
    ASSUME NEW f \in Flow, f # NoFlow, NEW s \in FlowStates
    PROVE  /\ f.cookie \in Cookie
           /\ At(f, s) \in Flow /\ At(f, s).state = s /\ At(f, s).via = f.via
           /\ At(f, s).kind = f.kind
BY DEF Flow, FlowStates, At

\* The same when the socket whose verdict it awaits changes too.
LEMMA FlowRecordVia ==
    ASSUME NEW f \in Flow, f # NoFlow, NEW s \in FlowStates, NEW v \in 0..MaxSockets
    PROVE  AtVia(f, s, v) \in Flow /\ AtVia(f, s, v).via = v /\ AtVia(f, s, v).state = s
BY DEF Flow, FlowStates, AtVia

\* Moving flows that know the socket they await keeps what is known of flows.
LEMMA MovedFlows ==
    ASSUME ClientInv, NEW F \in SUBSET Socket, NEW st,
           \A k \in F : flow[k].via # 0 /\ st[k] \in FlowStates,
           Moved(F, st)
    PROVE  /\ flow' \in [Socket -> Flow]
           /\ \A k \in Socket : flow'[k].via = flow[k].via
           /\ \A k \in Socket : flow'[k] = NoFlow <=> flow[k] = NoFlow
           /\ WaitingKnowVia'
<1>1. flow \in [Socket -> Flow]
  BY DEF ClientInv, ClientTypeOK
<1>2. \A k \in F : flow[k] # NoFlow
  BY DEF NoFlow
<1>3. \A k \in Socket : flow'[k] = IF k \in F THEN [flow[k] EXCEPT !.state = st[k]]
                                              ELSE flow[k]
  BY DEF Moved
<1>4. ASSUME NEW k \in F
      PROVE  /\ flow'[k] \in Flow
             /\ flow'[k].via = flow[k].via
             /\ flow'[k] # NoFlow
  <2> DEFINE f == flow[k]
             s == st[k]
  <2>1. f \in Flow /\ f # NoFlow /\ f.via # 0 /\ s \in FlowStates
    BY <1>1, <1>2
  <2>2. flow'[k] = At(f, s)
    BY <1>3 DEF At
  <2> HIDE DEF f, s
  <2>3. flow'[k] \in Flow /\ flow'[k].via = f.via
    BY <2>1, <2>2, FlowRecord
  <2> QED BY <2>1, <2>3 DEF NoFlow, f
<1>5. \A k \in Socket \ F : flow'[k] = flow[k]
  BY <1>3
<1>6. flow' = [k \in Socket |-> flow'[k]]
  BY DEF Moved
<1>7. \A k \in Socket : flow'[k] \in Flow /\ flow'[k].via = flow[k].via
  BY <1>1, <1>4, <1>5
<1>8. \A k \in Socket : flow'[k] = NoFlow <=> flow[k] = NoFlow
  BY <1>2, <1>4, <1>5
<1>9. WaitingKnowVia'
  BY <1>4, <1>5 DEF WaitingKnowVia, ClientInv
<1> QED BY <1>6, <1>7, <1>8, <1>9

\* A connection of an unused socket has no verdict; it keeps its type, and
\* this, when one of its fields changes.
SoundConn(c) == c \in Conn /\ (c.link = "unused" => c.verdict = "none")

\* The fields of a sound connection, and what changing one of them keeps.
LEMMA ConnRecord ==
    ASSUME NEW c, SoundConn(c)
    PROVE  /\ c.subs \in SUBSET DB /\ c.onDisconnect \in Nat
           /\ c.onAuthenticated \in BOOLEAN
           /\ \A l \in {"connecting", "open", "down", "lost", "closed"} :
                /\ SoundConn([c EXCEPT !.link = l])
                /\ [c EXCEPT !.link = l].link # "unused"
           /\ \A v \in {"none", "asked", "accepted", "refused", "left"} :
                /\ c.link # "unused" => SoundConn([c EXCEPT !.verdict = v])
                /\ [c EXCEPT !.verdict = v].link = c.link
           /\ SoundConn([c EXCEPT !.admitted = TRUE])
           /\ [c EXCEPT !.admitted = TRUE].link = c.link
           /\ \A s \in SUBSET DB : /\ SoundConn([c EXCEPT !.subs = s])
                                   /\ [c EXCEPT !.subs = s].link = c.link
           /\ \A n \in Nat : /\ SoundConn([c EXCEPT !.onDisconnect = n])
                             /\ [c EXCEPT !.onDisconnect = n].link = c.link
           /\ \A b \in BOOLEAN : /\ SoundConn([c EXCEPT !.onAuthenticated = b])
                                 /\ [c EXCEPT !.onAuthenticated = b].link = c.link
BY DEF Conn, SoundConn

\* What a step does to the connections, the flows and the queues when it
\* makes no socket and no flow.
ConnsKept(c) ==
    /\ c \in [Socket -> Conn]
    /\ \A k \in Socket : SoundConn(c[k])
    /\ \A k \in Socket : c[k].link = "unused" => conn[k].link = "unused"
FlowsKept ==
    /\ flow' \in [Socket -> Flow]
    /\ \A k \in Socket : flow'[k].via = flow[k].via
    /\ \A k \in Socket : flow'[k] = NoFlow <=> flow[k] = NoFlow
    /\ WaitingKnowVia'
QueuesKept ==
    /\ queue' \in [Socket -> Seq(Request)]
    /\ \A k \in Socket : \A i \in DOMAIN queue'[k] :
         queue'[k][i].type = "resubscribe"
           => \A f \in queue'[k][i].flows : flow[f].via # 0

\* The part of ClientInv about connections, flows and queues.
NetworkInv ==
    /\ conn \in [Socket -> Conn]
    /\ flow \in [Socket -> Flow]
    /\ queue \in [Socket -> Seq(Request)]
    /\ UnusedAreFresh
    /\ NoSocketNoConn
    /\ WaitingKnowVia
    /\ QueuedKnowVia

\* A resubscription in a queue names flows and databases that exist.
LEMMA QueuedFlowsAreSockets ==
    ASSUME NEW q \in Seq(Request), NEW i \in DOMAIN q, q[i].type = "resubscribe"
    PROVE  q[i].flows \in SUBSET Socket /\ q[i].dbNames \in SUBSET DB
<1>1. q[i] \in Request
  OBVIOUS
<1> QED BY <1>1 DEF Request

\* Every connection is sound.
LEMMA ConnsSound ==
    ASSUME ClientInv
    PROVE  \A k \in Socket : SoundConn(conn[k])
BY DEF ClientInv, ClientTypeOK, UnusedAreFresh, SoundConn

\* A socket in use is the current one, or was.
LEMMA SocketMade ==
    ASSUME ClientInv, NEW k \in Socket, conn[k].link # "unused" \/ conn[k].verdict # "none"
    PROVE  socket # 0 /\ conn[k].link # "unused"
BY DEF ClientInv, UnusedAreFresh, NoSocketNoConn

\* A step that keeps the three, and makes no socket, keeps the invariant.
LEMMA NetworkKept ==
    ASSUME ClientInv, ConnsKept(conn'), FlowsKept, QueuesKept, socket' = socket,
           socket # 0 \/ (conn' = conn /\ connected' = connected)
    PROVE  NetworkInv'
<1> USE DEF ConnsKept, FlowsKept, QueuesKept
<1>1. UnusedAreFresh'
  BY DEF UnusedAreFresh, ClientInv, SoundConn
<1>2. NoSocketNoConn'
  BY DEF NoSocketNoConn, ClientInv
<1>3. QueuedKnowVia'
  <2> SUFFICES ASSUME NEW k \in Socket, NEW i \in DOMAIN queue'[k],
                      queue'[k][i].type = "resubscribe",
                      NEW f \in queue'[k][i].flows
               PROVE  flow'[f].via # 0
    BY DEF QueuedKnowVia
  <2>1. f \in Socket
    BY QueuedFlowsAreSockets
  <2> QED BY <2>1
<1> QED BY <1>1, <1>2, <1>3 DEF NetworkInv

\* Flows, connections or queues that a step leaves alone are kept.
LEMMA Unchanged ==
    ASSUME ClientInv
    PROVE  /\ ConnsKept(conn)
           /\ flow' = flow => FlowsKept
           /\ queue' = queue => QueuesKept
<1>1. ConnsKept(conn)
  BY ConnsSound DEF ClientInv, ClientTypeOK, ConnsKept
<1> QED BY <1>1 DEF ClientInv, ClientTypeOK, FlowsKept, QueuesKept,
                    WaitingKnowVia, WaitStates, QueuedKnowVia

\* Moving flows that know the socket they await keeps the flows.
LEMMA MovedKept ==
    ASSUME ClientInv, NEW F \in SUBSET Socket, NEW st,
           \A k \in F : flow[k].via # 0 /\ st[k] \in FlowStates,
           Moved(F, st)
    PROVE  FlowsKept
BY MovedFlows DEF FlowsKept

\* Changing one field of one connection, of a function that keeps the
\* connections, keeps them.
LEMMA ConnUpdate ==
    ASSUME NEW c, ConnsKept(c), NEW k, NEW r,
           k \in Socket
             => SoundConn(r) /\ (r.link = "unused" => conn[k].link = "unused")
    PROVE  ConnsKept([c EXCEPT ![k] = r])
BY DEF ConnsKept, SoundConn

\* The end of a connection keeps the connections, and only empties its queue.
LEMMA EndedKept ==
    ASSUME ClientInv, NEW k, NEW link \in {"down", "lost", "closed"}, Ended(k, link)
    PROVE  ConnsKept(conn') /\ QueuesKept
<1>1. conn \in [Socket -> Conn] /\ queue \in [Socket -> Seq(Request)]
  BY DEF ClientInv, ClientTypeOK
<1>2. ASSUME NEW j \in Socket
      PROVE  SoundConn(conn'[j]) /\ (conn'[j].link = "unused" => conn[j].link = "unused")
  <2>1. CASE j # k
    <3>1. conn'[j] = conn[j]
      BY <1>1, <2>1 DEF Ended
    <3> QED BY <3>1, ConnsSound
  <2>2. CASE j = k
    <3> DEFINE c1 == [conn[k] EXCEPT !.link = link]
               c2 == [c1 EXCEPT !.verdict = "none"]
    <3> SoundConn(conn[k])
      BY <2>2, ConnsSound
    <3>1. SoundConn(c1) /\ c1.link # "unused"
      <4>1. link \in {"connecting", "open", "down", "lost", "closed"}
        OBVIOUS
      <4> QED BY <4>1, ConnRecord
    <3>2. SoundConn(c2) /\ c2.link # "unused"
      <4> HIDE DEF c1
      <4> QED BY <3>1, ConnRecord
    <3>3. SoundConn([c2 EXCEPT !.subs = {}]) /\ [c2 EXCEPT !.subs = {}].link # "unused"
      <4> HIDE DEF c2
      <4> QED BY <3>2, ConnRecord
    <3>4. conn'[k] = [conn[k] EXCEPT !.link = link, !.verdict = "none", !.subs = {}]
      BY <1>1, <2>2 DEF Ended
    <3> QED BY <2>2, <3>3, <3>4
  <2> QED BY <2>1, <2>2
<1>3. conn' = [j \in Socket |-> conn'[j]]
  BY <1>1 DEF Ended
<1>4. ConnsKept(conn')
  BY <1>2, <1>3 DEF ConnsKept, SoundConn
<1>5. queue' = [j \in Socket |-> IF j = k THEN <<>> ELSE queue[j]]
  BY <1>1 DEF Ended
<1>6. queue' \in [Socket -> Seq(Request)]
  BY <1>1, <1>5
<1>7. \A j \in Socket : \A i \in DOMAIN queue'[j] : j # k /\ queue'[j] = queue[j]
  BY <1>1, <1>5
<1>8. QueuesKept
  BY <1>6, <1>7 DEF QueuesKept, QueuedKnowVia, ClientInv
<1> QED BY <1>4, <1>8

\* Sending appends a request to one queue.
LEMMA SentIsAppended ==
    ASSUME ClientInv, NEW r \in Request,
           queue' = [queue EXCEPT ![socket] = Append(@, r)]
    PROVE  /\ queue' \in [Socket -> Seq(Request)]
           /\ \A k \in Socket : \A i \in DOMAIN queue'[k] :
                queue'[k][i] = r \/ (i \in DOMAIN queue[k] /\ queue'[k][i] = queue[k][i])
<1>1. queue \in [Socket -> Seq(Request)]
  BY DEF ClientInv, ClientTypeOK
<1>2. \A k \in Socket : queue'[k] = IF k = socket THEN Append(queue[k], r) ELSE queue[k]
  BY <1>1
<1>3. \A k \in Socket : Append(queue[k], r) \in Seq(Request)
  BY <1>1
<1>4. queue' \in [Socket -> Seq(Request)]
  BY <1>1, <1>2, <1>3
<1>5. ASSUME NEW k \in Socket, NEW i \in DOMAIN queue'[k]
      PROVE  queue'[k][i] = r \/ (i \in DOMAIN queue[k] /\ queue'[k][i] = queue[k][i])
  <2>1. CASE k = socket
    <3> DEFINE q == queue[k]
    <3>1. q \in Seq(Request) /\ queue'[k] = Append(q, r)
      BY <1>1, <1>2, <2>1
    <3> HIDE DEF q
    <3>2. i \in 1..(Len(q) + 1)
      BY <3>1
    <3>3. CASE i = Len(q) + 1
      BY <3>1, <3>3
    <3>4. CASE i \in 1..Len(q)
      BY <3>1, <3>4 DEF q
    <3> QED BY <3>1, <3>2, <3>3, <3>4
  <2>2. CASE k # socket
    BY <1>2, <2>2
  <2> QED BY <2>1, <2>2
<1> QED BY <1>4, <1>5

\* Sending a request whose flows know the socket they await keeps the queues.
LEMMA SendKept ==
    ASSUME ClientInv, NEW r \in Request, Send(r),
           r.type = "resubscribe" => \A f \in r.flows : flow[f].via # 0
    PROVE  QueuesKept
<1>1. CASE queue' = [queue EXCEPT ![socket] = Append(@, r)]
  <2>1. /\ queue' \in [Socket -> Seq(Request)]
        /\ \A k \in Socket : \A i \in DOMAIN queue'[k] :
             queue'[k][i] = r \/ (i \in DOMAIN queue[k] /\ queue'[k][i] = queue[k][i])
    BY <1>1, SentIsAppended
  <2>2. QueuedKnowVia
    BY DEF ClientInv
  <2>3. ASSUME NEW k \in Socket, NEW i \in DOMAIN queue'[k],
               queue'[k][i].type = "resubscribe", NEW f \in queue'[k][i].flows
        PROVE  flow[f].via # 0
    BY <2>1, <2>2, <2>3 DEF QueuedKnowVia
  <2> QED BY <2>1, <2>3 DEF QueuesKept
<1>2. CASE queue' = queue
  BY <1>2, Unchanged
<1> QED BY <1>1, <1>2 DEF Send

-----------------------------------------------------------------------------
(* Flags and counters *)

\* The part of ClientTypeOK that is not about connections, flows and queues.
Scalars ==
    /\ session \in Cookie \cup {NoCookie}
    /\ subscribedToDBs \in SUBSET DB
    /\ connected \in BOOLEAN /\ ready \in BOOLEAN
    /\ heartbeatChecker \in BOOLEAN /\ answered \in BOOLEAN
    /\ stopped \in BOOLEAN /\ disconnectingSocket \in BOOLEAN
    /\ socket \in 0..MaxSockets
    /\ lookups \in Nat /\ loggingOut \in Nat
    /\ drops \in 0..MaxDrops
    /\ timeouts \in 0..MaxTimeouts
    /\ expired \in 0..MaxExpired

\* The invariant is about the network, the scalars and the heartbeat.
LEMMA Assembled ==
    /\ ClientInv <=> NetworkInv /\ Scalars /\ HeartbeatWhileReady
    /\ ClientInv' <=> NetworkInv' /\ Scalars' /\ HeartbeatWhileReady'
BY DEF ClientInv, ClientTypeOK, NetworkInv, Scalars

\* What the status of the client must satisfy after a step.
StatusKept ==
    /\ connected' \in BOOLEAN /\ ready' \in BOOLEAN
    /\ heartbeatChecker' \in BOOLEAN /\ answered' \in BOOLEAN
    /\ HeartbeatWhileReady'

\* A disconnect clears ready and stops the heartbeat together.
LEMMA DisconnectedKept ==
    ASSUME ClientInv, NEW n \in Nat, Disconnected(n),
           answered' = answered, stopped' = stopped
    PROVE  StatusKept /\ lookups' \in Nat
<1>1. Scalars /\ HeartbeatWhileReady
  BY Assembled
<1>2. lookups' \in Nat
  BY <1>1 DEF Disconnected, Reconnects, Scalars
<1>3. CASE n = 0
  BY <1>1, <1>2, <1>3 DEF Disconnected, Scalars, StatusKept, HeartbeatWhileReady
<1>4. CASE n # 0
  BY <1>1, <1>2, <1>4 DEF Disconnected, Scalars, StatusKept, HeartbeatWhileReady
<1> QED BY <1>2, <1>3, <1>4

\* Connecting sets ready and starts the heartbeat together, and moves on only
\* the flows it is told to.
LEMMA ReadyKept ==
    ASSUME ClientInv, NEW F \in SUBSET Socket, \A k \in F : flow[k].via # 0,
           NEW c, ConnsKept(c), Ready(F, c), connected' \in BOOLEAN
    PROVE  FlowsKept /\ ConnsKept(conn') /\ StatusKept
<1> DEFINE st == [k \in F |-> IF flow[k].kind = "logIn" THEN "storing" ELSE "done"]
           b == c[socket].onAuthenticated \/ F # {}
           r == [c[socket] EXCEPT !.onAuthenticated = b]
<1>1. \A k \in F : st[k] \in FlowStates
  BY DEF FlowStates
<1>2. FlowsKept
  <2>1. Moved(F, st)
    BY DEF Ready
  <2> HIDE DEF st
  <2> QED BY <1>1, <2>1, MovedKept
<1>3. ConnsKept(conn')
  <2>1. conn' = [c EXCEPT ![socket] = r]
    BY DEF Ready
  <2>2. ASSUME socket \in Socket
        PROVE  SoundConn(r) /\ (r.link = "unused" => conn[socket].link = "unused")
    <3>1. SoundConn(c[socket]) /\ b \in BOOLEAN
      BY <2>2, ConnRecord DEF ConnsKept
    <3>2. c[socket].link = "unused" => conn[socket].link = "unused"
      BY <2>2 DEF ConnsKept
    <3> HIDE DEF b
    <3> QED BY <3>1, <3>2, ConnRecord
  <2> HIDE DEF r
  <2> QED BY <2>1, <2>2, ConnUpdate
<1>4. StatusKept
  BY DEF Ready, StatusKept, HeartbeatWhileReady
<1> QED BY <1>2, <1>3, <1>4

\* A request that is sent if the client is connected.
LEMMA EmitKept ==
    ASSUME ClientInv, NEW type \in {"subscribe", "unsubscribe", "heartbeat", "log-out"},
           NEW dbNames \in SUBSET DB, EmitIfConnected(type, dbNames)
    PROVE  ConnsKept(conn') /\ QueuesKept
<1>1. ConnsKept(conn')
  BY Unchanged DEF EmitIfConnected
<1>2. CASE Send([type |-> type, dbNames |-> dbNames])
  <2> DEFINE r == [type |-> type, dbNames |-> dbNames]
  <2>1. r \in Request /\ r.type # "resubscribe"
    BY DEF Request
  <2>2. Send(r)
    BY <1>2
  <2> HIDE DEF r
  <2> QED BY <1>1, <2>1, <2>2, SendKept
<1>3. CASE UNCHANGED queue
  BY <1>1, <1>3, Unchanged
<1> QED BY <1>2, <1>3 DEF EmitIfConnected

\* The number of disconnect listeners that run is a number: a client that is
\* connected has a socket.
LEMMA HeardInNat ==
    ASSUME ClientInv
    PROVE  /\ Heard \in Nat
           /\ \A k \in Socket : conn[k].onDisconnect \in Nat
<1>1. \A k \in Socket : conn[k].onDisconnect \in Nat
  BY ConnsSound, ConnRecord
<1>2. connected => socket \in Socket
  BY ClientAssumption DEF ClientInv, ClientTypeOK, NoSocketNoConn, Socket
<1> QED BY <1>1, <1>2 DEF Heard, ClosesSocket

-----------------------------------------------------------------------------
(* The steps that make a socket *)

\* A new socket and its flow: nothing that is queued names it yet.
LEMMA NewSocketKept ==
    ASSUME ClientInv, NEW k \in Socket, NewSocket(k), queue' = queue,
           flow' \in [Socket -> Flow], WaitingKnowVia',
           \A j \in Socket \ {k} : /\ flow'[j].via = flow[j].via
                                   /\ flow[j] = NoFlow => flow'[j] = NoFlow
    PROVE  NetworkInv' /\ socket' \in Socket
<1>1. conn \in [Socket -> Conn] /\ queue \in [Socket -> Seq(Request)]
  BY DEF ClientInv, ClientTypeOK
<1>2. conn' = [conn EXCEPT ![k] = [conn[k] EXCEPT !.link = "connecting"]]
  BY DEF NewSocket
<1>3. conn' \in [Socket -> Conn]
  <2>1. [conn[k] EXCEPT !.link = "connecting"] \in Conn
    BY ConnsSound, ConnRecord DEF SoundConn
  <2> QED BY <1>1, <1>2, <2>1
<1>4. conn'[k].link = "connecting" /\ \A j \in Socket \ {k} : conn'[j] = conn[j]
  BY <1>1, <1>2 DEF Conn
<1>5. UnusedAreFresh'
  BY <1>4 DEF UnusedAreFresh, ClientInv
<1>6. NoSocketNoConn' /\ socket' \in Socket
  BY ClientAssumption DEF NewSocket, NoSocketNoConn, Socket
<1>7. flow[k].via = 0
  BY DEF NewSocket, ClientInv, UnusedAreFresh, NoFlow
<1>8. QueuedKnowVia'
  <2> SUFFICES ASSUME NEW j \in Socket, NEW i \in DOMAIN queue[j],
                      queue[j][i].type = "resubscribe",
                      NEW f \in queue[j][i].flows
               PROVE  flow'[f].via # 0
    BY DEF QueuedKnowVia
  <2>1. f \in Socket
    BY <1>1, QueuedFlowsAreSockets
  <2>2. flow[f].via # 0
    BY DEF ClientInv, QueuedKnowVia
  <2> QED BY <1>7, <2>1, <2>2
<1> QED BY <1>1, <1>3, <1>5, <1>6, <1>8 DEF NetworkInv

\* A flow that begins is well typed, and awaits no verdict.
LEMMA NewFlowIsFlow ==
    ASSUME NEW kind \in {"cookie", "logIn"}, NEW c \in Cookie
    PROVE  /\ NewFlow(kind, c) \in Flow
           /\ NewFlow(kind, c).state \notin WaitStates
BY ClientAssumption DEF NewFlow, Flow, WaitStates

\* logIn() up to its first await.
LEMMA LogInStep ==
    ASSUME ClientInv, NEW k \in Socket, NEW c \in Cookie, LogIn(k, c)
    PROVE  ClientInv'
<1> DEFINE f == NewFlow("logIn", c)
<1>1. f \in Flow /\ f.state \notin WaitStates
  BY NewFlowIsFlow
<1>2. flow \in [Socket -> Flow] /\ flow' = [flow EXCEPT ![k] = f]
  BY DEF LogIn, ClientInv, ClientTypeOK
<1> HIDE DEF f
<1>3. WaitingKnowVia'
  BY <1>1, <1>2 DEF WaitingKnowVia, ClientInv
<1>4. NetworkInv' /\ socket' \in Socket
  BY <1>1, <1>2, <1>3, NewSocketKept DEF LogIn
<1>5. Scalars'
  BY <1>4, Assembled DEF LogIn, Scalars, status, flags, counters, Socket
<1>6. HeartbeatWhileReady'
  BY DEF LogIn, ClientInv, HeartbeatWhileReady, status, flags
<1> QED BY <1>4, <1>5, <1>6, Assembled

\* The session store answers _connectIfCookie, with a cookie or without.
LEMMA LookUpStep ==
    ASSUME ClientInv, NEW k \in Socket, LookUp(k)
    PROVE  ClientInv'
<1>1. Scalars /\ NetworkInv /\ HeartbeatWhileReady
  BY Assembled
<1>2. lookups' \in Nat
  BY <1>1 DEF LookUp, Scalars
<1>3. HeartbeatWhileReady'
  BY <1>1 DEF LookUp, HeartbeatWhileReady, status, flags
<1>4. CASE HasCookie /\ NewSocket(k) /\ flow' = [flow EXCEPT ![k] = NewFlow("cookie", session)]
  <2> DEFINE f == NewFlow("cookie", session)
  <2>1. f \in Flow /\ f.state \notin WaitStates
    BY <1>1, <1>4, NewFlowIsFlow DEF HasCookie, Scalars
  <2>2. flow \in [Socket -> Flow] /\ flow' = [flow EXCEPT ![k] = f]
    BY <1>4 DEF ClientInv, ClientTypeOK
  <2> HIDE DEF f
  <2>3. WaitingKnowVia'
    BY <2>1, <2>2 DEF WaitingKnowVia, ClientInv
  <2>4. NetworkInv' /\ socket' \in Socket
    BY <1>4, <2>1, <2>2, <2>3, NewSocketKept DEF LookUp
  <2>5. Scalars'
    BY <1>1, <1>2, <2>4 DEF LookUp, Scalars, status, flags, counters, Socket
  <2> QED BY <1>3, <2>4, <2>5, Assembled
<1>5. CASE ~HasCookie /\ UNCHANGED <<conn, socket, flow>>
  <2>1. NetworkInv'
    BY <1>5, Unchanged, NetworkKept DEF LookUp, status
  <2>2. Scalars'
    BY <1>1, <1>2, <1>5 DEF LookUp, Scalars, status, flags, counters
  <2> QED BY <1>3, <2>1, <2>2, Assembled
<1> QED BY <1>4, <1>5 DEF LookUp

\* The backoff runs its closure again: the old flow is over.
LEMMA RetryStep ==
    ASSUME ClientInv, NEW j \in Socket, NEW k \in Socket, Retry(j, k)
    PROVE  ClientInv'
<1> DEFINE f == NewFlow("cookie", flow[j].cookie)
           g == [flow[j] EXCEPT !.state = "done"]
<1>1. flow \in [Socket -> Flow] /\ flow[j] # NoFlow
  BY DEF Retry, ClientInv, ClientTypeOK, NoFlow
<1>2. flow[k] = NoFlow
  BY DEF Retry, NewSocket, ClientInv, UnusedAreFresh
<1>3. g \in Flow /\ g.via = flow[j].via /\ g.state = "done" /\ flow[j].cookie \in Cookie
  <2>1. flow[j] \in Flow
    BY <1>1
  <2>2. "done" \in FlowStates /\ g = At(flow[j], "done")
    BY DEF FlowStates, At
  <2> HIDE DEF g
  <2> QED BY <1>1, <2>1, <2>2, FlowRecord
<1>4. f \in Flow /\ f.state \notin WaitStates
  BY <1>3, NewFlowIsFlow
<1>5. flow' = [flow EXCEPT ![j] = g, ![k] = f]
  BY <1>1, <1>2 DEF Retry
<1> HIDE DEF f, g
<1>6. flow' \in [Socket -> Flow]
  BY <1>1, <1>3, <1>4, <1>5
<1>7. WaitingKnowVia'
  BY <1>1, <1>3, <1>4, <1>5 DEF WaitingKnowVia, ClientInv, WaitStates
<1>8. \A i \in Socket \ {k} : /\ flow'[i].via = flow[i].via
                              /\ flow[i] = NoFlow => flow'[i] = NoFlow
  BY <1>1, <1>3, <1>5
<1>9. NetworkInv' /\ socket' \in Socket
  BY <1>6, <1>7, <1>8, NewSocketKept DEF Retry
<1>10. Scalars'
  BY <1>9, Assembled DEF Retry, Scalars, status, flags, counters, Socket
<1>11. HeartbeatWhileReady'
  BY DEF Retry, ClientInv, HeartbeatWhileReady, status, flags
<1> QED BY <1>9, <1>10, <1>11, Assembled

-----------------------------------------------------------------------------
(* The steps of a connection *)

\* The flow that goes on awaits the verdict on the socket that is current.
LEMMA OpensStep ==
    ASSUME ClientInv, NEW k \in Socket, Opens(k)
    PROVE  ClientInv'
<1> DEFINE r1 == [conn[k] EXCEPT !.link = "open"]
           r == [r1 EXCEPT !.verdict = "asked"]
           c == [conn EXCEPT ![k] = r]
<1>1. NetworkInv /\ Scalars /\ HeartbeatWhileReady
  BY Assembled
<1>2. socket # 0
  BY SocketMade DEF Opens
<1>3. ConnsKept(c)
  <2>1. SoundConn(r1) /\ r1.link # "unused"
    BY ConnsSound, ConnRecord
  <2> HIDE DEF r1
  <2>2. SoundConn(r) /\ r.link # "unused"
    BY <2>1, ConnRecord
  <2> HIDE DEF r
  <2> QED BY <2>2, Unchanged, ConnUpdate
<1>4. c = [conn EXCEPT ![k].link = "open", ![k].verdict = "asked"]
  BY <1>1 DEF NetworkInv
<1>5. Scalars' /\ HeartbeatWhileReady'
  BY <1>1 DEF Opens, Scalars, HeartbeatWhileReady, status, flags, counters
<1>6. CASE /\ flow[k].state = "connecting"
           /\ conn' = Listens(c)
           /\ flow' = [flow EXCEPT ![k].state = "authenticating", ![k].via = socket]
  <2> HIDE DEF c
  <2> DEFINE s == [c[socket] EXCEPT !.onDisconnect = @ + 1]
             g == [flow[k] EXCEPT !.state = "authenticating", !.via = socket]
  <2>1. ConnsKept(conn')
    <3>1. conn' = [c EXCEPT ![socket] = s]
      BY <1>6 DEF Listens
    <3>2. ASSUME socket \in Socket
          PROVE  SoundConn(s) /\ (s.link = "unused" => conn[socket].link = "unused")
      <4>1. SoundConn(c[socket]) /\ c[socket].onDisconnect + 1 \in Nat
        <5>1. SoundConn(c[socket])
          BY <1>3, <3>2 DEF ConnsKept
        <5>2. c[socket].onDisconnect \in Nat
          BY <5>1, ConnRecord
        <5> QED BY <5>1, <5>2
      <4>2. c[socket].link = "unused" => conn[socket].link = "unused"
        BY <1>3, <3>2 DEF ConnsKept
      <4> QED BY <4>1, <4>2, ConnRecord
    <3> HIDE DEF s
    <3> QED BY <1>3, <3>1, <3>2, ConnUpdate
  <2>2. flow[k] \in Flow /\ flow[k] # NoFlow /\ flow \in [Socket -> Flow]
    BY <1>1, <1>6 DEF NetworkInv, NoFlow
  <2>3. g \in Flow /\ g.via = socket /\ socket \in 0..MaxSockets
    <3>1. socket \in 0..MaxSockets /\ "authenticating" \in FlowStates
      BY <1>1 DEF Scalars, FlowStates
    <3>2. g = AtVia(flow[k], "authenticating", socket)
      BY DEF AtVia
    <3> HIDE DEF g
    <3> QED BY <2>2, <3>1, <3>2, FlowRecordVia
  <2>4. flow' = [flow EXCEPT ![k] = g]
    BY <1>6, <2>2
  <2> HIDE DEF g
  <2>5. flow' \in [Socket -> Flow] /\ \A j \in Socket \ {k} : flow'[j] = flow[j]
    BY <2>2, <2>3, <2>4
  <2>6. flow'[k].via # 0
    BY <1>2, <2>2, <2>3, <2>4
  <2>7. WaitingKnowVia'
    BY <1>1, <2>5, <2>6 DEF WaitingKnowVia, NetworkInv
  <2>8. QueuedKnowVia'
    <3> SUFFICES ASSUME NEW j \in Socket, NEW i \in DOMAIN queue[j],
                        queue[j][i].type = "resubscribe",
                        NEW f \in queue[j][i].flows
                 PROVE  flow'[f].via # 0
      BY DEF QueuedKnowVia, Opens
    <3>1. f \in Socket
      BY <1>1, QueuedFlowsAreSockets DEF NetworkInv
    <3>2. flow[f].via # 0
      BY <1>1 DEF NetworkInv, QueuedKnowVia
    <3> QED BY <2>5, <2>6, <3>1, <3>2
  <2>9. UnusedAreFresh'
    <3> SUFFICES ASSUME NEW j \in Socket, conn'[j].link = "unused"
                 PROVE  conn'[j].verdict = "none" /\ flow'[j] = NoFlow
      BY DEF UnusedAreFresh
    <3>1. conn'[j].verdict = "none" /\ conn[j].link = "unused"
      BY <2>1 DEF ConnsKept, SoundConn
    <3>2. flow[j] = NoFlow
      BY <1>1, <3>1 DEF NetworkInv, UnusedAreFresh
    <3> QED BY <2>2, <2>5, <3>1, <3>2
  <2>10. NetworkInv'
    BY <1>1, <1>2, <2>1, <2>5, <2>7, <2>8, <2>9
    DEF NetworkInv, ConnsKept, Opens, NoSocketNoConn
  <2> QED BY <1>5, <2>10, Assembled
<1>7. CASE flow[k].state # "connecting" /\ conn' = c /\ UNCHANGED flow
  <2> HIDE DEF c
  <2>1. NetworkInv'
    BY <1>2, <1>3, <1>7, Unchanged, NetworkKept DEF Opens
  <2> QED BY <1>5, <2>1, Assembled
<1> HIDE DEF c
<1> QED BY <1>4, <1>6, <1>7 DEF Opens

\* The flows that await a verdict know the socket they await it on.
LEMMA AwaitingKnowVia ==
    ASSUME ClientInv, NEW k \in Socket
    PROVE  /\ Awaiting(k) \in SUBSET Socket
           /\ \A j \in Awaiting(k) : flow[j].via # 0
BY DEF Awaiting, ClientInv, WaitingKnowVia, WaitStates

\* _onConnect: with nothing to subscribe to the client is ready at once.
LEMMA OnConnectKept ==
    ASSUME ClientInv, NEW F \in SUBSET Socket, \A j \in F : flow[j].via # 0,
           NEW c, ConnsKept(c), OnConnect(F, c)
    PROVE  ConnsKept(conn') /\ FlowsKept /\ (QueuesKept \/ UNCHANGED queue)
<1>1. CASE Ready(F, c) /\ UNCHANGED queue
  BY <1>1, ReadyKept DEF OnConnect
<1>2. CASE /\ conn' = c
           /\ Send([type |-> "resubscribe", dbNames |-> subscribedToDBs, flows |-> F])
           /\ Moved(F, [j \in F |-> "resubscribing"])
  <2> DEFINE r == [type |-> "resubscribe", dbNames |-> subscribedToDBs, flows |-> F]
             st == [j \in F |-> "resubscribing"]
  <2>1. r \in Request /\ r.flows = F
    BY DEF Request, ClientInv, ClientTypeOK
  <2>2. \A j \in F : st[j] \in FlowStates
    BY DEF FlowStates
  <2>3. Send(r) /\ Moved(F, st)
    BY <1>2
  <2> HIDE DEF r, st
  <2>4. QueuesKept
    BY <2>1, <2>3, SendKept
  <2>5. FlowsKept
    BY <2>2, <2>3, MovedKept
  <2> QED BY <1>2, <2>4, <2>5
<1> QED BY <1>1, <1>2 DEF OnConnect

\* An authenticated event, heard by flows, by a listener, or by nobody.
LEMMA AuthenticatedStep ==
    ASSUME ClientInv, NEW k \in Socket, Authenticated(k)
    PROVE  ClientInv'
<1> DEFINE F == Awaiting(k)
           r1 == [conn[k] EXCEPT !.verdict = "accepted"]
           r == [r1 EXCEPT !.admitted = TRUE]
           c == [conn EXCEPT ![k] = r]
<1>1. NetworkInv /\ Scalars /\ HeartbeatWhileReady
  BY Assembled
<1>2. socket # 0 /\ conn[k].link # "unused"
  BY SocketMade DEF Authenticated
<1>3. ConnsKept(c)
  <2>1. SoundConn(r1) /\ r1.link # "unused"
    BY <1>2, ConnsSound, ConnRecord
  <2> HIDE DEF r1
  <2>2. SoundConn(r) /\ r.link # "unused"
    BY <2>1, ConnRecord
  <2> HIDE DEF r
  <2> QED BY <2>2, Unchanged, ConnUpdate
<1>4. c = [conn EXCEPT ![k].verdict = "accepted", ![k].admitted = TRUE]
  BY <1>1 DEF NetworkInv
<1>5. F \in SUBSET Socket /\ \A j \in F : flow[j].via # 0
  BY AwaitingKnowVia
<1> HIDE DEF c, F
<1>6. CASE OnConnect(F, c)
  <2>1. ConnsKept(conn') /\ FlowsKept /\ QueuesKept
    BY <1>3, <1>5, <1>6, OnConnectKept, Unchanged
  <2>2. StatusKept
    <3>1. CASE Ready(F, c)
      BY <1>3, <1>5, <1>6, <3>1, ReadyKept DEF OnConnect
    <3>2. CASE UNCHANGED <<ready, heartbeatChecker, answered>>
      BY <1>1, <1>6, <3>2
      DEF OnConnect, Authenticated, StatusKept, HeartbeatWhileReady, Scalars, flags
    <3> QED BY <1>6, <3>1, <3>2 DEF OnConnect
  <2>3. NetworkInv'
    BY <1>2, <2>1, NetworkKept DEF Authenticated
  <2>4. Scalars'
    BY <1>1, <2>2 DEF Authenticated, Scalars, StatusKept, flags, counters
  <2> QED BY <2>2, <2>3, <2>4, Assembled DEF StatusKept
<1>7. CASE conn' = c /\ UNCHANGED <<status, flow, queue>>
  <2>1. NetworkInv'
    BY <1>2, <1>3, <1>7, Unchanged, NetworkKept DEF Authenticated
  <2>2. Scalars' /\ HeartbeatWhileReady'
    BY <1>1, <1>7
    DEF Authenticated, Scalars, HeartbeatWhileReady, status, flags, counters
  <2> QED BY <2>1, <2>2, Assembled
<1> QED BY <1>4, <1>6, <1>7 DEF Authenticated, F

\* What logIn() stores is the cookie of a flow that exists, or no cookie.
LEMMA StoreStep ==
    ASSUME ClientInv, NEW k \in Socket, Store(k)
    PROVE  ClientInv'
<1> DEFINE st == [j \in {k} |-> "done"]
<1>1. NetworkInv /\ Scalars /\ HeartbeatWhileReady
  BY Assembled
<1>2. flow[k].via # 0 /\ flow[k] # NoFlow /\ flow[k] \in Flow
  BY <1>1 DEF Store, NetworkInv, WaitingKnowVia, WaitStates, NoFlow
<1>3. session' \in Cookie \cup {NoCookie}
  <2>1. flow[k].via \in Socket
    BY <1>2, ClientAssumption DEF Flow, NoFlow, Socket
  <2>2. flow[flow[k].via] \in Flow
    BY <1>1, <2>1 DEF NetworkInv
  <2> QED BY <2>2 DEF Store, Flow, NoFlow
<1>4. st[k] \in FlowStates /\ Moved({k}, st)
  BY DEF FlowStates, Store
<1> HIDE DEF st
<1>5. FlowsKept
  BY <1>2, <1>4, MovedKept
<1>6. NetworkInv'
  BY <1>5, Unchanged, NetworkKept DEF Store, status
<1>7. Scalars' /\ HeartbeatWhileReady'
  BY <1>1, <1>3 DEF Store, Scalars, HeartbeatWhileReady, status, flags, counters
<1> QED BY <1>6, <1>7, Assembled

\* A not-authenticated event.
LEMMA NotAuthenticatedStep ==
    ASSUME ClientInv, NEW k \in Socket, NotAuthenticated(k)
    PROVE  ClientInv'
<1> DEFINE F == Awaiting(k)
           st == [j \in F |-> Refused(flow[j])]
           r == [conn[k] EXCEPT !.verdict = "refused"]
<1>1. NetworkInv /\ Scalars /\ HeartbeatWhileReady
  BY Assembled
<1>2. socket # 0 /\ conn[k].link # "unused"
  BY SocketMade DEF NotAuthenticated
<1>3. ConnsKept(conn')
  <2>1. SoundConn(r) /\ r.link # "unused"
    BY <1>2, ConnsSound, ConnRecord
  <2>2. conn' = [conn EXCEPT ![k] = r]
    BY DEF NotAuthenticated
  <2> HIDE DEF r
  <2> QED BY <2>1, <2>2, Unchanged, ConnUpdate
<1>4. FlowsKept
  <2>1. F \in SUBSET Socket /\ \A j \in F : flow[j].via # 0
    BY AwaitingKnowVia
  <2>2. \A j \in F : st[j] \in FlowStates
    BY DEF FlowStates, Refused
  <2>3. Moved(F, st)
    BY DEF NotAuthenticated
  <2> HIDE DEF F, st
  <2> QED BY <2>1, <2>2, <2>3, MovedKept
<1>5. QueuesKept
  <2>1. queue' \in [Socket -> Seq(Request)]
    BY <1>1 DEF NotAuthenticated, NetworkInv
  <2>2. \A j \in Socket : \A i \in DOMAIN queue'[j] : queue'[j] = queue[j]
    BY <1>1 DEF NotAuthenticated, NetworkInv
  <2> QED BY <1>1, <2>1, <2>2 DEF QueuesKept, QueuedKnowVia, NetworkInv
<1>6. NetworkInv'
  BY <1>2, <1>3, <1>4, <1>5, NetworkKept DEF NotAuthenticated
<1>7. Scalars' /\ HeartbeatWhileReady'
  <2>1. expired' \in 0..MaxExpired
    BY <1>1, ClientAssumption DEF NotAuthenticated, Scalars
  <2> QED BY <1>1, <2>1 DEF NotAuthenticated, Scalars, HeartbeatWhileReady, status, flags
<1> QED BY <1>6, <1>7, Assembled

-----------------------------------------------------------------------------
(* The steps that lose a connection *)

\* The server closes a connection.
LEMMA KickedStep ==
    ASSUME ClientInv, NEW k \in Socket, Kicked(k)
    PROVE  ClientInv'
<1>1. Scalars
  BY Assembled
<1>2. ConnsKept(conn') /\ QueuesKept /\ FlowsKept
  BY EndedKept, Unchanged DEF Kicked
<1>3. socket # 0
  BY SocketMade DEF Kicked
<1>4. StatusKept /\ lookups' \in Nat
  BY HeardInNat, DisconnectedKept DEF Kicked, flags
<1>5. NetworkInv'
  BY <1>2, <1>3, NetworkKept DEF Kicked
<1>6. Scalars'
  BY <1>1, <1>4 DEF Kicked, Scalars, StatusKept, flags, counters
<1> QED BY <1>4, <1>5, <1>6, Assembled DEF StatusKept

\* A transport is lost.
LEMMA DroppedStep ==
    ASSUME ClientInv, NEW k \in Socket, Dropped(k)
    PROVE  ClientInv'
<1>1. Scalars
  BY Assembled
<1>2. ConnsKept(conn') /\ QueuesKept /\ FlowsKept
  <2>1. PICK l \in AfterLoss : Ended(k, l)
    BY DEF Dropped
  <2>2. ConnsKept(conn') /\ QueuesKept
    BY <2>1, ClientAssumption, EndedKept
  <2> QED BY <2>2, Unchanged DEF Dropped
<1>3. socket # 0
  BY SocketMade DEF Dropped
<1>4. StatusKept /\ lookups' \in Nat
  BY HeardInNat, DisconnectedKept DEF Dropped, flags
<1>5. NetworkInv'
  BY <1>2, <1>3, NetworkKept DEF Dropped
<1>6. drops' \in 0..MaxDrops
  BY <1>1, ClientAssumption DEF Dropped, Scalars
<1>7. Scalars'
  BY <1>1, <1>4, <1>6 DEF Dropped, Scalars, StatusKept, flags
<1> QED BY <1>4, <1>5, <1>7, Assembled DEF StatusKept

\* A client that closes its socket has one.
LEMMA CloseSocketKept ==
    ASSUME ClientInv, CloseSocket
    PROVE  /\ ConnsKept(conn') /\ QueuesKept
           /\ disconnectingSocket' \in BOOLEAN
           /\ socket # 0
BY EndedKept DEF CloseSocket, ClosesSocket, ClientInv, NoSocketNoConn

\* The heartbeat is stopped whether or not a listener clears ready.
LEMMA StopStep ==
    ASSUME ClientInv, Stop
    PROVE  ClientInv'
<1>1. Scalars
  BY Assembled
<1>2. ready' \in BOOLEAN /\ connected' \in BOOLEAN /\ (connected' => connected)
  BY <1>1 DEF Stop, Scalars
<1>3. /\ ConnsKept(conn') /\ QueuesKept /\ FlowsKept
      /\ disconnectingSocket' \in BOOLEAN
      /\ socket # 0 \/ conn' = conn
  BY <1>1, CloseSocketKept, Unchanged DEF Stop, Scalars
<1>4. HeartbeatWhileReady'
  BY DEF Stop, HeartbeatWhileReady
<1>5. NetworkInv'
  <2>1. socket # 0 \/ (conn' = conn /\ connected' = connected)
    <3>1. CASE socket = 0
      <4>1. connected = FALSE /\ connected' = FALSE
        BY <1>1, <1>2, <3>1 DEF ClientInv, NoSocketNoConn, Scalars
      <4> QED BY <1>3, <3>1, <4>1
    <3> QED BY <3>1
  <2> QED BY <1>3, <2>1, NetworkKept DEF Stop
<1>6. Scalars'
  BY <1>1, <1>2, <1>3 DEF Stop, Scalars, counters
<1> QED BY <1>4, <1>5, <1>6, Assembled

-----------------------------------------------------------------------------
(* The steps of the heartbeat *)

\* A heartbeat is sent.
LEMMA TickStep ==
    ASSUME ClientInv, Tick
    PROVE  ClientInv'
<1>1. Scalars /\ HeartbeatWhileReady
  BY Assembled
<1>2. QueuesKept
  BY EmitKept DEF Tick
<1>3. NetworkInv'
  BY <1>2, Unchanged, NetworkKept DEF Tick, EmitIfConnected
<1>4. Scalars' /\ HeartbeatWhileReady'
  BY <1>1 DEF Tick, Scalars, HeartbeatWhileReady, flags, counters
<1> QED BY <1>3, <1>4, Assembled

\* A heartbeat is overdue: _disconnect runs at least once.
LEMMA ReconnectStep ==
    ASSUME ClientInv, Reconnect
    PROVE  ClientInv'
<1>1. Scalars
  BY Assembled
<1>2. Heard + 1 \in Nat /\ Heard + 1 # 0
  BY HeardInNat
<1>3. StatusKept /\ lookups' \in Nat
  BY <1>2, DisconnectedKept DEF Reconnect
<1>4. /\ ConnsKept(conn') /\ QueuesKept /\ FlowsKept
      /\ disconnectingSocket' \in BOOLEAN
      /\ socket # 0 \/ conn' = conn
  <2>1. CASE CloseSocket
    BY <2>1, CloseSocketKept, Unchanged DEF Reconnect
  <2>2. CASE EmitIfConnected("heartbeat", {}) /\ UNCHANGED disconnectingSocket
    BY <1>1, <2>2, EmitKept, Unchanged DEF Reconnect, Scalars, EmitIfConnected
  <2> QED BY <2>1, <2>2 DEF Reconnect
<1>5. NetworkInv'
  <2>1. connected' = FALSE
    BY <1>2 DEF Reconnect, Disconnected
  <2>2. socket # 0 \/ (conn' = conn /\ connected' = connected)
    <3>1. CASE socket = 0
      <4>1. connected = FALSE
        BY <1>1, <3>1 DEF ClientInv, NoSocketNoConn, Scalars
      <4> QED BY <1>4, <2>1, <3>1, <4>1
    <3> QED BY <3>1
  <2> QED BY <1>4, <2>2, NetworkKept DEF Reconnect
<1>6. timeouts' \in 0..MaxTimeouts
  BY <1>1, ClientAssumption DEF Reconnect, Scalars
<1>7. Scalars'
  BY <1>1, <1>3, <1>4, <1>6 DEF Reconnect, Scalars, StatusKept
<1> QED BY <1>3, <1>5, <1>7, Assembled DEF StatusKept

-----------------------------------------------------------------------------
(* The steps of a request *)

\* subscribe().
LEMMA SubscribeStep ==
    ASSUME ClientInv, NEW d \in DB, SubscribeCall(d)
    PROVE  ClientInv'
<1>1. Scalars /\ HeartbeatWhileReady
  BY Assembled
<1>2. QueuesKept
  BY EmitKept DEF SubscribeCall
<1>3. NetworkInv'
  BY <1>2, Unchanged, NetworkKept DEF SubscribeCall, EmitIfConnected, status
<1>4. subscribedToDBs' \in SUBSET DB
  BY <1>1 DEF SubscribeCall, Scalars
<1>5. Scalars' /\ HeartbeatWhileReady'
  BY <1>1, <1>4
  DEF SubscribeCall, Scalars, HeartbeatWhileReady, status, flags, counters
<1> QED BY <1>3, <1>5, Assembled

\* unsubscribe().
LEMMA UnsubscribeStep ==
    ASSUME ClientInv, NEW d \in DB, UnsubscribeCall(d)
    PROVE  ClientInv'
<1>1. Scalars /\ HeartbeatWhileReady
  BY Assembled
<1>2. QueuesKept
  BY EmitKept DEF UnsubscribeCall
<1>3. NetworkInv'
  BY <1>2, Unchanged, NetworkKept DEF UnsubscribeCall, EmitIfConnected, status
<1>4. subscribedToDBs' \in SUBSET DB
  BY <1>1 DEF UnsubscribeCall, Scalars
<1>5. Scalars' /\ HeartbeatWhileReady'
  BY <1>1, <1>4
  DEF UnsubscribeCall, Scalars, HeartbeatWhileReady, status, flags, counters
<1> QED BY <1>3, <1>5, Assembled

\* logOut() up to its first await.
LEMMA LogOutStep ==
    ASSUME ClientInv, LogOut
    PROVE  ClientInv'
<1>1. Scalars /\ HeartbeatWhileReady
  BY Assembled
<1>2. NetworkInv'
  BY Unchanged, NetworkKept DEF LogOut, status
<1>3. Scalars' /\ HeartbeatWhileReady'
  BY <1>1 DEF LogOut, Scalars, HeartbeatWhileReady, status, flags, counters
<1> QED BY <1>2, <1>3, Assembled

\* logOut() after it.
LEMMA EmitLogOutStep ==
    ASSUME ClientInv, EmitLogOut
    PROVE  ClientInv'
<1>1. Scalars /\ HeartbeatWhileReady
  BY Assembled
<1>2. QueuesKept
  BY EmitKept DEF EmitLogOut
<1>3. NetworkInv'
  BY <1>2, Unchanged, NetworkKept DEF EmitLogOut, EmitIfConnected, status
<1>4. loggingOut' \in Nat
  BY <1>1 DEF EmitLogOut, Scalars
<1>5. Scalars' /\ HeartbeatWhileReady'
  BY <1>1, <1>4
  DEF EmitLogOut, Scalars, HeartbeatWhileReady, status, flags, counters
<1> QED BY <1>3, <1>5, Assembled

\* The server changes the subscriptions of one connection.
LEMMA SubsKept ==
    ASSUME ClientInv, NEW k \in Socket, NEW s \in SUBSET DB
    PROVE  ConnsKept([conn EXCEPT ![k].subs = s])
<1> DEFINE r == [conn[k] EXCEPT !.subs = s]
<1>1. SoundConn(r) /\ r.link = conn[k].link
  BY ConnsSound, ConnRecord
<1>2. [conn EXCEPT ![k].subs = s] = [conn EXCEPT ![k] = r]
  OBVIOUS
<1> HIDE DEF r
<1> QED BY <1>1, <1>2, Unchanged, ConnUpdate

\* What each type of request does, once the server has it.
LEMMA EffectKept ==
    ASSUME ClientInv, NEW k \in Socket, conn[k].link # "unused",
           NEW r \in Request, Effect(k, r),
           r.type = "resubscribe" => \A f \in r.flows : flow[f].via # 0,
           connected' = connected, stopped' = stopped
    PROVE  /\ ConnsKept(conn') /\ FlowsKept /\ StatusKept
           /\ subscribedToDBs' \in SUBSET DB
<1>1. Scalars /\ HeartbeatWhileReady
  BY Assembled
<1>2. conn \in [Socket -> Conn] /\ conn[k].subs \in SUBSET DB
  BY ConnsSound, ConnRecord DEF ClientInv, ClientTypeOK
<1>3. r.dbNames \in SUBSET DB
  BY DEF Request
<1>4. UNCHANGED <<ready, heartbeatChecker, answered>> => StatusKept
  BY <1>1 DEF StatusKept, HeartbeatWhileReady, Scalars
<1>5. CASE /\ r.type = "resubscribe"
           /\ Ready(r.flows, [conn EXCEPT ![k].subs = @ \cup r.dbNames])
           /\ UNCHANGED subscribedToDBs
  <2> DEFINE s == conn[k].subs \cup r.dbNames
             c == [conn EXCEPT ![k].subs = s]
  <2>1. s \in SUBSET DB /\ r.flows \in SUBSET Socket
    BY <1>2, <1>3, <1>5 DEF Request
  <2>2. ConnsKept(c)
    <3> HIDE DEF s
    <3> QED BY <2>1, SubsKept
  <2>3. Ready(r.flows, c)
    BY <1>5
  <2>4. connected' \in BOOLEAN
    BY <1>1 DEF Scalars
  <2> HIDE DEF c
  <2> QED BY <1>1, <1>5, <2>1, <2>2, <2>3, <2>4, ReadyKept DEF Scalars
<1>6. CASE /\ r.type = "subscribe"
           /\ conn' = [conn EXCEPT ![k].subs = @ \cup r.dbNames]
           /\ subscribedToDBs' = subscribedToDBs \cup r.dbNames
           /\ UNCHANGED <<ready, heartbeatChecker, answered, flow>>
  <2>1. conn[k].subs \cup r.dbNames \in SUBSET DB
    BY <1>2, <1>3
  <2>2. ConnsKept(conn')
    BY <1>6, <2>1, SubsKept
  <2> QED BY <1>1, <1>3, <1>4, <1>6, <2>2, Unchanged DEF Scalars
<1>7. CASE /\ r.type = "unsubscribe"
           /\ conn' = [conn EXCEPT ![k].subs = @ \ r.dbNames]
           /\ subscribedToDBs' = subscribedToDBs \ r.dbNames
           /\ UNCHANGED <<ready, heartbeatChecker, answered, flow>>
  <2>1. conn[k].subs \ r.dbNames \in SUBSET DB
    BY <1>2
  <2>2. ConnsKept(conn')
    BY <1>7, <2>1, SubsKept
  <2> QED BY <1>1, <1>4, <1>7, <2>2, Unchanged DEF Scalars
<1>8. CASE /\ r.type = "heartbeat"
           /\ answered' = TRUE
           /\ UNCHANGED <<subscribedToDBs, ready, heartbeatChecker, conn, flow>>
  BY <1>1, <1>8, Unchanged DEF Scalars, StatusKept, HeartbeatWhileReady
<1>9. CASE /\ r.type = "log-out"
           /\ conn' = [conn EXCEPT ![k].verdict = "left", ![k].subs = {}]
           /\ UNCHANGED <<subscribedToDBs, ready, heartbeatChecker, answered, flow>>
  <2> DEFINE r1 == [conn[k] EXCEPT !.verdict = "left"]
             r2 == [r1 EXCEPT !.subs = {}]
  <2>1. SoundConn(r1) /\ r1.link # "unused"
    BY ConnsSound, ConnRecord
  <2>2. conn' = [conn EXCEPT ![k] = r2]
    BY <1>2, <1>9
  <2> HIDE DEF r1
  <2>3. SoundConn(r2) /\ r2.link # "unused"
    BY <2>1, ConnRecord
  <2> HIDE DEF r2
  <2>4. ConnsKept(conn')
    BY <2>2, <2>3, Unchanged, ConnUpdate
  <2> QED BY <1>1, <1>4, <1>9, <2>4, Unchanged DEF Scalars
<1> QED BY <1>5, <1>6, <1>7, <1>8, <1>9 DEF Effect

\* The answer to a request takes it, or all, out of the queue.
LEMMA AnswerStep ==
    ASSUME ClientInv, NEW k \in Socket, Answer(k)
    PROVE  ClientInv'
<1> DEFINE q == queue[k]
           r == Head(queue[k])
<1>1. Scalars /\ NetworkInv
  BY Assembled
<1>2. socket # 0 /\ conn[k].link # "unused"
  BY SocketMade DEF Answer
<1>3. q \in Seq(Request) /\ q # <<>>
  BY <1>1 DEF Answer, NetworkInv
<1>4. r \in Request /\ r = q[1] /\ 1 \in DOMAIN q
  <2> HIDE DEF q
  <2>1. Head(q) \in Request /\ Head(q) = q[1] /\ 1 \in DOMAIN q
    BY <1>3
  <2> QED BY <2>1 DEF q
<1>5. r.type = "resubscribe" => \A f \in r.flows : flow[f].via # 0
  BY <1>1, <1>4 DEF NetworkInv, QueuedKnowVia
<1>6. Effect(k, r) /\ connected' = connected /\ stopped' = stopped
  BY DEF Answer, flags
<1>7. QueuesKept
  <2> DEFINE q2 == IF r.type = "log-out" THEN <<>> ELSE Tail(queue[k])
  <2>1. queue' = [queue EXCEPT ![k] = q2]
    BY DEF Answer
  <2>2. q2 \in Seq(Request)
    BY <1>3
  <2>3. ASSUME NEW i \in DOMAIN q2
        PROVE  i + 1 \in DOMAIN q /\ q2[i] = q[i + 1]
    <3>1. q2 = Tail(q)
      BY <2>3
    <3> HIDE DEF q2, q
    <3> QED BY <1>3, <2>3, <3>1
  <2> HIDE DEF q2
  <2>4. queue' \in [Socket -> Seq(Request)]
    BY <1>1, <2>1, <2>2 DEF NetworkInv
  <2>5. ASSUME NEW j \in Socket, NEW i \in DOMAIN queue'[j],
               queue'[j][i].type = "resubscribe", NEW f \in queue'[j][i].flows
        PROVE  flow[f].via # 0
    <3>1. CASE j # k
      <4>1. queue'[j] = queue[j]
        BY <1>1, <2>1, <3>1 DEF NetworkInv
      <4> QED BY <1>1, <2>5, <4>1 DEF NetworkInv, QueuedKnowVia
    <3>2. CASE j = k
      <4>1. queue'[k] = q2
        BY <1>1, <2>1 DEF NetworkInv
      <4>2. i + 1 \in DOMAIN queue[k] /\ queue'[k][i] = queue[k][i + 1]
        BY <2>3, <2>5, <3>2, <4>1
      <4> QED BY <1>1, <2>5, <3>2, <4>2 DEF NetworkInv, QueuedKnowVia
    <3> QED BY <3>1, <3>2
  <2> QED BY <2>4, <2>5 DEF QueuesKept
<1> HIDE DEF r
<1>8. ConnsKept(conn') /\ FlowsKept /\ StatusKept /\ subscribedToDBs' \in SUBSET DB
  BY <1>2, <1>4, <1>5, <1>6, EffectKept
<1>9. NetworkInv'
  BY <1>2, <1>7, <1>8, NetworkKept DEF Answer
<1>10. Scalars'
  BY <1>1, <1>8 DEF Answer, Scalars, StatusKept, flags, counters
<1> QED BY <1>8, <1>9, <1>10, Assembled DEF StatusKept

-----------------------------------------------------------------------------
(* The theorems *)

\* The invariant holds when the client is made,
LEMMA ClientInvInit ==
    ClientInit => ClientInv
<1> SUFFICES ASSUME ClientInit PROVE ClientInv
  OBVIOUS
<1>1. HeartbeatWhileReady
  BY DEF ClientInit, HeartbeatWhileReady
<1>2. Scalars
  <2>1. 0 \in 0..MaxSockets /\ 0 \in 0..MaxDrops /\ 0 \in 0..MaxTimeouts /\ 0 \in 0..MaxExpired
    BY ClientAssumption
  <2> QED BY <2>1 DEF ClientInit, Scalars
<1>3. NetworkInv
  <2>1. conn \in [Socket -> Conn] /\ flow \in [Socket -> Flow]
    BY DEF ClientInit, Conn, Flow
  <2>2. queue \in [Socket -> Seq(Request)] /\ \A k \in Socket : DOMAIN queue[k] = {}
    BY DEF ClientInit
  <2>3. UnusedAreFresh /\ NoSocketNoConn /\ WaitingKnowVia
    BY DEF ClientInit, UnusedAreFresh, NoSocketNoConn, WaitingKnowVia, WaitStates, NoFlow
  <2> QED BY <2>1, <2>2, <2>3 DEF NetworkInv, QueuedKnowVia
<1> QED BY <1>1, <1>2, <1>3, Assembled

\* while nothing happens,
LEMMA ClientInvStutter ==
    ASSUME ClientInv, UNCHANGED clientVars
    PROVE  ClientInv'
<1>1. Scalars /\ HeartbeatWhileReady
  BY Assembled
<1>2. NetworkInv'
  BY Unchanged, NetworkKept DEF clientVars, status
<1>3. Scalars' /\ HeartbeatWhileReady'
  BY <1>1 DEF clientVars, Scalars, HeartbeatWhileReady, status, flags, counters
<1> QED BY <1>2, <1>3, Assembled

\* and after every step.
LEMMA ClientInvNext ==
    ClientInv /\ [ClientNext]_clientVars => ClientInv'
<1> SUFFICES ASSUME ClientInv, [ClientNext]_clientVars PROVE ClientInv'
  OBVIOUS
<1>1. ASSUME NEW k \in Socket, NEW c \in Cookie, LogIn(k, c) PROVE ClientInv'
  BY <1>1, LogInStep
<1>2. ASSUME NEW k \in Socket, LookUp(k) PROVE ClientInv'
  BY <1>2, LookUpStep
<1>3. ASSUME NEW j \in Socket, NEW k \in Socket, Retry(j, k) PROVE ClientInv'
  BY <1>3, RetryStep
<1>4. ASSUME NEW k \in Socket, Opens(k) PROVE ClientInv'
  BY <1>4, OpensStep
<1>5. ASSUME NEW k \in Socket, Authenticated(k) PROVE ClientInv'
  BY <1>5, AuthenticatedStep
<1>6. ASSUME NEW k \in Socket, NotAuthenticated(k) PROVE ClientInv'
  BY <1>6, NotAuthenticatedStep
<1>7. ASSUME NEW k \in Socket, Store(k) PROVE ClientInv'
  BY <1>7, StoreStep
<1>8. ASSUME NEW k \in Socket, Kicked(k) PROVE ClientInv'
  BY <1>8, KickedStep
<1>9. ASSUME NEW k \in Socket, Dropped(k) PROVE ClientInv'
  BY <1>9, DroppedStep
<1>10. ASSUME NEW k \in Socket, Answer(k) PROVE ClientInv'
  BY <1>10, AnswerStep
<1>11. ASSUME NEW d \in DB, SubscribeCall(d) PROVE ClientInv'
  BY <1>11, SubscribeStep
<1>12. ASSUME NEW d \in DB, UnsubscribeCall(d) PROVE ClientInv'
  BY <1>12, UnsubscribeStep
<1>13. CASE LogOut
  BY <1>13, LogOutStep
<1>14. CASE EmitLogOut
  BY <1>14, EmitLogOutStep
<1>15. CASE Stop
  BY <1>15, StopStep
<1>16. CASE Tick
  BY <1>16, TickStep
<1>17. CASE Reconnect
  BY <1>17, ReconnectStep
<1>18. CASE UNCHANGED clientVars
  BY <1>18, ClientInvStutter
<1> QED BY <1>1, <1>2, <1>3, <1>4, <1>5, <1>6, <1>7, <1>8, <1>9, <1>10, <1>11,
           <1>12, <1>13, <1>14, <1>15, <1>16, <1>17, <1>18 DEF ClientNext

\* The types of the state of the client, for any number of sockets, databases,
\* lost connections and expired cookies.
THEOREM ClientTypes == ClientSpec => []ClientTypeOK
<1>1. ClientInv => ClientTypeOK
  BY DEF ClientInv
<1> QED BY <1>1, ClientInvInit, ClientInvNext, PTL DEF ClientSpec

\* The heartbeat of client.js runs exactly while the client is ready, until it
\* is stopped.
THEOREM HeartbeatIsReadiness == ClientSpec => []HeartbeatWhileReady
<1>1. ClientInv => HeartbeatWhileReady
  BY DEF ClientInv
<1> QED BY <1>1, ClientInvInit, ClientInvNext, PTL DEF ClientSpec

-----------------------------------------------------------------------------
(* How one step changes each connection, flow and queue *)

Alive(c) == c.link \in {"connecting", "open", "down"}

\* d has the connections of c, in other states of their conversation.
SameLinks(c, d) ==
    /\ d \in [Socket -> Conn]
    /\ \A k \in Socket : /\ d[k].link = c[k].link
                         /\ c[k].admitted => d[k].admitted

\* y is the connection x in another state of its conversation.
SameLink(x, y) == y \in Conn /\ y.link = x.link /\ (x.admitted => y.admitted)

\* Every field but the link can be set without a change of link.
LEMMA FieldOfOne ==
    ASSUME NEW x \in Conn
    PROVE  /\ \A v \in {"none", "asked", "accepted", "refused", "left"} :
                SameLink(x, [x EXCEPT !.verdict = v])
           /\ SameLink(x, [x EXCEPT !.admitted = TRUE])
           /\ \A s \in SUBSET DB : SameLink(x, [x EXCEPT !.subs = s])
           /\ \A n \in Nat : SameLink(x, [x EXCEPT !.onDisconnect = n])
           /\ \A b \in BOOLEAN : SameLink(x, [x EXCEPT !.onAuthenticated = b])
BY DEF SameLink, Conn

\* The same for a function of connections.
LEMMA FieldSet ==
    ASSUME NEW c \in [Socket -> Conn], NEW j
    PROVE  /\ \A v \in {"none", "asked", "accepted", "refused", "left"} :
                SameLinks(c, [c EXCEPT ![j].verdict = v])
           /\ SameLinks(c, [c EXCEPT ![j].admitted = TRUE])
           /\ \A s \in SUBSET DB : SameLinks(c, [c EXCEPT ![j].subs = s])
           /\ \A n \in Nat : SameLinks(c, [c EXCEPT ![j].onDisconnect = n])
           /\ \A b \in BOOLEAN : SameLinks(c, [c EXCEPT ![j].onAuthenticated = b])
<1>1. ASSUME NEW y, j \in Socket => SameLink(c[j], y)
      PROVE  SameLinks(c, [c EXCEPT ![j] = y])
  BY <1>1 DEF SameLinks, SameLink
<1>2. ASSUME NEW v \in {"none", "asked", "accepted", "refused", "left"}
      PROVE  SameLinks(c, [c EXCEPT ![j].verdict = v])
  <2> DEFINE y == [c[j] EXCEPT !.verdict = v]
  <2>1. j \in Socket => SameLink(c[j], y)
    BY FieldOfOne
  <2> HIDE DEF y
  <2>2. SameLinks(c, [c EXCEPT ![j] = y])
    BY <1>1, <2>1
  <2> QED BY <2>2 DEF y
<1>3. SameLinks(c, [c EXCEPT ![j].admitted = TRUE])
  <2> DEFINE y == [c[j] EXCEPT !.admitted = TRUE]
  <2>1. j \in Socket => SameLink(c[j], y)
    BY FieldOfOne
  <2> HIDE DEF y
  <2>2. SameLinks(c, [c EXCEPT ![j] = y])
    BY <1>1, <2>1
  <2> QED BY <2>2 DEF y
<1>4. ASSUME NEW s \in SUBSET DB
      PROVE  SameLinks(c, [c EXCEPT ![j].subs = s])
  <2> DEFINE y == [c[j] EXCEPT !.subs = s]
  <2>1. j \in Socket => SameLink(c[j], y)
    BY FieldOfOne
  <2> HIDE DEF y
  <2>2. SameLinks(c, [c EXCEPT ![j] = y])
    BY <1>1, <2>1
  <2> QED BY <2>2 DEF y
<1>5. ASSUME NEW n \in Nat
      PROVE  SameLinks(c, [c EXCEPT ![j].onDisconnect = n])
  <2> DEFINE y == [c[j] EXCEPT !.onDisconnect = n]
  <2>1. j \in Socket => SameLink(c[j], y)
    BY FieldOfOne
  <2> HIDE DEF y
  <2>2. SameLinks(c, [c EXCEPT ![j] = y])
    BY <1>1, <2>1
  <2> QED BY <2>2 DEF y
<1>6. ASSUME NEW b \in BOOLEAN
      PROVE  SameLinks(c, [c EXCEPT ![j].onAuthenticated = b])
  <2> DEFINE y == [c[j] EXCEPT !.onAuthenticated = b]
  <2>1. j \in Socket => SameLink(c[j], y)
    BY FieldOfOne
  <2> HIDE DEF y
  <2>2. SameLinks(c, [c EXCEPT ![j] = y])
    BY <1>1, <2>1
  <2> QED BY <2>2 DEF y
<1> QED BY <1>2, <1>3, <1>4, <1>5, <1>6

\* Links stay the same over two changes that keep them.
LEMMA SameLinksTransitive ==
    ASSUME NEW c, NEW d, NEW e, SameLinks(c, d), SameLinks(d, e)
    PROVE  SameLinks(c, e)
BY DEF SameLinks

\* What becomes of a connection in a step that makes no socket.
ConnGoes(k) ==
    /\ Alive(conn'[k]) => Alive(conn[k])
    /\ conn[k].admitted => conn'[k].admitted

\* Links that stay the same neither come alive nor lose their admission.
LEMMA SameLinksGo ==
    ASSUME SameLinks(conn, conn')
    PROVE  \A k \in Socket : ConnGoes(k)
BY DEF SameLinks, ConnGoes, Alive

\* A connection that ends does not come alive.
LEMMA EndedGoes ==
    ASSUME ClientInv, NEW j, NEW l \in {"down", "lost", "closed"}, Ended(j, l),
           l = "down" => j \in Socket /\ conn[j].link = "open"
    PROVE  \A k \in Socket : ConnGoes(k)
<1>1. conn \in [Socket -> Conn]
  BY DEF ClientInv, ClientTypeOK
<1>2. ASSUME NEW k \in Socket, k # j
      PROVE  conn'[k] = conn[k]
  BY <1>1, <1>2 DEF Ended
<1>3. ASSUME j \in Socket
      PROVE  conn'[j].link = l /\ conn'[j].admitted = conn[j].admitted
  BY <1>1, <1>3 DEF Ended, Conn
<1> QED BY <1>2, <1>3 DEF ConnGoes, Alive

\* Becoming ready changes no link.
LEMMA ReadyLinks ==
    ASSUME NEW c \in [Socket -> Conn], NEW F, Ready(F, c)
    PROVE  SameLinks(c, conn')
<1> DEFINE b == c[socket].onAuthenticated \/ F # {}
<1>1. conn' = [c EXCEPT ![socket].onAuthenticated = b]
  BY DEF Ready
<1>2. CASE socket \in Socket
  <2>1. b \in BOOLEAN
    BY <1>2 DEF Conn
  <2> HIDE DEF b
  <2> QED BY <1>1, <2>1, FieldSet
<1>3. CASE socket \notin Socket
  <2>1. conn' = c
    BY <1>1, <1>3
  <2> QED BY <2>1 DEF SameLinks
<1> QED BY <1>2, <1>3

\* The steps that make a socket.
MakesSocket ==
    \/ \E k \in Socket, c \in Cookie : LogIn(k, c)
    \/ \E k \in Socket : LookUp(k) /\ NewSocket(k)
    \/ \E j, k \in Socket : Retry(j, k)

\* Only a new socket, which no one has made before, comes alive.
LEMMA ConnsGo ==
    ASSUME ClientInv, ClientNext
    PROVE  /\ \A k \in Socket : conn[k].admitted => conn'[k].admitted
           /\ \/ MakesSocket
              \/ \A k \in Socket : ConnGoes(k)
<1> DEFINE AllGo == \A k \in Socket : ConnGoes(k)
           Good == /\ \A k \in Socket : conn[k].admitted => conn'[k].admitted
                   /\ MakesSocket \/ AllGo
<1>1. conn \in [Socket -> Conn]
  BY DEF ClientInv, ClientTypeOK
<1>2. AllGo => Good
  BY DEF ConnGoes
<1>3. SameLinks(conn, conn)
  BY <1>1 DEF SameLinks
<1>4. ASSUME conn' = conn PROVE Good
  BY <1>2, <1>3, <1>4, SameLinksGo
<1>5. ASSUME NEW j \in Socket, NewSocket(j), MakesSocket PROVE Good
  <2>1. conn' = [conn EXCEPT ![j].link = "connecting"]
    BY <1>5 DEF NewSocket
  <2>2. \A k \in Socket : conn[k].admitted => conn'[k].admitted
    BY <1>1, <2>1 DEF Conn
  <2> QED BY <1>5, <2>2
<1>6. ASSUME CloseSocket PROVE AllGo
  BY <1>6, EndedGoes DEF CloseSocket
<1> HIDE DEF Good, AllGo
<1>7. ASSUME NEW k \in Socket, NEW c \in Cookie, LogIn(k, c) PROVE Good
  BY <1>5, <1>7 DEF LogIn, MakesSocket
<1>8. ASSUME NEW k \in Socket, LookUp(k) PROVE Good
  BY <1>4, <1>5, <1>8 DEF LookUp, MakesSocket
<1>9. ASSUME NEW j \in Socket, NEW k \in Socket, Retry(j, k) PROVE Good
  BY <1>5, <1>9 DEF Retry, MakesSocket
<1>10. ASSUME NEW k \in Socket, Opens(k) PROVE Good
  <2> DEFINE c == [conn EXCEPT ![k].link = "open", ![k].verdict = "asked"]
  <2>1. /\ c \in [Socket -> Conn]
        /\ \A j \in Socket : /\ Alive(c[j]) => Alive(conn[j])
                             /\ conn[j].admitted => c[j].admitted
    BY <1>1, <1>10 DEF Opens, Conn, Alive
  <2>2. SameLinks(c, conn')
    <3> HIDE DEF c
    <3>1. CASE conn' = c
      BY <2>1, <3>1 DEF SameLinks
    <3>2. CASE conn' = Listens(c)
      <4> DEFINE n == c[socket].onDisconnect + 1
      <4>1. conn' = [c EXCEPT ![socket].onDisconnect = n]
        BY <3>2 DEF Listens
      <4>2. CASE socket \in Socket
        <5>1. n \in Nat
          BY <2>1, <4>2 DEF Conn
        <5> HIDE DEF n
        <5> QED BY <2>1, <4>1, <5>1, FieldSet
      <4>3. CASE socket \notin Socket
        <5>1. conn' = c
          BY <2>1, <4>1, <4>3
        <5> QED BY <2>1, <5>1 DEF SameLinks
      <4> QED BY <4>2, <4>3
    <3> QED BY <1>10, <3>1, <3>2 DEF Opens, c
  <2> HIDE DEF c
  <2>3. AllGo
    BY <2>1, <2>2 DEF AllGo, ConnGoes, SameLinks, Alive
  <2> QED BY <1>2, <2>3
<1>11. ASSUME NEW k \in Socket, Authenticated(k) PROVE Good
  <2> DEFINE c1 == [conn EXCEPT ![k].verdict = "accepted"]
             c == [c1 EXCEPT ![k].admitted = TRUE]
  <2>1. SameLinks(conn, c1)
    BY <1>1, FieldSet
  <2>2. SameLinks(c1, c)
    <3> HIDE DEF c1
    <3> QED BY <2>1, FieldSet DEF SameLinks
  <2>3. SameLinks(conn, c)
    <3> HIDE DEF c
    <3> QED BY <2>1, <2>2, SameLinksTransitive
  <2>4. c = [conn EXCEPT ![k].verdict = "accepted", ![k].admitted = TRUE]
    BY <1>1
  <2>5. Ready(Awaiting(k), c) \/ conn' = c
    BY <1>11, <2>4 DEF Authenticated, OnConnect
  <2> HIDE DEF c
  <2>6. SameLinks(conn, conn')
    <3>1. c \in [Socket -> Conn]
      BY <2>3 DEF SameLinks
    <3>2. CASE Ready(Awaiting(k), c)
      BY <2>3, <3>1, <3>2, ReadyLinks, SameLinksTransitive
    <3> QED BY <2>3, <2>5, <3>2
  <2> QED BY <1>2, <2>6, SameLinksGo DEF AllGo
<1>12. ASSUME NEW k \in Socket, NotAuthenticated(k) PROVE Good
  <2>1. SameLinks(conn, conn')
    BY <1>1, <1>12, FieldSet DEF NotAuthenticated
  <2> QED BY <1>2, <2>1, SameLinksGo DEF AllGo
<1>13. ASSUME NEW k \in Socket, Store(k) PROVE Good
  BY <1>4, <1>13 DEF Store
<1>14. ASSUME NEW k \in Socket, Kicked(k) PROVE Good
  BY <1>2, <1>14, EndedGoes DEF Kicked, AllGo
<1>15. ASSUME NEW k \in Socket, Dropped(k) PROVE Good
  <2>1. PICK l \in AfterLoss : Ended(k, l)
    BY <1>15 DEF Dropped
  <2>2. AllGo
    BY <1>15, <2>1, ClientAssumption, EndedGoes DEF Dropped, AllGo
  <2> QED BY <1>2, <2>2
<1>16. ASSUME NEW k \in Socket, Answer(k) PROVE Good
  <2> DEFINE r == Head(queue[k])
             s1 == conn[k].subs \cup r.dbNames
             s2 == conn[k].subs \ r.dbNames
             d == [conn EXCEPT ![k].verdict = "left"]
  <2>1. r \in Request
    <3> DEFINE q == queue[k]
    <3>1. q \in Seq(Request) /\ q # <<>>
      BY <1>16 DEF Answer, ClientInv, ClientTypeOK
    <3> HIDE DEF q
    <3>2. Head(q) \in Request
      BY <3>1
    <3> QED BY <3>2 DEF q
  <2>2. s1 \in SUBSET DB /\ s2 \in SUBSET DB
    BY <1>1, <2>1 DEF Conn, Request
  <2>3. SameLinks(conn, [conn EXCEPT ![k].subs = s1]) /\ SameLinks(conn, [conn EXCEPT ![k].subs = s2])
    <3> HIDE DEF s1, s2
    <3> QED BY <1>1, <2>2, FieldSet
  <2>4. SameLinks(conn, [d EXCEPT ![k].subs = {}])
    <3>1. SameLinks(conn, d)
      BY <1>1, FieldSet
    <3> HIDE DEF d
    <3>2. SameLinks(d, [d EXCEPT ![k].subs = {}])
      BY <3>1, FieldSet DEF SameLinks
    <3> QED BY <3>1, <3>2, SameLinksTransitive
  <2>5. [d EXCEPT ![k].subs = {}] = [conn EXCEPT ![k].verdict = "left", ![k].subs = {}]
    BY <1>1
  <2>6. \/ Ready(r.flows, [conn EXCEPT ![k].subs = s1])
        \/ conn' = [conn EXCEPT ![k].subs = s1]
        \/ conn' = [conn EXCEPT ![k].subs = s2]
        \/ conn' = conn
        \/ conn' = [d EXCEPT ![k].subs = {}]
    BY <1>16, <2>5 DEF Answer, Effect
  <2> HIDE DEF s1, s2, d, r
  <2>7. SameLinks(conn, conn')
    <3>1. CASE Ready(r.flows, [conn EXCEPT ![k].subs = s1])
      <4> DEFINE c == [conn EXCEPT ![k].subs = s1]
      <4>1. SameLinks(conn, c) /\ Ready(r.flows, c)
        BY <2>3, <3>1
      <4> HIDE DEF c
      <4>2. SameLinks(c, conn')
        BY <4>1, ReadyLinks DEF SameLinks
      <4> QED BY <4>1, <4>2, SameLinksTransitive
    <3> QED BY <1>3, <2>3, <2>4, <2>6, <3>1
  <2> QED BY <1>2, <2>7, SameLinksGo DEF AllGo
<1>17. ASSUME NEW d \in DB, SubscribeCall(d) \/ UnsubscribeCall(d) PROVE Good
  BY <1>4, <1>17 DEF SubscribeCall, UnsubscribeCall, EmitIfConnected
<1>18. ASSUME LogOut \/ EmitLogOut \/ Tick PROVE Good
  BY <1>4, <1>18 DEF LogOut, EmitLogOut, Tick, EmitIfConnected
<1>19. ASSUME Stop PROVE Good
  BY <1>2, <1>4, <1>6, <1>19 DEF Stop
<1>20. ASSUME Reconnect PROVE Good
  BY <1>2, <1>4, <1>6, <1>20 DEF Reconnect, EmitIfConnected
<1>21. Good
  BY <1>7, <1>8, <1>9, <1>10, <1>11, <1>12, <1>13, <1>14, <1>15, <1>16, <1>17, <1>18,
     <1>19, <1>20 DEF ClientNext
<1> QED BY <1>21 DEF Good, AllGo

\* k took its verdict from a connection that the server has accepted.
Vouched(k) == flow[k].via \in Socket /\ conn[flow[k].via].admitted

\* GoesByVerdict with what makes it inductive: a flow that a queued
\* resubscription will move on is vouched for, one that is connecting awaits no
\* verdict yet, so none that is vouched for will await another one, and logIn()
\* is never retried.
VerdictInv ==
    /\ GoesByVerdict
    /\ \A k \in Socket : flow[k].state = "connecting" => flow[k].via = 0
    /\ \A k \in Socket : flow[k].state = "retrying" => flow[k].kind = "cookie"
    /\ \A k \in Socket : \A i \in DOMAIN queue[k] :
         queue[k][i].type = "resubscribe" => \A f \in queue[k][i].flows : Vouched(f)

PastStates == {"resubscribing", "storing", "done"}

\* What becomes of a flow in one step.
FlowGoes(k) ==
    \/ flow'[k] = flow[k]
    \/ /\ flow[k] = NoFlow
       /\ \E kind \in {"cookie", "logIn"}, c \in Cookie : flow'[k] = NewFlow(kind, c)
    \/ /\ flow[k].state = "connecting"
       /\ flow'[k] = AtVia(flow[k], "authenticating", socket)
    \/ /\ flow[k].state = "retrying"
       /\ flow'[k] = At(flow[k], "done")
    \/ /\ flow[k].via # 0
       /\ conn'[flow[k].via].admitted
       /\ \E s \in PastStates : flow'[k] = At(flow[k], s)
    \/ /\ flow[k].via # 0
       /\ flow'[k] = At(flow[k], Refused(flow[k]))

\* Flows go past the authentication when they are vouched for.
LEMMA MovedGoes ==
    ASSUME ClientInv, NEW F \in SUBSET Socket, NEW st, Moved(F, st),
           \A k \in F : /\ flow[k].via # 0
                        /\ conn'[flow[k].via].admitted
                        /\ st[k] \in PastStates
    PROVE  \A k \in Socket : FlowGoes(k)
<1>1. ASSUME NEW k \in F
      PROVE  flow'[k] = At(flow[k], st[k])
  BY DEF Moved, At
<1>2. \A k \in Socket \ F : flow'[k] = flow[k]
  BY DEF Moved
<1> QED BY <1>1, <1>2 DEF FlowGoes

\* So do those that become ready.
LEMMA ReadyGoes ==
    ASSUME ClientInv, NEW F \in SUBSET Socket, NEW c, Ready(F, c),
           \A k \in F : flow[k].via # 0 /\ conn'[flow[k].via].admitted
    PROVE  \A k \in Socket : FlowGoes(k)
<1> DEFINE st == [k \in F |-> IF flow[k].kind = "logIn" THEN "storing" ELSE "done"]
<1>1. \A k \in F : st[k] \in PastStates
  BY DEF PastStates
<1>2. Moved(F, st)
  BY DEF Ready
<1> HIDE DEF st
<1> QED BY <1>1, <1>2, MovedGoes

\* The request that is answered, and the flows it names.
LEMMA AnsweredRequest ==
    ASSUME ClientInv, VerdictInv, NEW k \in Socket, Answer(k)
    PROVE  /\ Head(queue[k]) \in Request
           /\ Head(queue[k]).type = "resubscribe"
                => /\ Head(queue[k]).flows \in SUBSET Socket
                   /\ \A f \in Head(queue[k]).flows : Vouched(f)
<1> DEFINE q == queue[k]
<1>1. q \in Seq(Request) /\ q # <<>>
  BY DEF Answer, ClientInv, ClientTypeOK
<1> HIDE DEF q
<1>2. Head(q) \in Request /\ Head(q) = q[1] /\ 1 \in DOMAIN q
  BY <1>1
<1> QED BY <1>2 DEF q, VerdictInv, Request

\* Action by action.
LEMMA FlowsGo ==
    ASSUME ClientInv, VerdictInv, ClientNext
    PROVE  \A k \in Socket : FlowGoes(k)
<1> DEFINE AllGo == \A k \in Socket : FlowGoes(k)
<1>1. flow \in [Socket -> Flow] /\ conn \in [Socket -> Conn]
  BY DEF ClientInv, ClientTypeOK
<1>2. flow' = flow => AllGo
  BY DEF FlowGoes
<1>3. \A k \in Socket : conn[k].admitted => conn'[k].admitted
  BY ConnsGo
<1>4. ASSUME NEW k \in Socket, NewSocket(k), NEW kind \in {"cookie", "logIn"},
             NEW c \in Cookie, flow' = [flow EXCEPT ![k] = NewFlow(kind, c)]
      PROVE  AllGo
  <2>1. flow[k] = NoFlow
    BY <1>4 DEF NewSocket, ClientInv, UnusedAreFresh
  <2> QED BY <1>1, <1>4, <2>1 DEF FlowGoes
<1>5. 0 \notin Socket
  BY DEF Socket
<1> HIDE DEF AllGo
<1>6. ASSUME NEW k \in Socket, NEW c \in Cookie, LogIn(k, c) PROVE AllGo
  BY <1>4, <1>6 DEF LogIn
<1>7. ASSUME NEW k \in Socket, LookUp(k) PROVE AllGo
  <2>1. CASE UNCHANGED flow
    BY <1>2, <2>1
  <2>2. CASE HasCookie /\ NewSocket(k) /\ flow' = [flow EXCEPT ![k] = NewFlow("cookie", session)]
    BY <1>4, <2>2 DEF HasCookie, ClientInv, ClientTypeOK
  <2> QED BY <1>7, <2>1, <2>2 DEF LookUp
<1>8. ASSUME NEW j \in Socket, NEW k \in Socket, Retry(j, k) PROVE AllGo
  <2> DEFINE f == NewFlow("cookie", flow[j].cookie)
             g == At(flow[j], "done")
  <2>1. flow' = [flow EXCEPT ![j] = g, ![k] = f]
    BY <1>1, <1>8 DEF Retry, At, NewSocket, ClientInv, UnusedAreFresh, NoFlow
  <2>2. flow[j].state = "retrying" /\ flow[k] = NoFlow /\ j # k
    BY <1>8 DEF Retry, NewSocket, ClientInv, UnusedAreFresh, NoFlow
  <2>3. flow[j].cookie \in Cookie
    BY <1>1, <2>2 DEF Flow, NoFlow
  <2> HIDE DEF f, g
  <2>4. flow'[j] = g /\ flow'[k] = f /\ \A i \in Socket \ {j, k} : flow'[i] = flow[i]
    BY <1>1, <2>1, <2>2
  <2> QED BY <2>2, <2>3, <2>4 DEF FlowGoes, AllGo, f, g
<1>9. ASSUME NEW k \in Socket, Opens(k) PROVE AllGo
  <2> DEFINE g == AtVia(flow[k], "authenticating", socket)
  <2>1. \/ flow[k].state = "connecting" /\ flow' = [flow EXCEPT ![k] = g]
        \/ flow' = flow
    BY <1>1, <1>9 DEF Opens, AtVia
  <2>2. CASE flow[k].state = "connecting" /\ flow' = [flow EXCEPT ![k] = g]
    <3> HIDE DEF g
    <3>1. flow'[k] = g /\ \A i \in Socket \ {k} : flow'[i] = flow[i]
      BY <1>1, <2>2
    <3> QED BY <2>2, <3>1 DEF FlowGoes, AllGo, g
  <2> QED BY <1>2, <2>1, <2>2
<1>10. ASSUME NEW k \in Socket, Authenticated(k) PROVE AllGo
  <2> DEFINE F == Awaiting(k)
             st == [j \in F |-> "resubscribing"]
             c == [conn EXCEPT ![k].verdict = "accepted", ![k].admitted = TRUE]
  <2>1. F \in SUBSET Socket /\ \A j \in F : flow[j].via = k /\ flow[j].via # 0
    BY AwaitingKnowVia DEF Awaiting
  <2>2. \A j \in F : st[j] \in PastStates
    BY DEF PastStates
  <2>3. c \in [Socket -> Conn] /\ c[k].admitted
    BY <1>1 DEF Conn
  <2>4. \/ Ready(F, c)
        \/ Moved(F, st) /\ conn' = c
        \/ flow' = flow
    BY <1>10 DEF Authenticated, OnConnect, status
  <2> HIDE DEF F, st, c
  <2>5. CASE Ready(F, c)
    <3>1. conn'[k].admitted
      BY <2>3, <2>5, ReadyLinks DEF SameLinks
    <3> QED BY <2>1, <2>5, <3>1, ReadyGoes DEF AllGo
  <2>6. CASE Moved(F, st) /\ conn' = c
    BY <2>1, <2>2, <2>3, <2>6, MovedGoes DEF AllGo
  <2> QED BY <1>2, <2>4, <2>5, <2>6
<1>11. ASSUME NEW k \in Socket, NotAuthenticated(k) PROVE AllGo
  <2> DEFINE F == Awaiting(k)
             st == [j \in F |-> Refused(flow[j])]
  <2>1. F \in SUBSET Socket /\ \A j \in F : flow[j].via # 0
    BY AwaitingKnowVia
  <2>2. flow' = [j \in Socket |-> IF j \in F THEN [flow[j] EXCEPT !.state = st[j]] ELSE flow[j]]
    BY <1>11 DEF NotAuthenticated, Moved
  <2>3. \A j \in F : st[j] = Refused(flow[j])
    OBVIOUS
  <2> HIDE DEF F, st
  <2>4. \A j \in F : flow'[j] = At(flow[j], Refused(flow[j]))
    BY <2>1, <2>2, <2>3 DEF At
  <2>5. \A j \in Socket \ F : flow'[j] = flow[j]
    BY <2>2
  <2> QED BY <2>1, <2>4, <2>5 DEF FlowGoes, AllGo
<1>12. ASSUME NEW k \in Socket, Store(k) PROVE AllGo
  <2> DEFINE st == [j \in {k} |-> "done"]
  <2>1. Vouched(k)
    BY <1>12 DEF Store, VerdictInv, GoesByVerdict, Vouched
  <2>2. flow[k].via # 0 /\ conn'[flow[k].via].admitted
    BY <1>3, <1>5, <2>1 DEF Vouched
  <2>3. {k} \in SUBSET Socket /\ st[k] \in PastStates /\ Moved({k}, st)
    BY <1>12 DEF PastStates, Store
  <2> HIDE DEF st
  <2> QED BY <2>2, <2>3, MovedGoes DEF AllGo
<1>13. ASSUME NEW k \in Socket, Answer(k) PROVE AllGo
  <2> DEFINE r == Head(queue[k])
             c == [conn EXCEPT ![k].subs = @ \cup r.dbNames]
  <2>1. r.type = "resubscribe"
          => r.flows \in SUBSET Socket /\ \A f \in r.flows : Vouched(f)
    BY <1>13, AnsweredRequest
  <2>2. \/ r.type = "resubscribe" /\ Ready(r.flows, c)
        \/ flow' = flow
    BY <1>13 DEF Answer, Effect
  <2> HIDE DEF r, c
  <2>3. CASE r.type = "resubscribe" /\ Ready(r.flows, c)
    <3>1. \A f \in r.flows : flow[f].via # 0 /\ conn'[flow[f].via].admitted
      BY <1>3, <1>5, <2>1, <2>3 DEF Vouched
    <3> QED BY <2>1, <2>3, <3>1, ReadyGoes DEF AllGo
  <2> QED BY <1>2, <2>2, <2>3
<1>14. ASSUME \/ \E k \in Socket : Kicked(k) \/ Dropped(k)
              \/ \E d \in DB : SubscribeCall(d) \/ UnsubscribeCall(d)
              \/ LogOut \/ EmitLogOut \/ Stop \/ Tick \/ Reconnect
       PROVE  AllGo
  BY <1>2, <1>14
  DEF Kicked, Dropped, SubscribeCall, UnsubscribeCall, LogOut, EmitLogOut, Stop, Tick,
      Reconnect
<1>15. AllGo
  BY <1>6, <1>7, <1>8, <1>9, <1>10, <1>11, <1>12, <1>13, <1>14 DEF ClientNext
<1> QED BY <1>15 DEF AllGo

\* What is vouched for stays so.
LEMMA VouchedStays ==
    ASSUME ClientInv, VerdictInv, ClientNext, NEW k \in Socket, Vouched(k)
    PROVE  Vouched(k)'
<1>1. flow[k] \in Flow /\ flow[k].via # 0 /\ flow[k].state # "connecting"
  BY DEF ClientInv, ClientTypeOK, Vouched, VerdictInv, Socket
<1>2. flow[k] # NoFlow
  BY <1>1 DEF NoFlow
<1>3. flow'[k].via = flow[k].via
  <2> DEFINE f == flow[k]
  <2>1. f \in Flow /\ f # NoFlow
    BY <1>1, <1>2
  <2>2. flow'[k] = f \/ \E s \in FlowStates : flow'[k] = At(f, s)
    BY <1>1, <1>2, FlowsGo DEF FlowGoes, FlowStates, PastStates, Refused
  <2> HIDE DEF f
  <2>3. flow'[k].via = f.via
    BY <2>1, <2>2, FlowRecord
  <2> QED BY <2>3 DEF f
<1> QED BY <1>3, ConnsGo DEF Vouched

\* A queue grows by requests that name flows which are vouched for.
QueueGoes(k) ==
    \A i \in DOMAIN queue'[k] :
        \/ \E n \in DOMAIN queue[k] : queue'[k][i] = queue[k][n]
        \/ queue'[k][i].type = "resubscribe"
             => \A f \in queue'[k][i].flows : Vouched(f)'

\* Sending appends.
LEMMA SendGoes ==
    ASSUME ClientInv, NEW r \in Request, Send(r),
           r.type = "resubscribe" => \A f \in r.flows : Vouched(f)'
    PROVE  \A k \in Socket : QueueGoes(k)
<1>1. CASE queue' = queue
  BY <1>1 DEF QueueGoes
<1>2. CASE queue' = [queue EXCEPT ![socket] = Append(@, r)]
  BY <1>2, SentIsAppended DEF QueueGoes
<1> QED BY <1>1, <1>2 DEF Send

\* The end of a connection empties its queue.
LEMMA EndedQueueGoes ==
    ASSUME ClientInv, NEW j, NEW l, Ended(j, l)
    PROVE  \A k \in Socket : QueueGoes(k)
<1>1. queue \in [Socket -> Seq(Request)]
  BY DEF ClientInv, ClientTypeOK
<1>2. \A k \in Socket : \A i \in DOMAIN queue'[k] : queue'[k] = queue[k]
  BY <1>1 DEF Ended
<1> QED BY <1>2 DEF QueueGoes

\* A request other than a resubscription names no flow.
LEMMA EmitGoes ==
    ASSUME ClientInv, NEW type \in {"subscribe", "unsubscribe", "heartbeat", "log-out"},
           NEW dbNames \in SUBSET DB, EmitIfConnected(type, dbNames)
    PROVE  \A k \in Socket : QueueGoes(k)
<1>1. CASE Send([type |-> type, dbNames |-> dbNames])
  <2> DEFINE r == [type |-> type, dbNames |-> dbNames]
  <2>1. r \in Request /\ r.type # "resubscribe"
    BY DEF Request
  <2>2. Send(r)
    BY <1>1
  <2> HIDE DEF r
  <2> QED BY <2>1, <2>2, SendGoes
<1>2. CASE queue' = queue
  BY <1>2 DEF QueueGoes
<1> QED BY <1>1, <1>2 DEF EmitIfConnected

\* Action by action.
LEMMA QueuesGo ==
    ASSUME ClientInv, VerdictInv, ClientNext
    PROVE  \A k \in Socket : QueueGoes(k)
<1> DEFINE AllGo == \A k \in Socket : QueueGoes(k)
<1>1. queue \in [Socket -> Seq(Request)] /\ conn \in [Socket -> Conn]
  BY DEF ClientInv, ClientTypeOK
<1>2. queue' = queue => AllGo
  BY DEF QueueGoes
<1>3. ASSUME CloseSocket PROVE AllGo
  BY <1>3, EndedQueueGoes DEF CloseSocket
<1> HIDE DEF AllGo
<1>4. ASSUME \/ \E k \in Socket, c \in Cookie : LogIn(k, c)
             \/ \E k \in Socket : LookUp(k) \/ Opens(k) \/ Store(k)
             \/ \E j, k \in Socket : Retry(j, k)
             \/ LogOut
      PROVE  AllGo
  BY <1>2, <1>4 DEF LogIn, LookUp, Opens, Store, Retry, LogOut
<1>5. ASSUME NEW k \in Socket, Authenticated(k) PROVE AllGo
  <2> DEFINE F == Awaiting(k)
             r == [type |-> "resubscribe", dbNames |-> subscribedToDBs, flows |-> F]
             st == [j \in F |-> "resubscribing"]
             c == [conn EXCEPT ![k].verdict = "accepted", ![k].admitted = TRUE]
  <2>1. F \in SUBSET Socket /\ \A j \in F : flow[j].via = k /\ flow[j].via # 0
    BY AwaitingKnowVia DEF Awaiting
  <2>2. r \in Request /\ r.flows = F
    BY <2>1 DEF Request, ClientInv, ClientTypeOK
  <2>3. \A j \in F : st[j] \in FlowStates
    BY DEF FlowStates
  <2>4. c[k].admitted
    BY <1>1 DEF Conn
  <2>5. \/ Send(r) /\ Moved(F, st) /\ conn' = c
        \/ queue' = queue
    BY <1>5 DEF Authenticated, OnConnect
  <2> HIDE DEF F, r, st, c
  <2>6. CASE Send(r) /\ Moved(F, st) /\ conn' = c
    <3>1. \A j \in Socket : flow'[j].via = flow[j].via
      BY <2>1, <2>3, <2>6, MovedFlows
    <3>2. \A f \in F : Vouched(f)'
      BY <2>1, <2>4, <2>6, <3>1 DEF Vouched
    <3> QED BY <2>2, <2>6, <3>2, SendGoes DEF AllGo
  <2> QED BY <1>2, <2>5, <2>6
<1>6. ASSUME NEW k \in Socket, NotAuthenticated(k) PROVE AllGo
  <2>1. \A j \in Socket : \A i \in DOMAIN queue'[j] : queue'[j] = queue[j]
    BY <1>1, <1>6 DEF NotAuthenticated
  <2> QED BY <2>1 DEF QueueGoes, AllGo
<1>7. ASSUME NEW k \in Socket, Kicked(k) \/ Dropped(k) PROVE AllGo
  BY <1>7, EndedQueueGoes DEF Kicked, Dropped, AllGo
<1>8. ASSUME NEW k \in Socket, Answer(k) PROVE AllGo
  <2> DEFINE q == queue[k]
             q2 == IF Head(queue[k]).type = "log-out" THEN <<>> ELSE Tail(queue[k])
  <2>1. queue' = [queue EXCEPT ![k] = q2]
    BY <1>8 DEF Answer
  <2>2. q \in Seq(Request) /\ q # <<>>
    BY <1>1, <1>8 DEF Answer
  <2>3. ASSUME NEW i \in DOMAIN q2
        PROVE  i + 1 \in DOMAIN q /\ q2[i] = q[i + 1]
    <3>1. q2 = Tail(q)
      BY <2>3
    <3> HIDE DEF q2, q
    <3> QED BY <2>2, <2>3, <3>1
  <2> HIDE DEF q2
  <2>4. queue'[k] = q2 /\ \A j \in Socket \ {k} : queue'[j] = queue[j]
    BY <1>1, <2>1
  <2> QED BY <2>3, <2>4 DEF QueueGoes, AllGo
<1>9. ASSUME NEW d \in DB, SubscribeCall(d) \/ UnsubscribeCall(d) PROVE AllGo
  BY <1>9, EmitGoes DEF SubscribeCall, UnsubscribeCall, AllGo
<1>10. ASSUME EmitLogOut \/ Tick PROVE AllGo
  BY <1>10, EmitGoes DEF EmitLogOut, Tick, AllGo
<1>11. ASSUME Stop \/ Reconnect PROVE AllGo
  BY <1>2, <1>3, <1>11, EmitGoes DEF Stop, Reconnect, AllGo
<1>12. AllGo
  BY <1>4, <1>5, <1>6, <1>7, <1>8, <1>9, <1>10, <1>11 DEF ClientNext
<1> QED BY <1>12 DEF AllGo

\* What the next state of a flow says of it.
LEMMA FlowsStayVouched ==
    ASSUME ClientInv, VerdictInv, ClientNext, NEW k \in Socket
    PROVE  /\ (\/ flow'[k].state \in {"resubscribing", "storing"}
               \/ flow'[k].kind = "logIn" /\ flow'[k].state = "done") => Vouched(k)'
           /\ flow'[k].state = "connecting" => flow'[k].via = 0
           /\ flow'[k].state = "retrying" => flow'[k].kind = "cookie"
           /\ flow'[k].state = "retrying" /\ stopped => flow[k].state = "retrying"
<1> DEFINE f == flow[k]
           g == flow'[k]
<1>1. f \in Flow
  BY DEF ClientInv, ClientTypeOK
<1>2. CASE g = f
  <2>1. Vouched(k) => Vouched(k)'
    BY VouchedStays
  <2> QED BY <1>2, <2>1 DEF VerdictInv, GoesByVerdict, Vouched
<1>3. CASE \E kind \in {"cookie", "logIn"}, c \in Cookie : g = NewFlow(kind, c)
  BY <1>3 DEF NewFlow
<1>4. CASE f.state = "connecting" /\ g = AtVia(f, "authenticating", socket)
  <2>1. f # NoFlow /\ "authenticating" \in FlowStates /\ socket \in 0..MaxSockets
    BY <1>4 DEF NoFlow, FlowStates, ClientInv, ClientTypeOK
  <2> HIDE DEF f
  <2>2. AtVia(f, "authenticating", socket).state = "authenticating"
    BY <1>1, <2>1, FlowRecordVia
  <2>3. AtVia(f, "authenticating", socket).kind = f.kind
    BY <1>1, <2>1 DEF AtVia, Flow
  <2> QED BY <1>4, <2>2, <2>3
<1>5. CASE f.state = "retrying" /\ g = At(f, "done")
  <2>1. f # NoFlow /\ "done" \in FlowStates /\ f.kind = "cookie"
    BY <1>5 DEF NoFlow, FlowStates, VerdictInv
  <2> HIDE DEF f
  <2>2. At(f, "done").state = "done" /\ At(f, "done").kind = "cookie"
    BY <1>1, <2>1, FlowRecord
  <2> QED BY <1>5, <2>2
<1>6. CASE /\ f.via # 0
           /\ conn'[f.via].admitted
           /\ \E s \in PastStates : g = At(f, s)
  <2>1. f # NoFlow /\ f.via \in Socket
    BY <1>1, <1>6, ClientAssumption DEF NoFlow, Flow, Socket
  <2>2. PICK s \in PastStates : g = At(f, s)
    BY <1>6
  <2>3. s \in FlowStates
    BY DEF PastStates, FlowStates
  <2>4. g.via = f.via /\ g.state = s
    <3> HIDE DEF f, g
    <3> QED BY <1>1, <2>1, <2>2, <2>3, FlowRecord
  <2>5. Vouched(k)'
    BY <1>6, <2>1, <2>4 DEF Vouched
  <2> QED BY <2>4, <2>5 DEF PastStates
<1>7. CASE f.via # 0 /\ g = At(f, Refused(f))
  <2>1. f # NoFlow /\ Refused(f) \in FlowStates
    BY <1>7 DEF NoFlow, FlowStates, Refused
  <2> HIDE DEF f
  <2>2. f.kind \in {"cookie", "logIn"}
    BY <1>1 DEF Flow, NoFlow
  <2>3. At(f, Refused(f)).state = Refused(f) /\ At(f, Refused(f)).kind = f.kind
    BY <1>1, <2>1, FlowRecord
  <2>4. /\ Refused(f) \in {"failed", "done", "retrying"}
        /\ Refused(f) # "failed" => f.kind = "cookie"
        /\ Refused(f) = "retrying" => ~stopped
    BY <2>2 DEF Refused
  <2> QED BY <1>7, <2>3, <2>4
<1> QED BY <1>2, <1>3, <1>4, <1>5, <1>6, <1>7, FlowsGo DEF FlowGoes

\* The invariant of the verdicts,
LEMMA VerdictInvInit ==
    ClientInit => VerdictInv
<1> SUFFICES ASSUME ClientInit PROVE VerdictInv
  OBVIOUS
<1>1. \A k \in Socket : flow[k] = NoFlow /\ queue[k] = <<>>
  BY DEF ClientInit
<1>2. \A k \in Socket : DOMAIN queue[k] = {}
  BY <1>1
<1> QED BY <1>1, <1>2 DEF VerdictInv, GoesByVerdict, NoFlow

\* while nothing happens and after every step.
LEMMA VerdictInvNext ==
    ClientInv /\ VerdictInv /\ [ClientNext]_clientVars => VerdictInv'
<1> SUFFICES ASSUME ClientInv, VerdictInv, [ClientNext]_clientVars PROVE VerdictInv'
  OBVIOUS
<1>1. CASE UNCHANGED clientVars
  BY <1>1 DEF clientVars, VerdictInv, GoesByVerdict, Vouched
<1>2. CASE ClientNext
  <2>1. GoesByVerdict'
    BY <1>2, FlowsStayVouched DEF GoesByVerdict, Vouched
  <2>2. ASSUME NEW k \in Socket, NEW i \in DOMAIN queue'[k],
               queue'[k][i].type = "resubscribe", NEW f \in queue'[k][i].flows
        PROVE  Vouched(f)'
    <3>1. CASE \E n \in DOMAIN queue[k] : queue'[k][i] = queue[k][n]
      <4>1. PICK n \in DOMAIN queue[k] : queue'[k][i] = queue[k][n]
        BY <3>1
      <4>2. queue[k] \in Seq(Request)
        BY DEF ClientInv, ClientTypeOK
      <4>3. f \in Socket
        BY <2>2, <4>1, <4>2, QueuedFlowsAreSockets
      <4>4. Vouched(f)
        BY <2>2, <4>1 DEF VerdictInv
      <4> QED BY <1>2, <4>3, <4>4, VouchedStays
    <3> QED BY <1>2, <2>2, <3>1, QueuesGo DEF QueueGoes
  <2>3. \A k \in Socket : \A i \in DOMAIN queue'[k] :
          queue'[k][i].type = "resubscribe" => \A f \in queue'[k][i].flows : Vouched(f)'
    BY <2>2
  <2> QED BY <1>2, <2>1, <2>3, FlowsStayVouched DEF VerdictInv
<1> QED BY <1>1, <1>2

\* However log ins, cookies and connections overlap, no call of logIn() gets
\* past its authentication, and nothing stores a cookie, but by the verdict of a
\* connection that the server has accepted.
THEOREM NothingGoesUnverified == ClientSpec => []GoesByVerdict
<1>1. VerdictInv => GoesByVerdict
  BY DEF VerdictInv
<1> QED BY <1>1, ClientInvInit, ClientInvNext, VerdictInvInit, VerdictInvNext, PTL
        DEF ClientSpec

-----------------------------------------------------------------------------
(* What a stopped client still does *)

\* Sets of sockets are finite.
LEMMA SocketsFinite ==
    /\ IsFiniteSet(InUse) /\ IsFiniteSet(Retrying)
    /\ Cardinality(InUse) \in Nat /\ Cardinality(Retrying) \in Nat
<1>1. IsFiniteSet(Socket)
  BY ClientAssumption, FS_Interval DEF Socket
<1>2. InUse \in SUBSET Socket /\ Retrying \in SUBSET Socket
  BY DEF InUse, Retrying
<1>3. IsFiniteSet(InUse) /\ IsFiniteSet(Retrying)
  BY <1>1, <1>2, FS_Subset
<1> QED BY <1>3, FS_CardinalityType

\* The same in the next state.
LEMMA SocketsFiniteNext ==
    /\ Cardinality(InUse') \in Nat /\ Cardinality(Retrying') \in Nat
<1>1. IsFiniteSet(Socket)
  BY ClientAssumption, FS_Interval DEF Socket
<1>2. InUse' \in SUBSET Socket /\ Retrying' \in SUBSET Socket
  BY DEF InUse, Retrying
<1>3. IsFiniteSet(InUse') /\ IsFiniteSet(Retrying')
  BY <1>1, <1>2, FS_Subset
<1> QED BY <1>3, FS_CardinalityType

\* Nothing that retries begins to after stop().
LEMMA StoppedRetries ==
    ASSUME ClientInv, VerdictInv, ClientNext, stopped
    PROVE  Retrying' \in SUBSET Retrying
BY FlowsStayVouched DEF Retrying

\* A new socket is one more that is in use.
LEMMA OneMoreInUse ==
    ASSUME ClientInv, NEW k \in Socket, NewSocket(k)
    PROVE  Cardinality(InUse') = Cardinality(InUse) + 1
<1>1. conn \in [Socket -> Conn]
  BY DEF ClientInv, ClientTypeOK
<1>2. conn'[k].link = "connecting" /\ \A j \in Socket \ {k} : conn'[j] = conn[j]
  BY <1>1 DEF NewSocket, Conn
<1>3. InUse' = InUse \cup {k} /\ k \notin InUse
  BY <1>2 DEF InUse, NewSocket
<1> QED BY <1>3, SocketsFinite, FS_AddElement

\* No step but a log in adds an attempt to those of a stopped client: a cookie
\* that is looked up, and a retry that is due, become the socket they make.
LEMMA StoppedAddsNone ==
    ASSUME ClientInv, ClientInv', VerdictInv, ClientNext, stopped,
           ~(\E k \in Socket, c \in Cookie : LogIn(k, c))
    PROVE  Attempts' <= Attempts
<1>1. lookups \in Nat /\ lookups' \in Nat
  BY DEF ClientInv, ClientTypeOK
<1>2. /\ Cardinality(InUse) \in Nat /\ Cardinality(Retrying) \in Nat
      /\ Cardinality(InUse') \in Nat /\ Cardinality(Retrying') \in Nat
  BY SocketsFinite, SocketsFiniteNext
<1>3. Cardinality(Retrying') <= Cardinality(Retrying)
  BY StoppedRetries, SocketsFinite, FS_Subset
<1>4. CASE \E k \in Socket : LookUp(k) /\ NewSocket(k)
  <2>1. lookups' = lookups - 1 /\ Cardinality(InUse') = Cardinality(InUse) + 1
    BY <1>4, OneMoreInUse DEF LookUp
  <2> QED BY <1>1, <1>2, <1>3, <2>1 DEF Attempts
<1>5. CASE \E j, k \in Socket : Retry(j, k)
  <2>1. PICK j \in Socket, k \in Socket : Retry(j, k)
    BY <1>5
  <2>2. lookups' = lookups /\ Cardinality(InUse') = Cardinality(InUse) + 1
    BY <2>1, OneMoreInUse DEF Retry
  <2>3. j \in Retrying /\ j \notin Retrying'
    <3>1. flow[j].state = "retrying" /\ j # k
      BY <2>1 DEF Retry, NewSocket, ClientInv, UnusedAreFresh, NoFlow
    <3>2. flow'[j].state = "done"
      <4>1. flow[j] \in Flow /\ flow[j] # NoFlow /\ flow \in [Socket -> Flow]
        BY <3>1 DEF ClientInv, ClientTypeOK, NoFlow
      <4>2. flow'[j] = At(flow[j], "done")
        BY <2>1, <3>1, <4>1 DEF Retry, At
      <4> QED BY <4>1, <4>2, FlowRecord DEF FlowStates
    <3> QED BY <3>1, <3>2 DEF Retrying
  <2>4. Retrying' \in SUBSET (Retrying \ {j})
    BY <2>3, StoppedRetries
  <2>5. Cardinality(Retrying') <= Cardinality(Retrying) - 1
    <3> DEFINE R == Retrying \ {j}
    <3>1. IsFiniteSet(R) /\ Cardinality(R) = Cardinality(Retrying) - 1
      BY <2>3, SocketsFinite, FS_RemoveElement
    <3>2. Retrying' \in SUBSET R
      BY <2>4
    <3> HIDE DEF R
    <3>3. Cardinality(Retrying') <= Cardinality(R)
      BY <3>1, <3>2, FS_Subset
    <3> QED BY <3>1, <3>3
  <2> QED BY <1>1, <1>2, <2>2, <2>5 DEF Attempts
<1>6. CASE /\ \A k \in Socket : ~(LookUp(k) /\ NewSocket(k))
           /\ \A j, k \in Socket : ~Retry(j, k)
  <2>1. lookups' <= lookups
    <3>1. ASSUME NEW n, Disconnected(n) PROVE lookups' = lookups
      BY <3>1 DEF Disconnected, Reconnects
    <3>2. lookups' = lookups \/ lookups' = lookups - 1
      BY <3>1 DEF ClientNext, LogIn, LookUp, Retry, Opens, Authenticated, NotAuthenticated,
         Store, Kicked, Dropped, Answer, SubscribeCall, UnsubscribeCall, LogOut,
         EmitLogOut, Stop, Tick, Reconnect
    <3> QED BY <1>1, <3>2
  <2>2. \A k \in Socket : ConnGoes(k)
    BY <1>6, ConnsGo DEF MakesSocket
  <2>3. InUse' \in SUBSET InUse
    BY <2>2 DEF InUse, ConnGoes, Alive
  <2>4. Cardinality(InUse') <= Cardinality(InUse)
    BY <2>3, SocketsFinite, FS_Subset
  <2> QED BY <1>1, <1>2, <1>3, <2>1, <2>4 DEF Attempts
<1> QED BY <1>4, <1>5, <1>6

\* After stop() the attempts to have a connection only wind down, whatever is
\* lost, refused or overdue, until logIn() is called.
THEOREM StopWindsDown == ClientSpec => StopAddsNothing
<1> DEFINE Step == stopped /\ ~(\E k \in Socket, c \in Cookie : LogIn(k, c))
                    => Attempts' <= Attempts
<1>1. ClientInv /\ VerdictInv /\ [ClientNext]_clientVars => [Step]_clientVars
  BY ClientInvNext, StoppedAddsNone
<1> QED BY <1>1, ClientInvInit, ClientInvNext, VerdictInvInit, VerdictInvNext, PTL
        DEF ClientSpec, StopAddsNothing
==============================================================================
