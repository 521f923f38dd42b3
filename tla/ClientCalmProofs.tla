--------------------------- MODULE ClientCalmProofs ---------------------------
(***************************************************************************)
(* What a calm client promises, for any number of connections, databases   *)
(* and cookies, and any number of connections that are lost: it has one    *)
(* connection, it is connected to it, the server knows its subscriptions,  *)
(* and stop() leaves nothing behind.                                       *)
(*                                                                         *)
(* The argument: at any time at most one socket is connecting or open, the *)
(* current one, and then nothing else is under way that would make another *)
(* socket.  Its flow awaits its own verdict; its queue begins with the     *)
(* resubscription until the client is ready, and has none afterwards.  A   *)
(* connection that is lost was listened to, once: the client looks for its *)
(* cookie once, when no socket is in use any more.                         *)
(***************************************************************************)
EXTENDS ClientProofs

\* No overdue heartbeat, no refused cookie, no socket that is connected again
\* behind the back of the client, and a user that waits before a log in.
Calm ==
    /\ Patient
    /\ AfterLoss \subseteq {"lost"}
    /\ MaxTimeouts = 0 /\ MaxExpired = 0

\* Only the current socket is in use; it is listened to once it has opened.
CalmLink(k) ==
    /\ conn[k].link # "down"
    /\ conn[k].link \in {"connecting", "open"} => k = socket
    /\ conn[k].link = "open" <=> conn[k].verdict # "none"
    /\ conn[k].onDisconnect = IF conn[k].link \in {"unused", "connecting"} THEN 0 ELSE 1

\* A flow goes with its own socket, and is never retried; it waits for ever for
\* the verdict on a socket that is lost before.
CalmFlow(k) ==
    /\ flow[k].state = "connecting" <=> conn[k].link = "connecting"
    /\ conn[k].verdict = "asked" => flow[k].state = "authenticating"
    /\ flow[k].state = "authenticating"
         => conn[k].verdict = "asked" \/ conn[k].link = "lost"
    /\ flow[k].state # "retrying"
    /\ flow[k].via \in {0, k}

\* No request of q after the first n is a resubscription.
NoResubscription(q, n) == \A i \in DOMAIN q : i > n => q[i].type # "resubscribe"

\* Before the client is ready its subscriptions are on their way, before any
\* other request; afterwards the server has them.
Subscribed(k) ==
    /\ ready
    /\ conn[k].subs = subscribedToDBs
    /\ NoResubscription(queue[k], 0)
Subscribing(k) ==
    /\ ~ready
    /\ conn[k].subs = {}
    /\ queue[k] # <<>>
    /\ queue[k][1].type = "resubscribe"
    /\ queue[k][1].dbNames = subscribedToDBs
    /\ queue[k][1].flows = {k}
    /\ NoResubscription(queue[k], 1)

\* The client knows what the server accepted.
CalmServed(k) ==
    /\ conn[k].verdict \in {"accepted", "left"} => connected
    /\ conn[k].verdict = "accepted" => Subscribed(k) \/ Subscribing(k)
    /\ conn[k].verdict # "accepted" => conn[k].subs = {} /\ queue[k] = <<>>

\* The session is asked when no socket is in use.
CalmLookUp ==
    lookups > 0 => lookups = 1 /\ \A k \in Socket : conn[k].link \in {"unused", "closed", "lost"}

CalmStatus ==
    /\ connected => socket \in Socket /\ conn[socket].verdict \in {"accepted", "left"}
    /\ ready => connected

CalmSocket(k) == CalmLink(k) /\ CalmFlow(k) /\ CalmServed(k)

\* The inductive invariant, with ClientInv.
CalmInv ==
    /\ CalmLookUp /\ CalmStatus
    /\ \A k \in Socket : CalmSocket(k)

-----------------------------------------------------------------------------
(* Records *)

\* The fields of a connection after one of them has changed.
LEMMA ConnFields ==
    ASSUME NEW c \in Conn, NEW v
    PROVE  /\ [c EXCEPT !.link = v].link = v
           /\ [c EXCEPT !.link = v].verdict = c.verdict
           /\ [c EXCEPT !.link = v].subs = c.subs
           /\ [c EXCEPT !.link = v].onDisconnect = c.onDisconnect
           /\ [c EXCEPT !.verdict = v].link = c.link
           /\ [c EXCEPT !.verdict = v].verdict = v
           /\ [c EXCEPT !.verdict = v].subs = c.subs
           /\ [c EXCEPT !.verdict = v].onDisconnect = c.onDisconnect
           /\ [c EXCEPT !.admitted = v].link = c.link
           /\ [c EXCEPT !.admitted = v].verdict = c.verdict
           /\ [c EXCEPT !.admitted = v].subs = c.subs
           /\ [c EXCEPT !.admitted = v].onDisconnect = c.onDisconnect
           /\ [c EXCEPT !.subs = v].link = c.link
           /\ [c EXCEPT !.subs = v].verdict = c.verdict
           /\ [c EXCEPT !.subs = v].subs = v
           /\ [c EXCEPT !.subs = v].onDisconnect = c.onDisconnect
           /\ [c EXCEPT !.onAuthenticated = v].link = c.link
           /\ [c EXCEPT !.onAuthenticated = v].verdict = c.verdict
           /\ [c EXCEPT !.onAuthenticated = v].subs = c.subs
           /\ [c EXCEPT !.onAuthenticated = v].onDisconnect = c.onDisconnect
  BY DEF Conn

\* The fields of a flow after its state has changed.
LEMMA FlowFields ==
    ASSUME NEW f \in Flow, NEW s
    PROVE  [f EXCEPT !.state = s].state = s /\ [f EXCEPT !.state = s].via = f.via
  BY DEF Flow, NoFlow

\* The types that the steps read.
LEMMA CalmTypes ==
    ASSUME ClientInv
    PROVE  /\ conn \in [Socket -> Conn]
           /\ flow \in [Socket -> Flow]
           /\ queue \in [Socket -> Seq(Request)]
           /\ lookups \in Nat /\ socket \in 0..MaxSockets
  BY DEF ClientInv, ClientTypeOK

-----------------------------------------------------------------------------
(* Making a socket *)

\* When no socket is in use a new one makes no second.
LEMMA CalmNewSocket ==
    ASSUME ClientInv, CalmInv, NEW k \in Socket, NEW kind, NEW c,
           \A j \in Socket : conn[j].link \in {"unused", "closed", "lost"},
           NewSocket(k), flow' = [flow EXCEPT ![k] = NewFlow(kind, c)],
           UNCHANGED <<connected, ready, queue, subscribedToDBs>>,
           lookups' = 0
    PROVE  CalmInv'
  <1> USE CalmTypes
  <1>1. /\ conn'[k].link = "connecting" /\ conn'[k].verdict = conn[k].verdict
        /\ conn'[k].subs = conn[k].subs /\ conn'[k].onDisconnect = conn[k].onDisconnect
        /\ conn[k].link = "unused" /\ socket' = k
    BY ConnFields DEF NewSocket
  <1>2. \A j \in Socket \ {k} : conn'[j] = conn[j] /\ flow'[j] = flow[j]
    BY DEF NewSocket
  <1>3. flow'[k].state = "connecting" /\ flow'[k].via = 0
    BY DEF NewFlow
  <1>4. ~connected /\ ~ready
    BY DEF CalmInv, CalmStatus, CalmSocket, CalmLink
  <1>5. ASSUME NEW j \in Socket PROVE CalmSocket(j)'
    <2>1. CalmSocket(j)
      BY DEF CalmInv
    <2>2. conn[j].verdict = "none"
      BY <2>1 DEF CalmSocket, CalmLink
    <2>3. CASE j = k
      BY <1>1, <1>3, <2>1, <2>2, <2>3 DEF CalmSocket, CalmLink, CalmFlow, CalmServed
    <2>4. CASE j # k
      BY <1>2, <2>1, <2>2, <2>4 DEF CalmSocket, CalmLink, CalmFlow, CalmServed
    <2> QED BY <2>3, <2>4
  <1> QED BY <1>4, <1>5 DEF CalmInv, CalmLookUp, CalmStatus

\* logIn(): the user waited.
LEMMA CalmLogIn ==
    ASSUME Calm, ClientInv, CalmInv, NEW k \in Socket, NEW c \in Cookie, LogIn(k, c)
    PROVE  CalmInv'
  <1>1. ~Busy
    BY DEF LogIn, Calm
  <1>2. lookups = 0
    BY <1>1, CalmTypes DEF Busy
  <1>3. ASSUME NEW j \in Socket PROVE conn[j].link \in {"unused", "closed", "lost"}
    BY <1>1, CalmTypes DEF Busy, CalmInv, CalmSocket, CalmLink, CalmFlow, Conn
  <1> QED BY <1>2, <1>3, CalmNewSocket DEF LogIn, status

\* _connectIfCookie is through.
LEMMA CalmLookUpStep ==
    ASSUME ClientInv, CalmInv, NEW k \in Socket, LookUp(k)
    PROVE  CalmInv'
  <1>1. lookups' = 0 /\ \A j \in Socket : conn[j].link \in {"unused", "closed", "lost"}
    BY CalmTypes DEF LookUp, CalmInv, CalmLookUp
  <1>2. CASE NewSocket(k) /\ flow' = [flow EXCEPT ![k] = NewFlow("cookie", session)]
    BY <1>1, <1>2, CalmNewSocket DEF LookUp, status
  <1>3. CASE UNCHANGED <<conn, socket, flow>>
    <2>1. ASSUME NEW j \in Socket PROVE CalmSocket(j)'
      BY <1>3 DEF LookUp, status, CalmInv, CalmSocket, CalmLink, CalmFlow, CalmServed,
         Subscribed, Subscribing, NoResubscription
    <2> QED BY <1>1, <1>3, <2>1 DEF LookUp, status, CalmInv, CalmLookUp, CalmStatus
  <1> QED BY <1>2, <1>3 DEF LookUp

-----------------------------------------------------------------------------
(* Steps that change no connection *)

\* What the client does besides keeps the calm.
LEMMA CalmUnchanged ==
    ASSUME ClientInv, CalmInv,
           UNCHANGED <<conn, queue, socket, connected, ready, lookups>>,
           \A k \in Socket : flow'[k].state \in {flow[k].state, "done"}
                              /\ flow'[k].via = flow[k].via,
           \A k \in Socket : flow[k].state \in {"connecting", "authenticating"}
                              => flow'[k].state = flow[k].state,
           connected => subscribedToDBs' = subscribedToDBs
    PROVE  CalmInv'
  <1>1. ASSUME NEW j \in Socket PROVE CalmSocket(j)'
    <2>1. CalmSocket(j)
      BY DEF CalmInv
    <2>2. CalmLink(j)' /\ CalmFlow(j)'
      BY <2>1 DEF CalmSocket, CalmLink, CalmFlow
    <2>3. CalmServed(j)'
      BY <2>1 DEF CalmSocket, CalmServed, Subscribed, Subscribing, NoResubscription
    <2> QED BY <2>2, <2>3 DEF CalmSocket
  <1> QED BY <1>1 DEF CalmInv, CalmLookUp, CalmStatus

\* logIn() stores its cookie.
LEMMA CalmStore ==
    ASSUME ClientInv, CalmInv, NEW k \in Socket, Store(k)
    PROVE  CalmInv'
  <1> USE CalmTypes
  <1>1. ASSUME NEW j \in Socket
        PROVE  flow'[j] = IF j = k THEN [flow[j] EXCEPT !.state = "done"] ELSE flow[j]
    BY DEF Store, Moved
  <1>2. ASSUME NEW j \in Socket
        PROVE  /\ flow'[j].state = IF j = k THEN "done" ELSE flow[j].state
               /\ flow'[j].via = flow[j].via
    <2>1. flow[j] \in Flow
      OBVIOUS
    <2>2. [flow[j] EXCEPT !.state = "done"].state = "done"
          /\ [flow[j] EXCEPT !.state = "done"].via = flow[j].via
      BY <2>1, FlowFields
    <2> QED BY <1>1, <2>2
  <1> QED BY <1>2, CalmUnchanged DEF Store, status

\* logOut() clears the session.
LEMMA CalmLogOut ==
    ASSUME ClientInv, CalmInv, LogOut
    PROVE  CalmInv'
  BY CalmUnchanged DEF LogOut, status

\* A request other than a resubscription goes to the end of the queue.
LEMMA CalmSent ==
    ASSUME ClientInv, CalmInv, NEW type, NEW dbNames, NEW k \in Socket,
           type # "resubscribe", EmitIfConnected(type, dbNames),
           queue'[k] # queue[k]
    PROVE  /\ conn[k].verdict = "accepted"
           /\ queue'[k] = Append(queue[k], [type |-> type, dbNames |-> dbNames])
  <1>1. CalmStatus /\ queue \in [Socket -> Seq(Request)]
    BY CalmTypes DEF CalmInv
  <1>2. connected /\ Send([type |-> type, dbNames |-> dbNames])
    BY DEF EmitIfConnected
  <1>3. socket = k /\ queue'[k] = Append(queue[k], [type |-> type, dbNames |-> dbNames])
    BY <1>1, <1>2 DEF Send
  <1>4. conn'[socket].verdict \in {"asked", "accepted"}
    BY <1>1, <1>2, <1>3 DEF Send
  <1> QED BY <1>1, <1>2, <1>3, <1>4 DEF CalmStatus, EmitIfConnected

\* Such a request keeps what is known of the queue.
LEMMA CalmEmits ==
    ASSUME ClientInv, CalmInv, NEW type, NEW dbNames,
           type # "resubscribe", EmitIfConnected(type, dbNames),
           UNCHANGED <<socket, connected, ready, lookups, flow>>,
           connected => subscribedToDBs' = subscribedToDBs
    PROVE  CalmInv'
  <1>1. conn' = conn
    BY DEF EmitIfConnected
  <1>2. ASSUME NEW j \in Socket PROVE CalmSocket(j)'
    <2> DEFINE q == queue[j]
               r == [type |-> type, dbNames |-> dbNames]
    <2>1. CalmSocket(j) /\ q \in Seq(Request) /\ r.type # "resubscribe"
      BY CalmTypes DEF CalmInv
    <2>2. CalmLink(j)' /\ CalmFlow(j)'
      BY <1>1, <2>1 DEF CalmSocket, CalmLink, CalmFlow
    <2>3. CASE queue'[j] = q
      <3>1. conn[j].verdict = "accepted" => UNCHANGED subscribedToDBs
        BY <2>1 DEF CalmSocket, CalmServed
      <3>2. CalmServed(j)'
        BY <1>1, <2>1, <2>3, <3>1 DEF CalmSocket, CalmServed, Subscribed, Subscribing,
           NoResubscription
      <3> QED BY <2>2, <3>2 DEF CalmSocket
    <2>4. CASE queue'[j] # q
      <3>1. conn[j].verdict = "accepted" /\ queue'[j] = Append(q, r)
        BY <2>4, CalmSent
      <3>2. connected /\ subscribedToDBs' = subscribedToDBs
        BY <2>1, <3>1 DEF CalmSocket, CalmServed
      <3> HIDE DEF q, r
      <3>3. ASSUME NEW n \in {0, 1}, NoResubscription(q, n)
            PROVE  NoResubscription(Append(q, r), n)
        BY <2>1, <3>3 DEF NoResubscription
      <3>4. q # <<>> => Append(q, r)[1] = q[1] /\ Append(q, r) # <<>>
        BY <2>1
      <3>5. Subscribed(j) => Subscribed(j)'
        BY <1>1, <3>1, <3>2, <3>3 DEF Subscribed, NoResubscription, q
      <3>6. Subscribing(j) => Subscribing(j)'
        BY <1>1, <3>1, <3>2, <3>3, <3>4 DEF Subscribing, NoResubscription, q
      <3> QED BY <1>1, <2>1, <2>2, <3>1, <3>2, <3>5, <3>6 DEF CalmSocket, CalmServed
    <2> QED BY <2>2, <2>3, <2>4 DEF CalmSocket
  <1> QED BY <1>1, <1>2 DEF CalmInv, CalmLookUp, CalmStatus

\* The timer of the heartbeat.
LEMMA CalmTick ==
    ASSUME ClientInv, CalmInv, Tick
    PROVE  CalmInv'
  BY CalmEmits DEF Tick

\* subscribe(): offline it changes what no connection has.
LEMMA CalmSubscribe ==
    ASSUME ClientInv, CalmInv, NEW d \in DB, SubscribeCall(d)
    PROVE  CalmInv'
  <1>1. connected => subscribedToDBs' = subscribedToDBs
    BY DEF SubscribeCall
  <1> QED BY <1>1, CalmEmits DEF SubscribeCall, status

\* unsubscribe() does, too.
LEMMA CalmUnsubscribe ==
    ASSUME ClientInv, CalmInv, NEW d \in DB, UnsubscribeCall(d)
    PROVE  CalmInv'
  <1>1. connected => subscribedToDBs' = subscribedToDBs
    BY DEF UnsubscribeCall
  <1> QED BY <1>1, CalmEmits DEF UnsubscribeCall, status

\* logOut() tells the server.
LEMMA CalmEmitLogOut ==
    ASSUME ClientInv, CalmInv, EmitLogOut
    PROVE  CalmInv'
  BY CalmEmits DEF EmitLogOut, status

-----------------------------------------------------------------------------
(* Connecting *)

\* A socket in use is the current one, the session is not asked, and the other
\* sockets are closed.
LEMMA CalmInUse ==
    ASSUME ClientInv, CalmInv, NEW k \in Socket, conn[k].link \in {"connecting", "open"}
    PROVE  /\ socket = k /\ lookups = 0
           /\ \A j \in Socket \ {k} :
                conn[j].verdict = "none" /\ conn[j].link \in {"unused", "closed", "lost"}
  <1>1. socket = k
    BY DEF CalmInv, CalmSocket, CalmLink
  <1>2. lookups = 0
    BY CalmTypes DEF CalmInv, CalmLookUp
  <1>3. ASSUME NEW j \in Socket \ {k}
        PROVE  conn[j].verdict = "none" /\ conn[j].link \in {"unused", "closed", "lost"}
    <2>1. CalmLink(j) /\ conn[j] \in Conn
      BY CalmTypes DEF CalmInv, CalmSocket
    <2> QED BY <1>1, <2>1 DEF CalmLink, Conn
  <1> QED BY <1>1, <1>2, <1>3

\* While a verdict is due, only its own flow waits for it.
LEMMA CalmAsked ==
    ASSUME ClientInv, CalmInv, NEW k \in Socket, conn[k].verdict = "asked"
    PROVE  /\ conn[k].link = "open" /\ socket = k
           /\ ~connected /\ ~ready
           /\ Awaiting(k) = {k}
           /\ conn[k].subs = {} /\ queue[k] = <<>>
  <1>1. CalmSocket(k) /\ CalmStatus
    BY DEF CalmInv
  <1>2. conn[k].link = "open" /\ socket = k
    BY <1>1 DEF CalmSocket, CalmLink
  <1>3. ~connected /\ ~ready
    BY <1>1, <1>2 DEF CalmStatus
  <1>4. ASSUME NEW j \in Socket, flow[j].state = "authenticating", flow[j].via = k
        PROVE  j = k
    BY <1>4 DEF CalmInv, CalmSocket, CalmFlow, Socket
  <1>5. flow[k].state = "authenticating" /\ flow[k].via = k
    BY <1>1 DEF CalmSocket, CalmFlow, ClientInv, WaitingKnowVia, WaitStates
  <1> QED BY <1>1, <1>2, <1>3, <1>4, <1>5 DEF Awaiting, CalmSocket, CalmServed

\* What a step does not change, it keeps.
LEMMA CalmOther ==
    ASSUME ClientInv, CalmInv, NEW j \in Socket,
           conn[j].verdict = "none" \/ UNCHANGED <<connected, ready, subscribedToDBs>>,
           conn[j].link \in {"unused", "closed", "lost"} \/ UNCHANGED socket,
           conn'[j] = conn[j], flow'[j] = flow[j], queue'[j] = queue[j]
    PROVE  CalmSocket(j)'
  <1>1. CalmSocket(j)
    BY DEF CalmInv
  <1>2. CalmLink(j)' /\ CalmFlow(j)'
    BY <1>1 DEF CalmSocket, CalmLink, CalmFlow
  <1>3. CalmServed(j)'
    BY <1>1 DEF CalmSocket, CalmServed, Subscribed, Subscribing, NoResubscription
  <1> QED BY <1>2, <1>3 DEF CalmSocket

\* The socket connects, and its flow waits for its verdict.
LEMMA CalmOpens ==
    ASSUME ClientInv, CalmInv, NEW k \in Socket, Opens(k)
    PROVE  CalmInv'
  <1> USE CalmTypes
  <1>1. CalmSocket(k) /\ conn[k].link = "connecting"
    BY DEF CalmInv, CalmSocket, CalmLink, Opens
  <1>2. flow[k].state = "connecting" /\ conn[k].verdict = "none" /\ conn[k].onDisconnect = 0
    BY <1>1 DEF CalmSocket, CalmFlow, CalmLink
  <1>3. socket = k /\ lookups = 0
    BY <1>1, CalmInUse
  <1> DEFINE c1 == [conn[k] EXCEPT !.link = "open"]
             c2 == [c1 EXCEPT !.verdict = "asked"]
             c3 == [c2 EXCEPT !.onDisconnect = @ + 1]
  <1>4. conn'[k] = c3 /\ \A j \in Socket \ {k} : conn'[j] = conn[j]
    BY <1>2, <1>3 DEF Opens, Listens
  <1>5. conn'[k].link = "open" /\ conn'[k].verdict = "asked" /\ conn'[k].onDisconnect = 1
        /\ conn'[k].subs = conn[k].subs
    BY <1>2, <1>4 DEF Conn
  <1>6. flow'[k].state = "authenticating" /\ flow'[k].via = k
    BY <1>2, <1>3 DEF Opens, Flow, NoFlow
  <1>7. \A j \in Socket \ {k} : flow'[j] = flow[j]
    BY DEF Opens
  <1>8. UNCHANGED <<connected, ready, subscribedToDBs, socket, lookups, queue>>
    BY DEF Opens, status
  <1>9. ASSUME NEW j \in Socket PROVE CalmSocket(j)'
    <2>1. CASE j = k
      BY <1>1, <1>2, <1>3, <1>5, <1>6, <1>8, <2>1
         DEF CalmSocket, CalmLink, CalmFlow, CalmServed
    <2>2. CASE j # k
      BY <1>4, <1>7, <1>8, <2>2, CalmOther
    <2> QED BY <2>1, <2>2
  <1>10. CalmLookUp' /\ CalmStatus'
    BY <1>2, <1>3, <1>8 DEF CalmLookUp, CalmStatus, CalmInv
  <1> QED BY <1>9, <1>10 DEF CalmInv

\* The server refuses: logIn() throws.
LEMMA CalmNotAuthenticated ==
    ASSUME Calm, ClientInv, CalmInv, NEW k \in Socket, NotAuthenticated(k)
    PROVE  CalmInv'
  <1> USE CalmTypes
  <1>1. conn[k].verdict = "asked"
    BY DEF NotAuthenticated
  <1>2. /\ conn[k].link = "open" /\ socket = k /\ ~connected /\ ~ready
        /\ Awaiting(k) = {k} /\ conn[k].subs = {} /\ queue[k] = <<>>
    BY <1>1, CalmAsked
  <1>3. lookups = 0 /\ \A j \in Socket \ {k} : conn[j].verdict = "none"
    BY <1>2, CalmInUse
  <1>4. flow[k].kind = "logIn"
    BY DEF NotAuthenticated, Calm, ClientInv, ClientTypeOK
  <1>5. conn'[k] = [conn[k] EXCEPT !.verdict = "refused"]
        /\ \A j \in Socket \ {k} : conn'[j] = conn[j]
    BY DEF NotAuthenticated
  <1>6. conn'[k].link = "open" /\ conn'[k].verdict = "refused" /\ conn'[k].subs = {}
        /\ conn'[k].onDisconnect = conn[k].onDisconnect
    BY <1>2, <1>5, ConnFields
  <1>7. flow'[k] = [flow[k] EXCEPT !.state = "failed"]
        /\ \A j \in Socket \ {k} : flow'[j] = flow[j]
    BY <1>2, <1>4 DEF NotAuthenticated, Moved, Refused
  <1>8. flow'[k].state = "failed" /\ flow'[k].via = flow[k].via
    BY <1>7, FlowFields
  <1>9. queue'[k] = <<>> /\ \A j \in Socket \ {k} : queue'[j] = queue[j]
    BY DEF NotAuthenticated
  <1>10. UNCHANGED <<connected, ready, subscribedToDBs, socket, lookups>>
    BY DEF NotAuthenticated, status
  <1>11. ASSUME NEW j \in Socket PROVE CalmSocket(j)'
    <2>1. CASE j = k
      <3>1. CalmSocket(k)
        BY DEF CalmInv
      <3> QED BY <1>2, <1>6, <1>8, <1>9, <1>10, <2>1, <3>1
              DEF CalmSocket, CalmLink, CalmFlow, CalmServed
    <2>2. CASE j # k
      BY <1>5, <1>7, <1>9, <1>10, <2>2, CalmOther
    <2> QED BY <2>1, <2>2
  <1>12. CalmLookUp' /\ CalmStatus'
    BY <1>2, <1>3, <1>10 DEF CalmLookUp, CalmStatus
  <1> QED BY <1>11, <1>12 DEF CalmInv

\* The server accepts: the client is connected, and ready if it has no
\* subscriptions to send first.
LEMMA CalmAuthenticated ==
    ASSUME ClientInv, CalmInv, NEW k \in Socket, Authenticated(k)
    PROVE  CalmInv'
  <1> USE CalmTypes
  <1>1. conn[k].verdict = "asked"
    BY DEF Authenticated
  <1>2. /\ conn[k].link = "open" /\ socket = k /\ ~connected /\ ~ready
        /\ Awaiting(k) = {k} /\ conn[k].subs = {} /\ queue[k] = <<>>
    BY <1>1, CalmAsked
  <1>3. lookups = 0 /\ \A j \in Socket \ {k} : conn[j].verdict = "none"
    BY <1>2, CalmInUse
  <1> DEFINE c == [conn EXCEPT ![k].verdict = "accepted", ![k].admitted = TRUE]
             c1 == [conn[k] EXCEPT !.verdict = "accepted"]
             r == [type |-> "resubscribe", dbNames |-> subscribedToDBs, flows |-> {k}]
  <1>4. OnConnect({k}, c)
    BY <1>2 DEF Authenticated
  <1>5. UNCHANGED <<subscribedToDBs, socket, lookups>>
    BY DEF Authenticated
  <1>6. c \in [Socket -> Conn] /\ c[k] = [c1 EXCEPT !.admitted = TRUE] /\ c1 \in Conn
        /\ \A j \in Socket \ {k} : c[j] = conn[j]
    BY DEF Conn
  <1>7. c[k].link = "open" /\ c[k].verdict = "accepted" /\ c[k].subs = {}
        /\ c[k].onDisconnect = conn[k].onDisconnect
    BY <1>2, <1>6, ConnFields
  <1> HIDE DEF c, c1
  <1>8. /\ connected'
        /\ conn'[k].link = "open" /\ conn'[k].verdict = "accepted" /\ conn'[k].subs = {}
        /\ conn'[k].onDisconnect = conn[k].onDisconnect
        /\ \A j \in Socket \ {k} : conn'[j] = conn[j] /\ queue'[j] = queue[j]
        /\ \/ ready' /\ subscribedToDBs = {} /\ queue'[k] = <<>>
           \/ ~ready' /\ queue'[k] = <<r>>
        /\ \E st : /\ st \in {"storing", "done", "resubscribing"}
                   /\ flow'[k] = [flow[k] EXCEPT !.state = st]
        /\ \A j \in Socket \ {k} : flow'[j] = flow[j]
    <2>1. CASE ~Resubscribes /\ Ready({k}, c) /\ UNCHANGED queue
      <3>1. conn'[k] = [c[k] EXCEPT !.onAuthenticated = c[k].onAuthenticated \/ TRUE]
            /\ \A j \in Socket \ {k} : conn'[j] = c[j]
        BY <1>2, <1>6, <2>1 DEF Ready
      <3>2. conn'[k].link = "open" /\ conn'[k].verdict = "accepted" /\ conn'[k].subs = {}
            /\ conn'[k].onDisconnect = conn[k].onDisconnect
        BY <1>6, <1>7, <3>1, ConnFields
      <3>3. \E st : /\ st \in {"storing", "done", "resubscribing"}
                    /\ flow'[k] = [flow[k] EXCEPT !.state = st]
        <4>1. CASE flow[k].kind = "logIn"
          <5>1. flow'[k] = [flow[k] EXCEPT !.state = "storing"]
            BY <2>1, <4>1 DEF Ready, Moved
          <5> QED BY <5>1
        <4>2. CASE flow[k].kind # "logIn"
          <5>1. flow'[k] = [flow[k] EXCEPT !.state = "done"]
            BY <2>1, <4>2 DEF Ready, Moved
          <5> QED BY <5>1
        <4> QED BY <4>1, <4>2
      <3>4. \A j \in Socket \ {k} : flow'[j] = flow[j]
        BY <2>1 DEF Ready, Moved
      <3>5. connected' /\ ready' /\ subscribedToDBs = {} /\ queue'[k] = <<>>
        BY <1>2, <1>4, <2>1 DEF Resubscribes, Ready, OnConnect
      <3> QED BY <1>6, <2>1, <3>1, <3>2, <3>3, <3>4, <3>5
    <2>2. CASE /\ conn' = c
               /\ Send([type |-> "resubscribe", dbNames |-> subscribedToDBs, flows |-> {k}])
               /\ Moved({k}, [j \in {k} |-> "resubscribing"])
               /\ UNCHANGED <<ready, heartbeatChecker, answered>>
      <3>1. queue' = [queue EXCEPT ![k] = Append(queue[k], r)]
        BY <1>2, <1>7, <2>2 DEF Send
      <3> HIDE DEF r
      <3>0. queue'[k] = Append(<<>>, r) /\ \A j \in Socket \ {k} : queue'[j] = queue[j]
        BY <1>2, <3>1
      <3>2. queue'[k] = <<r>> /\ \A j \in Socket \ {k} : queue'[j] = queue[j]
        BY <3>0
      <3>3. flow'[k] = [flow[k] EXCEPT !.state = "resubscribing"]
            /\ \A j \in Socket \ {k} : flow'[j] = flow[j]
        BY <2>2 DEF Moved
      <3>4. connected' /\ ~ready'
        BY <1>2, <1>4, <2>2 DEF OnConnect
      <3> QED BY <1>6, <1>7, <2>2, <3>2, <3>3, <3>4
    <2> QED BY <1>4, <2>1, <2>2 DEF OnConnect
  <1>9. flow'[k].state \in {"storing", "done", "resubscribing"} /\ flow'[k].via = flow[k].via
    BY <1>8, FlowFields
  <1>10. CalmServed(k)'
    <2>1. CASE ready' /\ subscribedToDBs = {} /\ queue'[k] = <<>>
      <3>1. Subscribed(k)'
        BY <1>5, <1>8, <2>1 DEF Subscribed, NoResubscription
      <3> QED BY <1>8, <3>1 DEF CalmServed
    <2>2. CASE ~ready' /\ queue'[k] = <<r>>
      <3>1. Subscribing(k)'
        BY <1>5, <1>8, <2>2 DEF Subscribing, NoResubscription
      <3> QED BY <1>8, <3>1 DEF CalmServed
    <2> QED BY <1>8, <2>1, <2>2
  <1>11. ASSUME NEW j \in Socket PROVE CalmSocket(j)'
    <2>1. CASE j = k
      <3>1. CalmSocket(k)
        BY DEF CalmInv
      <3>2. CalmLink(k)' /\ CalmFlow(k)'
        BY <1>2, <1>5, <1>8, <1>9, <3>1 DEF CalmSocket, CalmLink, CalmFlow
      <3> QED BY <1>10, <2>1, <3>2 DEF CalmSocket
    <2>2. CASE j # k
      BY <1>3, <1>5, <1>8, <2>2, CalmOther
    <2> QED BY <2>1, <2>2
  <1>12. CalmLookUp' /\ CalmStatus'
    BY <1>2, <1>3, <1>5, <1>8 DEF CalmLookUp, CalmStatus
  <1> QED BY <1>8, <1>11, <1>12 DEF CalmInv

-----------------------------------------------------------------------------
(* The end of a connection *)

\* The current connection is closed, after its verdict, or lost: the client is
\* not connected any more, and may look for a cookie.
LEMMA CalmEnds ==
    ASSUME ClientInv, CalmInv, NEW k \in Socket, NEW l \in {"closed", "lost"},
           conn[k].link = "open", conn[k].verdict # "asked" \/ l = "lost",
           Ended(k, l), ~connected', ~ready', lookups' \in {0, 1},
           UNCHANGED <<flow, socket, subscribedToDBs>>
    PROVE  CalmInv'
  <1> USE CalmTypes
  <1>1. \A j \in Socket \ {k} :
            conn[j].verdict = "none" /\ conn[j].link \in {"unused", "closed", "lost"}
    BY CalmInUse
  <1>2. /\ conn'[k].link = l /\ conn'[k].verdict = "none"
        /\ conn'[k].subs = {} /\ conn'[k].onDisconnect = conn[k].onDisconnect
        /\ queue'[k] = <<>>
    BY DEF Ended, Conn
  <1>3. \A j \in Socket \ {k} : conn'[j] = conn[j] /\ queue'[j] = queue[j]
    BY DEF Ended
  <1>4. ASSUME NEW j \in Socket PROVE CalmSocket(j)'
    <2>1. CASE j = k
      <3>1. CalmSocket(k)
        BY DEF CalmInv
      <3> QED BY <1>2, <2>1, <3>1 DEF CalmSocket, CalmLink, CalmFlow, CalmServed
    <2>2. CASE j # k
      BY <1>1, <1>3, <2>2, CalmOther
    <2> QED BY <2>1, <2>2
  <1>5. CalmLookUp'
    <2>1. lookups' > 0 => lookups' = 1
      OBVIOUS
    <2>2. ASSUME NEW j \in Socket
          PROVE  conn'[j].link \in {"unused", "closed", "lost"}
      BY <1>1, <1>2, <1>3
    <2> QED BY <2>1, <2>2 DEF CalmLookUp
  <1> QED BY <1>4, <1>5 DEF CalmInv, CalmStatus

\* The server disconnects the socket.
LEMMA CalmKicked ==
    ASSUME ClientInv, CalmInv, NEW k \in Socket, Kicked(k)
    PROVE  CalmInv'
  <1>1. conn[k].link = "open" /\ conn[k].verdict # "asked" /\ conn[k].onDisconnect = 1
    BY DEF CalmInv, CalmSocket, CalmLink, Kicked
  <1>2. lookups = 0
    BY <1>1, CalmInUse
  <1>3. lookups' \in {0, 1}
    BY <1>1, <1>2 DEF Kicked, Disconnected, Reconnects
  <1>4. conn[k].onDisconnect # 0
    BY <1>1
  <1>5. ~connected' /\ ~ready'
    BY <1>4, Zenon DEF Kicked, Disconnected
  <1> QED BY <1>1, <1>3, <1>5, CalmEnds DEF Kicked

\* The transport is lost, whether or not the server has given its verdict.
LEMMA CalmDropped ==
    ASSUME Calm, ClientInv, CalmInv, NEW k \in Socket, Dropped(k)
    PROVE  CalmInv'
  <1>1. conn[k].link = "open" /\ conn[k].onDisconnect = 1 /\ Ended(k, "lost")
    BY DEF CalmInv, CalmSocket, CalmLink, Dropped, Calm
  <1>2. lookups = 0
    BY <1>1, CalmInUse
  <1>3. lookups' \in {0, 1}
    BY <1>1, <1>2 DEF Dropped, Disconnected, Reconnects
  <1>4. conn[k].onDisconnect # 0
    BY <1>1
  <1>5. ~connected' /\ ~ready'
    BY <1>4, Zenon DEF Dropped, Disconnected
  <1> QED BY <1>1, <1>3, <1>5, CalmEnds DEF Dropped

\* A connected client has an open socket, whose end it hears once.
LEMMA CalmConnected ==
    ASSUME ClientInv, CalmInv, connected
    PROVE  /\ socket \in Socket
           /\ conn[socket].link = "open" /\ conn[socket].verdict # "asked"
           /\ conn[socket].onDisconnect = 1
           /\ lookups = 0
  <1>1. socket \in Socket /\ conn[socket].verdict \in {"accepted", "left"}
    BY DEF CalmInv, CalmStatus
  <1>2. conn[socket].link = "open" /\ conn[socket].onDisconnect = 1
    BY <1>1 DEF CalmInv, CalmSocket, CalmLink
  <1>3. lookups = 0
    BY <1>1, <1>2, CalmInUse
  <1> QED BY <1>1, <1>2, <1>3

\* stop() closes the socket of a connected client.
LEMMA CalmStop ==
    ASSUME ClientInv, CalmInv, Stop
    PROVE  CalmInv'
  <1>1. CASE ClosesSocket
    <2>1. connected
      BY <1>1 DEF ClosesSocket
    <2>2. Heard = 1 /\ Ended(socket, "closed")
      BY <1>1, <2>1, CalmConnected DEF Heard, Stop, CloseSocket
    <2>3. Heard # 0
      BY <2>2
    <2>4. ~connected' /\ ~ready'
      BY <2>3, Zenon DEF Stop
    <2>5. lookups' = 0
      BY <2>1, CalmConnected DEF Stop
    <2> QED BY <2>1, <2>2, <2>4, <2>5, CalmConnected, CalmEnds DEF Stop
  <1>2. CASE ~ClosesSocket
    <2>1. Heard = 0 /\ UNCHANGED <<conn, queue>>
      BY <1>2 DEF Heard, Stop, CloseSocket
    <2>2. connected' = connected /\ ready' = ready
      BY <2>1, CalmTypes DEF Stop, ClientInv, ClientTypeOK
    <2> QED BY <2>1, <2>2, CalmUnchanged DEF Stop
  <1> QED BY <1>1, <1>2

-----------------------------------------------------------------------------
(* Answers *)

\* What remains when the first request of q is answered.
LEMMA TailIsSubscribed ==
    ASSUME NEW q \in Seq(Request), q # <<>>, NEW n \in {0, 1}, NoResubscription(q, n)
    PROVE  NoResubscription(Tail(q), 0)
  <1>1. ASSUME NEW i \in DOMAIN Tail(q), i > 0 PROVE Tail(q)[i].type # "resubscribe"
    <2>1. i + 1 \in DOMAIN q /\ i + 1 > n /\ Tail(q)[i] = q[i + 1]
      BY <1>1
    <2> QED BY <2>1 DEF NoResubscription
  <1> QED BY <1>1 DEF NoResubscription

\* Of which requests the answer is due.
LEMMA CalmAnswered ==
    ASSUME ClientInv, CalmInv, NEW k \in Socket,
           conn[k].verdict = "accepted", queue[k] # <<>>
    PROVE  /\ conn[k].link = "open" /\ socket = k /\ connected /\ lookups = 0
           /\ conn[k].onDisconnect = 1
           /\ flow[k].state \notin {"connecting", "authenticating"}
           /\ Head(queue[k]).type = "resubscribe" => Subscribing(k)
           /\ Head(queue[k]).type # "resubscribe" => Subscribed(k)
           /\ NoResubscription(Tail(queue[k]), 0)
  <1>1. CalmSocket(k) /\ queue[k] \in Seq(Request)
    BY CalmTypes DEF CalmInv
  <1>2. /\ conn[k].link = "open" /\ socket = k /\ connected
        /\ conn[k].onDisconnect = 1 /\ flow[k].state \notin {"connecting", "authenticating"}
    BY <1>1 DEF CalmSocket, CalmLink, CalmServed, CalmFlow
  <1>3. lookups = 0
    BY <1>2, CalmInUse
  <1> DEFINE q == queue[k]
  <1>4. q \in Seq(Request) /\ q # <<>>
    BY <1>1
  <1>5. Subscribed(k) \/ Subscribing(k)
    BY <1>1 DEF CalmSocket, CalmServed
  <1>6. /\ Subscribed(k) => NoResubscription(q, 0)
        /\ Subscribing(k) => q[1].type = "resubscribe" /\ NoResubscription(q, 1)
    BY DEF Subscribed, Subscribing
  <1> HIDE DEF q
  <1>7. Head(q) = q[1] /\ 1 \in DOMAIN q
    BY <1>4
  <1>8. NoResubscription(q, 0) => q[1].type # "resubscribe"
    BY <1>7 DEF NoResubscription
  <1>9. NoResubscription(Tail(q), 0)
    BY <1>4, <1>5, <1>6, TailIsSubscribed
  <1> QED BY <1>2, <1>3, <1>5, <1>6, <1>7, <1>8, <1>9 DEF q

\* What an answer does to the connection and the flow of its socket: either
\* the server has the subscriptions of the client, or it let the client go.
CalmEffect(k) ==
    /\ conn'[k].link = "open" /\ conn'[k].onDisconnect = conn[k].onDisconnect
    /\ \/ conn'[k].verdict = "left" /\ conn'[k].subs = {} /\ queue'[k] = <<>>
       \/ /\ conn'[k].verdict = "accepted" /\ conn'[k].subs = subscribedToDBs'
          /\ queue'[k] = Tail(queue[k]) /\ ready'
    /\ flow'[k].via = flow[k].via
    /\ flow'[k].state \in {flow[k].state, "storing", "done"}
    /\ \A j \in Socket \ {k} : conn'[j] = conn[j] /\ flow'[j] = flow[j]

\* The resubscription of its own flow makes the client ready.
LEMMA CalmResubscribed ==
    ASSUME ClientInv, CalmInv, NEW k \in Socket, Answer(k),
           Head(queue[k]).type = "resubscribe"
    PROVE  CalmEffect(k)
  <1> USE CalmTypes
  <1> DEFINE r == Head(queue[k])
             c == [conn EXCEPT ![k].subs = @ \cup r.dbNames]
  <1>1. /\ conn[k].link = "open" /\ socket = k /\ Subscribing(k)
        /\ conn[k].verdict = "accepted"
    BY CalmAnswered DEF Answer
  <1>2. r.flows = {k} /\ r.dbNames = subscribedToDBs /\ conn[k].subs = {}
    BY <1>1 DEF Subscribing
  <1>3. Ready({k}, c) /\ UNCHANGED subscribedToDBs
    BY <1>2 DEF Answer, Effect
  <1>4. queue'[k] = Tail(queue[k])
    BY DEF Answer
  <1>5. c[k] = [conn[k] EXCEPT !.subs = subscribedToDBs] /\ c[k] \in Conn
        /\ c \in [Socket -> Conn] /\ \A j \in Socket \ {k} : c[j] = conn[j]
    <2>1. subscribedToDBs \in SUBSET DB
      BY DEF ClientInv, ClientTypeOK
    <2>2. conn[k].subs \cup r.dbNames = subscribedToDBs
      BY <1>2
    <2>3. c = [conn EXCEPT ![k].subs = subscribedToDBs]
      BY <2>2, Zenon
    <2> HIDE DEF c, r
    <2>4. c[k] = [conn[k] EXCEPT !.subs = subscribedToDBs]
          /\ \A j \in Socket \ {k} : c[j] = conn[j]
      BY <2>3
    <2>5. [conn[k] EXCEPT !.subs = subscribedToDBs] \in Conn
      BY <2>1 DEF Conn
    <2>6. c \in [Socket -> Conn]
      BY <2>1, <2>3 DEF Conn
    <2> QED BY <2>4, <2>5, <2>6
  <1> HIDE DEF c, r
  <1>6. c[k].link = "open" /\ c[k].verdict = "accepted" /\ c[k].subs = subscribedToDBs
        /\ c[k].onDisconnect = conn[k].onDisconnect
    BY <1>1, <1>5, ConnFields
  <1>7. conn'[k] = [c[k] EXCEPT !.onAuthenticated = c[k].onAuthenticated \/ TRUE]
        /\ \A j \in Socket \ {k} : conn'[j] = c[j]
    BY <1>1, <1>3, <1>5 DEF Ready
  <1>8. conn'[k].link = "open" /\ conn'[k].verdict = "accepted"
        /\ conn'[k].subs = subscribedToDBs /\ conn'[k].onDisconnect = conn[k].onDisconnect
    BY <1>5, <1>6, <1>7, ConnFields
  <1>9. \E st \in {"storing", "done"} : flow'[k] = [flow[k] EXCEPT !.state = st]
    <2>1. CASE flow[k].kind = "logIn"
      <3>1. flow'[k] = [flow[k] EXCEPT !.state = "storing"]
        BY <1>3, <2>1 DEF Ready, Moved
      <3> QED BY <3>1
    <2>2. CASE flow[k].kind # "logIn"
      <3>1. flow'[k] = [flow[k] EXCEPT !.state = "done"]
        BY <1>3, <2>2 DEF Ready, Moved
      <3> QED BY <3>1
    <2> QED BY <2>1, <2>2
  <1>10. flow'[k].state \in {"storing", "done"} /\ flow'[k].via = flow[k].via
    BY <1>9, FlowFields
  <1>11. ready' /\ \A j \in Socket \ {k} : flow'[j] = flow[j]
    BY <1>3 DEF Ready, Moved
  <1> QED BY <1>3, <1>4, <1>5, <1>7, <1>8, <1>10, <1>11 DEF CalmEffect

\* The other answers move no flow and keep the subscriptions in step.
LEMMA CalmOtherAnswer ==
    ASSUME ClientInv, CalmInv, NEW k \in Socket, Answer(k),
           Head(queue[k]).type # "resubscribe"
    PROVE  CalmEffect(k)
  <1> USE CalmTypes
  <1> DEFINE r == Head(queue[k])
  <1>1. /\ conn[k].link = "open" /\ Subscribed(k) /\ conn[k].verdict = "accepted"
        /\ conn[k] \in Conn
    BY CalmAnswered DEF Answer
  <1>2. ready /\ conn[k].subs = subscribedToDBs
    BY <1>1 DEF Subscribed
  <1>3. Effect(k, r) /\ r.type # "resubscribe"
    BY DEF Answer
  <1>4. queue'[k] = IF r.type = "log-out" THEN <<>> ELSE Tail(queue[k])
    BY DEF Answer
  <1> HIDE DEF r
  <1>5. UNCHANGED <<flow, ready>>
    BY <1>3 DEF Effect
  <1>6. CASE r.type = "log-out"
    <2>1. conn' = [conn EXCEPT ![k].verdict = "left", ![k].subs = {}]
      BY <1>3, <1>6 DEF Effect
    <2>2. conn'[k].link = "open" /\ conn'[k].verdict = "left" /\ conn'[k].subs = {}
          /\ conn'[k].onDisconnect = conn[k].onDisconnect
      BY <1>1, <2>1 DEF Conn
    <2> QED BY <1>4, <1>5, <1>6, <2>1, <2>2 DEF CalmEffect
  <1>7. CASE r.type \in {"subscribe", "unsubscribe"}
    <2>1. conn' = [conn EXCEPT ![k].subs = subscribedToDBs']
      BY <1>2, <1>3, <1>7 DEF Effect
    <2>2. conn'[k] = [conn[k] EXCEPT !.subs = subscribedToDBs']
          /\ \A j \in Socket \ {k} : conn'[j] = conn[j]
      BY <2>1
    <2>3. conn'[k].link = "open" /\ conn'[k].verdict = "accepted"
          /\ conn'[k].subs = subscribedToDBs'
          /\ conn'[k].onDisconnect = conn[k].onDisconnect
      BY <1>1, <2>2, ConnFields
    <2> QED BY <1>2, <1>4, <1>5, <1>7, <2>2, <2>3 DEF CalmEffect
  <1>8. CASE r.type = "heartbeat"
    <2>1. UNCHANGED <<conn, subscribedToDBs>>
      BY <1>3, <1>8 DEF Effect
    <2> QED BY <1>1, <1>2, <1>4, <1>5, <1>8, <2>1 DEF CalmEffect
  <1> QED BY <1>3, <1>6, <1>7, <1>8 DEF Effect

\* The answer to the oldest request.
LEMMA CalmAnswer ==
    ASSUME ClientInv, CalmInv, NEW k \in Socket, Answer(k)
    PROVE  CalmInv' /\ CalmEffect(k)
  <1> USE CalmTypes
  <1>1. CalmEffect(k)
    BY CalmResubscribed, CalmOtherAnswer
  <1>2. /\ conn[k].link = "open" /\ socket = k /\ connected /\ lookups = 0
        /\ conn[k].onDisconnect = 1
        /\ flow[k].state \notin {"connecting", "authenticating"}
        /\ NoResubscription(Tail(queue[k]), 0)
    BY CalmAnswered DEF Answer
  <1>3. \A j \in Socket \ {k} : conn[j].verdict = "none" /\ queue'[j] = queue[j]
    BY <1>2, CalmInUse DEF Answer
  <1>4. UNCHANGED <<connected, socket, lookups>>
    BY DEF Answer
  <1>5. ASSUME NEW j \in Socket PROVE CalmSocket(j)'
    <2>1. CASE j = k
      <3>1. CalmSocket(k)
        BY DEF CalmInv
      <3>2. CalmLink(k)'
        BY <1>1, <1>2, <1>4 DEF CalmEffect, CalmLink
      <3>3. CalmFlow(k)'
        BY <1>1, <1>2, <3>1 DEF CalmEffect, CalmSocket, CalmFlow
      <3>4. conn'[k].verdict = "accepted" => Subscribed(k)'
        BY <1>1, <1>2 DEF CalmEffect, Subscribed, NoResubscription
      <3>5. CalmServed(k)'
        BY <1>1, <1>2, <1>4, <3>4 DEF CalmEffect, CalmServed
      <3> QED BY <2>1, <3>2, <3>3, <3>5 DEF CalmSocket
    <2>2. CASE j # k
      BY <1>1, <1>3, <1>4, <2>2, CalmOther DEF CalmEffect
    <2> QED BY <2>1, <2>2
  <1>6. CalmLookUp' /\ CalmStatus'
    BY <1>1, <1>2, <1>4 DEF CalmLookUp, CalmStatus, CalmEffect
  <1> QED BY <1>1, <1>5, <1>6 DEF CalmInv

-----------------------------------------------------------------------------
(* The invariant *)

\* At first nothing is connected, and the session is asked once.
LEMMA CalmInvInit == ClientInit => CalmInv
  <1> SUFFICES ASSUME ClientInit PROVE CalmInv
    OBVIOUS
  <1>1. ASSUME NEW k \in Socket
        PROVE  /\ conn[k].link = "unused" /\ conn[k].verdict = "none"
               /\ conn[k].subs = {} /\ conn[k].onDisconnect = 0
               /\ flow[k].state = "none" /\ flow[k].via = 0 /\ queue[k] = <<>>
    BY DEF ClientInit, NoFlow
  <1>2. \A k \in Socket : CalmSocket(k)
    BY <1>1 DEF CalmSocket, CalmLink, CalmFlow, CalmServed
  <1>3. CalmLookUp /\ CalmStatus
    BY <1>1 DEF ClientInit, CalmLookUp, CalmStatus
  <1> QED BY <1>2, <1>3 DEF CalmInv

\* In a calm run there is nothing to retry and no heartbeat is overdue.
LEMMA CalmNever ==
    ASSUME Calm, ClientInv, CalmInv
    PROVE  /\ \A j, k \in Socket : ~Retry(j, k)
           /\ ~Reconnect
  <1>1. \A j \in Socket : flow[j].state # "retrying"
    BY DEF CalmInv, CalmSocket, CalmFlow
  <1>2. timeouts = 0 /\ MaxTimeouts = 0
    BY DEF Calm, ClientInv, ClientTypeOK
  <1> QED BY <1>1, <1>2 DEF Retry, Reconnect

\* No step changes what it does not touch.
LEMMA CalmStutter ==
    ASSUME CalmInv, UNCHANGED clientVars
    PROVE  CalmInv'
  BY DEF CalmInv, CalmLookUp, CalmStatus, CalmSocket, CalmLink, CalmFlow, CalmServed,
     Subscribed, Subscribing, NoResubscription, clientVars, status, flags, counters

\* Every step of a calm run keeps the invariant.
LEMMA CalmInvNext ==
    ASSUME Calm, ClientInv, CalmInv, [ClientNext]_clientVars
    PROVE  CalmInv'
  <1>1. ASSUME NEW k \in Socket, NEW c \in Cookie, LogIn(k, c) PROVE CalmInv'
    BY <1>1, CalmLogIn
  <1>2. ASSUME NEW k \in Socket, LookUp(k) PROVE CalmInv'
    BY <1>2, CalmLookUpStep
  <1>3. ASSUME NEW k \in Socket, Opens(k) PROVE CalmInv'
    BY <1>3, CalmOpens
  <1>4. ASSUME NEW k \in Socket, Authenticated(k) PROVE CalmInv'
    BY <1>4, CalmAuthenticated
  <1>5. ASSUME NEW k \in Socket, NotAuthenticated(k) PROVE CalmInv'
    BY <1>5, CalmNotAuthenticated
  <1>6. ASSUME NEW k \in Socket, Store(k) PROVE CalmInv'
    BY <1>6, CalmStore
  <1>7. ASSUME NEW k \in Socket, Kicked(k) \/ Dropped(k) PROVE CalmInv'
    BY <1>7, CalmKicked, CalmDropped
  <1>8. ASSUME NEW k \in Socket, Answer(k) PROVE CalmInv'
    BY <1>8, CalmAnswer
  <1>9. ASSUME NEW d \in DB, SubscribeCall(d) \/ UnsubscribeCall(d) PROVE CalmInv'
    BY <1>9, CalmSubscribe, CalmUnsubscribe
  <1>10. CASE LogOut \/ EmitLogOut \/ Stop \/ Tick
    BY <1>10, CalmLogOut, CalmEmitLogOut, CalmStop, CalmTick
  <1>11. CASE UNCHANGED clientVars
    BY <1>11, CalmStutter
  <1> QED BY <1>1, <1>2, <1>3, <1>4, <1>5, <1>6, <1>7, <1>8, <1>9, <1>10, <1>11,
             CalmNever DEF ClientNext

\* The invariant holds in a calm run.
LEMMA CalmInvariant == ASSUME Calm PROVE ClientSpec => [](ClientInv /\ CalmInv)
  <1>1. ClientInit => ClientInv /\ CalmInv
    BY ClientInvInit, CalmInvInit
  <1>2. ClientInv /\ CalmInv /\ [ClientNext]_clientVars => (ClientInv /\ CalmInv)'
    BY ClientInvNext, CalmInvNext
  <1> QED BY <1>1, <1>2, PTL DEF ClientSpec

-----------------------------------------------------------------------------
(* What a calm client promises *)

\* A client makes one connection at a time.
THEOREM OneConnection == ASSUME Calm PROVE ClientSpec => []SingleConnection
  <1>1. CalmInv => SingleConnection
    <2> SUFFICES ASSUME CalmInv PROVE SingleConnection
      OBVIOUS
    <2> DEFINE S == {k \in Socket : conn[k].link = "open"}
    <2>1. S \subseteq {socket}
      BY DEF CalmInv, CalmSocket, CalmLink
    <2>2. IsFiniteSet({socket}) /\ Cardinality({socket}) = 1
      BY FS_Singleton
    <2>3. Cardinality(S) \in Nat /\ Cardinality(S) <= 1
      BY <2>1, <2>2, FS_Subset, FS_CardinalityType
    <2> QED BY <2>3 DEF SingleConnection
  <1> QED BY <1>1, CalmInvariant, PTL

\* A client that says it is connected has a connection that was accepted.
THEOREM ConnectedTellsTrue == ASSUME Calm PROVE ClientSpec => []ConnectedIsReal
  <1>1. CalmInv => ConnectedIsReal
    BY DEF CalmInv, CalmStatus, ConnectedIsReal
  <1> QED BY <1>1, CalmInvariant, PTL

\* The server knows the subscriptions of a client that is ready and waits for
\* no answer.
THEOREM SubscriptionsAgree == ASSUME Calm PROVE ClientSpec => []SubscriptionsInSync
  <1>1. CalmInv => SubscriptionsInSync
    <2> SUFFICES ASSUME CalmInv, ready, conn[socket].verdict = "accepted",
                        queue[socket] = <<>>
                 PROVE  conn[socket].subs = subscribedToDBs
      BY DEF SubscriptionsInSync
    <2>1. socket \in Socket
      BY DEF CalmInv, CalmStatus
    <2>2. Subscribed(socket)
      BY <2>1 DEF CalmInv, CalmSocket, CalmServed, Subscribing
    <2> QED BY <2>2 DEF Subscribed
  <1> QED BY <1>1, CalmInvariant, PTL

\* The socket is closed by the client only when it is stopped.
ClosesAtStop == disconnectingSocket => stopped

\* No heartbeat is overdue, so only stop() closes it.
LEMMA ClosesAtStopNext ==
    ASSUME Calm, ClientInv, CalmInv, ClosesAtStop, [ClientNext]_clientVars
    PROVE  ClosesAtStop'
  <1>1. (stopped' = stopped /\ disconnectingSocket' = disconnectingSocket) \/ Stop
    BY CalmNever
    DEF ClientNext, clientVars, flags, LogIn, LookUp, Opens, Authenticated,
        NotAuthenticated, Store, Kicked, Dropped, Answer, SubscribeCall,
        UnsubscribeCall, LogOut, EmitLogOut, Tick
  <1> QED BY <1>1 DEF ClosesAtStop, Stop

\* What a calm client has when it is stopped while it is connected.
LEMMA CalmStopEnds ==
    ASSUME ClientInv, ClientInv', CalmInv, CalmInv', ClosesAtStop, Stop, ~stopped, connected
    PROVE  Attempts' = 0
  <1>1. ClosesSocket /\ Ended(socket, "closed")
    BY DEF ClosesSocket, ClosesAtStop, Stop, CloseSocket
  <1>2. /\ socket \in Socket /\ lookups' = 0
        /\ \A j \in Socket \ {socket} : conn[j].link \in {"unused", "closed", "lost"}
    <2>1. socket \in Socket /\ conn[socket].link = "open" /\ lookups = 0
      BY CalmConnected
    <2> QED BY <2>1, CalmInUse DEF Stop
  <1>3. InUse' = {}
    <2>1. conn'[socket].link = "closed"
      BY <1>1, <1>2, CalmTypes DEF Ended, Conn
    <2>2. \A j \in Socket \ {socket} : conn'[j] = conn[j]
      BY <1>1, CalmTypes DEF Ended
    <2> QED BY <1>2, <2>1, <2>2 DEF InUse
  <1>4. Retrying' = {}
    BY DEF Retrying, CalmInv, CalmSocket, CalmFlow
  <1> QED BY <1>2, <1>3, <1>4, FS_EmptySet DEF Attempts

\* stop() on a connected client leaves no attempt to have a connection, and a
\* stopped client that makes none makes none until logIn() is called.
FinalStep ==
    /\ Stop /\ ~stopped /\ connected => Attempts' = 0
    /\ stopped /\ Attempts = 0
         => Attempts' = 0 \/ \E k \in Socket, c \in Cookie : LogIn(k, c)

LEMMA CalmStopStep ==
    ASSUME ClientInv, ClientInv', VerdictInv, CalmInv, CalmInv', ClosesAtStop, ClientNext
    PROVE  FinalStep
  <1>1. Stop /\ ~stopped /\ connected => Attempts' = 0
    BY CalmStopEnds
  <1>2. ASSUME stopped, Attempts = 0, ~(\E k \in Socket, c \in Cookie : LogIn(k, c))
        PROVE  Attempts' = 0
    <2>1. Attempts' <= 0
      BY <1>2, StoppedAddsNone
    <2>2. Attempts' \in Nat
      BY SocketsFiniteNext DEF Attempts, ClientInv, ClientTypeOK
    <2> QED BY <2>1, <2>2
  <1> QED BY <1>1, <1>2 DEF FinalStep

\* stop() is final for a calm client.
THEOREM StopEndsAll == ASSUME Calm PROVE ClientSpec => StopIsFinal
  <1> DEFINE Inv == ClientInv /\ VerdictInv /\ CalmInv /\ ClosesAtStop
  <1>1. ClientInit => Inv
    BY ClientInvInit, VerdictInvInit, CalmInvInit DEF ClosesAtStop, ClientInit
  <1>2. Inv /\ [ClientNext]_clientVars => Inv'
    BY ClientInvNext, VerdictInvNext, CalmInvNext, ClosesAtStopNext
  <1>3. Inv /\ [ClientNext]_clientVars => [FinalStep]_clientVars
    BY <1>2, CalmStopStep
  <1> QED BY <1>1, <1>2, <1>3, PTL DEF ClientSpec, StopIsFinal, FinalStep

==============================================================================
