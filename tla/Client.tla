------------------------------- MODULE Client --------------------------------
(***************************************************************************)
(* A howler client (src/src/client/client.js) and the connections it makes.*)
(*                                                                         *)
(* Every call of _connect makes one socket.io socket with io(), and one    *)
(* chain of awaits that goes through the steps of _connect with it: both   *)
(* are numbered alike, in the order they are made.  this._socket is the    *)
(* number of the last one: code that runs after an await uses the socket   *)
(* that is current by then, which need not be the one it made.             *)
(*                                                                         *)
(* An action is one run of a callback, or of a call of the user, up to its *)
(* next await.  External, and modelled by what client.js relies on:        *)
(*  - socket.io: a socket whose transport is lost is connected again by    *)
(*    its manager, or is not ("unfortunately, socket.io doesn't reconnect  *)
(*    in these cases", client.js:83-85); one that either side disconnects  *)
(*    is not; disconnect() runs the disconnect listeners before it         *)
(*    returns; an acknowledgement that is outstanding when the connection  *)
(*    is lost never comes;                                                 *)
(*  - the server: it accepts or refuses each connection, ignores what it   *)
(*    is sent before that, and answers the rest in the order of arrival.   *)
(* A socket created by io() is a new connection even when another one to   *)
(* the same URL is alive (the namespace is the same).                      *)
(***************************************************************************)
EXTENDS Naturals, Sequences, FiniteSets

CONSTANTS
    DB,             \* names of databases
    Cookie,         \* session cookies
    NoCookie,       \* the absence of a cookie
    MaxSockets,     \* bound: sockets the client ever makes
    MaxDrops,       \* bound: transports lost
    MaxTimeouts,    \* bound: heartbeats found overdue
    MaxExpired,     \* bound: cookies the server refuses
    MaxRequests,    \* bound: requests in flight per socket
    AfterLoss,      \* what may become of a socket whose transport is lost:
                    \* "down" (it will be connected again) or "lost" (it will not)
    Patient         \* the user logs in only when nothing else is going on

ASSUME ClientAssumption ==
    /\ NoCookie \notin Cookie
    /\ MaxSockets \in Nat /\ MaxRequests \in Nat
    /\ MaxDrops \in Nat /\ MaxTimeouts \in Nat /\ MaxExpired \in Nat
    /\ AfterLoss \subseteq {"down", "lost"}
    /\ Patient \in BOOLEAN

VARIABLES
    session,            \* the cookie of the session store
    subscribedToDBs,    \* _subscribedToDBs
    connected,          \* _connected
    ready,              \* _ready
    stopped,            \* _stopped
    disconnectingSocket,\* _disconnectingSocket
    heartbeatChecker,   \* is the interval timer _heartbeatChecker running?
    answered,           \* was the last heartbeat answered (_lastHeartbeatAt)?
    socket,             \* _socket, 0 when undefined
    lookups,            \* _connectIfCookie calls that wait for the session
    loggingOut,         \* logOut calls that wait for the session to be cleared
    conn,               \* per socket: its connection, and who listens to it
    flow,               \* per socket: where the _connect that made it is
    queue,              \* per socket: requests the server will answer
    drops, timeouts, expired    \* counted for the bounds

status == <<connected, ready, heartbeatChecker, answered>>
flags == <<stopped, disconnectingSocket>>
counters == <<drops, timeouts, expired>>
clientVars == <<session, subscribedToDBs, status, flags, socket, lookups,
                loggingOut, conn, flow, queue, counters>>

Socket == 1..MaxSockets

Request ==
    [type : {"subscribe", "unsubscribe", "heartbeat", "log-out"},
     dbNames : SUBSET DB]
    \cup [type : {"resubscribe"}, dbNames : SUBSET DB, flows : SUBSET Socket]

Conn == [link : {"unused", "connecting", "open", "down", "lost", "closed"},
         verdict : {"none", "asked", "accepted", "refused", "left"},
         admitted : BOOLEAN,        \* history: has the server ever accepted it?
         subs : SUBSET DB,          \* the server's subscriptions of the socket
         onDisconnect : Nat,        \* disconnect, and change, listeners
         onAuthenticated : BOOLEAN] \* is there an authenticated listener?

NoFlow == [state |-> "none", kind |-> "cookie", cookie |-> NoCookie, via |-> 0]

Flow == {NoFlow} \cup
        [state : {"connecting", "authenticating", "resubscribing", "storing",
                  "retrying", "done", "failed"},
         kind : {"cookie", "logIn"},
         cookie : Cookie,
         via : 0..MaxSockets]       \* the socket it awaits a verdict on

ClientTypeOK ==
    /\ session \in Cookie \cup {NoCookie}
    /\ subscribedToDBs \in SUBSET DB
    /\ connected \in BOOLEAN /\ ready \in BOOLEAN
    /\ heartbeatChecker \in BOOLEAN /\ answered \in BOOLEAN
    /\ stopped \in BOOLEAN /\ disconnectingSocket \in BOOLEAN
    /\ socket \in 0..MaxSockets
    /\ lookups \in Nat /\ loggingOut \in Nat
    /\ conn \in [Socket -> Conn]
    /\ flow \in [Socket -> Flow]
    /\ queue \in [Socket -> Seq(Request)]
    /\ drops \in 0..MaxDrops
    /\ timeouts \in 0..MaxTimeouts
    /\ expired \in 0..MaxExpired

\* The constructor calls _connectIfCookie: the store may hold a cookie.
ClientInit ==
    /\ session \in Cookie \cup {NoCookie}
    /\ subscribedToDBs = {}
    /\ connected = FALSE /\ ready = FALSE
    /\ heartbeatChecker = FALSE /\ answered = FALSE
    /\ stopped = FALSE /\ disconnectingSocket = FALSE
    /\ socket = 0 /\ lookups = 1 /\ loggingOut = 0
    /\ conn = [k \in Socket |->
                 [link |-> "unused", verdict |-> "none", admitted |-> FALSE,
                  subs |-> {}, onDisconnect |-> 0, onAuthenticated |-> FALSE]]
    /\ flow = [k \in Socket |-> NoFlow]
    /\ queue = [k \in Socket |-> <<>>]
    /\ drops = 0 /\ timeouts = 0 /\ expired = 0

-----------------------------------------------------------------------------
(* Parts of several steps *)

\* _connect up to its first await: k is the next socket.
NewSocket(k) ==
    /\ conn[k].link = "unused"
    /\ \A j \in 1..(k - 1) : conn[j].link # "unused"
    /\ conn' = [conn EXCEPT ![k].link = "connecting"]
    /\ socket' = k

NewFlow(kind, cookie) ==
    [state |-> "connecting", kind |-> kind, cookie |-> cookie, via |-> 0]

\* The flows in F go on with the states that state gives them.
Moved(F, state) ==
    flow' = [k \in Socket |-> IF k \in F THEN [flow[k] EXCEPT !.state = state[k]]
                                         ELSE flow[k]]

\* Mutant: the client reconnects even if it was stopped.
ReconnectsAnyway(n) == lookups' = lookups + n

\* Mutant: to connect again is left to socket.io.
ReconnectsNever(n) == UNCHANGED lookups

\* n calls of _connectIfCookie from _disconnect.
Reconnects(n) == lookups' = IF stopped THEN lookups ELSE lookups + n

\* Mutant: the heartbeat is not stopped.
DisconnectedBeating(n) ==
    /\ Reconnects(n)
    /\ connected' = (connected /\ n = 0)
    /\ ready' = (ready /\ n = 0)
    /\ UNCHANGED heartbeatChecker

\* _disconnect(), n times in a row.
Disconnected(n) ==
    /\ Reconnects(n)
    /\ connected' = (connected /\ n = 0)
    /\ ready' = (ready /\ n = 0)
    /\ heartbeatChecker' = (heartbeatChecker /\ n = 0)

\* The connection of k ends: the server forgets it, no answer will come.
Ended(k, link) ==
    /\ conn' = [conn EXCEPT ![k].link = link, ![k].verdict = "none",
                            ![k].subs = {}]
    /\ queue' = [queue EXCEPT ![k] = <<>>]

\* _disconnectSocketIfConnected closes the current socket, once in the life
\* of the client: _disconnectingSocket is never reset.
ClosesSocket == connected /\ ~disconnectingSocket
CloseSocket ==
    /\ ClosesSocket
    /\ disconnectingSocket' = TRUE
    /\ Ended(socket, "closed")

\* How often the disconnect listeners of the socket run _disconnect then.
Heard ==
    IF ClosesSocket /\ conn[socket].link = "open"
    THEN conn[socket].onDisconnect ELSE 0

\* _emit on a connected client: r is sent on the current socket.  The server
\* ignores what comes before it has accepted the socket, and it may have
\* accepted it when the client does not know yet.  MaxRequests bounds the queue.
Send(r) ==
    LET c == conn'[socket]
    IN  \/ /\ c.link = "open" /\ c.verdict \in {"asked", "accepted"}
           /\ Len(queue[socket]) < MaxRequests
           /\ queue' = [queue EXCEPT ![socket] = Append(@, r)]
        \/ /\ c.link # "open" \/ c.verdict # "accepted"
           /\ UNCHANGED queue

\* _emit: it rejects when the client is not connected.
EmitIfConnected(type, dbNames) ==
    /\ UNCHANGED conn
    /\ \/ connected /\ Send([type |-> type, dbNames |-> dbNames])
       \/ ~connected /\ UNCHANGED queue

\* What follows the resubscription in _onConnect, and in _connect for the
\* flows in F: a log in stores its cookie next.  c is conn with the changes of
\* the step so far.
Ready(F, c) ==
    /\ ready' = TRUE
    /\ heartbeatChecker' = TRUE
    /\ answered' = TRUE
    /\ Moved(F, [k \in F |-> IF flow[k].kind = "logIn" THEN "storing" ELSE "done"])
    /\ conn' = [c EXCEPT ![socket].onAuthenticated = @ \/ F # {}]

-----------------------------------------------------------------------------
(* Connecting *)

\* Something is going on that can still change by itself.  (A flow that waits
\* for a socket that is lost waits for ever.)
Busy == \/ connected
        \/ lookups > 0
        \/ loggingOut > 0
        \/ \E k \in Socket : \/ conn[k].link \in {"connecting", "open", "down"}
                             \/ flow[k].state \in {"storing", "retrying"}

\* logIn(): the cookie is the one the server will hand out, or the one that
\* logIn was given.
LogIn(k, c) ==
    /\ Patient => ~Busy
    /\ NewSocket(k)
    /\ flow' = [flow EXCEPT ![k] = NewFlow("logIn", c)]
    /\ UNCHANGED <<session, subscribedToDBs, status, flags, lookups, loggingOut,
                   queue, counters>>

\* Mutant: _connectIfCookie connects without looking whether there is a cookie.
HasCookieAlways == TRUE

HasCookie == session # NoCookie

\* The session store answers _connectIfCookie.
LookUp(k) ==
    /\ lookups > 0
    /\ lookups' = lookups - 1
    /\ \/ /\ HasCookie
          /\ NewSocket(k)
          /\ flow' = [flow EXCEPT ![k] = NewFlow("cookie", session)]
       \/ ~HasCookie /\ UNCHANGED <<conn, socket, flow>>
    /\ UNCHANGED <<session, subscribedToDBs, status, flags, loggingOut, queue,
                   counters>>

\* The delay of the backoff is over: the same closure runs again.
Retry(j, k) ==
    /\ flow[j].state = "retrying"
    /\ NewSocket(k)
    /\ flow' = [flow EXCEPT ![j].state = "done",
                            ![k] = NewFlow("cookie", flow[j].cookie)]
    /\ UNCHANGED <<session, subscribedToDBs, status, flags, lookups, loggingOut,
                   queue, counters>>

\* Mutant: nobody listens for the disconnect event.
ListensUnheard(c) == c

\* _listenForChange and _listenForDisconnect, on the current socket.
Listens(c) == [c EXCEPT ![socket].onDisconnect = @ + 1]

\* k connects, for the first time or again: the server begins to authenticate
\* it.  The first time its flow goes on, with the socket that is current.
Opens(k) ==
    /\ conn[k].link \in {"connecting", "down"}
    /\ LET c == [conn EXCEPT ![k].link = "open", ![k].verdict = "asked"]
       IN  \/ /\ flow[k].state = "connecting"
              /\ conn' = Listens(c)
              /\ flow' = [flow EXCEPT ![k].state = "authenticating",
                                      ![k].via = socket]
           \/ /\ flow[k].state # "connecting"
              /\ conn' = c
              /\ UNCHANGED flow
    /\ UNCHANGED <<session, subscribedToDBs, status, flags, socket, lookups,
                   loggingOut, queue, counters>>

\* Mutant: a verdict is taken for the one of every socket.
AwaitingAny(k) == {j \in Socket : flow[j].state = "authenticating"}

\* The flows that await a verdict on k.
Awaiting(k) ==
    {j \in Socket : flow[j].state = "authenticating" /\ flow[j].via = k}

\* Mutant: the subscriptions are not sent again.
ResubscribesNever == FALSE

\* Does _resubscribe send anything?
Resubscribes == subscribedToDBs # {}

\* _onConnect, for the flows in F, or for the listener of a socket that is
\* connected again; c is conn with the changes of the step so far.  Several
\* of them send several equal requests, modelled as one.
OnConnect(F, c) ==
    /\ connected' = TRUE
    /\ \/ ~Resubscribes /\ Ready(F, c) /\ UNCHANGED queue
       \/ /\ Resubscribes
          /\ conn' = c
          /\ Send([type |-> "resubscribe", dbNames |-> subscribedToDBs, flows |-> F])
          /\ Moved(F, [j \in F |-> "resubscribing"])
          /\ UNCHANGED <<ready, heartbeatChecker, answered>>

\* An authenticated event.
Authenticated(k) ==
    /\ conn[k].verdict = "asked"
    /\ LET F == Awaiting(k)
           c == [conn EXCEPT ![k].verdict = "accepted", ![k].admitted = TRUE]
       IN  IF F # {} \/ conn[k].onAuthenticated
           THEN OnConnect(F, c)
           ELSE conn' = c /\ UNCHANGED <<status, flow, queue>>
    /\ UNCHANGED <<session, subscribedToDBs, flags, socket, lookups, loggingOut,
                   counters>>

\* Mutant: a log in connects with its cookie again once it is stored.
StoreConnects(k) ==
    /\ flow[k].state = "storing"
    /\ session' = flow[flow[k].via].cookie
    /\ Moved({k}, [j \in {k} |-> "done"])
    /\ lookups' = lookups + 1
    /\ UNCHANGED <<subscribedToDBs, status, flags, socket, loggingOut, conn,
                   queue, counters>>

\* The session store has stored the cookie that the server sent: logIn()
\* resolves.
Store(k) ==
    /\ flow[k].state = "storing"
    /\ session' = flow[flow[k].via].cookie
    /\ Moved({k}, [j \in {k} |-> "done"])
    /\ UNCHANGED <<subscribedToDBs, status, flags, socket, lookups, loggingOut,
                   conn, queue, counters>>

\* Mutant: a log in waits for the authenticated event only.
RefusedUnheard(f) ==
    IF f.kind = "logIn" THEN "authenticating"
    ELSE IF stopped THEN "done" ELSE "retrying"

\* Where a flow whose socket was refused goes: logIn() throws; a connection
\* with the stored cookie is retried later, unless the client was stopped.
Refused(f) ==
    IF f.kind = "logIn" THEN "failed" ELSE IF stopped THEN "done" ELSE "retrying"

\* A not-authenticated event.  CouchDB may refuse any log in, and MaxExpired
\* times a cookie.
NotAuthenticated(k) ==
    /\ conn[k].verdict = "asked"
    /\ \/ flow[k].kind = "logIn" /\ UNCHANGED expired
       \/ flow[k].kind = "cookie" /\ expired < MaxExpired /\ expired' = expired + 1
    /\ conn' = [conn EXCEPT ![k].verdict = "refused"]
    /\ queue' = [queue EXCEPT ![k] = <<>>]
    /\ Moved(Awaiting(k), [j \in Awaiting(k) |-> Refused(flow[j])])
    /\ UNCHANGED <<session, subscribedToDBs, status, flags, socket, lookups,
                   loggingOut, drops, timeouts>>

-----------------------------------------------------------------------------
(* Losing a connection *)

\* The server disconnects a socket it refused or that logged out: no
\* automatic reconnect of socket.io.
Kicked(k) ==
    /\ conn[k].verdict \in {"refused", "left"}
    /\ Ended(k, "closed")
    /\ Disconnected(conn[k].onDisconnect)
    /\ UNCHANGED <<session, subscribedToDBs, answered, flags, socket, loggingOut,
                   flow, counters>>

\* The transport is lost, or the server goes down: socket.io will connect the
\* socket again, or will not.
Dropped(k) ==
    /\ conn[k].link = "open"
    /\ drops < MaxDrops
    /\ drops' = drops + 1
    /\ \E l \in AfterLoss : Ended(k, l)
    /\ Disconnected(conn[k].onDisconnect)
    /\ UNCHANGED <<session, subscribedToDBs, answered, flags, socket, loggingOut,
                   flow, timeouts, expired>>

\* Mutant: the flag is set when the socket is closed, after the listeners ran.
StopFlagsLast ==
    /\ stopped' = TRUE
    /\ heartbeatChecker' = FALSE
    /\ \/ CloseSocket
       \/ ~ClosesSocket /\ UNCHANGED <<disconnectingSocket, conn, queue>>
    /\ lookups' = lookups + Heard
    /\ connected' = (connected /\ Heard = 0)
    /\ ready' = (ready /\ Heard = 0)
    /\ UNCHANGED <<session, subscribedToDBs, answered, socket, loggingOut, flow,
                   counters>>

\* stop(): the listeners that run see that the client is stopped.
Stop ==
    /\ stopped' = TRUE
    /\ heartbeatChecker' = FALSE
    /\ \/ CloseSocket
       \/ ~ClosesSocket /\ UNCHANGED <<disconnectingSocket, conn, queue>>
    /\ connected' = (connected /\ Heard = 0)
    /\ ready' = (ready /\ Heard = 0)
    /\ UNCHANGED <<session, subscribedToDBs, answered, socket, lookups,
                   loggingOut, flow, counters>>

-----------------------------------------------------------------------------
(* Heartbeats *)

\* The timer fires: _beat().
Tick ==
    /\ heartbeatChecker
    /\ answered' = FALSE
    /\ EmitIfConnected("heartbeat", {})
    /\ UNCHANGED <<session, subscribedToDBs, connected, ready, heartbeatChecker,
                   flags, socket, lookups, loggingOut, flow, counters>>

\* The timer fires and the last answer is too old: _reconnect closes the
\* socket, whose listeners run _disconnect, and runs _disconnect itself.
Reconnect ==
    /\ heartbeatChecker
    /\ ~answered
    /\ timeouts < MaxTimeouts
    /\ timeouts' = timeouts + 1
    /\ \/ CloseSocket
       \/ /\ ~ClosesSocket
          /\ EmitIfConnected("heartbeat", {})
          /\ UNCHANGED disconnectingSocket
    /\ Disconnected(Heard + 1)
    /\ UNCHANGED <<session, subscribedToDBs, answered, stopped, socket,
                   loggingOut, flow, drops, expired>>

-----------------------------------------------------------------------------
(* Requests *)

SubscribeCall(d) ==
    /\ EmitIfConnected("subscribe", {d})
    /\ subscribedToDBs' = subscribedToDBs \cup (IF connected THEN {} ELSE {d})
    /\ UNCHANGED <<session, status, flags, socket, lookups, loggingOut, flow,
                   counters>>

UnsubscribeCall(d) ==
    /\ EmitIfConnected("unsubscribe", {d})
    /\ subscribedToDBs' = subscribedToDBs \ (IF connected THEN {} ELSE {d})
    /\ UNCHANGED <<session, status, flags, socket, lookups, loggingOut, flow,
                   counters>>

\* logOut() clears the session, then, after an await, tells the server; one
\* call at a time bounds loggingOut.
LogOut ==
    /\ loggingOut = 0
    /\ session' = NoCookie
    /\ loggingOut' = 1
    /\ UNCHANGED <<subscribedToDBs, status, flags, socket, lookups, conn, flow,
                   queue, counters>>

EmitLogOut ==
    /\ loggingOut > 0
    /\ loggingOut' = loggingOut - 1
    /\ EmitIfConnected("log-out", {})
    /\ UNCHANGED <<session, subscribedToDBs, status, flags, socket, lookups, flow,
                   counters>>

\* What the server and then the client do with the request r on k, by type.
Effect(k, r) ==
    \/ /\ r.type = "resubscribe"
       /\ Ready(r.flows, [conn EXCEPT ![k].subs = @ \cup r.dbNames])
       /\ UNCHANGED subscribedToDBs
    \/ /\ r.type = "subscribe"
       /\ conn' = [conn EXCEPT ![k].subs = @ \cup r.dbNames]
       /\ subscribedToDBs' = subscribedToDBs \cup r.dbNames
       /\ UNCHANGED <<ready, heartbeatChecker, answered, flow>>
    \/ /\ r.type = "unsubscribe"
       /\ conn' = [conn EXCEPT ![k].subs = @ \ r.dbNames]
       /\ subscribedToDBs' = subscribedToDBs \ r.dbNames
       /\ UNCHANGED <<ready, heartbeatChecker, answered, flow>>
    \/ /\ r.type = "heartbeat"
       /\ answered' = TRUE
       /\ UNCHANGED <<subscribedToDBs, ready, heartbeatChecker, conn, flow>>
    \/ /\ r.type = "log-out"
       /\ conn' = [conn EXCEPT ![k].verdict = "left", ![k].subs = {}]
       /\ UNCHANGED <<subscribedToDBs, ready, heartbeatChecker, answered, flow>>

\* The server handles the oldest request on k, and the client its answer; what
\* follows a log-out is never answered.
Answer(k) ==
    /\ conn[k].verdict = "accepted"
    /\ queue[k] # <<>>
    /\ Effect(k, Head(queue[k]))
    /\ queue' = [queue EXCEPT ![k] =
                   IF Head(@).type = "log-out" THEN <<>> ELSE Tail(@)]
    /\ UNCHANGED <<session, connected, flags, socket, lookups, loggingOut,
                   counters>>

-----------------------------------------------------------------------------

ClientNext ==
    \/ \E k \in Socket, c \in Cookie : LogIn(k, c)
    \/ \E k \in Socket : LookUp(k)
    \/ \E j, k \in Socket : Retry(j, k)
    \/ \E k \in Socket : Opens(k)
    \/ \E k \in Socket : Authenticated(k)
    \/ \E k \in Socket : NotAuthenticated(k)
    \/ \E k \in Socket : Store(k)
    \/ \E k \in Socket : Kicked(k)
    \/ \E k \in Socket : Dropped(k)
    \/ \E k \in Socket : Answer(k)
    \/ \E d \in DB : SubscribeCall(d)
    \/ \E d \in DB : UnsubscribeCall(d)
    \/ LogOut
    \/ EmitLogOut
    \/ Stop
    \/ Tick
    \/ Reconnect

ClientSpec == ClientInit /\ [][ClientNext]_clientVars

\* What is under way goes on, as long as the bounds allow: connections are made,
\* the server answers, the session store answers.  Nobody has to call anything.
Verdict(k) == Authenticated(k) \/ NotAuthenticated(k)

FairClientSpec ==
    /\ ClientSpec
    /\ \A k \in Socket : /\ WF_clientVars(LookUp(k))
                         /\ WF_clientVars(Opens(k))
                         /\ WF_clientVars(Verdict(k))
                         /\ WF_clientVars(Store(k))
                         /\ WF_clientVars(Kicked(k))
                         /\ WF_clientVars(Answer(k))
    /\ WF_clientVars(EmitLogOut)

-----------------------------------------------------------------------------
(* Properties that hold whatever happens *)

\* The heartbeat of _startHeartbeatChecker runs only while the client is
\* ready, and runs whenever the client is ready and was not stopped, however
\* connections come and go.  (It may run after stop(): _onConnect starts it
\* for a connection that was being made.)
HeartbeatWhileReady ==
    /\ heartbeatChecker => ready
    /\ ready /\ ~stopped => heartbeatChecker

\* What the client does, or will do by itself, to have a connection: sockets
\* that are or will be connected, cookies it looks up, retries it waits for.
InUse == {k \in Socket : conn[k].link \in {"connecting", "open", "down"}}
Retrying == {k \in Socket : flow[k].state = "retrying"}
Attempts == lookups + Cardinality(InUse) + Cardinality(Retrying)

\* stop() only winds down: what was under way may go on (a cookie that is
\* looked up, a retry that is due and a socket that connects still make, or
\* become, one connection), but nothing that happens later, lost and refused
\* connections and overdue heartbeats included, starts another attempt.  Only
\* a call of logIn() does.
StopAddsNothing ==
    [][stopped /\ ~(\E k \in Socket, c \in Cookie : LogIn(k, c))
       => Attempts' <= Attempts]_clientVars

\* However calls and connections overlap, nothing goes on past an
\* authentication that never succeeded: what resubscribes, what stores a cookie
\* and each logIn() that has resolved took its verdict from a connection that
\* the server has accepted ("should throw when log in fails",
\* test/spec/client/client.js:56).  It need not be the connection that the call
\* made: see OwnVerdict.
GoesByVerdict ==
    \A k \in Socket :
        (\/ flow[k].state \in {"resubscribing", "storing"}
         \/ flow[k].kind = "logIn" /\ flow[k].state = "done")
        => flow[k].via \in Socket /\ conn[flow[k].via].admitted

-----------------------------------------------------------------------------
(* Properties of a calm run: no cookie expires, the server answers every     *)
(* heartbeat in time, socket.io leaves a socket whose transport is lost to   *)
(* _disconnect, and the user waits for the end of what is going on before a  *)
(* log in.                                                                   *)

\* A client has one open connection at most ("a single web socket
\* connection", README.md:11).
SingleConnection ==
    Cardinality({k \in Socket : conn[k].link = "open"}) <= 1

\* isConnected(), and with it readiness, is never a left-over: while it says
\* yes, the current socket has an open connection that the server has accepted.
ConnectedIsReal ==
    /\ connected => conn[socket].verdict \in {"accepted", "left"}
    /\ ready => connected

\* stop() on a connected client ends every attempt to have a connection in the
\* same call, the one that its own disconnect event would begin included, and
\* a stopped client that has come to rest stays at rest until logIn().
StopIsFinal ==
    [][/\ Stop /\ ~stopped /\ connected => Attempts' = 0
       /\ stopped /\ Attempts = 0
          => Attempts' = 0 \/ \E k \in Socket, c \in Cookie : LogIn(k, c)]_clientVars

\* Once the client is ready and no answer is due, the server notifies the
\* client of the databases in _subscribedToDBs and of no other: those it
\* subscribed to offline, online, while connecting or before a log out.
SubscriptionsInSync ==
    (/\ ready
     /\ conn[socket].verdict = "accepted"
     /\ queue[socket] = <<>>)
    => conn[socket].subs = subscribedToDBs

\* A promise returned by logIn() is settled at last, unless stop() is called or
\* the connection is lost before the server has answered.
LogInSettles ==
    \A k \in Socket :
        flow[k].kind = "logIn"
        ~> (flow[k].state \in {"done", "failed"} \/ stopped \/ conn[k].link = "lost")

\* Each subscription reaches the server, over the connections that are lost
\* meanwhile, as long as the client is accepted or has a cookie to connect with
\* ("the client will automatically send the subscriptions to the server when a
\* connection is established", README.md:107).
Accepted(k) == conn[k].verdict = "accepted"
SubscriptionsArrive ==
    \A d \in DB :
        (d \in subscribedToDBs /\ (lookups > 0 \/ \E k \in Socket : Accepted(k)))
        ~> (\/ \E k \in Socket : d \in conn[k].subs
            \/ session = NoCookie /\ \A k \in Socket : ~Accepted(k)
            \/ d \notin subscribedToDBs
            \/ stopped
            \/ \A k \in Socket : conn[k].link # "unused")

-----------------------------------------------------------------------------
(* Properties that the code does not have *)

\* logIn() goes on past the authentication only if the server accepted the
\* very connection that carries its credentials ("should throw when log in
\* fails", test/spec/client/client.js:56).
OwnVerdict ==
    [][\A k \in Socket :
         (/\ flow[k].kind = "logIn"
          /\ flow[k].state = "authenticating"
          /\ flow'[k].state \in {"resubscribing", "storing", "done"})
         => conn'[k].verdict = "accepted"]_clientVars

\* A connection without credentials of the user uses the cookie of the session
\* ("will automatically use this cached cookie until you issue
\* client.logOut()", README.md:105).
CookieUntilLogOut ==
    [][\A k \in Socket :
         (flow[k] = NoFlow /\ flow'[k] # NoFlow /\ flow'[k].kind = "cookie")
         => flow'[k].cookie = session]_clientVars

\* When the heartbeat is overdue the connection is closed ("Force reconnect as
\* the connection has probably hung", client.js:292).
ForcedReconnectCloses ==
    [][Reconnect /\ ~stopped => conn'[socket].link # "open"]_clientVars

\* When logOut() goes on to tell the server, the session is cleared, whether the
\* server will hear of it or not ("We clear the session first as we want the
\* session cleared even if the log out fails", client.js:237): nothing that was
\* under way stores a cookie meanwhile.
LogOutClears ==
    [][loggingOut > 0 => session' = NoCookie]_clientVars

\* A client that is stopped before it has connected, and that never called
\* logIn(), does not connect by itself ("should stop before connecting",
\* test/spec/client/client.js:43).
NeverLoggedIn == \A k \in Socket : flow[k].kind = "cookie"
StopBeforeConnecting ==
    [][stopped /\ ~connected /\ NeverLoggedIn => ~connected']_clientVars

==============================================================================
