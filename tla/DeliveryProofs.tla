--------------------------- MODULE DeliveryProofs ----------------------------
(***************************************************************************)
(* A howler client and its server implement Delivery, for every number of  *)
(* connections, calls and databases.                                       *)
(*                                                                         *)
(* What the application may and must be told is what the client noted and  *)
(* what it waits for an answer about; what it is told is what the server   *)
(* has in its registry.  The two differ by the requests and the answers    *)
(* that are under way, and so DeliveryInv, the inductive invariant, is     *)
(* about the channels: each request and each answer is that of one pending *)
(* call, and what the server answered holds until it answers the opposite, *)
(* behind the answer that the client has not read.                         *)
(***************************************************************************)
EXTENDS HowlerProofs, WellFoundedInduction

-----------------------------------------------------------------------------
(* The changes among the packets of a channel.  Facts about Changes are    *)
(* proved by the least number of packets that would refute them.           *)

\* A set of naturals has a least element, unless it is empty.
LEMMA NatMin ==
    ASSUME NEW T, T \subseteq Nat, T # {}
    PROVE  \E n \in T : \A m \in T : n <= m
  <1>1. PICK n \in T : \A m \in T : <<m, n>> \notin OpToRel(<, Nat)
    BY WFMin, NatLessThanWellFounded, Zenon
  <1>2. \A m \in T : ~(m < n)
    BY <1>1, Zenon DEF OpToRel
  <1> QED
    BY <1>2

\* g holds the changes among the first n packets, for each n up to m.
Counts(g, packets, m) ==
    g = [n \in 0..m |-> IF n = 0 THEN <<>>
                        ELSE IF packets[n].type = "change" THEN Append(g[n - 1], packets[n].db)
                        ELSE g[n - 1]]

\* There is such a function.
LEMMA CountsExist ==
    ASSUME NEW packets, NEW m \in Nat
    PROVE  \E g : Counts(g, packets, m)
  <1> DEFINE T == {n \in Nat : ~ \E g : Counts(g, packets, n)}
  <1>1. SUFFICES ASSUME T # {} PROVE FALSE
    OBVIOUS
  <1>2. PICK n \in T : \A k \in T : n <= k
    BY <1>1, NatMin
  <1>3. n # 0
    <2> DEFINE g == [k \in 0..0 |-> <<>>]
    <2>1. Counts(g, packets, 0)
      BY DEF Counts
    <2> QED
      BY <2>1
  <1>4. n - 1 \in Nat /\ n - 1 \notin T
    BY <1>2, <1>3
  <1>5. PICK g : Counts(g, packets, n - 1)
    BY <1>4
  <1> DEFINE h == [k \in 0..n |-> IF k < n THEN g[k]
                                  ELSE IF packets[n].type = "change"
                                  THEN Append(g[n - 1], packets[n].db) ELSE g[n - 1]]
  <1>6. Counts(h, packets, n)
    <2>1. \A k \in 0..(n - 1) :
            g[k] = IF k = 0 THEN <<>>
                   ELSE IF packets[k].type = "change" THEN Append(g[k - 1], packets[k].db)
                   ELSE g[k - 1]
      BY <1>4, <1>5 DEF Counts
    <2>2. \A k \in 0..n :
            h[k] = IF k = 0 THEN <<>>
                   ELSE IF packets[k].type = "change" THEN Append(h[k - 1], packets[k].db)
                   ELSE h[k - 1]
      BY <1>3, <2>1
    <2>3. h = [k \in 0..n |-> h[k]]
      OBVIOUS
    <2> HIDE DEF h
    <2> QED
      BY <2>2, <2>3 DEF Counts
  <1> QED
    BY <1>6

\* ChangesUpTo is one.
LEMMA ChangesUpToDef ==
    ASSUME NEW packets \in Seq(Packet)
    PROVE  /\ ChangesUpTo(packets)[0] = <<>>
           /\ \A n \in 1..Len(packets) :
                ChangesUpTo(packets)[n] =
                  IF packets[n].type = "change"
                  THEN Append(ChangesUpTo(packets)[n - 1], packets[n].db)
                  ELSE ChangesUpTo(packets)[n - 1]
  <1> DEFINE g == ChangesUpTo(packets)
  <1>1. \E h : Counts(h, packets, Len(packets))
    <2>1. Len(packets) \in Nat
      OBVIOUS
    <2> QED
      BY <2>1, CountsExist
  <1>2. Counts(CHOOSE h : Counts(h, packets, Len(packets)), packets, Len(packets))
    BY <1>1, Zenon
  <1>3. g = CHOOSE h : Counts(h, packets, Len(packets))
    BY Zenon DEF ChangesUpTo, Counts
  <1> HIDE DEF g
  <1>4. Counts(g, packets, Len(packets))
    BY <1>2, <1>3
  <1>5. \A n \in 0..Len(packets) :
          g[n] = IF n = 0 THEN <<>>
                 ELSE IF packets[n].type = "change" THEN Append(g[n - 1], packets[n].db)
                 ELSE g[n - 1]
    BY <1>4 DEF Counts
  <1>6. g[0] = <<>> /\ \A n \in 1..Len(packets) :
          g[n] = IF packets[n].type = "change" THEN Append(g[n - 1], packets[n].db)
                 ELSE g[n - 1]
    BY <1>5
  <1> QED
    BY <1>6 DEF g

\* A packet that is a change names a database.
LEMMA ChangeNames ==
    ASSUME NEW p \in Packet, p.type = "change"
    PROVE  p.db \in DB
  BY DEF Packet

\* The changes are databases that packets name.
LEMMA ChangesUpToNamed ==
    ASSUME NEW packets \in Seq(Packet), NEW n \in 0..Len(packets)
    PROVE  /\ ChangesUpTo(packets)[n] \in Seq(DB)
           /\ \A i \in DOMAIN ChangesUpTo(packets)[n] :
                \E j \in DOMAIN packets :
                    packets[j].type = "change" /\ packets[j].db = ChangesUpTo(packets)[n][i]
  <1> DEFINE g == ChangesUpTo(packets)
             Named(k) == /\ g[k] \in Seq(DB)
                         /\ \A i \in DOMAIN g[k] :
                              \E j \in DOMAIN packets :
                                 packets[j].type = "change" /\ packets[j].db = g[k][i]
             T == {k \in 0..Len(packets) : ~Named(k)}
  <1>1. SUFFICES ASSUME T # {} PROVE FALSE
    OBVIOUS
  <1>2. PICK k \in T : \A m \in T : k <= m
    <2>1. T \subseteq Nat
      OBVIOUS
    <2> HIDE DEF T
    <2> QED
      BY <1>1, <2>1, NatMin
  <1>3. g[0] = <<>> /\ \A m \in 1..Len(packets) :
          g[m] = IF packets[m].type = "change" THEN Append(g[m - 1], packets[m].db)
                 ELSE g[m - 1]
    BY ChangesUpToDef
  <1> HIDE DEF g
  <1>4. k # 0
    <2>1. <<>> \in Seq(DB) /\ DOMAIN <<>> = {}
      OBVIOUS
    <2>2. Named(0)
      BY <1>3, <2>1
    <2> QED
      BY <2>2
  <1>5. k \in 1..Len(packets) /\ k - 1 \in 0..Len(packets) /\ k - 1 \notin T
    BY <1>2, <1>4
  <1>6. Named(k - 1)
    BY <1>5
  <1>7. CASE packets[k].type = "change"
    <2>1. g[k] = Append(g[k - 1], packets[k].db) /\ packets[k].db \in DB
      <3>1. packets[k] \in Packet
        BY <1>5
      <3>2. packets[k].db \in DB
        BY <1>7, <3>1, ChangeNames
      <3>3. g[k] = Append(g[k - 1], packets[k].db)
        BY <1>3, <1>5, <1>7
      <3> QED
        BY <3>2, <3>3
    <2>2. g[k] \in Seq(DB)
      BY <1>6, <2>1
    <2>3. ASSUME NEW i \in DOMAIN g[k]
          PROVE  \E j \in DOMAIN packets : packets[j].type = "change" /\ packets[j].db = g[k][i]
      <3>1. CASE i \in DOMAIN g[k - 1]
        BY <1>6, <2>1, <3>1
      <3>2. CASE i \notin DOMAIN g[k - 1]
        <4>1. g[k][i] = packets[k].db
          BY <1>6, <2>1, <2>3, <3>2
        <4> QED
          BY <1>5, <1>7, <4>1
      <3> QED
        BY <3>1, <3>2
    <2> QED
      BY <2>2, <2>3
  <1>8. CASE packets[k].type # "change"
    <2>1. g[k] = g[k - 1]
      BY <1>3, <1>5, <1>8
    <2> QED
      BY <1>6, <2>1
  <1> QED
    BY <1>7, <1>8

\* The same of all of them.
LEMMA ChangesNamed ==
    ASSUME NEW packets \in Seq(Packet)
    PROVE  /\ Changes(packets) \in Seq(DB)
           /\ \A i \in DOMAIN Changes(packets) :
                \E j \in DOMAIN packets :
                    packets[j].type = "change" /\ packets[j].db = Changes(packets)[i]
  BY ChangesUpToNamed DEF Changes

\* An empty channel has none.
LEMMA NoChanges == Changes(<<>>) = <<>>
  <1>1. <<>> \in Seq(Packet) /\ Len(<<>>) = 0
    OBVIOUS
  <1> QED
    BY <1>1, ChangesUpToDef DEF Changes

\* One packet more, at the end.
LEMMA ChangesAppend ==
    ASSUME NEW packets \in Seq(Packet), NEW p \in Packet
    PROVE  Changes(Append(packets, p)) =
             IF p.type = "change" THEN Append(Changes(packets), p.db) ELSE Changes(packets)
  <1> DEFINE more == Append(packets, p)
             g == ChangesUpTo(packets)
             h == ChangesUpTo(more)
             T == {k \in 0..Len(packets) : g[k] # h[k]}
  <1>1. /\ more \in Seq(Packet) /\ Len(more) = Len(packets) + 1
        /\ more[Len(more)] = p
        /\ \A i \in 1..Len(packets) : more[i] = packets[i]
    OBVIOUS
  <1>2. g[0] = <<>> /\ \A m \in 1..Len(packets) :
          g[m] = IF packets[m].type = "change" THEN Append(g[m - 1], packets[m].db)
                 ELSE g[m - 1]
    BY ChangesUpToDef
  <1> HIDE DEF more
  <1>3. h[0] = <<>> /\ \A m \in 1..Len(more) :
          h[m] = IF more[m].type = "change" THEN Append(h[m - 1], more[m].db)
                 ELSE h[m - 1]
    BY <1>1, ChangesUpToDef
  <1> HIDE DEF g, h
  <1>4. T = {}
    <2>1. SUFFICES ASSUME T # {} PROVE FALSE
      OBVIOUS
    <2>2. PICK k \in T : \A m \in T : k <= m
      <3>1. T \subseteq Nat
        OBVIOUS
      <3> HIDE DEF T
      <3> QED
        BY <2>1, <3>1, NatMin
    <2>3. k # 0
      BY <1>2, <1>3
    <2>4. k \in 1..Len(packets) /\ k \in 1..Len(more) /\ k - 1 \in 0..Len(packets)
          /\ k - 1 \notin T
      BY <1>1, <2>2, <2>3
    <2>5. g[k - 1] = h[k - 1] /\ more[k] = packets[k]
      BY <1>1, <2>4
    <2> QED
      BY <1>2, <1>3, <2>4, <2>5
  <1>5. g[Len(packets)] = h[Len(more) - 1]
    BY <1>1, <1>4
  <1>6. Len(more) \in 1..Len(more)
    BY <1>1
  <1>7. h[Len(more)] = IF p.type = "change" THEN Append(g[Len(packets)], p.db)
                       ELSE g[Len(packets)]
    BY <1>1, <1>3, <1>5, <1>6
  <1> QED
    BY <1>7 DEF Changes, g, h, more

\* One packet less, at the front.
LEMMA ChangesTail ==
    ASSUME NEW packets \in Seq(Packet), packets # <<>>
    PROVE  IF Head(packets).type = "change"
           THEN Changes(packets) # <<>> /\ Tail(Changes(packets)) = Changes(Tail(packets))
           ELSE Changes(Tail(packets)) = Changes(packets)
  <1> DEFINE p == Head(packets)
             rest == Tail(packets)
             g == ChangesUpTo(packets)
             h == ChangesUpTo(rest)
             Cons(q) == IF p.type = "change" THEN <<p.db>> \o q ELSE q
             T == {k \in 0..Len(rest) : g[k + 1] # Cons(h[k])}
  <1>1. /\ rest \in Seq(Packet) /\ Len(packets) = Len(rest) + 1
        /\ p \in Packet /\ packets[1] = p
        /\ \A i \in 1..Len(rest) : packets[i + 1] = rest[i] /\ rest[i] \in Packet
    OBVIOUS
  <1>2. g[0] = <<>> /\ \A m \in 1..Len(packets) :
          g[m] = IF packets[m].type = "change" THEN Append(g[m - 1], packets[m].db)
                 ELSE g[m - 1]
    BY ChangesUpToDef
  <1> HIDE DEF rest, p
  <1>3. h[0] = <<>> /\ \A m \in 1..Len(rest) :
          h[m] = IF rest[m].type = "change" THEN Append(h[m - 1], rest[m].db)
                 ELSE h[m - 1]
    BY <1>1, ChangesUpToDef
  <1>4. \A k \in 0..Len(rest) : h[k] \in Seq(DB)
    BY <1>1, ChangesUpToNamed
  <1>5. p.type = "change" => p.db \in DB
    BY <1>1, ChangeNames
  <1> HIDE DEF g, h
  <1>6. T = {}
    <2>1. SUFFICES ASSUME T # {} PROVE FALSE
      OBVIOUS
    <2>2. PICK k \in T : \A m \in T : k <= m
      <3>1. T \subseteq Nat
        OBVIOUS
      <3> HIDE DEF T
      <3> QED
        BY <2>1, <3>1, NatMin
    <2>3. k # 0
      <3>1. 1 \in 1..Len(packets) /\ 1 - 1 = 0
        BY <1>1
      <3>2. g[1] = IF p.type = "change" THEN Append(<<>>, p.db) ELSE <<>>
        BY <1>1, <1>2, <3>1
      <3>3. g[0 + 1] = Cons(h[0])
        BY <1>3, <3>2
      <3> QED
        BY <3>3
    <2>4. k \in 1..Len(rest) /\ k + 1 \in 1..Len(packets) /\ k - 1 \in 0..Len(rest)
          /\ k - 1 \notin T
      <3>1. Len(rest) \in Nat /\ k \in 0..Len(rest)
        BY <1>1, <2>2
      <3>2. k - 1 \notin T
        BY <2>2, <2>3, <3>1
      <3> HIDE DEF T
      <3> QED
        BY <1>1, <2>3, <3>1, <3>2
    <2>5. g[k] = Cons(h[k - 1]) /\ packets[k + 1] = rest[k] /\ rest[k] \in Packet
      <3>1. g[k - 1 + 1] = Cons(h[k - 1]) /\ k - 1 + 1 = k
        BY <2>4
      <3> QED
        BY <1>1, <2>4, <3>1
    <2>6. g[k + 1] = IF rest[k].type = "change" THEN Append(g[k], rest[k].db) ELSE g[k]
      <3>1. k + 1 - 1 = k
        BY <2>4
      <3> QED
        BY <1>2, <2>4, <2>5, <3>1
    <2>7. h[k] = IF rest[k].type = "change" THEN Append(h[k - 1], rest[k].db) ELSE h[k - 1]
      BY <1>3, <2>4
    <2>8. rest[k].type = "change" => rest[k].db \in DB
      BY <2>5, ChangeNames
    <2>9. h[k - 1] \in Seq(DB)
      BY <1>4, <2>4
    <2>10. g[k + 1] = Cons(h[k])
      <3>1. CASE rest[k].type # "change"
        BY <2>5, <2>6, <2>7, <3>1
      <3>2. CASE rest[k].type = "change" /\ p.type # "change"
        BY <2>5, <2>6, <2>7, <3>2
      <3>3. CASE rest[k].type = "change" /\ p.type = "change"
        <4>1. \A q \in Seq(DB), d, e \in DB :
                Append(<<d>> \o q, e) = <<d>> \o Append(q, e)
          OBVIOUS
        <4> QED
          BY <1>5, <2>5, <2>6, <2>7, <2>8, <2>9, <3>3, <4>1
      <3> QED
        BY <3>1, <3>2, <3>3
    <2> QED
      BY <2>2, <2>10
  <1>7. g[Len(packets)] = Cons(h[Len(rest)]) /\ h[Len(rest)] \in Seq(DB)
    BY <1>1, <1>4, <1>6
  <1>8. \A q \in Seq(DB), d \in DB : <<d>> \o q # <<>> /\ Tail(<<d>> \o q) = q
    OBVIOUS
  <1>9. CASE p.type = "change"
    <2>1. g[Len(packets)] # <<>> /\ Tail(g[Len(packets)]) = h[Len(rest)]
      BY <1>5, <1>7, <1>8, <1>9
    <2> QED
      BY <1>9, <2>1 DEF Changes, g, h, rest, p
  <1>10. CASE p.type # "change"
    BY <1>7, <1>10 DEF Changes, g, h, rest, p
  <1> QED
    BY <1>9, <1>10 DEF p

-----------------------------------------------------------------------------
(* What a client and its server know of each other *)

\* The databases that the server notifies the client's last connection of.
Served == Subs[current]

\* What a packet says: an answer, a change of d, the answer to a pending call
\* of this type that names d.
IsAck(p) == p.type = "ack"
IsChange(p, d) == p.type = "change" /\ p.db = d
Answers(p, type, d) ==
    /\ IsAck(p) /\ p.id \in Call
    /\ calls[p.id].type = type /\ d \in calls[p.id].dbNames
IsResubscribed(p) == IsAck(p) /\ p.id = Resubscription

\* Nothing is written to a connection before the verdict, which the client
\* that is connected has read; a disconnect is the last packet.
QuietBeforeVerdict ==
    current \in Socket /\ auth[current] = "pending" => toClient = <<>>
VerdictIsRead ==
    \A i \in DOMAIN toClient : IsAccepted(toClient[i]) => i = 1 /\ ~connected
DisconnectIsLast ==
    \A i \in DOMAIN toClient :
        toClient[i].type = "disconnect" => i = Len(toClient) /\ conn[current] = "closed"
LostIsEmpty == link # "up" => toClient = <<>>

\* Without a request there is no subscription, no answer and no change.
UnconnectedIsQuiet ==
    ~connected => /\ link = "up" => Served = {}
                  /\ \A i \in DOMAIN toClient : toClient[i].type \notin {"ack", "change"}
ReadyIsConnected == ready => connected

\* Requests and answers are those of calls pending on this connection, each
\* once; the resubscription is the first of them.
CallsAreMade ==
    \A id \in Call : calls[id] # Idle => conn[calls[id].at] # "unused"
RequestsAreCalls ==
    \A i \in DOMAIN toServer :
        LET r == toServer[i]
        IN  IF r.id = Resubscription
            THEN /\ i = 1 /\ r.type = "subscribe" /\ r.dbNames = subscribedToDBs
                 /\ \A j \in DOMAIN toClient : ~IsAck(toClient[j])
            ELSE calls[r.id] = [type |-> r.type, dbNames |-> r.dbNames, at |-> current]
AnswersAreCalls ==
    \A i \in DOMAIN toClient :
        IsAck(toClient[i]) =>
            /\ ~toClient[i].error
            /\ toClient[i].id \in Call => calls[toClient[i].id] # Idle
                                          /\ calls[toClient[i].id].at = current
OneAnswerEach ==
    /\ \A i, j \in DOMAIN toServer : toServer[i].id = toServer[j].id => i = j
    /\ \A i, j \in DOMAIN toClient :
         IsAck(toClient[i]) /\ IsAck(toClient[j]) /\ toClient[i].id = toClient[j].id
         => i = j
    /\ \A i \in DOMAIN toServer, j \in DOMAIN toClient :
         IsAck(toClient[j]) => toServer[i].id # toClient[j].id

\* What the server answered holds until it answers the opposite.
SubscribesHold ==
    ConnectedTo(current) =>
        \A d \in DB : \A i \in DOMAIN toClient :
            Answers(toClient[i], "subscribe", d)
            => \/ d \in Served
               \/ \E k \in DOMAIN toClient : k > i /\ Answers(toClient[k], "unsubscribe", d)
UnsubscribesHold ==
    \A d \in DB : \A i \in DOMAIN toClient :
        Answers(toClient[i], "unsubscribe", d)
        => /\ d \in Served =>
                \E k \in DOMAIN toClient : k > i /\ Answers(toClient[k], "subscribe", d)
           /\ \A j \in DOMAIN toClient :
                j > i /\ IsChange(toClient[j], d) =>
                    \E k \in DOMAIN toClient :
                        i < k /\ k < j /\ Answers(toClient[k], "subscribe", d)

\* The databases the application may be told of, those it unsubscribes from,
\* and those it must be told of: what ImplementsDelivery is about.
May == subscribedToDBs \cup Pending({"subscribe", "unsubscribe"})
Leaving == Pending({"unsubscribe"})
Must == IF ready /\ ConnectedTo(current) THEN subscribedToDBs \ Leaving ELSE {}

\* The server notifies of what the application may be told, and of all of what
\* it must be told.
MayIsKept ==
    /\ link = "up" => Served \subseteq May
    /\ \A d \in DB : \A i \in DOMAIN toClient : IsChange(toClient[i], d) => d \in May
MustIsKept ==
    /\ ConnectedTo(current)
    /\ ready \/ \E i \in DOMAIN toClient : IsResubscribed(toClient[i])
    => subscribedToDBs \ Leaving \subseteq Served

DeliveryInv ==
    /\ QuietBeforeVerdict
    /\ VerdictIsRead
    /\ DisconnectIsLast
    /\ LostIsEmpty
    /\ UnconnectedIsQuiet
    /\ ReadyIsConnected
    /\ CallsAreMade
    /\ RequestsAreCalls
    /\ AnswersAreCalls
    /\ OneAnswerEach
    /\ SubscribesHold
    /\ UnsubscribesHold
    /\ MayIsKept
    /\ MustIsKept

-----------------------------------------------------------------------------
(* What the steps of the server are to one of its sockets *)

\* A socket that was used is not used again.
LEMMA UsedStays ==
    ASSUME ServerInv, ServerNext, NEW s \in Socket, conn[s] # "unused"
    PROVE  conn'[s] # "unused"
  <1>t. conn \in [Socket -> {"unused", "open", "closed"}]
    BY DEF ServerInv, ServerTypeOK
  <1>1. CASE Start \/ Stop
    BY <1>1 DEF Start, Stop, socketVars, IoClosed
  <1>2. ASSUME NEW t \in Socket, NEW c \in Cookie \cup {NoCookie}, Connect(t, c)
        PROVE  conn'[s] # "unused"
    BY <1>2, <1>t DEF Connect
  <1>3. ASSUME NEW t \in Socket, CouchDBAnswers(t)
        PROVE  conn'[s] # "unused"
    BY <1>3, <1>t DEF CouchDBAnswers, AuthFails, AuthSucceeds, Hangup
  <1>4. ASSUME NEW t \in Socket, Hangs(t) \/ EndBatch(t)
        PROVE  conn'[s] # "unused"
    BY <1>4, <1>t DEF Hangs, EndBatch, Hangup
  <1>5. ASSUME NEW t \in Socket, NEW r \in Request, Handles(t, r)
        PROVE  conn'[s] # "unused"
    BY <1>5, <1>t DEF Handles, HandleSubscribe, HandleUnsubscribe, HandleHeartbeat,
       HandleLogOut, IgnoreRequest, Responds, Hangup
  <1>6. ASSUME NEW d \in DB, EmitChangeForDBName(d)
        PROVE  conn'[s] # "unused"
    BY <1>6 DEF EmitChangeForDBName, socketVars
  <1> QED
    BY <1>1, <1>2, <1>3, <1>4, <1>5, <1>6 DEF ServerNext

\* s is told nothing, and its connection and subscriptions stay, or both end.
Stays(s) ==
    /\ sent'[s] = <<>>
    /\ auth'[s] = "pending" => auth[s] = "pending"
    /\ \/ conn'[s] = conn[s] /\ Subs'[s] = Subs[s]
       \/ conn'[s] = "closed" /\ Subs'[s] = {}

\* The steps that are about another socket, or about none.
LEMMA StaysOtherwise ==
    ASSUME ServerInv, NEW s \in Socket,
           \/ Start \/ Stop
           \/ \E t \in Socket : EndBatch(t)
           \/ \E t \in Socket \ {s} : Hangs(t) \/ CouchDBAnswers(t)
    PROVE  Stays(s)
  <1>t. /\ conn \in [Socket -> {"unused", "open", "closed"}]
        /\ auth \in [Socket -> {"none", "pending", "done", "failed"}]
    BY DEF ServerInv, ServerTypeOK
  <1>s. Silent => sent'[s] = <<>>
    BY Written DEF Silent
  <1>1. CASE Start \/ \E t \in Socket : EndBatch(t)
    <2>1. UNCHANGED <<registryVars, conn, auth>> /\ Silent
      BY <1>1 DEF Start, EndBatch, socketVars
    <2> QED
      BY <1>s, <2>1, QuietMaps DEF Stays
  <1>2. CASE Stop
    <2>1. Subs'[s] = {} /\ Silent /\ auth' = auth
      BY <1>2, StopMaps DEF Stop
    <2>2. conn'[s] = IF conn[s] = "open" THEN "closed" ELSE conn[s]
      BY <1>2 DEF Stop, IoClosed
    <2>3. conn[s] # "open" => Subs[s] = {}
      BY DEF Subs, Live
    <2> QED
      BY <1>s, <2>1, <2>2, <2>3 DEF Stays
  <1>3. ASSUME NEW t \in Socket \ {s}, Hangup(t), UNCHANGED auth \/ AuthFails(t),
               sent'[s] = <<>>
        PROVE  Stays(s)
    <2>1. conn'[s] = conn[s]
      BY <1>3, <1>t DEF Hangup
    <2>2. auth'[s] = auth[s] /\ \A u \in Socket : Attached(u)' <=> Attached(u)
      BY <1>3, <1>t DEF AuthFails, Attached
    <2>3. Subs'[s] = Subs[s]
      BY <1>3, <2>2, HangupMaps
    <2> QED
      BY <1>3, <2>1, <2>2, <2>3 DEF Stays
  <1>4. ASSUME NEW t \in Socket \ {s}, Hangs(t)
        PROVE  Stays(s)
    BY <1>s, <1>3, <1>4 DEF Hangs
  <1>5. ASSUME NEW t \in Socket \ {s}, AuthFails(t)
        PROVE  Stays(s)
    <2>1. sent'[s] = <<>>
      BY <1>5, Written DEF AuthFails
    <2> QED
      BY <1>3, <1>5, <2>1 DEF AuthFails
  <1>6. ASSUME NEW t \in Socket \ {s}, NEW c \in Cookie, AuthSucceeds(t, c)
        PROVE  Stays(s)
    <2>1. sent'[s] = <<>>
      BY <1>6, Written DEF AuthSucceeds
    <2>2. conn'[s] = conn[s] /\ auth'[s] = auth[s]
      BY <1>6, <1>t DEF AuthSucceeds
    <2>3. Subs' = Subs
      BY <1>6, AuthSucceedsMaps
    <2> QED
      BY <2>1, <2>2, <2>3 DEF Stays
  <1> QED
    BY <1>1, <1>2, <1>4, <1>5, <1>6 DEF CouchDBAnswers

\* CouchDB answers about s.
LEMMA VerdictMaps ==
    ASSUME ServerInv, NEW s \in Socket, CouchDBAnswers(s)
    PROVE  /\ auth[s] = "pending" /\ auth'[s] \in {"done", "failed"}
           /\ Subs[s] = {} /\ Subs'[s] = {}
           /\ \/ sent'[s] = <<>> /\ conn'[s] = conn[s]
              \/ \E c \in Cookie : sent'[s] = <<Authenticated(c)>> /\ conn'[s] = conn[s]
              \/ sent'[s] = <<NotAuthenticated, Disconnect>> /\ conn'[s] = "closed"
  <1>t. /\ conn \in [Socket -> {"unused", "open", "closed"}]
        /\ auth \in [Socket -> {"none", "pending", "done", "failed"}]
    BY DEF ServerInv, ServerTypeOK
  <1>1. auth[s] = "pending" /\ Subs[s] = {}
    BY DEF CouchDBAnswers, AuthFails, AuthSucceeds, Subs, Live, Attached
  <1>2. CASE AuthFails(s)
    <2>1. auth'[s] = "failed" /\ conn'[s] = "closed"
      BY <1>2, <1>t DEF AuthFails, Hangup
    <2>2. Subs'[s] = {}
      BY <2>1 DEF Subs, Live
    <2>3. sent'[s] = IF conn[s] = "open" THEN <<NotAuthenticated, Disconnect>> ELSE <<>>
      BY <1>2 DEF AuthFails, Emit
    <2>4. conn[s] # "unused"
      BY <1>1 DEF ServerInv, UnusedAreFresh
    <2> QED
      BY <1>1, <1>t, <2>1, <2>2, <2>3, <2>4
  <1>3. ASSUME NEW c \in Cookie, AuthSucceeds(s, c)
        PROVE  /\ auth'[s] = "done" /\ Subs'[s] = {} /\ conn'[s] = conn[s]
               /\ sent'[s] \in {<<>>, <<Authenticated(c)>>}
    <2>1. auth'[s] = "done" /\ conn'[s] = conn[s]
      BY <1>3, <1>t DEF AuthSucceeds
    <2>2. Subs'[s] = {}
      BY <1>1, <1>3, AuthSucceedsMaps
    <2>3. sent'[s] \in {<<>>, <<Authenticated(c)>>}
      BY <1>3, Written DEF AuthSucceeds
    <2> QED
      BY <2>1, <2>2, <2>3
  <1> QED
    BY <1>1, <1>2, <1>3 DEF CouchDBAnswers

\* A request of a socket that is open is answered, without an error.
LEMMA RequestMaps ==
    ASSUME ServerInv, NEW s \in Socket, NEW r \in Request, Handles(s, r),
           Attached(s), conn[s] = "open"
    PROVE  /\ auth' = auth
           /\ \/ /\ r.type = "subscribe"
                 /\ sent'[s] = <<Ack(r, FALSE)>> /\ conn' = conn
                 /\ Subs'[s] = Subs[s] \cup r.dbNames
              \/ /\ r.type = "unsubscribe"
                 /\ sent'[s] = <<Ack(r, FALSE)>> /\ conn' = conn
                 /\ Subs'[s] = Subs[s] \ r.dbNames
              \/ r.type = "heartbeat"
              \/ /\ r.type = "log-out"
                 /\ sent'[s] = <<Ack(r, FALSE), Disconnect>> /\ conn'[s] = "closed"
                 /\ Subs'[s] = {}
  <1>t. /\ conn \in [Socket -> {"unused", "open", "closed"}]
        /\ sockets \in [DOMAIN sockets -> Entry]
    BY DEF ServerInv, ServerTypeOK, RegistryTypeOK
  <1>1. Registered(s) /\ Live(s) /\ sockets[s] \in Entry
    BY <1>t DEF Live, ServerInv, LiveAreRegistered, Registered
  <1>2. Subs[s] = sockets[s].dbNames
    BY <1>1 DEF Subs
  <1>3. auth' = auth
    BY DEF Handles, HandleSubscribe, HandleUnsubscribe, HandleHeartbeat, HandleLogOut,
       IgnoreRequest, Arrives
  <1>4. ASSUME Responds(s, r), Registered(s)',
               sockets'[s] = [sockets[s] EXCEPT !.dbNames = sockets'[s].dbNames]
        PROVE  /\ sent'[s] = <<Ack(r, FALSE)>> /\ conn' = conn
               /\ Subs'[s] = sockets'[s].dbNames
    <2>1. Throws(s, r.dbNames) = FALSE
      BY <1>1 DEF Throws
    <2>2. sent'[s] = <<Ack(r, FALSE)>> /\ conn' = conn
      BY <1>4, <2>1 DEF Responds, Emit
    <2>3. Live(s)'
      BY <1>1, <1>3, <2>2 DEF Live, Attached
    <2> QED
      BY <1>4, <2>2, <2>3 DEF Subs
  <1>5. CASE HandleSubscribe(s, r)
    <2>1. Subscribe(s, r.dbNames) /\ Responds(s, r) /\ r.type = "subscribe"
      BY <1>5 DEF HandleSubscribe, Arrives
    <2>2. sockets' = [sockets EXCEPT ![s].dbNames = @ \cup r.dbNames]
      BY <1>1, <2>1 DEF Subscribe
    <2>3. /\ Registered(s)' /\ sockets'[s].dbNames = sockets[s].dbNames \cup r.dbNames
          /\ sockets'[s] = [sockets[s] EXCEPT !.dbNames = sockets'[s].dbNames]
      BY <1>1, <2>2 DEF Registered, Entry
    <2> QED
      BY <1>2, <1>3, <1>4, <2>1, <2>3
  <1>6. CASE HandleUnsubscribe(s, r)
    <2>1. Unsubscribe(s, r.dbNames) /\ Responds(s, r) /\ r.type = "unsubscribe"
      BY <1>6 DEF HandleUnsubscribe, Arrives
    <2>2. sockets' = [sockets EXCEPT ![s].dbNames = @ \ r.dbNames]
      BY <1>1, <2>1 DEF Unsubscribe
    <2>3. /\ Registered(s)' /\ sockets'[s].dbNames = sockets[s].dbNames \ r.dbNames
          /\ sockets'[s] = [sockets[s] EXCEPT !.dbNames = sockets'[s].dbNames]
      BY <1>1, <2>2 DEF Registered, Entry
    <2> QED
      BY <1>2, <1>3, <1>4, <2>1, <2>3
  <1>7. CASE HandleLogOut(s, r)
    <2>1. r.type = "log-out" /\ Hangup(s) /\ Emit({s}, <<Ack(r, FALSE), Disconnect>>)
      BY <1>7 DEF HandleLogOut, Arrives
    <2>2. conn'[s] = "closed"
      BY <1>t, <2>1 DEF Hangup
    <2>3. sent'[s] = <<Ack(r, FALSE), Disconnect>>
      BY <2>1 DEF Emit
    <2>4. Subs'[s] = {}
      BY <2>2 DEF Subs, Live
    <2> QED
      BY <1>3, <2>1, <2>2, <2>3, <2>4
  <1>8. CASE HandleHeartbeat(s, r)
    BY <1>3, <1>8 DEF HandleHeartbeat, Arrives
  <1>9. ~IgnoreRequest(s, r)
    BY DEF IgnoreRequest
  <1> QED
    BY <1>5, <1>6, <1>7, <1>8, <1>9 DEF Handles

\* A request that is read after its socket was closed is not answered.
LEMMA LateRequestStays ==
    ASSUME ServerInv, NEW s \in Socket, NEW r \in Request, Handles(s, r),
           Attached(s), conn[s] # "open"
    PROVE  Stays(s)
  <1>t. conn \in [Socket -> {"unused", "open", "closed"}]
    BY DEF ServerInv, ServerTypeOK
  <1>1. draining[s] /\ conn[s] = "closed"
    BY DEF Handles, HandleSubscribe, HandleUnsubscribe, HandleHeartbeat, HandleLogOut,
       IgnoreRequest, Arrives, CanArrive, ServerInv, DrainingAreRemoved
  <1>2. auth' = auth
    BY DEF Handles, HandleSubscribe, HandleUnsubscribe, HandleHeartbeat, HandleLogOut,
       IgnoreRequest, Arrives
  <1>3. conn'[s] = "closed"
    BY <1>t, <1>1 DEF Handles, HandleSubscribe, HandleUnsubscribe, HandleHeartbeat,
       HandleLogOut, IgnoreRequest, Responds, Hangup
  <1>4. Subs'[s] = {}
    BY <1>3 DEF Subs, Live
  <1>5. sent'[s] = <<>>
    <2>1. \E packets : Emit({s}, packets) \/ Silent
      BY DEF Handles, HandleSubscribe, HandleUnsubscribe, HandleHeartbeat, HandleLogOut,
         IgnoreRequest, Responds
    <2> QED
      BY <2>1 DEF Emit, Silent
  <1> QED
    BY <1>2, <1>3, <1>4, <1>5 DEF Stays

\* A change of d is written to s if s is subscribed to it.
LEMMA PublishMaps ==
    ASSUME ServerInv, NEW s \in Socket, NEW d \in DB, EmitChangeForDBName(d)
    PROVE  /\ auth' = auth /\ conn' = conn /\ Subs' = Subs
           /\ sent'[s] = IF d \in Subs[s] THEN <<Change(d)>> ELSE <<>>
  <1>1. UNCHANGED <<registryVars, conn, auth>> /\ Emit(Subscribers(d), <<Change(d)>>)
    BY DEF EmitChangeForDBName, socketVars
  <1>2. s \in Subscribers(d) <=> d \in Subs[s]
    BY ServerInvImplies DEF OnlyLiveIndexed, ServerInv, IndexAgrees, LiveAreRegistered, Subs
  <1>3. s \in Subscribers(d) => conn[s] = "open"
    BY ServerInvImplies DEF OnlyLiveIndexed, Live
  <1> QED
    BY <1>1, <1>2, <1>3, QuietMaps DEF Emit

-----------------------------------------------------------------------------
(* Steps of the server preserve DeliveryInv *)

\* What HowlerInv says of the channels.
LEMMA Channels ==
    ASSUME HowlerInv
    PROVE  /\ toClient \in Seq(Packet) /\ toServer \in Seq(Request)
           /\ subscribedToDBs \in SUBSET DB
           /\ calls \in [Call -> {Idle} \cup PendingCall]
           /\ connected => current \in Socket /\ Attached(current) /\ link # "none"
           /\ toServer # <<>> => connected /\ link = "up"
           /\ link = "up" => current \in Socket
           /\ connected \in BOOLEAN /\ ready \in BOOLEAN
           /\ CallId = Call \cup {Resubscription} /\ Resubscription \notin Call
  BY HowlerAssumption DEF HowlerInv, HowlerTypeOK, ConnectedIsHeard, Heard, RequestsAreLate,
     LinkedIsCurrent, Call

\* What is left of the requests after the first.
LEMMA TailRequests ==
    ASSUME HowlerInv, toServer' = toServer \/ (toServer # <<>> /\ toServer' = Tail(toServer))
    PROVE  \E n \in {0, 1} :
             /\ n = 0 => toServer' = toServer
             /\ n = 1 => 1 \in DOMAIN toServer /\ toServer[1] = Head(toServer)
             /\ \A i \in DOMAIN toServer' : i + n \in DOMAIN toServer
                                            /\ toServer'[i] = toServer[i + n]
  <1>1. toServer \in Seq(Request)
    BY Channels
  <1>2. CASE toServer' = toServer
    BY <1>1, <1>2
  <1>3. CASE toServer # <<>> /\ toServer' = Tail(toServer)
    <2>1. \A i \in DOMAIN toServer' : i + 1 \in DOMAIN toServer
                                      /\ toServer'[i] = toServer[i + 1]
      BY <1>1, <1>3
    <2>2. 1 \in DOMAIN toServer /\ toServer[1] = Head(toServer)
      BY <1>1, <1>3
    <2> QED
      BY <2>1, <2>2
  <1> QED
    BY <1>2, <1>3

\* The requests that are left are still those of calls.
LEMMA RequestsStayCalls ==
    ASSUME HowlerInv, DeliveryInv,
           toServer' = toServer \/ (toServer # <<>> /\ toServer' = Tail(toServer)),
           UNCHANGED <<subscribedToDBs, current, calls, toClient>>
    PROVE  RequestsAreCalls' /\ OneAnswerEach'
  <1>1. PICK n \in {0, 1} :
             \A i \in DOMAIN toServer' : i + n \in DOMAIN toServer
                                            /\ toServer'[i] = toServer[i + n]
    BY TailRequests
  <1>2. toServer \in Seq(Request)
    BY Channels
  <1>3. \A i \in DOMAIN toServer' : i \in Nat \ {0}
    BY <1>2
  <1>4. RequestsAreCalls'
    <2> SUFFICES ASSUME NEW i \in DOMAIN toServer'
                 PROVE  LET r == toServer'[i]
                        IN  IF r.id = Resubscription
                            THEN /\ i = 1 /\ r.type = "subscribe" /\ r.dbNames = subscribedToDBs'
                                 /\ \A j \in DOMAIN toClient' : ~IsAck(toClient'[j])
                            ELSE calls'[r.id] = [type |-> r.type, dbNames |-> r.dbNames,
                                                 at |-> current']
      BY DEF RequestsAreCalls, IsAck
    <2>1. i + n \in DOMAIN toServer /\ toServer'[i] = toServer[i + n]
      BY <1>1
    <2>2. i + n = 1 => i = 1
      BY <1>3
    <2> QED
      BY <2>1, <2>2 DEF DeliveryInv, RequestsAreCalls
  <1>5. OneAnswerEach'
    BY <1>1, <1>3 DEF DeliveryInv, OneAnswerEach, IsAck
  <1> QED
    BY <1>4, <1>5

\* A step after which nothing more is on its way to the client.
LEMMA StaysInv ==
    ASSUME HowlerInv, DeliveryInv,
           UNCHANGED <<subscribedToDBs, connected, ready, current, link, calls, toClient>>,
           toServer' = toServer \/ (toServer # <<>> /\ toServer' = Tail(toServer)),
           \A s \in Socket : conn[s] # "unused" => conn'[s] # "unused",
           link = "up" => Stays(current)
    PROVE  DeliveryInv'
  <1> USE DEF DeliveryInv
  <1>1. link = "up" => current \in Socket
    BY Channels
  <1>2. QuietBeforeVerdict'
    BY DEF QuietBeforeVerdict, LostIsEmpty, Stays
  <1>3. VerdictIsRead' /\ ReadyIsConnected' /\ LostIsEmpty'
    BY DEF VerdictIsRead, ReadyIsConnected, LostIsEmpty, IsAccepted
  <1>4. DisconnectIsLast'
    BY DEF DisconnectIsLast, LostIsEmpty, Stays
  <1>5. UnconnectedIsQuiet'
    BY DEF UnconnectedIsQuiet, Served, Stays
  <1>6. CallsAreMade'
    <2>1. \A id \in Call : calls[id] # Idle => calls[id].at \in Socket
      BY Channels DEF PendingCall
    <2> QED
      BY <2>1 DEF CallsAreMade
  <1>7. RequestsAreCalls' /\ OneAnswerEach'
    BY RequestsStayCalls
  <1>8. AnswersAreCalls'
    BY DEF AnswersAreCalls, IsAck
  <1>9. SubscribesHold'
    BY DEF SubscribesHold, Answers, IsAck, Served, ConnectedTo, Stays
  <1>10. UnsubscribesHold'
    BY DEF UnsubscribesHold, Answers, IsAck, IsChange, Served, Stays, LostIsEmpty
  <1>11. May' = May /\ Leaving' = Leaving
    BY DEF May, Leaving, Pending
  <1>12. MayIsKept'
    BY <1>11 DEF MayIsKept, Served, Stays, IsChange
  <1>13. MustIsKept'
    BY <1>11 DEF MustIsKept, Served, Stays, ConnectedTo, IsResubscribed, IsAck
  <1> QED
    BY <1>2, <1>3, <1>4, <1>5, <1>6, <1>7, <1>8, <1>9, <1>10, <1>12, <1>13

\* The verdict is the first that is written to a connection, and the client does
\* not know it yet.
LEMMA VerdictInv ==
    ASSUME HowlerInv, DeliveryInv, link = "up", CouchDBAnswers(current),
           \A s \in Socket : conn[s] # "unused" => conn'[s] # "unused",
           UNCHANGED <<subscribedToDBs, connected, ready, current, link, calls, toServer>>,
           toClient' = toClient \o sent'[current]
    PROVE  DeliveryInv'
  <1>c. /\ current \in Socket /\ auth[current] = "pending"
        /\ auth'[current] \in {"done", "failed"}
        /\ Served = {} /\ Served' = {}
        /\ \/ sent'[current] = <<>> /\ conn'[current] = conn[current]
           \/ \E c \in Cookie : sent'[current] = <<Authenticated(c)>>
                                /\ conn'[current] = conn[current]
           \/ sent'[current] = <<NotAuthenticated, Disconnect>> /\ conn'[current] = "closed"
    BY Channels, VerdictMaps DEF HowlerInv, Served
  <1>1. toClient = <<>> /\ ~connected /\ toServer = <<>> /\ ~ready
    BY <1>c, Channels DEF DeliveryInv, QuietBeforeVerdict, Attached, ReadyIsConnected
  <1>2. toClient' = sent'[current]
    <2>1. \A p, q \in Packet : <<>> \o <<p>> = <<p>> /\ <<>> \o <<p, q>> = <<p, q>>
      OBVIOUS
    <2>2. <<>> \o <<>> = <<>>
      OBVIOUS
    <2> QED
      BY <1>c, <1>1, <2>1, <2>2, PacketTypes
  <1>3. CASE sent'[current] = <<>>
    <2>1. Stays(current)
      BY <1>c, <1>3 DEF Stays, Served
    <2> QED
      BY <1>1, <1>2, <1>3, <2>1, StaysInv
  <1>4. CASE sent'[current] # <<>>
    <2>1. \A i \in DOMAIN toClient' :
            /\ toClient'[i].type \notin {"ack", "change"}
            /\ toClient'[i].type = "authenticated" => i = 1
            /\ toClient'[i].type = "disconnect" => i = Len(toClient') /\ conn'[current] = "closed"
      <3>1. CASE \E c \in Cookie : sent'[current] = <<Authenticated(c)>>
        BY <1>2, <3>1 DEF Authenticated
      <3>2. CASE sent'[current] = <<NotAuthenticated, Disconnect>> /\ conn'[current] = "closed"
        <4>1. /\ DOMAIN toClient' = {1, 2} /\ Len(toClient') = 2
              /\ toClient'[1] = NotAuthenticated /\ toClient'[2] = Disconnect
          BY <1>2, <3>2
        <4> QED
          BY <3>2, <4>1 DEF NotAuthenticated, Disconnect
      <3> QED
        BY <1>c, <1>4, <3>1, <3>2
    <2> USE DEF DeliveryInv
    <2>2. QuietBeforeVerdict' /\ VerdictIsRead' /\ DisconnectIsLast' /\ LostIsEmpty'
      BY <1>1, <1>c, <2>1 DEF QuietBeforeVerdict, VerdictIsRead, IsAccepted, DisconnectIsLast,
         LostIsEmpty
    <2>3. UnconnectedIsQuiet' /\ ReadyIsConnected'
      BY <1>1, <1>c, <2>1 DEF UnconnectedIsQuiet, ReadyIsConnected
    <2>4. CallsAreMade'
      <3>1. \A id \in Call : calls[id] # Idle => calls[id].at \in Socket
        BY Channels DEF PendingCall
      <3> QED
        BY <3>1 DEF CallsAreMade
    <2>5. RequestsAreCalls' /\ AnswersAreCalls' /\ OneAnswerEach'
      BY <1>1, <2>1 DEF RequestsAreCalls, AnswersAreCalls, OneAnswerEach, IsAck
    <2>6. SubscribesHold' /\ UnsubscribesHold'
      <3>1. \A i \in DOMAIN toClient' : toClient'[i].type # "ack"
        BY <2>1
      <3> HIDE DEF DeliveryInv
      <3> QED
        BY <3>1 DEF SubscribesHold, UnsubscribesHold, Answers, IsAck
    <2>7. MayIsKept' /\ MustIsKept'
      BY <1>1, <1>c, <2>1 DEF MayIsKept, MustIsKept, IsChange, IsResubscribed, IsAck
    <2> QED
      BY <2>2, <2>3, <2>4, <2>5, <2>6, <2>7
  <1> QED
    BY <1>3, <1>4

\* One packet more.
LEMMA OneMore ==
    ASSUME NEW packets \in Seq(Packet), NEW p
    PROVE  /\ Len(packets) \in Nat /\ DOMAIN packets = 1..Len(packets)
           /\ packets \o <<p>> = Append(packets, p)
           /\ Len(packets \o <<p>>) = Len(packets) + 1
           /\ DOMAIN (packets \o <<p>>) = 1..(Len(packets) + 1)
           /\ \A i \in 1..Len(packets) : (packets \o <<p>>)[i] = packets[i]
           /\ (packets \o <<p>>)[Len(packets) + 1] = p
  OBVIOUS

\* Two packets more.
LEMMA TwoMore ==
    ASSUME NEW packets \in Seq(Packet), NEW p, NEW q
    PROVE  /\ Len(packets) \in Nat /\ DOMAIN packets = 1..Len(packets)
           /\ packets \o <<p, q>> = Append(Append(packets, p), q)
           /\ Len(packets \o <<p, q>>) = Len(packets) + 2
           /\ DOMAIN (packets \o <<p, q>>) = 1..(Len(packets) + 2)
           /\ \A i \in 1..Len(packets) : (packets \o <<p, q>>)[i] = packets[i]
           /\ (packets \o <<p, q>>)[Len(packets) + 1] = p
           /\ (packets \o <<p, q>>)[Len(packets) + 2] = q
  OBVIOUS

\* A change of what the application may be told is on its way to the client.
LEMMA ChangeInv ==
    ASSUME HowlerInv, DeliveryInv, link = "up", NEW d \in DB, d \in Served,
           UNCHANGED <<subscribedToDBs, connected, ready, current, link, calls, toServer,
                       conn, auth>>,
           Served' = Served,
           toClient' = toClient \o <<Change(d)>>
    PROVE  DeliveryInv'
  <1> DEFINE n == Len(toClient)
  <1>1. /\ n \in Nat /\ DOMAIN toClient = 1..n /\ Len(toClient') = n + 1
        /\ DOMAIN toClient' = 1..(n + 1)
        /\ \A i \in 1..n : toClient'[i] = toClient[i]
        /\ toClient'[n + 1] = Change(d)
    BY Channels, OneMore
  <1>2. Change(d).type = "change" /\ Change(d).db = d
    BY DEF Change
  <1>3. connected /\ conn[current] = "open" /\ auth[current] = "done" /\ current \in Socket
    BY Channels DEF Served, Subs, Live, Attached, DeliveryInv, UnconnectedIsQuiet
  <1> HIDE DEF n
  <1> USE DEF DeliveryInv
  <1>4. QuietBeforeVerdict' /\ VerdictIsRead' /\ DisconnectIsLast' /\ LostIsEmpty'
    BY <1>1, <1>2, <1>3 DEF QuietBeforeVerdict, VerdictIsRead, IsAccepted,
       DisconnectIsLast, LostIsEmpty
  <1>5. UnconnectedIsQuiet' /\ ReadyIsConnected' /\ CallsAreMade'
    BY <1>3 DEF UnconnectedIsQuiet, ReadyIsConnected, CallsAreMade
  <1>6. RequestsAreCalls' /\ AnswersAreCalls' /\ OneAnswerEach'
    BY <1>1, <1>2 DEF RequestsAreCalls, AnswersAreCalls, OneAnswerEach, IsAck
  <1>7. SubscribesHold'
    BY <1>1, <1>2 DEF SubscribesHold, Answers, IsAck, ConnectedTo
  <1>8. UnsubscribesHold'
    <2> SUFFICES ASSUME NEW e \in DB, NEW i \in DOMAIN toClient',
                        Answers(toClient[i], "unsubscribe", e)'
                 PROVE  /\ e \in Served' =>
                             \E k \in DOMAIN toClient' :
                               k > i /\ Answers(toClient[k], "subscribe", e)'
                        /\ \A j \in DOMAIN toClient' :
                             j > i /\ IsChange(toClient'[j], e) =>
                               \E k \in DOMAIN toClient' :
                                 i < k /\ k < j /\ Answers(toClient[k], "subscribe", e)'
      BY DEF UnsubscribesHold, Answers, IsAck, IsChange
    <2>1. i \in 1..n /\ Answers(toClient[i], "unsubscribe", e)
      BY <1>1, <1>2 DEF Answers, IsAck
    <2>2. \A k \in 1..n :
            Answers(toClient[k], "subscribe", e) => Answers(toClient[k], "subscribe", e)'
      BY <1>1 DEF Answers, IsAck
    <2>3. e \in Served => \E k \in 1..n : k > i /\ Answers(toClient[k], "subscribe", e)'
      BY <1>1, <2>1, <2>2 DEF UnsubscribesHold
    <2>4. ASSUME NEW j \in DOMAIN toClient', j > i, IsChange(toClient'[j], e)
          PROVE  \E k \in 1..n : i < k /\ k < j /\ Answers(toClient[k], "subscribe", e)'
      <3>1. CASE j = n + 1
        <4>1. e = d
          BY <1>1, <1>2, <2>4, <3>1 DEF IsChange
        <4>2. \A k \in 1..n : k < j
          BY <1>1, <3>1
        <4> QED
          BY <2>3, <4>1, <4>2
      <3>2. CASE j \in 1..n
        <4>1. IsChange(toClient[j], e)
          BY <1>1, <2>4, <3>2
        <4>2. i \in DOMAIN toClient /\ j \in DOMAIN toClient
          BY <1>1, <2>1, <3>2
        <4>3. \E k \in DOMAIN toClient : i < k /\ k < j /\ Answers(toClient[k], "subscribe", e)
          BY <2>1, <2>4, <4>1, <4>2 DEF UnsubscribesHold
        <4> QED
          BY <1>1, <2>2, <4>3
      <3> QED
        BY <1>1, <2>4, <3>1, <3>2
    <2>5. \A k \in 1..n : k \in DOMAIN toClient'
      BY <1>1
    <2> QED
      BY <2>3, <2>4, <2>5, Zenon
  <1>9. May' = May /\ Leaving' = Leaving
    BY DEF May, Leaving, Pending
  <1>10. MayIsKept'
    BY <1>1, <1>2, <1>9 DEF MayIsKept, IsChange
  <1>11. MustIsKept'
    BY <1>1, <1>2, <1>9 DEF MustIsKept, IsResubscribed, IsAck, ConnectedTo
  <1> QED
    BY <1>4, <1>5, <1>6, <1>7, <1>8, <1>10, <1>11

\* The request that the server handles next.
LEMMA NextRequest ==
    ASSUME HowlerInv, DeliveryInv, toServer # <<>>, NEW r, r = Head(toServer)
    PROVE  /\ r \in Request /\ connected /\ current \in Socket /\ Attached(current)
           /\ r.dbNames \in SUBSET DB
           /\ \/ /\ r.id = Resubscription /\ r.type = "subscribe" /\ r.dbNames = subscribedToDBs
                 /\ \A j \in DOMAIN toClient : ~IsAck(toClient[j])
              \/ /\ r.id \in Call
                 /\ calls[r.id] = [type |-> r.type, dbNames |-> r.dbNames, at |-> current]
                 /\ calls[r.id] # Idle
                 /\ r.type \in {"subscribe", "unsubscribe", "log-out"}
           /\ \A j \in DOMAIN toClient : IsAck(toClient[j]) => toClient[j].id # r.id
           /\ \A i \in DOMAIN Tail(toServer) :
                /\ i \in Nat \ {0} /\ i + 1 \in DOMAIN toServer
                /\ Tail(toServer)[i] = toServer[i + 1]
                /\ Tail(toServer)[i].id # r.id
                /\ Tail(toServer)[i].id # Resubscription
  <1>1. 1 \in DOMAIN toServer /\ toServer[1] = r /\ r \in Request
    BY Channels
  <1>2. connected /\ current \in Socket /\ Attached(current)
    BY Channels
  <1>3. r.dbNames \in SUBSET DB /\ r.id \in CallId
    BY <1>1 DEF Request
  <1>4. r.id # Resubscription =>
          calls[r.id] = [type |-> r.type, dbNames |-> r.dbNames, at |-> current]
    BY <1>1 DEF DeliveryInv, RequestsAreCalls
  <1>5. r.id # Resubscription => calls[r.id] # Idle
    <2>1. current # NoSocket
      BY <1>2, HowlerAssumption
    <2> QED
      BY <1>4, <2>1 DEF Idle
  <1>6. r.id # Resubscription => r.type \in {"subscribe", "unsubscribe", "log-out"}
    BY <1>3, <1>4, <1>5, Channels DEF PendingCall
  <1>7. r.id = Resubscription =>
          /\ r.type = "subscribe" /\ r.dbNames = subscribedToDBs
          /\ \A j \in DOMAIN toClient : ~IsAck(toClient[j])
    BY <1>1 DEF DeliveryInv, RequestsAreCalls
  <1>8. \A j \in DOMAIN toClient : IsAck(toClient[j]) => toClient[j].id # r.id
    BY <1>1 DEF DeliveryInv, OneAnswerEach
  <1>9. ASSUME NEW i \in DOMAIN Tail(toServer)
        PROVE  /\ i \in Nat \ {0} /\ i + 1 \in DOMAIN toServer
               /\ Tail(toServer)[i] = toServer[i + 1]
               /\ Tail(toServer)[i].id # r.id
               /\ Tail(toServer)[i].id # Resubscription
    <2>1. i \in Nat \ {0} /\ i + 1 \in DOMAIN toServer /\ Tail(toServer)[i] = toServer[i + 1]
      BY Channels
    <2>2. toServer[i + 1].id # r.id
      BY <1>1, <2>1 DEF DeliveryInv, OneAnswerEach
    <2>3. toServer[i + 1].id # Resubscription
      <3>1. i + 1 # 1
        BY <2>1
      <3> QED
        BY <2>1, <3>1 DEF DeliveryInv, RequestsAreCalls
    <2> QED
      BY <2>1, <2>2, <2>3
  <1> QED
    BY <1>1, <1>2, <1>3, <1>4, <1>5, <1>6, <1>7, <1>8, <1>9, Channels

\* The request r is answered, and a log-out disconnected.
Answered(r) ==
    /\ auth' = auth
    /\ \/ /\ r.type = "subscribe" /\ conn' = conn
          /\ toClient' = toClient \o <<Ack(r, FALSE)>>
          /\ Served' = Served \cup r.dbNames
       \/ /\ r.type = "unsubscribe" /\ conn' = conn
          /\ toClient' = toClient \o <<Ack(r, FALSE)>>
          /\ Served' = Served \ r.dbNames
       \/ /\ r.type = "log-out" /\ conn'[current] = "closed"
          /\ toClient' = toClient \o <<Ack(r, FALSE), Disconnect>>
          /\ Served' = {}

\* What is on its way to the client after an answer.
LEMMA AnsweredPackets ==
    ASSUME HowlerInv, NEW r, Answered(r)
    PROVE  /\ Len(toClient) \in Nat /\ Len(toClient') \in Nat
           /\ DOMAIN toClient = 1..Len(toClient) /\ DOMAIN toClient' = 1..Len(toClient')
           /\ r.type # "log-out" => Len(toClient') = Len(toClient) + 1
           /\ r.type = "log-out" => Len(toClient') = Len(toClient) + 2
           /\ \A i \in 1..Len(toClient) : toClient'[i] = toClient[i]
           /\ toClient'[Len(toClient) + 1] = Ack(r, FALSE)
           /\ r.type = "log-out" => toClient'[Len(toClient) + 2] = Disconnect
  <1> DEFINE p == Ack(r, FALSE)
  <1>1. toClient \in Seq(Packet)
    BY Channels
  <1>2. \/ toClient' = toClient \o <<p>> /\ r.type # "log-out"
        \/ toClient' = toClient \o <<p, Disconnect>> /\ r.type = "log-out"
    BY DEF Answered
  <1> HIDE DEF p
  <1>3. /\ Len(toClient) \in Nat /\ Len(toClient') \in Nat
        /\ DOMAIN toClient = 1..Len(toClient) /\ DOMAIN toClient' = 1..Len(toClient')
        /\ r.type # "log-out" => Len(toClient') = Len(toClient) + 1
        /\ r.type = "log-out" => Len(toClient') = Len(toClient) + 2
        /\ \A i \in 1..Len(toClient) : toClient'[i] = toClient[i]
        /\ toClient'[Len(toClient) + 1] = p
        /\ r.type = "log-out" => toClient'[Len(toClient) + 2] = Disconnect
    <2>1. CASE toClient' = toClient \o <<p>> /\ r.type # "log-out"
      BY <1>1, <2>1, OneMore
    <2>2. CASE toClient' = toClient \o <<p, Disconnect>> /\ r.type = "log-out"
      BY <1>1, <2>2, TwoMore
    <2> QED
      BY <1>2, <2>1, <2>2
  <1> QED
    BY <1>3 DEF p

\* An answer is under way, and with it what the server made of the request.
LEMMA AnsweredInv ==
    ASSUME HowlerInv, DeliveryInv, link = "up", conn[current] = "open",
           toServer # <<>>, toServer' = Tail(toServer), Answered(Head(toServer)),
           \A s \in Socket : conn[s] # "unused" => conn'[s] # "unused",
           UNCHANGED <<subscribedToDBs, connected, ready, current, link, calls>>
    PROVE  DeliveryInv'
  <1> DEFINE r == Head(toServer)
  <1>1. /\ r \in Request /\ connected /\ current \in Socket /\ Attached(current)
        /\ r.dbNames \in SUBSET DB
        /\ \/ /\ r.id = Resubscription /\ r.type = "subscribe" /\ r.dbNames = subscribedToDBs
              /\ \A j \in DOMAIN toClient : ~IsAck(toClient[j])
           \/ /\ r.id \in Call
              /\ calls[r.id] = [type |-> r.type, dbNames |-> r.dbNames, at |-> current]
              /\ calls[r.id] # Idle
              /\ r.type \in {"subscribe", "unsubscribe", "log-out"}
        /\ \A j \in DOMAIN toClient : IsAck(toClient[j]) => toClient[j].id # r.id
        /\ \A i \in DOMAIN toServer' :
             /\ i \in Nat \ {0} /\ i + 1 \in DOMAIN toServer /\ toServer'[i] = toServer[i + 1]
             /\ toServer'[i].id # r.id
             /\ toServer'[i].id # Resubscription
    BY NextRequest
  <1>2. Answered(r)
    OBVIOUS
  <1> HIDE DEF r
  <1> DEFINE n == Len(toClient)
             m == Len(toClient')
  <1>3. /\ n \in Nat /\ m \in Nat /\ DOMAIN toClient = 1..n /\ DOMAIN toClient' = 1..m
        /\ r.type # "log-out" => m = n + 1
        /\ r.type = "log-out" => m = n + 2
        /\ \A i \in 1..n : toClient'[i] = toClient[i]
        /\ toClient'[n + 1] = Ack(r, FALSE)
        /\ r.type = "log-out" => toClient'[n + 2] = Disconnect
    BY <1>2, AnsweredPackets
  <1> HIDE DEF n, m
  <1>4. /\ auth[current] = "done" /\ auth' = auth
        /\ r.type = "log-out" => conn'[current] = "closed" /\ Served' = {}
        /\ r.type = "subscribe" => conn' = conn /\ Served' = Served \cup r.dbNames
        /\ r.type = "unsubscribe" => conn' = conn /\ Served' = Served \ r.dbNames
    BY <1>1, <1>2 DEF Answered, Attached
  <1>5. /\ Ack(r, FALSE).type = "ack" /\ Ack(r, FALSE).id = r.id /\ ~Ack(r, FALSE).error
        /\ Disconnect.type = "disconnect"
    BY DEF Ack, Disconnect
  <1>6. ASSUME NEW i \in 1..m
        PROVE  \/ i \in 1..n /\ toClient'[i] = toClient[i]
               \/ i = n + 1 /\ toClient'[i].type = "ack" /\ toClient'[i].id = r.id
                  /\ ~toClient'[i].error
               \/ i = n + 2 /\ i = m /\ r.type = "log-out" /\ toClient'[i].type = "disconnect"
    <2>1. CASE i \in 1..n
      BY <1>3, <2>1
    <2>2. CASE i = n + 1
      BY <1>3, <1>5, <2>2
    <2>3. CASE i = n + 2 /\ r.type = "log-out"
      BY <1>3, <1>5, <2>3
    <2> QED
      BY <1>3, <2>1, <2>2, <2>3
  <1>7. \A i \in 1..n : toClient[i].type # "disconnect"
    BY <1>3 DEF DeliveryInv, DisconnectIsLast
  <1> USE DEF DeliveryInv
  <1>8. QuietBeforeVerdict' /\ LostIsEmpty' /\ ReadyIsConnected' /\ UnconnectedIsQuiet'
    BY <1>1, <1>4 DEF QuietBeforeVerdict, LostIsEmpty, ReadyIsConnected, UnconnectedIsQuiet
  <1>9. VerdictIsRead'
    BY <1>3, <1>6 DEF VerdictIsRead, IsAccepted
  <1>10. DisconnectIsLast'
    BY <1>3, <1>4, <1>6, <1>7 DEF DisconnectIsLast, m
  <1>11. CallsAreMade'
    <2>1. \A id \in Call : calls[id] # Idle => calls[id].at \in Socket
      BY Channels DEF PendingCall
    <2> QED
      BY <2>1 DEF CallsAreMade
  <1>12. RequestsAreCalls'
    BY <1>1 DEF RequestsAreCalls
  <1>13. AnswersAreCalls'
    <2>1. r.id \in Call => calls[r.id] # Idle /\ calls[r.id].at = current
      BY <1>1, HowlerAssumption DEF Call
    <2> QED
      BY <1>3, <1>6, <2>1 DEF AnswersAreCalls, IsAck
  <1>14. OneAnswerEach'
    <2>1. \A i, j \in DOMAIN toServer' : toServer'[i].id = toServer'[j].id => i = j
      BY <1>1 DEF OneAnswerEach
    <2>2. ASSUME NEW i \in DOMAIN toClient', NEW j \in DOMAIN toClient',
                 IsAck(toClient'[i]), IsAck(toClient'[j]), toClient'[i].id = toClient'[j].id
          PROVE  i = j
      <3>1. CASE i \in 1..n /\ j \in 1..n
        BY <1>3, <2>2, <3>1 DEF OneAnswerEach, IsAck
      <3>2. \A k \in 1..n : IsAck(toClient'[k]) => toClient'[k].id # r.id
        BY <1>1, <1>3
      <3>3. \A k \in 1..m :
              IsAck(toClient'[k]) /\ k \notin 1..n => k = n + 1 /\ toClient'[k].id = r.id
        BY <1>6 DEF IsAck
      <3>4. i \in 1..m /\ j \in 1..m
        BY <1>3
      <3> HIDE DEF DeliveryInv
      <3> QED
        BY <2>2, <3>1, <3>2, <3>3, <3>4
    <2>3. ASSUME NEW i \in DOMAIN toServer', NEW j \in DOMAIN toClient', IsAck(toClient'[j])
          PROVE  toServer'[i].id # toClient'[j].id
      BY <1>1, <1>3, <1>6, <2>3 DEF OneAnswerEach, IsAck
    <2> QED
      BY <2>1, <2>2, <2>3 DEF OneAnswerEach, IsAck
  <1>15. ASSUME NEW type, NEW d \in DB
         PROVE  /\ \A i \in 1..n : Answers(toClient'[i], type, d) <=> Answers(toClient[i], type, d)
                /\ r.id \in Call =>
                     (Answers(toClient'[n + 1], type, d) <=> type = r.type /\ d \in r.dbNames)
                /\ \A i \in 1..m :
                     Answers(toClient'[i], type, d) => i \in 1..n \/ (i = n + 1 /\ r.id \in Call)
    <2>1. r.id \in Call => calls[r.id].type = r.type /\ calls[r.id].dbNames = r.dbNames
      BY <1>1, HowlerAssumption DEF Call
    <2>2. \A i \in 1..n : toClient'[i] = toClient[i]
      BY <1>3
    <2>3. toClient'[n + 1].type = "ack" /\ toClient'[n + 1].id = r.id
      BY <1>3, <1>5
    <2>4. r.id \in Call => (Answers(toClient'[n + 1], type, d) <=> type = r.type /\ d \in r.dbNames)
      BY <2>1, <2>3 DEF Answers, IsAck
    <2>5. ASSUME NEW i \in 1..m, Answers(toClient'[i], type, d)
          PROVE  i \in 1..n \/ (i = n + 1 /\ r.id \in Call)
      BY <1>6, <2>3, <2>5 DEF Answers, IsAck
    <2> QED
      BY <2>2, <2>4, <2>5
  <1>16. ASSUME NEW d \in DB
         PROVE  /\ \A i \in 1..n : Answers(toClient[i], "subscribe", d) =>
                     d \in Served \/ \E k \in 1..n : k > i /\ Answers(toClient[k], "unsubscribe", d)
                /\ \A i \in 1..n : Answers(toClient[i], "unsubscribe", d) /\ d \in Served =>
                     \E k \in 1..n : k > i /\ Answers(toClient[k], "subscribe", d)
                /\ \A i, j \in 1..n : Answers(toClient[i], "unsubscribe", d)
                                      /\ j > i /\ IsChange(toClient[j], d) =>
                     \E k \in 1..n : i < k /\ k < j /\ Answers(toClient[k], "subscribe", d)
    BY <1>3 DEF SubscribesHold, UnsubscribesHold, ConnectedTo
  <1>17. SubscribesHold'
    <2> SUFFICES ASSUME ConnectedTo(current)', NEW d \in DB, NEW i \in 1..m,
                        Answers(toClient'[i], "subscribe", d)
                 PROVE  \/ d \in Served'
                        \/ \E k \in 1..m : k > i /\ Answers(toClient'[k], "unsubscribe", d)
      BY <1>3 DEF SubscribesHold, Answers, IsAck
    <2>1. r.type # "log-out" /\ m = n + 1
      BY <1>3, <1>4 DEF ConnectedTo
    <2>2. CASE i \in 1..n
      <3>1. Answers(toClient[i], "subscribe", d)
        BY <1>15, <2>2
      <3>2. CASE d \in Served
        <4>1. r.type = "unsubscribe" /\ d \in r.dbNames =>
                Answers(toClient'[n + 1], "unsubscribe", d)
          BY <1>1, <1>15
        <4>2. n + 1 \in 1..m /\ n + 1 > i
          BY <1>3, <2>1, <2>2
        <4> QED
          BY <1>1, <1>4, <2>1, <3>2, <4>1, <4>2
      <3>3. CASE \E k \in 1..n : k > i /\ Answers(toClient[k], "unsubscribe", d)
        BY <1>3, <1>15, <2>1, <3>3
      <3> QED
        BY <1>16, <2>2, <3>1, <3>2, <3>3
    <2>3. CASE i = n + 1 /\ r.id \in Call
      BY <1>4, <1>15, <2>3
    <2>4. i \in 1..n \/ (i = n + 1 /\ r.id \in Call)
      BY <1>15
    <2> QED
      BY <2>2, <2>3, <2>4
  <1>18. UnsubscribesHold'
    <2> HIDE DEF DeliveryInv
    <2>s. DOMAIN toClient' = 1..m /\ calls' = calls
      BY <1>3
    <2> SUFFICES ASSUME NEW d \in DB, NEW i \in 1..m, Answers(toClient'[i], "unsubscribe", d)
                 PROVE  /\ d \in Served' =>
                             \E k \in 1..m : k > i /\ Answers(toClient'[k], "subscribe", d)
                        /\ \A j \in 1..m : j > i /\ IsChange(toClient'[j], d) =>
                             \E k \in 1..m : i < k /\ k < j /\ Answers(toClient'[k], "subscribe", d)
      BY <2>s DEF UnsubscribesHold, IsChange, Answers, IsAck
    <2> USE DEF DeliveryInv
    <2>1. CASE i \in 1..n
      <3>1. Answers(toClient[i], "unsubscribe", d)
        BY <1>15, <2>1
      <3>2. ASSUME d \in Served'
            PROVE  \E k \in 1..m : k > i /\ Answers(toClient'[k], "subscribe", d)
        <4>1. CASE d \in Served
          <5>1. PICK k \in 1..n : k > i /\ Answers(toClient[k], "subscribe", d)
            BY <1>16, <2>1, <3>1, <4>1
          <5>2. k \in 1..m
            BY <1>3, <5>1
          <5> QED
            BY <1>15, <5>1, <5>2
        <4>2. CASE d \notin Served
          <5>1. r.type = "subscribe" /\ d \in r.dbNames /\ m = n + 1
            BY <1>1, <1>3, <1>4, <3>2, <4>2
          <5>2. r.id \in Call
            BY <1>1, <1>3, <2>1, <3>1 DEF Answers
          <5>3. n + 1 \in 1..m /\ n + 1 > i
            BY <1>3, <2>1, <5>1
          <5> QED
            BY <1>15, <5>1, <5>2, <5>3
        <4> QED
          BY <4>1, <4>2
      <3>3. ASSUME NEW j \in 1..m, j > i, IsChange(toClient'[j], d)
            PROVE  \E k \in 1..m : i < k /\ k < j /\ Answers(toClient'[k], "subscribe", d)
        <4>1. j \in 1..n /\ IsChange(toClient[j], d)
          BY <1>6, <3>3 DEF IsChange
        <4>2. PICK k \in 1..n : i < k /\ k < j /\ Answers(toClient[k], "subscribe", d)
          BY <1>16, <2>1, <3>1, <3>3, <4>1
        <4>3. k \in 1..m
          BY <1>3, <4>2
        <4> QED
          BY <1>15, <4>2, <4>3
      <3> QED
        BY <3>2, <3>3
    <2>2. CASE i = n + 1 /\ r.id \in Call
      <3>1. r.type = "unsubscribe" /\ d \in r.dbNames
        BY <1>15, <2>2
      <3>2. m = n + 1 /\ d \notin Served'
        BY <1>3, <1>4, <3>1
      <3> QED
        BY <1>3, <2>2, <3>2
    <2> QED
      BY <1>15, <2>1, <2>2
  <1>19. May' = May /\ Leaving' = Leaving
    BY DEF May, Leaving, Pending
  <1>20. r.type = "subscribe" => r.dbNames \subseteq May
    BY <1>1 DEF May, Pending
  <1>21. r.type = "unsubscribe" => r.dbNames \subseteq Leaving
    BY <1>1 DEF Leaving, Pending
  <1>22. MayIsKept'
    BY <1>1, <1>3, <1>4, <1>6, <1>19, <1>20 DEF MayIsKept, IsChange
  <1>23. MustIsKept'
    <2> SUFFICES ASSUME ConnectedTo(current)',
                        ready \/ \E i \in 1..m : IsResubscribed(toClient'[i])
                 PROVE  subscribedToDBs \ Leaving \subseteq Served'
      BY <1>3, <1>19 DEF MustIsKept, IsResubscribed, IsAck
    <2>1. ConnectedTo(current) /\ r.type # "log-out"
      BY <1>4 DEF ConnectedTo
    <2>2. CASE r.id = Resubscription
      <3>1. r.type = "subscribe" /\ r.dbNames = subscribedToDBs
        BY <1>1, <2>2 DEF Call
      <3> QED
        BY <1>4, <3>1
    <2>3. CASE r.id # Resubscription
      <3>1. ready \/ \E i \in 1..n : IsResubscribed(toClient[i])
        BY <1>6, <2>3 DEF IsResubscribed, IsAck
      <3>2. subscribedToDBs \ Leaving \subseteq Served
        BY <1>3, <2>1, <3>1 DEF MustIsKept
      <3> QED
        BY <1>1, <1>4, <1>21, <2>1, <3>2
    <2> QED
      BY <2>2, <2>3
  <1> QED
    BY <1>8, <1>9, <1>10, <1>11, <1>12, <1>13, <1>14, <1>17, <1>18, <1>22, <1>23

-----------------------------------------------------------------------------
(* What a step has to do to May, Must and the changes to be one of Delivery *)

\* What is promised is allowed.
LEMMA MustIsMay == Must \subseteq May
  BY DEF Must, May

\* One database more is allowed.
LEMMA AskMaps ==
    ASSUME NEW d \in DB, May' = May \cup {d}, Must' = Must,
           Changes(toClient)' = Changes(toClient), changed' = {}
    PROVE  D!DeliveryNext
  BY DEF D!DeliveryNext, D!Ask, May, Must, Leaving

\* One database less is promised.
LEMMA RetractMaps ==
    ASSUME NEW d \in DB, May' = May, Must' = Must \ {d},
           Changes(toClient)' = Changes(toClient), changed' = {}
    PROVE  D!DeliveryNext
  BY DEF D!DeliveryNext, D!Retract, May, Must, Leaving

\* More is promised, of what the application subscribed to; or nothing.
LEMMA ConfirmMaps ==
    ASSUME HowlerInv', May' = May, Must \subseteq Must',
           Changes(toClient)' = Changes(toClient), changed' = {}
    PROVE  D!DeliveryNext
  <1> DEFINE dbNames == Must'
  <1>1. dbNames \in SUBSET DB
    BY DEF Must, HowlerInv, HowlerTypeOK
  <1>2. dbNames \subseteq May /\ Must' = Must \cup dbNames
    BY DEF Must, May
  <1> HIDE DEF dbNames
  <1>3. D!Confirm(dbNames)
    BY <1>2 DEF D!Confirm, May, Must, Leaving
  <1> QED
    BY <1>1, <1>3 DEF D!DeliveryNext

\* Less is allowed, but nothing that is promised or under way; or nothing.
LEMMA SilenceMaps ==
    ASSUME HowlerInv, HowlerInv', MayIsKept', May \in SUBSET DB,
           May' \subseteq May, Must' = Must,
           Changes(toClient)' = Changes(toClient), changed' = {}
    PROVE  D!DeliveryNext
  <1> DEFINE dbNames == May \ May'
  <1>1. dbNames \in SUBSET DB
    OBVIOUS
  <1>2. dbNames \cap Must = {}
    <2>1. Must' \subseteq May'
      BY DEF Must, May
    <2> QED
      BY <2>1
  <1>3. ASSUME NEW i \in DOMAIN Changes(toClient)
        PROVE  Changes(toClient)[i] \notin dbNames
    <2>1. toClient' \in Seq(Packet) /\ Changes(toClient') = Changes(toClient)
      BY DEF HowlerInv, HowlerTypeOK
    <2>2. PICK j \in DOMAIN toClient' :
             toClient'[j].type = "change" /\ toClient'[j].db = Changes(toClient)[i]
      BY <2>1, ChangesNamed
    <2>3. Changes(toClient)[i] \in DB
      BY <2>1, ChangesNamed
    <2>4. Changes(toClient)[i] \in May'
      BY <2>2, <2>3 DEF MayIsKept, IsChange
    <2> QED
      BY <2>4
  <1>4. May' = May \ dbNames
    OBVIOUS
  <1> HIDE DEF dbNames
  <1>5. D!Silence(dbNames)
    BY <1>2, <1>3, <1>4 DEF D!Silence, May, Must, Leaving
  <1> QED
    BY <1>1, <1>5 DEF D!DeliveryNext

\* The first change under way is told.
LEMMA TellMaps ==
    ASSUME May' = May, Must' = Must, Changes(toClient) # <<>>,
           Changes(toClient)' = Tail(Changes(toClient)), changed' = {}
    PROVE  D!DeliveryNext
  BY DEF D!DeliveryNext, D!Tell, May, Must, Leaving

\* Nothing is promised any more.
LEMMA LoseMaps ==
    ASSUME May' = May, Must' = {},
           Changes(toClient)' \in {Changes(toClient), <<>>}, changed' = {}
    PROVE  D!DeliveryNext
  BY DEF D!DeliveryNext, D!Lose, May, Must, Leaving

\* A database changes.
LEMMA PublishIsMapped ==
    ASSUME NEW d \in DB, May' = May, Must' = Must, changed' = {d},
           \/ d \in May /\ Changes(toClient)' = Append(Changes(toClient), d)
           \/ d \notin Must /\ Changes(toClient)' = Changes(toClient)
    PROVE  D!DeliveryNext
  BY DEF D!DeliveryNext, D!Publish, May, Must, Leaving

-----------------------------------------------------------------------------
(* The steps of the server are steps of Delivery *)

\* The databases that calls may name.
LEMMA MayTypes ==
    ASSUME HowlerInv
    PROVE  May \in SUBSET DB /\ Leaving \in SUBSET DB
  <1>1. \A id \in Call : calls[id].dbNames \in SUBSET DB
    BY Channels DEF Idle, PendingCall
  <1> QED
    BY <1>1, Channels DEF May, Leaving, Pending

\* A step that tells the client nothing, and may end its connection.
LEMMA StaysDelivers ==
    ASSUME HowlerInv, DeliveryInv, HowlerInv',
           UNCHANGED <<subscribedToDBs, connected, ready, current, link, calls>>,
           toClient' = IF link = "up" THEN toClient \o sent'[current] ELSE toClient,
           toServer' = toServer \/ (toServer # <<>> /\ toServer' = Tail(toServer)),
           \A s \in Socket : conn[s] # "unused" => conn'[s] # "unused",
           link = "up" => Stays(current), changed' = {}
    PROVE  DeliveryInv' /\ D!DeliveryNext
  <1>1. toClient' = toClient
    BY Channels DEF Stays
  <1>2. DeliveryInv'
    BY <1>1, StaysInv
  <1>3. May' = May /\ Leaving' = Leaving
    BY DEF May, Leaving, Pending
  <1>4. Must' = Must \/ Must' = {}
    BY <1>3 DEF Must, ConnectedTo, Stays
  <1>5. Changes(toClient)' = Changes(toClient)
    BY <1>1
  <1>6. CASE Must' = Must
    BY <1>2, <1>3, <1>5, <1>6, MayTypes, SilenceMaps DEF DeliveryInv
  <1>7. CASE Must' = {}
    BY <1>2, <1>3, <1>5, <1>7, LoseMaps
  <1> QED
    BY <1>4, <1>6, <1>7

\* What is no change does not add to the changes under way.
LEMMA ChangesConcat ==
    ASSUME NEW packets \in Seq(Packet), NEW p \in Packet, NEW q \in Packet
    PROVE  /\ p.type # "change" => Changes(packets \o <<p>>) = Changes(packets)
           /\ p.type = "change" => Changes(packets \o <<p>>) = Append(Changes(packets), p.db)
           /\ p.type # "change" /\ q.type # "change" =>
                Changes(packets \o <<p, q>>) = Changes(packets)
  <1>1. /\ packets \o <<p>> = Append(packets, p)
        /\ packets \o <<p, q>> = Append(Append(packets, p), q)
        /\ Append(packets, p) \in Seq(Packet)
    BY OneMore, TwoMore
  <1>2. /\ Changes(Append(packets, p)) =
             (IF p.type = "change" THEN Append(Changes(packets), p.db) ELSE Changes(packets))
        /\ Changes(Append(Append(packets, p), q)) =
             (IF q.type = "change" THEN Append(Changes(Append(packets, p)), q.db)
              ELSE Changes(Append(packets, p)))
    BY <1>1, ChangesAppend
  <1> QED
    BY <1>1, <1>2

\* CouchDB answers about the client's connection.
LEMMA VerdictDelivers ==
    ASSUME HowlerInv, DeliveryInv, HowlerInv', link = "up", CouchDBAnswers(current),
           \A s \in Socket : conn[s] # "unused" => conn'[s] # "unused",
           UNCHANGED <<subscribedToDBs, connected, ready, current, link, calls, toServer>>,
           toClient' = toClient \o sent'[current], changed' = {}
    PROVE  DeliveryInv' /\ D!DeliveryNext
  <1>1. DeliveryInv'
    BY VerdictInv
  <1>2. May' = May /\ Leaving' = Leaving
    BY DEF May, Leaving, Pending
  <1>3. ~ready
    BY Channels, VerdictMaps DEF HowlerInv, DeliveryInv, ReadyIsConnected, Attached
  <1>4. Must' = Must
    BY <1>3 DEF Must
  <1>5. Changes(toClient)' = Changes(toClient)
    <2>1. toClient \in Seq(Packet) /\ current \in Socket
      BY Channels
    <2>2. \/ sent'[current] = <<>>
          \/ \E c \in Cookie : sent'[current] = <<Authenticated(c)>>
          \/ sent'[current] = <<NotAuthenticated, Disconnect>>
      BY <2>1, VerdictMaps DEF HowlerInv
    <2>3. CASE sent'[current] = <<>>
      BY <2>1, <2>3
    <2>4. ASSUME NEW c \in Cookie, sent'[current] = <<Authenticated(c)>>
          PROVE  Changes(toClient)' = Changes(toClient)
      <3>1. Authenticated(c) \in Packet /\ Authenticated(c).type # "change"
        BY PacketTypes DEF Authenticated
      <3> QED
        BY <2>1, <2>4, <3>1, ChangesConcat
    <2>5. CASE sent'[current] = <<NotAuthenticated, Disconnect>>
      <3>1. /\ NotAuthenticated \in Packet /\ Disconnect \in Packet
            /\ NotAuthenticated.type # "change" /\ Disconnect.type # "change"
        BY PacketTypes DEF NotAuthenticated, Disconnect
      <3>2. Changes(toClient \o <<NotAuthenticated, Disconnect>>) = Changes(toClient)
        BY <2>1, <3>1, ChangesConcat
      <3> QED
        BY <2>5, <3>2
    <2> QED
      BY <2>2, <2>3, <2>4, <2>5
  <1> QED
    BY <1>1, <1>2, <1>4, <1>5, MayTypes, SilenceMaps DEF DeliveryInv

\* The server handles a request of the client: a log-out ends the connection.
LEMMA HandlesDelivers ==
    ASSUME HowlerInv, DeliveryInv, HowlerInv', ServerHandles,
           \A s \in Socket : conn[s] # "unused" => conn'[s] # "unused"
    PROVE  DeliveryInv' /\ D!DeliveryNext
  <1> DEFINE r == Head(toServer)
  <1>1. /\ link = "up" /\ toServer # <<>> /\ Handles(current, r)
        /\ toServer' = Tail(toServer) /\ changed' = {}
        /\ toClient' = toClient \o sent'[current]
        /\ UNCHANGED <<subscribedToDBs, connected, ready, current, link, calls>>
    BY DEF ServerHandles, Transmits, FeedWaits
  <1>2. /\ r \in Request /\ r.type # "heartbeat"
        /\ current \in Socket /\ Attached(current) /\ ServerInv
    BY <1>1, NextRequest DEF HowlerInv
  <1> HIDE DEF r
  <1>3. CASE conn[current] # "open"
    <2>1. Stays(current)
      BY <1>1, <1>2, <1>3, LateRequestStays
    <2> QED
      BY <1>1, <2>1, StaysDelivers
  <1>4. CASE conn[current] = "open"
    <2>1. Answered(r)
      BY <1>1, <1>2, <1>4, RequestMaps DEF Answered, Served
    <2>2. DeliveryInv'
      BY <1>1, <1>4, <2>1, AnsweredInv DEF r
    <2>3. May' = May /\ Leaving' = Leaving
      BY <1>1 DEF May, Leaving, Pending
    <2>4. Changes(toClient)' = Changes(toClient)
      <3>1. /\ Ack(r, FALSE) \in Packet /\ Disconnect \in Packet
            /\ Ack(r, FALSE).type # "change" /\ Disconnect.type # "change"
        BY <1>2, PacketTypes DEF Ack, Disconnect
      <3>2. toClient \in Seq(Packet)
        BY Channels
      <3>3. /\ Changes(toClient \o <<Ack(r, FALSE)>>) = Changes(toClient)
            /\ Changes(toClient \o <<Ack(r, FALSE), Disconnect>>) = Changes(toClient)
        BY <3>1, <3>2, ChangesConcat
      <3> QED
        BY <2>1, <3>3 DEF Answered
    <2>5. CASE r.type = "log-out"
      <3>1. Must' = {}
        BY <1>1, <2>1, <2>5 DEF Answered, Must, ConnectedTo
      <3> QED
        BY <1>1, <2>2, <2>3, <2>4, <3>1, LoseMaps
    <2>6. CASE r.type # "log-out"
      <3>1. Must' = Must
        BY <1>1, <2>1, <2>3, <2>6 DEF Answered, Must, ConnectedTo
      <3> QED
        BY <1>1, <2>2, <2>3, <2>4, <3>1, MayTypes, SilenceMaps DEF DeliveryInv
    <2> QED
      BY <2>5, <2>6
  <1> QED
    BY <1>3, <1>4

\* A database changes.
LEMMA PublishDelivers ==
    ASSUME HowlerInv, DeliveryInv, HowlerInv', NEW d \in DB, ServerPublishes(d)
    PROVE  DeliveryInv' /\ D!DeliveryNext
  <1>1. /\ EmitChangeForDBName(d) /\ changed' = {d} /\ toServer' = toServer
        /\ toClient' = IF link = "up" THEN toClient \o sent'[current] ELSE toClient
        /\ UNCHANGED <<subscribedToDBs, connected, ready, current, link, calls>>
    BY DEF ServerPublishes, Transmits
  <1>2. auth' = auth /\ conn' = conn /\ Served' = Served
    <2>1. UNCHANGED <<registryVars, conn, auth>>
      BY <1>1 DEF EmitChangeForDBName, socketVars
    <2> QED
      BY <1>1, <2>1, QuietMaps DEF Served
  <1>3. May' = May /\ Leaving' = Leaving /\ Must' = Must
    <2>1. May' = May /\ Leaving' = Leaving
      BY <1>1 DEF May, Leaving, Pending
    <2> QED
      BY <1>1, <1>2, <2>1 DEF Must, ConnectedTo
  <1>4. link = "up" => sent'[current] = IF d \in Served THEN <<Change(d)>> ELSE <<>>
    BY <1>1, Channels, PublishMaps DEF HowlerInv, Served
  <1>5. toClient \in Seq(Packet)
    BY Channels
  <1>6. CASE link = "up" /\ d \in Served
    <2>1. toClient' = toClient \o <<Change(d)>>
      BY <1>1, <1>4, <1>6
    <2>2. DeliveryInv'
      BY <1>1, <1>2, <1>6, <2>1, ChangeInv
    <2>3. Change(d) \in Packet /\ Change(d).type = "change" /\ Change(d).db = d
      BY PacketTypes DEF Change
    <2>4. Changes(toClient)' = Append(Changes(toClient), d)
      BY <1>5, <2>1, <2>3, ChangesConcat
    <2>5. d \in May
      BY <1>6 DEF DeliveryInv, MayIsKept
    <2> QED
      BY <1>1, <1>3, <2>2, <2>4, <2>5, PublishIsMapped
  <1>7. CASE link # "up" \/ d \notin Served
    <2>1. toClient' = toClient
      BY <1>1, <1>4, <1>5, <1>7
    <2>2. link = "up" => Stays(current)
      <3> SUFFICES ASSUME link = "up" PROVE Stays(current)
        OBVIOUS
      <3>1. sent'[current] = <<>>
        BY <1>4, <1>7
      <3>2. Subs'[current] = Subs[current]
        BY <1>1, <1>2 DEF Served
      <3> QED
        BY <1>2, <3>1, <3>2 DEF Stays
    <2>3. DeliveryInv'
      BY <1>1, <1>2, <2>1, <2>2, StaysInv
    <2>4. d \notin Must
      BY <1>7 DEF Must, DeliveryInv, MustIsKept, ConnectedTo
    <2> QED
      BY <1>1, <1>3, <2>1, <2>3, <2>4, PublishIsMapped
  <1> QED
    BY <1>6, <1>7

\* Every step of the server.
LEMMA ServerDelivers ==
    ASSUME HowlerInv, DeliveryInv, HowlerInv',
           \/ ServerLifecycle \/ ServerHandles
           \/ \E s \in Socket : ServerAuthenticates(s) \/ ServerNotices(s) \/ ServerEndsBatch(s)
           \/ \E d \in DB : ServerPublishes(d)
    PROVE  DeliveryInv' /\ D!DeliveryNext
  <1>1. ASSUME ServerNext
        PROVE  \A s \in Socket : conn[s] # "unused" => conn'[s] # "unused"
    BY <1>1, UsedStays DEF HowlerInv
  <1>2. ASSUME ServerNext, Transmits, FeedWaits, UNCHANGED toServer,
               current \in Socket /\ link = "up" => Stays(current)
        PROVE  DeliveryInv' /\ D!DeliveryNext
    <2>1. link = "up" => current \in Socket
      BY Channels
    <2> QED
      BY <1>1, <1>2, <2>1, StaysDelivers DEF Transmits, FeedWaits
  <1>3. CASE ServerLifecycle
    <2>1. ServerNext /\ Transmits /\ FeedWaits /\ UNCHANGED toServer
      BY <1>3 DEF ServerLifecycle, ServerNext
    <2>2. current \in Socket => Stays(current)
      BY <1>3, StaysOtherwise DEF ServerLifecycle, HowlerInv
    <2> QED
      BY <1>2, <2>1, <2>2
  <1>4. CASE ServerHandles
    <2>1. Head(toServer) \in Request /\ current \in Socket
      BY <1>4, Channels DEF ServerHandles
    <2>2. ServerNext
      BY <1>4, <2>1 DEF ServerHandles, ServerNext
    <2> QED
      BY <1>1, <1>4, <2>2, HandlesDelivers
  <1>5. ASSUME NEW s \in Socket, ServerAuthenticates(s)
        PROVE  DeliveryInv' /\ D!DeliveryNext
    <2>1. /\ ServerNext /\ Transmits /\ FeedWaits /\ UNCHANGED toServer
          /\ CouchDBAnswers(s)
      BY <1>5 DEF ServerAuthenticates, ServerNext
    <2>2. CASE s = current /\ link = "up"
      BY <1>1, <2>1, <2>2, VerdictDelivers DEF Transmits, FeedWaits
    <2>3. CASE s # current \/ link # "up"
      <3>1. current \in Socket /\ link = "up" => Stays(current)
        BY <2>1, <2>3, StaysOtherwise DEF HowlerInv
      <3> QED
        BY <1>2, <2>1, <3>1
    <2> QED
      BY <2>2, <2>3
  <1>6. ASSUME NEW s \in Socket, ServerNotices(s) \/ ServerEndsBatch(s)
        PROVE  DeliveryInv' /\ D!DeliveryNext
    <2>1. ServerNext /\ Transmits /\ FeedWaits /\ UNCHANGED toServer
      BY <1>6 DEF ServerNotices, ServerEndsBatch, ServerNext
    <2>2. current \in Socket /\ link = "up" => Stays(current)
      BY <1>6, StaysOtherwise DEF ServerNotices, ServerEndsBatch, HowlerInv
    <2> QED
      BY <1>2, <2>1, <2>2
  <1> QED
    BY <1>3, <1>4, <1>5, <1>6, PublishDelivers

-----------------------------------------------------------------------------
(* The calls of the application are steps of Delivery *)

\* While the client acts, the server keeps its connections and subscriptions.
LEMMA WaitsMaps ==
    ASSUME ServerWaits
    PROVE  conn' = conn /\ auth' = auth /\ Subs' = Subs /\ changed' = {}
  BY QuietMaps DEF ServerWaits, socketVars

\* A call of which nothing is under way yet.
LEMMA FreshCall ==
    ASSUME HowlerInv, DeliveryInv, NEW id \in Call, calls[id] = Idle
    PROVE  /\ \A i \in DOMAIN toClient : IsAck(toClient[i]) => toClient[i].id # id
           /\ \A i \in DOMAIN toServer : toServer[i].id # id
  <1>1. \A i \in DOMAIN toClient : IsAck(toClient[i]) => toClient[i].id # id
    BY DEF DeliveryInv, AnswersAreCalls
  <1>2. ASSUME NEW i \in DOMAIN toServer, toServer[i].id = id
        PROVE  FALSE
    <2>1. id # Resubscription
      BY Channels
    <2>2. calls[id].at = current
      <3>1. toServer[i].id # Resubscription =>
              calls[toServer[i].id] = [type |-> toServer[i].type, dbNames |-> toServer[i].dbNames,
                                       at |-> current]
        BY DEF DeliveryInv, RequestsAreCalls
      <3> QED
        BY <1>2, <2>1, <3>1
    <2>3. current \in Socket
      BY <1>2, Channels
    <2> QED
      BY <2>2, <2>3, HowlerAssumption DEF Idle
  <1> QED
    BY <1>1, <1>2

\* A call of a client that is connected.
LEMMA EmitsInv ==
    ASSUME HowlerInv, DeliveryInv, connected, NEW id \in Call, CallsOf(id),
           NEW type \in {"subscribe", "unsubscribe", "log-out"},
           NEW dbNames \in SUBSET DB, Emits(id, type, dbNames),
           UNCHANGED subscribedToDBs
    PROVE  /\ DeliveryInv'
           /\ May' = IF type = "log-out" THEN May ELSE May \cup dbNames
           /\ Leaving' = IF type = "unsubscribe" THEN Leaving \cup dbNames ELSE Leaving
  <1> DEFINE r == [type |-> type, dbNames |-> dbNames, id |-> id]
             call == [type |-> type, dbNames |-> dbNames, at |-> current]
  <1>1. /\ calls[id] = Idle /\ calls' = [calls EXCEPT ![id] = call]
        /\ toServer' = IF link = "up" THEN Append(toServer, r) ELSE toServer
        /\ UNCHANGED <<subscribedToDBs, connected, ready, current, link, toClient>>
        /\ conn' = conn /\ auth' = auth /\ Served' = Served
    BY WaitsMaps DEF CallsOf, Emits, Served
  <1>2. /\ toClient \in Seq(Packet) /\ toServer \in Seq(Request)
        /\ calls \in [Call -> {Idle} \cup PendingCall]
        /\ current \in Socket /\ Attached(current)
    BY Channels
  <1>3. /\ r.id = id /\ r.type = type /\ r.dbNames = dbNames
        /\ call.type = type /\ call.dbNames = dbNames /\ call.at = current
        /\ call = [type |-> r.type, dbNames |-> r.dbNames, at |-> current]
        /\ id # Resubscription /\ call # Idle
    <2>1. current # NoSocket
      BY <1>2, HowlerAssumption
    <2> QED
      BY <2>1, Channels DEF Idle
  <1> HIDE DEF r, call
  <1>4. calls'[id] = call /\ \A i \in Call \ {id} : calls'[i] = calls[i]
    BY <1>1, <1>2
  <1>5. /\ \A i \in DOMAIN toClient : IsAck(toClient[i]) => toClient[i].id # id
        /\ \A i \in DOMAIN toServer : toServer[i].id # id
    BY <1>1, FreshCall
  <1>6. ASSUME NEW i \in DOMAIN toServer'
        PROVE  \/ i \in DOMAIN toServer /\ toServer'[i] = toServer[i]
               \/ i \notin DOMAIN toServer /\ toServer'[i] = r /\ i = Len(toServer) + 1
    BY <1>1, <1>2
  <1>7. ASSUME NEW i \in DOMAIN toClient, NEW t, NEW d
        PROVE  Answers(toClient[i], t, d)' <=> Answers(toClient[i], t, d)
    BY <1>1, <1>4, <1>5 DEF Answers, IsAck
  <1>8. ASSUME NEW types, "none" \notin types
        PROVE  Pending(types)' = IF type \in types THEN Pending(types) \cup dbNames
                                 ELSE Pending(types)
    <2>1. calls[id].type \notin types
      BY <1>1, <1>8 DEF Idle
    <2> QED
      BY <1>1, <1>3, <1>4, <2>1 DEF Pending
  <1>9. /\ May' = IF type = "log-out" THEN May ELSE May \cup dbNames
        /\ Leaving' = IF type = "unsubscribe" THEN Leaving \cup dbNames ELSE Leaving
    <2>1. Pending({"subscribe", "unsubscribe"})' =
            IF type = "log-out" THEN Pending({"subscribe", "unsubscribe"})
            ELSE Pending({"subscribe", "unsubscribe"}) \cup dbNames
      BY <1>8
    <2>2. Pending({"unsubscribe"})' =
            IF type = "unsubscribe" THEN Pending({"unsubscribe"}) \cup dbNames
            ELSE Pending({"unsubscribe"})
      BY <1>8
    <2> QED
      BY <1>1, <2>1, <2>2 DEF May, Leaving
  <1> USE DEF DeliveryInv
  <1>10. /\ QuietBeforeVerdict' /\ VerdictIsRead' /\ DisconnectIsLast' /\ LostIsEmpty'
         /\ UnconnectedIsQuiet' /\ ReadyIsConnected'
    BY <1>1 DEF QuietBeforeVerdict, VerdictIsRead, IsAccepted, DisconnectIsLast, LostIsEmpty,
       UnconnectedIsQuiet, ReadyIsConnected
  <1>11. CallsAreMade'
    <2>1. conn[current] # "unused"
      BY <1>2 DEF Attached, HowlerInv, ServerInv, UnusedAreFresh
    <2> QED
      BY <1>1, <1>3, <1>4, <2>1 DEF CallsAreMade
  <1>12. RequestsAreCalls'
    <2> SUFFICES ASSUME NEW i \in DOMAIN toServer'
                 PROVE  LET q == toServer'[i]
                        IN  IF q.id = Resubscription
                            THEN /\ i = 1 /\ q.type = "subscribe" /\ q.dbNames = subscribedToDBs
                                 /\ \A j \in DOMAIN toClient : ~IsAck(toClient[j])
                            ELSE calls'[q.id] = [type |-> q.type, dbNames |-> q.dbNames,
                                                 at |-> current]
      BY <1>1 DEF RequestsAreCalls, IsAck
    <2>1. CASE i \in DOMAIN toServer /\ toServer'[i] = toServer[i]
      <3>1. toServer[i] \in Request /\ toServer[i].id \in CallId
        <4>1. toServer[i] \in Request
          BY <1>2, <2>1
        <4> QED
          BY <4>1 DEF Request
      <3>2. toServer[i].id # Resubscription => toServer[i].id \in Call \ {id}
        BY <1>5, <2>1, <3>1, Channels
      <3> QED
        BY <1>4, <2>1, <3>2 DEF RequestsAreCalls
    <2>2. CASE toServer'[i] = r
      BY <1>3, <1>4, <2>2
    <2> QED
      BY <1>6, <2>1, <2>2
  <1>13. AnswersAreCalls'
    BY <1>1, <1>3, <1>4 DEF AnswersAreCalls, IsAck
  <1>14. OneAnswerEach'
    <2>1. \A i, j \in DOMAIN toServer' : toServer'[i].id = toServer'[j].id => i = j
      BY <1>3, <1>5, <1>6 DEF OneAnswerEach
    <2>2. \A i \in DOMAIN toServer', j \in DOMAIN toClient :
            IsAck(toClient[j]) => toServer'[i].id # toClient[j].id
      BY <1>3, <1>5, <1>6 DEF OneAnswerEach
    <2> QED
      BY <1>1, <2>1, <2>2 DEF OneAnswerEach, IsAck
  <1>15. SubscribesHold' /\ UnsubscribesHold'
    BY <1>1, <1>4, <1>5 DEF SubscribesHold, UnsubscribesHold, ConnectedTo, IsChange, Answers, IsAck
  <1>16. MayIsKept'
    BY <1>1, <1>9 DEF MayIsKept, IsChange
  <1>17. MustIsKept'
    BY <1>1, <1>9 DEF MustIsKept, ConnectedTo, IsResubscribed, IsAck
  <1> QED
    BY <1>9, <1>10, <1>11, <1>12, <1>13, <1>14, <1>15, <1>16, <1>17

\* subscribe() and unsubscribe() on a client that is connected.
LEMMA ConnectedCallDelivers ==
    ASSUME HowlerInv, DeliveryInv, HowlerInv', connected, NEW id \in Call, NEW d \in DB,
           SubscribeCall(id, d) \/ UnsubscribeCall(id, d)
    PROVE  DeliveryInv' /\ D!DeliveryNext
  <1>1. /\ CallsOf(id) /\ UNCHANGED subscribedToDBs
        /\ \/ Emits(id, "subscribe", {d})
           \/ Emits(id, "unsubscribe", {d})
    BY DEF SubscribeCall, UnsubscribeCall
  <1>2. /\ UNCHANGED <<subscribedToDBs, connected, ready, current, link, toClient, conn>>
        /\ changed' = {} /\ Changes(toClient)' = Changes(toClient)
    BY <1>1, WaitsMaps DEF CallsOf
  <1>3. CASE Emits(id, "subscribe", {d})
    <2>1. DeliveryInv' /\ May' = May \cup {d} /\ Leaving' = Leaving
      BY <1>1, <1>3, EmitsInv
    <2>2. Must' = Must
      BY <1>2, <2>1 DEF Must, ConnectedTo
    <2> QED
      BY <1>2, <2>1, <2>2, AskMaps
  <1>4. CASE Emits(id, "unsubscribe", {d})
    <2>1. DeliveryInv' /\ May' = May \cup {d} /\ Leaving' = Leaving \cup {d}
      BY <1>1, <1>4, EmitsInv
    <2>2. Must' = Must \ {d}
      BY <1>2, <2>1 DEF Must, ConnectedTo
    <2>3. CASE d \in May
      <3>1. May' = May
        BY <2>1, <2>3
      <3> QED
        BY <1>2, <2>1, <2>2, <3>1, RetractMaps
    <2>4. CASE d \notin May
      <3>1. Must' = Must
        BY <2>2, <2>4, MustIsMay
      <3> QED
        BY <1>2, <2>1, <3>1, AskMaps
    <2> QED
      BY <2>3, <2>4
  <1> QED
    BY <1>1, <1>3, <1>4

\* logOut(): nothing is promised or taken back before the server disconnects.
LEMMA LogOutDelivers ==
    ASSUME HowlerInv, DeliveryInv, HowlerInv', NEW id \in Call, LogOutCall(id)
    PROVE  DeliveryInv' /\ D!DeliveryNext
  <1>1. connected /\ CallsOf(id) /\ UNCHANGED subscribedToDBs /\ Emits(id, "log-out", {})
    BY DEF LogOutCall
  <1>2. /\ UNCHANGED <<subscribedToDBs, connected, ready, current, link, toClient, conn>>
        /\ changed' = {} /\ Changes(toClient)' = Changes(toClient)
    BY <1>1, WaitsMaps DEF CallsOf
  <1>3. DeliveryInv' /\ May' = May /\ Leaving' = Leaving
    BY <1>1, EmitsInv
  <1>4. Must' = Must
    BY <1>2, <1>3 DEF Must, ConnectedTo
  <1> QED
    BY <1>2, <1>3, <1>4, MayTypes, SilenceMaps DEF DeliveryInv

\* subscribe() and unsubscribe() on a client that is not: the databases are
\* kept for the next connection.
LEMMA UnconnectedCallDelivers ==
    ASSUME HowlerInv, DeliveryInv, HowlerInv', ~connected, NEW id \in Call, NEW d \in DB,
           SubscribeCall(id, d) \/ UnsubscribeCall(id, d)
    PROVE  DeliveryInv' /\ D!DeliveryNext
  <1>1. /\ \/ subscribedToDBs' = subscribedToDBs \cup {d}
           \/ subscribedToDBs' = subscribedToDBs \ {d}
        /\ UNCHANGED <<connected, ready, current, link, calls, toServer, toClient>>
        /\ conn' = conn /\ auth' = auth /\ Served' = Served /\ changed' = {}
    BY WaitsMaps DEF SubscribeCall, UnsubscribeCall, CallsOf, Served
  <1>2. /\ ~ready /\ toServer = <<>>
        /\ link = "up" => Served = {}
        /\ \A i \in DOMAIN toClient : toClient[i].type \notin {"ack", "change"}
    BY Channels DEF DeliveryInv, ReadyIsConnected, UnconnectedIsQuiet
  <1>3. DeliveryInv'
    <2> USE DEF DeliveryInv
    <2>1. /\ QuietBeforeVerdict' /\ VerdictIsRead' /\ DisconnectIsLast' /\ LostIsEmpty'
          /\ UnconnectedIsQuiet' /\ ReadyIsConnected' /\ CallsAreMade'
      BY <1>1 DEF QuietBeforeVerdict, VerdictIsRead, IsAccepted, DisconnectIsLast, LostIsEmpty,
         UnconnectedIsQuiet, ReadyIsConnected, CallsAreMade
    <2>2. RequestsAreCalls' /\ AnswersAreCalls' /\ OneAnswerEach'
      BY <1>1, <1>2 DEF RequestsAreCalls, AnswersAreCalls, OneAnswerEach, IsAck
    <2>3. SubscribesHold' /\ UnsubscribesHold'
      BY <1>1, <1>2 DEF SubscribesHold, UnsubscribesHold, Answers, IsAck
    <2>4. MayIsKept' /\ MustIsKept'
      BY <1>1, <1>2 DEF MayIsKept, MustIsKept, IsChange, IsResubscribed, IsAck
    <2> QED
      BY <2>1, <2>2, <2>3, <2>4
  <1>4. Must' = Must /\ Changes(toClient)' = Changes(toClient)
    BY <1>1, <1>2 DEF Must
  <1>5. Pending({"subscribe", "unsubscribe"})' = Pending({"subscribe", "unsubscribe"})
    BY <1>1 DEF Pending
  <1>6. CASE subscribedToDBs' = subscribedToDBs \cup {d}
    <2>1. May' = May \cup {d}
      BY <1>5, <1>6 DEF May
    <2> QED
      BY <1>1, <1>3, <1>4, <2>1, AskMaps
  <1>7. CASE subscribedToDBs' = subscribedToDBs \ {d}
    <2>1. May' \subseteq May
      BY <1>5, <1>7 DEF May
    <2> QED
      BY <1>1, <1>3, <1>4, <2>1, MayTypes, SilenceMaps DEF DeliveryInv
  <1> QED
    BY <1>1, <1>6, <1>7

-----------------------------------------------------------------------------
(* The client's connections come and go: these are steps of Delivery *)

\* A connection is lost, with all that is under way.
LEMMA LostDelivers ==
    ASSUME HowlerInv, DeliveryInv, HowlerInv', ServerWaits,
           UNCHANGED <<subscribedToDBs, current, calls>>,
           toServer' = <<>>, toClient' = <<>>, link' # "up",
           ready' => connected'
    PROVE  DeliveryInv' /\ D!DeliveryNext
  <1>1. conn' = conn /\ auth' = auth /\ Served' = Served /\ changed' = {}
    BY WaitsMaps DEF Served
  <1>2. DeliveryInv'
    BY <1>1 DEF DeliveryInv, QuietBeforeVerdict, VerdictIsRead, DisconnectIsLast, LostIsEmpty,
       UnconnectedIsQuiet, ReadyIsConnected, CallsAreMade, RequestsAreCalls, AnswersAreCalls,
       OneAnswerEach, SubscribesHold, UnsubscribesHold, MayIsKept, MustIsKept, ConnectedTo
  <1>3. May' = May
    BY DEF May, Pending
  <1>4. Must' = {}
    BY DEF Must, ConnectedTo
  <1>5. Changes(toClient)' = <<>>
    BY NoChanges
  <1> QED
    BY <1>1, <1>2, <1>3, <1>4, <1>5, LoseMaps

\* The server disconnects, the client notices, or the transport is cut.
LEMMA ConnectionDelivers ==
    ASSUME HowlerInv, DeliveryInv, HowlerInv',
           LogIn \/ Notices \/ Cut \/ ReceiveDisconnect
    PROVE  DeliveryInv' /\ D!DeliveryNext
  <1>1. CASE LogIn
    <2>1. link # "up" /\ changed' = {} /\ conn' = conn
      BY <1>1, WaitsMaps DEF LogIn
    <2> QED
      BY <1>1, <2>1, StaysDelivers DEF LogIn
  <1>2. CASE Notices
    <2>1. toClient = <<>>
      BY <1>2 DEF Notices, DeliveryInv, LostIsEmpty
    <2> QED
      BY <1>2, <2>1, LostDelivers DEF Notices, Disconnected
  <1>3. CASE Cut
    BY <1>3, LostDelivers DEF Cut, DeliveryInv, ReadyIsConnected
  <1>4. CASE ReceiveDisconnect
    <2>1. /\ toClient # <<>> /\ Head(toClient).type = "disconnect"
          /\ toClient' = Tail(toClient) /\ ServerWaits
      BY <1>4 DEF ReceiveDisconnect, Receives
    <2>2. 1 \in DOMAIN toClient /\ toClient[1] = Head(toClient) /\ toClient \in Seq(Packet)
      BY <2>1, Channels
    <2>3. Len(toClient) = 1
      BY <2>1, <2>2 DEF DeliveryInv, DisconnectIsLast
    <2>4. toClient' = <<>>
      BY <2>1, <2>2, <2>3
    <2> QED
      BY <1>4, <2>1, <2>4, LostDelivers DEF ReceiveDisconnect, Receives, Disconnected
  <1> QED
    BY <1>1, <1>2, <1>3, <1>4

\* A new connection, whose calls are yet to be made: what was asked on the last
\* one and never answered is given up.
LEMMA OpensDelivers ==
    ASSUME HowlerInv, DeliveryInv, HowlerInv', NEW s \in Socket, Opens(s)
    PROVE  DeliveryInv' /\ D!DeliveryNext
  <1>1. /\ link = "none" /\ link' = "up" /\ current' = s
        /\ toServer' = <<>> /\ toClient' = <<>> /\ changed' = {}
        /\ UNCHANGED <<subscribedToDBs, connected, ready, calls>>
        /\ conn[s] = "unused" /\ conn' = [conn EXCEPT ![s] = "open"]
        /\ auth' = [auth EXCEPT ![s] = "pending"]
    BY DEF Opens, Connect
  <1>2. ~connected /\ ~ready /\ toClient = <<>>
    BY <1>1, Channels DEF DeliveryInv, ReadyIsConnected, LostIsEmpty
  <1>3. Served' = {}
    BY <1>1 DEF Served, Subs, Live, Attached, HowlerInv, ServerInv, ServerTypeOK
  <1>4. \A t \in Socket : conn[t] # "unused" => conn'[t] # "unused"
    BY <1>1
  <1>5. \A id \in Call : calls[id] # Idle => calls[id].at \in Socket /\ calls[id].at # s
    BY <1>1, Channels DEF PendingCall, DeliveryInv, CallsAreMade
  <1>6. \A id \in Call : calls[id].at # s
    BY <1>5, HowlerAssumption DEF Idle
  <1>7. DeliveryInv'
    <2> USE DEF DeliveryInv
    <2>1. CallsAreMade'
      BY <1>1, <1>4, <1>5 DEF CallsAreMade
    <2>2. ReadyIsConnected' /\ UnconnectedIsQuiet'
      BY <1>1, <1>2, <1>3 DEF ReadyIsConnected, UnconnectedIsQuiet
    <2>3. MayIsKept' /\ MustIsKept'
      BY <1>1, <1>2, <1>3 DEF MayIsKept, MustIsKept
    <2> QED
      BY <1>1, <2>1, <2>2, <2>3
      DEF QuietBeforeVerdict, VerdictIsRead, DisconnectIsLast, LostIsEmpty, RequestsAreCalls,
          AnswersAreCalls, OneAnswerEach, SubscribesHold, UnsubscribesHold
  <1>8. May' \subseteq May
    <2>1. \A types : Pending(types)' = {}
      BY <1>1, <1>6 DEF Pending
    <2> QED
      BY <1>1, <2>1 DEF May
  <1>9. Must' = Must /\ Changes(toClient)' = Changes(toClient)
    BY <1>1, <1>2 DEF Must
  <1> QED
    BY <1>1, <1>7, <1>8, <1>9, MayTypes, SilenceMaps DEF DeliveryInv

-----------------------------------------------------------------------------
(* What the client receives: these are steps of Delivery *)

\* The packets that are left once the first is read.
LEMMA FirstRead ==
    ASSUME HowlerInv, toClient # <<>>, toClient' = Tail(toClient)
    PROVE  /\ toClient \in Seq(Packet)
           /\ 1 \in DOMAIN toClient /\ toClient[1] = Head(toClient)
           /\ Len(toClient) \in Nat /\ Len(toClient') = Len(toClient) - 1
           /\ \A i \in DOMAIN toClient' :
                /\ i \in Nat \ {0} /\ i + 1 \in DOMAIN toClient
                /\ toClient'[i] = toClient[i + 1]
           /\ \A k \in DOMAIN toClient :
                k \in Nat \ {0} /\ (k > 1 => k - 1 \in DOMAIN toClient')
           /\ Head(toClient).type = "change" =>
                Changes(toClient) # <<>> /\ Changes(toClient)' = Tail(Changes(toClient))
           /\ Head(toClient).type # "change" => Changes(toClient)' = Changes(toClient)
  <1>1. toClient \in Seq(Packet)
    BY Channels
  <1>2. /\ 1 \in DOMAIN toClient /\ toClient[1] = Head(toClient)
        /\ Len(toClient) \in Nat /\ Len(toClient') = Len(toClient) - 1
        /\ \A i \in DOMAIN toClient' :
             /\ i \in Nat \ {0} /\ i + 1 \in DOMAIN toClient
             /\ toClient'[i] = toClient[i + 1]
        /\ \A k \in DOMAIN toClient :
             k \in Nat \ {0} /\ (k > 1 => k - 1 \in DOMAIN toClient')
    BY <1>1
  <1>3. Changes(toClient)' = Changes(Tail(toClient))
    OBVIOUS
  <1> QED
    BY <1>1, <1>2, <1>3, ChangesTail

\* What is true of the connection of a client that reads a packet.
LEMMA ReadKeeps ==
    ASSUME HowlerInv, DeliveryInv, link = "up", toClient # <<>>, toClient' = Tail(toClient),
           ServerWaits, UNCHANGED <<current, link>>
    PROVE  /\ conn' = conn /\ auth' = auth /\ Served' = Served /\ changed' = {}
           /\ QuietBeforeVerdict' /\ DisconnectIsLast' /\ LostIsEmpty'
           /\ \A i \in DOMAIN toClient' : ~IsAccepted(toClient'[i])
  <1>1. conn' = conn /\ auth' = auth /\ Served' = Served /\ changed' = {}
    BY WaitsMaps DEF Served
  <1>2. QuietBeforeVerdict' /\ LostIsEmpty'
    BY <1>1 DEF DeliveryInv, QuietBeforeVerdict, LostIsEmpty
  <1>3. ASSUME NEW i \in DOMAIN toClient'
        PROVE  /\ ~IsAccepted(toClient'[i])
               /\ toClient'[i].type = "disconnect" =>
                    i = Len(toClient') /\ conn'[current] = "closed"
    <2>1. /\ i \in Nat \ {0} /\ i + 1 \in DOMAIN toClient /\ toClient'[i] = toClient[i + 1]
          /\ Len(toClient) \in Nat /\ Len(toClient') = Len(toClient) - 1
      BY FirstRead
    <2>2. i + 1 # 1
      BY <2>1
    <2>3. ~IsAccepted(toClient[i + 1])
      BY <2>1, <2>2 DEF DeliveryInv, VerdictIsRead
    <2>4. toClient[i + 1].type = "disconnect" =>
            i + 1 = Len(toClient) /\ conn[current] = "closed"
      BY <2>1 DEF DeliveryInv, DisconnectIsLast
    <2> QED
      BY <1>1, <2>1, <2>3, <2>4
  <1> QED
    BY <1>1, <1>2, <1>3 DEF DisconnectIsLast

\* What the server answered holds of the packets that are left.
LEMMA ReadHolds ==
    ASSUME HowlerInv, DeliveryInv, toClient # <<>>, toClient' = Tail(toClient)
    PROVE  /\ ConnectedTo(current) =>
                \A d \in DB : \A i \in DOMAIN toClient' :
                    Answers(toClient'[i], "subscribe", d)
                    => \/ d \in Served
                       \/ \E k \in DOMAIN toClient' :
                            k > i /\ Answers(toClient'[k], "unsubscribe", d)
           /\ \A d \in DB : \A i \in DOMAIN toClient' :
                Answers(toClient'[i], "unsubscribe", d)
                => /\ d \in Served =>
                        \E k \in DOMAIN toClient' :
                          k > i /\ Answers(toClient'[k], "subscribe", d)
                   /\ \A j \in DOMAIN toClient' :
                        j > i /\ IsChange(toClient'[j], d) =>
                            \E k \in DOMAIN toClient' :
                              i < k /\ k < j /\ Answers(toClient'[k], "subscribe", d)
  <1>1. /\ \A i \in DOMAIN toClient' :
             /\ i \in Nat \ {0} /\ i + 1 \in DOMAIN toClient
             /\ toClient'[i] = toClient[i + 1]
        /\ \A k \in DOMAIN toClient :
             k \in Nat \ {0} /\ (k > 1 => k - 1 \in DOMAIN toClient')
    BY FirstRead
  <1> USE DEF DeliveryInv
  <1>2. ASSUME ConnectedTo(current), NEW d \in DB, NEW i \in DOMAIN toClient',
               Answers(toClient'[i], "subscribe", d)
        PROVE  \/ d \in Served
               \/ \E k \in DOMAIN toClient' :
                    k > i /\ Answers(toClient'[k], "unsubscribe", d)
    <2>1. \/ d \in Served
          \/ \E k \in DOMAIN toClient : k > i + 1 /\ Answers(toClient[k], "unsubscribe", d)
      BY <1>1, <1>2 DEF SubscribesHold
    <2>2. ASSUME NEW k \in DOMAIN toClient, k > i + 1
          PROVE  k - 1 \in DOMAIN toClient' /\ k - 1 > i /\ toClient'[k - 1] = toClient[k]
      <3>1. k \in Nat /\ i \in Nat /\ k > 1 /\ k - 1 > i /\ k - 1 + 1 = k
        BY <1>1, <2>2
      <3> QED
        BY <1>1, <3>1
    <2> QED
      BY <2>1, <2>2
  <1>3. ASSUME NEW d \in DB, NEW i \in DOMAIN toClient',
               Answers(toClient'[i], "unsubscribe", d)
        PROVE  /\ d \in Served =>
                    \E k \in DOMAIN toClient' :
                      k > i /\ Answers(toClient'[k], "subscribe", d)
               /\ \A j \in DOMAIN toClient' :
                    j > i /\ IsChange(toClient'[j], d) =>
                      \E k \in DOMAIN toClient' :
                        i < k /\ k < j /\ Answers(toClient'[k], "subscribe", d)
    <2>1. i + 1 \in DOMAIN toClient /\ Answers(toClient[i + 1], "unsubscribe", d)
      BY <1>1, <1>3
    <2>2. ASSUME NEW k \in DOMAIN toClient, k > i + 1
          PROVE  k - 1 \in DOMAIN toClient' /\ k - 1 > i /\ toClient'[k - 1] = toClient[k]
      <3>1. k \in Nat /\ i \in Nat /\ k > 1 /\ k - 1 > i /\ k - 1 + 1 = k
        BY <1>1, <2>2
      <3> QED
        BY <1>1, <3>1
    <2>3. d \in Served =>
            \E k \in DOMAIN toClient' : k > i /\ Answers(toClient'[k], "subscribe", d)
      BY <2>1, <2>2 DEF UnsubscribesHold
    <2>4. ASSUME NEW j \in DOMAIN toClient', j > i, IsChange(toClient'[j], d)
          PROVE  \E k \in DOMAIN toClient' :
                   i < k /\ k < j /\ Answers(toClient'[k], "subscribe", d)
      <3>1. /\ j + 1 \in DOMAIN toClient /\ j + 1 > i + 1 /\ IsChange(toClient[j + 1], d)
            /\ j \in Nat /\ i \in Nat
        BY <1>1, <2>4
      <3>2. PICK k \in DOMAIN toClient :
              i + 1 < k /\ k < j + 1 /\ Answers(toClient[k], "subscribe", d)
        BY <2>1, <3>1 DEF UnsubscribesHold
      <3>3. k \in Nat /\ k > i + 1 /\ k - 1 < j /\ i < k - 1
        BY <1>1, <3>1, <3>2
      <3> QED
        BY <2>2, <3>2, <3>3
    <2> QED
      BY <2>3, <2>4
  <1> QED
    BY <1>2, <1>3

\* A packet is read that the client's subscriptions do not depend on: it may make
\* the client ready, when it answers the resubscription.
LEMMA ReadInv ==
    ASSUME HowlerInv, DeliveryInv, link = "up", toClient # <<>>, toClient' = Tail(toClient),
           ServerWaits,
           UNCHANGED <<subscribedToDBs, connected, current, link, calls, toServer>>,
           ready' => ready \/ IsResubscribed(Head(toClient))
    PROVE  DeliveryInv'
  <1>1. /\ conn' = conn /\ auth' = auth /\ Served' = Served
        /\ QuietBeforeVerdict' /\ DisconnectIsLast' /\ LostIsEmpty'
        /\ \A i \in DOMAIN toClient' : ~IsAccepted(toClient'[i])
    BY ReadKeeps
  <1>2. /\ 1 \in DOMAIN toClient /\ toClient[1] = Head(toClient)
        /\ \A i \in DOMAIN toClient' :
             /\ i \in Nat \ {0} /\ i + 1 \in DOMAIN toClient
             /\ toClient'[i] = toClient[i + 1]
        /\ \A k \in DOMAIN toClient :
             k \in Nat \ {0} /\ (k > 1 => k - 1 \in DOMAIN toClient')
    BY FirstRead
  <1> USE DEF DeliveryInv
  <1>3. VerdictIsRead'
    BY <1>1 DEF VerdictIsRead, IsAccepted
  <1>4. UnconnectedIsQuiet' /\ ReadyIsConnected' /\ CallsAreMade'
    BY <1>1, <1>2 DEF UnconnectedIsQuiet, ReadyIsConnected, CallsAreMade, IsResubscribed, IsAck
  <1>5. RequestsAreCalls' /\ AnswersAreCalls'
    BY <1>2 DEF RequestsAreCalls, AnswersAreCalls, IsAck
  <1>6. OneAnswerEach'
    <2>1. \A i, j \in DOMAIN toClient' :
            IsAck(toClient'[i]) /\ IsAck(toClient'[j]) /\ toClient'[i].id = toClient'[j].id
            => i = j
      <3> SUFFICES ASSUME NEW i \in DOMAIN toClient', NEW j \in DOMAIN toClient',
                          IsAck(toClient'[i]), IsAck(toClient'[j]),
                          toClient'[i].id = toClient'[j].id
                   PROVE  i = j
        OBVIOUS
      <3>1. i + 1 = j + 1
        BY <1>2 DEF OneAnswerEach
      <3> QED
        BY <1>2, <3>1
    <2> QED
      BY <1>2, <2>1 DEF OneAnswerEach, IsAck
  <1>7. SubscribesHold'
    BY <1>1, ReadHolds DEF SubscribesHold, ConnectedTo, Answers, IsAck
  <1>8. UnsubscribesHold'
    BY <1>1, ReadHolds DEF UnsubscribesHold, Answers, IsAck, IsChange
  <1>9. May' = May /\ Leaving' = Leaving
    BY DEF May, Leaving, Pending
  <1>10. MayIsKept'
    BY <1>1, <1>2, <1>9 DEF MayIsKept, IsChange
  <1>11. MustIsKept'
    BY <1>1, <1>2, <1>9 DEF MustIsKept, ConnectedTo, IsResubscribed, IsAck
  <1> QED
    BY <1>1, <1>3, <1>4, <1>5, <1>6, <1>7, <1>8, <1>10, <1>11

\* It is told to the application when it is a change, and promises what the
\* application subscribed to when it is the answer to the resubscription.
LEMMA ReadDelivers ==
    ASSUME HowlerInv, DeliveryInv, HowlerInv', link = "up", toClient # <<>>,
           toClient' = Tail(toClient), ServerWaits,
           UNCHANGED <<subscribedToDBs, connected, current, link, calls, toServer>>,
           ready => ready', ready' => ready \/ IsResubscribed(Head(toClient))
    PROVE  DeliveryInv' /\ D!DeliveryNext
  <1>1. DeliveryInv'
    BY ReadInv
  <1>2. conn' = conn /\ changed' = {}
    BY ReadKeeps
  <1>3. May' = May /\ Leaving' = Leaving
    BY DEF May, Leaving, Pending
  <1>4. CASE Head(toClient).type = "change"
    <2>1. ready' = ready
      <3>1. ready \in BOOLEAN /\ ready' \in BOOLEAN
        BY DEF HowlerInv, HowlerTypeOK
      <3>2. ~IsResubscribed(Head(toClient))
        BY <1>4 DEF IsResubscribed, IsAck
      <3> QED
        BY <3>1, <3>2
    <2>2. Must' = Must
      BY <1>2, <1>3, <2>1 DEF Must, ConnectedTo
    <2> QED
      BY <1>1, <1>2, <1>3, <1>4, <2>2, FirstRead, TellMaps
  <1>5. CASE Head(toClient).type # "change"
    <2>1. Must \subseteq Must'
      BY <1>2, <1>3 DEF Must, ConnectedTo
    <2> QED
      BY <1>1, <1>2, <1>3, <1>5, <2>1, FirstRead, ConfirmMaps
  <1> QED
    BY <1>4, <1>5

\* The verdict: what the application subscribed to is asked for, and promised at
\* once only when it is nothing.
LEMMA OnConnectDelivers ==
    ASSUME HowlerInv, DeliveryInv, HowlerInv', ReceiveAuthenticated, OnConnect
    PROVE  DeliveryInv' /\ D!DeliveryNext
  <1>1. /\ link = "up" /\ toClient # <<>> /\ toClient' = Tail(toClient)
        /\ IsAccepted(Head(toClient)) /\ ServerWaits
        /\ UNCHANGED <<subscribedToDBs, current, link, calls>>
    BY DEF ReceiveAuthenticated, Receives, IsAccepted
  <1>2. /\ conn' = conn /\ auth' = auth /\ Served' = Served /\ changed' = {}
        /\ QuietBeforeVerdict' /\ DisconnectIsLast' /\ LostIsEmpty'
        /\ \A i \in DOMAIN toClient' : ~IsAccepted(toClient'[i])
    BY <1>1, ReadKeeps
  <1>3. /\ 1 \in DOMAIN toClient /\ toClient[1] = Head(toClient)
        /\ \A i \in DOMAIN toClient' : i + 1 \in DOMAIN toClient
                                       /\ toClient'[i] = toClient[i + 1]
        /\ Changes(toClient)' = Changes(toClient)
    BY <1>1, FirstRead DEF IsAccepted
  <1>4. ~connected
    BY <1>1, <1>3 DEF DeliveryInv, VerdictIsRead
  <1>5. /\ ~ready /\ toServer = <<>> /\ Served = {}
        /\ \A i \in DOMAIN toClient' : toClient'[i].type \notin {"ack", "change"}
    BY <1>1, <1>3, <1>4, Channels DEF DeliveryInv, ReadyIsConnected, UnconnectedIsQuiet
  <1> DEFINE r == [type |-> "subscribe", dbNames |-> subscribedToDBs, id |-> Resubscription]
  <1>6. /\ connected' = TRUE
        /\ ready' => subscribedToDBs = {}
        /\ toServer' = <<>> \/ toServer' = Append(<<>>, r)
    BY <1>5 DEF OnConnect
  <1>7. ASSUME NEW i \in DOMAIN toServer'
        PROVE  i = 1 /\ toServer'[i] = r
    <2> HIDE DEF r
    <2> QED
      BY <1>6
  <1>8. r.id = Resubscription /\ r.type = "subscribe" /\ r.dbNames = subscribedToDBs
    OBVIOUS
  <1> HIDE DEF r
  <1>9. DeliveryInv'
    <2> USE DEF DeliveryInv
    <2>1. VerdictIsRead' /\ UnconnectedIsQuiet' /\ ReadyIsConnected' /\ CallsAreMade'
      BY <1>1, <1>2, <1>6 DEF VerdictIsRead, IsAccepted, UnconnectedIsQuiet,
         ReadyIsConnected, CallsAreMade
    <2>2. RequestsAreCalls'
      BY <1>1, <1>5, <1>7, <1>8 DEF RequestsAreCalls, IsAck
    <2>3. AnswersAreCalls' /\ OneAnswerEach'
      BY <1>5, <1>7 DEF AnswersAreCalls, OneAnswerEach, IsAck
    <2>4. SubscribesHold' /\ UnsubscribesHold'
      BY <1>5 DEF SubscribesHold, UnsubscribesHold, Answers, IsAck
    <2>5. MayIsKept' /\ MustIsKept'
      BY <1>1, <1>2, <1>5, <1>6 DEF MayIsKept, MustIsKept, IsChange, IsResubscribed, IsAck
    <2> QED
      BY <1>2, <2>1, <2>2, <2>3, <2>4, <2>5
  <1>10. May' = May /\ Must' = Must
    BY <1>1, <1>5, <1>6 DEF May, Must, Pending
  <1> QED
    BY <1>2, <1>3, <1>9, <1>10, MayTypes, SilenceMaps DEF DeliveryInv

\* The answer to a call, and the databases that are pending without it.
LEMMA AnswerMaps ==
    ASSUME HowlerInv, DeliveryInv, NEW id \in Call, ReceiveAnswer(id)
    PROVE  /\ link = "up" /\ toClient # <<>> /\ toClient' = Tail(toClient) /\ ServerWaits
           /\ connected /\ IsAck(Head(toClient)) /\ Head(toClient).id = id
           /\ UNCHANGED <<connected, ready, current, link, toServer>>
           /\ calls[id] \in PendingCall /\ calls[id].at = current
           /\ calls'[id] = Idle /\ \A i \in Call \ {id} : calls'[i] = calls[i]
           /\ subscribedToDBs' = Noted(calls[id])
           /\ \A types : "none" \notin types =>
                /\ Pending(types)' \subseteq Pending(types)
                /\ calls[id].type \notin types => Pending(types)' = Pending(types)
                /\ calls[id].type \in types =>
                     Pending(types) = Pending(types)' \cup calls[id].dbNames
  <1>1. /\ link = "up" /\ toClient # <<>> /\ toClient' = Tail(toClient) /\ ServerWaits
        /\ IsAck(Head(toClient)) /\ Head(toClient).id = id
        /\ UNCHANGED <<connected, ready, current, link, toServer>>
        /\ calls' = [calls EXCEPT ![id] = Idle]
        /\ subscribedToDBs' = IF Head(toClient).error THEN subscribedToDBs ELSE Noted(calls[id])
    BY DEF ReceiveAnswer, Receives, IsAck
  <1>2. 1 \in DOMAIN toClient /\ toClient[1] = Head(toClient)
    BY <1>1, FirstRead
  <1>3. ~Head(toClient).error /\ calls[id] # Idle /\ calls[id].at = current
    BY <1>1, <1>2 DEF DeliveryInv, AnswersAreCalls
  <1>4. connected
    BY <1>1, <1>2 DEF DeliveryInv, UnconnectedIsQuiet, IsAck
  <1>5. calls[id] \in PendingCall
    BY <1>3, Channels
  <1>6. calls'[id] = Idle /\ \A i \in Call \ {id} : calls'[i] = calls[i]
    BY <1>1, Channels
  <1>7. ASSUME NEW types, "none" \notin types
        PROVE  /\ Pending(types)' \subseteq Pending(types)
               /\ calls[id].type \notin types => Pending(types)' = Pending(types)
               /\ calls[id].type \in types =>
                    Pending(types) = Pending(types)' \cup calls[id].dbNames
    <2>1. Idle.type = "none"
      BY DEF Idle
    <2> QED
      BY <1>1, <1>3, <1>6, <1>7, <2>1 DEF Pending
  <1> QED
    BY <1>1, <1>3, <1>4, <1>5, <1>6, <1>7

\* What the application may and must be told once it knows the answer.
LEMMA AnswerPromises ==
    ASSUME HowlerInv, DeliveryInv, NEW id \in Call, ReceiveAnswer(id)
    PROVE  /\ May' \subseteq May
           /\ calls[id].type # "unsubscribe" => May' = May
           /\ May \ May' \subseteq calls[id].dbNames
           /\ calls[id].type = "subscribe" =>
                subscribedToDBs' \ Leaving' = (subscribedToDBs \cup calls[id].dbNames) \ Leaving
           /\ calls[id].type # "subscribe" =>
                subscribedToDBs' \ Leaving' = subscribedToDBs \ Leaving
  <1> DEFINE call == calls[id]
             P == Pending({"subscribe", "unsubscribe"})
             Q == Pending({"unsubscribe"})
  <1>1. /\ call.type \in {"subscribe", "unsubscribe", "log-out"}
        /\ subscribedToDBs' = Noted(call)
    BY AnswerMaps DEF PendingCall
  <1>2. /\ P' \subseteq P
        /\ call.type \notin {"subscribe", "unsubscribe"} => P' = P
        /\ call.type \in {"subscribe", "unsubscribe"} => P = P' \cup call.dbNames
    BY AnswerMaps
  <1>3. /\ call.type \notin {"unsubscribe"} => Q' = Q
        /\ call.type \in {"unsubscribe"} => Q = Q' \cup call.dbNames
    BY AnswerMaps
  <1>4. May = subscribedToDBs \cup P /\ May' = subscribedToDBs' \cup P'
        /\ Leaving = Q /\ Leaving' = Q'
    BY DEF May, Leaving
  <1>5. /\ call.type = "subscribe" => subscribedToDBs' = subscribedToDBs \cup call.dbNames
        /\ call.type = "unsubscribe" => subscribedToDBs' = subscribedToDBs \ call.dbNames
        /\ call.type = "log-out" => subscribedToDBs' = subscribedToDBs
    BY <1>1 DEF Noted
  <1> HIDE DEF call, P, Q
  <1>6. CASE call.type = "subscribe"
    BY <1>2, <1>3, <1>4, <1>5, <1>6 DEF call
  <1>7. CASE call.type = "unsubscribe"
    BY <1>2, <1>3, <1>4, <1>5, <1>7 DEF call
  <1>8. CASE call.type = "log-out"
    BY <1>2, <1>3, <1>4, <1>5, <1>8 DEF call
  <1> QED
    BY <1>1, <1>6, <1>7, <1>8

\* Another answer or request is that of another call.
LEMMA OtherAnswers ==
    ASSUME HowlerInv, DeliveryInv, NEW id \in Call, ReceiveAnswer(id)
    PROVE  /\ \A i \in DOMAIN toServer : toServer[i].id \in Call \ {id}
           /\ \A i \in DOMAIN toClient' : IsAck(toClient'[i]) => toClient'[i].id # id
  <1>1. /\ toClient # <<>> /\ toClient' = Tail(toClient)
        /\ IsAck(Head(toClient)) /\ Head(toClient).id = id
        /\ \A i \in Call \ {id} : calls'[i] = calls[i]
    BY AnswerMaps
  <1>2. /\ 1 \in DOMAIN toClient /\ toClient[1] = Head(toClient)
        /\ \A i \in DOMAIN toClient' :
             /\ i \in Nat \ {0} /\ i + 1 \in DOMAIN toClient
             /\ toClient'[i] = toClient[i + 1]
        /\ \A k \in DOMAIN toClient : k \in Nat \ {0}
    BY <1>1, FirstRead
  <1> USE DEF DeliveryInv
  <1>3. ASSUME NEW i \in DOMAIN toServer
        PROVE  toServer[i].id \in Call \ {id}
    <2>1. toServer[i] \in Request
      BY Channels
    <2>2. toServer[i].id \in CallId
      BY <2>1 DEF Request
    <2>3. toServer[i].id # Resubscription
      BY <1>1, <1>2 DEF RequestsAreCalls
    <2>4. toServer[i].id # id
      BY <1>1, <1>2 DEF OneAnswerEach
    <2> QED
      BY <2>2, <2>3, <2>4, Channels
  <1>4. ASSUME NEW i \in DOMAIN toClient, i > 1, IsAck(toClient[i])
        PROVE  toClient[i].id # id
    BY <1>1, <1>2, <1>4 DEF OneAnswerEach
  <1>5. ASSUME NEW i \in DOMAIN toClient', IsAck(toClient'[i])
        PROVE  toClient'[i].id # id
    <2>1. i + 1 > 1
      BY <1>2
    <2> QED
      BY <1>2, <1>4, <1>5, <2>1
  <1> QED
    BY <1>3, <1>5

\* A call is answered.
LEMMA AnswerInv ==
    ASSUME HowlerInv, DeliveryInv, NEW id \in Call, ReceiveAnswer(id)
    PROVE  DeliveryInv'
  <1> DEFINE call == calls[id]
  <1>1. /\ link = "up" /\ toClient # <<>> /\ toClient' = Tail(toClient) /\ ServerWaits
        /\ connected /\ IsAck(Head(toClient)) /\ Head(toClient).id = id
        /\ UNCHANGED <<connected, ready, current, link, toServer>>
        /\ call \in PendingCall /\ call.at = current
        /\ calls'[id] = Idle /\ \A i \in Call \ {id} : calls'[i] = calls[i]
    BY AnswerMaps
  <1>2. /\ conn' = conn /\ auth' = auth /\ Served' = Served
        /\ QuietBeforeVerdict' /\ DisconnectIsLast' /\ LostIsEmpty'
        /\ \A i \in DOMAIN toClient' : ~IsAccepted(toClient'[i])
    BY <1>1, ReadKeeps
  <1>3. /\ 1 \in DOMAIN toClient /\ toClient[1] = Head(toClient)
        /\ \A i \in DOMAIN toClient' :
             /\ i \in Nat \ {0} /\ i + 1 \in DOMAIN toClient
             /\ toClient'[i] = toClient[i + 1]
        /\ \A k \in DOMAIN toClient :
             k \in Nat \ {0} /\ (k > 1 => k - 1 \in DOMAIN toClient')
    BY <1>1, FirstRead
  <1>4. /\ \A i \in DOMAIN toServer : toServer[i].id \in Call \ {id}
        /\ \A i \in DOMAIN toClient' : IsAck(toClient'[i]) => toClient'[i].id # id
    BY OtherAnswers
  <1>5. call.type \in {"subscribe", "unsubscribe", "log-out"} /\ call.dbNames \in SUBSET DB
    BY <1>1 DEF PendingCall
  <1>6. ASSUME NEW d \in call.dbNames
        PROVE  Answers(toClient[1], call.type, d)
    BY <1>1, <1>3, <1>6 DEF Answers
  <1> HIDE DEF call
  <1> USE DEF DeliveryInv
  <1>7. VerdictIsRead' /\ UnconnectedIsQuiet' /\ ReadyIsConnected'
    BY <1>1, <1>2 DEF VerdictIsRead, IsAccepted, UnconnectedIsQuiet, ReadyIsConnected
  <1>8. CallsAreMade'
    BY <1>1, <1>2 DEF CallsAreMade
  <1>9. RequestsAreCalls'
    <2> SUFFICES ASSUME NEW i \in DOMAIN toServer
                 PROVE  /\ toServer[i].id # Resubscription
                        /\ calls'[toServer[i].id] =
                             [type |-> toServer[i].type, dbNames |-> toServer[i].dbNames,
                              at |-> current]
      BY <1>1 DEF RequestsAreCalls
    <2>1. toServer[i].id \in Call \ {id} /\ toServer[i].id # Resubscription
      BY <1>4, Channels
    <2>2. calls[toServer[i].id] =
             [type |-> toServer[i].type, dbNames |-> toServer[i].dbNames, at |-> current]
      BY <2>1 DEF RequestsAreCalls
    <2> QED
      BY <1>1, <2>1, <2>2
  <1>10. AnswersAreCalls'
    <2> SUFFICES ASSUME NEW i \in DOMAIN toClient', IsAck(toClient'[i])
                 PROVE  /\ ~toClient'[i].error
                        /\ toClient'[i].id \in Call =>
                             calls'[toClient'[i].id] # Idle /\ calls'[toClient'[i].id].at = current
      BY <1>1 DEF AnswersAreCalls, IsAck
    <2>1. i + 1 \in DOMAIN toClient /\ toClient'[i] = toClient[i + 1] /\ toClient'[i].id # id
      BY <1>3, <1>4
    <2> QED
      BY <1>1, <2>1 DEF AnswersAreCalls
  <1>11. OneAnswerEach'
    <2>1. \A i, j \in DOMAIN toClient' :
            IsAck(toClient'[i]) /\ IsAck(toClient'[j]) /\ toClient'[i].id = toClient'[j].id
            => i = j
      <3> SUFFICES ASSUME NEW i \in DOMAIN toClient', NEW j \in DOMAIN toClient',
                          IsAck(toClient'[i]), IsAck(toClient'[j]),
                          toClient'[i].id = toClient'[j].id
                   PROVE  i = j
        OBVIOUS
      <3>1. i + 1 = j + 1
        BY <1>3 DEF OneAnswerEach
      <3> QED
        BY <1>3, <3>1
    <2> QED
      BY <1>1, <1>3, <2>1 DEF OneAnswerEach, IsAck
  <1> DEFINE Still(p, type, d) == /\ IsAck(p) /\ p.id \in Call
                                  /\ calls'[p.id].type = type /\ d \in calls'[p.id].dbNames
  <1>12. ASSUME NEW i \in DOMAIN toClient', NEW type, NEW d
         PROVE  Still(toClient'[i], type, d) <=> Answers(toClient'[i], type, d)
    BY <1>1, <1>4 DEF Answers
  <1>13. SubscribesHold' /\ UnsubscribesHold'
    <2>1. SubscribesHold' <=>
            (ConnectedTo(current) =>
                \A d \in DB : \A i \in DOMAIN toClient' :
                    Still(toClient'[i], "subscribe", d)
                    => \/ d \in Served
                       \/ \E k \in DOMAIN toClient' :
                            k > i /\ Still(toClient'[k], "unsubscribe", d))
      BY <1>1, <1>2 DEF SubscribesHold, ConnectedTo, Answers, IsAck
    <2>2. UnsubscribesHold' <=>
            \A d \in DB : \A i \in DOMAIN toClient' :
                Still(toClient'[i], "unsubscribe", d)
                => /\ d \in Served =>
                        \E k \in DOMAIN toClient' :
                          k > i /\ Still(toClient'[k], "subscribe", d)
                   /\ \A j \in DOMAIN toClient' :
                        j > i /\ IsChange(toClient'[j], d) =>
                            \E k \in DOMAIN toClient' :
                              i < k /\ k < j /\ Still(toClient'[k], "subscribe", d)
      BY <1>2 DEF UnsubscribesHold, IsChange, Answers, IsAck
    <2> HIDE DEF Still
    <2>3. toClient # <<>> /\ toClient' = Tail(toClient)
      BY <1>1
    <2>4. SubscribesHold'
      BY <1>12, <2>1, <2>3, ReadHolds
    <2>5. UnsubscribesHold'
      BY <1>12, <2>2, <2>3, ReadHolds
    <2> QED
      BY <2>4, <2>5
  <1>14. /\ May' \subseteq May
         /\ call.type # "unsubscribe" => May' = May
         /\ May \ May' \subseteq call.dbNames
         /\ call.type = "subscribe" =>
              subscribedToDBs' \ Leaving' = (subscribedToDBs \cup call.dbNames) \ Leaving
         /\ call.type # "subscribe" =>
              subscribedToDBs' \ Leaving' = subscribedToDBs \ Leaving
    BY AnswerPromises DEF call
  <1>15. ASSUME NEW d \in DB, NEW k \in DOMAIN toClient, k > 1,
                NEW type, Answers(toClient[k], type, d)
         PROVE  /\ type = "subscribe" => d \in May'
                /\ type = "unsubscribe" => d \in Leaving
    <2> DEFINE other == toClient[k].id
    <2>1. /\ other \in Call /\ calls[other].type = type /\ d \in calls[other].dbNames
          /\ calls[other].at = current
      BY <1>15 DEF Answers, AnswersAreCalls
    <2>2. other # id
      <3>1. k - 1 \in DOMAIN toClient' /\ k - 1 + 1 = k
        BY <1>3, <1>15
      <3>2. toClient'[k - 1] = toClient[k]
        BY <1>3, <3>1
      <3> QED
        BY <1>4, <1>15, <3>1, <3>2 DEF Answers
    <2> HIDE DEF other
    <2>3. calls'[other] = calls[other]
      BY <1>1, <2>1, <2>2
    <2>4. type = "subscribe" => d \in Pending({"subscribe", "unsubscribe"})'
      BY <1>1, <2>1, <2>3 DEF Pending
    <2>5. type = "unsubscribe" => d \in Pending({"unsubscribe"})
      BY <2>1 DEF Pending
    <2> QED
      BY <2>4, <2>5 DEF May, Leaving
  <1>16. MayIsKept'
    <2>1. ASSUME NEW d \in Served
          PROVE  d \in May'
      <3>1. d \in May
        BY <1>1 DEF MayIsKept
      <3>2. CASE d \in call.dbNames /\ call.type = "unsubscribe"
        <4>1. \E k \in DOMAIN toClient : k > 1 /\ Answers(toClient[k], "subscribe", d)
          BY <1>3, <1>5, <1>6, <2>1, <3>2 DEF UnsubscribesHold
        <4> QED
          BY <1>5, <1>15, <3>2, <4>1
      <3> QED
        BY <1>14, <3>1, <3>2
    <2>2. ASSUME NEW d \in DB, NEW i \in DOMAIN toClient', IsChange(toClient'[i], d)
          PROVE  d \in May'
      <3>1. i + 1 \in DOMAIN toClient /\ i + 1 > 1 /\ IsChange(toClient[i + 1], d)
        BY <1>3, <2>2
      <3>2. d \in May
        BY <3>1 DEF MayIsKept
      <3>3. CASE d \in call.dbNames /\ call.type = "unsubscribe"
        <4>1. \E k \in DOMAIN toClient : 1 < k /\ Answers(toClient[k], "subscribe", d)
          BY <1>3, <1>6, <3>1, <3>3 DEF UnsubscribesHold
        <4>2. PICK k \in DOMAIN toClient : 1 < k /\ Answers(toClient[k], "subscribe", d)
          BY <4>1
        <4>3. k > 1
          BY <1>3, <4>2
        <4> QED
          BY <1>15, <4>2, <4>3
      <3> QED
        BY <1>14, <3>2, <3>3
    <2> QED
      BY <1>1, <1>2, <2>1, <2>2 DEF MayIsKept, IsChange
  <1>17. MustIsKept'
    <2> SUFFICES ASSUME ConnectedTo(current),
                        ready \/ \E i \in DOMAIN toClient' : IsResubscribed(toClient'[i])
                 PROVE  subscribedToDBs' \ Leaving' \subseteq Served
      BY <1>1, <1>2 DEF MustIsKept, ConnectedTo, IsResubscribed, IsAck
    <2>1. subscribedToDBs \ Leaving \subseteq Served
      BY <1>3 DEF MustIsKept
    <2>2. CASE call.type # "subscribe"
      BY <1>14, <2>1, <2>2
    <2>3. CASE call.type = "subscribe"
      <3>1. ASSUME NEW d \in call.dbNames, d \notin Leaving
            PROVE  d \in Served
        <4>1. \/ d \in Served
              \/ \E k \in DOMAIN toClient : k > 1 /\ Answers(toClient[k], "unsubscribe", d)
          BY <1>3, <1>5, <1>6, <2>3 DEF SubscribesHold
        <4> QED
          BY <1>5, <1>15, <3>1, <4>1
      <3> QED
        BY <1>14, <2>1, <2>3, <3>1
    <2> QED
      BY <2>2, <2>3
  <1> QED
    BY <1>2, <1>7, <1>8, <1>9, <1>10, <1>11, <1>13, <1>16, <1>17

\* What is answered is promised, or promised no longer.
LEMMA AnswerDelivers ==
    ASSUME HowlerInv, DeliveryInv, HowlerInv', NEW id \in Call, ReceiveAnswer(id)
    PROVE  DeliveryInv' /\ D!DeliveryNext
  <1>1. /\ link = "up" /\ toClient # <<>> /\ toClient' = Tail(toClient) /\ ServerWaits
        /\ IsAck(Head(toClient))
        /\ UNCHANGED <<ready, current, link>>
    BY AnswerMaps
  <1>2. conn' = conn /\ changed' = {}
    BY <1>1, ReadKeeps
  <1>3. Changes(toClient)' = Changes(toClient)
    BY <1>1, FirstRead DEF IsAck
  <1>4. DeliveryInv'
    BY AnswerInv
  <1>5. CASE calls[id].type = "subscribe"
    <2>1. May' = May /\ Must \subseteq Must'
      BY <1>1, <1>2, <1>5, AnswerPromises DEF Must, ConnectedTo
    <2> QED
      BY <1>2, <1>3, <1>4, <2>1, ConfirmMaps
  <1>6. CASE calls[id].type # "subscribe"
    <2>1. May' \subseteq May /\ Must' = Must
      BY <1>1, <1>2, <1>6, AnswerPromises DEF Must, ConnectedTo
    <2> QED
      BY <1>2, <1>3, <1>4, <2>1, MayTypes, SilenceMaps DEF DeliveryInv
  <1> QED
    BY <1>5, <1>6

\* Every packet.
LEMMA ReceivesDelivers ==
    ASSUME HowlerInv, DeliveryInv, HowlerInv', ClientReceives
    PROVE  DeliveryInv' /\ D!DeliveryNext
  <1>1. CASE ReceiveAuthenticated
    <2>1. CASE OnConnect
      BY <1>1, <2>1, OnConnectDelivers
    <2>2. CASE UNCHANGED <<connected, ready, toServer>>
      BY <1>1, <2>2, ReadDelivers DEF ReceiveAuthenticated, Receives
    <2> QED
      BY <1>1, <2>1, <2>2 DEF ReceiveAuthenticated
  <1>2. CASE ReceiveNotAuthenticated \/ ReceiveChange
    BY <1>2, ReadDelivers DEF ReceiveNotAuthenticated, ReceiveChange, Receives
  <1>3. CASE ReceiveDisconnect
    BY <1>3, ConnectionDelivers
  <1>4. CASE ReceiveResubscribed
    <2>1. IsResubscribed(Head(toClient))
      BY <1>4 DEF ReceiveResubscribed, Receives, IsResubscribed, IsAck
    <2>2. ready => ready'
      BY <1>4, Zenon DEF ReceiveResubscribed
    <2> QED
      BY <1>4, <2>1, <2>2, ReadDelivers DEF ReceiveResubscribed, Receives
  <1> QED
    BY <1>1, <1>2, <1>3, <1>4, AnswerDelivers DEF ClientReceives

-----------------------------------------------------------------------------
(* Every step is one of Delivery *)

\* A channel starts empty, and the application is promised nothing.
LEMMA InitDelivers ==
    ASSUME HowlerInit
    PROVE  DeliveryInv /\ D!DeliveryInit
  <1>1. /\ subscribedToDBs = {} /\ ~connected /\ ~ready /\ link = "none"
        /\ toServer = <<>> /\ toClient = <<>> /\ changed = {}
        /\ \A id \in Call : calls[id] = Idle
    BY DEF HowlerInit
  <1>2. DeliveryInv
    <2>1. QuietBeforeVerdict /\ VerdictIsRead /\ DisconnectIsLast /\ LostIsEmpty
      BY <1>1 DEF QuietBeforeVerdict, VerdictIsRead, DisconnectIsLast, LostIsEmpty
    <2>2. UnconnectedIsQuiet /\ ReadyIsConnected /\ CallsAreMade
      BY <1>1 DEF UnconnectedIsQuiet, ReadyIsConnected, CallsAreMade
    <2>3. RequestsAreCalls /\ AnswersAreCalls /\ OneAnswerEach
      BY <1>1 DEF RequestsAreCalls, AnswersAreCalls, OneAnswerEach
    <2>4. SubscribesHold /\ UnsubscribesHold /\ MayIsKept /\ MustIsKept
      BY <1>1 DEF SubscribesHold, UnsubscribesHold, MayIsKept, MustIsKept, ConnectedTo
    <2> QED
      BY <2>1, <2>2, <2>3, <2>4 DEF DeliveryInv
  <1>3. Pending({"subscribe", "unsubscribe"}) = {}
    BY <1>1 DEF Pending, Idle
  <1> QED
    BY <1>1, <1>2, <1>3, NoChanges DEF D!DeliveryInit

\* Every step preserves DeliveryInv, and is a step of Delivery or changes nothing of it.
LEMMA NextDelivers ==
    ASSUME HowlerInv, DeliveryInv, HowlerInv', [HowlerNext]_howlerVars
    PROVE  DeliveryInv' /\ [D!DeliveryNext]_(D!deliveryVars)
  <1>1. CASE UNCHANGED howlerVars
    <2>1. UNCHANGED <<registryVars, conn, auth>>
      BY <1>1 DEF howlerVars, serverVars, socketVars
    <2>2. Served' = Served
      BY <1>1, <2>1, QuietMaps DEF Served, howlerVars, clientVars
    <2>3. /\ UNCHANGED <<subscribedToDBs, connected, ready, current, link, calls, toServer,
                         toClient, changed, conn, auth>>
          /\ May' = May /\ Leaving' = Leaving
      BY <1>1, <2>1 DEF howlerVars, clientVars, May, Leaving, Pending
    <2>4. DeliveryInv'
      BY <2>2, <2>3 DEF DeliveryInv, QuietBeforeVerdict, VerdictIsRead, IsAccepted,
         DisconnectIsLast, LostIsEmpty, UnconnectedIsQuiet, ReadyIsConnected, CallsAreMade,
         RequestsAreCalls, AnswersAreCalls, OneAnswerEach, SubscribesHold, UnsubscribesHold,
         MayIsKept, MustIsKept, Answers, IsAck, IsChange, IsResubscribed, ConnectedTo
    <2>5. Changes(toClient)' = Changes(toClient)
      BY <2>3
    <2>6. UNCHANGED D!deliveryVars
      BY <2>3, <2>5 DEF D!deliveryVars, May, Leaving, ConnectedTo
    <2> QED
      BY <2>4, <2>6
  <1>2. CASE HowlerNext
    <2>1. CASE LogIn \/ Notices \/ Cut
      BY <2>1, ConnectionDelivers
    <2>2. CASE ClientReceives
      BY <2>2, ReceivesDelivers
    <2>3. ASSUME NEW id \in Call, NEW d \in DB, SubscribeCall(id, d) \/ UnsubscribeCall(id, d)
          PROVE  DeliveryInv' /\ D!DeliveryNext
      BY <2>3, ConnectedCallDelivers, UnconnectedCallDelivers
    <2>4. ASSUME NEW id \in Call, LogOutCall(id)
          PROVE  DeliveryInv' /\ D!DeliveryNext
      BY <2>4, LogOutDelivers
    <2>5. ASSUME NEW s \in Socket, Opens(s)
          PROVE  DeliveryInv' /\ D!DeliveryNext
      BY <2>5, OpensDelivers
    <2> QED
      BY <1>2, <2>1, <2>2, <2>3, <2>4, <2>5, ServerDelivers DEF HowlerNext
  <1> QED
    BY <1>1, <1>2

-----------------------------------------------------------------------------
(* The theorems *)

\* Whatever connections are lost and made again, the server has in its registry
\* what the answers that the client read and has yet to read add up to.
THEOREM DeliveryInvariant == HowlerSpec => []DeliveryInv
  <1>1. HowlerInit => DeliveryInv
    BY InitDelivers
  <1>2. HowlerInv /\ HowlerInv' /\ DeliveryInv /\ [HowlerNext]_howlerVars => DeliveryInv'
    BY NextDelivers
  <1> QED
    BY <1>1, <1>2, HowlerInvariant, PTL DEF HowlerSpec

\* The server notifies a client of nothing that the application did not ask for,
\* and of all that it subscribed to and the client was told is subscribed to.
THEOREM RegistryFollowsCalls == HowlerSpec => [](MayIsKept /\ MustIsKept)
  <1>1. DeliveryInv => MayIsKept /\ MustIsKept
    BY DEF DeliveryInv
  <1> QED
    BY <1>1, DeliveryInvariant, PTL

\* The client and its server implement Delivery: the application is told, in
\* order, of every change of a database that it is promised while it is connected,
\* and of no change of a database it did not ask for, or is through with.
THEOREM HowlerDelivers == HowlerSpec => ImplementsDelivery
  <1>1. HowlerInit => D!DeliveryInit
    BY InitDelivers
  <1>2. HowlerInv /\ HowlerInv' /\ DeliveryInv /\ [HowlerNext]_howlerVars
        => [D!DeliveryNext]_(D!deliveryVars)
    BY NextDelivers
  <1> QED
    BY <1>1, <1>2, HowlerInvariant, DeliveryInvariant, PTL
    DEF HowlerSpec, ImplementsDelivery, D!DeliverySpec

==============================================================================
