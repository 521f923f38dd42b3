----------------------------- MODULE ServerProofs -----------------------------
(***************************************************************************)
(* Proofs about Sockets and Server, for any number of sockets, databases   *)
(* and cookies.                                                            *)
(*                                                                         *)
(* The registry first: RegistryInv is inductive as it stands, and each     *)
(* method is shown to preserve it on its own, so that the server's steps   *)
(* cite the lemma of the method they call.                                 *)
(*                                                                         *)
(* The properties of Server follow from one inductive invariant, ServerInv.*)
(* What it adds to the properties themselves: an entry is only ever made   *)
(* for a socket that CouchDB accepted, the entry that a dead socket may    *)
(* keep has no subscription, requests that are read after a log-out find   *)
(* no entry, and a server that does not listen has no open connection.     *)
(***************************************************************************)
EXTENDS Server, TLAPS

-----------------------------------------------------------------------------
(* The registry *)

\* The empty registry is consistent.
LEMMA InitRegistry == SocketsInit => RegistryInv
BY DEF SocketsInit, RegistryInv, RegistryTypeOK, IndexAgrees, NoEmptyEntry,
       Subscribers, Registered, Entry

\* What IndexWithout returns: the sockets to remove leave the entries of the
\* index, entries stay sets of sockets, and no empty one is left behind.
LEMMA IndexWithoutRemoves ==
    ASSUME RegistryTypeOK, NoEmptyEntry,
           NEW gone \in [DB -> SUBSET Socket],
           socketsByDBName' = IndexWithout(gone)
    PROVE  /\ DOMAIN socketsByDBName' \subseteq DB
           /\ socketsByDBName' \in [DOMAIN socketsByDBName' -> SUBSET Socket]
           /\ \A d \in DB : Subscribers(d)' = Subscribers(d) \ gone[d]
           /\ NoEmptyEntry'
<1> DEFINE left == [d \in DOMAIN socketsByDBName |-> socketsByDBName[d] \ gone[d]]
           kept == {e \in DOMAIN socketsByDBName : gone[e] = {} \/ left[e] # {}}
<1>1. socketsByDBName' = [d \in kept |-> left[d]]
  BY DEF IndexWithout
<1>2. DOMAIN socketsByDBName \subseteq DB
  BY DEF RegistryTypeOK
<1>3. \A d \in DOMAIN socketsByDBName : socketsByDBName[d] \subseteq Socket
  BY DEF RegistryTypeOK
<1>4. DOMAIN socketsByDBName' = kept /\ kept \subseteq DOMAIN socketsByDBName
  BY <1>1
<1>5. \A d \in kept : socketsByDBName'[d] = socketsByDBName[d] \ gone[d]
  BY <1>1, <1>4
<1> HIDE DEF left
<1>6. socketsByDBName' \in [DOMAIN socketsByDBName' -> SUBSET Socket]
  BY <1>1, <1>3, <1>4, <1>5
<1>7. ASSUME NEW d \in DB PROVE Subscribers(d)' = Subscribers(d) \ gone[d]
  <2>1. CASE d \in kept
    BY <2>1, <1>4, <1>5 DEF Subscribers
  <2>2. CASE d \notin kept
    BY <2>2, <1>4 DEF Subscribers, left
  <2> QED BY <2>1, <2>2
<1>8. NoEmptyEntry'
  BY <1>4, <1>5 DEF NoEmptyEntry, left
<1> QED BY <1>2, <1>4, <1>6, <1>7, <1>8

\* A call that leaves both maps alone.
LEMMA StutterRegistry ==
    ASSUME RegistryInv, UNCHANGED registryVars PROVE RegistryInv'
BY DEF registryVars, RegistryInv, RegistryTypeOK, IndexAgrees, NoEmptyEntry,
       Subscribers, Registered

\* add() and setCookie() keep the registry consistent.
LEMMA AddRegistry ==
    ASSUME NEW s \in Socket, NEW c \in Cookie, RegistryInv, Add(s, c)
    PROVE  RegistryInv'
BY DEF Add, RegistryInv, RegistryTypeOK, IndexAgrees, NoEmptyEntry,
       Subscribers, Registered, Entry

\* subscribe() keeps the registry consistent.
LEMMA SubscribeRegistry ==
    ASSUME NEW s \in Socket, NEW dbNames \in SUBSET DB, RegistryInv,
           Subscribe(s, dbNames)
    PROVE  RegistryInv'
<1>0. CASE ~Registered(s)
  BY <1>0, StutterRegistry DEF Subscribe
<1> SUFFICES ASSUME Registered(s) PROVE RegistryInv'
  BY <1>0
<1> USE DEF RegistryInv
<1>1. DOMAIN sockets' = DOMAIN sockets
  BY DEF Subscribe
<1>2. ASSUME NEW t \in DOMAIN sockets
      PROVE  sockets'[t].dbNames = IF t = s THEN sockets[t].dbNames \cup dbNames
                                            ELSE sockets[t].dbNames
  <2>1. sockets' = [sockets EXCEPT ![s].dbNames = @ \cup dbNames]
    BY DEF Subscribe
  <2>2. sockets[t] \in Entry /\ sockets[s] \in Entry
    BY DEF RegistryTypeOK, Registered
  <2> QED BY <2>1, <2>2 DEF Entry
<1>3. \A t \in DOMAIN sockets : sockets'[t] \in Entry
  BY DEF Subscribe, RegistryTypeOK, Entry, Registered
<1>4. /\ DOMAIN socketsByDBName' = DOMAIN socketsByDBName \cup dbNames
      /\ \A d \in DOMAIN socketsByDBName' :
           socketsByDBName'[d] = IF d \in dbNames THEN Subscribers(d) \cup {s}
                                                  ELSE socketsByDBName[d]
  BY DEF Subscribe
<1>5. \A d \in DB : Subscribers(d)' = IF d \in dbNames THEN Subscribers(d) \cup {s}
                                                       ELSE Subscribers(d)
  BY <1>4 DEF Subscribers
<1>6. RegistryTypeOK'
  <2>1. sockets' \in [DOMAIN sockets' -> Entry]
    BY <1>1, <1>3 DEF Subscribe
  <2>2. socketsByDBName' \in [DOMAIN socketsByDBName' -> SUBSET Socket]
    <3>1. \A d \in DOMAIN socketsByDBName' : socketsByDBName'[d] \in SUBSET Socket
      BY <1>4 DEF RegistryTypeOK, Subscribers
    <3> QED BY <3>1 DEF Subscribe
  <2> QED BY <1>1, <1>4, <2>1, <2>2 DEF RegistryTypeOK
<1>7. IndexAgrees'
  <2> SUFFICES ASSUME NEW t \in Socket, NEW d \in DB
               PROVE  t \in Subscribers(d)'
                        <=> t \in DOMAIN sockets /\ d \in sockets'[t].dbNames
    BY <1>1 DEF IndexAgrees, Registered
  <2>1. t \in Subscribers(d)
          <=> t \in DOMAIN sockets /\ d \in sockets[t].dbNames
    BY DEF IndexAgrees, Registered
  <2>2. s \in DOMAIN sockets
    BY DEF Registered
  <2> HIDE DEF RegistryInv
  <2> QED BY <1>2, <1>5, <2>1, <2>2
<1>8. NoEmptyEntry'
  BY <1>4 DEF NoEmptyEntry
<1> QED BY <1>6, <1>7, <1>8

\* unsubscribe() keeps the registry consistent.
LEMMA UnsubscribeRegistry ==
    ASSUME NEW s \in Socket, NEW dbNames \in SUBSET DB, RegistryInv,
           Unsubscribe(s, dbNames)
    PROVE  RegistryInv'
<1>0. CASE ~Registered(s)
  BY <1>0, StutterRegistry DEF Unsubscribe
<1> SUFFICES ASSUME Registered(s) PROVE RegistryInv'
  BY <1>0
<1> DEFINE gone == [d \in DB |-> IF d \in dbNames THEN {s} ELSE {}]
<1> USE DEF RegistryInv
<1>1. DOMAIN sockets' = DOMAIN sockets
  BY DEF Unsubscribe
<1>2. ASSUME NEW t \in DOMAIN sockets
      PROVE  sockets'[t].dbNames = IF t = s THEN sockets[t].dbNames \ dbNames
                                            ELSE sockets[t].dbNames
  BY DEF Unsubscribe, RegistryTypeOK, Entry, Registered
<1>3. \A t \in DOMAIN sockets : sockets'[t] \in Entry
  BY DEF Unsubscribe, RegistryTypeOK, Entry, Registered
<1>4. gone \in [DB -> SUBSET Socket] /\ socketsByDBName' = IndexWithout(gone)
  BY DEF Unsubscribe
<1>5. \A d \in DB : gone[d] = IF d \in dbNames THEN {s} ELSE {}
  OBVIOUS
<1> HIDE DEF gone
<1>6. /\ DOMAIN socketsByDBName' \subseteq DB
      /\ socketsByDBName' \in [DOMAIN socketsByDBName' -> SUBSET Socket]
      /\ \A d \in DB : Subscribers(d)' = Subscribers(d) \ gone[d]
      /\ NoEmptyEntry'
  BY <1>4, IndexWithoutRemoves
<1>7. RegistryTypeOK'
  <2>1. sockets' \in [DOMAIN sockets' -> Entry]
    BY <1>1, <1>3 DEF Unsubscribe
  <2> QED BY <1>1, <2>1, <1>6 DEF RegistryTypeOK
<1>8. IndexAgrees'
  <2> SUFFICES ASSUME NEW t \in Socket, NEW d \in DB
               PROVE  t \in Subscribers(d)'
                        <=> t \in DOMAIN sockets /\ d \in sockets'[t].dbNames
    BY <1>1 DEF IndexAgrees, Registered
  <2>1. t \in Subscribers(d)
          <=> t \in DOMAIN sockets /\ d \in sockets[t].dbNames
    BY DEF IndexAgrees, Registered
  <2>2. Subscribers(d)' = Subscribers(d) \ gone[d]
    BY <1>6
  <2> HIDE DEF RegistryInv
  <2> QED BY <1>2, <1>5, <2>1, <2>2
<1> QED BY <1>6, <1>7, <1>8

\* remove(), of one socket or of several in turn, keeps the registry
\* consistent.
LEMMA RemoveAllRegistry ==
    ASSUME NEW removed \in SUBSET DOMAIN sockets, RegistryInv,
           RemoveAll(removed)
    PROVE  RegistryInv'
<1> DEFINE gone == [d \in DB |-> {s \in removed : d \in sockets[s].dbNames}]
<1> USE DEF RegistryInv
<1>1. DOMAIN sockets' = DOMAIN sockets \ removed
  BY DEF RemoveAll
<1>2. \A t \in DOMAIN sockets' : sockets'[t] = sockets[t]
  BY DEF RemoveAll
<1>3. removed \subseteq Socket
  BY DEF RegistryTypeOK
<1>4. gone \in [DB -> SUBSET Socket] /\ socketsByDBName' = IndexWithout(gone)
  BY <1>3 DEF RemoveAll
<1>5. \A d \in DB : gone[d] = {s \in removed : d \in sockets[s].dbNames}
  OBVIOUS
<1> HIDE DEF gone
<1>6. /\ DOMAIN socketsByDBName' \subseteq DB
      /\ socketsByDBName' \in [DOMAIN socketsByDBName' -> SUBSET Socket]
      /\ \A d \in DB : Subscribers(d)' = Subscribers(d) \ gone[d]
      /\ NoEmptyEntry'
  BY <1>4, IndexWithoutRemoves
<1>7. RegistryTypeOK'
  <2>1. sockets' \in [DOMAIN sockets' -> Entry]
    BY <1>1, <1>2 DEF RemoveAll, RegistryTypeOK
  <2> QED BY <1>1, <2>1, <1>6 DEF RegistryTypeOK
<1>8. IndexAgrees'
  BY <1>1, <1>2, <1>5, <1>6 DEF IndexAgrees, Registered
<1> QED BY <1>6, <1>7, <1>8

\* Whatever calls are made on the registry, and in whatever order, its two
\* maps agree, and the index keeps no entry without a socket.
THEOREM RegistryIsConsistent == SocketsSpec => []RegistryInv
<1>1. RegistryInv /\ [SocketsNext]_registryVars => RegistryInv'
  <2> SUFFICES ASSUME RegistryInv, [SocketsNext]_registryVars
               PROVE  RegistryInv'
    OBVIOUS
  <2>1. CASE \E s \in Socket, c \in Cookie : Add(s, c)
    BY <2>1, AddRegistry
  <2>2. CASE \E s \in Socket : Remove(s)
    BY <2>2, RemoveAllRegistry DEF Remove, Registered
  <2>3. CASE \E s \in Socket, dbNames \in SUBSET DB : Subscribe(s, dbNames)
    BY <2>3, SubscribeRegistry
  <2>4. CASE \E s \in Socket, dbNames \in SUBSET DB : Unsubscribe(s, dbNames)
    BY <2>4, UnsubscribeRegistry
  <2>5. CASE Close
    BY <2>5, RemoveAllRegistry DEF Close
  <2>6. CASE UNCHANGED registryVars
    BY <2>6, StutterRegistry
  <2> QED BY <2>1, <2>2, <2>3, <2>4, <2>5, <2>6 DEF SocketsNext
<1> QED BY InitRegistry, <1>1, PTL DEF SocketsSpec

-----------------------------------------------------------------------------
(* The inductive invariant of the server *)

LiveAreRegistered == \A s \in Socket : Live(s) => Registered(s)

EntriesAreAttached == \A s \in Socket : Registered(s) => Attached(s)

DeadEntriesAreEmpty ==
    \A s \in Socket : Registered(s) /\ ~Live(s) => sockets[s].dbNames = {}

DrainingAreRemoved ==
    \A s \in Socket : draining[s] =>
        /\ conn[s] = "closed"
        /\ Attached(s)
        /\ ~Registered(s)

UnusedAreFresh == \A s \in Socket : conn[s] = "unused" <=> auth[s] = "none"

Lifecycle ==
    /\ started <=> iterator = "open"
    /\ listening <=> iterator = "open"
    /\ ~listening => \A s \in Socket : conn[s] # "open"

ServerInv ==
    /\ ServerTypeOK
    /\ IndexAgrees
    /\ NoEmptyEntry
    /\ LiveAreRegistered
    /\ EntriesAreAttached
    /\ DeadEntriesAreEmpty
    /\ DrainingAreRemoved
    /\ UnusedAreFresh
    /\ Lifecycle
    /\ NeverCrashes

\* The part of ServerInv that the properties of a reader are made of.
LEMMA ServerInvImplies ==
    ASSUME ServerInv
    PROVE  RegistryInv /\ OnlyLiveIndexed /\ StoppedIsSilent
<1>1. RegistryInv
  BY DEF ServerInv, ServerTypeOK, RegistryInv
<1>2. OnlyLiveIndexed
  <2> SUFFICES ASSUME NEW d \in DB, NEW s \in Subscribers(d)
               PROVE  Live(s)
    BY DEF OnlyLiveIndexed
  <2>1. s \in Socket
    BY DEF ServerInv, ServerTypeOK, RegistryTypeOK, Subscribers
  <2>2. Registered(s) /\ d \in sockets[s].dbNames
    BY <2>1 DEF ServerInv, IndexAgrees
  <2> QED BY <2>1, <2>2 DEF ServerInv, DeadEntriesAreEmpty
<1>3. StoppedIsSilent
  <2> SUFFICES ASSUME iterator = "aborted"
               PROVE  /\ \A s \in Socket : ~Live(s)
                      /\ \A d \in DB : Subscribers(d) = {}
    BY DEF StoppedIsSilent
  <2>1. \A s \in Socket : ~Live(s)
    BY DEF ServerInv, Lifecycle, Live
  <2>2. \A d \in DB : Subscribers(d) \subseteq Socket
    BY DEF ServerInv, ServerTypeOK, RegistryTypeOK, Subscribers
  <2> QED BY <1>2, <2>1, <2>2 DEF OnlyLiveIndexed
<1> QED BY <1>1, <1>2, <1>3

\* What a step writes is a function from sockets to sequences of packets.
LEMMA EmitType ==
    ASSUME NEW to \in SUBSET Socket, NEW packets \in Seq(Packet),
           Emit(to, packets)
    PROVE  sent' \in [Socket -> Seq(Packet)]
BY DEF Emit

\* A step that writes nothing leaves every packet sequence empty, hence typed.
LEMMA SilentType ==
    ASSUME Silent PROVE sent' \in [Socket -> Seq(Packet)]
<1>1. <<>> \in Seq(Packet)
  OBVIOUS
<1> QED BY <1>1, EmitType DEF Silent

\* The packets the server writes are packets.
LEMMA PacketTypes ==
    /\ \A c \in Cookie : Authenticated(c) \in Packet
    /\ NotAuthenticated \in Packet
    /\ Disconnect \in Packet
    /\ \A d \in DB : Change(d) \in Packet
    /\ \A r \in Request, e \in BOOLEAN : Ack(r, e) \in Packet
BY DEF Packet, Request, Authenticated, NotAuthenticated, Disconnect, Change, Ack

\* A server that was not started satisfies the invariant.
LEMMA InitServerInv == ServerInit => ServerInv
<1> SUFFICES ASSUME ServerInit PROVE ServerInv
  OBVIOUS
<1>1. RegistryInv
  BY InitRegistry DEF ServerInit
<1>2. \A s \in Socket : ~Registered(s)
  BY DEF ServerInit, SocketsInit, Registered
<1>3. ServerTypeOK
  <2>1. sent \in [Socket -> Seq(Packet)]
    BY DEF ServerInit
  <2> QED BY <1>1, <2>1 DEF ServerInit, ServerTypeOK, RegistryInv
<1>4. LiveAreRegistered /\ EntriesAreAttached /\ DeadEntriesAreEmpty
  BY <1>2 DEF ServerInit, LiveAreRegistered, EntriesAreAttached,
              DeadEntriesAreEmpty, Live, Attached
<1>5. DrainingAreRemoved /\ UnusedAreFresh /\ Lifecycle /\ NeverCrashes
  BY DEF ServerInit, DrainingAreRemoved, UnusedAreFresh, Lifecycle, NeverCrashes
<1> QED BY <1>1, <1>3, <1>4, <1>5 DEF ServerInv, RegistryInv

\* When a connection ends, its disconnect listener, if there is one, finds an
\* entry, so that nothing is thrown and the registry stays consistent.
LEMMA HangupRemoves ==
    ASSUME ServerInv, NEW s \in Socket, Hangup(s)
    PROVE  /\ RegistryInv'
           /\ crashed' = crashed
           /\ conn' = [conn EXCEPT ![s] = "closed"]
           /\ DOMAIN sockets' = {t \in DOMAIN sockets : ~(t = s /\ Live(s))}
           /\ \A t \in DOMAIN sockets' : sockets'[t] = sockets[t]
<1>1. RegistryInv
  BY ServerInvImplies
<1>2. CASE ~Live(s)
  BY <1>1, <1>2 DEF Hangup, registryVars, RegistryInv, RegistryTypeOK,
                    IndexAgrees, NoEmptyEntry, Subscribers, Registered
<1>3. CASE Live(s)
  <2>1. Registered(s)
    BY <1>3 DEF ServerInv, LiveAreRegistered
  <2>2. RemoveAll({s}) /\ crashed' = crashed
    BY <1>3, <2>1 DEF Hangup, Remove
  <2>3. RegistryInv'
    BY <1>1, <2>1, <2>2, RemoveAllRegistry DEF Registered
  <2> QED BY <1>3, <2>2, <2>3 DEF Hangup, RemoveAll
<1> QED BY <1>2, <1>3

-----------------------------------------------------------------------------
(* Every step preserves ServerInv *)

\* A step that changes neither the registry nor a connection, whatever it
\* writes, and that starts no draining.
LEMMA QuietStep ==
    ASSUME ServerInv,
           UNCHANGED <<registryVars, lifecycleVars, conn, auth, handshake, crashed>>,
           sent' \in [Socket -> Seq(Packet)],
           draining' \in [Socket -> BOOLEAN],
           \A s \in Socket : draining'[s] => draining[s]
    PROVE  ServerInv'
<1> USE DEF ServerInv, registryVars, lifecycleVars
<1>1. ServerTypeOK'
  BY DEF ServerTypeOK, RegistryTypeOK
<1>2. IndexAgrees' /\ NoEmptyEntry'
  BY DEF IndexAgrees, NoEmptyEntry, Subscribers, Registered
<1>3. LiveAreRegistered' /\ EntriesAreAttached' /\ DeadEntriesAreEmpty'
  BY DEF LiveAreRegistered, EntriesAreAttached, DeadEntriesAreEmpty,
         Live, Attached, Registered
<1>4. DrainingAreRemoved'
  BY DEF DrainingAreRemoved, Attached, Registered
<1>5. UnusedAreFresh' /\ Lifecycle' /\ NeverCrashes'
  BY DEF UnusedAreFresh, Lifecycle, NeverCrashes
<1> QED BY <1>1, <1>2, <1>3, <1>4, <1>5

\* Starting the server, which was never started before.
LEMMA StartStep == ASSUME ServerInv, Start PROVE ServerInv'
<1> USE DEF ServerInv, Start, registryVars, socketVars
<1>1. ServerTypeOK'
  BY SilentType DEF ServerTypeOK, RegistryTypeOK
<1>2. IndexAgrees' /\ NoEmptyEntry'
  BY DEF IndexAgrees, NoEmptyEntry, Subscribers, Registered
<1>3. LiveAreRegistered' /\ EntriesAreAttached' /\ DeadEntriesAreEmpty'
  BY DEF LiveAreRegistered, EntriesAreAttached, DeadEntriesAreEmpty,
         Live, Attached, Registered
<1>4. DrainingAreRemoved' /\ UnusedAreFresh' /\ NeverCrashes'
  BY DEF DrainingAreRemoved, UnusedAreFresh, NeverCrashes, Attached, Registered
<1>5. Lifecycle'
  BY DEF Lifecycle
<1> QED BY <1>1, <1>2, <1>3, <1>4, <1>5

\* Stopping it: neither guard of Stop fails, so the registry is emptied.
LEMMA StopStep == ASSUME ServerInv, Stop PROVE ServerInv'
<1> USE DEF ServerInv
<1>1. conn' = IoClosed(conn) /\ \A s \in Socket : conn'[s] # "open"
  BY DEF Stop, IoClosed, ServerTypeOK
<1>2. /\ Close
      /\ iterator' = "aborted"
      /\ started' = FALSE
      /\ UNCHANGED crashed
  BY <1>1 DEF Stop, LiveAreRegistered, Registered, ServerTypeOK, RegistryTypeOK
<1>3. UNCHANGED <<auth, handshake, draining>> /\ listening' = FALSE /\ Silent
  BY DEF Stop
<1>4. RegistryInv' /\ DOMAIN sockets' = {}
  <2>1. RegistryInv'
    BY <1>2, ServerInvImplies, RemoveAllRegistry DEF Close
  <2> QED BY <1>2, <2>1 DEF Close, RemoveAll
<1>5. ServerTypeOK'
  <2>1. conn' \in [Socket -> {"unused", "open", "closed"}]
    BY <1>1 DEF IoClosed, ServerTypeOK
  <2>2. sent' \in [Socket -> Seq(Packet)]
    BY <1>3, SilentType
  <2> QED BY <1>2, <1>3, <1>4, <2>1, <2>2 DEF ServerTypeOK, RegistryInv
<1>6. LiveAreRegistered' /\ EntriesAreAttached' /\ DeadEntriesAreEmpty'
  BY <1>1, <1>4 DEF LiveAreRegistered, EntriesAreAttached, DeadEntriesAreEmpty,
                    Live, Registered
<1>7. DrainingAreRemoved'
  BY <1>1, <1>3, <1>4 DEF DrainingAreRemoved, Attached, Registered, IoClosed
<1>8. UnusedAreFresh'
  BY <1>1, <1>3 DEF UnusedAreFresh, IoClosed
<1>9. Lifecycle' /\ NeverCrashes'
  BY <1>1, <1>2, <1>3 DEF Lifecycle, NeverCrashes
<1> QED BY <1>4, <1>5, <1>6, <1>7, <1>8, <1>9 DEF RegistryInv

\* A new connection, which has no entry yet.
LEMMA ConnectStep ==
    ASSUME ServerInv, NEW s \in Socket, NEW c \in Cookie \cup {NoCookie},
           Connect(s, c)
    PROVE  ServerInv'
<1> USE DEF ServerInv, Connect, registryVars, lifecycleVars
<1>1. ServerTypeOK'
  <2>1. RegistryTypeOK'
    BY DEF ServerTypeOK, RegistryTypeOK
  <2>2. sent' \in [Socket -> Seq(Packet)]
    BY SilentType
  <2>3. /\ conn' \in [Socket -> {"unused", "open", "closed"}]
        /\ auth' \in [Socket -> {"none", "pending", "done", "failed"}]
        /\ handshake' \in [Socket -> Cookie \cup {NoCookie}]
    BY DEF ServerTypeOK
  <2> QED BY <2>1, <2>2, <2>3 DEF ServerTypeOK
<1>2. IndexAgrees' /\ NoEmptyEntry'
  BY DEF IndexAgrees, NoEmptyEntry, Subscribers, Registered
<1>3. auth[s] = "none" /\ ~Registered(s) /\ ~draining[s]
  BY DEF UnusedAreFresh, EntriesAreAttached, Attached, DrainingAreRemoved
<1>4. \A t \in Socket : /\ Live(t)' <=> Live(t)
                        /\ Attached(t)' <=> Attached(t)
                        /\ Registered(t)' <=> Registered(t)
  BY <1>3 DEF Live, Attached, Registered, ServerTypeOK
<1>5. LiveAreRegistered' /\ EntriesAreAttached' /\ DeadEntriesAreEmpty'
  BY <1>4 DEF LiveAreRegistered, EntriesAreAttached, DeadEntriesAreEmpty
<1>6. DrainingAreRemoved'
  BY <1>3, <1>4 DEF DrainingAreRemoved, ServerTypeOK
<1>7. UnusedAreFresh'
  BY DEF UnusedAreFresh, ServerTypeOK
<1>8. Lifecycle' /\ NeverCrashes'
  BY DEF Lifecycle, NeverCrashes
<1> QED BY <1>1, <1>2, <1>5, <1>6, <1>7, <1>8

\* A connection ends: CouchDB refused it, it logged out or it was lost.
LEMMA HangupStep ==
    ASSUME ServerInv, NEW s \in Socket, Hangup(s), conn[s] # "unused",
           UNCHANGED <<lifecycleVars, handshake>>,
           NEW a \in {"pending", "done", "failed"},
           auth' = [auth EXCEPT ![s] = a],
           a = "done" <=> Attached(s),
           sent' \in [Socket -> Seq(Packet)],
           NEW b \in BOOLEAN,
           draining' = [draining EXCEPT ![s] = b],
           b => draining[s] \/ Live(s)
    PROVE  ServerInv'
<1> USE DEF ServerInv, lifecycleVars
<1>1. /\ RegistryInv'
      /\ crashed' = crashed
      /\ conn' = [conn EXCEPT ![s] = "closed"]
      /\ DOMAIN sockets' = {t \in DOMAIN sockets : ~(t = s /\ Live(s))}
      /\ \A t \in DOMAIN sockets' : sockets'[t] = sockets[t]
  BY HangupRemoves
<1>2. ServerTypeOK'
  <2>1. /\ conn' \in [Socket -> {"unused", "open", "closed"}]
        /\ auth' \in [Socket -> {"none", "pending", "done", "failed"}]
        /\ draining' \in [Socket -> BOOLEAN]
    BY <1>1 DEF ServerTypeOK
  <2> QED BY <1>1, <2>1 DEF ServerTypeOK, RegistryInv
<1>3. \A t \in Socket : /\ Attached(t)' <=> Attached(t)
                        /\ Live(t)' <=> Live(t) /\ t # s
                        /\ Registered(t)' <=> Registered(t) /\ ~(t = s /\ Live(s))
  BY <1>1 DEF Attached, Live, Registered, ServerTypeOK
<1>4. LiveAreRegistered' /\ EntriesAreAttached'
  BY <1>3 DEF LiveAreRegistered, EntriesAreAttached
<1>5. DeadEntriesAreEmpty'
  BY <1>1, <1>3 DEF DeadEntriesAreEmpty, Registered
<1>6. DrainingAreRemoved'
  <2> SUFFICES ASSUME NEW t \in Socket, draining'[t]
               PROVE  conn'[t] = "closed" /\ Attached(t)' /\ ~Registered(t)'
    BY DEF DrainingAreRemoved
  <2>1. CASE t = s
    BY <1>1, <1>3, <2>1 DEF DrainingAreRemoved, ServerTypeOK, Live
  <2>2. CASE t # s
    BY <1>1, <1>3, <2>2 DEF DrainingAreRemoved, ServerTypeOK
  <2> QED BY <2>1, <2>2
<1>7. UnusedAreFresh'
  BY <1>1 DEF UnusedAreFresh, ServerTypeOK
<1>8. Lifecycle' /\ NeverCrashes'
  BY <1>1 DEF Lifecycle, NeverCrashes, ServerTypeOK
<1> QED BY <1>1, <1>2, <1>4, <1>5, <1>6, <1>7, <1>8 DEF RegistryInv

\* CouchDB refuses a socket.
LEMMA AuthFailsStep ==
    ASSUME ServerInv, NEW s \in Socket, AuthFails(s) PROVE ServerInv'
<1> DEFINE packets == <<NotAuthenticated, Disconnect>>
<1>1. sent' \in [Socket -> Seq(Packet)]
  <2>1. packets \in Seq(Packet)
    BY PacketTypes
  <2>2. Emit({s}, packets)
    BY DEF AuthFails
  <2> QED BY <2>1, <2>2, EmitType
<1>2. conn[s] # "unused" /\ ~Attached(s)
  BY DEF AuthFails, Attached, ServerInv, UnusedAreFresh
<1>3. /\ Hangup(s)
      /\ UNCHANGED <<lifecycleVars, handshake>>
      /\ auth' = [auth EXCEPT ![s] = "failed"]
  BY DEF AuthFails
<1>4. draining' = [draining EXCEPT ![s] = draining[s]] /\ draining[s] \in BOOLEAN
  BY DEF AuthFails, ServerInv, ServerTypeOK
<1> QED BY <1>1, <1>2, <1>3, <1>4, HangupStep

\* A connection is lost.
LEMMA HangsStep ==
    ASSUME ServerInv, NEW s \in Socket, Hangs(s) PROVE ServerInv'
<1>1. sent' \in [Socket -> Seq(Packet)]
  BY SilentType DEF Hangs
<1>2. /\ Hangup(s)
      /\ conn[s] # "unused"
      /\ UNCHANGED <<lifecycleVars, handshake>>
  BY DEF Hangs
<1>3. /\ auth' = [auth EXCEPT ![s] = auth[s]]
      /\ auth[s] \in {"pending", "done", "failed"}
      /\ draining' = [draining EXCEPT ![s] = Attached(s)]
      /\ Attached(s) \in BOOLEAN
      /\ Attached(s) => Live(s)
  BY <1>2 DEF Hangs, ServerInv, ServerTypeOK, UnusedAreFresh, Attached, Live
<1> QED BY <1>1, <1>2, <1>3, HangupStep DEF Attached

\* A socket logs out.
LEMMA HandleLogOutStep ==
    ASSUME ServerInv, NEW s \in Socket, NEW r \in Request, HandleLogOut(s, r)
    PROVE  ServerInv'
<1> DEFINE packets == <<Ack(r, FALSE), Disconnect>>
<1>1. sent' \in [Socket -> Seq(Packet)]
  <2>1. Ack(r, FALSE) \in Packet /\ Disconnect \in Packet
    BY PacketTypes
  <2>2. \A p, q \in Packet : <<p, q>> \in Seq(Packet)
    OBVIOUS
  <2>3. Emit({s}, packets)
    BY DEF HandleLogOut
  <2> QED BY <2>1, <2>2, <2>3, EmitType
<1>2. /\ Hangup(s)
      /\ UNCHANGED <<lifecycleVars, handshake>>
      /\ draining' = [draining EXCEPT ![s] = TRUE]
      /\ CanArrive(s)
      /\ Attached(s)
  BY DEF HandleLogOut, Arrives
<1>3. conn[s] # "unused" /\ (draining[s] \/ Live(s))
  BY <1>2 DEF CanArrive, Live, ServerInv, DrainingAreRemoved
<1>4. auth' = [auth EXCEPT ![s] = "done"]
  BY <1>2 DEF HandleLogOut, Arrives, Attached, ServerInv, ServerTypeOK
<1> QED BY <1>1, <1>2, <1>3, <1>4, HangupStep

\* CouchDB accepts a socket, which may have closed in the meantime: then its
\* entry stays, but without a subscription.
LEMMA AuthSucceedsStep ==
    ASSUME ServerInv, NEW s \in Socket, NEW c \in Cookie, AuthSucceeds(s, c)
    PROVE  ServerInv'
<1> USE DEF ServerInv, lifecycleVars
<1>1. Add(s, c) /\ RegistryInv'
  BY ServerInvImplies, AddRegistry DEF AuthSucceeds
<1>2. /\ auth[s] = "pending"
      /\ auth' = [auth EXCEPT ![s] = "done"]
      /\ UNCHANGED <<lifecycleVars, conn, handshake, draining, crashed>>
  BY DEF AuthSucceeds
<1>3. sent' \in [Socket -> Seq(Packet)]
  <2>1. <<Authenticated(c)>> \in Seq(Packet)
    BY PacketTypes
  <2> QED BY <2>1, EmitType DEF AuthSucceeds
<1>4. ServerTypeOK'
  <2>1. auth' \in [Socket -> {"none", "pending", "done", "failed"}]
    BY <1>2 DEF ServerTypeOK
  <2> QED BY <1>1, <1>2, <1>3, <2>1 DEF ServerTypeOK, RegistryInv
<1>5. ~Registered(s) /\ ~Attached(s) /\ ~draining[s]
  BY <1>2 DEF EntriesAreAttached, DrainingAreRemoved, Attached
<1>6. \A t \in Socket :
        /\ Attached(t)' <=> (Attached(t) \/ t = s)
        /\ Registered(t)' <=> (Registered(t) \/ t = s)
        /\ Live(t)' <=> IF t = s THEN conn[s] = "open" ELSE Live(t)
  BY <1>1, <1>2 DEF Add, Attached, Registered, Live, ServerTypeOK
<1>7. sockets'[s].dbNames = {} /\ \A t \in DOMAIN sockets \ {s} : sockets'[t] = sockets[t]
  BY <1>1, <1>5 DEF Add, Registered
<1>8. LiveAreRegistered' /\ EntriesAreAttached'
  BY <1>6 DEF LiveAreRegistered, EntriesAreAttached
<1>9. DeadEntriesAreEmpty'
  BY <1>6, <1>7 DEF DeadEntriesAreEmpty, Registered
<1>10. DrainingAreRemoved'
  BY <1>2, <1>5, <1>6 DEF DrainingAreRemoved
<1>11. UnusedAreFresh' /\ Lifecycle' /\ NeverCrashes'
  BY <1>2 DEF UnusedAreFresh, Lifecycle, NeverCrashes, ServerTypeOK
<1> QED BY <1>1, <1>4, <1>8, <1>9, <1>10, <1>11 DEF RegistryInv

\* A subscribe or unsubscribe request changes only the entry of its socket;
\* one without an entry, nothing.
LEMMA RespondsStep ==
    ASSUME ServerInv, NEW s \in Socket, NEW r \in Request, CanArrive(s),
           UNCHANGED <<lifecycleVars, auth, handshake>>,
           Subscribe(s, r.dbNames) \/ Unsubscribe(s, r.dbNames),
           Responds(s, r)
    PROVE  ServerInv'
<1>1. /\ UNCHANGED <<lifecycleVars, auth, handshake, conn, draining, crashed>>
      /\ Attached(s)
  BY DEF Responds
<1>2. r.dbNames \in SUBSET DB
  BY DEF Request
<1>3. sent' \in [Socket -> Seq(Packet)]
  <2>1. Ack(r, Throws(s, r.dbNames)) \in Packet
    BY PacketTypes DEF Throws
  <2>2. \A p \in Packet : <<p>> \in Seq(Packet)
    OBVIOUS
  <2> QED BY <2>1, <2>2, EmitType DEF Responds
<1>4. CASE ~Registered(s)
  <2>1. UNCHANGED registryVars
    BY <1>4 DEF Subscribe, Unsubscribe
  <2>2. draining' = draining /\ draining' \in [Socket -> BOOLEAN]
    BY <1>1 DEF ServerInv, ServerTypeOK
  <2> QED BY <1>1, <1>3, <2>1, <2>2, QuietStep
<1>5. CASE Registered(s)
  <2> USE DEF ServerInv
  <2>1. RegistryInv'
    BY <1>2, ServerInvImplies, SubscribeRegistry, UnsubscribeRegistry
  <2>2. ServerTypeOK'
    BY <1>1, <1>3, <2>1 DEF ServerTypeOK, RegistryInv, lifecycleVars
  <2>3. Live(s)
    BY <1>5 DEF CanArrive, DrainingAreRemoved, Live, EntriesAreAttached
  <2>4. /\ DOMAIN sockets' = DOMAIN sockets
        /\ \A t \in DOMAIN sockets \ {s} : sockets'[t] = sockets[t]
    BY <1>5 DEF Subscribe, Unsubscribe
  <2>5. \A t \in Socket : /\ Attached(t)' <=> Attached(t)
                          /\ Live(t)' <=> Live(t)
                          /\ Registered(t)' <=> Registered(t)
    BY <1>1, <2>4 DEF Attached, Live, Registered
  <2>6. LiveAreRegistered' /\ EntriesAreAttached'
    BY <2>5 DEF LiveAreRegistered, EntriesAreAttached
  <2>7. DeadEntriesAreEmpty'
    BY <2>3, <2>4, <2>5 DEF DeadEntriesAreEmpty, Registered
  <2>8. DrainingAreRemoved' /\ UnusedAreFresh' /\ Lifecycle' /\ NeverCrashes'
    BY <1>1, <2>5 DEF DrainingAreRemoved, UnusedAreFresh, Lifecycle,
                      NeverCrashes, lifecycleVars
  <2> QED BY <2>1, <2>2, <2>6, <2>7, <2>8 DEF RegistryInv
<1> QED BY <1>4, <1>5

\* Any request.
LEMMA HandlesStep ==
    ASSUME ServerInv, NEW s \in Socket, NEW r \in Request, Handles(s, r)
    PROVE  ServerInv'
<1>1. draining \in [Socket -> BOOLEAN]
  BY DEF ServerInv, ServerTypeOK
<1>2. CASE HandleSubscribe(s, r)
  BY <1>2, RespondsStep DEF HandleSubscribe, Arrives
<1>3. CASE HandleUnsubscribe(s, r)
  BY <1>3, RespondsStep DEF HandleUnsubscribe, Arrives
<1>4. CASE HandleHeartbeat(s, r)
  <2>1. sent' \in [Socket -> Seq(Packet)]
    <3>1. Ack(r, FALSE) \in Packet
      BY PacketTypes
    <3>2. \A p \in Packet : <<p>> \in Seq(Packet)
      OBVIOUS
    <3> QED BY <3>1, <3>2, <1>4, EmitType DEF HandleHeartbeat
  <2> QED BY <1>1, <1>4, <2>1, QuietStep DEF HandleHeartbeat, Arrives
<1>5. CASE HandleLogOut(s, r)
  BY <1>5, HandleLogOutStep
<1>6. CASE IgnoreRequest(s, r)
  <2>1. sent' \in [Socket -> Seq(Packet)]
    BY <1>6, SilentType DEF IgnoreRequest
  <2> QED BY <1>1, <1>6, <2>1, QuietStep DEF IgnoreRequest, Arrives
<1> QED BY <1>2, <1>3, <1>4, <1>5, <1>6 DEF Handles

\* Every step of the server preserves the invariant.
LEMMA NextServerInv == ServerInv /\ [ServerNext]_serverVars => ServerInv'
<1> SUFFICES ASSUME ServerInv, [ServerNext]_serverVars
             PROVE  ServerInv'
  OBVIOUS
<1>1. draining \in [Socket -> BOOLEAN]
  BY DEF ServerInv, ServerTypeOK
<1>2. CASE Start
  BY <1>2, StartStep
<1>3. CASE Stop
  BY <1>3, StopStep
<1>4. CASE \E s \in Socket, c \in Cookie \cup {NoCookie} : Connect(s, c)
  BY <1>4, ConnectStep
<1>5. CASE \E s \in Socket : CouchDBAnswers(s)
  BY <1>5, AuthFailsStep, AuthSucceedsStep DEF CouchDBAnswers
<1>6. CASE \E s \in Socket : Hangs(s)
  BY <1>6, HangsStep
<1>7. ASSUME NEW s \in Socket, EndBatch(s) PROVE ServerInv'
  <2>1. sent' \in [Socket -> Seq(Packet)]
    BY <1>7, SilentType DEF EndBatch
  <2>2. UNCHANGED <<registryVars, lifecycleVars, conn, auth, handshake, crashed>>
    BY <1>7 DEF EndBatch
  <2>3. /\ draining' \in [Socket -> BOOLEAN]
        /\ \A t \in Socket : draining'[t] => draining[t]
    BY <1>1, <1>7 DEF EndBatch
  <2> QED BY <2>1, <2>2, <2>3, QuietStep
<1>8. CASE \E s \in Socket, r \in Request : Handles(s, r)
  BY <1>8, HandlesStep
<1>9. ASSUME NEW d \in DB, EmitChangeForDBName(d) PROVE ServerInv'
  <2>1. sent' \in [Socket -> Seq(Packet)]
    <3>1. Subscribers(d) \subseteq Socket
      BY DEF ServerInv, ServerTypeOK, RegistryTypeOK, Subscribers
    <3>2. <<Change(d)>> \in Seq(Packet)
      BY PacketTypes
    <3> QED BY <1>9, <3>1, <3>2, EmitType DEF EmitChangeForDBName
  <2> QED BY <1>1, <1>9, <2>1, QuietStep DEF EmitChangeForDBName, socketVars
<1>10. CASE UNCHANGED serverVars
  <2>1. sent' \in [Socket -> Seq(Packet)]
    BY <1>10 DEF serverVars, ServerInv, ServerTypeOK
  <2> QED BY <1>1, <1>10, <2>1, QuietStep DEF serverVars, lifecycleVars
<1> QED BY <1>2, <1>3, <1>4, <1>5, <1>6, <1>7, <1>8, <1>9, <1>10 DEF ServerNext

-----------------------------------------------------------------------------
(* The safety properties *)

\* The strengthened invariant holds in every state of the server: what the
\* theorems below rest on.
THEOREM ServerInvariant == ServerSpec => []ServerInv
BY InitServerInv, NextServerInv, PTL DEF ServerSpec

\* The state of the server keeps its types.
THEOREM ServerTypes == ServerSpec => []ServerTypeOK
<1>1. ServerInv => ServerTypeOK
  BY DEF ServerInv
<1> QED BY <1>1, ServerInvariant, PTL

\* The index lists a socket under a database exactly when its entry names it.
THEOREM RegistryAgrees == ServerSpec => []IndexAgrees
<1>1. ServerInv => IndexAgrees
  BY DEF ServerInv
<1> QED BY <1>1, ServerInvariant, PTL

\* Whichever way a database loses its last socket, its entry goes.
THEOREM IndexIsPruned == ServerSpec => []NoEmptyEntry
<1>1. ServerInv => NoEmptyEntry
  BY DEF ServerInv
<1> QED BY <1>1, ServerInvariant, PTL

\* No disconnect listener and no stop() throws.
THEOREM ServerNeverCrashes == ServerSpec => []NeverCrashes
<1>1. ServerInv => NeverCrashes
  BY DEF ServerInv
<1> QED BY <1>1, ServerInvariant, PTL

\* Changes go to live sockets only.
THEOREM ServerNotifiesTheLiving == ServerSpec => []OnlyLiveIndexed
<1>1. ServerInv => OnlyLiveIndexed
  BY ServerInvImplies
<1> QED BY <1>1, ServerInvariant, PTL

\* A stopped server has no live and no subscribed socket, whatever CouchDB was
\* asked before.
THEOREM StoppedServerIsSilent == ServerSpec => []StoppedIsSilent
<1>1. ServerInv => StoppedIsSilent
  BY ServerInvImplies
<1> QED BY <1>1, ServerInvariant, PTL

-----------------------------------------------------------------------------
(* The server implements Notifier *)

LiveSet == {s \in Socket : Live(s)}
Subs == [s \in Socket |-> IF Live(s) /\ Registered(s)
                          THEN sockets[s].dbNames ELSE {}]

\* A step that writes no change tells none.
LEMMA NothingTold ==
    ASSUME NEW to \in SUBSET Socket, NEW packets \in Seq(Packet),
           Emit(to, packets),
           \A i \in DOMAIN packets : packets[i].type # "change"
    PROVE  Told' = {}
<1> SUFFICES ASSUME NEW p \in Socket \X DB, NEW i \in DOMAIN sent'[p[1]],
                    sent'[p[1]][i] = Change(p[2])
             PROVE  FALSE
  BY DEF Told, Change
<1>1. sent'[p[1]] = packets \/ sent'[p[1]] = <<>>
  BY DEF Emit
<1>2. sent'[p[1]][i].type = "change"
  BY DEF Change
<1> QED BY <1>1, <1>2

\* A step that writes one packet which is no change tells no change.
LEMMA OneTellsNothing ==
    ASSUME NEW s \in Socket, NEW p \in Packet, p.type # "change", Emit({s}, <<p>>)
    PROVE  Told' = {}
<1>1. <<p>> \in Seq(Packet) /\ \A i \in DOMAIN <<p>> : <<p>>[i] = p
  OBVIOUS
<1> QED BY <1>1, NothingTold

\* Nor does a step that writes two such packets (a verdict and a disconnect).
LEMMA TwoTellNothing ==
    ASSUME NEW s \in Socket, NEW p \in Packet, NEW q \in Packet,
           p.type # "change", q.type # "change", Emit({s}, <<p, q>>)
    PROVE  Told' = {}
<1> DEFINE pq == <<p, q>>
<1>1. pq \in Seq(Packet) /\ DOMAIN pq = {1, 2} /\ pq[1] = p /\ pq[2] = q
  OBVIOUS
<1>2. Emit({s}, pq)
  OBVIOUS
<1> HIDE DEF pq
<1>3. \A i \in DOMAIN pq : pq[i].type # "change"
  BY <1>1
<1> QED BY <1>1, <1>2, <1>3, NothingTold

\* Nor does a step that writes nothing.
LEMMA SilentTellsNothing == ASSUME Silent PROVE Told' = {}
<1>1. <<>> \in Seq(Packet) /\ DOMAIN <<>> = {}
  OBVIOUS
<1> QED BY <1>1, NothingTold DEF Silent

\* A change is told to the live sessions subscribed to its database.
LEMMA ChangeIsTold ==
    ASSUME ServerInv, NEW d \in DB, EmitChangeForDBName(d)
    PROVE  Told' = {s \in LiveSet : d \in Subs[s]} \X {d}
<1>1. \A s \in Socket : s \in Subscribers(d) <=> s \in LiveSet /\ d \in Subs[s]
  <2>1. Subscribers(d) \subseteq LiveSet
    BY ServerInvImplies
    DEF OnlyLiveIndexed, LiveSet, ServerInv, ServerTypeOK, RegistryTypeOK, Subscribers
  <2> QED BY <2>1 DEF ServerInv, IndexAgrees, LiveAreRegistered, LiveSet, Subs
<1>2. \A s \in Socket : sent'[s] = IF s \in Subscribers(d) THEN <<Change(d)>> ELSE <<>>
  BY <1>1 DEF EmitChangeForDBName, Emit, LiveSet, Live
<1>3. \A e \in DB : Change(e) = Change(d) <=> e = d
  <2>1. \A e \in DB : Change(e).db = e
    BY DEF Change
  <2> QED BY <2>1
<1>4. ASSUME NEW s \in Socket, NEW e \in DB
      PROVE  <<s, e>> \in Told' <=> s \in LiveSet /\ d \in Subs[s] /\ e = d
  <2>1. <<s, e>> \in Told' <=> \E i \in DOMAIN sent'[s] : sent'[s][i] = Change(e)
    BY DEF Told, Change
  <2>2. CASE s \in Subscribers(d)
    BY <1>1, <1>2, <1>3, <2>1, <2>2
  <2>3. CASE s \notin Subscribers(d)
    BY <1>1, <1>2, <2>1, <2>3
  <2> QED BY <2>2, <2>3
<1>5. Told' \subseteq Socket \X DB /\ LiveSet \subseteq Socket
  BY DEF Told, LiveSet
<1> QED BY <1>4, <1>5

\* A server that was not started has no session.
LEMMA InitNotifier == ServerInit => N!NotifierInit
<1> SUFFICES ASSUME ServerInit PROVE N!NotifierInit
  OBVIOUS
<1>1. LiveSet = {}
  BY DEF ServerInit, LiveSet, Live
<1>2. Told = {}
  BY DEF ServerInit, Told
<1> QED BY <1>1, <1>2 DEF N!NotifierInit, LiveSet

\* A step that neither opens nor ends a session nor changes a subscription.
LEMMA QuietMaps ==
    ASSUME UNCHANGED <<registryVars, conn, auth>>
    PROVE  LiveSet' = LiveSet /\ Subs' = Subs
BY DEF registryVars, LiveSet, Subs, Live, Attached, Registered

\* A socket that CouchDB accepts is a new session, unless it has closed.
LEMMA AuthSucceedsMaps ==
    ASSUME ServerInv, NEW s \in Socket, NEW c \in Cookie, AuthSucceeds(s, c)
    PROVE  /\ Told' = {}
           /\ Subs' = Subs
           /\ LiveSet' = LiveSet \/ (s \notin LiveSet /\ LiveSet' = LiveSet \cup {s})
<1>1. Told' = {}
  <2>1. Authenticated(c) \in Packet /\ Authenticated(c).type # "change"
    BY PacketTypes DEF Authenticated
  <2>2. Emit({s}, <<Authenticated(c)>>)
    BY DEF AuthSucceeds
  <2> QED BY <2>1, <2>2, OneTellsNothing
<1>2. ~Live(s) /\ ~Registered(s)
  BY DEF AuthSucceeds, ServerInv, EntriesAreAttached, Attached, Live
<1>3. \A t \in Socket : t # s => (Live(t)' <=> Live(t))
  BY DEF AuthSucceeds, Live, Attached, ServerInv, ServerTypeOK
<1>4. LiveSet' = LiveSet \/ (s \notin LiveSet /\ LiveSet' = LiveSet \cup {s})
  BY <1>2, <1>3 DEF LiveSet
<1>5. /\ \A t \in Socket : t # s => /\ Registered(t)' <=> Registered(t)
                                    /\ Registered(t) => sockets'[t] = sockets[t]
      /\ Registered(s)' /\ sockets'[s].dbNames = {}
  BY <1>2 DEF AuthSucceeds, Add, Registered
<1>6. Subs' = Subs
  <2>1. ASSUME NEW t \in Socket PROVE Subs'[t] = Subs[t]
    <3>1. CASE t = s
      BY <1>2, <1>5, <3>1 DEF Subs
    <3>2. CASE t # s
      <4>1. /\ Live(t)' <=> Live(t)
            /\ Registered(t)' <=> Registered(t)
            /\ Registered(t) => sockets'[t] = sockets[t]
        BY <1>3, <1>5, <3>2
      <4> QED BY <4>1 DEF Subs
    <3> QED BY <3>1, <3>2
  <2> QED BY <2>1 DEF Subs
<1> QED BY <1>1, <1>4, <1>6

\* A connection that ends is the end of a session, if it was live.
LEMMA HangupMaps ==
    ASSUME ServerInv, NEW s \in Socket, Hangup(s),
           \A t \in Socket : Attached(t)' <=> Attached(t)
    PROVE  /\ LiveSet' = LiveSet \ {s}
           /\ Subs' = [t \in Socket |-> IF t \in {s} \cap LiveSet THEN {} ELSE Subs[t]]
<1>1. /\ conn' = [conn EXCEPT ![s] = "closed"]
      /\ DOMAIN sockets' = {t \in DOMAIN sockets : ~(t = s /\ Live(s))}
      /\ \A t \in DOMAIN sockets' : sockets'[t] = sockets[t]
  BY HangupRemoves
<1>2. /\ ~Live(s)'
      /\ \A t \in Socket : t # s => (Live(t)' <=> Live(t))
  BY <1>1 DEF Live, ServerInv, ServerTypeOK
<1>3. LiveSet' = LiveSet \ {s}
  BY <1>2 DEF LiveSet
<1>4. \A t \in Socket : t # s => /\ Registered(t)' <=> Registered(t)
                                 /\ Registered(t) => sockets'[t] = sockets[t]
  BY <1>1 DEF Registered
<1>5. ASSUME NEW t \in Socket
      PROVE  Subs'[t] = IF t \in {s} \cap LiveSet THEN {} ELSE Subs[t]
  <2>1. CASE t = s
    BY <1>2, <2>1 DEF Subs, LiveSet
  <2>2. CASE t # s
    <3>1. Live(t)' <=> Live(t)
      BY <1>2, <2>2
    <3>2. /\ Registered(t)' <=> Registered(t)
          /\ Registered(t) => sockets'[t] = sockets[t]
      BY <1>4, <2>2
    <3>3. Subs'[t] = Subs[t]
      BY <3>1, <3>2 DEF Subs
    <3> QED BY <2>2, <3>3
  <2> QED BY <2>1, <2>2
<1>6. Subs' = [t \in Socket |-> Subs'[t]]
  BY DEF Subs
<1> QED BY <1>3, <1>5, <1>6

\* A stop ends every session.
LEMMA StopMaps ==
    ASSUME ServerInv, Stop
    PROVE  Told' = {} /\ LiveSet' = {} /\ Subs' = [t \in Socket |-> {}]
<1>1. Told' = {}
  BY SilentTellsNothing DEF Stop
<1>2. \A t \in Socket : ~Live(t)'
  BY DEF Stop, IoClosed, Live
<1> QED BY <1>1, <1>2 DEF LiveSet, Subs

\* A request to subscribe or to unsubscribe sets the subscription of a live
\* session, or changes nothing.
LEMMA RespondsMaps ==
    ASSUME ServerInv, NEW s \in Socket, NEW r \in Request, CanArrive(s),
           UNCHANGED <<lifecycleVars, auth, handshake>>,
           Subscribe(s, r.dbNames) \/ Unsubscribe(s, r.dbNames),
           Responds(s, r)
    PROVE  /\ Told' = {}
           /\ LiveSet' = LiveSet
           /\ \/ Subs' = Subs
              \/ /\ s \in LiveSet
                 /\ \E dbNames \in SUBSET DB : Subs' = [Subs EXCEPT ![s] = dbNames]
<1>1. Told' = {}
  <2>1. /\ Ack(r, Throws(s, r.dbNames)) \in Packet
        /\ Ack(r, Throws(s, r.dbNames)).type # "change"
    BY PacketTypes DEF Ack, Throws
  <2> QED BY <2>1, OneTellsNothing DEF Responds
<1>2. UNCHANGED <<conn, auth>> /\ Attached(s)
  BY DEF Responds
<1>3. LiveSet' = LiveSet
  BY <1>2 DEF LiveSet, Live, Attached
<1>4. CASE ~Registered(s)
  <2>1. UNCHANGED registryVars
    BY <1>4 DEF Subscribe, Unsubscribe
  <2> QED BY <1>1, <1>2, <2>1, QuietMaps
<1>5. CASE Registered(s)
  <2>1. Live(s)
    BY <1>5 DEF CanArrive, ServerInv, DrainingAreRemoved, Live, EntriesAreAttached
  <2>2. /\ DOMAIN sockets' = DOMAIN sockets
        /\ \A t \in DOMAIN sockets \ {s} : sockets'[t] = sockets[t]
    BY <1>5 DEF Subscribe, Unsubscribe
  <2>3. \A t \in Socket : /\ Registered(t)' <=> Registered(t)
                          /\ Live(t)' <=> Live(t)
    BY <1>2, <2>2 DEF Registered, Live, Attached
  <2>4. sockets'[s].dbNames \in SUBSET DB
    <3>1. ServerInv'
      BY RespondsStep
    <3> QED BY <1>5, <2>3, <3>1
      DEF ServerInv, ServerTypeOK, RegistryTypeOK, Entry, Registered
  <2>5. \A t \in Socket : Subs'[t] = IF t = s THEN sockets'[s].dbNames ELSE Subs[t]
    BY <1>5, <2>1, <2>2, <2>3 DEF Subs, Registered
  <2>6. Subs' = [Subs EXCEPT ![s] = sockets'[s].dbNames]
    BY <2>5 DEF Subs
  <2> QED BY <1>1, <1>3, <2>1, <2>4, <2>6 DEF LiveSet
<1> QED BY <1>4, <1>5

\* Every step of the server is a step of Notifier, or a stutter.
LEMMA NextNotifier ==
    ServerInv /\ [ServerNext]_serverVars => [N!NotifierNext]_(N!notifierVars)
<1> SUFFICES ASSUME ServerInv, [ServerNext]_serverVars
             PROVE  N!NotifierNext \/ UNCHANGED <<LiveSet, Subs, Told>>
  BY DEF N!notifierVars, LiveSet, Subs
<1> DEFINE Quiet == Told' = {} /\ LiveSet' = LiveSet /\ Subs' = Subs
<1>1. ASSUME Quiet PROVE N!NotifierNext
  BY <1>1 DEF N!NotifierNext, N!Quiet, LiveSet, Subs
<1>2. ASSUME NEW ended \in SUBSET LiveSet, Told' = {}, LiveSet' = LiveSet \ ended,
             Subs' = [t \in Socket |-> IF t \in ended THEN {} ELSE Subs[t]]
      PROVE  N!NotifierNext
  BY <1>2 DEF N!NotifierNext, N!EndSessions, LiveSet, Subs
<1>3. ASSUME Silent, UNCHANGED <<registryVars, conn, auth>> PROVE Quiet
  BY <1>3, SilentTellsNothing, QuietMaps
<1>4. CASE Start
  <2>1. Silent /\ UNCHANGED <<registryVars, conn, auth>>
    BY <1>4 DEF Start, socketVars
  <2> QED BY <1>1, <1>3, <2>1
<1>5. CASE Stop
  <2>1. Told' = {} /\ LiveSet' = {} /\ Subs' = [t \in Socket |-> {}]
    BY <1>5, StopMaps
  <2>2. \A t \in Socket \ LiveSet : Subs[t] = {}
    BY DEF Subs, LiveSet
  <2>3. Subs' = [t \in Socket |-> IF t \in LiveSet THEN {} ELSE Subs[t]]
    BY <2>1, <2>2
  <2> QED BY <1>2, <2>1, <2>3
<1>6. ASSUME NEW s \in Socket, NEW c \in Cookie \cup {NoCookie}, Connect(s, c)
      PROVE  N!NotifierNext
  <2>1. Told' = {}
    BY <1>6, SilentTellsNothing DEF Connect
  <2>2. ~Attached(s) /\ \A t \in Socket : Live(t)' <=> Live(t)
    BY <1>6 DEF Connect, ServerInv, ServerTypeOK, UnusedAreFresh, Live, Attached
  <2>3. UNCHANGED registryVars
    BY <1>6 DEF Connect
  <2>4. LiveSet' = LiveSet
    BY <2>2 DEF LiveSet
  <2>5. Subs' = Subs
    BY <2>2, <2>3 DEF Subs, registryVars, Registered
  <2> QED BY <1>1, <2>1, <2>4, <2>5
<1>7. ASSUME NEW s \in Socket, CouchDBAnswers(s) PROVE N!NotifierNext
  <2>1. ASSUME NEW c \in Cookie, AuthSucceeds(s, c) PROVE N!NotifierNext
    <3>1. Told' = {} /\ Subs' = Subs
      BY <2>1, AuthSucceedsMaps
    <3>2. CASE LiveSet' = LiveSet
      BY <1>1, <3>1, <3>2
    <3>3. CASE s \notin LiveSet /\ LiveSet' = LiveSet \cup {s}
      BY <3>1, <3>3 DEF N!NotifierNext, N!OpenSession, LiveSet, Subs
    <3> QED BY <2>1, <3>2, <3>3, AuthSucceedsMaps
  <2>2. CASE AuthFails(s)
    <3>1. Told' = {}
      <4>1. NotAuthenticated \in Packet /\ Disconnect \in Packet
        BY PacketTypes
      <4>2. NotAuthenticated.type # "change" /\ Disconnect.type # "change"
        BY DEF NotAuthenticated, Disconnect
      <4>3. Emit({s}, <<NotAuthenticated, Disconnect>>)
        BY <2>2 DEF AuthFails
      <4> QED BY <4>1, <4>2, <4>3, TwoTellNothing
    <3>2. ~Live(s) /\ Hangup(s) /\ \A t \in Socket : Attached(t)' <=> Attached(t)
      BY <2>2 DEF AuthFails, Live, Attached, ServerInv, ServerTypeOK
    <3>3. /\ LiveSet' = LiveSet \ {s}
          /\ Subs' = [t \in Socket |-> IF t \in {s} \cap LiveSet THEN {} ELSE Subs[t]]
      BY <3>2, HangupMaps
    <3> QED BY <1>2, <3>1, <3>3
  <2> QED BY <1>7, <2>1, <2>2 DEF CouchDBAnswers
<1>8. ASSUME NEW s \in Socket, Hangs(s) PROVE N!NotifierNext
  <2>1. Told' = {}
    BY <1>8, SilentTellsNothing DEF Hangs
  <2>2. Hangup(s) /\ \A t \in Socket : Attached(t)' <=> Attached(t)
    BY <1>8 DEF Hangs, Attached
  <2>3. /\ LiveSet' = LiveSet \ {s}
        /\ Subs' = [t \in Socket |-> IF t \in {s} \cap LiveSet THEN {} ELSE Subs[t]]
    BY <2>2, HangupMaps
  <2> QED BY <1>2, <2>1, <2>3
<1>9. ASSUME NEW s \in Socket, EndBatch(s) PROVE N!NotifierNext
  BY <1>1, <1>3, <1>9 DEF EndBatch
<1>10. ASSUME NEW s \in Socket, NEW r \in Request, Handles(s, r)
       PROVE  N!NotifierNext
  <2>1. ASSUME Subscribe(s, r.dbNames) \/ Unsubscribe(s, r.dbNames),
               Responds(s, r),
               CanArrive(s),
               UNCHANGED <<lifecycleVars, auth, handshake>>
        PROVE  N!NotifierNext
    <3>1. Told' = {} /\ LiveSet' = LiveSet
      BY <2>1, RespondsMaps
    <3>2. CASE Subs' = Subs
      BY <1>1, <3>1, <3>2
    <3>3. ASSUME s \in LiveSet, NEW dbNames \in SUBSET DB,
                 Subs' = [Subs EXCEPT ![s] = dbNames]
          PROVE  N!NotifierNext
      BY <3>1, <3>3 DEF N!NotifierNext, N!SetSubscription, LiveSet, Subs
    <3> QED BY <2>1, <3>2, <3>3, RespondsMaps
  <2>2. CASE HandleSubscribe(s, r) \/ HandleUnsubscribe(s, r)
    BY <2>1, <2>2 DEF HandleSubscribe, HandleUnsubscribe, Arrives
  <2>3. CASE HandleHeartbeat(s, r)
    <3>1. Ack(r, FALSE) \in Packet /\ Ack(r, FALSE).type # "change"
      BY PacketTypes DEF Ack
    <3>2. Emit({s}, <<Ack(r, FALSE)>>) /\ UNCHANGED <<registryVars, conn, auth>>
      BY <2>3 DEF HandleHeartbeat, Arrives
    <3>3. Told' = {}
      BY <3>1, <3>2, OneTellsNothing
    <3> QED BY <1>1, <3>2, <3>3, QuietMaps
  <2>4. CASE HandleLogOut(s, r)
    <3>1. Told' = {}
      <4>1. Ack(r, FALSE) \in Packet /\ Disconnect \in Packet
        BY PacketTypes
      <4>2. Ack(r, FALSE).type # "change" /\ Disconnect.type # "change"
        BY DEF Ack, Disconnect
      <4>3. Emit({s}, <<Ack(r, FALSE), Disconnect>>)
        BY <2>4 DEF HandleLogOut
      <4> QED BY <4>1, <4>2, <4>3, TwoTellNothing
    <3>2. Hangup(s) /\ \A t \in Socket : Attached(t)' <=> Attached(t)
      BY <2>4 DEF HandleLogOut, Arrives, Attached
    <3>3. /\ LiveSet' = LiveSet \ {s}
          /\ Subs' = [t \in Socket |-> IF t \in {s} \cap LiveSet THEN {} ELSE Subs[t]]
      BY <3>2, HangupMaps
    <3> QED BY <1>2, <3>1, <3>3
  <2>5. CASE IgnoreRequest(s, r)
    BY <1>1, <1>3, <2>5 DEF IgnoreRequest, Arrives
  <2> QED BY <1>10, <2>2, <2>3, <2>4, <2>5 DEF Handles
<1>11. ASSUME NEW d \in DB, EmitChangeForDBName(d) PROVE N!NotifierNext
  <2>1. Told' = {s \in LiveSet : d \in Subs[s]} \X {d}
    BY <1>11, ChangeIsTold
  <2>2. LiveSet' = LiveSet /\ Subs' = Subs
    BY <1>11, QuietMaps DEF EmitChangeForDBName, socketVars
  <2> QED BY <2>1, <2>2 DEF N!NotifierNext, N!Publish, LiveSet, Subs
<1>12. CASE UNCHANGED serverVars
  <2>1. UNCHANGED <<registryVars, conn, auth, sent>>
    BY <1>12 DEF serverVars
  <2>2. Told' = Told
    BY <2>1 DEF Told, Change
  <2> QED BY <2>1, <2>2, QuietMaps
<1> QED
  BY <1>4, <1>5, <1>6, <1>7, <1>8, <1>9, <1>10, <1>11, <1>12 DEF ServerNext

\* The server implements Notifier: the sessions it promises to notify are the
\* sockets that are open and authenticated.
THEOREM ServerImplementsNotifier == ServerSpec => ImplementsNotifier
BY InitNotifier, NextNotifier, ServerInvariant, PTL
DEF ServerSpec, ImplementsNotifier, N!NotifierSpec

-----------------------------------------------------------------------------
(* The order of what a socket is sent *)

VerdictsOf(s) ==
    \A i \in DOMAIN sent'[s] :
        IsVerdict(sent'[s][i]) <=> (i = 1 /\ auth[s] = "pending")

\* Whom an Emit writes to, and what.
LEMMA Written ==
    ASSUME NEW to, NEW packets, Emit(to, packets), NEW s \in Socket
    PROVE  sent'[s] = <<>> \/ (s \in to /\ sent'[s] = packets)
BY DEF Emit

\* Nothing to say about a socket that nothing is written to.
LEMMA UnwrittenVerdicts ==
    ASSUME NEW s \in Socket, sent'[s] = <<>>
    PROVE  VerdictsOf(s)
BY DEF VerdictsOf

\* A socket that CouchDB accepted is sent no verdict any more.
LEMMA AttachedVerdicts ==
    ASSUME NEW s \in Socket, Attached(s),
           \A i \in DOMAIN sent'[s] : ~IsVerdict(sent'[s][i])
    PROVE  VerdictsOf(s)
BY DEF VerdictsOf, Attached

\* A step that only answers or disconnects one attached socket.
LEMMA AnswersVerdicts ==
    ASSUME NEW s \in Socket, Attached(s), NEW r \in Request, NEW e \in BOOLEAN,
           Emit({s}, <<Ack(r, e)>>) \/ Emit({s}, <<Ack(r, e), Disconnect>>)
    PROVE  \A t \in Socket : VerdictsOf(t)
<1> SUFFICES ASSUME NEW t \in Socket PROVE VerdictsOf(t)
  OBVIOUS
<1>1. \/ sent'[t] = <<>>
      \/ t = s /\ (sent'[t] = <<Ack(r, e)>> \/ sent'[t] = <<Ack(r, e), Disconnect>>)
  BY Written
<1>2. ~IsVerdict(Ack(r, e)) /\ ~IsVerdict(Disconnect)
  BY DEF IsVerdict, Ack, Disconnect
<1>3. CASE t = s /\ (sent'[t] = <<Ack(r, e)>> \/ sent'[t] = <<Ack(r, e), Disconnect>>)
  <2>1. \A i \in DOMAIN sent'[t] : sent'[t][i] \in {Ack(r, e), Disconnect}
    BY <1>3
  <2> QED BY <1>2, <1>3, <2>1, AttachedVerdicts
<1> QED BY <1>1, <1>3, UnwrittenVerdicts

\* The step in which CouchDB answers is the one that sends the verdict, first.
LEMMA VerdictSent ==
    ASSUME NEW s \in Socket, auth[s] = "pending", NEW p, IsVerdict(p),
           Emit({s}, <<p>>) \/ Emit({s}, <<p, Disconnect>>)
    PROVE  \A t \in Socket : VerdictsOf(t)
<1> SUFFICES ASSUME NEW t \in Socket PROVE VerdictsOf(t)
  OBVIOUS
<1>1. \/ sent'[t] = <<>>
      \/ t = s /\ (sent'[t] = <<p>> \/ sent'[t] = <<p, Disconnect>>)
  BY Written
<1>2. ~IsVerdict(Disconnect)
  BY DEF IsVerdict, Disconnect
<1>3. CASE t = s /\ sent'[t] = <<p>>
  BY <1>3 DEF VerdictsOf
<1>4. CASE t = s /\ sent'[t] = <<p, Disconnect>>
  <2>1. DOMAIN sent'[t] = {1, 2} /\ sent'[t][1] = p /\ sent'[t][2] = Disconnect
    BY <1>4
  <2> QED BY <1>2, <1>4, <2>1 DEF VerdictsOf
<1> QED BY <1>1, <1>3, <1>4, UnwrittenVerdicts

\* A step that writes nothing.
LEMMA SilentVerdicts ==
    ASSUME Silent
    PROVE  \A t \in Socket : VerdictsOf(t)
BY Written, UnwrittenVerdicts DEF Silent

\* Only live sockets hear of a change: they have had their verdict.
LEMMA ChangeVerdicts ==
    ASSUME ServerInv, NEW d \in DB, EmitChangeForDBName(d)
    PROVE  \A t \in Socket : VerdictsOf(t)
<1> SUFFICES ASSUME NEW t \in Socket PROVE VerdictsOf(t)
  OBVIOUS
<1>1. sent'[t] = <<>> \/ (t \in Subscribers(d) /\ sent'[t] = <<Change(d)>>)
  BY Written DEF EmitChangeForDBName
<1>2. ~IsVerdict(Change(d))
  BY DEF IsVerdict, Change
<1>3. CASE t \in Subscribers(d) /\ sent'[t] = <<Change(d)>>
  <2>1. Attached(t)
    BY <1>3, ServerInvImplies DEF OnlyLiveIndexed, Live
  <2>2. \A i \in DOMAIN sent'[t] : sent'[t][i] = Change(d)
    BY <1>3
  <2> QED BY <1>2, <2>1, <2>2, AttachedVerdicts
<1> QED BY <1>1, <1>3, UnwrittenVerdicts

\* A socket learns first whether it is authenticated, and once, whatever
\* server.js does in between.
THEOREM ServerVerdictFirst == ServerSpec => VerdictFirst
<1> DEFINE Verdicts == \A s \in Socket : VerdictsOf(s)
<1>1. ASSUME ServerInv, ServerNext PROVE Verdicts
  <2>1. CASE Start \/ Stop
    BY <2>1, SilentVerdicts DEF Start, Stop
  <2>2. ASSUME NEW s \in Socket, NEW c \in Cookie \cup {NoCookie}, Connect(s, c)
        PROVE  Verdicts
    BY <2>2, SilentVerdicts DEF Connect
  <2>3. ASSUME NEW s \in Socket, NEW c \in Cookie, AuthSucceeds(s, c)
        PROVE  Verdicts
    <3>1. IsVerdict(Authenticated(c))
      BY DEF IsVerdict, Authenticated
    <3> QED BY <2>3, <3>1, VerdictSent DEF AuthSucceeds
  <2>4. ASSUME NEW s \in Socket, AuthFails(s) PROVE Verdicts
    <3>1. IsVerdict(NotAuthenticated)
      BY DEF IsVerdict, NotAuthenticated
    <3> QED BY <2>4, <3>1, VerdictSent DEF AuthFails
  <2>5. ASSUME NEW s \in Socket, Hangs(s) \/ EndBatch(s) PROVE Verdicts
    BY <2>5, SilentVerdicts DEF Hangs, EndBatch
  <2>6. ASSUME NEW s \in Socket, NEW r \in Request, Handles(s, r) PROVE Verdicts
    <3>1. CASE HandleSubscribe(s, r) \/ HandleUnsubscribe(s, r)
      <4>1. Attached(s) /\ Emit({s}, <<Ack(r, Throws(s, r.dbNames))>>)
        BY <3>1 DEF HandleSubscribe, HandleUnsubscribe, Responds
      <4>2. Throws(s, r.dbNames) \in BOOLEAN
        BY DEF Throws
      <4> QED BY <4>1, <4>2, AnswersVerdicts
    <3>2. CASE HandleHeartbeat(s, r) \/ HandleLogOut(s, r)
      BY <3>2, AnswersVerdicts DEF HandleHeartbeat, HandleLogOut
    <3>3. CASE IgnoreRequest(s, r)
      BY <3>3, SilentVerdicts DEF IgnoreRequest
    <3> QED BY <2>6, <3>1, <3>2, <3>3 DEF Handles
  <2>7. ASSUME NEW d \in DB, EmitChangeForDBName(d) PROVE Verdicts
    BY <1>1, <2>7, ChangeVerdicts
  <2> HIDE DEF Verdicts
  <2> QED BY <1>1, <2>1, <2>2, <2>3, <2>4, <2>5, <2>6, <2>7
          DEF ServerNext, CouchDBAnswers
<1>2. ServerInv /\ [ServerNext]_serverVars => [Verdicts]_serverVars
  BY <1>1
<1> QED BY <1>2, ServerInvariant, PTL DEF ServerSpec, VerdictFirst, VerdictsOf

\* No subscriber is forgotten and no other socket is told, whatever requests,
\* log-outs and losses came before the change.
THEOREM ServerTellsEveryChange == ServerSpec => EveryChangeIsTold
<1>1. ASSUME ServerInv, NEW d \in DB, EmitChangeForDBName(d), NEW s \in Socket
      PROVE  <<s, d>> \in Told' <=>
               (Live(s) /\ Registered(s) /\ d \in sockets[s].dbNames)
  <2>1. Told' = {t \in Socket : Live(t) /\ d \in Subs[t]} \X {d}
    BY <1>1, ChangeIsTold DEF LiveSet
  <2>2. <<s, d>> \in Told' <=> Live(s) /\ d \in Subs[s]
    BY <2>1
  <2> QED BY <2>2 DEF Subs
<1>2. ServerInv /\ [ServerNext]_serverVars =>
        [\A d \in DB : EmitChangeForDBName(d) =>
           \A s \in Socket : <<s, d>> \in Told' <=>
              (Live(s) /\ Registered(s) /\ d \in sockets[s].dbNames)]_serverVars
  BY <1>1
<1> QED BY <1>2, ServerInvariant, PTL DEF ServerSpec, EveryChangeIsTold

==============================================================================
