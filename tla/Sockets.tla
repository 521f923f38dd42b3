------------------------------- MODULE Sockets -------------------------------
(***************************************************************************)
(* The socket registry of a howler server, src/src/server/sockets.js.      *)
(*                                                                         *)
(* The class keeps the same relation twice: _sockets maps the id of every  *)
(* registered socket to the DBs it subscribes to, and _socketsByDBName is  *)
(* the index used to notify, from a DB to the sockets that subscribe to    *)
(* it.  Both are JavaScript objects whose keys come and go, hence partial  *)
(* functions here: a key that is deleted leaves the DOMAIN.                *)
(***************************************************************************)
CONSTANTS
    Socket,     \* ids of server side sockets; socket.io never reuses one
    DB,         \* names of databases
    Cookie,     \* session cookies handed out by CouchDB
    NoCookie    \* the absence of a cookie

ASSUME NoCookieAssumption == NoCookie \notin Cookie

VARIABLES
    sockets,            \* _sockets: id -> [dbNames, cookie]
    socketsByDBName     \* _socketsByDBName: DB -> the ids subscribed to it

registryVars == <<sockets, socketsByDBName>>

Entry == [dbNames : SUBSET DB, cookie : Cookie]

RegistryTypeOK ==
    /\ DOMAIN sockets \subseteq Socket
    /\ sockets \in [DOMAIN sockets -> Entry]
    /\ DOMAIN socketsByDBName \subseteq DB
    /\ socketsByDBName \in [DOMAIN socketsByDBName -> SUBSET Socket]

SocketsInit ==
    /\ sockets = [s \in {} |-> [dbNames |-> {}, cookie |-> NoCookie]]
    /\ socketsByDBName = [d \in {} |-> {}]

-----------------------------------------------------------------------------

Registered(s) == s \in DOMAIN sockets

\* getByDBName, with no entry read as no subscriber: the sockets that
\* emitChangeForDBName writes a change to.
Subscribers(d) ==
    IF d \in DOMAIN socketsByDBName THEN socketsByDBName[d] ELSE {}

\* Mutant: the empty entry is left in the index.
IndexNeverPruned(gone) ==
    [d \in DOMAIN socketsByDBName |-> socketsByDBName[d] \ gone[d]]

\* The index after the sockets gone[d] are taken out of the entry of every DB
\* d: an entry that loses its last socket is deleted, an entry nothing is
\* taken from is not looked at.
IndexWithout(gone) ==
    LET left == [d \in DOMAIN socketsByDBName |-> socketsByDBName[d] \ gone[d]]
    IN  [d \in {e \in DOMAIN socketsByDBName : gone[e] = {} \/ left[e] # {}}
            |-> left[d]]

\* Mutant: setCookie is not called.
AddWithoutCookie(s, cookie) ==
    /\ sockets' = [t \in DOMAIN sockets \cup {s} |->
                     IF t # s THEN sockets[t]
                     ELSE [dbNames |-> {}, cookie |-> NoCookie]]
    /\ UNCHANGED socketsByDBName

\* The server calls add and setCookie back to back.  A socket that is already
\* there keeps its subscriptions.
Add(s, cookie) ==
    /\ sockets' =
         [t \in DOMAIN sockets \cup {s} |->
            IF t # s THEN sockets[t]
            ELSE [dbNames |-> IF Registered(s) THEN sockets[s].dbNames ELSE {},
                  cookie  |-> cookie]]
    /\ UNCHANGED socketsByDBName

\* Mutant: the subscriptions of a removed socket stay in the index.
RemoveEntriesOnly(gone) ==
    /\ sockets' = [t \in DOMAIN sockets \ gone |-> sockets[t]]
    /\ UNCHANGED socketsByDBName

\* What removing each of the sockets in gone does.  Each must have an entry.
RemoveAll(gone) ==
    /\ sockets' = [t \in DOMAIN sockets \ gone |-> sockets[t]]
    /\ socketsByDBName' =
         IndexWithout([d \in DB |-> {s \in gone : d \in sockets[s].dbNames}])

Remove(s) == Registered(s) /\ RemoveAll({s})

\* subscribe() and unsubscribe() throw on a socket without an entry, unless
\* they are given no DB: the throw comes before the index is changed.
Throws(s, dbNames) == ~Registered(s) /\ dbNames # {}

\* Mutant: _subscribeToDB writes the index before it looks at the entry.
SubscribeIndexFirst(s, dbNames) ==
    /\ socketsByDBName' =
         [d \in DOMAIN socketsByDBName \cup dbNames |->
            IF d \in dbNames THEN Subscribers(d) \cup {s}
                             ELSE socketsByDBName[d]]
    /\ IF Registered(s)
       THEN sockets' = [sockets EXCEPT ![s].dbNames = @ \cup dbNames]
       ELSE UNCHANGED sockets

Subscribe(s, dbNames) ==
    \/ /\ Registered(s)
       /\ sockets' = [sockets EXCEPT ![s].dbNames = @ \cup dbNames]
       /\ socketsByDBName' =
            [d \in DOMAIN socketsByDBName \cup dbNames |->
               IF d \in dbNames THEN Subscribers(d) \cup {s}
                                ELSE socketsByDBName[d]]
    \/ ~Registered(s) /\ UNCHANGED registryVars

Unsubscribe(s, dbNames) ==
    \/ /\ Registered(s)
       /\ sockets' = [sockets EXCEPT ![s].dbNames = @ \ dbNames]
       /\ socketsByDBName' =
            IndexWithout([d \in DB |-> IF d \in dbNames THEN {s} ELSE {}])
    \/ ~Registered(s) /\ UNCHANGED registryVars

Close == RemoveAll(DOMAIN sockets)

-----------------------------------------------------------------------------

SocketsNext ==
    \/ \E s \in Socket, c \in Cookie : Add(s, c)
    \/ \E s \in Socket : Remove(s)
    \/ \E s \in Socket, dbNames \in SUBSET DB :
         Subscribe(s, dbNames) \/ Unsubscribe(s, dbNames)
    \/ Close

SocketsSpec == SocketsInit /\ [][SocketsNext]_registryVars

-----------------------------------------------------------------------------

\* The index and the entries say the same: a socket is listed under a DB
\* exactly when it has an entry that names this DB.  A socket listed without
\* an entry would be notified after it is gone (_subscribeToDB in the wrong
\* order); one with an entry that is not listed would miss its changes.
IndexAgrees ==
    \A s \in Socket, d \in DB :
        s \in Subscribers(d) <=> (Registered(s) /\ d \in sockets[s].dbNames)

\* An entry of the index disappears with its last socket
\* (_removeDBFromSocketsByDBName), so the index never outgrows the
\* subscriptions of the sockets that are registered.
NoEmptyEntry == \A d \in DOMAIN socketsByDBName : socketsByDBName[d] # {}

\* The two together, which every call of the class preserves.
RegistryInv == RegistryTypeOK /\ IndexAgrees /\ NoEmptyEntry

==============================================================================
