------------------------------ MODULE Sessions -------------------------------
(***************************************************************************)
(* The session stores of clients (client/session.js, cookie.js,            *)
(* node-cookie.js) and what they are for: a client that logged in connects *)
(* with its cookie whenever it lost its connection or is started again.    *)
(*                                                                         *)
(* Client.tla has one client, in detail; here are several, each reduced to *)
(* its use of the store.  The application of a client logs in only when    *)
(* the client is off.  A store keeps one cookie, under one name for all    *)
(* the clients that use it: in a browser the pages of an origin, in node   *)
(* every client of the process that was given no session of its own.       *)
(*                                                                         *)
(* External: the server, which accepts a log in or refuses it, and accepts *)
(* a cookie sooner or later (a client tries again until it does); js-cookie*)
(* and an asynchronous store, which does what it is asked in order, later. *)
(***************************************************************************)
EXTENDS Naturals, Sequences

CONSTANTS
    Client,
    Store,
    StoreOf,        \* the store of each client
    Cookie,
    NoCookie,
    InBrowser,      \* commonUtils.inBrowser(): js-cookie, not node-cookie
    Async,          \* is the store asynchronous?
    MaxOps          \* bound: operations an asynchronous store has to do

ASSUME SessionsAssumption ==
    /\ StoreOf \in [Client -> Store]
    /\ NoCookie \notin Cookie
    /\ InBrowser \in BOOLEAN /\ Async \in BOOLEAN
    /\ MaxOps \in Nat \ {0}

VARIABLES
    jar,        \* per store: the cookie it keeps, and does a restart keep it?
    ops,        \* per store: what it was asked and has not done
    phase,      \* per client: how far its connection has come
    using,      \* per client: the cookie of that connection
    own,        \* per client: what its last logIn() resolved to, until logOut()
    writer      \* history, per store: the client whose set or remove it did last,
                \* as a set

clientVars == <<phase, using, own>>
sessionsVars == <<jar, ops, clientVars, writer>>

MaybeCookie == Cookie \cup {NoCookie}
NoOps == [s \in Store |-> <<>>]

SessionsTypeOK ==
    /\ jar \in [Store -> [cookie : MaybeCookie, persistent : BOOLEAN]]
    /\ ops \in [Store -> Seq([type : {"set", "get", "remove"}, client : Client,
                              cookie : MaybeCookie, expires : BOOLEAN])]
    /\ phase \in [Client -> {"looking", "connecting", "logging in", "connected", "off"}]
    /\ using \in [Client -> MaybeCookie]
    /\ own \in [Client -> MaybeCookie]
    /\ writer \in [Store -> SUBSET Client]
    /\ \A c \in Client : phase[c] = "connected" => using[c] \in Cookie

\* Every client is started with an empty store, and found no cookie in it.
SessionsInit ==
    /\ jar = [s \in Store |-> [cookie |-> NoCookie, persistent |-> FALSE]]
    /\ ops = NoOps
    /\ phase = [c \in Client |-> "off"]
    /\ using = [c \in Client |-> NoCookie]
    /\ own = [c \in Client |-> NoCookie]
    /\ writer = [s \in Store |-> {}]

-----------------------------------------------------------------------------
(* The session: what it asks of its store *)

Op(type, c, k) ==
    [type |-> type, client |-> c, cookie |-> k, expires |-> type = "set"]
Asked(s, op) == ops' = [ops EXCEPT ![s] = Append(@, op)]

\* Mutant: without an expiration a cookie is gone when the application restarts.
SetForNow(c, k) ==
    Asked(StoreOf[c], [Op("set", c, k) EXCEPT !.expires = FALSE])

\* Session.set, with an expiration.  It does not await the store.
Set(c, k) == Asked(StoreOf[c], Op("set", c, k))
Get(c) == Asked(StoreOf[c], Op("get", c, NoCookie))
Clear(c) == Asked(StoreOf[c], Op("remove", c, NoCookie))

\* A store that is not asynchronous has done what it was asked before anything
\* else happens.
AtRest == Async \/ ops = NoOps

\* Bound: an asynchronous store has at most MaxOps operations to do.
Ask(c) == AtRest /\ Len(ops[StoreOf[c]]) < MaxOps

-----------------------------------------------------------------------------
(* The store *)

Does(s, type) ==
    /\ ops[s] # <<>>
    /\ Head(ops[s]).type = type

Kept(op) == [cookie |-> op.cookie, persistent |-> op.expires]
Written(s) == writer' = [writer EXCEPT ![s] = {Head(ops[s]).client}]

\* Mutant: the cookie of another client is not overwritten.
StoreSetsOnce(s) ==
    /\ Does(s, "set")
    /\ ops' = [ops EXCEPT ![s] = Tail(@)]
    /\ jar' = IF jar[s].cookie = NoCookie
              THEN [jar EXCEPT ![s] = Kept(Head(ops[s]))] ELSE jar
    /\ Written(s)
    /\ UNCHANGED clientVars

StoreSets(s) ==
    /\ Does(s, "set")
    /\ ops' = [ops EXCEPT ![s] = Tail(@)]
    /\ jar' = [jar EXCEPT ![s] = Kept(Head(ops[s]))]
    /\ Written(s)
    /\ UNCHANGED clientVars

\* Mutant: _connectIfCookie connects without a cookie.
StoreGetsAnything(s) ==
    /\ Does(s, "get")
    /\ ops' = [ops EXCEPT ![s] = Tail(@)]
    /\ phase' = [phase EXCEPT ![Head(ops[s]).client] = "connecting"]
    /\ using' = [using EXCEPT ![Head(ops[s]).client] = jar[s].cookie]
    /\ UNCHANGED <<jar, own, writer>>

\* _connectIfCookie goes on.
StoreGets(s) ==
    /\ Does(s, "get")
    /\ ops' = [ops EXCEPT ![s] = Tail(@)]
    /\ LET c == Head(ops[s]).client
           k == jar[s].cookie
       IN  \/ /\ k # NoCookie
              /\ phase' = [phase EXCEPT ![c] = "connecting"]
              /\ using' = [using EXCEPT ![c] = k]
           \/ /\ k = NoCookie
              /\ phase' = [phase EXCEPT ![c] = "off"]
              /\ UNCHANGED using
    /\ UNCHANGED <<jar, own, writer>>

\* logOut() goes on.  When connected the server disconnects the client, which
\* looks for a cookie again; else logOut() rejects.
StoreRemoves(s) ==
    /\ Does(s, "remove")
    /\ jar' = [jar EXCEPT ![s].cookie = NoCookie]
    /\ Written(s)
    /\ LET c == Head(ops[s]).client
       IN  \/ /\ phase[c] = "connected"
              /\ phase' = [phase EXCEPT ![c] = "looking"]
              /\ ops' = [ops EXCEPT ![s] = Append(Tail(@), Op("get", c, NoCookie))]
           \/ /\ phase[c] # "connected"
              /\ ops' = [ops EXCEPT ![s] = Tail(@)]
              /\ UNCHANGED phase
    /\ UNCHANGED <<using, own>>

-----------------------------------------------------------------------------
(* The client *)

\* logIn(): the server will hand out the cookie k.
LogIn(c, k) ==
    /\ AtRest
    /\ phase[c] = "off"
    /\ phase' = [phase EXCEPT ![c] = "logging in"]
    /\ using' = [using EXCEPT ![c] = k]
    /\ UNCHANGED <<jar, ops, own, writer>>

\* The server accepts a log in, and logIn() resolves.
Accepted(c) ==
    /\ Ask(c)
    /\ phase[c] = "logging in"
    /\ Set(c, using[c])
    /\ own' = [own EXCEPT ![c] = using[c]]
    /\ phase' = [phase EXCEPT ![c] = "connected"]
    /\ UNCHANGED <<jar, using, writer>>

\* The server refuses it: logIn() throws.
Refused(c) ==
    /\ AtRest
    /\ phase[c] = "logging in"
    /\ phase' = [phase EXCEPT ![c] = "off"]
    /\ UNCHANGED <<jar, ops, using, own, writer>>

\* The server accepts the cookie.
Connected(c) ==
    /\ AtRest
    /\ phase[c] = "connecting"
    /\ phase' = [phase EXCEPT ![c] = "connected"]
    /\ UNCHANGED <<jar, ops, using, own, writer>>

\* The connection is lost: _disconnect.
Lost(c) ==
    /\ Ask(c)
    /\ phase[c] = "connected"
    /\ phase' = [phase EXCEPT ![c] = "looking"]
    /\ Get(c)
    /\ UNCHANGED <<jar, using, own, writer>>

\* logOut(), whether the application logged in before or not.
LogOut(c) ==
    /\ Ask(c)
    /\ Clear(c)
    /\ own' = [own EXCEPT ![c] = NoCookie]
    /\ UNCHANGED <<jar, phase, using, writer>>

\* In a browser the application of c is started again: a cookie that has no
\* expiration is gone, and so is what the store was asked and has not done.
Restarts(c) ==
    /\ InBrowser
    /\ AtRest
    /\ LET s == StoreOf[c]
       IN  /\ ops' = [ops EXCEPT ![s] = <<Op("get", c, NoCookie)>>]
           /\ jar' = IF jar[s].persistent THEN jar
                     ELSE [jar EXCEPT ![s].cookie = NoCookie]
    /\ phase' = [phase EXCEPT ![c] = "looking"]
    /\ UNCHANGED <<using, own, writer>>

SessionsNext ==
    \/ \E s \in Store : StoreSets(s) \/ StoreGets(s) \/ StoreRemoves(s)
    \/ \E c \in Client : \/ Accepted(c) \/ Refused(c) \/ Connected(c) \/ Lost(c)
                         \/ LogOut(c) \/ Restarts(c)
                         \/ \E k \in Cookie : LogIn(c, k)

SessionsSpec == SessionsInit /\ [][SessionsNext]_sessionsVars

-----------------------------------------------------------------------------
(* Properties *)

\* Nobody else has written to the store of c since c did, though others that share
\* it may have read it, logged in without success, or been started again.
Undisturbed(c) == writer[StoreOf[c]] = {c}

\* Even on a shared store, a client connects as the user its application logged in
\* last, however often its connection is lost or its application is started again,
\* until another client of that store logs in or out.
ConnectsAsItself ==
    \A c \in Client :
        own[c] # NoCookie /\ Undisturbed(c) /\ phase[c] \in {"connecting", "connected"}
        => using[c] = own[c]

\* A client that logged in does not end up without a connection, unless its
\* application logs out, or another client of its store logs in or out.
StaysLoggedIn ==
    \A c \in Client : phase[c] = "off" /\ Undisturbed(c) => own[c] = NoCookie

\* Read literally, README.md:105: "subsequent use of the howler client will
\* automatically use this cached cookie until you issue client.logOut()".
CookieIsUsed == \A c \in Client : phase[c] = "off" => own[c] = NoCookie

\* Read literally, README.md:105: the cookie is used "until you issue
\* client.logOut()".
LogOutEndsUse ==
    \A c \in Client : phase[c] = "connected" /\ AtRest => own[c] # NoCookie

==============================================================================
