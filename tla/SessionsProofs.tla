--------------------------- MODULE SessionsProofs ----------------------------
(***************************************************************************)
(* Theorems about Sessions: for every set of clients, however many share a *)
(* store, if the stores are synchronous, a client connects as itself and   *)
(* stays logged in until another client writes to its store.               *)
(* SessionsShared.cfg and SessionsAsync.cfg show that neither condition    *)
(* can be dropped.                                                         *)
(***************************************************************************)
EXTENDS Sessions, TLAPS

StateTypes ==
    /\ jar \in [Store -> [cookie : MaybeCookie, persistent : BOOLEAN]]
    /\ DOMAIN ops = Store /\ ops = [s \in Store |-> ops[s]]
    /\ phase \in [Client -> {"looking", "connecting", "logging in", "connected", "off"}]
    /\ using \in [Client -> MaybeCookie]
    /\ own \in [Client -> MaybeCookie]
    /\ writer \in [Store -> SUBSET Client]

\* An operation that the store of c has to do for c.
OpRight(c) ==
    \/ ops[StoreOf[c]] = <<Op("get", c, NoCookie)>> /\ phase[c] = "looking"
    \/ ops[StoreOf[c]] = <<Op("remove", c, NoCookie)>> /\ own[c] = NoCookie
    \/ /\ ops[StoreOf[c]] = <<Op("set", c, own[c])>>
       /\ phase[c] = "connected" /\ using[c] = own[c]

\* The cookie of c is kept, or is about to be.
CookieKept(c) ==
    \/ ops[StoreOf[c]] = <<Op("set", c, own[c])>>
    \/ jar[StoreOf[c]].cookie = own[c] /\ jar[StoreOf[c]].persistent

ClientRight(c) ==
    /\ own[c] # NoCookie /\ writer[StoreOf[c]] = {c} =>
         /\ phase[c] \in {"looking", "connecting", "connected"}
         /\ phase[c] # "looking" => using[c] = own[c]
         /\ CookieKept(c)
    /\ phase[c] = "looking" => ops[StoreOf[c]] = <<Op("get", c, NoCookie)>>
    /\ phase[c] \in {"connecting", "logging in", "connected"} => using[c] \in Cookie

\* The inductive invariant.  A store has one operation to do, at most, and
\* nothing else happens while it does.
SessionsInv ==
    /\ StateTypes
    /\ \A s \in Store : ops[s] # <<>> => \E c \in Client : StoreOf[c] = s /\ OpRight(c)
    /\ \A c \in Client : ClientRight(c)

-----------------------------------------------------------------------------

\* What an operation is.
LEMMA OpFields ==
    ASSUME NEW t, NEW c, NEW k
    PROVE  /\ Op(t, c, k).type = t
           /\ Op(t, c, k).client = c
           /\ Op(t, c, k).cookie = k
  BY DEF Op

\* Session.set has an expiration.
LEMMA SetExpires ==
    ASSUME NEW c, NEW k
    PROVE  Op("set", c, k).expires = TRUE
  BY DEF Op

\* A sequence of one operation.
LEMMA OneOp ==
    ASSUME NEW x
    PROVE  /\ <<x>> # <<>>
           /\ Head(<<x>>) = x
           /\ Tail(<<x>>) = <<>>
           /\ Append(<<>>, x) = <<x>>
  OBVIOUS

\* The cookie that a client which nobody disturbed finds in store s is not touched.
JarKept(s) ==
    writer'[s] = writer[s] /\ (jar[s].persistent => jar'[s] = jar[s])

\* What an action leaves alone of the stores and clients other than those of c: the
\* store of c has done, or is asked, nothing but what is for c, and what others
\* keep in it stays as long as it is c that writes.
OthersAlone(c) ==
    /\ \A d \in Client \ {c} :
         own'[d] = own[d] /\ phase'[d] = phase[d] /\ using'[d] = using[d]
    /\ \A s \in Store \ {StoreOf[c]} :
         ops'[s] = ops[s] /\ jar'[s] = jar[s] /\ writer'[s] = writer[s]
    /\ ops[StoreOf[c]] = <<>> \/ OpRight(c)
    /\ writer'[StoreOf[c]] = {c} \/ JarKept(StoreOf[c])

\* Two operations differ when their clients do.
LEMMA OpsDiffer ==
    ASSUME NEW c, NEW d, c # d, NEW t, NEW u, NEW k, NEW l
    PROVE  <<Op(t, c, k)>> # <<Op(u, d, l)>>
  <1>1. Op(t, c, k) # Op(u, d, l)
    BY OpFields
  <1> QED
    BY <1>1

\* An action of c, or of its store for c, has to be right for c only.
LEMMA ActsAlone ==
    ASSUME ~Async, SessionsInv, NEW c \in Client, OthersAlone(c),
           StateTypes', ops'[StoreOf[c]] = <<>> \/ OpRight(c)', ClientRight(c)'
    PROVE  SessionsInv'
  <1> USE SessionsAssumption
  <1>1. ASSUME NEW d \in Client, d # c
        PROVE  ClientRight(d)'
    <2>1. StoreOf[d] \in Store /\ StoreOf[c] \in Store
      OBVIOUS
    <2>2. own'[d] = own[d] /\ phase'[d] = phase[d] /\ using'[d] = using[d]
      BY <1>1 DEF OthersAlone
    <2>3. ClientRight(d)
      BY DEF SessionsInv
    <2>4. CASE StoreOf[d] # StoreOf[c]
      <3>1. /\ ops'[StoreOf[d]] = ops[StoreOf[d]] /\ jar'[StoreOf[d]] = jar[StoreOf[d]]
            /\ writer'[StoreOf[d]] = writer[StoreOf[d]]
        BY <2>1, <2>4 DEF OthersAlone
      <3> QED
        BY <2>2, <2>3, <3>1 DEF ClientRight, CookieKept
    <2>5. CASE StoreOf[d] = StoreOf[c]
      <3> DEFINE s == StoreOf[c]
      <3>1. \A t \in {"get", "set"}, k \in MaybeCookie : ops[s] # <<Op(t, d, k)>>
        BY <1>1, OneOp, OpsDiffer DEF OthersAlone, OpRight
      <3>2. phase[d] # "looking"
        BY <2>3, <2>5, <3>1 DEF ClientRight, MaybeCookie
      <3>3. ASSUME own[d] # NoCookie, writer'[s] = {d}
            PROVE  /\ phase[d] \in {"connecting", "connected"} /\ using[d] = own[d]
                   /\ jar'[s].cookie = own[d] /\ jar'[s].persistent
        <4>1. {c} # {d}
          BY <1>1
        <4>2. JarKept(s) /\ writer'[s] = writer[s]
          BY <3>3, <4>1 DEF OthersAlone, JarKept
        <4>3. own[d] \in MaybeCookie
          BY DEF SessionsInv, StateTypes
        <4>4. /\ phase[d] \in {"looking", "connecting", "connected"}
              /\ phase[d] # "looking" => using[d] = own[d]
              /\ CookieKept(d)
          BY <2>3, <2>5, <3>3, <4>2 DEF ClientRight
        <4> QED
          BY <2>5, <3>1, <3>2, <4>2, <4>3, <4>4 DEF CookieKept, JarKept
      <3> QED
        BY <2>2, <2>3, <2>5, <3>2, <3>3 DEF ClientRight, CookieKept
    <2> QED
      BY <2>4, <2>5
  <1>2. ASSUME NEW s \in Store, ops'[s] # <<>>
        PROVE  \E d \in Client : StoreOf[d] = s /\ OpRight(d)'
    <2>1. CASE s = StoreOf[c]
      BY <1>2, <2>1
    <2>2. CASE s # StoreOf[c]
      <3>1. ops'[s] = ops[s]
        BY <2>2 DEF OthersAlone
      <3>2. PICK d \in Client : StoreOf[d] = s /\ OpRight(d)
        BY <1>2, <3>1 DEF SessionsInv
      <3>3. own'[d] = own[d] /\ phase'[d] = phase[d] /\ using'[d] = using[d]
        BY <2>2, <3>2 DEF OthersAlone
      <3> QED
        BY <3>1, <3>2, <3>3 DEF OpRight
    <2> QED
      BY <2>1, <2>2
  <1> QED
    BY <1>1, <1>2 DEF SessionsInv

\* The operation at the head of a store is that of the client it belongs to.
LEMMA HeadOp ==
    ASSUME ~Async, SessionsInv, NEW s \in Store, ops[s] # <<>>
    PROVE  \E c \in Client :
             /\ StoreOf[c] = s
             /\ OpRight(c) /\ ClientRight(c)
             /\ Head(ops[s]).client = c
             /\ Tail(ops[s]) = <<>>
  <1>1. PICK c \in Client : StoreOf[c] = s /\ OpRight(c)
    BY DEF SessionsInv
  <1>2. ClientRight(c)
    BY DEF SessionsInv
  <1>3. ASSUME NEW t, NEW k, ops[s] = <<Op(t, c, k)>>
        PROVE  Head(ops[s]).client = c /\ Tail(ops[s]) = <<>>
    BY <1>3, OneOp, OpFields
  <1> QED
    BY <1>1, <1>2, <1>3 DEF OpRight

\* At rest nothing is asked of the store of any client.
LEMMA RestIsEmpty ==
    ASSUME ~Async, AtRest, NEW c \in Client
    PROVE  /\ ops[StoreOf[c]] = <<>>
           /\ StoreOf[c] \in Store
  BY SessionsAssumption DEF AtRest, NoOps

-----------------------------------------------------------------------------
(* The actions of the store *)

\* Session.set is done.
LEMMA StoreSetsRight ==
    ASSUME ~Async, SessionsInv, NEW s \in Store, StoreSets(s)
    PROVE  SessionsInv'
  <1>t. StateTypes
    BY DEF SessionsInv
  <1>1. PICK c \in Client : /\ StoreOf[c] = s
                            /\ OpRight(c) /\ ClientRight(c)
                            /\ Head(ops[s]).client = c
                            /\ Tail(ops[s]) = <<>>
    BY HeadOp DEF StoreSets, Does
  <1>2. /\ ops[s] = <<Op("set", c, own[c])>>
        /\ phase[c] = "connected" /\ using[c] = own[c]
    BY <1>1, OneOp, OpFields DEF StoreSets, Does, OpRight
  <1>3. /\ Head(ops[s]).cookie = own[c]
        /\ Head(ops[s]).expires = TRUE
    <2>1. Head(ops[s]) = Op("set", c, own[c])
      BY <1>2, OneOp
    <2>2. Op("set", c, own[c]).cookie = own[c]
      BY OpFields
    <2>3. Op("set", c, own[c]).expires = TRUE
      BY SetExpires, Zenon
    <2> QED
      BY <2>1, <2>2, <2>3, Zenon
  <1>4. /\ ops' = [ops EXCEPT ![s] = <<>>] /\ UNCHANGED <<phase, using, own>>
        /\ writer' = [writer EXCEPT ![s] = {c}]
    BY <1>1 DEF StoreSets, Written, clientVars
  <1>5. jar' = [jar EXCEPT ![s] = [cookie |-> own[c], persistent |-> TRUE]]
    BY <1>3 DEF StoreSets, Kept
  <1>6. own[c] \in MaybeCookie
    BY <1>t DEF StateTypes
  <1>7. StateTypes'
    BY <1>t, <1>4, <1>5, <1>6 DEF StateTypes
  <1>8. OthersAlone(c)
    BY <1>t, <1>1, <1>4, <1>5 DEF OthersAlone, StateTypes
  <1>9. /\ ops'[s] = <<>> /\ writer'[s] = {c}
        /\ jar'[s].cookie = own[c] /\ jar'[s].persistent
    BY <1>t, <1>4, <1>5 DEF StateTypes
  <1>10. ClientRight(c)'
    BY <1>1, <1>2, <1>4, <1>9 DEF ClientRight, CookieKept
  <1> QED
    BY <1>1, <1>7, <1>8, <1>9, <1>10, ActsAlone

\* Session.get is answered.
LEMMA StoreGetsRight ==
    ASSUME ~Async, SessionsInv, NEW s \in Store, StoreGets(s)
    PROVE  SessionsInv'
  <1>t. StateTypes
    BY DEF SessionsInv
  <1>1. PICK c \in Client : /\ StoreOf[c] = s
                            /\ OpRight(c) /\ ClientRight(c)
                            /\ Head(ops[s]).client = c
                            /\ Tail(ops[s]) = <<>>
    BY HeadOp DEF StoreGets, Does
  <1>2. ops[s] = <<Op("get", c, NoCookie)>> /\ phase[c] = "looking"
    BY <1>1, OneOp, OpFields DEF StoreGets, Does, OpRight
  <1>3. ops' = [ops EXCEPT ![s] = <<>>] /\ UNCHANGED <<jar, own, writer>>
    BY <1>1 DEF StoreGets
  <1>4. \/ /\ jar[s].cookie # NoCookie
           /\ phase' = [phase EXCEPT ![c] = "connecting"]
           /\ using' = [using EXCEPT ![c] = jar[s].cookie]
        \/ /\ jar[s].cookie = NoCookie
           /\ phase' = [phase EXCEPT ![c] = "off"]
           /\ using' = using
    BY <1>1 DEF StoreGets
  <1>5. jar[s].cookie \in MaybeCookie
    BY <1>t DEF StateTypes
  <1>6. StateTypes'
    BY <1>t, <1>3, <1>4, <1>5 DEF StateTypes
  <1>7. OthersAlone(c)
    BY <1>t, <1>1, <1>3, <1>4 DEF OthersAlone, JarKept, StateTypes
  <1>8. ops'[s] = <<>>
    BY <1>t, <1>3 DEF StateTypes
  <1>9. own[c] # NoCookie /\ writer[s] = {c} => jar[s].cookie = own[c] /\ jar[s].persistent
    <2>1. <<Op("get", c, NoCookie)>> # <<Op("set", c, own[c])>>
      BY OneOp, OpFields
    <2> QED
      BY <1>1, <1>2, <2>1 DEF ClientRight, CookieKept
  <1>10. ClientRight(c)'
    <2>1. CASE jar[s].cookie # NoCookie
      <3>1. phase'[c] = "connecting" /\ using'[c] = jar[s].cookie
        BY <1>t, <1>4, <2>1 DEF StateTypes
      <3> QED
        BY <1>1, <1>3, <1>5, <1>9, <2>1, <3>1 DEF ClientRight, CookieKept, MaybeCookie
    <2>2. CASE jar[s].cookie = NoCookie
      <3>1. phase'[c] = "off" /\ (own'[c] = NoCookie \/ writer'[s] # {c})
        BY <1>t, <1>3, <1>4, <1>9, <2>2 DEF StateTypes
      <3> QED
        BY <1>1, <3>1 DEF ClientRight
    <2> QED
      BY <2>1, <2>2
  <1> QED
    BY <1>1, <1>6, <1>7, <1>8, <1>10, ActsAlone

\* Session.clear is done.
LEMMA StoreRemovesRight ==
    ASSUME ~Async, SessionsInv, NEW s \in Store, StoreRemoves(s)
    PROVE  SessionsInv'
  <1>t. StateTypes
    BY DEF SessionsInv
  <1>1. PICK c \in Client : /\ StoreOf[c] = s
                            /\ OpRight(c) /\ ClientRight(c)
                            /\ Head(ops[s]).client = c
                            /\ Tail(ops[s]) = <<>>
    BY HeadOp DEF StoreRemoves, Does
  <1>2. ops[s] = <<Op("remove", c, NoCookie)>> /\ own[c] = NoCookie
    BY <1>1, OneOp, OpFields DEF StoreRemoves, Does, OpRight
  <1>3. /\ jar' = [jar EXCEPT ![s].cookie = NoCookie] /\ UNCHANGED <<using, own>>
        /\ writer' = [writer EXCEPT ![s] = {c}]
    BY <1>1 DEF StoreRemoves, Written
  <1>4. \/ /\ phase[c] = "connected"
           /\ phase' = [phase EXCEPT ![c] = "looking"]
           /\ ops' = [ops EXCEPT ![s] = <<Op("get", c, NoCookie)>>]
        \/ /\ phase[c] # "connected"
           /\ ops' = [ops EXCEPT ![s] = <<>>]
           /\ phase' = phase
    BY <1>1, OneOp DEF StoreRemoves
  <1>5. phase[c] # "looking"
    <2>1. <<Op("remove", c, NoCookie)>> # <<Op("get", c, NoCookie)>>
      BY OneOp, OpFields
    <2> QED
      BY <1>1, <1>2, <2>1 DEF ClientRight
  <1>6. StateTypes'
    <2>1. /\ jar' \in [Store -> [cookie : MaybeCookie, persistent : BOOLEAN]]
          /\ writer' \in [Store -> SUBSET Client]
      BY <1>t, <1>3 DEF StateTypes, MaybeCookie
    <2>2. /\ ops' = [ops EXCEPT ![s] = ops'[s]]
          /\ phase' \in [Client -> {"looking", "connecting", "logging in", "connected", "off"}]
      BY <1>t, <1>4 DEF StateTypes
    <2> QED
      BY <1>t, <1>3, <2>1, <2>2 DEF StateTypes
  <1>7. OthersAlone(c)
    BY <1>t, <1>1, <1>3, <1>4 DEF OthersAlone, StateTypes
  <1>8. CASE phase[c] = "connected"
    <2>1. phase'[c] = "looking" /\ ops'[s] = <<Op("get", c, NoCookie)>> /\ own'[c] = NoCookie
      BY <1>t, <1>2, <1>3, <1>4, <1>8 DEF StateTypes
    <2>2. OpRight(c)' /\ ClientRight(c)'
      BY <1>1, <2>1 DEF OpRight, ClientRight
    <2> QED
      BY <1>6, <1>7, <2>2, ActsAlone
  <1>9. CASE phase[c] # "connected"
    <2>1. ops'[s] = <<>> /\ own'[c] = NoCookie /\ phase'[c] = phase[c] /\ using'[c] = using[c]
      BY <1>t, <1>2, <1>3, <1>4, <1>9 DEF StateTypes
    <2>2. ClientRight(c)'
      BY <1>1, <1>5, <2>1 DEF ClientRight
    <2> QED
      BY <1>1, <1>6, <1>7, <2>1, <2>2, ActsAlone
  <1> QED
    BY <1>8, <1>9

-----------------------------------------------------------------------------
(* The actions of the client *)

\* logIn() begins.
LEMMA LogInRight ==
    ASSUME ~Async, SessionsInv, NEW c \in Client, NEW k \in Cookie, LogIn(c, k)
    PROVE  SessionsInv'
  <1>t. StateTypes /\ ClientRight(c)
    BY DEF SessionsInv
  <1>1. ops[StoreOf[c]] = <<>> /\ StoreOf[c] \in Store
    BY RestIsEmpty DEF LogIn
  <1>2. /\ phase' = [phase EXCEPT ![c] = "logging in"]
        /\ using' = [using EXCEPT ![c] = k]
        /\ UNCHANGED <<jar, ops, own, writer>>
        /\ phase[c] = "off"
    BY DEF LogIn
  <1>3. StateTypes'
    BY <1>t, <1>2 DEF StateTypes, MaybeCookie
  <1>4. OthersAlone(c)
    BY <1>t, <1>1, <1>2 DEF OthersAlone, JarKept, StateTypes
  <1>5. own[c] = NoCookie \/ writer[StoreOf[c]] # {c}
    BY <1>t, <1>2 DEF ClientRight
  <1>6. phase'[c] = "logging in" /\ using'[c] = k
    BY <1>t, <1>2 DEF StateTypes
  <1>7. ClientRight(c)'
    BY <1>2, <1>5, <1>6 DEF ClientRight
  <1> QED
    BY <1>1, <1>2, <1>3, <1>4, <1>7, ActsAlone

\* The log in is accepted, and logIn() resolves.
LEMMA AcceptedRight ==
    ASSUME ~Async, SessionsInv, NEW c \in Client, Accepted(c)
    PROVE  SessionsInv'
  <1>t. StateTypes /\ ClientRight(c)
    BY DEF SessionsInv
  <1>1. ops[StoreOf[c]] = <<>> /\ StoreOf[c] \in Store
    BY RestIsEmpty DEF Accepted, Ask
  <1>2. /\ phase' = [phase EXCEPT ![c] = "connected"]
        /\ own' = [own EXCEPT ![c] = using[c]]
        /\ ops' = [ops EXCEPT ![StoreOf[c]] = <<Op("set", c, using[c])>>]
        /\ UNCHANGED <<jar, using, writer>>
        /\ phase[c] = "logging in"
    BY <1>1, OneOp DEF Accepted, Set, Asked
  <1>3. using[c] \in Cookie
    BY <1>t, <1>2 DEF ClientRight
  <1>4. StateTypes'
    BY <1>t, <1>2, <1>3 DEF StateTypes, MaybeCookie
  <1>5. OthersAlone(c)
    BY <1>t, <1>1, <1>2 DEF OthersAlone, JarKept, StateTypes
  <1>6. /\ phase'[c] = "connected" /\ using'[c] = using[c] /\ own'[c] = using'[c]
        /\ ops'[StoreOf[c]] = <<Op("set", c, own'[c])>>
    BY <1>t, <1>1, <1>2 DEF StateTypes
  <1>7. OpRight(c)' /\ ClientRight(c)'
    BY <1>3, <1>6 DEF OpRight, ClientRight, CookieKept
  <1> QED
    BY <1>4, <1>5, <1>7, ActsAlone

\* The log in is refused.
LEMMA RefusedRight ==
    ASSUME ~Async, SessionsInv, NEW c \in Client, Refused(c)
    PROVE  SessionsInv'
  <1>t. StateTypes /\ ClientRight(c)
    BY DEF SessionsInv
  <1>1. ops[StoreOf[c]] = <<>> /\ StoreOf[c] \in Store
    BY RestIsEmpty DEF Refused
  <1>2. /\ phase' = [phase EXCEPT ![c] = "off"]
        /\ UNCHANGED <<jar, ops, using, own, writer>>
        /\ phase[c] = "logging in"
    BY DEF Refused
  <1>3. StateTypes'
    BY <1>t, <1>2 DEF StateTypes
  <1>4. OthersAlone(c)
    BY <1>t, <1>1, <1>2 DEF OthersAlone, JarKept, StateTypes
  <1>5. own[c] = NoCookie \/ writer[StoreOf[c]] # {c}
    BY <1>t, <1>2 DEF ClientRight
  <1>6. phase'[c] = "off"
    BY <1>t, <1>2 DEF StateTypes
  <1>7. ClientRight(c)'
    BY <1>2, <1>5, <1>6 DEF ClientRight
  <1> QED
    BY <1>1, <1>2, <1>3, <1>4, <1>7, ActsAlone

\* A connection with a cookie comes through.
LEMMA ConnectedRight ==
    ASSUME ~Async, SessionsInv, NEW c \in Client, Connected(c)
    PROVE  SessionsInv'
  <1>t. StateTypes /\ ClientRight(c)
    BY DEF SessionsInv
  <1>1. ops[StoreOf[c]] = <<>> /\ StoreOf[c] \in Store
    BY RestIsEmpty DEF Connected
  <1>2. /\ phase' = [phase EXCEPT ![c] = "connected"]
        /\ UNCHANGED <<jar, ops, using, own, writer>>
        /\ phase[c] = "connecting"
    BY DEF Connected
  <1>3. StateTypes'
    BY <1>t, <1>2 DEF StateTypes
  <1>4. OthersAlone(c)
    BY <1>t, <1>1, <1>2 DEF OthersAlone, JarKept, StateTypes
  <1>5. phase'[c] = "connected"
    BY <1>t, <1>2 DEF StateTypes
  <1>6. ClientRight(c)'
    BY <1>t, <1>2, <1>5 DEF ClientRight, CookieKept
  <1> QED
    BY <1>1, <1>2, <1>3, <1>4, <1>6, ActsAlone

\* The connection is lost.
LEMMA LostRight ==
    ASSUME ~Async, SessionsInv, NEW c \in Client, Lost(c)
    PROVE  SessionsInv'
  <1>t. StateTypes /\ ClientRight(c)
    BY DEF SessionsInv
  <1>1. ops[StoreOf[c]] = <<>> /\ StoreOf[c] \in Store
    BY RestIsEmpty DEF Lost, Ask
  <1>2. /\ phase' = [phase EXCEPT ![c] = "looking"]
        /\ ops' = [ops EXCEPT ![StoreOf[c]] = <<Op("get", c, NoCookie)>>]
        /\ UNCHANGED <<jar, using, own, writer>>
        /\ phase[c] = "connected"
    BY <1>1, OneOp DEF Lost, Get, Asked
  <1>3. StateTypes'
    BY <1>t, <1>2 DEF StateTypes
  <1>4. OthersAlone(c)
    BY <1>t, <1>1, <1>2 DEF OthersAlone, JarKept, StateTypes
  <1>5. phase'[c] = "looking" /\ ops'[StoreOf[c]] = <<Op("get", c, NoCookie)>>
    BY <1>t, <1>1, <1>2 DEF StateTypes
  <1>6. <<Op("set", c, own[c])>> # <<>>
    BY OneOp
  <1>7. OpRight(c)' /\ ClientRight(c)'
    BY <1>t, <1>1, <1>2, <1>5, <1>6 DEF OpRight, ClientRight, CookieKept
  <1> QED
    BY <1>3, <1>4, <1>7, ActsAlone

\* logOut() is called.
LEMMA LogOutRight ==
    ASSUME ~Async, SessionsInv, NEW c \in Client, LogOut(c)
    PROVE  SessionsInv'
  <1>t. StateTypes /\ ClientRight(c)
    BY DEF SessionsInv
  <1>1. ops[StoreOf[c]] = <<>> /\ StoreOf[c] \in Store
    BY RestIsEmpty DEF LogOut, Ask
  <1>2. /\ ops' = [ops EXCEPT ![StoreOf[c]] = <<Op("remove", c, NoCookie)>>]
        /\ own' = [own EXCEPT ![c] = NoCookie]
        /\ UNCHANGED <<jar, phase, using, writer>>
    BY <1>1, OneOp DEF LogOut, Clear, Asked
  <1>3. StateTypes'
    BY <1>t, <1>2 DEF StateTypes, MaybeCookie
  <1>4. OthersAlone(c)
    BY <1>t, <1>1, <1>2 DEF OthersAlone, JarKept, StateTypes
  <1>5. own'[c] = NoCookie /\ ops'[StoreOf[c]] = <<Op("remove", c, NoCookie)>>
    BY <1>t, <1>1, <1>2 DEF StateTypes
  <1>6. phase[c] # "looking"
    BY <1>t, <1>1, OneOp DEF ClientRight
  <1>7. OpRight(c)' /\ ClientRight(c)'
    BY <1>t, <1>2, <1>5, <1>6 DEF OpRight, ClientRight
  <1> QED
    BY <1>3, <1>4, <1>7, ActsAlone

\* The application is started again.
LEMMA RestartsRight ==
    ASSUME ~Async, SessionsInv, NEW c \in Client, Restarts(c)
    PROVE  SessionsInv'
  <1> DEFINE s == StoreOf[c]
  <1>t. StateTypes /\ ClientRight(c)
    BY DEF SessionsInv
  <1>1. ops[s] = <<>> /\ s \in Store
    BY RestIsEmpty DEF Restarts
  <1>3. /\ phase' = [phase EXCEPT ![c] = "looking"]
        /\ ops' = [ops EXCEPT ![s] = <<Op("get", c, NoCookie)>>]
        /\ jar' = IF jar[s].persistent THEN jar
                  ELSE [jar EXCEPT ![s].cookie = NoCookie]
        /\ UNCHANGED <<using, own, writer>>
    BY DEF Restarts
  <1>4. StateTypes'
    BY <1>t, <1>3 DEF StateTypes, MaybeCookie
  <1>5. OthersAlone(c)
    BY <1>t, <1>1, <1>3 DEF OthersAlone, JarKept, StateTypes
  <1>6. phase'[c] = "looking" /\ ops'[s] = <<Op("get", c, NoCookie)>>
    BY <1>t, <1>1, <1>3 DEF StateTypes
  <1>7. <<Op("set", c, own[c])>> # <<>>
    BY OneOp
  <1>8. own'[c] # NoCookie /\ writer'[s] = {c} => jar'[s].cookie = own'[c] /\ jar'[s].persistent
    BY <1>t, <1>1, <1>3, <1>7 DEF ClientRight, CookieKept
  <1>9. OpRight(c)' /\ ClientRight(c)'
    BY <1>6, <1>8 DEF OpRight, ClientRight, CookieKept
  <1> QED
    BY <1>4, <1>5, <1>9, ActsAlone

-----------------------------------------------------------------------------
(* The theorems *)

\* SessionsInv is an invariant when the stores are synchronous.
THEOREM SessionsInvariant ==
    ASSUME ~Async
    PROVE  SessionsSpec => []SessionsInv
  <1>1. SessionsInit => SessionsInv
    BY SessionsAssumption
    DEF SessionsInit, SessionsInv, StateTypes, ClientRight, NoOps, MaybeCookie
  <1>2. SessionsInv /\ [SessionsNext]_sessionsVars => SessionsInv'
    <2> SUFFICES ASSUME SessionsInv, [SessionsNext]_sessionsVars
                 PROVE  SessionsInv'
      OBVIOUS
    <2>1. CASE UNCHANGED sessionsVars
      <3>1. StateTypes' /\ \A c \in Client : ClientRight(c)'
        BY <2>1 DEF sessionsVars, clientVars, SessionsInv, StateTypes, ClientRight, CookieKept
      <3>2. \A c \in Client : OpRight(c) => OpRight(c)'
        BY <2>1 DEF sessionsVars, clientVars, OpRight
      <3> QED
        BY <2>1, <3>1, <3>2 DEF sessionsVars, SessionsInv
    <2>2. CASE SessionsNext
      BY <2>2, StoreSetsRight, StoreGetsRight, StoreRemovesRight, LogInRight,
         AcceptedRight, RefusedRight, ConnectedRight, LostRight, LogOutRight,
         RestartsRight
      DEF SessionsNext
    <2> QED
      BY <2>1, <2>2
  <1> QED
    BY <1>1, <1>2, PTL DEF SessionsSpec

\* The stores are asked only what a store does, for clients there are.
THEOREM SessionsTypes ==
    ASSUME ~Async
    PROVE  SessionsSpec => []SessionsTypeOK
  <1>1. ASSUME SessionsInv PROVE SessionsTypeOK
    <2> DEFINE AnOp == [type : {"set", "get", "remove"}, client : Client,
                        cookie : MaybeCookie, expires : BOOLEAN]
    <2>t. StateTypes
      BY <1>1 DEF SessionsInv
    <2>1. \A t \in {"set", "get", "remove"}, c \in Client, k \in MaybeCookie :
            Op(t, c, k) \in AnOp
      BY DEF Op
    <2>2. ASSUME NEW s \in Store PROVE ops[s] \in Seq(AnOp)
      <3>1. CASE ops[s] = <<>>
        BY <3>1
      <3>2. CASE ops[s] # <<>>
        <4>1. PICK c \in Client : StoreOf[c] = s /\ OpRight(c)
          BY <1>1, <3>2 DEF SessionsInv
        <4>2. NoCookie \in MaybeCookie /\ own[c] \in MaybeCookie
          BY <2>t DEF StateTypes, MaybeCookie
        <4>3. \E x \in AnOp : ops[s] = <<x>>
          <5> HIDE DEF AnOp
          <5> QED
            BY <2>1, <4>1, <4>2 DEF OpRight
        <4> HIDE DEF AnOp
        <4> QED
          BY <4>3
      <3> QED
        BY <3>1, <3>2
    <2>3. ops \in [Store -> Seq(AnOp)]
      <3> HIDE DEF AnOp
      <3> QED
        BY <2>t, <2>2 DEF StateTypes
    <2>4. \A c \in Client : phase[c] = "connected" => using[c] \in Cookie
      BY <1>1 DEF SessionsInv, ClientRight
    <2> QED
      BY <2>t, <2>3, <2>4 DEF StateTypes, SessionsTypeOK
  <1>2. SessionsInv => SessionsTypeOK
    BY <1>1
  <1> QED
    BY <1>2, SessionsInvariant, PTL

\* A client connects as the user that its application logged in last, as long as
\* no other client of its store logs in or out: what others read there, their lost
\* connections, refused log ins and restarts do no harm, however many they are.
THEOREM SessionsConnectAsThemselves ==
    ASSUME ~Async
    PROVE  SessionsSpec => []ConnectsAsItself
  <1>1. SessionsInv => ConnectsAsItself
    BY DEF SessionsInv, ClientRight, ConnectsAsItself, Undisturbed
  <1> QED
    BY <1>1, SessionsInvariant, PTL

\* A client is never left without a connection before its application logs out, or
\* another client of its store logs in or out.
THEOREM SessionsStay ==
    ASSUME ~Async
    PROVE  SessionsSpec => []StaysLoggedIn
  <1>1. SessionsInv => StaysLoggedIn
    BY DEF SessionsInv, ClientRight, StaysLoggedIn, Undisturbed
  <1> QED
    BY <1>1, SessionsInvariant, PTL

==============================================================================
