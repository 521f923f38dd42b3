---------------------------- MODULE CommandProofs ----------------------------
(***************************************************************************)
(* Theorems about Command, for any number of sockets.  A server whose      *)
(* start() failed half way does not satisfy ServerInv: it may listen       *)
(* without a feed.  What saves it is that no connection is accepted before *)
(* the process ends.                                                       *)
(***************************************************************************)
EXTENDS Command, ServerProofs

Unstarted == ~started /\ ~feeding /\ \A s \in Socket : conn[s] # "open"

\* The inductive invariant.
CommandInv ==
    /\ CommandTypeOK
    /\ process \in {"starting", "running"} => ServerInv
    /\ process \in {"starting", "failing"} => Unstarted

\* The steps of a server that runs do not end its feed.
LEMMA ServesServer ==
    ASSUME ServerInv, Serves
    PROVE  ServerInv' /\ UNCHANGED <<iterator, process, feeding, interrupted>>
  <1>1. UNCHANGED <<process, feeding, interrupted>>
    BY DEF Serves, processVars
  <1>2. ServerNext
    BY DEF Serves, ServerNext
  <1>3. ServerInv'
    BY <1>2, NextServerInv
  <1>4. ASSUME NEW s \in Socket, NEW c \in Cookie \cup {NoCookie}, Connect(s, c)
        PROVE  UNCHANGED iterator
    BY <1>4 DEF Connect, lifecycleVars
  <1>5. ASSUME NEW s \in Socket, CouchDBAnswers(s) \/ Hangs(s) \/ EndBatch(s)
        PROVE  UNCHANGED iterator
    BY <1>5 DEF CouchDBAnswers, AuthFails, AuthSucceeds, Hangs, EndBatch, lifecycleVars
  <1>6. ASSUME NEW s \in Socket, NEW r \in Request, Handles(s, r)
        PROVE  UNCHANGED iterator
    BY <1>6 DEF Handles, HandleSubscribe, HandleUnsubscribe, HandleHeartbeat,
       HandleLogOut, IgnoreRequest, Arrives, lifecycleVars
  <1>7. ASSUME NEW d \in DB, EmitChangeForDBName(d)
        PROVE  UNCHANGED iterator
    BY <1>7 DEF EmitChangeForDBName, lifecycleVars
  <1> QED
    BY <1>1, <1>3, <1>4, <1>5, <1>6, <1>7 DEF Serves

\* Every step keeps the invariant.
LEMMA CommandInvStep ==
    CommandInv /\ [CommandNext]_commandVars => CommandInv'
  <1> SUFFICES ASSUME CommandInv, [CommandNext]_commandVars
               PROVE  CommandInv'
    OBVIOUS
  <1>t. /\ CommandTypeOK
        /\ process \in {"starting", "running"} => ServerInv
        /\ process \in {"starting", "failing"} => Unstarted
    BY DEF CommandInv
  <1>u. ASSUME UNCHANGED serverVars
        PROVE  /\ ServerInv => ServerInv'
               /\ Unstarted /\ UNCHANGED feeding => Unstarted'
               /\ UNCHANGED iterator
    <2>1. ServerInv => ServerInv'
      BY <1>u, NextServerInv
    <2> QED
      BY <1>u, <2>1 DEF serverVars, Unstarted
  <1>1. CASE Run
    <2>1. ServerInv' /\ iterator' = "open"
      BY <1>1, <1>t, NextServerInv DEF Run, Start, ServerNext
    <2> QED
      BY <1>1, <1>t, <2>1 DEF Run, CommandInv, CommandTypeOK
  <1>2. CASE StartThrows
    BY <1>2, <1>t DEF StartThrows, socketVars, CommandInv, CommandTypeOK, Unstarted
  <1>3. CASE FatalError
    <2>1. UNCHANGED serverVars
      BY <1>3, <1>t DEF FatalError, Stop, Unstarted
    <2> QED
      BY <1>3, <1>t, <1>u, <2>1 DEF FatalError, CommandInv, CommandTypeOK
  <1>4. CASE SigInt
    <2>1. ServerInv' /\ (iterator' = iterator \/ iterator' = "aborted")
      <3>1. CASE Stop
        BY <1>4, <1>t, <3>1, NextServerInv DEF SigInt, ServerNext, Stop
      <3>2. CASE UNCHANGED serverVars
        BY <1>4, <1>t, <1>u, <3>2 DEF SigInt
      <3> QED
        BY <1>4, <3>1, <3>2 DEF SigInt
    <2> QED
      BY <1>4, <1>t, <2>1 DEF SigInt, CommandInv, CommandTypeOK
  <1>5. CASE PortTaken \/ Exit
    BY <1>5, <1>t, <1>u DEF PortTaken, Exit, CommandInv, CommandTypeOK
  <1>6. CASE BadRow
    BY <1>6, <1>t, <1>u DEF BadRow, CommandInv, CommandTypeOK
  <1>7. CASE Serves
    <2>1. process = "running" /\ ServerInv
      BY <1>7, <1>t DEF Serves
    <2>2. ServerInv' /\ UNCHANGED <<iterator, process, feeding, interrupted>>
      BY <1>7, <2>1, ServesServer
    <2> QED
      BY <1>t, <2>1, <2>2 DEF CommandInv, CommandTypeOK
  <1>8. CASE UNCHANGED commandVars
    BY <1>8, <1>t, <1>u DEF commandVars, processVars, CommandInv, CommandTypeOK
  <1> QED
    BY <1>1, <1>2, <1>3, <1>4, <1>5, <1>6, <1>7, <1>8 DEF CommandNext

\* CommandInv is an invariant of the process.
THEOREM CommandInvariant == CommandSpec => []CommandInv
  <1>1. CommandInit => CommandInv
    <2> SUFFICES ASSUME CommandInit PROVE CommandInv
      OBVIOUS
    <2>1. ServerInv
      BY InitServerInv DEF CommandInit
    <2>2. Unstarted
      BY DEF CommandInit, ServerInit, Unstarted
    <2> QED
      BY <2>1, <2>2 DEF CommandInit, CommandInv, CommandTypeOK
  <1> QED
    BY <1>1, CommandInvStep, PTL DEF CommandSpec

\* The process is where its types say, and rows come from a feed that was opened.
THEOREM CommandTypes == CommandSpec => []CommandTypeOK
  <1>1. CommandInv => CommandTypeOK
    BY DEF CommandInv
  <1> QED
    BY <1>1, CommandInvariant, PTL

\* Whatever throws in start(), and however far it came, no client is connected
\* to a server without a feed.
THEOREM CommandHasNoHalfServer == CommandSpec => []NoHalfServer
  <1>1. CommandInv => NoHalfServer
    <2> SUFFICES ASSUME CommandInv, process # "exited",
                        NEW s \in Socket, conn[s] = "open"
                 PROVE  started /\ iterator = "open"
      BY DEF NoHalfServer
    <2>1. process = "running"
      BY DEF CommandInv, CommandTypeOK, Unstarted
    <2> QED
      BY <2>1 DEF CommandInv, ServerInv, Lifecycle
  <1> QED
    BY <1>1, CommandInvariant, PTL

==============================================================================
