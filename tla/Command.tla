------------------------------- MODULE Command -------------------------------
(***************************************************************************)
(* The process that runs a howler server (lib/server/command.js, which is  *)
(* what bin/server.js loads; server/log.js): Server, with a start that may *)
(* fail half way, SIGINT, and the end of the process.                      *)
(*                                                                         *)
(* _start, _onFatalError and log.fatal are joined by awaits of promises    *)
(* that are settled already, so that no connection, row or signal comes    *)
(* between them.  External: node ends the process when it has nothing left *)
(* to wait for, or an error event that nobody listens to; what it does     *)
(* with a rejection that nobody catches depends on its version.            *)
(***************************************************************************)
EXTENDS Server

VARIABLES
    process,        \* where the process is
    feeding,        \* do rows of the feed still come?
    interrupted     \* did SIGINT come?

processVars == <<process, feeding, interrupted>>
commandVars == <<serverVars, processVars>>

CommandTypeOK ==
    /\ process \in {"starting", "failing", "running", "exited"}
    /\ feeding \in BOOLEAN
    /\ interrupted \in BOOLEAN
    /\ feeding => iterator # "null"

CommandInit ==
    /\ ServerInit
    /\ process = "starting"
    /\ feeding = FALSE
    /\ interrupted = FALSE

-----------------------------------------------------------------------------

\* Mutant: _start forgets the server.
RunWithoutServer ==
    /\ process = "starting"
    /\ process' = "running"
    /\ feeding' = TRUE
    /\ UNCHANGED <<serverVars, interrupted>>

\* run() and _start: the server starts.
Run ==
    /\ process = "starting"
    /\ Start
    /\ process' = "running"
    /\ feeding' = TRUE
    /\ UNCHANGED interrupted

\* start() throws, before or after _io.listen took the port and _iterator was
\* assigned: nothing sets _started.
StartThrows ==
    /\ process = "starting"
    /\ \/ UNCHANGED <<listening, iterator>>
       \/ listening' = TRUE /\ iterator' \in {"null", "open"}
    /\ process' = "failing"
    /\ UNCHANGED <<registryVars, started, socketVars, sent, crashed,
                   feeding, interrupted>>

\* Mutant: a fatal error is logged, and that is all.
FatalErrorLogged ==
    /\ process = "failing"
    /\ process' = "running"
    /\ UNCHANGED <<serverVars, feeding, interrupted>>

\* _onFatalError: stop() does nothing to a server that is not started, whatever
\* it holds; log.fatal ends the process.
FatalError ==
    /\ process = "failing"
    /\ \/ Stop
       \/ ~started /\ UNCHANGED serverVars
    /\ process' = "exited"
    /\ UNCHANGED <<feeding, interrupted>>

\* Mutant: SIGINT ends the feed only.
SigIntAborts ==
    /\ process = "running"
    /\ started' = FALSE
    /\ iterator' = "aborted"
    /\ interrupted' = TRUE
    /\ UNCHANGED <<registryVars, listening, socketVars, sent, crashed, process, feeding>>

\* SIGINT: _stop, which does nothing the second time.
SigInt ==
    /\ process = "running"
    /\ \/ Stop
       \/ ~started /\ UNCHANGED serverVars
    /\ interrupted' = TRUE
    /\ UNCHANGED <<process, feeding>>

\* The port is taken: the server emits an error that nobody listens to.
PortTaken ==
    /\ process = "running"
    /\ listening /\ \A s \in Socket : conn[s] = "unused"
    /\ process' = "exited"
    /\ UNCHANGED <<serverVars, feeding, interrupted>>

\* A row without a colon makes _toDBName throw in the callback of each(), whose
\* promise nobody looks at: rows go on to come, or not, or node exits.
BadRow ==
    /\ process = "running"
    /\ feeding /\ iterator = "open"
    /\ feeding' \in BOOLEAN
    /\ process' \in {"running", "exited"}
    /\ UNCHANGED <<serverVars, interrupted>>

\* The server goes on.
Serves ==
    /\ process = "running"
    /\ \/ \E s \in Socket, c \in Cookie \cup {NoCookie} : Connect(s, c)
       \/ \E s \in Socket : CouchDBAnswers(s) \/ Hangs(s) \/ EndBatch(s)
       \/ \E s \in Socket, r \in Request : Handles(s, r)
       \/ feeding /\ \E d \in DB : EmitChangeForDBName(d)
    /\ UNCHANGED processVars

\* What keeps the process alive: the port, the feed, connections, and calls to
\* CouchDB.
Waits ==
    \/ listening
    \/ iterator = "open" /\ feeding
    \/ \E s \in Socket : conn[s] = "open" \/ auth[s] = "pending"

Exit ==
    /\ process = "running"
    /\ ~Waits
    /\ process' = "exited"
    /\ UNCHANGED <<serverVars, feeding, interrupted>>

CommandNext ==
    \/ Run \/ StartThrows \/ FatalError
    \/ SigInt \/ PortTaken \/ BadRow \/ Serves \/ Exit

CommandSpec == CommandInit /\ [][CommandNext]_commandVars

\* CouchDB answers every call, and node ends a process that waits for nothing.
ProcessAnswers(s) == process = "running" /\ CouchDBAnswers(s) /\ UNCHANGED processVars
FairCommandSpec ==
    /\ CommandSpec
    /\ WF_commandVars(Run \/ StartThrows) /\ WF_commandVars(FatalError)
    /\ WF_commandVars(Exit)
    /\ \A s \in Socket : WF_commandVars(ProcessAnswers(s))

-----------------------------------------------------------------------------
(* Properties *)

\* A connection is accepted only by a server whose start() went through, feed
\* included: a start that fails after the port was taken leaves no process that
\* answers clients and never tells them a change.  (A feed that a bad row ends
\* later is another matter: BadRow.)
NoHalfServer ==
    process # "exited" =>
        \A s \in Socket : conn[s] = "open" => started /\ iterator = "open"

\* A process that was sent SIGINT ends ("Gracefully handle SIGINT signals",
\* server/command.js:73), whatever sockets are authenticated, subscribed or
\* lost meanwhile, and even if its feed has ended before.
SigIntEnds == interrupted ~> process = "exited"

==============================================================================
