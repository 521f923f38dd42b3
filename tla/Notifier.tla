------------------------------ MODULE Notifier -------------------------------
(***************************************************************************)
(* What a howler server promises to its clients, with no registry, index,  *)
(* authentication call or socket: sessions come and go, a live session     *)
(* subscribes to databases, and when a database changes, exactly the live  *)
(* sessions subscribed to it are told, in the same step.                   *)
(***************************************************************************)
CONSTANTS Session, DB

VARIABLES
    live,       \* the sessions that are open
    subs,       \* the databases each session is subscribed to
    delivered   \* the changes told in the last step, as <<session, DB>>

notifierVars == <<live, subs, delivered>>

NotifierInit ==
    /\ live = {}
    /\ subs = [s \in Session |-> {}]
    /\ delivered = {}

OpenSession(s) ==
    /\ s \notin live
    /\ live' = live \cup {s}
    /\ delivered' = {}
    /\ UNCHANGED subs

\* Sessions end one by one, or all at once when the server stops; what an
\* ended session was subscribed to is forgotten.
EndSessions(ended) ==
    /\ live' = live \ ended
    /\ subs' = [s \in Session |-> IF s \in ended THEN {} ELSE subs[s]]
    /\ delivered' = {}

SetSubscription(s, dbNames) ==
    /\ s \in live
    /\ subs' = [subs EXCEPT ![s] = dbNames]
    /\ delivered' = {}
    /\ UNCHANGED live

Publish(d) ==
    /\ delivered' = {s \in live : d \in subs[s]} \X {d}
    /\ UNCHANGED <<live, subs>>

\* A step of the server that concerns no session and tells no change.
Quiet == delivered' = {} /\ UNCHANGED <<live, subs>>

NotifierNext ==
    \/ \E s \in Session : OpenSession(s)
    \/ \E ended \in SUBSET live : EndSessions(ended)
    \/ \E s \in Session, dbNames \in SUBSET DB : SetSubscription(s, dbNames)
    \/ \E d \in DB : Publish(d)
    \/ Quiet

NotifierSpec == NotifierInit /\ [][NotifierNext]_notifierVars

==============================================================================
