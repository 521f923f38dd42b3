------------------------------ MODULE Delivery -------------------------------
(***************************************************************************)
(* What howler promises to an application that uses one client, with no    *)
(* server, connection, request or acknowledgement: which changes it may be *)
(* told, and which it must be told, in the order they were made.           *)
(***************************************************************************)
EXTENDS Sequences

CONSTANT DB

VARIABLES
    may,    \* the databases whose changes the application may be told
    must,   \* those whose changes it is told, as long as it is connected
    owed,   \* the changes it will be told, unless the connection is lost
    latest  \* the database that changed in the last step, as a set

deliveryVars == <<may, must, owed, latest>>

DeliveryInit == may = {} /\ must = {} /\ owed = <<>> /\ latest = {}

\* The application subscribes: from now on it may be told.
Ask(d) ==
    /\ may' = may \cup {d}
    /\ latest' = {}
    /\ UNCHANGED <<must, owed>>

\* Subscriptions are confirmed: from now on changes are told.
Confirm(dbNames) ==
    /\ dbNames \subseteq may
    /\ must' = must \cup dbNames
    /\ latest' = {}
    /\ UNCHANGED <<may, owed>>

\* The application unsubscribes, and may be told until that is confirmed.
Retract(d) ==
    /\ must' = must \ {d}
    /\ latest' = {}
    /\ UNCHANGED <<may, owed>>

\* From now on nothing is told of these databases.
Silence(dbNames) ==
    /\ dbNames \cap must = {}
    /\ \A i \in DOMAIN owed : owed[i] \notin dbNames
    /\ may' = may \ dbNames
    /\ latest' = {}
    /\ UNCHANGED <<must, owed>>

\* The database d changes.  What must be told is owed, in order.
Publish(d) ==
    /\ \/ d \in may /\ owed' = Append(owed, d)
       \/ d \notin must /\ UNCHANGED owed
    /\ latest' = {d}
    /\ UNCHANGED <<may, must>>

Tell ==
    /\ owed # <<>>
    /\ owed' = Tail(owed)
    /\ latest' = {}
    /\ UNCHANGED <<may, must>>

\* The connection is lost, or ends after what is on its way is told.
Lose ==
    /\ must' = {}
    /\ owed' \in {owed, <<>>}
    /\ latest' = {}
    /\ UNCHANGED may

Quiet == latest' = {} /\ UNCHANGED <<may, must, owed>>

DeliveryNext ==
    \/ \E d \in DB : Ask(d) \/ Retract(d) \/ Publish(d)
    \/ \E dbNames \in SUBSET DB : Confirm(dbNames) \/ Silence(dbNames)
    \/ Tell
    \/ Lose
    \/ Quiet

DeliverySpec == DeliveryInit /\ [][DeliveryNext]_deliveryVars

==============================================================================
