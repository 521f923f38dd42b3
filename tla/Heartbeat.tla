------------------------------ MODULE Heartbeat ------------------------------
(***************************************************************************)
(* The heartbeat of a client (lib/client/client.js, which is what          *)
(* applications load), in discrete time: a timer sends a heartbeat, then   *)
(* looks how long ago the last one was answered, without waiting for the   *)
(* answer, and reconnects when that is too long.                           *)
(*                                                                         *)
(* A timer callback runs up to Jitter after it is due.  The app may be     *)
(* suspended: no callback runs then, but time goes on.  A live connection  *)
(* answers every heartbeat within RoundTrip; a connection that hangs does  *)
(* not answer any more, and nothing else tells the client.  One connection *)
(* after the other is modelled; Client has those that overlap.             *)
(***************************************************************************)
EXTENDS Integers

CONSTANTS
    Interval,       \* _heartbeatMilliseconds
    MinExpiration,  \* the 5000 milliseconds below which nothing expires
    Jitter,         \* how late a timer callback may run
    MaxTime         \* bound: the time at which the model ends

ASSUME HeartbeatAssumption ==
    /\ Interval \in Nat \ {0}
    /\ MinExpiration \in Nat
    /\ Jitter \in 0..Interval
    /\ MaxTime \in Nat

VARIABLES
    now,
    heartbeatChecker,   \* does the interval timer run?
    lastHeartbeatAt,    \* _lastHeartbeatAt
    nextBeat,           \* when the timer is due
    pending,            \* when the heartbeats were sent that may be answered
    alive,              \* does the connection answer?
    hungAt,             \* when it stopped to
    suspended,          \* is the app suspended?
    resumedAt           \* when it was resumed last

timerVars == <<heartbeatChecker, lastHeartbeatAt, nextBeat>>
appVars == <<suspended, resumedAt>>
heartbeatVars == <<now, timerVars, pending, alive, hungAt, appVars>>

Latest(s, t) == IF s >= t THEN s ELSE t

expirationMs == Latest(2 * Interval, MinExpiration)

\* Answers that are no slower are in time for the expiration.
RoundTrip == expirationMs - Interval - Jitter

\* No time stamp lies in the future, and the timer is never due later than an
\* interval from now (_startHeartbeatChecker, _beat).
HeartbeatTypeOK ==
    /\ now \in 0..MaxTime
    /\ heartbeatChecker \in BOOLEAN /\ alive \in BOOLEAN /\ suspended \in BOOLEAN
    /\ lastHeartbeatAt \in 0..now /\ hungAt \in 0..now /\ resumedAt \in 0..now
    /\ nextBeat \in 0..(now + Interval)
    /\ pending \in SUBSET (0..now)

HeartbeatInit ==
    /\ now = 0
    /\ heartbeatChecker = FALSE /\ alive = FALSE /\ suspended = FALSE
    /\ lastHeartbeatAt = 0 /\ nextBeat = 0 /\ hungAt = 0 /\ resumedAt = 0
    /\ pending = {}

-----------------------------------------------------------------------------

\* Mutant: the time stamp is a deadline.
StartsWithDeadline ==
    /\ heartbeatChecker' = TRUE
    /\ lastHeartbeatAt' = now + Interval
    /\ nextBeat' = now + Interval

\* _startHeartbeatChecker: a timer that runs is replaced.
StartHeartbeatChecker ==
    /\ heartbeatChecker' = TRUE
    /\ lastHeartbeatAt' = now
    /\ nextBeat' = now + Interval

\* The client is ready on a new connection, or once more on the same one.
Ready ==
    /\ ~suspended
    /\ StartHeartbeatChecker
    /\ \/ ~heartbeatChecker /\ pending' = {} /\ alive' = TRUE
       \/ heartbeatChecker /\ alive /\ UNCHANGED <<pending, alive>>
    /\ UNCHANGED <<now, hungAt, appVars>>

\* _disconnect, stop(): the timer is cleared, no answer will come.
StopHeartbeatChecker ==
    /\ heartbeatChecker' = FALSE
    /\ alive' = FALSE
    /\ pending' = {}
    /\ UNCHANGED <<lastHeartbeatAt, nextBeat>>

Disconnects ==
    /\ ~suspended
    /\ heartbeatChecker
    /\ StopHeartbeatChecker
    /\ UNCHANGED <<now, hungAt, appVars>>

\* Mutant: one interval without an answer is too long.
TooLongAfterOne == now - lastHeartbeatAt > Latest(Interval, MinExpiration)

TooLongSinceHeartbeat == now - lastHeartbeatAt > expirationMs

\* The callback of the timer runs: _beat() sends a heartbeat.
TimerFires ==
    /\ ~suspended
    /\ heartbeatChecker
    /\ now >= nextBeat
    /\ UNCHANGED <<now, hungAt, appVars>>

\* Mutant: the time stamp is updated when the heartbeat is sent.
BeatUpdates ==
    /\ TimerFires
    /\ ~TooLongSinceHeartbeat
    /\ lastHeartbeatAt' = now
    /\ nextBeat' = now + Interval
    /\ pending' = pending \cup {now}
    /\ UNCHANGED <<heartbeatChecker, alive>>

Beat ==
    /\ TimerFires
    /\ ~TooLongSinceHeartbeat
    /\ nextBeat' = now + Interval
    /\ pending' = pending \cup {now}
    /\ UNCHANGED <<heartbeatChecker, lastHeartbeatAt, alive>>

\* _reconnect gives the connection up.
BeatAndReconnect ==
    /\ TimerFires
    /\ TooLongSinceHeartbeat
    /\ StopHeartbeatChecker

\* The heartbeat sent at t is answered, in order: _beat() goes on.
Answered(t) ==
    /\ ~suspended
    /\ alive
    /\ t \in pending /\ \A u \in pending : t <= u
    /\ lastHeartbeatAt' = now
    /\ pending' = pending \ {t}
    /\ UNCHANGED <<now, heartbeatChecker, nextBeat, alive, hungAt, appVars>>

-----------------------------------------------------------------------------
(* The environment *)

Hangs ==
    /\ alive
    /\ alive' = FALSE
    /\ hungAt' = now
    /\ UNCHANGED <<now, timerVars, pending, appVars>>

Suspends ==
    /\ ~suspended
    /\ suspended' = TRUE
    /\ UNCHANGED <<now, timerVars, pending, alive, hungAt, resumedAt>>

\* What is overdue runs soon after.
Resumes ==
    /\ suspended
    /\ suspended' = FALSE
    /\ resumedAt' = now
    /\ UNCHANGED <<now, timerVars, pending, alive, hungAt>>

\* Time passes, but not beyond the time at which something must have happened.
Passes ==
    /\ now < MaxTime
    /\ \/ suspended
       \/ /\ heartbeatChecker => now < Latest(nextBeat, resumedAt) + Jitter
          /\ alive => \A t \in pending : now < Latest(t, resumedAt) + RoundTrip
    /\ now' = now + 1
    /\ UNCHANGED <<timerVars, pending, alive, hungAt, appVars>>

HeartbeatNext ==
    \/ Ready
    \/ Disconnects
    \/ Beat
    \/ BeatAndReconnect
    \/ \E t \in pending : Answered(t)
    \/ Hangs
    \/ Suspends
    \/ Resumes
    \/ Passes

HeartbeatSpec == HeartbeatInit /\ [][HeartbeatNext]_heartbeatVars

-----------------------------------------------------------------------------
(* Properties *)

\* A connection that hangs is given up at most an expiration and an interval
\* later, or as soon as a suspended app is resumed, however late its last
\* answers were ("Force reconnect as the connection has probably hung",
\* src/client/client.js:292).
HungIsNoticed ==
    heartbeatChecker /\ ~alive /\ ~suspended =>
        now <= Latest(hungAt + expirationMs + Interval, resumedAt) + Jitter

\* A connection that answers in time is never given up, although the check does
\* not wait for the answer ("we can be one heartbeat behind",
\* src/client/client.js:288), unless the app was suspended after the last one.
LiveIsKept ==
    [][BeatAndReconnect /\ alive => resumedAt > lastHeartbeatAt]_heartbeatVars

==============================================================================
