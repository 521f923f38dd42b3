--------------------------- MODULE HeartbeatProofs ---------------------------
(***************************************************************************)
(* For any interval, expiration and jitter: a connection that hangs is     *)
(* noticed in time, one that answers in time is kept.                      *)
(***************************************************************************)
EXTENDS Heartbeat, TLAPS

\* No callback is later than Jitter, no answer later than RoundTrip.
DueInTime ==
    heartbeatChecker /\ ~suspended => now <= Latest(nextBeat, resumedAt) + Jitter
AnswersInTime ==
    alive /\ ~suspended => \A t \in pending : now <= Latest(t, resumedAt) + RoundTrip

\* The last callback found the last answer recent enough, and the next one is
\* due an interval later; no answer comes after the connection has hung.
LastCheckPassed ==
    heartbeatChecker => nextBeat <= lastHeartbeatAt + expirationMs + Interval
HungAfterLast ==
    heartbeatChecker /\ ~alive => lastHeartbeatAt <= hungAt

\* After the last answer the next heartbeat is due within an interval, or it
\* was sent in time and will be answered.
SoonAnswered ==
    heartbeatChecker /\ alive =>
        \/ resumedAt > lastHeartbeatAt
        \/ nextBeat <= lastHeartbeatAt + Interval
        \/ \E p \in pending : p <= lastHeartbeatAt + Interval + Jitter

HeartbeatInv ==
    /\ HeartbeatTypeOK
    /\ DueInTime /\ AnswersInTime
    /\ LastCheckPassed /\ HungAfterLast
    /\ SoonAnswered

\* The expiration covers an interval, the jitter and a round trip.
LEMMA ExpirationCovers ==
    /\ expirationMs \in Nat /\ RoundTrip \in Nat
    /\ expirationMs = Interval + Jitter + RoundTrip
  BY HeartbeatAssumption DEF expirationMs, RoundTrip, Latest

\* The later of two times.
LEMMA LatestIsBound ==
    ASSUME NEW s \in Nat, NEW t \in Nat
    PROVE  Latest(s, t) \in Nat /\ Latest(s, t) >= s /\ Latest(s, t) >= t
  BY DEF Latest

\* The invariant holds initially.
LEMMA HeartbeatInvInit == HeartbeatInit => HeartbeatInv
  <1> SUFFICES ASSUME HeartbeatInit PROVE HeartbeatInv
    OBVIOUS
  <1>1. HeartbeatTypeOK
    <2>1. 0 \in 0..MaxTime /\ 0 \in 0..0 /\ 0 \in 0..(0 + Interval) /\ {} \in SUBSET (0..0)
      BY HeartbeatAssumption
    <2> QED
      BY <2>1 DEF HeartbeatInit, HeartbeatTypeOK
  <1>2. DueInTime /\ AnswersInTime /\ LastCheckPassed /\ HungAfterLast /\ SoonAnswered
    BY DEF HeartbeatInit, DueInTime, AnswersInTime, LastCheckPassed,
       HungAfterLast, SoonAnswered
  <1> QED
    BY <1>1, <1>2 DEF HeartbeatInv

\* Every step keeps it.
LEMMA HeartbeatInvStep ==
    HeartbeatInv /\ [HeartbeatNext]_heartbeatVars => HeartbeatInv'
  <1> SUFFICES ASSUME HeartbeatInv, [HeartbeatNext]_heartbeatVars
               PROVE  HeartbeatInv'
    OBVIOUS
  <1> USE HeartbeatAssumption, ExpirationCovers
  <1>t. HeartbeatTypeOK
    BY DEF HeartbeatInv
  <1>1. CASE Ready
    <2> USE <1>1, <1>t DEF Ready, StartHeartbeatChecker, appVars
    <2>1. HeartbeatTypeOK'
      <3>1. now' \in 0..MaxTime /\ lastHeartbeatAt' \in 0..now' /\ hungAt' \in 0..now'
              /\ resumedAt' \in 0..now' /\ nextBeat' \in 0..(now' + Interval)
        BY DEF HeartbeatTypeOK
      <3>2. heartbeatChecker' \in BOOLEAN /\ alive' \in BOOLEAN /\ suspended' \in BOOLEAN
        BY DEF HeartbeatTypeOK
      <3>3. pending' \in SUBSET (0..now')
        BY DEF HeartbeatTypeOK
      <3> QED
        BY <3>1, <3>2, <3>3 DEF HeartbeatTypeOK
    <2>2. DueInTime'
      BY DEF HeartbeatInv, HeartbeatTypeOK, DueInTime, Latest, LastCheckPassed
    <2>3. AnswersInTime'
      BY DEF HeartbeatInv, HeartbeatTypeOK, AnswersInTime, Latest
    <2>4. LastCheckPassed'
      BY DEF HeartbeatInv, LastCheckPassed, HeartbeatTypeOK
    <2>5. HungAfterLast'
      BY DEF HeartbeatInv, HeartbeatTypeOK, HungAfterLast
    <2>6. SoonAnswered'
      BY DEF HeartbeatInv, HeartbeatTypeOK, SoonAnswered
    <2> QED
      BY <2>1, <2>2, <2>3, <2>4, <2>5, <2>6 DEF HeartbeatInv
  <1>2. CASE Disconnects
    BY <1>2, <1>t DEF Disconnects, StopHeartbeatChecker, appVars, HeartbeatInv,
       HeartbeatTypeOK, DueInTime, AnswersInTime, LastCheckPassed,
       HungAfterLast, SoonAnswered
  <1>3. CASE Beat
    <2> USE <1>3, <1>t DEF Beat, TimerFires, appVars
    <2>1. HeartbeatTypeOK'
      BY DEF HeartbeatTypeOK
    <2>2. DueInTime'
      BY DEF DueInTime, Latest, HeartbeatTypeOK
    <2>3. AnswersInTime'
      BY DEF HeartbeatInv, AnswersInTime, Latest, HeartbeatTypeOK
    <2>4. LastCheckPassed'
      BY DEF LastCheckPassed, TooLongSinceHeartbeat, HeartbeatTypeOK
    <2>5. HungAfterLast'
      BY DEF HeartbeatInv, HungAfterLast
    <2>6. SoonAnswered'
      <3>1. CASE nextBeat <= lastHeartbeatAt + Interval /\ resumedAt <= lastHeartbeatAt
        <4>1. now <= lastHeartbeatAt + Interval + Jitter
          BY <3>1 DEF HeartbeatInv, DueInTime, Latest, HeartbeatTypeOK
        <4>2. now \in pending'
          OBVIOUS
        <4> QED
          BY <4>1, <4>2 DEF SoonAnswered
      <3>2. CASE ~(nextBeat <= lastHeartbeatAt + Interval /\ resumedAt <= lastHeartbeatAt)
        BY <3>2 DEF HeartbeatInv, SoonAnswered, HeartbeatTypeOK
      <3> QED
        BY <3>1, <3>2
    <2> QED
      BY <2>1, <2>2, <2>3, <2>4, <2>5, <2>6 DEF HeartbeatInv
  <1>4. CASE BeatAndReconnect
    BY <1>4, <1>t DEF BeatAndReconnect, TimerFires, StopHeartbeatChecker,
       appVars, HeartbeatInv, HeartbeatTypeOK, DueInTime, AnswersInTime,
       LastCheckPassed, HungAfterLast, SoonAnswered
  <1>5. ASSUME NEW t \in pending, Answered(t)
        PROVE  HeartbeatInv'
    BY <1>5, <1>t DEF Answered, appVars, HeartbeatInv, HeartbeatTypeOK,
       DueInTime, AnswersInTime, LastCheckPassed, HungAfterLast, SoonAnswered
  <1>6. CASE Hangs
    <2> USE <1>6, <1>t DEF Hangs, timerVars, appVars
    <2>1. HeartbeatTypeOK'
      <3>1. now' \in 0..MaxTime /\ lastHeartbeatAt' \in 0..now' /\ hungAt' \in 0..now'
              /\ resumedAt' \in 0..now' /\ nextBeat' \in 0..(now' + Interval)
        BY DEF HeartbeatTypeOK
      <3>2. heartbeatChecker' \in BOOLEAN /\ alive' \in BOOLEAN /\ suspended' \in BOOLEAN
        BY DEF HeartbeatTypeOK
      <3>3. pending' \in SUBSET (0..now')
        BY DEF HeartbeatTypeOK
      <3> QED
        BY <3>1, <3>2, <3>3 DEF HeartbeatTypeOK
    <2>2. DueInTime'
      BY DEF HeartbeatInv, HeartbeatTypeOK, DueInTime, Latest, LastCheckPassed
    <2>3. AnswersInTime'
      BY DEF HeartbeatInv, HeartbeatTypeOK, AnswersInTime, Latest
    <2>4. LastCheckPassed'
      BY DEF HeartbeatInv, LastCheckPassed, HeartbeatTypeOK
    <2>5. HungAfterLast'
      BY DEF HeartbeatInv, HeartbeatTypeOK, HungAfterLast
    <2>6. SoonAnswered'
      BY DEF HeartbeatInv, HeartbeatTypeOK, SoonAnswered
    <2> QED
      BY <2>1, <2>2, <2>3, <2>4, <2>5, <2>6 DEF HeartbeatInv
  <1>7. CASE Suspends
    BY <1>7, <1>t DEF Suspends, timerVars, HeartbeatInv, HeartbeatTypeOK,
       DueInTime, AnswersInTime, LastCheckPassed, HungAfterLast, SoonAnswered
  <1>8. CASE Resumes
    <2> USE <1>8, <1>t DEF Resumes, timerVars
    <2>1. HeartbeatTypeOK'
      <3>1. now' \in 0..MaxTime /\ lastHeartbeatAt' \in 0..now' /\ hungAt' \in 0..now'
              /\ resumedAt' \in 0..now' /\ nextBeat' \in 0..(now' + Interval)
        BY DEF HeartbeatTypeOK
      <3>2. heartbeatChecker' \in BOOLEAN /\ alive' \in BOOLEAN /\ suspended' \in BOOLEAN
        BY DEF HeartbeatTypeOK
      <3>3. pending' \in SUBSET (0..now')
        BY DEF HeartbeatTypeOK
      <3> QED
        BY <3>1, <3>2, <3>3 DEF HeartbeatTypeOK
    <2>2. DueInTime'
      BY DEF HeartbeatInv, HeartbeatTypeOK, DueInTime, Latest, LastCheckPassed
    <2>3. AnswersInTime'
      BY DEF HeartbeatInv, HeartbeatTypeOK, AnswersInTime, Latest
    <2>4. LastCheckPassed'
      BY DEF HeartbeatInv, LastCheckPassed, HeartbeatTypeOK
    <2>5. HungAfterLast'
      BY DEF HeartbeatInv, HeartbeatTypeOK, HungAfterLast
    <2>6. SoonAnswered'
      BY DEF HeartbeatInv, HeartbeatTypeOK, SoonAnswered
    <2> QED
      BY <2>1, <2>2, <2>3, <2>4, <2>5, <2>6 DEF HeartbeatInv
  <1>9. CASE Passes
    BY <1>9, <1>t, LatestIsBound DEF Passes, timerVars, appVars, HeartbeatInv,
       HeartbeatTypeOK, DueInTime, AnswersInTime, LastCheckPassed,
       HungAfterLast, SoonAnswered, Latest
  <1>10. CASE UNCHANGED heartbeatVars
    BY <1>10 DEF heartbeatVars, timerVars, appVars, HeartbeatInv,
       HeartbeatTypeOK, DueInTime, AnswersInTime, LastCheckPassed,
       HungAfterLast, SoonAnswered
  <1> QED
    BY <1>1, <1>2, <1>3, <1>4, <1>5, <1>6, <1>7, <1>8, <1>9, <1>10
    DEF HeartbeatNext

\* HeartbeatInv is an invariant of the heartbeat.
THEOREM HeartbeatInvariant == HeartbeatSpec => []HeartbeatInv
  BY HeartbeatInvInit, HeartbeatInvStep, PTL DEF HeartbeatSpec

\* No time stamp lies in the future.
THEOREM HeartbeatTypes == HeartbeatSpec => []HeartbeatTypeOK
  <1>1. HeartbeatInv => HeartbeatTypeOK
    BY DEF HeartbeatInv
  <1> QED
    BY <1>1, HeartbeatInvariant, PTL

\* A connection that hangs is given up at most an expiration and an interval
\* later, or when the app is resumed.
THEOREM HeartbeatNoticesHanging == HeartbeatSpec => []HungIsNoticed
  <1>1. HeartbeatInv => HungIsNoticed
    BY HeartbeatAssumption, ExpirationCovers
    DEF HeartbeatInv, HeartbeatTypeOK, HungIsNoticed, DueInTime,
        LastCheckPassed, HungAfterLast, Latest
  <1> QED
    BY <1>1, HeartbeatInvariant, PTL

\* A connection that answers in time is given up only after a suspension.
THEOREM HeartbeatKeepsTheLiving == HeartbeatSpec => LiveIsKept
  <1>1. ASSUME HeartbeatInv, BeatAndReconnect, alive
        PROVE  resumedAt > lastHeartbeatAt
    <2> SUFFICES ASSUME resumedAt <= lastHeartbeatAt
                 PROVE  FALSE
      BY <1>1 DEF HeartbeatInv, HeartbeatTypeOK
    <2> USE <1>1, HeartbeatAssumption, ExpirationCovers
        DEF BeatAndReconnect, TimerFires, HeartbeatInv, HeartbeatTypeOK
    <2>1. now > lastHeartbeatAt + Interval + Jitter + RoundTrip
      BY DEF TooLongSinceHeartbeat
    <2>2. CASE nextBeat <= lastHeartbeatAt + Interval
      BY <2>1, <2>2 DEF DueInTime, Latest
    <2>3. CASE \E p \in pending : p <= lastHeartbeatAt + Interval + Jitter
      BY <2>1, <2>3 DEF AnswersInTime, Latest
    <2> QED
      BY <2>2, <2>3 DEF SoonAnswered
  <1>2. HeartbeatInv /\ [HeartbeatNext]_heartbeatVars =>
          [BeatAndReconnect /\ alive => resumedAt > lastHeartbeatAt]_heartbeatVars
    BY <1>1
  <1> QED
    BY <1>2, HeartbeatInvariant, PTL DEF HeartbeatSpec, LiveIsKept

==============================================================================
