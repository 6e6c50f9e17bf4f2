---------------------------- MODULE PacingProofs ----------------------------
(***************************************************************************)
(* What TLAPS proves of Pacing: the bounds on silence, on the wait in the  *)
(* circuit breaker and on the rate of data packets, for all values of the  *)
(* constants and however often the clock is set back or forward.           *)
(***************************************************************************)
EXTENDS Pacing, TLAPS

\* A count that fits an int is what the int then holds.
LEMMA NarrowFits ==
    ASSUME NEW n \in Nat
    PROVE  /\ Narrow(n) \in (-Half)..(Half - 1)
           /\ n < Half => Narrow(n) = n
<1>1. Half \in Nat \ {0}
  BY PacingAssumption
<1>2. n + Half \in Int /\ 2 * Half \in Nat \ {0}
  BY <1>1
<1>3. (n + Half) % (2 * Half) \in 0..(2 * Half - 1)
  BY <1>2
<1>4. n < Half => (n + Half) % (2 * Half) = n + Half
  BY <1>1, <1>2
<1>5. QED
  BY <1>1, <1>3, <1>4 DEF Narrow

\* The constants and the times are integers.
LEMMA Numbers ==
    ASSUME TypeOK
    PROVE  /\ Start \in Nat /\ KeepAlive \in Nat /\ Breaker \in Nat /\ PollGap \in Nat
           /\ Half \in Nat \ {0} /\ MaxBack \in Nat /\ MaxOut \in Nat
           /\ now \in Nat /\ back \in Nat /\ ahead \in Nat /\ forwards \in Nat
           /\ MaxAhead \in Nat /\ Wall = Start + now + ahead - back /\ Wall \in Int
BY PacingAssumption DEF TypeOK, Wall

\* What an attempt to send does.
LEMMA SendFacts ==
    ASSUME TypeOK, SendOk \/ SendFail
    PROVE  /\ up' \in BOOLEAN /\ packet_count_out' \in Nat /\ lastSend' \in 0..now
           /\ \/ up /\ up' /\ packet_count_out' = packet_count_out + 1 /\ lastSend' = now
              \/ ~up' /\ packet_count_out' = packet_count_out /\ lastSend' = lastSend
<1>1. CASE SendOk
  BY <1>1 DEF SendOk, TypeOK
<1>2. CASE SendFail
  BY <1>2 DEF SendFail, TypeOK
<1>3. QED
  BY <1>1, <1>2

\* What passing the circuit breaker does.
LEMMA PassFacts ==
    ASSUME TypeOK, PassBreaker
    PROVE  /\ circuit_breaker_timestamp' \in Int /\ dataOut' \in Nat
           /\ passedAt' \in 0..now /\ passedForwards' \in 0..forwards
           /\ \/ /\ circuit_breaker_timestamp' = circuit_breaker_timestamp
                 /\ UNCHANGED passed
              \/ /\ Wall - circuit_breaker_timestamp >= Breaker
                 /\ circuit_breaker_timestamp' = Wall
                 /\ dataOut' = dataOut + 1 /\ passedAt' = now /\ passedForwards' = forwards
BY Numbers DEF PassBreaker, Passes, BreakerShut, TypeOK, passed

\* Every variable keeps its type.
LEMMA TypeStep ==
    ASSUME TypeOK, [Next]_vars
    PROVE  TypeOK'
<1> USE Numbers
<1>1. CASE Tick
  BY <1>1 DEF Tick, TypeOK, counters, breaker, passed, alive, checked
<1>2. CASE SetBack \/ SetForward
  BY <1>2 DEF SetBack, SetForward, TypeOK, counters, breaker, passed, alive, checked
<1>3. CASE Connect
  BY <1>3 DEF Connect, TypeOK, clock, breaker, passed, alive, checked
<1>4. CASE Drop
  BY <1>4 DEF Drop, TypeOK, clock, counters, breaker, passed, alive, checked
<1>5. CASE SendReply
  <2>1. SendOk \/ SendFail
    BY <1>5 DEF SendReply
  <2>2. UNCHANGED <<clock, packet_count_out_check, breaker, alive, lastPoll>>
    BY <1>5 DEF SendReply
  <2>3. QED
    BY <2>1, <2>2, SendFacts DEF TypeOK, clock, breaker, passed, alive, checked
<1>6. CASE TurnBreakerOff
  BY <1>6 DEF TurnBreakerOff, TypeOK, clock, passed, counters, alive, checked
<1>7. CASE SendData
  <2>1. PassBreaker /\ (SendOk \/ SendFail)
    BY <1>7 DEF SendData
  <2>2. QED
    BY <1>7, <2>1, SendFacts, PassFacts DEF SendData, TypeOK, clock, alive, checked
<1>8. CASE SleepInBreaker
  BY <1>8 DEF SleepInBreaker, TypeOK, clock, passed, counters, alive, checked
<1>9. CASE LeaveBreaker
  <2>1. PassBreaker /\ (SendOk \/ SendFail) /\ inBreaker' = FALSE /\ lastPoll' = now
    BY <1>9 DEF LeaveBreaker
  <2>2. UNCHANGED <<clock, packet_count_out_check, circuit_breaker_sw, alive>>
    BY <1>9 DEF LeaveBreaker
  <2>3. /\ inBreaker' \in BOOLEAN /\ circuit_breaker_sw' \in BOOLEAN
        /\ calledAt' = 0
    BY <1>9, <2>1, <2>2 DEF LeaveBreaker, TypeOK
  <2>4. QED
    BY <2>1, <2>2, <2>3, SendFacts, PassFacts DEF TypeOK, clock, alive, checked
<1>10. CASE Poll
  <2>1. CASE PollEarly
    BY <1>10, <2>1 DEF Poll, PollEarly, TypeOK, clock, counters, breaker, passed, alive, checked
  <2>2. CASE PollAsks
    <3>1. SendOk \/ SendFail
      BY <2>2 DEF PollAsks
    <3>2. inPoll' \in BOOLEAN
      BY <2>2, Zenon DEF PollAsks, TypeOK
    <3>3. QED
      BY <1>10, <2>2, <3>1, <3>2, SendFacts DEF Poll, PollAsks, Check, TypeOK, clock, breaker, passed
  <2>3. CASE PollNotes
    BY <1>10, <2>3, NarrowFits DEF Poll, PollNotes, Check, Note, TypeOK, clock, breaker, passed
  <2>4. QED
    BY <1>10, <2>1, <2>2, <2>3 DEF Poll
<1>11. CASE KeepAliveAnswered
  BY <1>11, NarrowFits DEF KeepAliveAnswered, Note, TypeOK, clock, checked, breaker, passed
<1>12. CASE KeepAliveFailed
  BY <1>12 DEF KeepAliveFailed, TypeOK, clock, checked, counters, breaker, passed
<1>13. CASE UNCHANGED vars
  BY <1>13 DEF vars, TypeOK, clock, counters, breaker, passed, alive, checked
<1>14. QED
  BY <1>1, <1>2, <1>3, <1>4, <1>5, <1>6, <1>7, <1>8, <1>9, <1>10, <1>11, <1>12,
     <1>13 DEF Next

\* The keep-alive part of the invariant survives every step.
LEMMA PollsInTimeStep ==
    ASSUME PacingInv, [Next]_vars, TypeOK'
    PROVE  PollsInTime'
<1>1. TypeOK /\ PollsInTime
  BY DEF PacingInv, PInv
<1> USE Numbers DEF PollsInTime
<1>2. CASE Tick
  BY <1>1, <1>2 DEF Tick, TypeOK, breaker, passed, alive, checked
<1>3. CASE SetBack \/ SetForward
  BY <1>1, <1>3 DEF SetBack, SetForward, TypeOK, breaker, passed, alive, checked
<1>4. CASE Connect
  BY <1>1, <1>4 DEF Connect, TypeOK, clock, breaker, passed, alive, checked
<1>5. CASE Drop
  BY <1>1, <1>5 DEF Drop, TypeOK, clock, breaker, passed, alive, checked
<1>6. CASE SendReply
  <2>1. SendOk \/ SendFail
    BY <1>6 DEF SendReply
  <2>2. UNCHANGED <<clock, breaker, alive, lastPoll>>
    BY <1>6 DEF SendReply
  <2>3. QED
    BY <1>1, <2>1, <2>2, SendFacts DEF TypeOK, clock, breaker, passed, alive, checked
<1>7. CASE TurnBreakerOff
  BY <1>1, <1>7 DEF TurnBreakerOff, TypeOK, clock, passed, alive, checked
<1>8. CASE SendData
  <2>1. SendOk \/ SendFail
    BY <1>8 DEF SendData
  <2>2. QED
    BY <1>1, <1>8, <2>1, SendFacts DEF SendData, TypeOK, clock, alive, checked
<1>9. CASE SleepInBreaker
  BY <1>1, <1>9 DEF SleepInBreaker, TypeOK, clock, passed, alive, checked
<1>10. CASE LeaveBreaker
  <2>1. SendOk \/ SendFail
    BY <1>10 DEF LeaveBreaker
  <2>2. QED
    BY <1>1, <1>10, <2>1, SendFacts DEF LeaveBreaker, TypeOK, clock, alive, checked
<1>11. CASE Poll
  <2>1. CASE PollEarly
    BY <1>1, <1>11, <2>1 DEF Poll, PollEarly, TimeIsOver, TypeOK, clock, breaker, passed,
       alive, checked
  <2>2. CASE PollAsks \/ PollNotes
    <3>1. keepalive_timestamp' = Wall /\ checkedAt' = now /\ checkedBack' = back
      BY <2>2 DEF PollAsks, PollNotes, Check
    <3>2. lastPoll' = now /\ UNCHANGED <<clock, breaker>>
      BY <1>11 DEF Poll
    <3>3. QED
      BY <1>1, <3>1, <3>2 DEF TypeOK, clock, breaker, passed
  <2>3. QED
    BY <1>11, <2>1, <2>2 DEF Poll
<1>12. CASE KeepAliveAnswered
  BY <1>1, <1>12 DEF KeepAliveAnswered, TypeOK, clock, checked, breaker, passed
<1>13. CASE KeepAliveFailed
  BY <1>1, <1>13 DEF KeepAliveFailed, TypeOK, clock, checked, breaker, passed
<1>14. CASE UNCHANGED vars
  BY <1>1, <1>14 DEF vars, TypeOK, clock, breaker, passed, alive, checked
<1>15. QED
  BY <1>2, <1>3, <1>4, <1>5, <1>6, <1>7, <1>8, <1>9, <1>10, <1>11, <1>12, <1>13,
     <1>14 DEF Next

\* ... and what the counters tell.
LEMMA CountsTellStep ==
    ASSUME PacingInv, [Next]_vars, TypeOK'
    PROVE  CountsTell'
<1>1. TypeOK /\ PollsInTime /\ CountsTell
  BY DEF PacingInv, PInv
<1> USE Numbers DEF CountsTell
<1>2. CASE Tick
  BY <1>1, <1>2 DEF Tick, TypeOK, counters, alive, checked
<1>3. CASE SetBack \/ SetForward
  BY <1>1, <1>3 DEF SetBack, SetForward, TypeOK, counters, alive, checked
<1>4. CASE Connect
  BY <1>1, <1>4 DEF Connect, TypeOK, alive, checked
<1>5. CASE Drop
  BY <1>1, <1>5 DEF Drop, TypeOK, counters, alive, checked
<1>6. CASE SendReply
  <2>1. SendOk \/ SendFail
    BY <1>6 DEF SendReply
  <2>2. UNCHANGED <<packet_count_out_check, alive>>
    BY <1>6 DEF SendReply
  <2>3. QED
    BY <1>1, <2>1, <2>2, SendFacts DEF TypeOK, alive, checked
<1>7. CASE TurnBreakerOff
  BY <1>1, <1>7 DEF TurnBreakerOff, TypeOK, counters, alive, checked
<1>8. CASE SendData
  <2>1. SendOk \/ SendFail
    BY <1>8 DEF SendData
  <2>2. UNCHANGED <<packet_count_out_check, alive>>
    BY <1>8 DEF SendData
  <2>3. QED
    BY <1>1, <2>1, <2>2, SendFacts DEF TypeOK, alive, checked
<1>9. CASE SleepInBreaker
  BY <1>1, <1>9 DEF SleepInBreaker, TypeOK, counters, alive, checked
<1>10. CASE LeaveBreaker
  <2>1. SendOk \/ SendFail
    BY <1>10 DEF LeaveBreaker
  <2>2. UNCHANGED <<packet_count_out_check, alive>>
    BY <1>10 DEF LeaveBreaker
  <2>3. QED
    BY <1>1, <2>1, <2>2, SendFacts DEF TypeOK, alive, checked
<1>11. CASE Poll
  <2>1. CASE PollEarly
    BY <1>1, <2>1 DEF PollEarly, TypeOK, counters, alive, checked
  <2>2. CASE PollAsks
    <3>1. SendOk \/ SendFail
      BY <2>2 DEF PollAsks
    <3>2. /\ checkedAt' = now /\ checkedBack' = back
          /\ packet_count_out_check' = packet_count_out_check
          /\ packet_count_out_check = packet_count_out
      BY <2>2 DEF PollAsks, Check
    <3>3. back' = back /\ ~inPoll
      BY <1>11 DEF Poll, clock
    <3>4. ~up' => inPoll' = inPoll
      BY <2>2 DEF PollAsks, SendOk, SendFail
    <3>5. QED
      BY <1>1, <3>1, <3>2, <3>3, <3>4, SendFacts DEF TypeOK
  <2>3. CASE PollNotes
    <3>1. /\ checkedAt' = now /\ checkedBack' = back
          /\ packet_count_out_check # packet_count_out
          /\ packet_count_out_check' = Narrow(packet_count_out)
          /\ UNCHANGED <<up, packet_count_out, lastSend, inPoll>>
      BY <2>3 DEF PollNotes, Note, Check
    <3>2. /\ UNCHANGED clock /\ up /\ ~inPoll /\ ~inBreaker
      BY <1>11 DEF Poll
    <3>3. now - lastPoll <= PollGap
      BY <1>1, <3>2 DEF PollsInTime
    <3>4. packet_count_out < Half => now - lastSend <= Round + back
      BY <1>1, <3>1, <3>2, <3>3 DEF TypeOK, PollsInTime, Round
    <3>5. QED
      BY <1>1, <3>1, <3>2, <3>4, NarrowFits DEF TypeOK, clock
  <2>4. QED
    BY <1>11, <2>1, <2>2, <2>3 DEF Poll
<1>12. CASE KeepAliveAnswered
  <2>1. /\ UNCHANGED <<clock, up, packet_count_out, checkedAt, checkedBack, lastSend>>
        /\ inPoll /\ ~inPoll' /\ packet_count_out_check' = Narrow(packet_count_out)
    BY <1>12 DEF KeepAliveAnswered, Note, checked
  <2>2. packet_count_out < Half => lastSend >= checkedAt
    BY <1>1, <2>1
  <2>3. checkedBack \in Nat /\ Round \in Nat
    BY <1>1 DEF PollsInTime, Round, TypeOK
  <2>4. QED
    BY <1>1, <2>1, <2>2, <2>3, NarrowFits DEF TypeOK, clock
<1>13. CASE KeepAliveFailed
  BY <1>1, <1>13 DEF KeepAliveFailed, TypeOK, counters, checked
<1>14. CASE UNCHANGED vars
  BY <1>1, <1>14 DEF vars, TypeOK, counters, alive, checked
<1>15. QED
  BY <1>2, <1>3, <1>4, <1>5, <1>6, <1>7, <1>8, <1>9, <1>10, <1>11, <1>12, <1>13,
     <1>14 DEF Next

\* The more, the longer.
LEMMA TimesBreaker ==
    ASSUME NEW m \in Int, NEW n \in Int, m <= n
    PROVE  m * Breaker <= n * Breaker
<1>1. Breaker \in Nat
  BY PacingAssumption
<1>2. PICK k \in Nat : n = m + k
  OBVIOUS
<1>3. k * Breaker >= 0
  BY <1>1
<1>4. n * Breaker = m * Breaker + k * Breaker
  BY <1>1, <1>2
<1>5. QED
  BY <1>1, <1>3, <1>4

\* A data packet that passes the breaker is a breaker's time after the last, unless
\* the clock was set forward between them.
LEMMA PassPaced ==
    ASSUME PInv, PassBreaker, UNCHANGED clock
    PROVE  inBreaker' \/ BreakerTimes'
<1>1. TypeOK /\ BreakerTimes
  BY DEF PInv
<1>2. now' = now /\ back' = back /\ ahead' = ahead /\ forwards' = forwards
  BY DEF clock
<1>3. CASE circuit_breaker_timestamp' = circuit_breaker_timestamp /\ UNCHANGED passed
  BY <1>1, <1>2, <1>3 DEF BreakerTimes, passed
<1>4. CASE /\ Wall - circuit_breaker_timestamp >= Breaker
           /\ circuit_breaker_timestamp' = Wall
           /\ dataOut' = dataOut + 1 /\ passedAt' = now /\ passedForwards' = forwards
  <2>1. /\ circuit_breaker_timestamp' <= Start + now' + ahead'
        /\ circuit_breaker_timestamp' >= Start + passedAt' + ahead' - back'
    BY <1>1, <1>2, <1>4, Numbers
  <2>2. (dataOut - forwards) * Breaker <= now
    <3> DEFINE e == dataOut - 1 - passedForwards
               d == e * Breaker
               m == dataOut - forwards
    <3>1. /\ dataOut \in Nat /\ Breaker \in Nat /\ e \in Int /\ m \in Int /\ m <= e + 1
          /\ d \in Int /\ passedAt \in Nat /\ passedAt <= now
      BY <1>1, Numbers DEF TypeOK
    <3>2. CASE dataOut = 0
      <4>1. m <= 0
        BY <1>1, <3>2 DEF TypeOK
      <4> HIDE DEF m
      <4>2. PICK z \in Int : z = 0
        OBVIOUS
      <4>3. m * Breaker <= z * Breaker
        BY <3>1, <4>1, <4>2, TimesBreaker
      <4>4. m * Breaker <= now
        BY <3>1, <4>2, <4>3, <1>1, Numbers
      <4>5. QED
        BY <4>4 DEF m
    <3>3. CASE dataOut > 0 /\ passedForwards = forwards
      <4>1. m * Breaker = d + Breaker
        <5>1. m = e + 1
          BY <1>1, <3>3 DEF TypeOK
        <5> HIDE DEF m, e
        <5>2. QED
          BY <3>1, <5>1
      <4>2. d <= passedAt /\ circuit_breaker_timestamp >= Start + passedAt + ahead - back
        BY <1>1, <3>3 DEF BreakerTimes
      <4>3. passedAt + Breaker <= now
        BY <1>1, <1>4, <3>1, <4>2, Numbers DEF TypeOK
      <4> HIDE DEF d
      <4>4. d + Breaker <= now
        BY <3>1, <4>2, <4>3, <1>1, Numbers
      <4>5. QED
        BY <4>1, <4>4
    <3>4. CASE dataOut > 0 /\ passedForwards # forwards
      <4>1. m <= e
        BY <1>1, <3>4 DEF TypeOK
      <4>2. d <= passedAt
        BY <1>1, <3>4 DEF BreakerTimes
      <4> HIDE DEF m, e
      <4>3. m * Breaker <= e * Breaker
        BY <3>1, <4>1, TimesBreaker
      <4>4. m * Breaker \in Int
        BY <3>1
      <4>5. m * Breaker <= now
        BY <1>1, <3>1, <4>2, <4>3, <4>4, Numbers
      <4>6. QED
        BY <4>5 DEF m
    <3>5. QED
      BY <1>1, <3>2, <3>3, <3>4 DEF TypeOK
  <2>3. dataOut' - 1 - passedForwards' = dataOut - forwards
    BY <1>1, <1>4 DEF TypeOK
  <2>4. (dataOut' - 1 - passedForwards') * Breaker <= passedAt'
    BY <1>4, <2>2, <2>3
  <2>5. QED
    BY <2>1, <2>4 DEF BreakerTimes
<1>5. QED
  BY <1>1, <1>3, <1>4, PassFacts DEF PInv

\* The breaker's part of the invariant survives every step.
LEMMA BreakerStep ==
    ASSUME PacingInv, [Next]_vars, TypeOK'
    PROVE  (BreakerTimes /\ BreakerOpens)'
<1>1. TypeOK /\ BreakerTimes /\ BreakerOpens /\ PInv
  BY DEF PacingInv, PInv
<1> DEFINE d == (dataOut - 1 - passedForwards) * Breaker
<1>2. /\ circuit_breaker_timestamp <= Start + now + ahead
      /\ inBreaker => circuit_breaker_timestamp <= Start + calledAt + ahead
      /\ dataOut > 0 =>
            /\ d <= passedAt
            /\ passedForwards = forwards
                  => circuit_breaker_timestamp >= Start + passedAt + ahead - back
  BY <1>1 DEF BreakerTimes
<1> HIDE DEF d
<1>3. ASSUME UNCHANGED <<circuit_breaker_timestamp, passed>>,
             now' >= now, back' >= back, ahead' >= ahead,
             forwards' = forwards => ahead' = ahead, forwards' >= forwards,
             inBreaker' => \/ calledAt' = now'
                           \/ inBreaker /\ calledAt' = calledAt
                                        /\ now' - calledAt <= Breaker + back'
      PROVE  (BreakerTimes /\ BreakerOpens)'
  <2>1. d' = d
    BY <1>3 DEF d, passed
  <2>2. /\ circuit_breaker_timestamp' <= Start + now' + ahead'
        /\ inBreaker' => circuit_breaker_timestamp' <= Start + calledAt' + ahead'
    BY <1>1, <1>2, <1>3, Numbers DEF TypeOK
  <2>3. dataOut' > 0 =>
            /\ d' <= passedAt'
            /\ passedForwards' = forwards'
                  => circuit_breaker_timestamp' >= Start + passedAt' + ahead' - back'
    <3>1. passedForwards = forwards' => forwards' = forwards /\ ahead' = ahead
      BY <1>1, <1>3, Numbers DEF TypeOK
    <3>2. QED
      BY <1>1, <1>2, <1>3, <2>1, <3>1, Numbers DEF TypeOK, passed
  <2>4. inBreaker' => now' - calledAt' <= Breaker + back'
    BY <1>1, <1>3, Numbers DEF TypeOK
  <2>5. QED
    BY <2>2, <2>3, <2>4 DEF d, BreakerTimes, BreakerOpens
<1>4. CASE Tick
  <2>1. /\ UNCHANGED breaker /\ now' = now + 1
        /\ back' = back /\ ahead' = ahead /\ forwards' = forwards
    BY <1>4 DEF Tick
  <2>2. inBreaker => now' - calledAt <= Breaker + back'
    <3>1. inBreaker => Wall - circuit_breaker_timestamp < Breaker
      BY <1>4 DEF Tick, BreakerShut
    <3>2. QED
      BY <1>1, <1>2, <2>1, <3>1, Numbers DEF TypeOK
  <2>3. QED
    BY <1>1, <1>3, <2>1, <2>2, Numbers DEF breaker
<1>5. CASE SetBack \/ SetForward
  <2>1. UNCHANGED breaker /\ now' = now /\ back' >= back /\ ahead' >= ahead
    BY <1>1, <1>5, Numbers DEF SetBack, SetForward
  <2>2. forwards' >= forwards /\ (forwards' = forwards => ahead' = ahead)
    BY <1>1, <1>5, Numbers DEF SetBack, SetForward
  <2>3. inBreaker => now' - calledAt <= Breaker + back'
    BY <1>1, <2>1, Numbers DEF BreakerOpens, TypeOK
  <2>4. QED
    BY <1>1, <1>3, <2>1, <2>2, <2>3, Numbers DEF breaker
<1>6. CASE UNCHANGED <<clock, breaker>>
  BY <1>1, <1>3, <1>6, Numbers DEF clock, breaker, BreakerOpens, TypeOK
<1>7. CASE TurnBreakerOff \/ SleepInBreaker
  <2>1. UNCHANGED <<circuit_breaker_timestamp, passed, clock>> /\ (inBreaker' => calledAt' = now)
    BY <1>7 DEF TurnBreakerOff, SleepInBreaker
  <2>2. QED
    BY <1>1, <1>3, <2>1, Numbers DEF clock
<1>8. CASE SendData \/ LeaveBreaker
  <2>1. PassBreaker /\ UNCHANGED clock /\ ~inBreaker'
    BY <1>8 DEF SendData, LeaveBreaker
  <2>2. QED
    BY <1>1, <2>1, PassPaced DEF BreakerOpens
<1>9. QED
  BY <1>4, <1>5, <1>6, <1>7, <1>8
     DEF Next, Connect, Drop, SendReply, Poll, KeepAliveAnswered, KeepAliveFailed, vars

\* The inductive invariant of the keep-alive and the breaker.
LEMMA PacingInductive == Spec => []PacingInv
<1>1. Init => PacingInv
  <2> SUFFICES ASSUME Init PROVE PacingInv
    OBVIOUS
  <2>1. TypeOK
    <3>1. /\ up \in BOOLEAN /\ inPoll \in BOOLEAN /\ inBreaker \in BOOLEAN
          /\ circuit_breaker_sw \in BOOLEAN
      BY DEF Init
    <3>2. keepalive_timestamp \in Int /\ 0 \in (-Half)..(Half - 1)
      BY PacingAssumption DEF Init, Wall
    <3>3. QED
      BY <3>1, <3>2, PacingAssumption DEF Init, TypeOK
  <2>2. QED
    BY <2>1, Numbers DEF Init, PacingInv, PInv, PollsInTime, CountsTell, BreakerTimes,
       BreakerOpens, Round
<1>2. PacingInv /\ [Next]_vars => PacingInv'
  BY TypeStep, PollsInTimeStep, CountsTellStep, BreakerStep DEF PacingInv, PInv
<1>3. QED
  BY <1>1, <1>2, PTL DEF Spec

\* The session's polls, its counts and the breaker's time are always what they tell.
THEOREM PacingInvariant == Spec => []PInv
<1>1. PacingInv => PInv
  BY DEF PacingInv
<1>2. QED
  BY <1>1, PacingInductive, PTL

\* No session is silent for longer than two rounds and what the clock was set back.
THEOREM NeverSilent == Spec => []SilenceBound
<1>1. PInv => SilenceBound
  BY Numbers DEF PInv, TypeOK, PollsInTime, CountsTell, Round, SilenceBound, Silence
<1>2. QED
  BY <1>1, PacingInvariant, PTL

\* A data call leaves the breaker after its time and what the clock was set back.
THEOREM BreakerHolds == Spec => []BreakerOpens
<1>1. PacingInv => BreakerOpens
  BY DEF PacingInv
<1>2. QED
  BY <1>1, PacingInductive, PTL

\* However the clock is set back and forward, data packets are paced, but for one
\* each time it is set forward.
THEOREM BreakerPaces == Spec => []DataPaced
<1>1. ASSUME PInv, dataOut > 0
      PROVE  (dataOut - 1 - forwards) * Breaker <= now
  <2> DEFINE m == dataOut - 1 - forwards
             n == dataOut - 1 - passedForwards
  <2>1. /\ m \in Int /\ n \in Int /\ m <= n /\ Breaker \in Nat
        /\ passedAt \in Nat /\ passedAt <= now /\ now \in Nat
    BY <1>1, Numbers DEF PInv, TypeOK
  <2>2. n * Breaker <= passedAt
    BY <1>1 DEF PInv, BreakerTimes
  <2> HIDE DEF m, n
  <2>3. m * Breaker <= n * Breaker
    BY <2>1, TimesBreaker
  <2>4. m * Breaker \in Int /\ n * Breaker \in Int
    BY <2>1
  <2>5. m * Breaker <= now
    BY <2>1, <2>2, <2>3, <2>4
  <2>6. QED
    BY <2>5 DEF m
<1>2. PInv => DataPaced
  BY <1>1 DEF DataPaced
<1>3. QED
  BY <1>2, PacingInvariant, PTL
=============================================================================
