------------------------------- MODULE Pacing -------------------------------
(***************************************************************************)
(* What the client does by the clock: the keep-alive request that im_poll  *)
(* sends when the session has been silent (TCP build), and the circuit     *)
(* breaker that every data call passes.  Both read the wall clock in whole *)
(* seconds, which an administrator or NTP may set back or forward.         *)
(*                                                                         *)
(* "now" is real time in seconds; the wall clock is                        *)
(* Start + now + ahead - back.                                             *)
(***************************************************************************)
EXTENDS Integers

CONSTANTS
    Start,         \* tv_sec when the program starts
    KeepAlive,     \* IOTMAKERS_KEEPALIVE_IN_SEC
    Breaker,       \* IOTMAKERS_CIRCUIT_BREAKER_IN_SEC
    PollGap,       \* the application is back in im_poll after so many seconds
    Half,          \* 2^31: the counter packet_count_out_check is an int
    MaxNow, MaxOut,           \* bounds on time and on packets
    MaxBack, MaxAhead         \* bounds on setting the clock back and forward

ASSUME PacingAssumption ==
    /\ Start \in Nat /\ KeepAlive \in Nat /\ Breaker \in Nat /\ PollGap \in Nat
    /\ Half \in Nat \ {0} /\ MaxNow \in Nat /\ MaxOut \in Nat
    /\ MaxBack \in Nat /\ MaxAhead \in Nat
    /\ Breaker + MaxBack <= Start       \* the epoch is long ago

VARIABLES
    now,
    back, ahead,                 \* how far the clock was set back, and forward, in all
    forwards,                    \* how often it was set forward
    up,                          \* connected and authenticated
    keepalive_timestamp,
    packet_count_out,
    packet_count_out_check,
    circuit_breaker_timestamp,
    circuit_breaker_sw,
    inPoll,                      \* im_poll waits for its keep-alive's answer
    inBreaker,                   \* a data call sleeps in circuit_breaker
    (* history *)
    lastSend,                    \* when the last packet left
    lastPoll,                    \* when the application was last back from a wait
    checkedAt, checkedBack,      \* now and back when keepalive_timestamp was set
    calledAt,                    \* when the data call in the breaker came to it
    dataOut,                     \* data packets the breaker has let pass
    passedAt, passedForwards     \* now and forwards when it let the last one pass

clock == <<now, back, ahead, forwards>>
counters == <<packet_count_out, packet_count_out_check>>
passed == <<dataOut, passedAt, passedForwards>>
breaker == <<circuit_breaker_timestamp, circuit_breaker_sw, inBreaker, calledAt, passed>>
checked == <<keepalive_timestamp, checkedAt, checkedBack>>
alive == <<checked, inPoll>>
vars == <<clock, up, counters, breaker, alive, lastSend, lastPoll>>

-----------------------------------------------------------------------------
\* im_util_gettimeofday_as_sec
Wall == Start + now + ahead - back

\* A packet count assigned to an int, and compared as an unsigned long again.
Narrow(n) == ((n + Half) % (2 * Half)) - Half

Init ==
    /\ now = 0 /\ back = 0 /\ ahead = 0 /\ forwards = 0 /\ up = FALSE
    /\ keepalive_timestamp = Wall /\ checkedAt = 0 /\ checkedBack = 0
    /\ packet_count_out = 0 /\ packet_count_out_check = 0
    /\ circuit_breaker_timestamp = 0 /\ circuit_breaker_sw = TRUE
    /\ inPoll = FALSE /\ inBreaker = FALSE
    /\ lastSend = 0 /\ lastPoll = 0 /\ calledAt = 0
    /\ dataOut = 0 /\ passedAt = 0 /\ passedForwards = 0

SetBack ==
    /\ \E n \in 1..(MaxBack - back) : back' = back + n
    /\ UNCHANGED <<now, ahead, forwards, up, counters, breaker, alive, lastSend, lastPoll>>

SetForward ==
    /\ \E n \in 1..(MaxAhead - ahead) : ahead' = ahead + n
    /\ forwards' = forwards + 1
    /\ UNCHANGED <<now, back, up, counters, breaker, alive, lastSend, lastPoll>>

-----------------------------------------------------------------------------
(* Sending: packet_count_out counts what netio_send_buffer sent whole *)

SendOk ==
    /\ up /\ packet_count_out < MaxOut
    /\ packet_count_out' = packet_count_out + 1
    /\ lastSend' = now
    /\ UNCHANGED up

\* The connection is gone; the application will notice and connect again.
SendFail == up' = FALSE /\ UNCHANGED <<packet_count_out, lastSend>>

\* im_connect_to and im_auth_device; neither touches the counters or the times.
Connect ==
    /\ ~up /\ ~inPoll /\ ~inBreaker
    /\ packet_count_out < MaxOut
    /\ up' = TRUE
    /\ packet_count_out' = packet_count_out + 1
    /\ lastSend' = now /\ lastPoll' = now
    /\ UNCHANGED <<clock, packet_count_out_check, breaker, alive>>

Drop ==
    /\ up /\ up' = FALSE
    /\ UNCHANGED <<clock, counters, breaker, alive, lastSend, lastPoll>>

\* An acknowledgement, a report or an answer: no circuit breaker.
SendReply ==
    /\ ~inBreaker
    /\ SendOk \/ SendFail
    /\ UNCHANGED <<clock, packet_count_out_check, breaker, alive, lastPoll>>

-----------------------------------------------------------------------------
(* im_send_data and its siblings, also from a callback under im_poll *)

TurnBreakerOff ==
    /\ ~inBreaker
    /\ circuit_breaker_sw' = FALSE
    /\ UNCHANGED <<clock, up, counters, circuit_breaker_timestamp, inBreaker, calledAt,
                   passed, alive, lastSend, lastPoll>>

\* Variant of BreakerShut: a second too long.
BreakerShutLong == circuit_breaker_sw /\ Wall - circuit_breaker_timestamp <= Breaker
BreakerShut == circuit_breaker_sw /\ Wall - circuit_breaker_timestamp < Breaker

\* Time passes.  The loop of the breaker looks at the clock every second, and the
\* application comes back to im_poll in time unless the breaker holds it.
Tick ==
    /\ now < MaxNow
    /\ IF inBreaker THEN BreakerShut ELSE up => now - lastPoll < PollGap
    /\ now' = now + 1
    /\ UNCHANGED <<back, ahead, forwards, up, counters, breaker, alive, lastSend, lastPoll>>

Passes ==
    IF circuit_breaker_sw
    THEN dataOut' = dataOut + 1 /\ passedAt' = now /\ passedForwards' = forwards
    ELSE UNCHANGED passed

\* Variant: the breaker's time is never set.
PassBreakerUnset == ~BreakerShut /\ Passes /\ UNCHANGED circuit_breaker_timestamp

\* The breaker's time is set before the packet is built, whether it leaves or not.
PassBreaker ==
    /\ ~BreakerShut
    /\ circuit_breaker_timestamp' = IF circuit_breaker_sw THEN Wall ELSE circuit_breaker_timestamp
    /\ Passes

SendData ==
    /\ ~inBreaker
    /\ PassBreaker
    /\ SendOk \/ SendFail
    /\ UNCHANGED <<clock, packet_count_out_check, circuit_breaker_sw, inBreaker, calledAt,
                   alive, lastPoll>>

\* The loop of one-second sleeps ...
SleepInBreaker ==
    /\ ~inBreaker /\ BreakerShut
    /\ inBreaker' = TRUE /\ calledAt' = now
    /\ UNCHANGED <<clock, up, counters, circuit_breaker_timestamp, circuit_breaker_sw,
                   passed, alive, lastSend, lastPoll>>

\* ... and the rest of the call after it.
LeaveBreaker ==
    /\ inBreaker
    /\ PassBreaker
    /\ inBreaker' = FALSE
    /\ SendOk \/ SendFail
    /\ lastPoll' = now /\ calledAt' = 0
    /\ UNCHANGED <<clock, packet_count_out_check, circuit_breaker_sw, alive>>

-----------------------------------------------------------------------------
(* im_poll: the keep-alive part *)

\* Variant: what was sent since is never noted, so the session looks busy.
NoteUnset == packet_count_out_check' = packet_count_out_check
Note == packet_count_out_check' = Narrow(packet_count_out)

\* Variant: a second late.
TimeIsOverLate == Wall - keepalive_timestamp > KeepAlive + 1
TimeIsOver == Wall - keepalive_timestamp > KeepAlive

Check == keepalive_timestamp' = Wall /\ checkedAt' = now /\ checkedBack' = back

PollEarly == ~TimeIsOver /\ UNCHANGED <<up, counters, lastSend, alive>>

\* Nothing was sent since the last check: ask for a keep-alive and wait for the
\* answer, or return -1.
PollAsks ==
    /\ TimeIsOver /\ packet_count_out_check = packet_count_out
    /\ Check
    /\ \/ SendOk /\ inPoll' = TRUE
       \/ SendFail /\ UNCHANGED inPoll
    /\ UNCHANGED packet_count_out_check

PollNotes ==
    /\ TimeIsOver /\ packet_count_out_check # packet_count_out
    /\ Check
    /\ Note
    /\ UNCHANGED <<up, packet_count_out, lastSend, inPoll>>

Poll ==
    /\ up /\ ~inPoll /\ ~inBreaker
    /\ lastPoll' = now
    /\ PollEarly \/ PollAsks \/ PollNotes
    /\ UNCHANGED <<clock, breaker>>

\* The answer has come: packets that callbacks sent meanwhile are counted too.
KeepAliveAnswered ==
    /\ inPoll /\ up /\ ~inBreaker
    /\ inPoll' = FALSE
    /\ Note
    /\ UNCHANGED <<clock, up, packet_count_out, breaker, checked, lastSend, lastPoll>>

\* No answer in time: im_poll returns -1 and the application gives up the
\* connection.
KeepAliveFailed ==
    /\ inPoll /\ ~inBreaker
    /\ inPoll' = FALSE /\ up' = FALSE
    /\ UNCHANGED <<clock, counters, breaker, checked, lastSend, lastPoll>>

Next ==
    \/ Tick \/ SetBack \/ SetForward
    \/ Connect \/ Drop \/ SendReply
    \/ TurnBreakerOff \/ SendData \/ SleepInBreaker \/ LeaveBreaker
    \/ Poll \/ KeepAliveAnswered \/ KeepAliveFailed

Spec == Init /\ [][Next]_vars

-----------------------------------------------------------------------------
(* Properties *)

TypeOK ==
    /\ now \in Nat /\ back \in 0..MaxBack /\ ahead \in 0..MaxAhead /\ forwards \in Nat
    /\ up \in BOOLEAN /\ inPoll \in BOOLEAN /\ inBreaker \in BOOLEAN
    /\ circuit_breaker_sw \in BOOLEAN
    /\ keepalive_timestamp \in Int /\ circuit_breaker_timestamp \in Int
    /\ packet_count_out \in Nat /\ packet_count_out_check \in (-Half)..(Half - 1)
    /\ lastSend \in 0..now /\ lastPoll \in 0..now
    /\ calledAt \in 0..now
    /\ checkedAt \in 0..now /\ checkedBack \in 0..back
    /\ dataOut \in Nat /\ passedAt \in 0..now /\ passedForwards \in 0..forwards

Silence == 2 * (KeepAlive + PollGap) + back

\* A session is never silent for longer than two rounds of the keep-alive time,
\* and what the clock was set back: a packet that leaves just after a check
\* makes the next check pass, so one round is not enough.  Setting the clock
\* forward costs nothing.  It holds while the packet counter fits an int, and while
\* no data call sleeps in the breaker.
SilenceBound ==
    up /\ ~inBreaker /\ packet_count_out < Half => now - lastSend <= Silence

\* A data call waits in the circuit breaker for no more than its time, and what
\* the clock was set back; setting it forward lets it go earlier.
BreakerOpens == inBreaker => now - calledAt <= Breaker + back

\* Data packets are paced: in t seconds the breaker lets at most t / Breaker + 1 of
\* them pass, and one more each time the clock is set forward, however far; setting
\* it back lets none pass earlier.
DataPaced == dataOut > 0 => (dataOut - 1 - forwards) * Breaker <= now

\* What the comment in im_poll says of a poll that finds the keep-alive time
\* over and returns no error: if no packet was sent within that time it requests
\* a keep-alive, so a packet has left within it.
SilentForKeepAlive ==
    [][Poll /\ up' /\ TimeIsOver
       => now - lastSend' <= KeepAlive]_vars

-----------------------------------------------------------------------------
(* The inductive invariant behind SilenceBound and the breaker's properties *)

Round == KeepAlive + PollGap

\* The application polls in time, and a poll finds the last check recent or makes
\* one; a wait in the breaker ends with a packet that leaves.
PollsInTime ==
    /\ keepalive_timestamp <= Start + checkedAt + ahead - checkedBack
    /\ up /\ ~inBreaker => now - lastPoll <= PollGap
    /\ up => \/ lastPoll - checkedAt <= KeepAlive + back - checkedBack
             \/ lastSend >= lastPoll

\* Counts that differ tell of a packet since the last check; counts that are
\* equal, of one in the round before it.
CountsTell ==
    packet_count_out < Half =>
        /\ packet_count_out_check \in 0..packet_count_out
        /\ inPoll => lastSend >= checkedAt
        /\ packet_count_out_check # packet_count_out => lastSend >= checkedAt
        /\ up /\ packet_count_out_check = packet_count_out
              => checkedAt - lastSend <= Round + checkedBack

\* A wait in the breaker began after the time it compares with was set; and that
\* time tells when the last packet passed, unless the clock was set forward since.
BreakerTimes ==
    /\ circuit_breaker_timestamp <= Start + now + ahead
    /\ inBreaker => circuit_breaker_timestamp <= Start + calledAt + ahead
    /\ dataOut > 0 =>
        /\ (dataOut - 1 - passedForwards) * Breaker <= passedAt
        /\ passedForwards = forwards
              => circuit_breaker_timestamp >= Start + passedAt + ahead - back

\* A poll is never late, what the two counts say is true, and the breaker's time is
\* that of the last packet: on these rest the bounds, however the clock is set.
PInv == TypeOK /\ PollsInTime /\ CountsTell /\ BreakerTimes

\* ... and BreakerOpens, which is its own ground.
PacingInv == PInv /\ BreakerOpens
=============================================================================
