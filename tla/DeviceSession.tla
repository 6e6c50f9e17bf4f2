--------------------------- MODULE DeviceSession ---------------------------
(***************************************************************************)
(* One IoTMakers device client (an im_client_t) on its TCP connection to   *)
(* the platform: connecting, the request/response transactions of          *)
(* im_transact_packet_with_response_handler, im_poll, and the handling of  *)
(* the control (525) and last-value (711) requests that the platform sends *)
(* at any moment.  The client is a single thread; what interleaves with it *)
(* is the platform, the network and the clock.                             *)
(*                                                                         *)
(* A packet is its message type, its method type and its transaction id.   *)
(* The C call stack of the SDK is the sequence "stack": a user callback    *)
(* that sends makes it grow.                                               *)
(***************************************************************************)
EXTENDS Integers, Sequences, FiniteSets, SequencesExt

CONSTANTS
    Clock0,          \* tv_sec when the program starts
    MaxUniq,         \* bound: no new request once uniq reaches it
    MaxTick,         \* bound: no tick of the clock once uniq reaches it
    MaxInFlight,     \* bound: no new request while so many packets are under way
    CtlTrx,          \* transaction ids the platform gives its control requests
    QryTrx,          \* ... and its last-value queries
    CallbackSends,   \* do the user's callbacks call the sending API?
    SendMayTimeOut   \* may send() fail (SO_SNDTIMEO) on a healthy connection?

ASSUME BoundsAssumption == Clock0 \in Nat /\ MaxUniq \in Nat /\ MaxTick \in Nat /\ MaxInFlight \in Nat

\* The platform numbers its own requests below the device's clock.  The code
\* cannot check this: it matches answers by transaction id alone.
ASSUME ServerIdsAssumption ==
    /\ CtlTrx \subseteq Nat /\ QryTrx \subseteq Nat
    /\ CtlTrx \cap QryTrx = {}
    /\ \A t \in CtlTrx \cup QryTrx : t < Clock0

ASSUME SwitchesAssumption == CallbackSends \in BOOLEAN /\ SendMayTimeOut \in BOOLEAN

VARIABLES
    sock,              \* tcp_channel.sock: 0, -1, or a descriptor (see Socket)
    uniq,              \* what im_util_get_unique_number returns next
    authed,            \* cli->isChAthnSuccess
    framed,            \* head_len_bytes is 4: reads go by the length prefix
    response_wait_sw,  \* cli->response_wait_sw
    stack,             \* SDK calls in progress, innermost last
    peer,              \* the platform's end of the connection
    s2c, c2s,          \* packets in flight, oldest first
    pending,           \* requests the platform has read and not answered
    issued,            \* transaction ids of the platform's own requests so far
    srvLog             \* answers and reports the platform has read, in order

clientVars == <<sock, uniq, authed, framed, response_wait_sw, stack>>
netVars == <<s2c, c2s>>
serverVars == <<peer, pending, issued, srvLog>>
vars == <<clientVars, netVars, serverVars>>

-----------------------------------------------------------------------------
(* Packets, calls and the socket *)

CallMethods == {224, 231, 411}     \* authenticate, keep the session, send data
ServerTrx == CtlTrx \cup QryTrx
ServerMethod(t) == IF t \in CtlTrx THEN 525 ELSE 711

Packet == [type : {"REQUEST", "RESPONSE", "REPORT"},
           method : CallMethods \cup {525, 711}, trx : Nat]

Pkt(type, method, trx) == [type |-> type, method |-> method, trx |-> trx]

\* "wait":     im_transact_packet_with_response_handler, in its wait_data loop
\* "poll":     im_poll, in its check_again loop
\* "callback": the user's function, under the 525 or the 711 handler
Fr(call, method, trx) == [call |-> call, method |-> method, trx |-> trx]
PollFrame == Fr("poll", 0, 0)

Frame == [call : {"wait"}, method : CallMethods, trx : Nat]
         \cup [call : {"callback"}, method : {525, 711}, trx : Nat]
         \cup {PollFrame}

\* "zero": 0, never opened or closed by im_disconnect; "bad": -1, closed after
\* recv returned 0; "raw": opened, connect failed; "up": connected
Socket == {"zero", "bad", "raw", "up"}

\* "fresh": connected; "auth": has answered an authentication; "closed": sent
\* FIN; "reset": sent RST; "none": there is no connection
PeerState == {"none", "fresh", "auth", "closed", "reset"}

Top == stack[Len(stack)]
Running(calls) == stack # <<>> /\ Top.call \in calls
Popped == SubSeq(stack, 1, Len(stack) - 1)

\* A call of the application: the main loop runs, or a callback that may send.
AppRuns == stack = <<>> \/ (CallbackSends /\ Running({"callback"}))

-----------------------------------------------------------------------------
(* Transaction ids: every im_head_init takes one, for the packets that are  *)
(* built and for the ones that are parsed.                                  *)

\* Variant: im_util_get_unique_number without its counter, within one second.
NextUniqStuck(n) == uniq
NextUniq(n) == uniq + n

\* tv_sec moves on; a clock that is set back is not modelled.
Tick ==
    /\ uniq < MaxTick
    /\ uniq' = uniq + 1
    /\ UNCHANGED <<sock, authed, framed, response_wait_sw, stack, netVars, serverVars>>

-----------------------------------------------------------------------------
(* Sending: im_conn_send_packet returns 0 or -1 *)

Listening == peer \in {"fresh", "auth"}

\* After the platform's FIN the kernel still takes bytes, and they are lost.
SendOk(p) ==
    /\ sock = "up"
    /\ Listening \/ peer = "closed"
    /\ c2s' = IF Listening THEN Append(c2s, p) ELSE c2s

SendFail ==
    /\ sock # "up" \/ ~Listening \/ SendMayTimeOut
    /\ UNCHANGED c2s

-----------------------------------------------------------------------------
(* What netio_available_timeout and the read after it find *)

Readable == sock = "up" /\ s2c # <<>>

\* Nothing to read within the time: 0.  im_disconnect leaves sock 0, which the
\* test "sock < 0" accepts: the client then polls file descriptor 0.
Quiet == (sock = "up" /\ Listening /\ s2c = <<>>) \/ sock = "zero"

\* Negative, or positive and then the read fails.
Failing ==
    \/ sock \in {"zero", "bad", "raw"}
    \/ sock = "up" /\ s2c = <<>> /\ peer \in {"closed", "reset"}

\* The read after a reset finds the end of the stream and closes the socket.
SockAfterFailure == IF sock = "up" /\ peer = "reset" THEN "bad" ELSE sock
-----------------------------------------------------------------------------
(* The application: connecting and disconnecting *)

Init ==
    /\ sock = "zero" /\ uniq = Clock0 /\ authed = FALSE /\ framed = FALSE
    /\ response_wait_sw = TRUE /\ stack = <<>>
    /\ peer = "none" /\ s2c = <<>> /\ c2s = <<>>
    /\ pending = {} /\ issued = {} /\ srvLog = <<>>

\* im_connect_to.  The application connects when it holds no descriptor: it
\* calls im_disconnect after every failure, as the samples do.
Connect ==
    /\ stack = <<>> /\ sock \in {"zero", "bad"}
    /\ \/ sock' = "up" /\ peer' = "fresh"
       \/ sock' = "raw" /\ peer' = "none"
    /\ s2c' = <<>> /\ c2s' = <<>> /\ pending' = {}
    /\ UNCHANGED <<uniq, authed, framed, response_wait_sw, stack, issued, srvLog>>

\* im_disconnect.  Neither isChAthnSuccess nor the framing is reset.
Disconnect ==
    /\ stack = <<>> /\ sock # "zero"
    /\ sock' = IF sock = "bad" THEN sock ELSE "zero"
    /\ peer' = "none" /\ s2c' = <<>> /\ c2s' = <<>> /\ pending' = {}
    /\ UNCHANGED <<uniq, authed, framed, response_wait_sw, stack, issued, srvLog>>

TurnResponseWaitOff ==
    /\ stack = <<>>
    /\ response_wait_sw' = FALSE
    /\ UNCHANGED <<sock, uniq, authed, framed, stack, netVars, serverVars>>

-----------------------------------------------------------------------------
(* Requests of the client.  The packet's head takes the next number, the    *)
(* packet is sent, and the caller waits unless it passed no handler; -1     *)
(* from the send returns at once.                                           *)

Transact(method, base, waits) ==
    /\ uniq < MaxUniq
    /\ Len(c2s) + Cardinality(pending) + Len(s2c) < MaxInFlight
    /\ uniq' = NextUniq(1)
    /\ \/ /\ SendOk(Pkt("REQUEST", method, uniq))
          /\ stack' = IF waits THEN Append(base, Fr("wait", method, uniq)) ELSE stack
       \/ SendFail /\ UNCHANGED stack
    /\ UNCHANGED <<sock, framed, response_wait_sw, s2c, serverVars>>

AuthDevice ==
    /\ stack = <<>>
    /\ authed' = FALSE
    /\ Transact(224, stack, TRUE)

\* im_send_data and its siblings; without response waiting no handler is given.
SendData ==
    /\ AppRuns
    /\ Transact(411, stack, response_wait_sw)
    /\ UNCHANGED authed

Poll ==
    /\ stack = <<>>
    /\ stack' = <<PollFrame>>
    /\ UNCHANGED <<sock, uniq, authed, framed, response_wait_sw, netVars, serverVars>>

\* im_poll when the keep-alive time has run out and nothing was sent: it
\* waits for the answer before it reads anything else, and -1 from the send
\* makes it return.  Module Pacing says when.
PollWithKeepAlive ==
    /\ stack = <<>>
    /\ Transact(231, <<PollFrame>>, TRUE)
    /\ UNCHANGED authed

-----------------------------------------------------------------------------
(* Reading a packet, in a wait or in the poll loop *)

\* Variant of Matches: the id compared is the newest number, the one the head
\* of the received packet took, instead of the request's.
MatchesNewest(f, p) == p.trx = uniq - 1
Matches(f, p) == p.trx = f.trx

\* response_packet_handler_224 looks at no result code, and im_auth_device turns
\* the framing on after it; the handlers of 231 and 411 change nothing.
ResponseHandler(f) ==
    /\ authed' = (f.method = 224 \/ authed)
    /\ framed' = (f.method = 224 \/ framed)

\* Variant: the control runs whether or not its acknowledgement was sent.
ControlHandlerCareless(p) ==
    /\ uniq' = NextUniq(3)
    /\ SendOk(Pkt("RESPONSE", 525, p.trx)) \/ SendFail
    /\ stack' = Append(stack, Fr("callback", 525, p.trx))

\* request_packet525_handler: acknowledge, then build the report and run the
\* user's handler.  Without an acknowledgement the control is dropped.
ControlHandler(p) ==
    \/ /\ SendOk(Pkt("RESPONSE", 525, p.trx))
       /\ uniq' = NextUniq(3)
       /\ stack' = Append(stack, Fr("callback", 525, p.trx))
    \/ SendFail /\ uniq' = NextUniq(2) /\ UNCHANGED stack

\* request_packet711_handler: build the answer and run the user's handler.
QueryHandler(p) ==
    /\ uniq' = NextUniq(2)
    /\ stack' = Append(stack, Fr("callback", 711, p.trx))
    /\ UNCHANGED c2s

\* packet_handler: what is neither a control nor a query is logged and dropped.
PacketHandler(p) ==
    \/ p.method = 525 /\ ControlHandler(p)
    \/ p.method = 711 /\ QueryHandler(p)
    \/ p.method \notin {525, 711} /\ uniq' = NextUniq(1) /\ UNCHANGED <<stack, c2s>>

\* How many packets one read takes from the stream: until the first
\* authentication recv takes all that has come, up to here or there, and what
\* follows the first packet is lost with it.
Taken == IF framed THEN {1} ELSE 1..Len(s2c)

Receive ==
    /\ Running({"wait", "poll"}) /\ Readable
    /\ \E n \in Taken : s2c' = SubSeq(s2c, n + 1, Len(s2c))
    /\ LET p == Head(s2c)
       IN \/ /\ Top.call = "wait" /\ Matches(Top, p)
             /\ ResponseHandler(Top)
             /\ stack' = Popped /\ uniq' = NextUniq(1)
             /\ UNCHANGED c2s
          \/ /\ ~(Top.call = "wait" /\ Matches(Top, p))
             /\ PacketHandler(p)
             /\ UNCHANGED <<authed, framed>>
    /\ UNCHANGED <<sock, response_wait_sw, serverVars>>

\* The innermost call returns -1, and so does an im_poll that is waiting for
\* its keep-alive.  A callback goes on after its send has failed.
Unwound ==
    IF Len(stack) > 1 /\ stack[Len(stack) - 1].call = "poll"
    THEN SubSeq(stack, 1, Len(stack) - 2)
    ELSE Popped

\* Variant: a wait gives up on an error but not when the time is over.
GiveUpOnErrorOnly ==
    /\ Running({"wait"}) /\ Failing
    /\ stack' = Unwound
    /\ sock' = SockAfterFailure
    /\ UNCHANGED <<uniq, authed, framed, response_wait_sw, netVars, serverVars>>

\* netio_available_timeout(...) <= 0, or the read fails.
GiveUp ==
    /\ Running({"wait"}) /\ (Quiet \/ Failing)
    /\ stack' = Unwound
    /\ sock' = IF Failing THEN SockAfterFailure ELSE sock
    /\ UNCHANGED <<uniq, authed, framed, response_wait_sw, netVars, serverVars>>

\* im_poll returns 0 when there is nothing to read, -1 on an error.
PollReturn ==
    /\ Running({"poll"}) /\ (Quiet \/ Failing)
    /\ stack' = Popped
    /\ sock' = IF Failing THEN SockAfterFailure ELSE sock
    /\ UNCHANGED <<uniq, authed, framed, response_wait_sw, netVars, serverVars>>

\* Variant: the handler leaves without its report.
CallbackReturnSilently ==
    /\ Running({"callback"})
    /\ stack' = Popped
    /\ UNCHANGED <<sock, uniq, authed, framed, response_wait_sw, netVars, serverVars>>

\* The user's handlers are done: the report of a control, or the answer to a
\* query, is sent with the request's transaction id.  Nobody looks at the result.
CallbackReturn ==
    /\ Running({"callback"})
    /\ stack' = Popped
    /\ \/ SendOk(Pkt(IF Top.method = 525 THEN "REPORT" ELSE "RESPONSE", Top.method, Top.trx))
       \/ SendFail
    /\ UNCHANGED <<sock, uniq, authed, framed, response_wait_sw, s2c, serverVars>>

SdkStep == Receive \/ GiveUp \/ PollReturn \/ CallbackReturn

-----------------------------------------------------------------------------
(* The platform and the network (not part of the repository) *)

\* The platform reads a packet: a request waits for its answer, anything else
\* is an answer or a report of the device.
SrvRead ==
    /\ Listening /\ c2s # <<>>
    /\ c2s' = Tail(c2s)
    /\ IF Head(c2s).type = "REQUEST"
       THEN pending' = pending \cup {Head(c2s)} /\ UNCHANGED srvLog
       ELSE srvLog' = Append(srvLog, Head(c2s)) /\ UNCHANGED pending
    /\ UNCHANGED <<clientVars, s2c, peer, issued>>

\* Answers come in any order and after any delay, also after the client's wait.
SrvAnswer(p) ==
    /\ Listening /\ p \in pending
    /\ pending' = pending \ {p}
    /\ s2c' = Append(s2c, Pkt("RESPONSE", p.method, p.trx))
    /\ peer' = IF p.method = 224 THEN "auth" ELSE peer
    /\ UNCHANGED <<clientVars, c2s, issued, srvLog>>

SrvRequest(t) ==
    /\ peer = "auth" /\ t \notin issued
    /\ issued' = issued \cup {t}
    /\ s2c' = Append(s2c, Pkt("REQUEST", ServerMethod(t), t))
    /\ UNCHANGED <<clientVars, c2s, peer, pending, srvLog>>

SrvClose ==
    /\ Listening
    /\ peer' = "closed"
    /\ c2s' = <<>> /\ pending' = {}
    /\ UNCHANGED <<clientVars, s2c, issued, srvLog>>

Reset ==
    /\ peer \in {"fresh", "auth", "closed"}
    /\ peer' = "reset"
    /\ s2c' = <<>> /\ c2s' = <<>> /\ pending' = {}
    /\ UNCHANGED <<clientVars, issued, srvLog>>

-----------------------------------------------------------------------------
AppStep == Connect \/ Disconnect \/ TurnResponseWaitOff \/ AuthDevice \/ SendData
           \/ Poll \/ PollWithKeepAlive

Platform ==
    \/ SrvRead
    \/ \E p \in pending : SrvAnswer(p)
    \/ \E t \in ServerTrx : SrvRequest(t)
    \/ SrvClose
    \/ Reset

Next == Tick \/ AppStep \/ SdkStep \/ Platform

Spec == Init /\ [][Next]_vars

\* A call in progress goes on: the thread is scheduled, waits end by their
\* timeout, callbacks return.  The platform reads what it is sent.  Between
\* two sends the application polls (the loop of the samples).
Fairness ==
    /\ WF_vars(SdkStep)
    /\ WF_vars(SrvRead)
    /\ SF_vars(Poll)

FairSpec == Spec /\ Fairness

-----------------------------------------------------------------------------
(* Properties *)

TypeOK ==
    /\ sock \in Socket
    /\ uniq \in Nat
    /\ authed \in BOOLEAN /\ framed \in BOOLEAN
    /\ response_wait_sw \in BOOLEAN
    /\ stack \in Seq(Frame)
    /\ peer \in PeerState
    /\ s2c \in Seq(Packet)
    /\ c2s \in Seq(Packet)
    /\ pending \subseteq Packet
    /\ issued \subseteq ServerTrx
    /\ srvLog \in Seq(Packet)

\* A packet in flight to the device that carries the id some call waits for is
\* the answer to that very call: the code compares nothing but the id, so a
\* late answer of a call that timed out, or a control request, must never carry
\* an id that is waited for again.
MatchIsAnswer ==
    \A i \in DOMAIN stack, j \in DOMAIN s2c :
        stack[i].call = "wait" /\ s2c[j].trx = stack[i].trx
        => s2c[j].type = "RESPONSE" /\ s2c[j].method = stack[i].method

ToPlatform == srvLog \o c2s

\* What the platform gets to see of a control is at most one acknowledgement
\* and, after it, at most one report, however controls, callbacks and waits
\* nest and wherever the connection breaks.
ControlDialogue ==
    \A i \in DOMAIN ToPlatform :
        LET p == ToPlatform[i]
        IN /\ \A j \in DOMAIN ToPlatform : p = ToPlatform[j] => i = j
           /\ p.type = "REPORT" =>
                 \E j \in 1..(i - 1) : ToPlatform[j] = Pkt("RESPONSE", 525, p.trx)

\* When callbacks do not send, an answer that reaches the client while its call
\* is still waiting completes that call: it is never taken for somebody else's
\* and dropped, once reads go by the length prefix.  (A callback that sends
\* waits inside the outer call's wait, and the outer answer is then read, not
\* recognised, and lost.)
NoAnswerDropped ==
    [][ \A i \in DOMAIN stack :
          /\ ~CallbackSends /\ framed
          /\ Readable /\ peer' = peer /\ s2c' = Tail(s2c)
          /\ stack[i].call = "wait" /\ Head(s2c).trx = stack[i].trx
          => stack' = SubSeq(stack, 1, i - 1) ]_vars

\* Every SDK call returns, however many controls arrive while it waits (the
\* platform sends finitely many).
CallsReturn == (stack # <<>>) ~> (stack = <<>>)

\* A control on its way to the device is acted on and reported, also when it
\* arrives in the middle of a transaction, or the connection is lost.  (Until
\* the first authentication is over it may be lost behind the answer to it.)
ControlReported ==
    \A t \in CtlTrx :
        (framed /\ \E j \in DOMAIN s2c : s2c[j] = Pkt("REQUEST", 525, t))
        ~> (\/ \E i \in DOMAIN srvLog : srvLog[i] = Pkt("REPORT", 525, t)
            \/ peer # "auth")

-----------------------------------------------------------------------------
(* The inductive invariant behind MatchIsAnswer *)

\* Where the transaction id of a client's request may still be found, with the
\* method it stands for: in a waiting call, in the request on its way, in the
\* platform's hands, and in the answer on its way back.
Claims ==
    {<<f.trx, f.method>> : f \in {g \in ToSet(stack) : g.call = "wait"}}
    \cup {<<p.trx, p.method>> : p \in {q \in ToSet(c2s) : q.type = "REQUEST"}}
    \cup {<<p.trx, p.method>> : p \in pending}
    \cup {<<p.trx, p.method>> : p \in {q \in ToSet(s2c) : q.type = "RESPONSE"}}

ClaimsAgree == \A c, d \in Claims : c[1] = d[1] => c[2] = d[2]
ClaimsBelow == uniq >= Clock0 /\ \A c \in Claims : c[1] \in Clock0..(uniq - 1)
ServerIdsApart == \A p \in ToSet(s2c) : p.type = "RESPONSE" \/ p.trx \in ServerTrx

\* No id stands for two different requests: all are below the next number, the
\* platform's own ids are below the first.  MatchIsAnswer follows.
IInv == TypeOK /\ ClaimsAgree /\ ClaimsBelow /\ ServerIdsApart
=============================================================================
