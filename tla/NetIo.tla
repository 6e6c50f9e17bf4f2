------------------------------- MODULE NetIo -------------------------------
(***************************************************************************)
(* The channels behind netio_send_buffer, netio_recv_buffer and            *)
(* netio_available: the type a connect has set says whose functions are    *)
(* called.  The two directions of TCP share no state and are looked at one *)
(* at a time.                                                              *)
(***************************************************************************)
EXTENDS TcpRecv, TcpSend, Mailbox

VARIABLE direction     \* of a TCP connection: "recv" or "send"

allVars == <<vars, sendVars, mvars, direction>>

Tcp(d) == netChannelType = "TCP_IPv4" /\ direction = d

NetInit ==
    /\ Init /\ SendInit /\ MInit
    /\ direction \in {"recv", "send"} /\ (direction = "send" => netChannelType = "TCP_IPv4")

\* The channel's functions.
OnChannel(recv, send, mailbox) ==
    /\ \/ Tcp("recv") /\ recv /\ UNCHANGED <<sendVars, mvars>>
       \/ Tcp("send") /\ send /\ UNCHANGED <<vars, mvars>>
       \/ (Mqtt \/ Http) /\ mailbox /\ UNCHANGED <<vars, sendVars>>
    /\ UNCHANGED direction

NetNext == OnChannel(Next, SendNext, MNext)

\* The client's thread runs within a call, and the MQTT library's within its
\* callback.
NetSpec ==
    /\ NetInit /\ [][NetNext]_allVars
    /\ WF_allVars(OnChannel(Reading, SendTakes \/ SendError, MRun))
    /\ WF_allVars(OnChannel(FALSE, FALSE, LengthArrives))

-----------------------------------------------------------------------------
(* Properties *)

\* A read of TCP comes back, and a send as long as the kernel does not fail it
\* over and over; a wait or a poll on the mailbox as long as messages do not come
\* for ever.
NetCallsReturn == ReadReturns /\ CallReturns /\ (at # "idle" ~> at = "idle")
=============================================================================
