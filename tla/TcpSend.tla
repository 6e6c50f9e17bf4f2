------------------------------ MODULE TcpSend ------------------------------
(***************************************************************************)
(* net_tcp_send_buffer and its caller im_conn_send_packet: the loop that   *)
(* hands a packet to the kernel, which may take any part of it, or nothing *)
(* for three seconds (SO_SNDTIMEO) and then fail.  The result of send, an  *)
(* int, is kept in a size_t: it is never negative.                         *)
(*                                                                         *)
(* Calls follow each other on one connection.  A byte of the stream is     *)
(* the call that sent it and its place in that call's packet.              *)
(***************************************************************************)
EXTENDS Integers, Sequences, FiniteSets, SequencesExt

CONSTANTS
    Length,       \* buff->length
    Modulus,      \* 2^64: size_t wraps around there
    MaxCalls,     \* bound: packets sent on the connection
    MaxFails      \* bound: send calls that fail

ASSUME SendAssumption ==
    /\ Length \in Nat \ {0} /\ Modulus \in Nat /\ Modulus > Length + 1   \* no buffer fills the memory
    /\ MaxCalls \in Nat /\ MaxFails \in Nat

VARIABLES
    sending,             \* "idle" or "loop"
    bytes_sent,
    packet_count_out,    \* also the number of calls that returned 0
    stream,              \* what the kernel took, oldest first
    (* history *)
    calls,               \* calls so far
    fails,               \* send calls that have failed
    failedIn,            \* calls in which a send failed
    sendRc               \* what im_conn_send_packet returned last

sendVars == <<sending, bytes_sent, packet_count_out, stream, calls, fails, failedIn, sendRc>>

-----------------------------------------------------------------------------
SendInit ==
    /\ sending = "idle" /\ bytes_sent = 0 /\ packet_count_out = 0 /\ stream = <<>>
    /\ calls = 0 /\ fails = 0 /\ failedIn = {} /\ sendRc = 0

SendPacket ==
    /\ sending = "idle" /\ calls < MaxCalls
    /\ sending' = "loop" /\ bytes_sent' = 0 /\ calls' = calls + 1
    /\ UNCHANGED <<packet_count_out, stream, fails, failedIn, sendRc>>

\* A size_t returned as an int: all bits set are -1.
AsInt(n) == IF n = Modulus - 1 THEN -1 ELSE n

\* Variant: the packet is counted before the result is looked at.
LoopStepCountsAll(n) ==
    /\ bytes_sent' = n
    /\ IF n < Length
       THEN UNCHANGED <<sending, sendRc, packet_count_out>>
       ELSE /\ sending' = "idle"
            /\ sendRc' = IF AsInt(n) = Length THEN 0 ELSE -1
            /\ packet_count_out' = packet_count_out + 1

\* while (bytes_sent < buff->length); the caller compares with the length.
LoopStep(n) ==
    /\ bytes_sent' = n
    /\ IF n < Length
       THEN UNCHANGED <<sending, sendRc, packet_count_out>>
       ELSE /\ sending' = "idle"
            /\ sendRc' = IF AsInt(n) = Length THEN 0 ELSE -1
            /\ packet_count_out' = packet_count_out + (IF AsInt(n) = Length THEN 1 ELSE 0)

Part(from, n) == [i \in 1..n |-> <<calls, from + i - 1>>]

\* Variant: every part is taken from the start of the buffer.
SendTakesFromStart ==
    /\ sending = "loop"
    /\ \E n \in 1..(Length - bytes_sent) :
          /\ stream' = stream \o Part(0, n)
          /\ LoopStep(bytes_sent + n)
    /\ UNCHANGED <<calls, fails, failedIn>>

\* send(sock, data + bytes_sent, length - bytes_sent) takes n bytes.
SendTakes ==
    /\ sending = "loop"
    /\ \E n \in 1..(Length - bytes_sent) :
          /\ stream' = stream \o Part(bytes_sent, n)
          /\ LoopStep(bytes_sent + n)
    /\ UNCHANGED <<calls, fails, failedIn>>

\* send returns -1: "send_len < 0" is false of a size_t, and one is taken from
\* the count.
SendError ==
    /\ sending = "loop" /\ fails < MaxFails
    /\ fails' = fails + 1 /\ failedIn' = failedIn \cup {calls}
    /\ LoopStep((bytes_sent + Modulus - 1) % Modulus)
    /\ UNCHANGED <<stream, calls>>

SendNext == SendPacket \/ SendTakes \/ SendError

SendSpec == SendInit /\ [][SendNext]_sendVars /\ WF_sendVars(SendTakes \/ SendError)

-----------------------------------------------------------------------------
(* Properties *)

SendTypeOK ==
    /\ sending \in {"idle", "loop"} /\ bytes_sent \in 0..(Modulus - 1)
    /\ packet_count_out \in 0..calls /\ calls \in 0..MaxCalls
    /\ fails \in 0..MaxFails /\ failedIn \subseteq 1..calls
    /\ stream \in Seq(Nat \X Nat) /\ sendRc \in {-1, 0}
    /\ sending = "loop" => bytes_sent < Length

\* What the platform gets of the c-th packet is the packet, in one piece.
Whole(c) ==
    \E from \in 0..(Len(stream) - Length) :
        /\ \A k \in 1..Length : stream[from + k] = <<c, k - 1>>
        /\ \A i \in 1..Len(stream) : stream[i][1] = c => i \in (from + 1)..(from + Length)

\* A call in which no send failed has put its packet into the stream whole,
\* between those before and those behind it, in however many parts.
SentWhole ==
    \A c \in 1..calls : c \notin failedIn /\ (c < calls \/ sending = "idle") => Whole(c)

SInv == SendTypeOK /\ SentWhole

\* The packets that were counted are those that are in the stream entirely, also
\* when sends failed on the way: then bytes may be there twice, and the keep-alive
\* still does not take a lost packet for a sign of life.
CountedReached ==
    sending = "idle" =>
        packet_count_out =
            Cardinality({c \in 1..calls :
                           \A k \in 0..(Length - 1) : Contains(stream, <<c, k>>)})

\* A call comes back, as long as send does not fail over and over.
CallReturns == (sending = "loop") ~> (sending = "idle")

\* What the code says of a send that fails: it warns and returns -1.
FailedSendFails == [][sending = "loop" /\ sending' = "idle" /\ calls \in failedIn' => sendRc' = -1]_sendVars
=============================================================================
