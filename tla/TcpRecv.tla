------------------------------ MODULE TcpRecv ------------------------------
(***************************************************************************)
(* Reading packets from one TCP connection once the length framing is on:  *)
(* netio_recv_buffer, net_tcp_recv_packet_with_header and the recv loop    *)
(* under them.  The stream arrives in pieces of any size; recv waits for   *)
(* three seconds at most (SO_RCVTIMEO) and the platform may close.         *)
(*                                                                         *)
(* A byte is its position in the stream.  The stream is known by "ends",   *)
(* the positions where its packets end, and what a read puts into          *)
(* recv_buff are the bytes after "start" up to "pos".                      *)
(***************************************************************************)
EXTENDS Integers, Sequences

CONSTANTS
    HeadLen,       \* head_len_bytes: 4
    Lens,          \* lengths of the packets the platform sends
    Garbage,       \* lengths that four bytes from within a packet may mean
    MaxPackets,    \* bound: packets the platform sends on the connection
    MayTimeOut     \* may recv wait in vain for three seconds?

ASSUME FramingAssumption ==
    /\ HeadLen \in Nat \ {0} /\ MaxPackets \in Nat
    /\ Lens \subseteq Nat \ {0} /\ Garbage \subseteq Nat
    /\ MayTimeOut \in BOOLEAN

VARIABLES
    ends,          \* where the packets sent so far end
    arrived,       \* bytes that have reached the device
    closed,        \* the platform has closed the connection
    sock,          \* "up", or "bad" (-1)
    pc,            \* "idle", "head", "body"; "lost": see RecvFails
    start,         \* where the read in progress began
    pos,           \* bytes taken from the socket
    total, want,   \* total_length and want_read_now of net_tcp_recv_with_length
    rc,            \* what the last netio_recv_buffer returned, as an int
    got,           \* what was handed to the parser, while no recv had failed
    failed         \* a recv has failed

netVars == <<ends, arrived, closed>>
readVars == <<sock, pc, start, pos, total, want, rc, got, failed>>
vars == <<netVars, readVars>>

-----------------------------------------------------------------------------
EndOf(i) == IF i = 0 THEN 0 ELSE ends[i]
StreamEnd == EndOf(Len(ends))

Init ==
    /\ ends = <<>> /\ arrived = 0 /\ closed = FALSE
    /\ sock = "up" /\ pc = "idle" /\ start = 0 /\ pos = 0
    /\ total = 0 /\ want = 0 /\ rc = 0 /\ got = <<>> /\ failed = FALSE

(* The platform and the network *)

SrvSend ==
    /\ ~closed /\ Len(ends) < MaxPackets
    /\ \E n \in Lens : ends' = Append(ends, StreamEnd + HeadLen + n)
    /\ UNCHANGED <<arrived, closed, readVars>>

SrvClose ==
    /\ ~closed /\ closed' = TRUE
    /\ UNCHANGED <<ends, arrived, readVars>>

Arrive ==
    /\ \E n \in (arrived + 1)..StreamEnd : arrived' = n
    /\ UNCHANGED <<ends, closed, readVars>>

-----------------------------------------------------------------------------
(* Reading *)

\* netio_available found something to read, and the client reads the head.
ReadHead ==
    /\ pc = "idle" /\ sock = "up" /\ arrived > pos
    /\ pc' = "head" /\ start' = pos
    /\ total' = 0 /\ want' = HeadLen
    /\ UNCHANGED <<netVars, sock, pos, rc, got, failed>>

\* The number in the four bytes after start: a packet's length when they are its
\* head, anything when an earlier read has stopped within a packet.
PacketLens ==
    LET here == {i \in 1..Len(ends) : EndOf(i - 1) = start}
    IN IF here # {} THEN {EndOf(i) - start - HeadLen : i \in here} ELSE Garbage

\* Variant: the number is taken for the length of the packet with its head.
LoopEndsWithHead ==
    \/ /\ pc = "head" /\ pc' = "body"
       /\ \E n \in PacketLens : want' = n + HeadLen
       /\ total' = 0
       /\ UNCHANGED <<rc, got>>
    \/ /\ pc = "body" /\ pc' = "idle"
       /\ rc' = HeadLen + total + (pos' - pos)
       /\ got' = IF failed THEN got ELSE Append(got, <<start, pos'>>)
       /\ total' = 0 /\ want' = 0

\* The loop has what it was asked for: go on to the body, or return.
LoopEnds ==
    \/ /\ pc = "head" /\ pc' = "body"
       /\ \E n \in PacketLens : want' = n
       /\ total' = 0
       /\ UNCHANGED <<rc, got>>
    \/ /\ pc = "body" /\ pc' = "idle"
       /\ rc' = HeadLen + total + (pos' - pos)
       /\ got' = IF failed THEN got ELSE Append(got, <<start, pos'>>)
       /\ total' = 0 /\ want' = 0

\* Variant: what is wanted does not shrink with what has come.
RecvGreedy ==
    /\ pc \in {"head", "body"} /\ want > 0
    /\ \E n \in 1..(arrived - pos) :
          /\ n <= want + total
          /\ pos' = pos + n
          /\ IF n < want THEN total' = total + n /\ want' = want - n /\ UNCHANGED <<pc, rc, got>>
                         ELSE LoopEnds
    /\ UNCHANGED <<netVars, sock, start, failed>>

\* recv returns some of the bytes that are wanted and have arrived.
Recv ==
    /\ pc \in {"head", "body"} /\ want > 0
    /\ \E n \in 1..(arrived - pos) :
          /\ n <= want
          /\ pos' = pos + n
          /\ IF n < want THEN total' = total + n /\ want' = want - n /\ UNCHANGED <<pc, rc, got>>
                         ELSE LoopEnds
    /\ UNCHANGED <<netVars, sock, start, failed>>

\* net_tcp_recv_with_length returns -1.  In the head the whole read does.  In the
\* body -1 is added to the length of the head, which is not negative, and
\* im_conn_recv_packet parses a packet of -1 bytes: what the program does from
\* there on is undefined, and not followed.
RecvFails ==
    /\ failed' = TRUE
    /\ \/ pc = "head" /\ pc' = "idle" /\ rc' = -1
       \/ pc = "body" /\ pc' = "lost" /\ rc' = HeadLen - 1
    /\ total' = 0 /\ want' = 0
    /\ UNCHANGED <<netVars, start, pos, got>>

\* recv returns 0, at the end of the stream or when it is asked for no byte.
RecvZero ==
    /\ pc \in {"head", "body"}
    /\ want = 0 \/ (closed /\ arrived = StreamEnd /\ pos = arrived)
    /\ sock' = "bad"
    /\ RecvFails

\* Variant: a time-out is taken for an interrupted call.
RecvTimeOutRetries ==
    /\ pc \in {"head", "body"} /\ MayTimeOut
    /\ UNCHANGED vars

\* recv waits for three seconds and returns -1.  (EINTR: the loop goes on.)
RecvTimeOut ==
    /\ pc \in {"head", "body"} /\ MayTimeOut
    /\ want > 0 /\ pos = arrived /\ ~(closed /\ arrived = StreamEnd)
    /\ UNCHANGED sock
    /\ RecvFails

Reading == Recv \/ RecvZero \/ RecvTimeOut

Next == SrvSend \/ SrvClose \/ Arrive \/ ReadHead \/ Reading

Spec == Init /\ [][Next]_vars

\* A recv returns when something has come, at the end, or when its time is over.
FairSpec == Spec /\ WF_vars(Reading)

-----------------------------------------------------------------------------
(* Properties *)

TypeOK ==
    /\ ends \in Seq(Nat) /\ arrived \in 0..StreamEnd /\ closed \in BOOLEAN
    /\ sock \in {"up", "bad"} /\ pc \in {"idle", "head", "body", "lost"}
    /\ start \in 0..pos /\ pos \in 0..arrived
    /\ total \in Nat /\ want \in Nat
    /\ rc \in Int /\ got \in Seq(Nat \X Nat) /\ failed \in BOOLEAN

\* While no recv has failed, the read in progress is at the packet behind those
\* that were read, and asks for no byte of the next one.
AtPacket ==
    LET k == Len(got)
    IN ~failed =>
         /\ k <= Len(ends)
         /\ pc = "idle" => pos = EndOf(k)
         /\ pc # "idle" => k < Len(ends) /\ start = EndOf(k)
         /\ pc = "head" => pos = start + total /\ pos + want = start + HeadLen
         /\ pc = "body" => pos + want = EndOf(k + 1) /\ want > 0 /\ pos >= start + HeadLen

\* What a read hands to the parser is a packet the platform has sent, whole,
\* and each packet once and in order, however the stream is cut into pieces.
PacketsWhole ==
    \A i \in DOMAIN got : i <= Len(ends) /\ got[i] = <<EndOf(i - 1), EndOf(i)>>

\* The reads make the connection a stream of packets.
Unread == [i \in 1..(Len(ends) - Len(got)) |->
              <<EndOf(Len(got) + i - 1), EndOf(Len(got) + i)>>]
Stream == INSTANCE PacketStream WITH Packets <- Nat \X Nat, queue <- Unread, log <- got, broken <- failed
StreamSpec == Stream!Spec

\* A read that has begun comes to an end, whatever the platform does.
ReadReturns == (pc \in {"head", "body"}) ~> (pc \notin {"head", "body"})

\* What net_tcp_recv_packet_with_header reports as "FAIL read packet" is an error
\* to its caller, who looks for a negative result.
FailedReadFails == [][failed' /\ ~failed => rc' < 0]_vars

\* The inductive invariant behind PacketsWhole.
EndsGrow == \A i \in 1..Len(ends), j \in 0..(Len(ends) - 1) : j < i => EndOf(i) > EndOf(j) + HeadLen
RInv == TypeOK /\ EndsGrow /\ AtPacket /\ PacketsWhole
=============================================================================
