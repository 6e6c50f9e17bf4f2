---------------------------- MODULE PacketStream ----------------------------
(***************************************************************************)
(* What the session takes for granted of its connection: the packets the   *)
(* platform sends come out whole, each once and in order, until the stream *)
(* breaks; then nothing more comes out.                                    *)
(***************************************************************************)
EXTENDS Naturals, Sequences

CONSTANT Packets

VARIABLES
    queue,     \* sent and not yet read
    log,       \* read, oldest first
    broken

vars == <<queue, log, broken>>

Init == queue = <<>> /\ log = <<>> /\ broken = FALSE

\* One more packet behind those that are waiting.
Put ==
    /\ queue' \in Seq(Packets) /\ Len(queue') = Len(queue) + 1
    /\ \A i \in 1..Len(queue) : queue'[i] = queue[i]
    /\ UNCHANGED <<log, broken>>

Take ==
    /\ ~broken /\ queue # <<>>
    /\ log' = Append(log, Head(queue))
    /\ queue' = Tail(queue)
    /\ UNCHANGED broken

Break == broken' = TRUE /\ UNCHANGED <<queue, log>>

Next == Put \/ Take \/ Break

Spec == Init /\ [][Next]_vars
=============================================================================
