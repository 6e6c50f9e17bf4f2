------------------------------ MODULE Mailbox ------------------------------
(***************************************************************************)
(* The mailbox __data_recv of the MQTT and of the HTTP build: one static   *)
(* buffer that a callback fills and the client takes and empties.  With    *)
(* MQTT the callback runs in the library's thread, beside the client's;    *)
(* with HTTP it runs in the client's own, while a request is sent.         *)
(*                                                                         *)
(* A message is its number, in the order in which they reach the callback; *)
(* 0 is none.  A copy of a message is the message its head is of, which    *)
(* has the transaction id, and the one its rest is of; Torn are bytes that *)
(* are not those of one message.                                           *)
(***************************************************************************)
EXTENDS Integers, Sequences, SequencesExt

CONSTANTS
    MaxMessages,  \* bound: messages from the platform
    MaxRequests,  \* bound: requests of the client
    MaxConnects   \* bound: connects after the first

ASSUME MailboxAssumption ==
    /\ MaxMessages \in Nat /\ MaxRequests \in Nat /\ MaxConnects \in Nat

VARIABLES
    netChannelType,
    data, length,  \* __data_recv: the last message put in, and the one it has the length of
    arriving,      \* the message whose bytes the callback is writing over data
    at,            \* the client: "idle", "wait", "copy", "clear", "handle"
    oldest,        \* while the client copies, what data was when it began
    recv_buff,     \* what the client copied
    awaited,       \* the request it waits for an answer to, 0 in a poll
    requests,      \* requests so far
    answers,       \* for each message the request it answers; 0: a request itself
    parts,         \* the answers of which the mailbox got the last part only
    connects,
    (* history *)
    since,         \* messages before the last connect
    taken,         \* what the client took, oldest first
    collided       \* the messages that came while another was in the mailbox

mvars == <<netChannelType, data, length, arriving, at, oldest, recv_buff, awaited,
           requests, answers, parts, connects, since, taken, collided>>

Torn == -1
ChannelTypes == {"TCP_IPv4", "MQTT_TCP_IPv4", "HTTP_TCP_IPv4"}
Mqtt == netChannelType = "MQTT_TCP_IPv4"
Http == netChannelType = "HTTP_TCP_IPv4"

-----------------------------------------------------------------------------
MInit ==
    /\ netChannelType \in ChannelTypes
    /\ data = 0 /\ length = 0 /\ arriving = 0
    /\ at = "idle" /\ oldest = 0 /\ recv_buff = [head |-> 0, rest |-> 0] /\ awaited = 0
    /\ requests = 0 /\ answers = <<>> /\ parts = {} /\ connects = 0
    /\ since = 0 /\ taken = <<>> /\ collided = {}

\* The mailbox is emptied, and an MQTT session begins anew; a callback of the old
\* one may still be under way.
MConnect ==
    /\ at = "idle" /\ connects < MaxConnects
    /\ length' = 0 /\ connects' = connects + 1 /\ since' = Len(answers)
    /\ UNCHANGED <<netChannelType, data, arriving, at, oldest, recv_buff, awaited,
                   requests, answers, parts, taken, collided>>

Came == collided' = IF length # 0 THEN collided \cup {Len(answers')} ELSE collided

\* im_mqtt_onMsgarrvd begins to write the bytes.  The platform answers a request,
\* perhaps again (QoS 1), or sends one.
BytesArrive ==
    /\ Mqtt /\ arriving = 0 /\ Len(answers) < MaxMessages
    /\ \E r \in 0..requests : answers' = Append(answers, r)
    /\ arriving' = Len(answers')
    /\ Came
    /\ UNCHANGED <<netChannelType, data, length, at, oldest, recv_buff, awaited, requests,
                   parts, connects, since, taken>>

\* They are there, and so is their length, by which the client knows of the message.
LengthArrives ==
    /\ arriving # 0
    /\ data' = arriving /\ length' = arriving /\ arriving' = 0
    /\ UNCHANGED <<netChannelType, at, oldest, recv_buff, awaited, requests, answers,
                   parts, connects, since, taken, collided>>

Unposted == UNCHANGED <<data, length, answers, parts, collided>>

\* Variant: the send empties the mailbox once more behind the callback.
PostedFlushes ==
    \/ Unposted
    \/ /\ Http /\ Len(answers) < MaxMessages
       /\ answers' = Append(answers, requests')
       /\ data' = Len(answers') /\ length' = 0
       /\ parts' \in {parts, parts \cup {data'}}
       /\ Came

\* What a request has made of the mailbox when its send returns: with MQTT
\* nothing yet; with HTTP the answer is there, or has no body; of an answer in
\* several parts the last one has overwritten the others.
Posted ==
    \/ Unposted
    \/ /\ Http /\ Len(answers) < MaxMessages
       /\ answers' = Append(answers, requests')
       /\ data' = Len(answers') /\ length' = Len(answers')
       /\ parts' \in {parts, parts \cup {data'}}
       /\ Came

\* A call that waits for its answer, or does not; a send that fails ends it.
MSend ==
    /\ at = "idle" /\ requests < MaxRequests
    /\ requests' = requests + 1
    /\ Posted
    /\ \/ at' = "wait" /\ awaited' = requests'
       \/ UNCHANGED <<at, awaited>>
    /\ UNCHANGED <<netChannelType, arriving, oldest, recv_buff, connects, since, taken>>

MPoll ==
    /\ at = "idle"
    /\ at' = "wait" /\ awaited' = 0
    /\ UNCHANGED <<netChannelType, data, length, arriving, oldest, recv_buff, requests,
                   answers, parts, connects, since, taken, collided>>

\* Nothing in time: -1 from a wait, 0 from a poll.
MTimeOut ==
    /\ at = "wait" /\ length = 0
    /\ at' = "idle" /\ awaited' = 0
    /\ UNCHANGED <<netChannelType, data, length, arriving, oldest, recv_buff, requests,
                   answers, parts, connects, since, taken, collided>>

\* net_mqtt_recv_buffer is called, begins to copy ...
Available ==
    /\ at = "wait" /\ length # 0
    /\ at' = "copy" /\ oldest' = data
    /\ UNCHANGED <<netChannelType, data, length, arriving, recv_buff, awaited, requests,
                   answers, parts, connects, since, taken, collided>>

MsgOf(m) == [head |-> m, rest |-> IF m \in parts THEN Torn ELSE m]

\* What a copy may be: as long as no callback writes meanwhile, the one message in the
\* mailbox; else any that was there meanwhile, the head of one with other bytes behind
\* it, or bytes with no head at all.
Copies ==
    LET met == oldest..Len(answers)
    IN IF oldest = Len(answers) THEN {MsgOf(oldest)}
       ELSE {MsgOf(m) : m \in met} \cup {[head |-> h, rest |-> Torn] : h \in met \cup {Torn}}

\* ... has copied ...
Copied ==
    /\ at = "copy"
    /\ recv_buff' \in Copies
    /\ taken' = Append(taken, recv_buff')
    /\ at' = "clear" /\ oldest' = 0
    /\ UNCHANGED <<netChannelType, data, length, arriving, awaited, requests, answers,
                   parts, connects, since, collided>>

\* Variant: the length is left.
ClearedKeeps ==
    /\ at = "clear"
    /\ at' = "handle"
    /\ UNCHANGED <<netChannelType, data, length, arriving, oldest, recv_buff, awaited,
                   requests, answers, parts, connects, since, taken, collided>>

\* ... and empties the mailbox of whatever is in it by now.
Cleared ==
    /\ at = "clear"
    /\ length' = 0
    /\ at' = "handle"
    /\ UNCHANGED <<netChannelType, data, arriving, oldest, recv_buff, awaited, requests,
                   answers, parts, connects, since, taken, collided>>

\* The transaction ids are compared; with HTTP there is none to compare.
HasId(r) == recv_buff.head # Torn /\ answers[recv_buff.head] = r
IsAnswer == awaited # 0 /\ (Http \/ recv_buff.head = Torn \/ HasId(awaited))
IsOther == awaited = 0 \/ (~Http /\ ~HasId(awaited))

\* An answer ends a wait; everything else goes to the packet handler, and the call
\* goes on.  What cannot be parsed fails the call: a copy that is not one message may
\* be, or may not, and may by chance have any id.
MHandle ==
    /\ at = "handle"
    /\ \/ (recv_buff.rest = Torn \/ IsAnswer) /\ at' = "idle" /\ awaited' = 0
       \/ IsOther /\ at' = "wait" /\ UNCHANGED awaited
    /\ UNCHANGED <<netChannelType, data, length, arriving, oldest, recv_buff, requests,
                   answers, parts, connects, since, taken, collided>>

MRun == MTimeOut \/ Available \/ Copied \/ Cleared \/ MHandle
MNext == MConnect \/ BytesArrive \/ LengthArrives \/ MSend \/ MPoll \/ MRun

-----------------------------------------------------------------------------
(* Properties *)

MTypeOK ==
    /\ netChannelType \in ChannelTypes
    /\ {data, length, oldest} \subseteq 0..Len(answers)
    /\ arriving \in {0, Len(answers)}
    /\ recv_buff.head \in Torn..Len(answers) /\ recv_buff.rest \in {recv_buff.head, Torn}
    /\ at \in {"idle", "wait", "copy", "clear", "handle"}
    /\ requests \in 0..MaxRequests /\ awaited \in {0, requests}
    /\ answers \in Seq(0..requests) /\ Len(answers) <= MaxMessages

\* The callback wrote over m before it was taken, or m over another.
Collision(m) == m \in collided \/ m + 1 \in collided

Heads == {taken[i].head : i \in 1..Len(taken)}

\* Whatever the callback and the client do at the same time, the heads the client
\* takes never go back to an older message; it takes one twice only if that came
\* while another was in the mailbox, and none three times; and what is behind a head
\* is of the same message unless this one and its neighbour collided, or HTTP brought
\* the last part alone.
TakenInOrder ==
    /\ \A i, j \in 1..Len(taken) :
          i < j /\ taken[i].head # Torn /\ taken[j].head # Torn
          => \/ taken[i].head < taken[j].head
             \/ taken[i].head = taken[j].head /\ taken[i].head \in collided
    /\ \A i, j, k \in 1..Len(taken) :
          i < j /\ j < k /\ taken[i].head = taken[j].head /\ taken[j].head = taken[k].head
          => taken[i].head = Torn
    /\ \A i \in 1..Len(taken) :
          taken[i].head # Torn /\ taken[i].rest = Torn
          => Collision(taken[i].head) \/ taken[i].head \in parts

\* A message is lost only with a collision, and only the two that meet in it: all
\* others since the last connect were taken, or are in the mailbox, or on their way.
LostByCollision ==
    \A m \in (since + 1)..Len(answers) :
        m \in Heads \cup {length, arriving} \/ Collision(m)

MInv == MTypeOK /\ TakenInOrder /\ LostByCollision

\* As long as a call waits, the answer to its request has not come to it, but for one
\* still in the mailbox or on its way: so a wait that times out had none, unless the
\* answer collided with another message.
AnswerEndsWait ==
    at = "wait" /\ awaited # 0 =>
        \A m \in 1..Len(answers) :
            answers[m] = awaited => m \in {length, arriving} \/ Collision(m)
=============================================================================
