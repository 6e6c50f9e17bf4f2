------------------------------- MODULE Packet -------------------------------
(***************************************************************************)
(* A packet from its making to its release: head, extension fields and     *)
(* body, how they are written into the send buffer and read from the       *)
(* receive buffer, and the blocks of memory a packet owns on the way.  One *)
(* call at a time: a transaction or the reading of a packet in a poll.     *)
(*                                                                         *)
(* Text is a sequence of bytes below ByteMod, of which 0 ends it.  The     *)
(* body is its length.                                                     *)
(***************************************************************************)
EXTENDS Integers, Sequences, SequencesExt

CONSTANTS
    ByteMod,      \* 256
    Buffer,       \* IOBUFF_MAX_SIZE
    Bodies,       \* lengths of serialised bodies
    Fields,       \* extension fields [key, val] the caller or the platform sets
    NotUtf8,      \* a byte that is no UTF-8
    MaxFields,    \* bound: extension fields of a packet
    MaxAnswers    \* bound: packets read within a wait

HeadLen == 35     \* IOTMAKERS_DEF_HEAD_LEN

ASSUME PacketAssumption ==
    /\ ByteMod \in Nat \ {0, 1} /\ Buffer \in Nat
    /\ Bodies \subseteq Nat \ {0}
    /\ Fields \subseteq [key : Seq(1..(ByteMod - 1)), val : Seq(1..(ByteMod - 1))]
    /\ MaxFields \in Nat /\ MaxAnswers \in Nat

VARIABLES
    pc, waits,   \* where the call is, and whether it waits for an answer
    kind,        \* the packet's init function
    req, res,    \* the packets of the call: head, ext (in order), ext_cnt, body
    sent,        \* what went out
    answer,      \* the packet that is being read, as the platform wrote it
    index,       \* of the loop over its extension
    answers,     \* packets read so far
    rc,
    heap,        \* for each sort of block how many there are
    ptrs,        \* those a packet of the call points to
    misfreed     \* history: a pointer to no block was freed

packets == <<req, res, sent, answer, index, answers>>
memory == <<heap, ptrs, misfreed>>
vars == <<pc, waits, kind, packets, rc, memory>>

-----------------------------------------------------------------------------
(* The head.  Message type, exchange pattern and method share two bytes:    *)
(* two bits, two bits and twelve.                                           *)

Request == 1
Response == 2
Report == 3
NoPtrn == 0
OneWay == 1
OneWayAck == 2

SetMsgType(h, type) == [h EXCEPT !.byte1 = (@ % 64) + 64 * type]
SetMsgExchPtrn(h, type) == [h EXCEPT !.byte1 = (@ \div 64) * 64 + 16 * type + (@ % 16)]

\* Two bytes or-ed, bit by bit.
Bit(a, b, w) == IF (a \div w) % 2 = 1 \/ (b \div w) % 2 = 1 THEN w ELSE 0
Or(a, b) ==
    Bit(a, b, 128) + Bit(a, b, 64) + Bit(a, b, 32) + Bit(a, b, 16)
        + Bit(a, b, 8) + Bit(a, b, 4) + Bit(a, b, 2) + Bit(a, b, 1)
SetMethodType(h, m) ==
    [h EXCEPT !.byte1 = Or(@, m \div 256), !.byte2 = Or(@, m % 256)]

GetMsgType(h) == h.byte1 \div 64
GetMsgExchPtrn(h) == (h.byte1 \div 16) % 4
GetMethodType(h) == (h.byte1 % 16) * 256 + h.byte2

InitHead ==
    SetMethodType(SetMsgExchPtrn(SetMsgType(
        [byte1 |-> 0, byte2 |-> 0, hdrLen |-> HeadLen, athn |-> "none", trx |-> "new"],
        Request), NoPtrn), 0)

OnewayReq == SetMsgExchPtrn(SetMsgType(InitHead, Request), OneWayAck)
ResponseHead == SetMsgType(InitHead, Response)
ReportHead == SetMsgExchPtrn(SetMsgType(InitHead, Report), OneWay)

Authn(h) == [h EXCEPT !.athn = "given"]
GivenTrx(h) == [h EXCEPT !.trx = "given"]

\* A head per init function.
Kinds == {"121_req", "224_req", "231_req", "332_req", "411_req", "525_res",
          "525_rep", "711_res", "731_req"}
HeadOf(k) ==
    CASE k = "121_req" -> SetMethodType(OnewayReq, 121)
      [] k = "224_req" -> SetMethodType(OnewayReq, 224)
      [] k = "231_req" -> Authn(SetMethodType(OnewayReq, 231))
      [] k = "332_req" -> Authn(SetMethodType(OnewayReq, 332))
      [] k = "411_req" -> Authn(SetMethodType(OnewayReq, 411))
      [] k = "525_res" -> GivenTrx(Authn(SetMethodType(ResponseHead, 525)))
      [] k = "525_rep" -> GivenTrx(Authn(SetMethodType(ReportHead, 525)))
      [] k = "711_res" -> GivenTrx(Authn(SetMethodType(ResponseHead, 711)))
      [] k = "731_req" -> SetMethodType(OnewayReq, 731)

-----------------------------------------------------------------------------
(* Memory: im_packet_release frees what a packet points to and forgets it. *)

Blocks == {"reqExt", "reqRoot", "reqString", "resExt", "resRoot"}
OfReq == {"reqExt", "reqRoot", "reqString"}
OfRes == {"resExt", "resRoot"}

\* Blocks allocated, and those released, in a step.
Memory(new, freed) ==
    /\ heap' = [b \in Blocks |-> heap[b] + (IF b \in new THEN 1 ELSE 0)
                                        - (IF b \in freed /\ heap[b] > 0 THEN 1 ELSE 0)]
    /\ misfreed' = (misfreed \/ \E b \in freed : heap[b] = 0)
    /\ ptrs' = (ptrs \cup new) \ freed

\* Variant: what was freed is still pointed to.
ReleaseKeeps(own) ==
    /\ heap' = [b \in Blocks |-> IF b \in own \cap ptrs /\ heap[b] > 0 THEN heap[b] - 1 ELSE heap[b]]
    /\ misfreed' = (misfreed \/ \E b \in own \cap ptrs : heap[b] = 0)
    /\ UNCHANGED ptrs

Release(own) == Memory({}, own \cap ptrs)

-----------------------------------------------------------------------------
(* Extension fields *)

EmptyPacket == [head |-> InitHead, ext |-> <<>>, ext_cnt |-> 0, body |-> 0]

\* parson asks of the value whether it is UTF-8, and of the key nothing.
IsText(e) == NotUtf8 \notin ToSet(e.val)
HasKey(ext, key) == \E i \in DOMAIN ext : ext[i].key = key

\* Variant: a key that is there keeps its value.
PutFieldFirst(ext, e) == IF HasKey(ext, e.key) THEN ext ELSE Append(ext, e)

\* json_object_set_string: a key that is there keeps its place.
PutField(ext, e) ==
    IF HasKey(ext, e.key)
    THEN [i \in DOMAIN ext |-> IF ext[i].key = e.key THEN e ELSE ext[i]]
    ELSE Append(ext, e)

\* im_pktHeadExt_add_val: counts every field that was taken, the same key again too.
AddVal(p, e) ==
    IF IsText(e) THEN [p EXCEPT !.ext = PutField(@, e), !.ext_cnt = @ + 1] ELSE p

\* The object for the fields is made before the first, and freed when that fails.
NewExt(p, e, block) == IF p.ext_cnt = 0 /\ IsText(e) THEN {block} ELSE {}

\* A field on the wire: a byte for the length of the key, the key, two bytes for
\* the length of the value, the value.
Field(e, high, low) == <<Len(e.key) % ByteMod>> \o e.key \o <<high, low>> \o e.val

\* The SDK writes its fields in a loop over ext_cnt that ends where there is no
\* name; the length of a value is cast to an unsigned char.
Written(p) ==
    FlattenSeq([i \in DOMAIN p.ext |-> Field(p.ext[i], 0, Len(p.ext[i].val) % ByteMod)])

\* A field whose lengths one byte and two can say: the platform has no others.
Fits(e) == Len(e.key) < ByteMod /\ Len(e.val) < ByteMod * ByteMod

\* The fields as the protocol has them.
Layout(ext) ==
    FlattenSeq([i \in DOMAIN ext |->
                   Field(ext[i], Len(ext[i].val) \div ByteMod, Len(ext[i].val) % ByteMod)])

-----------------------------------------------------------------------------
(* A call: its request is made, filled and sent. *)

Init ==
    /\ pc = "begin" /\ waits = FALSE /\ kind = "224_req"
    /\ req = EmptyPacket /\ res = EmptyPacket
    /\ sent = [length |-> 0, head |-> InitHead, ext |-> <<>>, body |-> 0]
    /\ answer = [trx |-> "same", ext |-> <<>>, body |-> FALSE]
    /\ index = 0 /\ answers = 0 /\ rc = 0
    /\ heap = [b \in Blocks |-> 0] /\ ptrs = {} /\ misfreed = FALSE

\* The body begins as "{}"; without memory for it the packet has none, and the
\* functions that fill it do nothing.
Make ==
    /\ pc = "begin"
    /\ \E k \in Kinds, n \in Bodies \cup {0}, w \in BOOLEAN :
          /\ kind' = k /\ waits' = w
          /\ req' = [EmptyPacket EXCEPT !.head = HeadOf(k), !.body = n]
          /\ Memory(IF n > 0 THEN {"reqRoot"} ELSE {}, {})
    /\ pc' = "build"
    /\ UNCHANGED <<res, sent, answer, index, answers, rc>>

AddField ==
    /\ pc = "build" /\ req.ext_cnt < MaxFields
    /\ \E e \in Fields :
          /\ req' = AddVal(req, e)
          /\ Memory(NewExt(req, e, "reqExt"), {})
    /\ UNCHANGED <<pc, waits, kind, res, sent, answer, index, answers, rc>>

\* im_head_get_serialized_to_buff
HasRoom == HeadLen + Len(Written(req)) <= Buffer - 4
HeadSize == HeadLen + Len(Written(req))

\* Variant: the room for the body is counted from the start of the buffer.
BodyFitsBuffer == req.body > 0 /\ req.body <= Buffer
\* im_body_get_serialized_to_buff: a body that does not fit counts as -1 ...
BodyFits == req.body > 0 /\ req.body <= Buffer - 4 - HeadSize
BodySize == IF req.body = 0 THEN 0 ELSE IF BodyFits THEN req.body ELSE -1

\* ... which is added to the length of the head, and the packet goes out so.
Send ==
    /\ pc = "build"
    /\ LET length == IF HasRoom THEN HeadSize + BodySize ELSE -1
       IN  sent' = [length |-> length,
                    head |-> IF req.ext_cnt > 0 /\ HasRoom
                             THEN [req.head EXCEPT !.hdrLen = HeadSize] ELSE req.head,
                    ext |-> Written(req),
                    body |-> IF HasRoom /\ BodyFits THEN req.body ELSE 0]
    /\ Memory(IF HasRoom /\ BodyFits THEN {"reqString"} ELSE {}, {})
    /\ \/ pc' = (IF waits THEN "wait" ELSE "return") /\ rc' = 0
       \/ pc' = "return" /\ rc' = -1       \* the channel does not take all of it
    /\ UNCHANGED <<waits, kind, req, res, answer, index, answers>>

\* A poll has nothing to send: it reads what has come.
Poll ==
    /\ pc = "begin"
    /\ pc' = "wait" /\ waits' = FALSE
    /\ UNCHANGED <<kind, packets, rc, memory>>

-----------------------------------------------------------------------------
(* Something is read. *)

\* Nothing comes in time: for a poll that is no failure.
TimeOut ==
    /\ pc = "wait"
    /\ pc' = "return" /\ rc' = IF waits THEN -1 ELSE 0
    /\ UNCHANGED <<waits, kind, packets, memory>>

\* im_packet_init, then the head: im_head_init forgets what the packet points to.
Arrive ==
    /\ pc = "wait" /\ answers < MaxAnswers
    /\ \E trx \in {"same", "other"}, n \in 0..MaxFields, body \in BOOLEAN :
       \E ext \in [1..n -> {e \in Fields : Fits(e)}] : answer' = [trx |-> trx, ext |-> ext, body |-> body]
    /\ res' = [EmptyPacket EXCEPT !.head.hdrLen = HeadLen + Len(Layout(answer'.ext))]
    /\ ptrs' = ptrs \ OfRes
    /\ index' = 0 /\ answers' = answers + 1
    /\ pc' = IF res'.head.hdrLen > HeadLen THEN "ext" ELSE "body"
    /\ UNCHANGED <<waits, kind, req, sent, rc, heap, misfreed>>

Bytes == Layout(answer.ext)
Int16(i) == Bytes[i] * ByteMod + Bytes[i + 1]

\* One round of im_pktHeadExt_get_deserialize_from_buff; a field that cannot be
\* kept is passed over.
ReadField ==
    /\ pc = "ext" /\ index < res.head.hdrLen - HeadLen
    /\ LET keyLen == Bytes[index + 1]
           valLen == Int16(index + keyLen + 2)
           at == index + 1 + keyLen + 2
           e == [key |-> SubSeq(Bytes, index + 2, index + 1 + keyLen),
                 val |-> SubSeq(Bytes, at + 1, at + valLen)]
       IN  /\ res' = AddVal(res, e) /\ Memory(NewExt(res, e, "resExt"), {})
           /\ index' = at + valLen
    /\ UNCHANGED <<pc, waits, kind, req, sent, answer, answers, rc>>

\* Variant: a poll does not release it either.
ReadFailsKeeps ==
    /\ Release(OfReq)
    /\ pc' = "return" /\ rc' = -1
    /\ UNCHANGED <<waits, kind, packets>>

\* A transaction gives up with the request released and the packet it was reading
\* not; a poll releases that.
ReadFails ==
    /\ IF waits THEN Release(OfReq) ELSE Release(OfRes)
    /\ pc' = "return" /\ rc' = -1
    /\ UNCHANGED <<waits, kind, packets>>

ReadExtEnds ==
    /\ pc = "ext" /\ index >= res.head.hdrLen - HeadLen
    /\ IF res.ext_cnt <= 0 THEN ReadFails
       ELSE pc' = "body" /\ UNCHANGED <<waits, kind, packets, rc, memory>>

ReadBody ==
    /\ pc = "body"
    /\ IF answer.body
       THEN /\ res' = [res EXCEPT !.body = 2]
            /\ Memory({"resRoot"}, {}) /\ pc' = "handle"
            /\ UNCHANGED <<waits, kind, req, sent, answer, index, answers, rc>>
       ELSE ReadFails

\* The handler for it is called (DeviceSession); then the wait goes on, or the
\* poll, unless this was the answer.
Handle ==
    /\ pc = "handle"
    /\ Release(OfRes)
    /\ pc' = IF waits /\ answer.trx = "same" THEN "return" ELSE "wait"
    /\ UNCHANGED <<waits, kind, packets, rc>>

\* The caller releases its request, whatever became of it.
Return ==
    /\ pc = "return"
    /\ Release(OfReq)
    /\ pc' = "end"
    /\ UNCHANGED <<waits, kind, packets, rc>>

Next ==
    \/ Make \/ AddField \/ Send \/ Poll
    \/ TimeOut \/ Arrive \/ ReadField \/ ReadExtEnds \/ ReadBody \/ Handle
    \/ Return

Spec == Init /\ [][Next]_vars

-----------------------------------------------------------------------------
(* Properties *)

TypeOK ==
    /\ kind \in Kinds /\ rc \in {-1, 0} /\ answers \in 0..MaxAnswers
    /\ req.head.byte1 \in 0..255 /\ req.head.byte2 \in 0..255
    /\ req.ext_cnt \in Len(req.ext)..MaxFields
    /\ heap \in [Blocks -> 0..1] /\ ptrs \subseteq Blocks

\* What the head of a packet of each kind says, in whatever order it was put together.
Says(k) ==
    CASE k = "525_rep" -> <<Report, OneWay, 525>>
      [] k = "525_res" -> <<Response, NoPtrn, 525>>
      [] k = "711_res" -> <<Response, NoPtrn, 711>>
      [] k = "121_req" -> <<Request, OneWayAck, 121>>
      [] k = "224_req" -> <<Request, OneWayAck, 224>>
      [] k = "231_req" -> <<Request, OneWayAck, 231>>
      [] k = "332_req" -> <<Request, OneWayAck, 332>>
      [] k = "411_req" -> <<Request, OneWayAck, 411>>
      [] k = "731_req" -> <<Request, OneWayAck, 731>>

IsSent == sent.length # 0 /\ rc = 0
Short(ext) == \A i \in DOMAIN ext : Len(ext[i].key) < ByteMod /\ Len(ext[i].val) < ByteMod

\* The packet as the protocol lays it out, its length and the length of its head
\* counted right.  Without room for all of it, it is too short for its head, so that
\* nobody can take it for a packet.
LaidOut ==
    LET headLen == HeadLen + Len(Layout(req.ext))
    IN  /\ <<GetMsgType(sent.head), GetMsgExchPtrn(sent.head), GetMethodType(sent.head)>>
              = Says(kind)
        /\ IF headLen + req.body <= Buffer - 4
           THEN /\ sent.ext = Layout(req.ext) /\ sent.head.hdrLen = headLen
                /\ sent.length = headLen + req.body
           ELSE sent.length < sent.head.hdrLen

\* What goes out is the packet, when each of its fields is shorter than 256 bytes;
\* without room it goes out too short, though the call reports it as sent.
SentIsPacket == IsSent /\ Short(req.ext) => LaidOut

\* The fields whose value is text, of each key the last.
LastText(ext, i) ==
    IsText(ext[i]) /\ \A j \in (i + 1)..Len(ext) : IsText(ext[j]) => ext[j].key # ext[i].key
Texts(ext) == {ext[i] : i \in {n \in DOMAIN ext : LastText(ext, n)}}

\* What is read is what the platform wrote: every field with a text for a value, the last
\* value of each key.
ReadIsAnswer == pc = "handle" => ToSet(res.ext) = Texts(answer.ext)

\* A block is freed once, though a failed read releases the request both inside
\* the transaction and in the caller.
FreedOnce == ~misfreed
MemoryInv == TypeOK /\ FreedOnce

\* When the call has returned nothing it allocated is left, except the extension
\* of an answer whose body a transaction could not read.
NothingLeft ==
    pc = "end" =>
        \A b \in Blocks : heap[b] = IF b = "resExt" /\ waits /\ rc = -1
                                      /\ ~answer.body /\ res.ext_cnt > 0 THEN 1 ELSE 0
=============================================================================
