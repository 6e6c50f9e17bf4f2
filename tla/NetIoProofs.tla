---------------------------- MODULE NetIoProofs ----------------------------
(***************************************************************************)
(* What TLAPS proves of the framed reads, of the send loop, of the mailbox *)
(* and of the channels together: for packets of any length, any number of  *)
(* calls and messages, however the stream is cut into pieces, and every    *)
(* way in which the kernel, the MQTT library's thread and the client       *)
(* interleave.                                                             *)
(***************************************************************************)
EXTENDS NetIo, SequenceTheorems, FiniteSetTheorems, TLAPS

-----------------------------------------------------------------------------
(* The framed reads *)

\* The ends of the packets, and the end of the stream, are positions.
LEMMA EndsAreNat ==
    ASSUME TypeOK
    PROVE  /\ Len(ends) \in Nat /\ Len(got) \in Nat
           /\ \A i \in 0..Len(ends) : EndOf(i) \in Nat
           /\ StreamEnd \in Nat /\ StreamEnd = EndOf(Len(ends))
<1>1. ends \in Seq(Nat) /\ got \in Seq(Nat \X Nat)
  BY DEF TypeOK
<1>2. Len(ends) \in Nat /\ Len(got) \in Nat /\ \A i \in 1..Len(ends) : ends[i] \in Nat
  BY <1>1, LenProperties, ElementOfSeq
<1>3. \A i \in 0..Len(ends) : EndOf(i) \in Nat
  BY <1>2 DEF EndOf
<1>4. QED
  BY <1>2, <1>3 DEF StreamEnd

\* One packet more leaves the ends of the others where they are.
LEMMA SendEnds ==
    ASSUME RInv, SrvSend
    PROVE  /\ ends' \in Seq(Nat) /\ Len(ends') = Len(ends) + 1
           /\ \A i \in 0..Len(ends) : EndOf(i)' = EndOf(i)
           /\ ends'[Len(ends) + 1] > StreamEnd + HeadLen
           /\ ends'[Len(ends) + 1] \in Nat
           /\ StreamEnd' = ends'[Len(ends) + 1]
<1>1. TypeOK
  BY DEF RInv
<1>2. PICK n \in Lens : ends' = Append(ends, StreamEnd + HeadLen + n)
  BY DEF SrvSend
<1>3. n \in Nat \ {0} /\ HeadLen \in Nat \ {0}
  BY FramingAssumption
<1> DEFINE e == StreamEnd + HeadLen + n
<1>4. e \in Nat /\ e > StreamEnd + HeadLen /\ ends \in Seq(Nat) /\ Len(ends) \in Nat
  BY <1>1, <1>3, EndsAreNat DEF TypeOK
<1> HIDE DEF e
<1>5. /\ ends' \in Seq(Nat) /\ Len(ends') = Len(ends) + 1
      /\ \A i \in 1..Len(ends) : ends'[i] = ends[i]
      /\ ends'[Len(ends) + 1] = e
  BY <1>2, <1>4, AppendProperties DEF e
<1>6. ASSUME NEW i \in 0..Len(ends) PROVE EndOf(i)' = EndOf(i)
  <2>1. i = 0 \/ i \in 1..Len(ends)
    BY <1>4
  <2>2. QED
    BY <1>5, <2>1 DEF EndOf
<1>7. StreamEnd' = ends'[Len(ends) + 1]
  BY <1>4, <1>5 DEF EndOf, StreamEnd
<1>8. QED
  BY <1>4, <1>5, <1>6, <1>7

\* RInv holds when the connection is made.
LEMMA InitInv == Init => RInv
<1> SUFFICES ASSUME Init PROVE RInv
  OBVIOUS
<1>1. closed \in BOOLEAN /\ failed \in BOOLEAN
  BY DEF Init
<1>2. Len(ends) = 0 /\ Len(got) = 0 /\ StreamEnd = 0 /\ ends \in Seq(Nat) /\ got \in Seq(Nat \X Nat)
  BY DEF Init, StreamEnd, EndOf
<1>3. TypeOK
  BY <1>1, <1>2 DEF Init, TypeOK
<1>4. EndsGrow /\ AtPacket /\ PacketsWhole
  BY <1>2 DEF Init, EndsGrow, AtPacket, PacketsWhole, EndOf
<1>5. QED
  BY <1>3, <1>4 DEF RInv

\* What the platform and the network do keeps it.
LEMMA NetStep ==
    ASSUME RInv, SrvSend \/ SrvClose \/ Arrive
    PROVE  RInv'
<1>1. TypeOK /\ EndsGrow /\ AtPacket /\ PacketsWhole
  BY DEF RInv
<1>2. HeadLen \in Nat \ {0}
  BY FramingAssumption
<1>3. CASE SrvSend
  <2>1. /\ ends' \in Seq(Nat) /\ Len(ends') = Len(ends) + 1
        /\ \A i \in 0..Len(ends) : EndOf(i)' = EndOf(i)
        /\ ends'[Len(ends) + 1] > StreamEnd + HeadLen
        /\ ends'[Len(ends) + 1] \in Nat
        /\ StreamEnd' = ends'[Len(ends) + 1]
    BY <1>3, SendEnds
  <2>2. /\ Len(ends) \in Nat /\ Len(got) \in Nat /\ \A i \in 0..Len(ends) : EndOf(i) \in Nat
        /\ StreamEnd \in Nat /\ StreamEnd = EndOf(Len(ends))
    BY <1>1, EndsAreNat
  <2>3. UNCHANGED <<arrived, closed, sock, pc, start, pos, total, want, rc, got, failed>>
    BY <1>3 DEF SrvSend, readVars
  <2>4. TypeOK'
    BY <1>1, <2>1, <2>2, <2>3, <1>2 DEF TypeOK
  <2>5. EndsGrow'
    <3>1. \A i \in 1..(Len(ends) + 1), j \in 0..Len(ends) : j < i => EndOf(i)' > EndOf(j)' + HeadLen
      <4>1. \A j \in 0..Len(ends) : StreamEnd >= EndOf(j)
        BY <1>1, <1>2, <2>2 DEF EndsGrow
      <4> TAKE i \in 1..(Len(ends) + 1), j \in 0..Len(ends)
      <4> HAVE j < i
      <4>2. CASE i \in 1..Len(ends)
        <5>1. j \in 0..(Len(ends) - 1) /\ EndOf(i)' = EndOf(i) /\ EndOf(j)' = EndOf(j)
          BY <2>1, <2>2, <4>2
        <5>2. QED
          BY <1>1, <4>2, <5>1 DEF EndsGrow
      <4>3. CASE i = Len(ends) + 1
        <5>1. EndOf(j)' = EndOf(j) /\ StreamEnd >= EndOf(j) /\ EndOf(j) \in Nat
          BY <2>1, <2>2, <4>1
        <5>2. EndOf(i)' > StreamEnd + HeadLen /\ EndOf(i)' \in Nat
          BY <2>1, <2>2, <4>3 DEF EndOf
        <5>3. QED
          BY <1>2, <2>2, <5>1, <5>2
      <4>4. QED
        BY <2>2, <4>2, <4>3
    <3>2. QED
      BY <2>1, <2>2, <3>1 DEF EndsGrow
  <2>6. AtPacket'
    BY <1>1, <2>1, <2>2, <2>3 DEF AtPacket
  <2>7. PacketsWhole'
    <3>1. \A i \in DOMAIN got : i \in 1..Len(got) /\ i <= Len(ends)
      BY <1>1, LenProperties DEF PacketsWhole, TypeOK
    <3>2. QED
      BY <1>1, <2>1, <2>2, <2>3, <3>1 DEF PacketsWhole
  <2>8. QED
    BY <2>4, <2>5, <2>6, <2>7 DEF RInv
<1>4. CASE SrvClose \/ Arrive
  <2>1. UNCHANGED <<ends, sock, pc, start, pos, total, want, rc, got, failed>>
    BY <1>4 DEF SrvClose, Arrive, readVars
  <2>2. closed' \in BOOLEAN
    BY <1>1, <1>4 DEF SrvClose, Arrive, TypeOK
  <2>3. arrived' >= arrived /\ arrived' \in 0..StreamEnd
    BY <1>1, <1>4, EndsAreNat DEF SrvClose, Arrive, TypeOK
  <2>4. TypeOK'
    BY <1>1, <2>1, <2>2, <2>3 DEF TypeOK, StreamEnd, EndOf
  <2>5. QED
    BY <1>1, <2>1, <2>4 DEF RInv, EndsGrow, AtPacket, PacketsWhole, EndOf
<1>5. QED
  BY <1>3, <1>4

\* The length found at the head of the packet behind the ones read is its own.
LEMMA LenIsOwn ==
    ASSUME RInv, pc = "head"
    PROVE  /\ PacketLens \subseteq Nat
           /\ ~failed => PacketLens = {EndOf(Len(got) + 1) - start - HeadLen}
<1>1. TypeOK /\ EndsGrow /\ AtPacket
  BY DEF RInv
<1>2. /\ Len(ends) \in Nat /\ Len(got) \in Nat /\ \A i \in 0..Len(ends) : EndOf(i) \in Nat
      /\ HeadLen \in Nat \ {0} /\ Garbage \subseteq Nat
  BY <1>1, EndsAreNat, FramingAssumption
<1> DEFINE here == {i \in 1..Len(ends) : EndOf(i - 1) = start}
<1>3. \A i \in here : EndOf(i) - start - HeadLen \in Nat
  BY <1>1, <1>2 DEF EndsGrow
<1>4. ASSUME ~failed PROVE here = {Len(got) + 1}
  <2>1. Len(got) < Len(ends) /\ start = EndOf(Len(got))
    BY <1>1, <1>4 DEF AtPacket
  <2>2. Len(got) + 1 \in here
    BY <1>2, <2>1
  <2>3. ASSUME NEW i \in here PROVE i = Len(got) + 1
    <3>1. i - 1 \in 0..(Len(ends) - 1) /\ EndOf(i - 1) = EndOf(Len(got))
      BY <1>2, <2>1
    <3>2. ~(i - 1 < Len(got)) /\ ~(Len(got) < i - 1)
      BY <1>1, <1>2, <2>1, <3>1 DEF EndsGrow
    <3>3. QED
      BY <1>2, <3>1, <3>2
  <2>4. QED
    BY <2>2, <2>3
<1>5. PacketLens = IF here # {} THEN {EndOf(i) - start - HeadLen : i \in here} ELSE Garbage
  BY DEF PacketLens
<1> HIDE DEF here
<1>6. PacketLens \subseteq Nat
  BY <1>2, <1>3, <1>5
<1>7. ASSUME ~failed PROVE PacketLens = {EndOf(Len(got) + 1) - start - HeadLen}
  BY <1>4, <1>5, <1>7
<1>8. QED
  BY <1>6, <1>7

\* A recv keeps it: the two ends of the loop, and a turn of it.
LEMMA RecvStep ==
    ASSUME RInv, Recv
    PROVE  /\ RInv'
           /\ \/ got' = got
              \/ ~failed /\ got' = Append(got, <<EndOf(Len(got)), EndOf(Len(got) + 1)>>)
<1>1. TypeOK /\ EndsGrow /\ AtPacket /\ PacketsWhole
  BY DEF RInv
<1>2. /\ Len(ends) \in Nat /\ Len(got) \in Nat /\ \A i \in 0..Len(ends) : EndOf(i) \in Nat
      /\ HeadLen \in Nat \ {0}
  BY <1>1, EndsAreNat, FramingAssumption
<1>3. PICK n \in 1..(arrived - pos) :
         /\ n <= want /\ pos' = pos + n
         /\ IF n < want THEN total' = total + n /\ want' = want - n /\ UNCHANGED <<pc, rc, got>>
                        ELSE LoopEnds
  BY DEF Recv
<1>4. /\ pc \in {"head", "body"} /\ want > 0
      /\ UNCHANGED <<ends, arrived, closed, sock, start, failed>>
  BY DEF Recv, netVars
<1>5. /\ arrived \in 0..StreamEnd /\ pos \in 0..arrived /\ start \in 0..pos /\ want \in Nat /\ total \in Nat
      /\ rc \in Int /\ got \in Seq(Nat \X Nat) /\ StreamEnd \in Nat
  BY <1>1, EndsAreNat DEF TypeOK
<1>6. n \in Nat \ {0} /\ pos' \in 0..arrived /\ start \in 0..pos' /\ pos' = pos + n
  BY <1>3, <1>5
<1>7. \A i : EndOf(i)' = EndOf(i)
  BY <1>4 DEF EndOf
<1>8. /\ StreamEnd' = StreamEnd /\ EndsGrow'
  BY <1>1, <1>4, <1>7 DEF StreamEnd, EndsGrow
<1>9. closed' \in BOOLEAN /\ failed' \in BOOLEAN /\ sock' \in {"up", "bad"} /\ ends' \in Seq(Nat)
  BY <1>1, <1>4 DEF TypeOK
<1>10. ASSUME pc' \in {"idle", "head", "body"}, total' \in Nat, want' \in Nat, rc' \in Int,
              got' \in Seq(Nat \X Nat)
       PROVE  TypeOK'
  BY <1>4, <1>5, <1>6, <1>8, <1>9, <1>10 DEF TypeOK
<1>11. ASSUME got' = got PROVE PacketsWhole'
  BY <1>1, <1>4, <1>7, <1>11 DEF PacketsWhole
<1>12. CASE n < want
  <2>1. total' = total + n /\ want' = want - n /\ UNCHANGED <<pc, rc, got>>
    BY <1>3, <1>12
  <2>2. TypeOK'
    BY <1>4, <1>5, <1>6, <1>10, <1>12, <2>1
  <2>3. AtPacket'
    BY <1>1, <1>2, <1>4, <1>5, <1>6, <1>7, <1>12, <2>1 DEF AtPacket
  <2>4. QED
    BY <1>8, <1>11, <2>1, <2>2, <2>3 DEF RInv
<1>13. CASE n = want /\ pc = "head"
  <2>1. PICK m \in PacketLens : want' = m
    BY <1>3, <1>13 DEF LoopEnds
  <2>2. pc' = "body" /\ total' = 0 /\ rc' = rc /\ got' = got
    BY <1>3, <1>13 DEF LoopEnds
  <2>3. m \in Nat
    BY <1>13, LenIsOwn
  <2>4. TypeOK'
    BY <1>5, <1>10, <2>1, <2>2, <2>3
  <2>5. ASSUME ~failed
        PROVE  /\ Len(got) < Len(ends) /\ start = EndOf(Len(got))
               /\ pos' + want' = EndOf(Len(got) + 1) /\ want' > 0 /\ pos' >= start + HeadLen
    <3>1. /\ Len(got) < Len(ends) /\ start = EndOf(Len(got))
          /\ pos + want = start + HeadLen
      BY <1>1, <1>13, <2>5 DEF AtPacket
    <3>2. want' = EndOf(Len(got) + 1) - start - HeadLen
      BY <1>13, <2>1, <2>5, LenIsOwn
    <3>3. EndOf(Len(got) + 1) > EndOf(Len(got)) + HeadLen
      BY <1>1, <1>2, <3>1 DEF EndsGrow
    <3>4. EndOf(Len(got) + 1) \in Nat
      BY <1>2, <3>1
    <3>5. QED
      BY <1>2, <1>3, <1>5, <1>13, <3>1, <3>2, <3>3, <3>4
  <2>6. AtPacket'
    BY <1>2, <1>4, <1>7, <2>2, <2>5 DEF AtPacket
  <2>7. QED
    BY <1>8, <1>11, <2>2, <2>4, <2>6 DEF RInv
<1>14. CASE n = want /\ pc = "body"
  <2>1. /\ pc' = "idle" /\ rc' = HeadLen + total + (pos' - pos) /\ total' = 0 /\ want' = 0
        /\ got' = IF failed THEN got ELSE Append(got, <<start, pos'>>)
    BY <1>3, <1>14 DEF LoopEnds
  <2>2. rc' \in Int
    BY <1>2, <1>5, <1>6, <2>1
  <2>3. <<start, pos'>> \in Nat \X Nat
    BY <1>5, <1>6
  <2>4. CASE failed
    <3>1. TypeOK'
      BY <1>5, <1>10, <2>1, <2>2, <2>4
    <3>2. AtPacket'
      BY <1>4, <2>4 DEF AtPacket
    <3>3. QED
      BY <1>8, <1>11, <2>1, <2>4, <3>1, <3>2 DEF RInv
  <2>5. CASE ~failed
    <3>1. /\ Len(got) < Len(ends) /\ start = EndOf(Len(got))
          /\ pos' = EndOf(Len(got) + 1)
      BY <1>1, <1>2, <1>3, <1>5, <1>14, <2>5 DEF AtPacket
    <3> DEFINE x == <<start, pos'>>
    <3>2. got' = Append(got, x) /\ x \in Nat \X Nat
      BY <2>1, <2>3, <2>5
    <3>3. x = <<EndOf(Len(got)), EndOf(Len(got) + 1)>>
      BY <3>1
    <3> HIDE DEF x
    <3>4. /\ got' \in Seq(Nat \X Nat) /\ Len(got') = Len(got) + 1
          /\ \A i \in 1..Len(got) : got'[i] = got[i]
          /\ got'[Len(got) + 1] = x
      BY <1>5, <3>2, AppendProperties
    <3>5. DOMAIN got' = 1..(Len(got) + 1) /\ DOMAIN got = 1..Len(got)
      BY <1>5, <3>4, LenProperties
    <3>6. TypeOK'
      BY <1>10, <2>1, <2>2, <3>4
    <3>7. AtPacket'
      BY <1>2, <1>4, <1>7, <2>1, <3>1, <3>4 DEF AtPacket
    <3>8. PacketsWhole'
      <4>1. \A i \in 1..(Len(got) + 1) : i <= Len(ends) /\ got'[i] = <<EndOf(i - 1), EndOf(i)>>
        <5>1. \A i \in 1..Len(got) : i <= Len(ends) /\ got'[i] = <<EndOf(i - 1), EndOf(i)>>
          BY <1>1, <3>4, <3>5 DEF PacketsWhole
        <5>2. Len(got) + 1 <= Len(ends)
              /\ got'[Len(got) + 1] = <<EndOf((Len(got) + 1) - 1), EndOf(Len(got) + 1)>>
          BY <1>2, <3>1, <3>3, <3>4
        <5>3. \A i \in 1..(Len(got) + 1) : i \in 1..Len(got) \/ i = Len(got) + 1
          BY <1>2
        <5>4. QED
          BY <5>1, <5>2, <5>3
      <4>2. QED
        BY <1>4, <1>7, <3>5, <4>1 DEF PacketsWhole
    <3>9. QED
      BY <1>8, <2>5, <3>2, <3>3, <3>6, <3>7, <3>8 DEF RInv
  <2>6. QED
    BY <2>4, <2>5
<1>15. QED
  BY <1>3, <1>4, <1>5, <1>12, <1>13, <1>14

\* So does the beginning of a read: there is a packet behind those that were read.
LEMMA ReadHeadStep ==
    ASSUME RInv, ReadHead
    PROVE  RInv'
<1>1. TypeOK /\ EndsGrow /\ AtPacket /\ PacketsWhole
  BY DEF RInv
<1>2. /\ Len(ends) \in Nat /\ Len(got) \in Nat /\ \A i \in 0..Len(ends) : EndOf(i) \in Nat
      /\ StreamEnd \in Nat /\ StreamEnd = EndOf(Len(ends)) /\ HeadLen \in Nat \ {0}
  BY <1>1, EndsAreNat, FramingAssumption
<1>3. /\ pc = "idle" /\ sock = "up" /\ arrived > pos
      /\ pc' = "head" /\ start' = pos /\ total' = 0 /\ want' = HeadLen
      /\ UNCHANGED <<ends, arrived, closed, sock, pos, rc, got, failed>>
  BY DEF ReadHead, netVars
<1>4. arrived \in 0..StreamEnd /\ pos \in 0..arrived
  BY <1>1 DEF TypeOK
<1>5. TypeOK'
  <2>1. StreamEnd' = StreamEnd
    BY <1>3 DEF StreamEnd, EndOf
  <2>2. closed' \in BOOLEAN /\ failed' \in BOOLEAN
    BY <1>1, <1>3 DEF TypeOK
  <2>3. QED
    BY <1>1, <1>2, <1>3, <1>4, <2>1, <2>2 DEF TypeOK
<1>6. ASSUME ~failed PROVE Len(got) < Len(ends) /\ pos = EndOf(Len(got))
  <2>1. Len(got) <= Len(ends) /\ pos = EndOf(Len(got))
    BY <1>1, <1>3, <1>6 DEF AtPacket
  <2>2. Len(got) # Len(ends)
    BY <1>2, <1>3, <1>4, <2>1
  <2>3. QED
    BY <1>2, <2>1, <2>2
<1>7. AtPacket'
  BY <1>2, <1>3, <1>4, <1>6 DEF AtPacket, EndOf
<1>8. EndsGrow' /\ PacketsWhole'
  BY <1>1, <1>3 DEF EndsGrow, PacketsWhole, EndOf
<1>9. QED
  BY <1>5, <1>7, <1>8 DEF RInv

\* And a recv that brings nothing: nothing is claimed of the reads behind it.
LEMMA FailStep ==
    ASSUME RInv, RecvZero \/ RecvTimeOut
    PROVE  RInv' /\ failed' /\ UNCHANGED <<ends, got>>
<1>1. TypeOK /\ EndsGrow /\ AtPacket /\ PacketsWhole
  BY DEF RInv
<1>2. /\ failed' = TRUE /\ pc' \in {"idle", "lost"} /\ rc' \in {-1, HeadLen - 1}
      /\ total' = 0 /\ want' = 0 /\ UNCHANGED <<ends, arrived, closed, start, pos, got>>
  BY DEF RecvZero, RecvTimeOut, RecvFails, netVars
<1>3. sock' \in {"up", "bad"}
  BY <1>1 DEF RecvZero, RecvTimeOut, TypeOK
<1>4. rc' \in Int
  BY <1>2, FramingAssumption
<1>5. TypeOK'
  <2>1. StreamEnd' = StreamEnd
    BY <1>2 DEF StreamEnd, EndOf
  <2>2. closed' \in BOOLEAN /\ failed' \in BOOLEAN
    BY <1>1, <1>2 DEF TypeOK
  <2>3. QED
    BY <1>1, <1>2, <1>3, <1>4, <2>1, <2>2 DEF TypeOK
<1>6. EndsGrow' /\ AtPacket' /\ PacketsWhole'
  BY <1>1, <1>2 DEF EndsGrow, AtPacket, PacketsWhole, EndOf
<1>7. QED
  BY <1>2, <1>5, <1>6 DEF RInv

\* RInv holds at every moment of a connection, for every framing and every way
\* the stream may be cut into pieces.
THEOREM ReadInvariant == Spec => []RInv
<1>1. ASSUME RInv, [Next]_vars PROVE RInv'
  <2>1. CASE SrvSend \/ SrvClose \/ Arrive
    BY <1>1, <2>1, NetStep
  <2>2. CASE ReadHead
    BY <1>1, <2>2, ReadHeadStep
  <2>3. CASE Recv
    BY <1>1, <2>3, RecvStep
  <2>4. CASE RecvZero \/ RecvTimeOut
    BY <1>1, <2>4, FailStep
  <2>5. CASE UNCHANGED vars
    <3>1. UNCHANGED <<ends, arrived, closed, sock, pc, start, pos, total, want, rc, got, failed>>
      BY <2>5 DEF vars, netVars, readVars
    <3>2. QED
      BY <1>1, <3>1 DEF RInv, TypeOK, EndsGrow, AtPacket, PacketsWhole, StreamEnd, EndOf
  <2>6. QED
    BY <1>1, <2>1, <2>2, <2>3, <2>4, <2>5 DEF Next, Reading
<1>2. QED
  BY <1>1, InitInv, PTL DEF Spec

\* What the parser is given is a packet of the platform's, whole, once, in order.
THEOREM ReadsPacketsWhole == Spec => []PacketsWhole
<1>1. RInv => PacketsWhole
  BY DEF RInv
<1>2. QED
  BY <1>1, ReadInvariant, PTL

-----------------------------------------------------------------------------
(* The framed reads implement the stream of packets *)

\* The unread packets: as many as were sent and not handed over, and which.
UnreadAre ==
    /\ Unread \in Seq(Nat \X Nat) /\ Len(ends) - Len(got) \in Nat
    /\ Len(Unread) = Len(ends) - Len(got)
    /\ \A i \in 1..(Len(ends) - Len(got)) :
          Unread[i] = <<EndOf(Len(got) + i - 1), EndOf(Len(got) + i)>>

\* Which packets are unread: those sent behind the ones handed over.
LEMMA UnreadElements == RInv => UnreadAre
<1> SUFFICES ASSUME RInv PROVE UnreadAre
  OBVIOUS
<1>1. Len(ends) \in Nat /\ Len(got) \in Nat /\ \A i \in 0..Len(ends) : EndOf(i) \in Nat
  BY EndsAreNat DEF RInv
<1>2. Len(ends) - Len(got) \in Nat
  <2>1. got \in Seq(Nat \X Nat) /\ \A i \in DOMAIN got : i <= Len(ends)
    BY DEF RInv, TypeOK, PacketsWhole
  <2>2. DOMAIN got = 1..Len(got)
    BY <2>1, LenProperties
  <2>3. QED
    BY <1>1, <2>1, <2>2
<1> DEFINE n == Len(ends) - Len(got)
           f(i) == <<EndOf(Len(got) + i - 1), EndOf(Len(got) + i)>>
<1>3. \A i \in 1..n : f(i) \in Nat \X Nat
  <2> TAKE i \in 1..n
  <2>1. Len(got) + i - 1 \in 0..Len(ends) /\ Len(got) + i \in 0..Len(ends)
    BY <1>1, <1>2
  <2>2. QED
    BY <1>1, <2>1
<1>4. Unread = [i \in 1..n |-> f(i)]
  BY DEF Unread
<1>5. n \in Nat
  BY <1>2
<1> HIDE DEF n, f
<1>6. Unread \in Seq(Nat \X Nat) /\ Len(Unread) = n /\ \A i \in 1..n : Unread[i] = f(i)
  BY <1>3, <1>4, <1>5
<1>7. QED
  BY <1>2, <1>6 DEF n, f, UnreadAre

\* A packet that is sent is put behind those that wait.
LEMMA SendPuts ==
    ASSUME RInv, RInv', UnreadAre, UnreadAre', SrvSend
    PROVE  Stream!Put
<1>1. /\ Len(ends') = Len(ends) + 1
      /\ \A i \in 0..Len(ends) : EndOf(i)' = EndOf(i)
  BY SendEnds
<1>2. UNCHANGED <<got, failed>>
  BY DEF SrvSend, readVars
<1>3. Len(ends) \in Nat /\ Len(got) \in Nat
  BY EndsAreNat DEF RInv
<1>4. /\ Unread' \in Seq(Nat \X Nat)
      /\ Len(Unread') = Len(ends') - Len(got)
      /\ \A i \in 1..(Len(ends') - Len(got)) :
            Unread'[i] = <<EndOf(Len(got) + i - 1)', EndOf(Len(got) + i)'>>
  BY <1>2 DEF UnreadAre
<1>5. /\ Len(Unread) = Len(ends) - Len(got) /\ Len(ends) - Len(got) \in Nat
      /\ \A i \in 1..(Len(ends) - Len(got)) :
            Unread[i] = <<EndOf(Len(got) + i - 1), EndOf(Len(got) + i)>>
  BY DEF UnreadAre
<1>6. Len(Unread') = Len(Unread) + 1
  BY <1>1, <1>3, <1>4, <1>5
<1>7. ASSUME NEW i \in 1..Len(Unread) PROVE Unread'[i] = Unread[i]
  <2>1. i \in 1..(Len(ends) - Len(got)) /\ i \in 1..(Len(ends') - Len(got))
    BY <1>1, <1>3, <1>5
  <2> DEFINE a == Len(got) + i - 1
             b == Len(got) + i
  <2>2. a \in 0..Len(ends) /\ b \in 0..Len(ends)
    BY <1>3, <1>5
  <2>3. Unread[i] = <<EndOf(a), EndOf(b)>>
    BY <1>5, <2>1
  <2>4. Unread'[i] = <<EndOf(a)', EndOf(b)'>>
    BY <1>2, <1>4, <2>1
  <2>5. EndOf(a)' = EndOf(a) /\ EndOf(b)' = EndOf(b)
    BY <1>1, <1>2, <2>2 DEF EndOf
  <2>6. QED
    BY <2>3, <2>4, <2>5
<1>8. QED
  BY <1>2, <1>4, <1>6, <1>7 DEF Stream!Put

\* A recv that completes a packet takes the first of them; any other, none.
LEMMA RecvTakes ==
    ASSUME RInv, RInv', UnreadAre, UnreadAre', Recv
    PROVE  Stream!Take \/ UNCHANGED Stream!vars
<1>1. UNCHANGED <<ends, failed>>
  BY DEF Recv, netVars
<1>2. /\ Len(ends) \in Nat /\ Len(got) \in Nat
      /\ ends \in Seq(Nat) /\ got \in Seq(Nat \X Nat) /\ got' \in Seq(Nat \X Nat)
      /\ \A i \in 0..Len(ends) : EndOf(i) \in Nat
  BY EndsAreNat DEF RInv, TypeOK
<1>3. CASE got' = got
  BY <1>1, <1>3 DEF Stream!vars, Unread, EndOf
<1>4. CASE ~failed /\ got' = Append(got, <<EndOf(Len(got)), EndOf(Len(got) + 1)>>)
  <2> DEFINE x == <<EndOf(Len(got)), EndOf(Len(got) + 1)>>
             n == Len(ends) - Len(got)
  <2>1. /\ Unread \in Seq(Nat \X Nat) /\ n \in Nat /\ Len(Unread) = n
        /\ \A i \in 1..n : Unread[i] = <<EndOf(Len(got) + i - 1), EndOf(Len(got) + i)>>
    BY DEF UnreadAre
  <2>2. Len(got') = Len(got) + 1
    <3>1. Len(Append(got, x)) = Len(got) + 1
      BY <1>2
    <3>2. QED
      BY <1>4, <3>1
  <2>3. /\ Unread' \in Seq(Nat \X Nat) /\ n - 1 \in Nat /\ Len(Unread') = n - 1
        /\ \A i \in 1..(n - 1) : Unread'[i] = <<EndOf(Len(got) + i), EndOf(Len(got) + i + 1)>>
    <3>1. /\ Unread' \in Seq(Nat \X Nat) /\ Len(ends) - Len(got') \in Nat
          /\ Len(Unread') = Len(ends) - Len(got')
          /\ \A i \in 1..(Len(ends) - Len(got')) :
                Unread'[i] = <<EndOf(Len(got') + i - 1), EndOf(Len(got') + i)>>
      BY <1>1 DEF UnreadAre, EndOf
    <3>2. Len(ends) - Len(got') = n - 1
      BY <1>2, <2>2
    <3>3. ASSUME NEW i \in 1..(n - 1)
          PROVE  Unread'[i] = <<EndOf(Len(got) + i), EndOf(Len(got) + i + 1)>>
      <4>1. Unread'[i] = <<EndOf(Len(got') + i - 1), EndOf(Len(got') + i)>>
        BY <3>1, <3>2
      <4>2. Len(got') + i - 1 = Len(got) + i /\ Len(got') + i = Len(got) + i + 1
        BY <1>2, <2>1, <2>2
      <4>3. QED
        BY <4>1, <4>2
    <3>4. QED
      BY <3>1, <3>2, <3>3
  <2>4. Unread # <<>> /\ Head(Unread) = Unread[1] /\ 1 \in 1..n
    BY <2>1, <2>3
  <2>5. Head(Unread) = x
    <3>1. Unread[1] = <<EndOf(Len(got) + 1 - 1), EndOf(Len(got) + 1)>>
      BY <2>1, <2>4
    <3>2. Len(got) + 1 - 1 = Len(got)
      BY <1>2
    <3>3. QED
      BY <2>4, <3>1, <3>2
  <2>6. Unread' = Tail(Unread)
    <3>1. /\ Tail(Unread) \in Seq(Nat \X Nat) /\ Len(Tail(Unread)) = n - 1
          /\ \A i \in 1..(n - 1) : Tail(Unread)[i] = Unread[i + 1]
      BY <2>1, <2>4, HeadTailProperties
    <3>2. ASSUME NEW i \in 1..(n - 1) PROVE Unread'[i] = Tail(Unread)[i]
      <4>1. Unread[i + 1] = <<EndOf(Len(got) + (i + 1) - 1), EndOf(Len(got) + (i + 1))>>
        BY <2>1
      <4>2. Len(got) + (i + 1) - 1 = Len(got) + i /\ Len(got) + (i + 1) = Len(got) + i + 1
        BY <1>2, <2>1
      <4>3. QED
        BY <2>3, <3>1, <4>1, <4>2
    <3>3. QED
      BY <2>3, <3>1, <3>2, SeqEqual
  <2>7. QED
    BY <1>1, <1>4, <2>4, <2>5, <2>6 DEF Stream!Take
<1>5. QED
  BY <1>3, <1>4, RecvStep

\* The framed reads of a TCP connection implement the stream of packets: each
\* packet comes out whole, once and in order, and none behind a failed recv.
THEOREM ReadsImplementStream == Spec => StreamSpec
<1>1. Init => Stream!Init
  <2> SUFFICES ASSUME Init PROVE Stream!Init
    OBVIOUS
  <2>1. Len(Unread) = 0 /\ Unread \in Seq(Nat \X Nat)
    BY InitInv, UnreadElements DEF UnreadAre, Init
  <2>2. Unread = <<>>
    BY <2>1, EmptySeq
  <2>3. QED
    BY <2>2 DEF Stream!Init, Init
<1>2. RInv' => UnreadAre'
  BY UnreadElements, PTL
<1>3. ASSUME RInv, RInv', [Next]_vars PROVE [Stream!Next]_(Stream!vars)
  <2>1. UnreadAre /\ UnreadAre'
    BY <1>2, <1>3, UnreadElements
  <2>2. CASE SrvSend
    BY <1>3, <2>1, <2>2, SendPuts DEF Stream!Next
  <2>3. CASE Recv
    BY <1>3, <2>1, <2>3, RecvTakes DEF Stream!Next
  <2>4. CASE RecvZero \/ RecvTimeOut
    <3>1. failed' = TRUE /\ UNCHANGED <<ends, got>>
      BY <2>4 DEF RecvZero, RecvTimeOut, RecvFails, netVars
    <3>2. Unread' = Unread
      BY <3>1 DEF Unread, EndOf
    <3>3. QED
      BY <3>1, <3>2 DEF Stream!Next, Stream!Break
  <2>5. CASE SrvClose \/ Arrive \/ ReadHead \/ UNCHANGED vars
    <3>1. UNCHANGED <<ends, got, failed>>
      BY <2>5 DEF SrvClose, Arrive, ReadHead, vars, netVars, readVars
    <3>2. Unread' = Unread
      BY <3>1 DEF Unread, EndOf
    <3>3. QED
      BY <3>1, <3>2 DEF Stream!vars
  <2>6. QED
    BY <1>3, <2>2, <2>3, <2>4, <2>5 DEF Next, Reading
<1>4. QED
  BY <1>1, <1>3, ReadInvariant, PTL DEF Spec, StreamSpec, Stream!Spec

-----------------------------------------------------------------------------
(* The send loop: its inductive invariant *)

\* Each byte of the stream is one of a packet that has been sent.
BytesOfCalls ==
    \A i \in 1..Len(stream) : stream[i][1] \in 1..calls /\ stream[i][2] \in 0..(Length - 1)

\* While no send has failed in this call, what it has sent is the end of the stream.
Begun == Len(stream) - bytes_sent
SentSoFar ==
    sending = "loop" /\ calls \notin failedIn =>
        /\ bytes_sent <= Len(stream)
        /\ \A i \in 1..Begun : stream[i][1] # calls
        /\ \A k \in 1..bytes_sent : stream[Begun + k] = <<calls, k - 1>>

\* Also when sends failed: the bytes below bytes_sent have been taken at least once, and
\* the last byte not at all.
BelowIsSent ==
    sending = "loop" => \A k \in 0..(bytes_sent - 1) : Contains(stream, <<calls, k>>)
LastIsMissing ==
    sending = "loop" => calls >= 1 /\ ~Contains(stream, <<calls, Length - 1>>)

Reached(c) == \A k \in 0..(Length - 1) : Contains(stream, <<c, k>>)
ReachedCalls == {c \in 1..calls : Reached(c)}
Counted == packet_count_out = Cardinality(ReachedCalls)

SendInv ==
    /\ SInv /\ BytesOfCalls /\ SentSoFar /\ BelowIsSent /\ LastIsMissing /\ Counted

-----------------------------------------------------------------------------
(* The mailbox: its inductive invariant *)

\* The mailbox holds the newest message, or the one before it while the callback writes
\* that; and what the callback does while the client takes a message is a collision.
Filling ==
    /\ arriving = 0 => data = Len(answers)
    /\ arriving # 0 => Mqtt /\ data = Len(answers) - 1
    /\ length \in {0, data}
    /\ length # 0 /\ arriving # 0 => arriving \in collided
    /\ at \in {"copy", "clear"} => length # 0
    /\ at = "copy" => /\ oldest \in 1..data
                      /\ \A m \in (oldest + 1)..Len(answers) : m \in collided
    /\ at = "idle" => awaited = 0
    /\ taken \in Seq([head : Int, rest : Int]) /\ since \in 0..Len(answers)

\* The message that the next copy may begin with, or else the one the callback writes, or
\* else the one to come.
Upcoming ==
    IF at = "copy" THEN oldest
    ELSE IF length # 0 /\ at # "clear" THEN data
    ELSE IF arriving # 0 THEN arriving ELSE Len(answers) + 1

\* What was taken is older; or is this message, but once only and after a collision.
TakenBelow ==
    /\ \A i \in 1..Len(taken) :
          /\ taken[i].head = Torn \/ taken[i].head >= 1
          /\ taken[i].head <= Upcoming
          /\ taken[i].head = Upcoming => Upcoming \in collided
    /\ \A i, j \in 1..Len(taken) :
          taken[i].head = Upcoming /\ taken[j].head = Upcoming => i = j

\* When the client empties the mailbox, it throws away only what collided.
ClearLeaves ==
    at = "clear" =>
        \A m \in (since + 1)..Len(answers) : m \in Heads \cup {arriving} \/ Collision(m)

\* Where the answer to a waiting call can be: on its way, in the mailbox, or in hand.
AnswerKept ==
    awaited # 0 =>
        \A m \in 1..Len(answers) :
            answers[m] = awaited =>
                \/ m = arriving \/ Collision(m)
                \/ at # "clear" /\ m = length
                \/ at \in {"clear", "handle"} /\ recv_buff.head = m

MailInv == MInv /\ Filling /\ TakenBelow /\ ClearLeaves /\ AnswerKept

-----------------------------------------------------------------------------
(* The mailbox: each step keeps it *)

\* Before the channels are connected.
LEMMA MailInit == MInit => MailInv
<1> SUFFICES ASSUME MInit PROVE MailInv
  OBVIOUS
<1>1. /\ netChannelType \in ChannelTypes /\ data = 0 /\ length = 0 /\ arriving = 0
      /\ at = "idle" /\ oldest = 0 /\ recv_buff = [head |-> 0, rest |-> 0]
      /\ awaited = 0 /\ requests = 0 /\ since = 0
  BY DEF MInit
<1>2. /\ Len(answers) = 0 /\ Len(taken) = 0
      /\ answers \in Seq(0..requests) /\ taken \in Seq([head : Int, rest : Int])
  BY EmptySeq DEF MInit
<1>3. MTypeOK
  BY <1>1, <1>2, MailboxAssumption DEF MTypeOK, Torn
<1>4. TakenInOrder
  BY <1>2 DEF TakenInOrder
<1>5. LostByCollision
  BY <1>1, <1>2 DEF LostByCollision
<1>6. Filling
  BY <1>1, <1>2 DEF Filling
<1>7. TakenBelow
  BY <1>2 DEF TakenBelow
<1>8. ClearLeaves /\ AnswerKept
  BY <1>1 DEF ClearLeaves, AnswerKept
<1>9. QED
  BY <1>3, <1>4, <1>5, <1>6, <1>7, <1>8 DEF MailInv, MInv

\* The numbers of the mailbox are numbers.
LEMMA MailNumbers ==
    ASSUME MailInv
    PROVE  /\ Len(answers) \in Nat /\ Len(taken) \in Nat
           /\ data \in Nat /\ length \in Nat /\ arriving \in Nat /\ since \in Nat
           /\ data <= Len(answers) /\ length <= data /\ arriving <= Len(answers)
           /\ Upcoming \in Nat
           /\ \A i \in 1..Len(taken) : taken[i] \in [head : Int, rest : Int] /\ taken[i].head \in Int
<1>1. Len(answers) \in Nat /\ taken \in Seq([head : Int, rest : Int]) /\ Len(taken) \in Nat
  BY LenProperties DEF MailInv, MInv, MTypeOK, Filling
<1>2. \A i \in 1..Len(taken) : taken[i] \in [head : Int, rest : Int]
  BY <1>1, ElementOfSeq
<1>3. /\ data \in 0..Len(answers) /\ length \in 0..Len(answers) /\ oldest \in 0..Len(answers)
      /\ arriving \in {0, Len(answers)} /\ since \in 0..Len(answers) /\ length \in {0, data}
  BY DEF MailInv, MInv, MTypeOK, Filling
<1>4. Upcoming \in Nat
  BY <1>1, <1>3 DEF Upcoming
<1>5. QED
  BY <1>1, <1>2, <1>3, <1>4

\* One more message is behind the others, and they stay what they are.
LEMMA OneMore ==
    ASSUME MTypeOK, NEW r \in 0..requests', answers' = Append(answers, r),
           requests' \in 0..MaxRequests, requests <= requests', Len(answers) < MaxMessages
    PROVE  /\ Len(answers) \in Nat /\ Len(answers') = Len(answers) + 1
           /\ answers' \in Seq(0..requests') /\ Len(answers') <= MaxMessages
           /\ answers'[Len(answers')] = r
           /\ \A i \in 1..Len(answers) : answers'[i] = answers[i] /\ answers[i] \in 0..requests
<1>1. answers \in Seq(0..requests) /\ requests \in Nat /\ requests' \in Nat
  BY MailboxAssumption DEF MTypeOK
<1>2. Len(answers) \in Nat /\ \A i \in 1..Len(answers) : answers[i] \in 0..requests
  BY <1>1, LenProperties, ElementOfSeq
<1>3. answers \in Seq(0..requests')
  <2>1. 0..requests \subseteq 0..requests'
    BY <1>1
  <2>2. QED
    BY <1>1, <2>1, SeqMonotonic
<1>4. /\ answers' \in Seq(0..requests') /\ Len(answers') = Len(answers) + 1
      /\ answers'[Len(answers) + 1] = r
      /\ \A i \in 1..Len(answers) : answers'[i] = answers[i]
  BY <1>3, AppendProperties
<1>5. QED
  BY <1>2, <1>4, MailboxAssumption

\* As long as nothing is taken, what was taken stays below what comes next.
LEMMA BelowKept ==
    ASSUME MailInv, UNCHANGED taken, collided \subseteq collided', Upcoming' \in Nat,
           Upcoming' = Upcoming \/ Upcoming < Upcoming'
    PROVE  TakenBelow'
<1>1. PICK u \in Nat : u = Upcoming
  BY MailNumbers
<1>2. PICK v \in Nat : v = Upcoming'
  OBVIOUS
<1>3. \A i \in 1..Len(taken) : taken[i].head \in Int
  BY MailNumbers
<1>4. /\ \A i \in 1..Len(taken) :
            /\ taken[i].head = Torn \/ taken[i].head >= 1
            /\ taken[i].head <= u
            /\ taken[i].head = u => u \in collided
      /\ \A i, j \in 1..Len(taken) : taken[i].head = u /\ taken[j].head = u => i = j
  BY <1>1 DEF MailInv, TakenBelow
<1>5. /\ \A i \in 1..Len(taken) :
            /\ taken[i].head = Torn \/ taken[i].head >= 1
            /\ taken[i].head <= v
            /\ taken[i].head = v => v \in collided'
      /\ \A i, j \in 1..Len(taken) : taken[i].head = v /\ taken[j].head = v => i = j
  BY <1>1, <1>2, <1>3, <1>4
<1>6. QED
  BY <1>2, <1>5 DEF TakenBelow

\* ... and is in order as before.
LEMMA OrderKept ==
    ASSUME MailInv, UNCHANGED taken, collided \subseteq collided', parts \subseteq parts'
    PROVE  TakenInOrder'
BY DEF MailInv, MInv, TakenInOrder, Collision

\* A channel connects.
LEMMA MConnectStep ==
    ASSUME MailInv, MConnect
    PROVE  MailInv'
<1>a. /\ MTypeOK /\ TakenInOrder /\ LostByCollision
      /\ Filling /\ TakenBelow /\ ClearLeaves /\ AnswerKept
  BY DEF MailInv, MInv
<1> USE DEF MConnect
<1>0. Len(answers) \in Nat /\ Len(answers') = Len(answers)
  BY <1>a, LenProperties DEF MTypeOK
<1>1. MTypeOK'
  BY <1>a, <1>0 DEF MTypeOK, ChannelTypes
<1>2. Filling'
  BY <1>a, <1>0 DEF Filling, MTypeOK, Mqtt
<1>3. TakenInOrder'
  BY OrderKept
<1>4. LostByCollision' /\ ClearLeaves' /\ AnswerKept'
  BY <1>a, <1>0 DEF LostByCollision, ClearLeaves, AnswerKept, Filling
<1>5. TakenBelow'
  <2>1. Upcoming' \in Nat /\ (Upcoming' = Upcoming \/ Upcoming < Upcoming')
    BY <1>a, <1>0, MailNumbers DEF Upcoming, Filling, MTypeOK
  <2>2. QED
    BY <2>1, BelowKept
<1>6. QED
  BY <1>1, <1>2, <1>3, <1>4, <1>5 DEF MailInv, MInv

\* The callback begins to write a message.
LEMMA BytesArriveStep ==
    ASSUME MailInv, BytesArrive
    PROVE  MailInv'
<1>a. /\ MTypeOK /\ TakenInOrder /\ LostByCollision
      /\ Filling /\ TakenBelow /\ ClearLeaves /\ AnswerKept
  BY DEF MailInv, MInv
<1>1. PICK r \in 0..requests : answers' = Append(answers, r)
  BY DEF BytesArrive
<1>2. /\ requests' = requests /\ requests \in 0..MaxRequests /\ Mqtt /\ arriving = 0
      /\ Len(answers) < MaxMessages
      /\ UNCHANGED <<netChannelType, data, length, at, oldest, recv_buff, awaited, requests,
                     parts, connects, since, taken>>
      /\ arriving' = Len(answers')
      /\ (length # 0 => collided' = collided \cup {Len(answers')})
      /\ (length = 0 => collided' = collided)
  BY <1>a DEF MTypeOK, BytesArrive, Came
<1>3. PICK n \in Nat :
        /\ Len(answers) = n /\ Len(answers') = n + 1
        /\ answers' \in Seq(0..requests') /\ Len(answers') <= MaxMessages
        /\ \A i \in 1..Len(answers) : answers'[i] = answers[i]
  BY <1>a, <1>1, <1>2, OneMore, MailboxAssumption
<1>4. collided \subseteq collided' /\ data = n /\ length \in {0, n}
  BY <1>a, <1>2, <1>3 DEF Filling
<1>5. MTypeOK'
  BY <1>a, <1>2, <1>3 DEF MTypeOK, ChannelTypes, Torn
<1>6. Filling'
  BY <1>a, <1>2, <1>3, <1>4 DEF Filling, Mqtt
<1>7. TakenInOrder'
  BY <1>2, <1>4, OrderKept
<1>8. Heads' = Heads /\ \A m : Collision(m) => Collision(m)'
  BY <1>2, <1>4 DEF Heads, Collision
<1>9. LostByCollision' /\ ClearLeaves'
  <2>1. ASSUME NEW m \in (since + 1)..(n + 1), m # n + 1
        PROVE  m \in (since + 1)..n /\ m # 0
    BY <1>2, <1>3, <2>1, MailNumbers
  <2>2. QED
    BY <1>a, <1>2, <1>3, <1>8, <2>1 DEF LostByCollision, ClearLeaves
<1>10. AnswerKept'
  <2>1. ASSUME NEW m \in 1..(n + 1), m # n + 1
        PROVE  m \in 1..n /\ m # 0
    BY <2>1
  <2>2. QED
    BY <1>a, <1>2, <1>3, <1>8, <2>1 DEF AnswerKept
<1>11. TakenBelow'
  <2>1. Upcoming' \in Nat /\ (Upcoming' = Upcoming \/ Upcoming < Upcoming')
    BY <1>2, <1>3, <1>4, MailNumbers DEF Upcoming
  <2>2. QED
    BY <1>2, <1>4, <2>1, BelowKept
<1>12. QED
  BY <1>5, <1>6, <1>7, <1>9, <1>10, <1>11 DEF MailInv, MInv

\* The message is there, and so is its length.
LEMMA LengthArrivesStep ==
    ASSUME MailInv, LengthArrives
    PROVE  MailInv'
<1>a. /\ MTypeOK /\ TakenInOrder /\ LostByCollision
      /\ Filling /\ TakenBelow /\ ClearLeaves /\ AnswerKept
  BY DEF MailInv, MInv
<1>1. /\ arriving # 0 /\ data' = arriving /\ length' = arriving /\ arriving' = 0
      /\ UNCHANGED <<netChannelType, at, oldest, recv_buff, awaited, requests, answers,
                     parts, connects, since, taken, collided>>
  BY DEF LengthArrives
<1>2. PICK n \in Nat :
        /\ n >= 1 /\ Len(answers) = n /\ Len(answers') = n /\ arriving = n /\ data = n - 1
        /\ length \in {0, n - 1} /\ (length # 0 => n \in collided)
        /\ (at \in {"copy", "clear"} => length # 0)
  BY <1>a, <1>1, MailNumbers DEF Filling, MTypeOK
<1>3. MTypeOK'
  BY <1>a, <1>1, <1>2 DEF MTypeOK, ChannelTypes
<1>4. Filling'
  BY <1>a, <1>1, <1>2 DEF Filling
<1>5. TakenInOrder'
  BY <1>1, OrderKept
<1>6. Heads' = Heads /\ \A m : Collision(m) => Collision(m)'
  BY <1>1 DEF Heads, Collision
<1>7. \A m \in Nat : m \in {length, arriving} /\ m # 0 /\ m # n => Collision(m)
  BY <1>2 DEF Collision
<1>8. LostByCollision' /\ ClearLeaves'
  <2>1. \A m \in (since + 1)..n : m \in Nat /\ m # 0
    BY MailNumbers
  <2>2. LostByCollision'
    BY <1>a, <1>1, <1>2, <1>6, <1>7, <2>1 DEF LostByCollision
  <2>3. ClearLeaves'
    BY <1>a, <1>1, <1>2, <1>6, <2>1 DEF ClearLeaves, Collision
  <2>4. QED
    BY <2>2, <2>3
<1>9. AnswerKept'
  <2>1. \A m \in 1..n : m \in Nat /\ m # 0
    OBVIOUS
  <2>2. at = "clear" => Collision(n)
    BY <1>2 DEF Collision
  <2>3. QED
    BY <1>a, <1>1, <1>2, <1>6, <1>7, <2>1, <2>2 DEF AnswerKept
<1>10. TakenBelow'
  <2>1. Upcoming' \in Nat /\ (Upcoming' = Upcoming \/ Upcoming < Upcoming')
    BY <1>1, <1>2, MailNumbers DEF Upcoming
  <2>2. QED
    BY <1>1, <2>1, BelowKept
<1>11. QED
  BY <1>3, <1>4, <1>5, <1>8, <1>9, <1>10 DEF MailInv, MInv

\* A send, and what it has made of the mailbox when it returns.
LEMMA MSendStep ==
    ASSUME MailInv, MSend
    PROVE  MailInv'
<1>a. /\ MTypeOK /\ TakenInOrder /\ LostByCollision
      /\ Filling /\ TakenBelow /\ ClearLeaves /\ AnswerKept
  BY DEF MailInv, MInv
<1>1. /\ at = "idle" /\ requests' = requests + 1 /\ requests' \in 0..MaxRequests /\ requests \in Nat
      /\ awaited = 0 /\ awaited' \in {0, requests'} /\ at' \in {"idle", "wait"}
      /\ (at' = "idle" => awaited' = 0)
      /\ UNCHANGED <<netChannelType, arriving, oldest, recv_buff, connects, since, taken>>
      /\ Posted
  BY <1>a, MailboxAssumption DEF MSend, MTypeOK, Filling
<1>2. Len(answers) \in Nat /\ answers \in Seq(0..requests)
      /\ \A i \in 1..Len(answers) : answers[i] \in 0..requests
  BY <1>a, MailNumbers, ElementOfSeq DEF MTypeOK
<1>3. CASE Unposted
  <2>0. UNCHANGED <<data, length, answers, parts, collided>> /\ Len(answers') = Len(answers)
    BY <1>3 DEF Unposted
  <2>1. answers \in Seq(0..requests')
    <3>1. 0..requests \subseteq 0..requests'
      BY <1>1
    <3>2. QED
      BY <1>2, <3>1, SeqMonotonic
  <2>2. MTypeOK'
    BY <1>a, <1>1, <2>0, <2>1 DEF MTypeOK, ChannelTypes
  <2>3. Filling'
    BY <1>a, <1>1, <2>0 DEF Filling, Mqtt
  <2>4. TakenInOrder'
    BY <1>1, <2>0, OrderKept
  <2>5. Heads' = Heads /\ \A m : Collision(m) => Collision(m)'
    BY <1>1, <2>0 DEF Heads, Collision
  <2>6. LostByCollision' /\ ClearLeaves'
    BY <1>a, <1>1, <2>0, <2>5 DEF LostByCollision, ClearLeaves
  <2>7. AnswerKept'
    <3>1. awaited' # 0 => awaited' = requests + 1
      BY <1>1
    <3>2. \A m \in 1..Len(answers) : answers'[m] # requests + 1
      BY <1>1, <1>2, <2>0
    <3>3. QED
      BY <1>a, <2>0, <3>1, <3>2 DEF AnswerKept
  <2>8. TakenBelow'
    <3>1. Upcoming' = Upcoming
      BY <1>1, <2>0 DEF Upcoming
    <3>2. QED
      BY <1>1, <2>0, <3>1, MailNumbers, BelowKept
  <2>9. QED
    BY <2>2, <2>3, <2>4, <2>6, <2>7, <2>8 DEF MailInv, MInv
<1>4. CASE /\ Http /\ Len(answers) < MaxMessages
           /\ answers' = Append(answers, requests')
           /\ data' = Len(answers') /\ length' = Len(answers')
           /\ parts' \in {parts, parts \cup {data'}}
           /\ Came
  <2>0. requests' \in 0..requests' /\ requests <= requests'
    BY <1>1
  <2>1. PICK n \in Nat :
          /\ Len(answers) = n /\ Len(answers') = n + 1
          /\ answers' \in Seq(0..requests') /\ Len(answers') <= MaxMessages
          /\ \A i \in 1..n : answers'[i] = answers[i] /\ answers[i] \in 0..requests
    BY <1>a, <1>1, <1>4, <2>0, OneMore, MailboxAssumption
  <2>2. ~Mqtt /\ arriving = 0 /\ arriving' = 0 /\ data = n /\ length \in {0, n}
    BY <1>a, <1>1, <1>4, <2>1 DEF Filling, Mqtt, Http
  <2>3. /\ (length # 0 => collided' = collided \cup {n + 1})
        /\ (length = 0 => collided' = collided)
    BY <1>4, <2>1 DEF Came
  <2>4. collided \subseteq collided' /\ parts \subseteq parts'
    BY <1>4, <2>3
  <2>5. MTypeOK'
    BY <1>a, <1>1, <1>4, <2>1, <2>2 DEF MTypeOK, ChannelTypes, Torn
  <2>6. Filling'
    BY <1>a, <1>1, <1>4, <2>1, <2>2 DEF Filling
  <2>7. TakenInOrder'
    BY <1>1, <2>4, OrderKept
  <2>8. Heads' = Heads /\ \A m : Collision(m) => Collision(m)'
    BY <1>1, <2>4 DEF Heads, Collision
  <2>9. LostByCollision' /\ ClearLeaves'
    <3>1. ASSUME NEW m \in (since + 1)..(n + 1), m # n + 1
          PROVE  m \in (since + 1)..n /\ m # 0
      BY <2>1, <3>1, MailNumbers
    <3>2. length # 0 => Collision(n)'
      BY <2>3 DEF Collision
    <3>3. LostByCollision'
      BY <1>a, <1>1, <1>4, <2>1, <2>2, <2>8, <3>1, <3>2 DEF LostByCollision
    <3>4. QED
      BY <1>a, <1>1, <3>3 DEF ClearLeaves
  <2>10. AnswerKept'
    <3>1. awaited' # 0 => awaited' = requests + 1 /\ at' = "wait"
      BY <1>1
    <3>2. \A m \in 1..n : answers'[m] # requests + 1
      BY <1>1, <2>1
    <3>3. \A m \in 1..(n + 1) : m \in 1..n \/ m = n + 1
      OBVIOUS
    <3>4. QED
      BY <1>a, <1>4, <2>1, <3>1, <3>2, <3>3 DEF AnswerKept
  <2>11. TakenBelow'
    <3>1. Upcoming' \in Nat /\ (Upcoming' = Upcoming \/ Upcoming < Upcoming')
      BY <1>1, <1>4, <2>1, <2>2 DEF Upcoming
    <3>2. QED
      BY <1>1, <2>4, <3>1, BelowKept
  <2>12. QED
    BY <2>5, <2>6, <2>7, <2>9, <2>10, <2>11 DEF MailInv, MInv
<1>5. QED
  BY <1>1, <1>3, <1>4 DEF Posted

\* The client's steps that leave the mailbox and what was taken.
LEMMA ClientStep ==
    ASSUME MailInv, MPoll \/ MTimeOut \/ Available \/ MHandle
    PROVE  MailInv'
<1>a. /\ MTypeOK /\ TakenInOrder /\ LostByCollision
      /\ Filling /\ TakenBelow /\ ClearLeaves /\ AnswerKept
  BY DEF MailInv, MInv
<1>1. /\ UNCHANGED <<netChannelType, data, length, arriving, recv_buff, requests, answers,
                     parts, connects, since, taken, collided>>
      /\ awaited' \in {0, awaited} /\ at' \in {"idle", "wait", "copy"}
      /\ at \in {"idle", "wait", "handle"}
      /\ (at' = "idle" => awaited' = 0)
      /\ (at' = "copy" => length # 0 /\ oldest' = data /\ at = "wait")
      /\ (at' # "copy" => oldest' = oldest)
  BY DEF MPoll, MTimeOut, Available, MHandle
<1>2. Len(answers) \in Nat /\ Len(answers') = Len(answers)
  BY <1>1, MailNumbers
<1>3. MTypeOK'
  BY <1>a, <1>1, <1>2 DEF MTypeOK, ChannelTypes
<1>4. Filling'
  <2>1. at' = "copy" => /\ oldest' \in 1..data'
                        /\ \A m \in (oldest' + 1)..Len(answers') : m \in collided'
    BY <1>a, <1>1, <1>2, MailNumbers DEF Filling, MTypeOK
  <2>2. QED
    BY <1>a, <1>1, <1>2, <2>1 DEF Filling, Mqtt
<1>5. TakenInOrder'
  BY <1>1, OrderKept
<1>6. Heads' = Heads /\ \A m : Collision(m) => Collision(m)'
  BY <1>1 DEF Heads, Collision
<1>7. LostByCollision' /\ ClearLeaves'
  BY <1>a, <1>1, <1>6 DEF LostByCollision, ClearLeaves
<1>8. AnswerKept'
  <2>1. at = "handle" /\ awaited' # 0 => ~HasId(awaited)
    BY <1>a, <1>1 DEF MPoll, MTimeOut, Available, MHandle, IsOther, Filling
  <2>2. awaited' # 0 => awaited' = awaited
    BY <1>1
  <2>3. \A m \in 1..Len(answers) :
            at = "handle" /\ awaited' # 0 /\ answers[m] = awaited => recv_buff.head # m
    BY <2>1, <1>2 DEF HasId, Torn
  <2>4. QED
    BY <1>a, <1>1, <1>6, <2>2, <2>3 DEF AnswerKept
<1>9. TakenBelow'
  <2>1. Upcoming' = Upcoming
    BY <1>1, <1>2 DEF Upcoming
  <2>2. QED
    BY <1>1, <2>1, MailNumbers, BelowKept
<1>10. QED
  BY <1>3, <1>4, <1>5, <1>7, <1>8, <1>9 DEF MailInv, MInv

\* What a copy has for a head and for a rest.
LEMMA CopyIsOf ==
    ASSUME MailInv, at = "copy", NEW c \in Copies
    PROVE  /\ c \in [head : Int, rest : Int] /\ c.rest \in {c.head, Torn}
           /\ c.head \in oldest..Len(answers) \/ (c.head = Torn /\ oldest # Len(answers))
           /\ oldest = Len(answers) => c.head = oldest
           /\ c.rest = Torn /\ c.head # Torn => c.head \in parts \/ oldest # Len(answers)
<1>1. oldest \in Nat /\ oldest >= 1 /\ oldest <= Len(answers) /\ Len(answers) \in Nat /\ Torn \in Int
  BY MailNumbers DEF MailInv, Filling, MTypeOK, Torn
<1>2. ASSUME NEW m \in oldest..Len(answers), c = MsgOf(m)
      PROVE  /\ c \in [head : Int, rest : Int] /\ c.rest \in {c.head, Torn} /\ c.head = m
             /\ c.rest = Torn /\ c.head # Torn => c.head \in parts
  BY <1>1, <1>2 DEF MsgOf
<1>3. ASSUME NEW h \in (oldest..Len(answers)) \cup {Torn}, c = [head |-> h, rest |-> Torn]
      PROVE  c \in [head : Int, rest : Int] /\ c.rest = Torn /\ c.head = h
  BY <1>1, <1>3
<1>4. CASE oldest = Len(answers)
  BY <1>1, <1>2, <1>4 DEF Copies
<1>5. CASE oldest # Len(answers)
  <2>1. CASE \E m \in oldest..Len(answers) : c = MsgOf(m)
    BY <1>2, <1>5, <2>1
  <2>2. CASE \E h \in (oldest..Len(answers)) \cup {Torn} : c = [head |-> h, rest |-> Torn]
    BY <1>3, <1>5, <2>2
  <2>3. QED
    BY <1>5, <2>1, <2>2 DEF Copies
<1>6. QED
  BY <1>4, <1>5

\* The client has copied what is in the mailbox.
LEMMA CopiedStep ==
    ASSUME MailInv, Copied
    PROVE  MailInv'
<1>a. /\ MTypeOK /\ TakenInOrder /\ LostByCollision
      /\ Filling /\ TakenBelow /\ ClearLeaves /\ AnswerKept
  BY DEF MailInv, MInv
<1>1. /\ at = "copy" /\ at' = "clear" /\ recv_buff' \in Copies
      /\ taken' = Append(taken, recv_buff') /\ oldest' = 0
      /\ UNCHANGED <<netChannelType, data, length, arriving, awaited, requests, answers,
                     parts, connects, since, collided>>
  BY DEF Copied
<1>2. PICK c \in Copies : c = recv_buff'
  BY <1>1
<1>3. PICK n \in Nat : n = Len(answers) /\ Len(answers') = n
  BY <1>1, MailNumbers
<1>4. PICK o \in Nat :
        /\ o = oldest /\ o >= 1 /\ o <= data /\ data <= n /\ o <= n /\ data \in Nat
        /\ \A m \in (o + 1)..n : m \in collided
  BY <1>a, <1>1, <1>3, MailNumbers DEF Filling, MTypeOK
<1>5. PICK h \in Int :
        /\ h = c.head /\ c \in [head : Int, rest : Int] /\ c.rest \in {h, Torn}
        /\ h \in o..n \/ (h = Torn /\ o # n)
        /\ o = n => h = o
        /\ c.rest = Torn /\ h # Torn => h \in parts \/ o # n
  BY <1>1, <1>3, <1>4, CopyIsOf
<1>6. PICK t \in Nat : t = Len(taken)
  BY MailNumbers
<1>7. /\ taken' \in Seq([head : Int, rest : Int]) /\ Len(taken') = t + 1
      /\ taken'[t + 1] = c /\ \A i \in 1..t : taken'[i] = taken[i] /\ taken[i].head \in Int
  BY <1>a, <1>1, <1>2, <1>5, <1>6, AppendProperties, MailNumbers DEF Filling
<1>8. \A i \in 1..(t + 1) : i \in 1..t \/ i = t + 1
  BY <1>6
<1>9. MTypeOK'
  <2>1. recv_buff'.head \in Torn..n /\ recv_buff'.rest \in {recv_buff'.head, Torn}
    BY <1>2, <1>4, <1>5 DEF Torn
  <2>2. QED
    BY <1>a, <1>1, <1>3, <2>1 DEF MTypeOK, ChannelTypes
<1>10. Filling'
  BY <1>a, <1>1, <1>3, <1>7 DEF Filling, Mqtt
<1>11. /\ \A i \in 1..t :
            /\ taken[i].head = Torn \/ taken[i].head >= 1
            /\ taken[i].head <= o
            /\ taken[i].head = o => o \in collided
       /\ \A i, j \in 1..t : taken[i].head = o /\ taken[j].head = o => i = j
  BY <1>a, <1>1, <1>4, <1>6 DEF TakenBelow, Upcoming
<1>12. TakenInOrder'
  <2>1. ASSUME NEW i \in 1..(t + 1), NEW j \in 1..(t + 1), i < j,
               taken'[i].head # Torn, taken'[j].head # Torn
        PROVE  \/ taken'[i].head < taken'[j].head
               \/ taken'[i].head = taken'[j].head /\ taken'[i].head \in collided
    <3>1. i \in 1..t
      BY <1>6, <2>1
    <3>2. CASE j \in 1..t
      BY <1>a, <1>6, <1>7, <2>1, <3>1, <3>2 DEF TakenInOrder
    <3>3. CASE j = t + 1
      <4>1. taken'[i].head \in Int /\ taken'[i].head <= o
            /\ (taken'[i].head = o => o \in collided)
        BY <1>7, <1>11, <3>1
      <4>2. taken'[j].head = h /\ h \in o..n
        BY <1>5, <1>7, <2>1, <3>3
      <4>3. QED
        BY <4>1, <4>2
    <3>4. QED
      BY <1>8, <3>2, <3>3
  <2>2. ASSUME NEW i \in 1..(t + 1), NEW j \in 1..(t + 1), NEW k \in 1..(t + 1), i < j, j < k,
               taken'[i].head = taken'[j].head, taken'[j].head = taken'[k].head
        PROVE  taken'[i].head = Torn
    <3>1. i \in 1..t /\ j \in 1..t /\ i # j
      BY <1>6, <2>2
    <3>2. CASE k \in 1..t
      BY <1>a, <1>6, <1>7, <2>2, <3>1, <3>2 DEF TakenInOrder
    <3>3. CASE k = t + 1
      <4>1. taken[i].head = h /\ taken[j].head = h /\ taken'[i].head = h
        BY <1>5, <1>7, <2>2, <3>1, <3>3
      <4>2. taken[i].head \in Int /\ taken[i].head <= o
        BY <1>7, <1>11, <3>1
      <4>3. h # o
        BY <1>11, <3>1, <4>1
      <4>4. QED
        BY <1>5, <4>1, <4>2, <4>3
    <3>4. QED
      BY <1>8, <3>2, <3>3
  <2>3. ASSUME NEW i \in 1..(t + 1), taken'[i].head # Torn, taken'[i].rest = Torn
        PROVE  Collision(taken'[i].head) \/ taken'[i].head \in parts
    <3>1. CASE i \in 1..t
      BY <1>a, <1>1, <1>6, <1>7, <2>3, <3>1 DEF TakenInOrder, Collision
    <3>2. CASE i = t + 1
      <4>1. h # Torn /\ (h \in parts \/ o # n)
        BY <1>5, <1>7, <2>3, <3>2
      <4>2. o # n => Collision(h)
        <5>1. CASE h = o /\ o # n
          <6>1. h + 1 \in (o + 1)..n
            BY <1>4, <5>1
          <6>2. QED
            BY <1>4, <6>1 DEF Collision
        <5>2. CASE h # o
          <6>1. h \in (o + 1)..n
            BY <1>4, <1>5, <4>1, <5>2
          <6>2. QED
            BY <1>4, <6>1 DEF Collision
        <5>3. QED
          BY <5>1, <5>2
      <4>3. QED
        BY <1>1, <1>5, <1>7, <3>2, <4>1, <4>2 DEF Collision
    <3>3. QED
      BY <1>8, <3>1, <3>2
  <2>4. QED
    BY <1>a, <1>1, <1>7, <2>1, <2>2, <2>3 DEF TakenInOrder, Collision
<1>13. Heads' = Heads \cup {h}
  <2>1. \A i \in 1..t : taken'[i].head = taken[i].head
    BY <1>7
  <2>2. taken'[t + 1].head = h
    BY <1>5, <1>7
  <2>3. Heads = {taken[i].head : i \in 1..t} /\ Heads' = {taken'[i].head : i \in 1..(t + 1)}
    BY <1>6, <1>7 DEF Heads
  <2>4. 1..(t + 1) = 1..t \cup {t + 1}
    OBVIOUS
  <2>5. QED
    BY <2>1, <2>2, <2>3, <2>4
<1>14. \A m : Collision(m)' <=> Collision(m)
  BY <1>1 DEF Collision
<1>15. data = h \/ Collision(data)
  <2>1. CASE o = n
    BY <1>4, <1>5, <2>1
  <2>2. CASE o # n /\ data = o
    <3>1. data + 1 \in (o + 1)..n
      BY <1>4, <2>2
    <3>2. QED
      BY <1>4, <3>1 DEF Collision
  <2>3. CASE data # o
    <3>1. data \in (o + 1)..n
      BY <1>4, <2>3, MailNumbers
    <3>2. QED
      BY <1>4, <3>1 DEF Collision
  <2>4. QED
    BY <2>1, <2>2, <2>3
<1>16. length = data
  BY <1>a, <1>1 DEF Filling
<1>17. LostByCollision' /\ ClearLeaves'
  BY <1>a, <1>1, <1>3, <1>13, <1>14, <1>15, <1>16 DEF LostByCollision, ClearLeaves
<1>18. AnswerKept'
  <2>1. recv_buff'.head = h
    BY <1>2, <1>5
  <2>2. QED
    BY <1>a, <1>1, <1>3, <1>14, <1>15, <1>16, <2>1 DEF AnswerKept
<1>19. TakenBelow'
  <2>1. PICK u \in Nat : /\ u = Upcoming' /\ u \in {n, n + 1}
                         /\ u = n => arriving = n /\ data = n - 1
    <3>1. at' = "clear" /\ length' = length /\ arriving' = arriving /\ Len(answers') = n
      BY <1>1, <1>3
    <3>2. arriving \in {0, n} /\ length # 0 /\ (arriving = n => data = n - 1 \/ arriving = 0)
      BY <1>a, <1>1, <1>3, <1>16, MailNumbers DEF Filling, MTypeOK
    <3>3. QED
      BY <1>3, <3>1, <3>2 DEF Upcoming
  <2>2. u = n => o < n /\ u \in collided
    <3>1. u = n => o < n /\ n \in (o + 1)..n
      BY <1>4, <2>1
    <3>2. QED
      BY <1>4, <3>1
  <2>3. ASSUME NEW i \in 1..(t + 1)
        PROVE  /\ taken'[i].head = Torn \/ taken'[i].head >= 1
               /\ taken'[i].head <= u
               /\ taken'[i].head = u => u \in collided /\ i = t + 1
    <3>1. CASE i \in 1..t
      <4>1. taken'[i].head = taken[i].head /\ taken[i].head \in Int
        BY <1>7, <3>1
      <4>2. /\ taken[i].head = Torn \/ taken[i].head >= 1
            /\ taken[i].head <= o
        BY <1>11, <3>1
      <4>3. o <= u /\ o # u
        <5>1. u = n \/ u = n + 1
          BY <2>1
        <5>2. o <= n /\ (u = n => o < n)
          BY <1>4, <2>2
        <5>3. QED
          BY <5>1, <5>2
      <4>4. QED
        BY <4>1, <4>2, <4>3
    <3>2. CASE i = t + 1
      BY <1>4, <1>5, <1>7, <2>1, <2>2, <3>2 DEF Torn
    <3>3. QED
      BY <1>8, <3>1, <3>2
  <2>4. QED
    BY <1>a, <1>1, <1>7, <2>1, <2>3 DEF TakenBelow
<1>20. QED
  BY <1>9, <1>10, <1>12, <1>17, <1>18, <1>19 DEF MailInv, MInv

\* ... and empties it.
LEMMA ClearedStep ==
    ASSUME MailInv, Cleared
    PROVE  MailInv'
<1>a. /\ MTypeOK /\ TakenInOrder /\ LostByCollision
      /\ Filling /\ TakenBelow /\ ClearLeaves /\ AnswerKept
  BY DEF MailInv, MInv
<1>1. /\ at = "clear" /\ at' = "handle" /\ length' = 0
      /\ UNCHANGED <<netChannelType, data, arriving, oldest, recv_buff, awaited, requests,
                     answers, parts, connects, since, taken, collided>>
  BY DEF Cleared
<1>2. Len(answers) \in Nat /\ Len(answers') = Len(answers)
  BY <1>1, MailNumbers
<1>3. MTypeOK'
  BY <1>a, <1>1, <1>2 DEF MTypeOK, ChannelTypes
<1>4. Filling'
  BY <1>a, <1>1, <1>2 DEF Filling, Mqtt
<1>5. TakenInOrder'
  BY <1>1, OrderKept
<1>6. Heads' = Heads /\ \A m : Collision(m) => Collision(m)'
  BY <1>1 DEF Heads, Collision
<1>7. LostByCollision' /\ ClearLeaves'
  BY <1>a, <1>1, <1>2, <1>6 DEF LostByCollision, ClearLeaves
<1>8. AnswerKept'
  BY <1>a, <1>1, <1>2, <1>6 DEF AnswerKept
<1>9. TakenBelow'
  <2>1. Upcoming' = Upcoming
    BY <1>1, <1>2 DEF Upcoming
  <2>2. QED
    BY <1>1, <2>1, MailNumbers, BelowKept
<1>10. QED
  BY <1>3, <1>4, <1>5, <1>7, <1>8, <1>9 DEF MailInv, MInv

\* Every step of the mailbox keeps the inductive invariant.
LEMMA MailStep ==
    ASSUME MailInv, [MNext]_mvars
    PROVE  MailInv'
<1>1. CASE MNext
  BY <1>1, MConnectStep, BytesArriveStep, LengthArrivesStep, MSendStep, ClientStep, CopiedStep,
     ClearedStep DEF MNext, MRun
<1>2. CASE UNCHANGED mvars
  BY <1>2 DEF mvars, MailInv, MInv, MTypeOK, TakenInOrder, LostByCollision, Heads, Collision,
     Filling, TakenBelow, Upcoming, ClearLeaves, AnswerKept, Mqtt
<1>3. QED
  BY <1>1, <1>2


-----------------------------------------------------------------------------
(* The send loop: each step keeps its invariant *)

\* One taken from a size_t.
LEMMA OneLess ==
    ASSUME NEW n \in 0..(Modulus - 1)
    PROVE  (n + Modulus - 1) % Modulus = IF n = 0 THEN Modulus - 1 ELSE n - 1
<1>1. Modulus \in Nat /\ Modulus > 1 /\ n \in Nat
  BY SendAssumption
<1>2. CASE n = 0
  BY <1>1, <1>2
<1>3. CASE n > 0
  <2>1. n + Modulus - 1 = (n - 1) + Modulus
    BY <1>1
  <2>2. ((n - 1) + Modulus) % Modulus = n - 1
    BY <1>1, <1>3
  <2>3. QED
    BY <1>1, <1>3, <2>1, <2>2
<1>4. QED
  BY <1>1, <1>2, <1>3

\* The stream and a part of the packet behind it.
LEMMA PartBehind ==
    ASSUME SendTypeOK, NEW from \in Nat, NEW n \in Nat, stream' = stream \o Part(from, n)
    PROVE  /\ Len(stream) \in Nat /\ Len(stream') = Len(stream) + n
           /\ stream' \in Seq(Nat \X Nat)
           /\ \A i \in 1..Len(stream) : stream'[i] = stream[i]
           /\ \A k \in 1..n : stream'[Len(stream) + k] = <<calls, from + k - 1>>
<1>1. stream \in Seq(Nat \X Nat) /\ calls \in Nat
  BY SendAssumption DEF SendTypeOK
<1>2. PICK part : part = Part(from, n)
  OBVIOUS
<1>3. /\ part \in Seq(Nat \X Nat) /\ Len(part) = n
      /\ \A k \in 1..n : part[k] = <<calls, from + k - 1>>
  <2>1. part = [k \in 1..n |-> <<calls, from + k - 1>>]
    BY <1>2 DEF Part
  <2>2. \A k \in 1..n : <<calls, from + k - 1>> \in Nat \X Nat
    BY <1>1
  <2>3. part \in [1..n -> Nat \X Nat]
    BY <2>1, <2>2
  <2>4. part \in Seq(Nat \X Nat)
    BY <2>3, SeqDef
  <2>5. Len(part) \in Nat /\ 1..Len(part) = 1..n
    BY <2>3, <2>4, LenProperties
  <2>6. Len(part) = n
    BY <2>5
  <2>7. QED
    BY <2>1, <2>4, <2>6
<1>4. /\ stream' \in Seq(Nat \X Nat) /\ Len(stream') = Len(stream) + n
      /\ \A i \in 1..(Len(stream) + n) :
            stream'[i] = IF i <= Len(stream) THEN stream[i] ELSE part[i - Len(stream)]
  <2>1. PICK S : S = Nat \X Nat
    OBVIOUS
  <2>2. stream \in Seq(S) /\ part \in Seq(S) /\ stream' = stream \o part
    BY <1>1, <1>2, <1>3, <2>1
  <2>3. /\ stream' \in Seq(S) /\ Len(stream') = Len(stream) + Len(part)
        /\ \A i \in 1..(Len(stream) + Len(part)) :
              stream'[i] = IF i <= Len(stream) THEN stream[i] ELSE part[i - Len(stream)]
    BY <2>2, ConcatProperties
  <2>4. QED
    BY <1>3, <2>1, <2>3
<1>5. Len(stream) \in Nat
  BY <1>1, LenProperties
<1>6. ASSUME NEW k \in 1..n PROVE stream'[Len(stream) + k] = <<calls, from + k - 1>>
  <2>1. PICK i : i = Len(stream) + k
    OBVIOUS
  <2>2. i \in 1..(Len(stream) + n) /\ ~(i <= Len(stream)) /\ i - Len(stream) = k
    BY <1>5, <2>1
  <2>3. QED
    BY <1>3, <1>4, <2>1, <2>2
<1>7. \A i \in 1..Len(stream) : stream'[i] = stream[i]
  BY <1>4, <1>5
<1>8. QED
  BY <1>4, <1>5, <1>6, <1>7

\* The calls that reached the platform are finite, and not more than there were.
LEMMA ReachedFinite ==
    ASSUME calls \in Nat
    PROVE  /\ IsFiniteSet(ReachedCalls)
           /\ Cardinality(ReachedCalls) \in 0..calls
<1>1. IsFiniteSet(1..calls) /\ Cardinality(1..calls) = calls
  BY FS_Interval
<1>2. ReachedCalls \subseteq 1..calls
  BY DEF ReachedCalls
<1>3. IsFiniteSet(ReachedCalls) /\ Cardinality(ReachedCalls) <= Cardinality(1..calls)
  BY <1>1, <1>2, FS_Subset
<1>4. Cardinality(ReachedCalls) \in Nat
  BY <1>3, FS_CardinalityType
<1>5. QED
  BY <1>1, <1>3, <1>4

\* Before the first send.
LEMMA SendInitInv == SendInit => SendInv
<1> SUFFICES ASSUME SendInit PROVE SendInv
  OBVIOUS
<1>1. /\ sending = "idle" /\ bytes_sent = 0 /\ packet_count_out = 0 /\ calls = 0 /\ fails = 0
      /\ failedIn = {} /\ sendRc = 0
  BY DEF SendInit
<1>2. stream \in Seq(Nat \X Nat) /\ Len(stream) = 0
  BY EmptySeq DEF SendInit
<1>3. SendTypeOK
  BY <1>1, <1>2, SendAssumption DEF SendTypeOK
<1>4. SentWhole /\ BytesOfCalls /\ SentSoFar /\ BelowIsSent /\ LastIsMissing
  BY <1>1, <1>2 DEF SentWhole, BytesOfCalls, SentSoFar, BelowIsSent, LastIsMissing
<1>5. Counted
  <2>1. ReachedCalls = {}
    BY <1>1 DEF ReachedCalls
  <2>2. QED
    BY <1>1, <2>1, FS_EmptySet DEF Counted
<1>6. QED
  BY <1>3, <1>4, <1>5 DEF SendInv, SInv

\* A call that has just begun has nothing in the stream.
LEMMA SendPacketStep ==
    ASSUME SendInv, SendPacket
    PROVE  SendInv'
<1>1. /\ sending = "idle" /\ sending' = "loop" /\ bytes_sent' = 0 /\ calls' = calls + 1
      /\ UNCHANGED <<packet_count_out, stream, fails, failedIn, sendRc>> /\ calls < MaxCalls
  BY DEF SendPacket
<1>2. /\ calls \in Nat /\ Len(stream) \in Nat /\ SendTypeOK /\ Length \in Nat \ {0}
  BY SendAssumption, LenProperties DEF SendInv, SInv, SendTypeOK
<1>3. \A i \in 1..Len(stream) : stream[i][1] \in 1..calls
  BY DEF SendInv, BytesOfCalls
<1>4. SendTypeOK'
  BY <1>1, <1>2, SendAssumption DEF SendTypeOK
<1>5. SentWhole'
  <2>1. \A c : Whole(c)' <=> Whole(c)
    BY <1>1 DEF Whole
  <2>2. QED
    BY <1>1, <1>2, <2>1 DEF SendInv, SInv, SentWhole
<1>6. BytesOfCalls'
  BY <1>1, <1>2 DEF SendInv, BytesOfCalls
<1>7. SentSoFar' /\ BelowIsSent'
  BY <1>1, <1>2, <1>3 DEF SentSoFar, BelowIsSent, Begun
<1>8. \A k \in Nat : ~Contains(stream, <<calls + 1, k>>)
  BY <1>2, <1>3 DEF Contains
<1>9. LastIsMissing'
  BY <1>1, <1>2, <1>8 DEF LastIsMissing, Contains
<1>10. Counted'
  <2>1. ~Reached(calls + 1)
    <3>1. Length - 1 \in 0..(Length - 1) /\ Length - 1 \in Nat
      BY <1>2
    <3>2. ~Contains(stream, <<calls + 1, Length - 1>>)
      BY <1>8, <3>1
    <3>3. QED
      BY <3>1, <3>2 DEF Reached
  <2>2. \A c : Reached(c)' <=> Reached(c)
    BY <1>1 DEF Reached, Contains
  <2>3. ReachedCalls' = ReachedCalls
    BY <1>1, <1>2, <2>1, <2>2 DEF ReachedCalls
  <2>4. QED
    BY <1>1, <2>3 DEF SendInv, Counted
<1>11. QED
  BY <1>4, <1>5, <1>6, <1>7, <1>9, <1>10 DEF SendInv, SInv

\* A send that fails: nothing goes into the stream, and the count of bytes goes down or wraps.
LEMMA SendErrorStep ==
    ASSUME SendInv, SendError
    PROVE  SendInv'
<1>1. /\ calls \in Nat /\ SendTypeOK /\ Length \in Nat \ {0} /\ calls >= 1
      /\ bytes_sent \in 0..(Length - 1) /\ sending = "loop" /\ Modulus \in Nat /\ Modulus > Length + 1
      /\ bytes_sent \in 0..(Modulus - 1)
  BY SendAssumption DEF SendError, SendInv, SInv, SendTypeOK, LastIsMissing
<1>2. PICK n : n = (bytes_sent + Modulus - 1) % Modulus
  OBVIOUS
<1>3. n = IF bytes_sent = 0 THEN Modulus - 1 ELSE bytes_sent - 1
  BY <1>1, <1>2, OneLess
<1>4. /\ bytes_sent' = n /\ failedIn' = failedIn \cup {calls} /\ fails' = fails + 1 /\ fails < MaxFails
      /\ UNCHANGED <<stream, calls>>
      /\ IF n < Length
         THEN UNCHANGED <<sending, sendRc, packet_count_out>>
         ELSE /\ sending' = "idle"
              /\ sendRc' = IF AsInt(n) = Length THEN 0 ELSE -1
              /\ packet_count_out' = packet_count_out + (IF AsInt(n) = Length THEN 1 ELSE 0)
  BY <1>2 DEF SendError, LoopStep
<1>5. packet_count_out \in Nat
  BY <1>1 DEF SendTypeOK
<1>6. \/ n = bytes_sent - 1 /\ bytes_sent > 0 /\ UNCHANGED <<sending, sendRc, packet_count_out>>
      \/ n = Modulus - 1 /\ sending' = "idle" /\ sendRc' = -1 /\ packet_count_out' = packet_count_out
  BY <1>1, <1>3, <1>4, <1>5 DEF AsInt
<1>7. SendTypeOK'
  BY <1>1, <1>4, <1>6, SendAssumption DEF SendTypeOK
<1>8. SentWhole'
  <2>1. \A c : Whole(c)' <=> Whole(c)
    BY <1>4 DEF Whole
  <2>2. QED
    BY <1>1, <1>4, <2>1 DEF SendInv, SInv, SentWhole
<1>9. BytesOfCalls'
  BY <1>4 DEF SendInv, BytesOfCalls
<1>10. SentSoFar'
  BY <1>4 DEF SentSoFar
<1>11. BelowIsSent' /\ LastIsMissing'
  <2>1. \A e : Contains(stream, e)' <=> Contains(stream, e)
    BY <1>4 DEF Contains
  <2>2. CASE sending' = "idle"
    BY <2>2 DEF BelowIsSent, LastIsMissing
  <2>3. CASE sending' # "idle"
    <3>1. bytes_sent' = bytes_sent - 1 /\ sending' = "loop" /\ calls' = calls
      BY <1>1, <1>4, <1>6, <2>3
    <3>2. \A k \in 0..(bytes_sent' - 1) : k \in 0..(bytes_sent - 1)
      BY <1>1, <3>1
    <3>3. \A k \in 0..(bytes_sent' - 1) : Contains(stream, <<calls, k>>)
      BY <1>1, <3>2 DEF SendInv, BelowIsSent
    <3>4. ~Contains(stream, <<calls, Length - 1>>)
      BY <1>1 DEF SendInv, LastIsMissing
    <3>5. QED
      BY <1>1, <2>1, <3>1, <3>3, <3>4 DEF BelowIsSent, LastIsMissing
  <2>4. QED
    BY <2>2, <2>3
<1>12. Counted'
  <2>1. ReachedCalls' = ReachedCalls
    BY <1>4 DEF ReachedCalls, Reached, Contains
  <2>2. QED
    BY <1>6, <2>1 DEF SendInv, Counted
<1>13. QED
  BY <1>7, <1>8, <1>9, <1>10, <1>11, <1>12 DEF SendInv, SInv

\* A send that takes n bytes: what the stream has afterwards.
LEMMA TakenBytes ==
    ASSUME SendInv, SendTakes
    PROVE  \E n \in 1..(Length - bytes_sent) :
              /\ Len(stream) \in Nat /\ Len(stream') = Len(stream) + n
              /\ stream' \in Seq(Nat \X Nat)
              /\ \A i \in 1..Len(stream) : stream'[i] = stream[i]
              /\ \A k \in 1..n : stream'[Len(stream) + k] = <<calls, bytes_sent + k - 1>>
              /\ bytes_sent' = bytes_sent + n
              /\ IF bytes_sent + n < Length
                 THEN UNCHANGED <<sending, sendRc, packet_count_out>>
                 ELSE /\ sending' = "idle" /\ sendRc' = 0
                      /\ packet_count_out' = packet_count_out + 1
<1>1. SendTypeOK /\ bytes_sent \in Nat /\ Length \in Nat /\ Modulus \in Nat /\ Modulus > Length + 1
  BY SendAssumption DEF SendInv, SInv, SendTypeOK
<1>2. PICK n \in 1..(Length - bytes_sent) :
          stream' = stream \o Part(bytes_sent, n) /\ LoopStep(bytes_sent + n)
  BY DEF SendTakes
<1>3. n \in Nat
  BY <1>1
<1>4. /\ Len(stream) \in Nat /\ Len(stream') = Len(stream) + n
      /\ stream' \in Seq(Nat \X Nat)
      /\ \A i \in 1..Len(stream) : stream'[i] = stream[i]
      /\ \A k \in 1..n : stream'[Len(stream) + k] = <<calls, bytes_sent + k - 1>>
  BY <1>1, <1>2, <1>3, PartBehind
<1>5. ~(bytes_sent + n < Length) => AsInt(bytes_sent + n) = Length
  BY <1>1 DEF AsInt
<1>6. /\ bytes_sent' = bytes_sent + n
      /\ IF bytes_sent + n < Length
         THEN UNCHANGED <<sending, sendRc, packet_count_out>>
         ELSE /\ sending' = "idle" /\ sendRc' = 0
              /\ packet_count_out' = packet_count_out + 1
  BY <1>2, <1>5 DEF LoopStep
<1>7. QED
  BY <1>4, <1>6

\* The kernel takes some of the bytes, or all that are left.
LEMMA SendTakesStep ==
    ASSUME SendInv, SendTakes
    PROVE  SendInv'
<1>1. PICK n \in 1..(Length - bytes_sent) :
              /\ Len(stream) \in Nat /\ Len(stream') = Len(stream) + n
              /\ stream' \in Seq(Nat \X Nat)
              /\ \A i \in 1..Len(stream) : stream'[i] = stream[i]
              /\ \A k \in 1..n : stream'[Len(stream) + k] = <<calls, bytes_sent + k - 1>>
              /\ bytes_sent' = bytes_sent + n
              /\ IF bytes_sent + n < Length
                 THEN UNCHANGED <<sending, sendRc, packet_count_out>>
                 ELSE /\ sending' = "idle" /\ sendRc' = 0
                      /\ packet_count_out' = packet_count_out + 1
  BY TakenBytes
<1>2. /\ calls \in Nat /\ calls >= 1 /\ SendTypeOK /\ Length \in Nat \ {0}
      /\ bytes_sent \in 0..(Length - 1) /\ sending = "loop" /\ Modulus \in Nat /\ Modulus > Length + 1
      /\ packet_count_out \in Nat /\ UNCHANGED <<calls, fails, failedIn>>
      /\ n \in Nat /\ n >= 1 /\ bytes_sent + n <= Length
  BY SendAssumption DEF SendTakes, SendInv, SInv, SendTypeOK, LastIsMissing
<1> PICK len \in Nat : len = Len(stream) /\ Len(stream') = len + n
  BY <1>1
<1>21. \A i \in 1..len : stream'[i] = stream[i]
  BY <1>1
<1>22. \A k \in 1..n : stream'[len + k] = <<calls, bytes_sent + k - 1>>
  BY <1>1
<1>3. ASSUME NEW i \in 1..(len + n)
      PROVE  \/ i \in 1..len /\ stream'[i] = stream[i]
             \/ \E k \in 1..n : i = len + k /\ stream'[i] = <<calls, bytes_sent + k - 1>>
  <2>1. CASE i \in 1..len
    BY <1>21, <2>1
  <2>2. CASE i \notin 1..len
    <3>1. PICK k \in 1..n : i = len + k
      <4>1. i - len \in 1..n /\ i = len + (i - len)
        BY <1>2, <2>2
      <4>2. QED
        BY <4>1
    <3>2. QED
      BY <1>22, <3>1
  <2>3. QED
    BY <2>1, <2>2
<1>4. ASSUME NEW e, Contains(stream, e) PROVE Contains(stream', e)
  <2>1. PICK i \in 1..len : stream[i] = e
    BY <1>4 DEF Contains
  <2>2. i \in 1..(len + n) /\ stream'[i] = e
    BY <1>2, <1>21, <2>1
  <2>3. QED
    BY <2>2 DEF Contains
<1>5. ASSUME NEW c, c # calls, NEW k PROVE Contains(stream', <<c, k>>) <=> Contains(stream, <<c, k>>)
  <2>1. ASSUME NEW i \in 1..(len + n), stream'[i] = <<c, k>> PROVE Contains(stream, <<c, k>>)
    <3>1. i \in 1..len /\ stream'[i] = stream[i]
      BY <1>3, <1>5, <2>1
    <3>2. QED
      BY <2>1, <3>1 DEF Contains
  <2>2. QED
    BY <1>4, <2>1 DEF Contains
<1>6. ASSUME NEW k \in 0..(bytes_sent + n - 1) PROVE Contains(stream', <<calls, k>>)
  <2>1. CASE k < bytes_sent
    BY <1>2, <1>4, <2>1 DEF SendInv, BelowIsSent
  <2>2. CASE k >= bytes_sent
    <3>1. PICK j : j = k - bytes_sent + 1
      OBVIOUS
    <3>2. j \in 1..n /\ bytes_sent + j - 1 = k /\ len + j \in 1..(len + n)
      BY <1>2, <2>2, <3>1
    <3>3. stream'[len + j] = <<calls, k>>
      BY <1>22, <3>2
    <3>4. QED
      BY <3>2, <3>3 DEF Contains
  <2>3. QED
    BY <1>2, <2>1, <2>2
<1>7. BytesOfCalls'
  <2> SUFFICES ASSUME NEW i \in 1..(len + n)
               PROVE  stream'[i][1] \in 1..calls /\ stream'[i][2] \in 0..(Length - 1)
    BY <1>2 DEF BytesOfCalls
  <2>1. CASE i \in 1..len /\ stream'[i] = stream[i]
    BY <2>1 DEF SendInv, BytesOfCalls
  <2>2. ASSUME NEW k \in 1..n, stream'[i] = <<calls, bytes_sent + k - 1>>
        PROVE  stream'[i][1] \in 1..calls /\ stream'[i][2] \in 0..(Length - 1)
    BY <1>2, <2>2
  <2>3. QED
    BY <1>3, <2>1, <2>2
<1>8. BelowIsSent'
  BY <1>1, <1>2, <1>6 DEF BelowIsSent
<1>9. bytes_sent + n < Length => ~Contains(stream', <<calls, Length - 1>>)
  <2>1. ~Contains(stream, <<calls, Length - 1>>)
    BY <1>2 DEF SendInv, LastIsMissing
  <2>2. ASSUME bytes_sent + n < Length, NEW i \in 1..(len + n), stream'[i] = <<calls, Length - 1>>
        PROVE  FALSE
    <3>1. ~(i \in 1..len /\ stream'[i] = stream[i])
      BY <2>1, <2>2 DEF Contains
    <3>2. PICK k \in 1..n : stream'[i] = <<calls, bytes_sent + k - 1>>
      BY <1>3, <3>1
    <3>3. bytes_sent + k - 1 = Length - 1
      BY <2>2, <3>2
    <3>4. QED
      BY <1>2, <2>2, <3>3
  <2>3. QED
    BY <2>2 DEF Contains
<1>10. LastIsMissing'
  BY <1>1, <1>2, <1>9 DEF LastIsMissing
<1>11. \A c : c # calls => (Reached(c)' <=> Reached(c))
  BY <1>5 DEF Reached
<1>12. calls \notin ReachedCalls
  BY <1>2 DEF SendInv, LastIsMissing, ReachedCalls, Reached
<1>13. Counted'
  <2>1. CASE bytes_sent + n < Length
    <3>1. ~Reached(calls)'
      <4>1. Length - 1 \in 0..(Length - 1)
        BY <1>2
      <4>2. QED
        BY <1>2, <1>9, <2>1, <4>1 DEF Reached
    <3>2. ReachedCalls' = ReachedCalls
      BY <1>2, <1>11, <1>12, <3>1 DEF ReachedCalls
    <3>3. QED
      BY <1>1, <2>1, <3>2 DEF SendInv, Counted
  <2>2. CASE ~(bytes_sent + n < Length)
    <3>1. Reached(calls)'
      BY <1>2, <1>6, <2>2 DEF Reached
    <3>2. ReachedCalls' = ReachedCalls \cup {calls}
      BY <1>2, <1>11, <3>1 DEF ReachedCalls
    <3>3. Cardinality(ReachedCalls') = Cardinality(ReachedCalls) + 1
      BY <1>2, <1>12, <3>2, ReachedFinite, FS_AddElement
    <3>4. QED
      BY <1>1, <2>2, <3>3 DEF SendInv, Counted
  <2>3. QED
    BY <2>1, <2>2
<1>14. SentSoFar'
  <2> SUFFICES ASSUME sending' = "loop", calls \notin failedIn PROVE SentSoFar'
    BY <1>2 DEF SentSoFar
  <2>1. /\ bytes_sent <= len
        /\ \A i \in 1..(len - bytes_sent) : stream[i][1] # calls
        /\ \A k \in 1..bytes_sent : stream[(len - bytes_sent) + k] = <<calls, k - 1>>
    BY <1>2 DEF SendInv, SentSoFar, Begun
  <2>2. bytes_sent' = bytes_sent + n /\ Begun' = len - bytes_sent /\ bytes_sent' <= len + n
    BY <1>1, <1>2, <2>1 DEF Begun
  <2>3. \A i \in 1..Begun' : stream'[i][1] # calls
    <3>1. \A i \in 1..Begun' : i \in 1..len
      BY <1>2, <2>1, <2>2
    <3>2. QED
      BY <1>21, <2>1, <2>2, <3>1
  <2>4. ASSUME NEW k \in 1..(bytes_sent + n) PROVE stream'[(len - bytes_sent) + k] = <<calls, k - 1>>
    <3>1. CASE k <= bytes_sent
      <4>1. k \in 1..bytes_sent /\ (len - bytes_sent) + k \in 1..len
        <5>1. k \in Nat /\ k >= 1 /\ bytes_sent \in Nat /\ bytes_sent <= len
          BY <1>2, <2>1
        <5>2. QED
          BY <3>1, <5>1
      <4>2. QED
        BY <1>21, <2>1, <4>1
    <3>2. CASE k > bytes_sent
      <4>1. k - bytes_sent \in 1..n /\ len + (k - bytes_sent) = (len - bytes_sent) + k
            /\ bytes_sent + (k - bytes_sent) - 1 = k - 1
        BY <1>2, <3>2
      <4>2. QED
        BY <1>22, <4>1
    <3>3. QED
      BY <1>2, <3>1, <3>2
  <2>5. QED
    BY <1>2, <2>2, <2>3, <2>4 DEF SentSoFar
<1>15. ASSUME NEW c \in 1..calls, c # calls, Whole(c) PROVE Whole(c)'
  <2>1. PICK from \in 0..(len - Length) :
            /\ \A k \in 1..Length : stream[from + k] = <<c, k - 1>>
            /\ \A i \in 1..len : stream[i][1] = c => i \in (from + 1)..(from + Length)
    BY <1>15 DEF Whole
  <2>2. from \in 0..((len + n) - Length) /\ \A k \in 1..Length : from + k \in 1..len
    BY <1>2
  <2>3. \A k \in 1..Length : stream'[from + k] = <<c, k - 1>>
    BY <1>21, <2>1, <2>2
  <2>4. ASSUME NEW i \in 1..(len + n), stream'[i][1] = c PROVE i \in (from + 1)..(from + Length)
    BY <1>3, <1>15, <2>1, <2>4
  <2>5. QED
    BY <2>2, <2>3, <2>4 DEF Whole
<1>16. ASSUME sending' = "idle", calls \notin failedIn PROVE Whole(calls)'
  <2>1. /\ bytes_sent <= len
        /\ \A i \in 1..(len - bytes_sent) : stream[i][1] # calls
        /\ \A k \in 1..bytes_sent : stream[(len - bytes_sent) + k] = <<calls, k - 1>>
    BY <1>2, <1>16 DEF SendInv, SentSoFar, Begun
  <2>2. bytes_sent + n = Length
    BY <1>1, <1>2, <1>16
  <2>3. PICK from : from = len - bytes_sent
    OBVIOUS
  <2>4. from \in 0..((len + n) - Length) /\ from + Length = len + n /\ from <= len
    <3>1. bytes_sent \in Nat /\ bytes_sent <= len /\ Length \in Nat
      BY <1>2, <2>1
    <3>2. QED
      BY <1>2, <2>2, <2>3, <3>1
  <2>5. ASSUME NEW k \in 1..Length PROVE stream'[from + k] = <<calls, k - 1>>
    <3>1. CASE k <= bytes_sent
      <4>1. k \in 1..bytes_sent /\ from + k \in 1..len
        <5>1. k \in Nat /\ k >= 1 /\ bytes_sent \in Nat /\ bytes_sent <= len
          BY <1>2, <2>1
        <5>2. QED
          BY <2>3, <3>1, <5>1
      <4>2. QED
        BY <1>21, <2>1, <2>3, <4>1
    <3>2. CASE k > bytes_sent
      <4>1. k - bytes_sent \in 1..n /\ len + (k - bytes_sent) = from + k
            /\ bytes_sent + (k - bytes_sent) - 1 = k - 1
        BY <1>2, <2>2, <2>3, <3>2
      <4>2. QED
        BY <1>22, <4>1
    <3>3. QED
      BY <1>2, <3>1, <3>2
  <2>6. ASSUME NEW i \in 1..(len + n), stream'[i][1] = calls PROVE i \in (from + 1)..(from + Length)
    <3>1. ~(i \in 1..from)
      <4>1. ASSUME i \in 1..from PROVE FALSE
        <5>1. i \in 1..len /\ stream[i][1] # calls
          BY <1>2, <2>1, <2>3, <2>4, <4>1
        <5>2. QED
          BY <1>21, <2>6, <5>1
      <4>2. QED
        BY <4>1
    <3>2. QED
      BY <1>2, <2>4, <3>1
  <2>7. QED
    BY <1>2, <2>4, <2>5, <2>6 DEF Whole
<1>17. SentWhole'
  <2> SUFFICES ASSUME NEW c \in 1..calls, c \notin failedIn, c < calls \/ sending' = "idle"
               PROVE  Whole(c)'
    BY <1>2 DEF SentWhole
  <2>1. CASE c = calls
    BY <1>2, <1>16, <2>1
  <2>2. CASE c # calls
    <3>1. c < calls
      BY <1>2, <2>2
    <3>2. Whole(c)
      BY <3>1 DEF SendInv, SInv, SentWhole
    <3>3. QED
      BY <1>15, <2>2, <3>2
  <2>3. QED
    BY <2>1, <2>2
<1>18. SendTypeOK'
  <2>1. packet_count_out' \in 0..calls
    <3>1. Cardinality(ReachedCalls') \in 0..calls
      <4>1. ReachedCalls' \subseteq 1..calls
        BY <1>2 DEF ReachedCalls
      <4>2. IsFiniteSet(1..calls) /\ Cardinality(1..calls) = calls
        <5>1. calls \in Int /\ 1 \in Int /\ ~(1 > calls) /\ calls - 1 + 1 = calls
          BY <1>2
        <5>2. QED
          BY <5>1, FS_Interval
      <4>3. IsFiniteSet(ReachedCalls') /\ Cardinality(ReachedCalls') <= calls
        BY <4>1, <4>2, FS_Subset
      <4>4. QED
        BY <1>2, <4>3, FS_CardinalityType
    <3>2. QED
      BY <1>13, <3>1 DEF Counted
  <2>2. /\ sending' \in {"idle", "loop"} /\ bytes_sent' \in 0..(Modulus - 1) /\ sendRc' \in {-1, 0}
        /\ sending' = "loop" => bytes_sent' < Length
    BY <1>1, <1>2 DEF SendTypeOK
  <2>3. stream' \in Seq(Nat \X Nat)
    BY <1>1
  <2>4. QED
    BY <1>2, <2>1, <2>2, <2>3 DEF SendTypeOK
<1>19. QED
  BY <1>7, <1>8, <1>10, <1>13, <1>14, <1>17, <1>18 DEF SendInv, SInv

\* Every step of the send loop keeps the inductive invariant.
LEMMA SendStep ==
    ASSUME SendInv, [SendNext]_sendVars
    PROVE  SendInv'
<1>1. CASE SendNext
  BY <1>1, SendPacketStep, SendTakesStep, SendErrorStep DEF SendNext
<1>2. CASE UNCHANGED sendVars
  <2> USE <1>2 DEF sendVars
  <2>1. \A e : Contains(stream, e)' <=> Contains(stream, e)
    BY DEF Contains
  <2>2. SInv'
    BY DEF SendInv, SInv, SendTypeOK, SentWhole, Whole
  <2>3. BytesOfCalls' /\ SentSoFar'
    BY DEF SendInv, BytesOfCalls, SentSoFar, Begun
  <2>4. BelowIsSent' /\ LastIsMissing'
    BY <2>1 DEF SendInv, BelowIsSent, LastIsMissing
  <2>5. Counted'
    <3>1. ReachedCalls' = ReachedCalls
      BY <2>1 DEF ReachedCalls, Reached
    <3>2. QED
      BY <3>1 DEF SendInv, Counted
  <2>6. QED
    BY <2>2, <2>3, <2>4, <2>5 DEF SendInv
<1>3. QED
  BY <1>1, <1>2

-----------------------------------------------------------------------------
(* The channels together *)

\* A step of a channel is a step of that one, and leaves the others where they are.
LEMMA ChannelStep ==
    ASSUME [NetNext]_allVars
    PROVE  [Next]_vars /\ [SendNext]_sendVars /\ [MNext]_mvars
BY DEF NetNext, OnChannel, allVars

\* Behind netio_* each channel behaves as if it were alone: the calls through it implement
\* the specifications of the reads, of the sends and of the mailbox.
THEOREM ChannelsAlone ==
    NetSpec => Spec /\ (SendInit /\ [][SendNext]_sendVars) /\ (MInit /\ [][MNext]_mvars)
<1>1. NetInit => Init /\ SendInit /\ MInit
  BY DEF NetInit
<1>2. QED
  BY <1>1, ChannelStep, PTL DEF NetSpec, Spec

\* The reads of a TCP connection, behind netio_recv_buffer: the packets come out as they
\* were sent, which is what the session takes its connection for.
THEOREM NetReadsStream == NetSpec => []RInv /\ StreamSpec
BY ChannelsAlone, ReadInvariant, ReadsImplementStream, PTL

\* net_tcp_send_buffer: the invariant of its loop.
THEOREM SendInvariant == NetSpec => []SendInv
<1>1. SendInv /\ [SendNext]_sendVars => SendInv'
  BY SendStep
<1>2. QED
  BY SendInitInv, <1>1, ChannelsAlone, PTL

\* A call in which no send failed puts its packet into the stream in one piece.
THEOREM PacketsSentWhole == NetSpec => []SInv
<1>1. SendInv => SInv
  BY DEF SendInv
<1>2. QED
  BY <1>1, SendInvariant, PTL

\* im_conn_send_packet: packet_count_out counts the packets that are in the stream entirely,
\* whatever sends have failed on the way.
THEOREM CountedAreReached == NetSpec => []CountedReached
<1>1. SendInv => CountedReached
  BY DEF SendInv, Counted, CountedReached, ReachedCalls, Reached
<1>2. QED
  BY <1>1, SendInvariant, PTL

\* The mailbox __data_recv of MQTT and of HTTP: its invariant.
THEOREM MailInvariant == NetSpec => []MailInv
<1>1. MailInv /\ [MNext]_mvars => MailInv'
  BY MailStep
<1>2. QED
  BY MailInit, <1>1, ChannelsAlone, PTL

\* Whatever the callback and the client do at the same time, messages are taken in order,
\* and only those that collide are mixed, taken twice or lost.
THEOREM MessagesTakenInOrder == NetSpec => []MInv
<1>1. MailInv => MInv
  BY DEF MailInv
<1>2. QED
  BY <1>1, MailInvariant, PTL

\* A call that waits has not been passed by its answer, unless this collided with another
\* message.
THEOREM AnswersEndWaits == NetSpec => []AnswerEndsWait
<1>1. MailInv => AnswerEndsWait
  BY DEF MailInv, AnswerKept, AnswerEndsWait
<1>2. QED
  BY <1>1, MailInvariant, PTL
=============================================================================
