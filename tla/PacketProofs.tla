---------------------------- MODULE PacketProofs ----------------------------
(***************************************************************************)
(* What TLAPS proves of Packet: for extensions of any number of fields, of *)
(* any text and any length, bodies and buffers of any size, what a call    *)
(* lets go out is the packet, what it reads is what the platform wrote,    *)
(* and each block of memory is freed once and, but for one case, at all.   *)
(*                                                                         *)
(* FlattenSeq is a recursive function.  What it makes of a sequence is     *)
(* proved by induction over the naturals as a fact about a set             *)
(* (InductionOn), which follows from < being well-founded.                 *)
(***************************************************************************)
EXTENDS Packet, SequenceTheorems, WellFoundedInduction, TLAPS

-----------------------------------------------------------------------------
(* Induction *)

\* A non-empty set of naturals has a least one.
LEMMA LeastOfNat ==
    ASSUME NEW T, T \subseteq Nat, T # {}
    PROVE  \E x \in T : \A y \in T : x =< y
<1> DEFINE R == {p \in Nat \X Nat : p[1] < p[2]}
<1>1. R = OpToRel(<, Nat)
  BY DEF OpToRel
<1>2. IsWellFoundedOn(R, Nat)
  BY <1>1, NatLessThanWellFounded
<1>3. \A x, y \in Nat : x < y => <<x, y>> \in R
  OBVIOUS
<1>4. \E x \in T : \A y \in T : <<y, x>> \notin R
  <2> HIDE DEF R
  <2>1. QED
    BY <1>2, WFMin
<1>5. PICK x \in T : \A y \in T : <<y, x>> \notin R
  BY <1>4
<1>6. \A y \in T : ~(y < x)
  BY <1>3, <1>5
<1>7. QED
  BY <1>6

\* Induction over the naturals, as a fact about a set.
LEMMA InductionOn ==
    ASSUME NEW T, 0 \in T, \A n \in Nat : n \in T => n + 1 \in T
    PROVE  \A n \in Nat : n \in T
<1>1. SUFFICES ASSUME Nat \ T # {} PROVE FALSE
  OBVIOUS
<1>2. PICK x \in Nat \ T : \A y \in Nat \ T : x =< y
  BY <1>1, LeastOfNat
<1>3. x # 0 /\ x - 1 \in Nat /\ x - 1 \in T
  BY <1>2
<1>4. (x - 1) + 1 \in T
  BY <1>3
<1>5. (x - 1) + 1 = x
  BY <1>2
<1>6. QED
  BY <1>2, <1>4, <1>5

-----------------------------------------------------------------------------
(* FlattenSeq *)

\* What the function within FlattenSeq is to satisfy.
Flattens(f, ss, n) ==
    f = [i \in 1..n |-> IF i = 1 THEN ss[i] ELSE f[i - 1] \o ss[i]]

\* FlattenSeq of a sequence that is not empty.
LEMMA FlattenIs ==
    ASSUME NEW ss, Len(ss) # 0
    PROVE  FlattenSeq(ss) = (CHOOSE f : Flattens(f, ss, Len(ss)))[Len(ss)]
BY DEF FlattenSeq, Flattens

\* One more sequence makes it longer by one.
LEMMA FlattensMore ==
    ASSUME NEW S, NEW ss, NEW m \in Nat \ {0}, ss[m + 1] \in Seq(S),
           NEW f \in [1..m -> Seq(S)], Flattens(f, ss, m)
    PROVE  \E g \in [1..(m + 1) -> Seq(S)] :
              Flattens(g, ss, m + 1) /\ g[m + 1] = f[m] \o ss[m + 1]
<1> DEFINE x == f[m] \o ss[m + 1]
<1>1. x \in Seq(S)
  <2>1. f[m] \in Seq(S)
    OBVIOUS
  <2>2. QED
    BY <2>1, ConcatProperties
<1> HIDE DEF x
<1>2. PICK g : g = [i \in 1..(m + 1) |-> IF i = m + 1 THEN x ELSE f[i]]
  OBVIOUS
<1>3. /\ g \in [1..(m + 1) -> Seq(S)] /\ g[m + 1] = x
      /\ \A i \in 1..m : g[i] = f[i]
  BY <1>1, <1>2
<1>4. ASSUME NEW i \in 1..(m + 1)
      PROVE  g[i] = IF i = 1 THEN ss[i] ELSE g[i - 1] \o ss[i]
  <2>1. CASE i = m + 1
    <3>1. i # 1 /\ i - 1 = m /\ g[m] = f[m]
      BY <1>3, <2>1
    <3>2. g[i] = f[m] \o ss[m + 1]
      BY <1>3, <2>1 DEF x
    <3>3. QED
      BY <2>1, <3>1, <3>2
  <2>2. CASE i # m + 1
    <3>1. i \in 1..m /\ (i # 1 => i - 1 \in 1..m)
      BY <2>2
    <3>2. f[i] = IF i = 1 THEN ss[i] ELSE f[i - 1] \o ss[i]
      <4>1. f = [j \in 1..m |-> IF j = 1 THEN ss[j] ELSE f[j - 1] \o ss[j]]
        BY DEF Flattens
      <4>2. QED
        BY <3>1, <4>1
    <3>3. QED
      BY <1>3, <3>1, <3>2
  <2>3. QED
    BY <2>1, <2>2
<1>5. g = [i \in 1..(m + 1) |-> g[i]]
  BY <1>3
<1>6. Flattens(g, ss, m + 1)
  BY <1>4, <1>5 DEF Flattens
<1>7. QED
  BY <1>3, <1>6 DEF x

\* There is such a function.
LEMMA FlattenExists ==
    ASSUME NEW S, NEW ss \in Seq(Seq(S)), NEW n \in 1..Len(ss)
    PROVE  \E f \in [1..n -> Seq(S)] : Flattens(f, ss, n)
<1> DEFINE Fs(k) == {f \in [1..k -> Seq(S)] : Flattens(f, ss, k)}
           T == {m \in Nat : m + 1 =< Len(ss) => Fs(m + 1) # {}}
<1>1. Len(ss) \in Nat /\ \A i \in 1..Len(ss) : ss[i] \in Seq(S)
  BY ElementOfSeq, LenProperties
<1>2. 1 =< Len(ss) => Fs(1) # {}
  <2>1. SUFFICES ASSUME 1 =< Len(ss) PROVE \E f \in [1..1 -> Seq(S)] : Flattens(f, ss, 1)
    OBVIOUS
  <2>2. PICK g : g = [i \in 1..1 |-> ss[1]]
    OBVIOUS
  <2>3. ss[1] \in Seq(S)
    BY <1>1, <2>1
  <2>4. g \in [1..1 -> Seq(S)] /\ g[1] = ss[1] /\ g = [i \in 1..1 |-> g[i]]
    BY <2>2, <2>3
  <2>5. \A i \in 1..1 : g[i] = IF i = 1 THEN ss[i] ELSE g[i - 1] \o ss[i]
    BY <2>4
  <2>6. Flattens(g, ss, 1)
    BY <2>4, <2>5 DEF Flattens
  <2>7. QED
    BY <2>4, <2>6
<1>3. ASSUME NEW m \in Nat, m + 1 =< Len(ss) => Fs(m + 1) # {}, (m + 1) + 1 =< Len(ss)
      PROVE  Fs((m + 1) + 1) # {}
  <2>1. PICK f \in [1..(m + 1) -> Seq(S)] : Flattens(f, ss, m + 1)
    BY <1>1, <1>3
  <2>2. ss[(m + 1) + 1] \in Seq(S) /\ m + 1 \in Nat \ {0}
    BY <1>1, <1>3
  <2>3. PICK g \in [1..((m + 1) + 1) -> Seq(S)] : Flattens(g, ss, (m + 1) + 1)
    BY <2>1, <2>2, FlattensMore
  <2>4. QED
    BY <2>3
<1> HIDE DEF Fs
<1>4. 0 \in T
  BY <1>2, 0 + 1 = 1
<1>5. \A m \in Nat : m \in T => m + 1 \in T
  BY <1>3
<1> HIDE DEF T
<1>6. \A m \in Nat : m \in T
  BY <1>4, <1>5, InductionOn
<1>7. n - 1 \in Nat /\ (n - 1) + 1 = n /\ n =< Len(ss)
  BY <1>1
<1>8. Fs(n) # {}
  BY <1>6, <1>7 DEF T
<1>9. QED
  BY <1>8 DEF Fs

\* The same for the first n.
Agree(f, g, n) == \A i \in 1..n : f[i] = g[i]

\* What flattens a sequence and what flattens one that goes on agree on the first.
LEMMA FlattensAgree ==
    ASSUME NEW ss, NEW tt, NEW n \in Nat, NEW m \in Nat, n =< m, Agree(ss, tt, n),
           NEW f, NEW g, Flattens(f, ss, n), Flattens(g, tt, m)
    PROVE  Agree(f, g, n)
<1> DEFINE T == {k \in Nat : k + 1 =< n => f[k + 1] = g[k + 1]}
<1>1. \A i \in 1..n : f[i] = IF i = 1 THEN ss[i] ELSE f[i - 1] \o ss[i]
  BY Zenon DEF Flattens
<1>2. \A i \in 1..m : g[i] = IF i = 1 THEN tt[i] ELSE g[i - 1] \o tt[i]
  BY Zenon DEF Flattens
<1>3. 0 \in T
  <2>1. 1 =< n => 1 \in 1..n /\ 1 \in 1..m
    OBVIOUS
  <2>2. QED
    BY <1>1, <1>2, <2>1, 0 + 1 = 1 DEF Agree
<1>4. ASSUME NEW k \in Nat, k + 1 =< n => f[k + 1] = g[k + 1], (k + 1) + 1 =< n
      PROVE  f[(k + 1) + 1] = g[(k + 1) + 1]
  <2>1. PICK j \in Nat : j = (k + 1) + 1
    OBVIOUS
  <2>2. j # 1 /\ j - 1 = k + 1 /\ j \in 1..n /\ j \in 1..m /\ f[j - 1] = g[j - 1]
    BY <1>4, <2>1
  <2>3. f[j] = f[j - 1] \o ss[j] /\ g[j] = g[j - 1] \o tt[j]
    BY <1>1, <1>2, <2>2 DEF Agree
  <2>5. ss[j] = tt[j]
    BY <2>2 DEF Agree
  <2>6. QED
    BY <2>1, <2>2, <2>3, <2>5, Zenon
<1>5. \A k \in Nat : k \in T => k + 1 \in T
  BY <1>4
<1> HIDE DEF T
<1>6. \A k \in Nat : k \in T
  BY <1>3, <1>5, InductionOn
<1>7. ASSUME NEW i \in 1..n PROVE f[i] = g[i]
  <2>1. i - 1 \in Nat /\ (i - 1) + 1 = i /\ i =< n
    OBVIOUS
  <2>2. QED
    BY <1>6, <2>1 DEF T
<1>8. QED
  BY <1>7 DEF Agree

\* What FlattenSeq chooses is such a function.
LEMMA FlattenChooses ==
    ASSUME NEW S, NEW ss \in Seq(Seq(S)), Len(ss) # 0
    PROVE  \E f : /\ Flattens(f, ss, Len(ss)) /\ FlattenSeq(ss) = f[Len(ss)]
                  /\ f \in [1..Len(ss) -> Seq(S)]
<1>1. Len(ss) \in 1..Len(ss)
  BY LenProperties
<1>2. PICK g \in [1..Len(ss) -> Seq(S)] : Flattens(g, ss, Len(ss))
  BY <1>1, FlattenExists
<1>3. PICK f : f = CHOOSE h : Flattens(h, ss, Len(ss))
  OBVIOUS
<1>4. Flattens(f, ss, Len(ss))
  BY <1>2, <1>3, Zenon
<1>5. FlattenSeq(ss) = f[Len(ss)]
  BY <1>3, FlattenIs
<1>6. f \in [1..Len(ss) -> Seq(S)]
  <2>1. \A i \in 1..Len(ss) : f[i] = g[i]
    BY <1>1, <1>2, <1>4, FlattensAgree DEF Agree
  <2>2. f = [i \in 1..Len(ss) |-> IF i = 1 THEN ss[i] ELSE f[i - 1] \o ss[i]]
    BY <1>4 DEF Flattens
  <2>3. f = [i \in 1..Len(ss) |-> f[i]]
    BY <2>2
  <2>4. \A i \in 1..Len(ss) : f[i] \in Seq(S)
    BY <2>1
  <2>5. QED
    BY <2>3, <2>4
<1>7. QED
  BY <1>4, <1>5, <1>6

\* The sequences are put one behind the other.
LEMMA FlattenAppends ==
    ASSUME NEW S, NEW ss \in Seq(Seq(S)), NEW x \in Seq(S)
    PROVE  /\ FlattenSeq(ss) \in Seq(S)
           /\ FlattenSeq(Append(ss, x)) = FlattenSeq(ss) \o x
<1> DEFINE n == Len(ss)
           tt == Append(ss, x)
<1>1. n \in Nat
  BY LenProperties
<1>2. /\ tt \in Seq(Seq(S)) /\ Len(tt) = n + 1 /\ tt[n + 1] = x
      /\ \A i \in 1..n : ss[i] = tt[i]
  BY AppendProperties
<1>3. n = 0 => FlattenSeq(ss) = <<>>
  <2>1. n = 0 => ss = <<>>
    BY EmptySeq
  <2>2. n = 0 => FlattenSeq(ss) = ss
    BY DEF FlattenSeq
  <2>3. QED
    BY <2>1, <2>2
<1>4. FlattenSeq(ss) \in Seq(S)
  <2>1. CASE n = 0
    BY <1>3, <2>1, EmptySeq
  <2>2. CASE n # 0
    <3>1. PICK f : FlattenSeq(ss) = f[n] /\ f \in [1..n -> Seq(S)]
      BY <2>2, FlattenChooses
    <3>2. n \in 1..n
      BY <1>1, <2>2
    <3>3. QED
      BY <3>1, <3>2
  <2>3. QED
    BY <2>1, <2>2
<1> HIDE DEF n, tt
<1>5. PICK g : /\ Flattens(g, tt, n + 1) /\ FlattenSeq(tt) = g[n + 1]
  BY <1>1, <1>2, FlattenChooses
<1>6. g[n + 1] = IF n + 1 = 1 THEN tt[n + 1] ELSE g[(n + 1) - 1] \o tt[n + 1]
  <2>1. n + 1 \in 1..(n + 1)
    BY <1>1
  <2>2. QED
    BY <1>5, <2>1, Zenon DEF Flattens
<1>7. CASE n = 0
  <2>1. g[n + 1] = x
    BY <1>2, <1>6, <1>7
  <2>2. <<>> \o x = x
    BY ConcatEmptySeq
  <2>3. QED
    BY <1>3, <1>4, <1>5, <1>7, <2>1, <2>2 DEF tt
<1>8. CASE n # 0
  <2>0. n + 1 # 1 /\ (n + 1) - 1 = n /\ n + 1 \in Nat /\ n =< n + 1
    BY <1>1, <1>8
  <2>1. g[n + 1] = g[n] \o x
    <3>1. g[n + 1] = g[(n + 1) - 1] \o tt[n + 1]
      BY <1>6, <2>0
    <3>2. QED
      BY <1>2, <2>0, <3>1, Zenon
  <2>2. PICK f : Flattens(f, ss, n) /\ FlattenSeq(ss) = f[n]
    BY <1>8, FlattenChooses DEF n
  <2>3. Agree(f, g, n)
    <3>1. PICK m \in Nat : n =< m /\ Flattens(g, tt, m)
      BY <1>5, <2>0
    <3>2. Agree(ss, tt, n)
      BY <1>2 DEF Agree
    <3>3. QED
      BY <1>1, <2>2, <3>1, <3>2, FlattensAgree
  <2>4. f[n] = g[n]
    BY <1>1, <1>8, <2>3 DEF Agree
  <2>5. QED
    BY <1>4, <1>5, <2>1, <2>2, <2>4 DEF tt
<1>9. QED
  BY <1>7, <1>8

-----------------------------------------------------------------------------
(* Heads *)

\* Or-ing into a byte without bits, or into bits the method does not have, adds.
LEMMA OrAdds ==
    /\ Or(0, 0) = 0
    /\ \A b \in {64, 96, 128, 208} : \A m \in 0..2 : Or(b, m) = b + m
    /\ \A m \in {121, 224, 231, 76, 155, 13, 199, 219} : Or(0, m) = m
<1>1. Or(0, 0) = 0
  BY DEF Or, Bit
<1>2. \A b \in {64, 96, 128, 208} : \A m \in 0..2 : Or(b, m) = b + m
  <2>1. ASSUME NEW m \in {0, 1, 2} PROVE Or(64, m) = 64 + m
    BY DEF Or, Bit
  <2>2. ASSUME NEW m \in {0, 1, 2} PROVE Or(96, m) = 96 + m
    BY DEF Or, Bit
  <2>3. ASSUME NEW m \in {0, 1, 2} PROVE Or(128, m) = 128 + m
    BY DEF Or, Bit
  <2>4. ASSUME NEW m \in {0, 1, 2} PROVE Or(208, m) = 208 + m
    BY DEF Or, Bit
  <2>5. \A m \in 0..2 : m \in {0, 1, 2}
    OBVIOUS
  <2>6. QED
    BY <2>1, <2>2, <2>3, <2>4, <2>5
<1>3. \A m \in {121, 224, 231, 76, 155, 13, 199, 219} : Or(0, m) = m
  <2>1. /\ Or(0, 121) = 121 /\ Or(0, 224) = 224 /\ Or(0, 231) = 231 /\ Or(0, 76) = 76
    BY DEF Or, Bit
  <2>2. /\ Or(0, 155) = 155 /\ Or(0, 13) = 13 /\ Or(0, 199) = 199 /\ Or(0, 219) = 219
    BY DEF Or, Bit
  <2>3. QED
    BY <2>1, <2>2
<1>4. QED
  BY <1>1, <1>2, <1>3

HeadWith(b1, b2, athn, trx) ==
    [byte1 |-> b1, byte2 |-> b2, hdrLen |-> HeadLen, athn |-> athn, trx |-> trx]

\* What the setters make of a head.
LEMMA SettersSet ==
    ASSUME NEW b1, NEW b2, NEW athn, NEW trx, NEW v
    PROVE  /\ SetMsgType(HeadWith(b1, b2, athn, trx), v)
                = HeadWith((b1 % 64) + 64 * v, b2, athn, trx)
           /\ SetMsgExchPtrn(HeadWith(b1, b2, athn, trx), v)
                = HeadWith((b1 \div 64) * 64 + 16 * v + (b1 % 16), b2, athn, trx)
           /\ SetMethodType(HeadWith(b1, b2, athn, trx), v)
                = HeadWith(Or(b1, v \div 256), Or(b2, v % 256), athn, trx)
<1> DEFINE h == HeadWith(b1, b2, athn, trx)
<1>1. \A w : [h EXCEPT !.byte1 = w] = HeadWith(w, b2, athn, trx)
  BY DEF HeadWith
<1>2. ASSUME NEW w, NEW x
      PROVE  [h EXCEPT !.byte1 = w, !.byte2 = x] = HeadWith(w, x, athn, trx)
  <2>1. [h EXCEPT !.byte1 = w, !.byte2 = x] = [[h EXCEPT !.byte1 = w] EXCEPT !.byte2 = x]
    BY DEF HeadWith
  <2>2. [HeadWith(w, b2, athn, trx) EXCEPT !.byte2 = x] = HeadWith(w, x, athn, trx)
    BY DEF HeadWith
  <2> HIDE DEF h
  <2>3. QED
    BY <1>1, <2>1, <2>2
<1>3. h.byte1 = b1 /\ h.byte2 = b2
  BY DEF HeadWith
<1> HIDE DEF h
<1>6. SetMsgType(h, v) = HeadWith((b1 % 64) + 64 * v, b2, athn, trx)
  BY <1>1, <1>3, Zenon DEF SetMsgType
<1>7. SetMsgExchPtrn(h, v) = HeadWith((b1 \div 64) * 64 + 16 * v + (b1 % 16), b2, athn, trx)
  BY <1>1, <1>3, Zenon DEF SetMsgExchPtrn
<1>8. SetMethodType(h, v) = HeadWith(Or(b1, v \div 256), Or(b2, v % 256), athn, trx)
  BY <1>2, <1>3, Zenon DEF SetMethodType
<1>10. QED
  BY <1>6, <1>7, <1>8, Zenon DEF h

\* The head that every init function starts from.
LEMMA InitHeadIs == InitHead = HeadWith(64, 0, "none", "new")
<1>1. InitHead = SetMethodType(SetMsgExchPtrn(SetMsgType(HeadWith(0, 0, "none", "new"), 1), 0), 0)
  BY DEF InitHead, HeadWith, Request, NoPtrn
<1>2. SetMsgType(HeadWith(0, 0, "none", "new"), 1) = HeadWith(64, 0, "none", "new")
  BY SettersSet
<1>3. SetMsgExchPtrn(HeadWith(64, 0, "none", "new"), 0) = HeadWith(64, 0, "none", "new")
  BY SettersSet
<1>4. SetMethodType(HeadWith(64, 0, "none", "new"), 0) = HeadWith(64, 0, "none", "new")
  BY SettersSet, OrAdds
<1>5. QED
  BY <1>1, <1>2, <1>3, <1>4

\* The heads a method is put into.
LEMMA BaseHeads ==
    /\ OnewayReq = HeadWith(96, 0, "none", "new")
    /\ ResponseHead = HeadWith(128, 0, "none", "new")
    /\ ReportHead = HeadWith(208, 0, "none", "new")
<1>1. InitHead = HeadWith(64, 0, "none", "new")
  BY InitHeadIs
<1>2. /\ SetMsgType(HeadWith(64, 0, "none", "new"), 1) = HeadWith(64, 0, "none", "new")
      /\ SetMsgExchPtrn(HeadWith(64, 0, "none", "new"), 2) = HeadWith(96, 0, "none", "new")
  BY SettersSet
<1>3. SetMsgType(HeadWith(64, 0, "none", "new"), 2) = HeadWith(128, 0, "none", "new")
  BY SettersSet
<1>4. /\ SetMsgType(HeadWith(64, 0, "none", "new"), 3) = HeadWith(192, 0, "none", "new")
      /\ SetMsgExchPtrn(HeadWith(192, 0, "none", "new"), 1) = HeadWith(208, 0, "none", "new")
  BY SettersSet
<1>5. OnewayReq = HeadWith(96, 0, "none", "new")
  BY <1>1, <1>2, Zenon DEF OnewayReq, Request, OneWayAck
<1>6. ResponseHead = HeadWith(128, 0, "none", "new")
  BY <1>1, <1>3, Zenon DEF ResponseHead, Response
<1>7. ReportHead = HeadWith(208, 0, "none", "new")
  BY <1>1, <1>4, Zenon DEF ReportHead, Report, OneWay
<1>8. QED
  BY <1>5, <1>6, <1>7

\* The method goes into bits that are free.
LEMMA MethodSet ==
    ASSUME NEW b \in {96, 128, 208}, NEW athn, NEW trx
    PROVE  /\ SetMethodType(HeadWith(b, 0, athn, trx), 121) = HeadWith(b, 121, athn, trx)
           /\ SetMethodType(HeadWith(b, 0, athn, trx), 224) = HeadWith(b, 224, athn, trx)
           /\ SetMethodType(HeadWith(b, 0, athn, trx), 231) = HeadWith(b, 231, athn, trx)
           /\ SetMethodType(HeadWith(b, 0, athn, trx), 332) = HeadWith(b + 1, 76, athn, trx)
           /\ SetMethodType(HeadWith(b, 0, athn, trx), 411) = HeadWith(b + 1, 155, athn, trx)
           /\ SetMethodType(HeadWith(b, 0, athn, trx), 525) = HeadWith(b + 2, 13, athn, trx)
           /\ SetMethodType(HeadWith(b, 0, athn, trx), 711) = HeadWith(b + 2, 199, athn, trx)
           /\ SetMethodType(HeadWith(b, 0, athn, trx), 731) = HeadWith(b + 2, 219, athn, trx)
<1>1. /\ Or(b, 0) = b /\ Or(b, 1) = b + 1 /\ Or(b, 2) = b + 2
      /\ \A m \in {121, 224, 231, 76, 155, 13, 199, 219} : Or(0, m) = m
  BY OrAdds
<1>2. \A v : SetMethodType(HeadWith(b, 0, athn, trx), v)
               = HeadWith(Or(b, v \div 256), Or(0, v % 256), athn, trx)
  BY SettersSet
<1>3. SetMethodType(HeadWith(b, 0, athn, trx), 121) = HeadWith(b, 121, athn, trx)
  BY <1>1, <1>2
<1>4. SetMethodType(HeadWith(b, 0, athn, trx), 224) = HeadWith(b, 224, athn, trx)
  BY <1>1, <1>2
<1>5. SetMethodType(HeadWith(b, 0, athn, trx), 231) = HeadWith(b, 231, athn, trx)
  BY <1>1, <1>2
<1>6. SetMethodType(HeadWith(b, 0, athn, trx), 332) = HeadWith(b + 1, 76, athn, trx)
  BY <1>1, <1>2
<1>7. SetMethodType(HeadWith(b, 0, athn, trx), 411) = HeadWith(b + 1, 155, athn, trx)
  BY <1>1, <1>2
<1>8. SetMethodType(HeadWith(b, 0, athn, trx), 525) = HeadWith(b + 2, 13, athn, trx)
  BY <1>1, <1>2
<1>9. SetMethodType(HeadWith(b, 0, athn, trx), 711) = HeadWith(b + 2, 199, athn, trx)
  BY <1>1, <1>2
<1>10. SetMethodType(HeadWith(b, 0, athn, trx), 731) = HeadWith(b + 2, 219, athn, trx)
  BY <1>1, <1>2
<1>11. QED
  BY <1>3, <1>4, <1>5, <1>6, <1>7, <1>8, <1>9, <1>10

\* The flags that stand beside them.
LEMMA FlagsSet ==
    ASSUME NEW b1, NEW b2, NEW athn, NEW trx
    PROVE  /\ Authn(HeadWith(b1, b2, athn, trx)) = HeadWith(b1, b2, "given", trx)
           /\ GivenTrx(HeadWith(b1, b2, athn, trx)) = HeadWith(b1, b2, athn, "given")
<1>1. [HeadWith(b1, b2, athn, trx) EXCEPT !.athn = "given"] = HeadWith(b1, b2, "given", trx)
  BY DEF HeadWith
<1>2. [HeadWith(b1, b2, athn, trx) EXCEPT !.trx = "given"] = HeadWith(b1, b2, athn, "given")
  BY DEF HeadWith
<1>3. QED
  BY <1>1, <1>2, Zenon DEF Authn, GivenTrx

\* A head of these bytes says this.
Tells(k, b1, b2) == Says(k) = <<b1 \div 64, (b1 \div 16) % 4, (b1 % 16) * 256 + b2>>
Heads(k, b1, b2) ==
    /\ \E athn \in {"none", "given"}, trx \in {"new", "given"} :
          HeadOf(k) = HeadWith(b1, b2, athn, trx)
    /\ Tells(k, b1, b2)

\* The head an init function makes says what a packet of its kind is to say.
LEMMA HeadsSay ==
    ASSUME NEW k \in Kinds
    PROVE  \E b1, b2 \in 0..255 : Heads(k, b1, b2)
<1>1. /\ OnewayReq = HeadWith(96, 0, "none", "new")
      /\ ResponseHead = HeadWith(128, 0, "none", "new")
      /\ ReportHead = HeadWith(208, 0, "none", "new")
  BY BaseHeads
<1>2. CASE k = "121_req"
  <2>1. SetMethodType(HeadWith(96, 0, "none", "new"), 121) = HeadWith(96, 121, "none", "new")
    BY MethodSet
  <2>2. HeadOf("121_req") = SetMethodType(OnewayReq, 121)
    BY DEF HeadOf
  <2>3. HeadOf("121_req") = HeadWith(96, 121, "none", "new")
    BY <1>1, <2>1, <2>2
  <2>4. Tells("121_req", 96, 121)
    BY DEF Tells, Says, Request, Response, Report, NoPtrn, OneWay, OneWayAck
  <2>5. Heads(k, 96, 121)
    BY <1>2, <2>3, <2>4 DEF Heads
  <2>6. 96 \in 0..255 /\ 121 \in 0..255
    OBVIOUS
  <2>7. QED
    BY <2>5, <2>6
<1>3. CASE k = "224_req"
  <2>1. SetMethodType(HeadWith(96, 0, "none", "new"), 224) = HeadWith(96, 224, "none", "new")
    BY MethodSet
  <2>2. HeadOf("224_req") = SetMethodType(OnewayReq, 224)
    BY DEF HeadOf
  <2>3. HeadOf("224_req") = HeadWith(96, 224, "none", "new")
    BY <1>1, <2>1, <2>2
  <2>4. Tells("224_req", 96, 224)
    BY DEF Tells, Says, Request, Response, Report, NoPtrn, OneWay, OneWayAck
  <2>5. Heads(k, 96, 224)
    BY <1>3, <2>3, <2>4 DEF Heads
  <2>6. 96 \in 0..255 /\ 224 \in 0..255
    OBVIOUS
  <2>7. QED
    BY <2>5, <2>6
<1>4. CASE k = "231_req"
  <2>1. SetMethodType(HeadWith(96, 0, "none", "new"), 231) = HeadWith(96, 231, "none", "new")
    BY MethodSet
  <2>2. HeadOf("231_req") = Authn(SetMethodType(OnewayReq, 231))
    BY DEF HeadOf
  <2>3. Authn(HeadWith(96, 231, "none", "new")) = HeadWith(96, 231, "given", "new")
    BY FlagsSet
  <2>4. HeadOf("231_req") = HeadWith(96, 231, "given", "new")
    BY <1>1, <2>1, <2>2, <2>3
  <2>5. Tells("231_req", 96, 231)
    BY DEF Tells, Says, Request, Response, Report, NoPtrn, OneWay, OneWayAck
  <2>6. Heads(k, 96, 231)
    BY <1>4, <2>4, <2>5 DEF Heads
  <2>7. 96 \in 0..255 /\ 231 \in 0..255
    OBVIOUS
  <2>8. QED
    BY <2>6, <2>7
<1>5. CASE k = "332_req"
  <2>1. SetMethodType(HeadWith(96, 0, "none", "new"), 332) = HeadWith(97, 76, "none", "new")
    BY MethodSet
  <2>2. HeadOf("332_req") = Authn(SetMethodType(OnewayReq, 332))
    BY DEF HeadOf
  <2>3. Authn(HeadWith(97, 76, "none", "new")) = HeadWith(97, 76, "given", "new")
    BY FlagsSet
  <2>4. HeadOf("332_req") = HeadWith(97, 76, "given", "new")
    BY <1>1, <2>1, <2>2, <2>3
  <2>5. Tells("332_req", 97, 76)
    BY DEF Tells, Says, Request, Response, Report, NoPtrn, OneWay, OneWayAck
  <2>6. Heads(k, 97, 76)
    BY <1>5, <2>4, <2>5 DEF Heads
  <2>7. 97 \in 0..255 /\ 76 \in 0..255
    OBVIOUS
  <2>8. QED
    BY <2>6, <2>7
<1>6. CASE k = "411_req"
  <2>1. SetMethodType(HeadWith(96, 0, "none", "new"), 411) = HeadWith(97, 155, "none", "new")
    BY MethodSet
  <2>2. HeadOf("411_req") = Authn(SetMethodType(OnewayReq, 411))
    BY DEF HeadOf
  <2>3. Authn(HeadWith(97, 155, "none", "new")) = HeadWith(97, 155, "given", "new")
    BY FlagsSet
  <2>4. HeadOf("411_req") = HeadWith(97, 155, "given", "new")
    BY <1>1, <2>1, <2>2, <2>3
  <2>5. Tells("411_req", 97, 155)
    BY DEF Tells, Says, Request, Response, Report, NoPtrn, OneWay, OneWayAck
  <2>6. Heads(k, 97, 155)
    BY <1>6, <2>4, <2>5 DEF Heads
  <2>7. 97 \in 0..255 /\ 155 \in 0..255
    OBVIOUS
  <2>8. QED
    BY <2>6, <2>7
<1>7. CASE k = "525_res"
  <2>1. SetMethodType(HeadWith(128, 0, "none", "new"), 525) = HeadWith(130, 13, "none", "new")
    BY MethodSet
  <2>2. HeadOf("525_res") = GivenTrx(Authn(SetMethodType(ResponseHead, 525)))
    BY DEF HeadOf
  <2>3. Authn(HeadWith(130, 13, "none", "new")) = HeadWith(130, 13, "given", "new")
    BY FlagsSet
  <2>4. GivenTrx(HeadWith(130, 13, "given", "new")) = HeadWith(130, 13, "given", "given")
    BY FlagsSet
  <2>5. HeadOf("525_res") = HeadWith(130, 13, "given", "given")
    BY <1>1, <2>1, <2>2, <2>3, <2>4
  <2>6. Tells("525_res", 130, 13)
    BY DEF Tells, Says, Request, Response, Report, NoPtrn, OneWay, OneWayAck
  <2>7. Heads(k, 130, 13)
    BY <1>7, <2>5, <2>6 DEF Heads
  <2>8. 130 \in 0..255 /\ 13 \in 0..255
    OBVIOUS
  <2>9. QED
    BY <2>7, <2>8
<1>8. CASE k = "525_rep"
  <2>1. SetMethodType(HeadWith(208, 0, "none", "new"), 525) = HeadWith(210, 13, "none", "new")
    BY MethodSet
  <2>2. HeadOf("525_rep") = GivenTrx(Authn(SetMethodType(ReportHead, 525)))
    BY DEF HeadOf
  <2>3. Authn(HeadWith(210, 13, "none", "new")) = HeadWith(210, 13, "given", "new")
    BY FlagsSet
  <2>4. GivenTrx(HeadWith(210, 13, "given", "new")) = HeadWith(210, 13, "given", "given")
    BY FlagsSet
  <2>5. HeadOf("525_rep") = HeadWith(210, 13, "given", "given")
    BY <1>1, <2>1, <2>2, <2>3, <2>4
  <2>6. Tells("525_rep", 210, 13)
    BY DEF Tells, Says, Request, Response, Report, NoPtrn, OneWay, OneWayAck
  <2>7. Heads(k, 210, 13)
    BY <1>8, <2>5, <2>6 DEF Heads
  <2>8. 210 \in 0..255 /\ 13 \in 0..255
    OBVIOUS
  <2>9. QED
    BY <2>7, <2>8
<1>9. CASE k = "711_res"
  <2>1. SetMethodType(HeadWith(128, 0, "none", "new"), 711) = HeadWith(130, 199, "none", "new")
    BY MethodSet
  <2>2. HeadOf("711_res") = GivenTrx(Authn(SetMethodType(ResponseHead, 711)))
    BY DEF HeadOf
  <2>3. Authn(HeadWith(130, 199, "none", "new")) = HeadWith(130, 199, "given", "new")
    BY FlagsSet
  <2>4. GivenTrx(HeadWith(130, 199, "given", "new")) = HeadWith(130, 199, "given", "given")
    BY FlagsSet
  <2>5. HeadOf("711_res") = HeadWith(130, 199, "given", "given")
    BY <1>1, <2>1, <2>2, <2>3, <2>4
  <2>6. Tells("711_res", 130, 199)
    BY DEF Tells, Says, Request, Response, Report, NoPtrn, OneWay, OneWayAck
  <2>7. Heads(k, 130, 199)
    BY <1>9, <2>5, <2>6 DEF Heads
  <2>8. 130 \in 0..255 /\ 199 \in 0..255
    OBVIOUS
  <2>9. QED
    BY <2>7, <2>8
<1>10. CASE k = "731_req"
  <2>1. SetMethodType(HeadWith(96, 0, "none", "new"), 731) = HeadWith(98, 219, "none", "new")
    BY MethodSet
  <2>2. HeadOf("731_req") = SetMethodType(OnewayReq, 731)
    BY DEF HeadOf
  <2>3. HeadOf("731_req") = HeadWith(98, 219, "none", "new")
    BY <1>1, <2>1, <2>2
  <2>4. Tells("731_req", 98, 219)
    BY DEF Tells, Says, Request, Response, Report, NoPtrn, OneWay, OneWayAck
  <2>5. Heads(k, 98, 219)
    BY <1>10, <2>3, <2>4 DEF Heads
  <2>6. 98 \in 0..255 /\ 219 \in 0..255
    OBVIOUS
  <2>7. QED
    BY <2>5, <2>6
<1>11. QED
  BY <1>2, <1>3, <1>4, <1>5, <1>6, <1>7, <1>8, <1>9, <1>10 DEF Kinds

-----------------------------------------------------------------------------
(* The fields on the wire *)

\* Division by ByteMod.
LEMMA Divided ==
    ASSUME NEW n \in Nat
    PROVE  /\ n % ByteMod \in Nat /\ n \div ByteMod \in Nat
           /\ (n \div ByteMod) * ByteMod + (n % ByteMod) = n
           /\ n < ByteMod => n % ByteMod = n /\ n \div ByteMod = 0
<1>1. ByteMod \in Nat /\ ByteMod > 0
  BY PacketAssumption
<1>2. n % ByteMod \in 0..(ByteMod - 1)
  BY <1>1
<1>3. n \div ByteMod \in Int /\ n = ByteMod * (n \div ByteMod) + (n % ByteMod)
  BY <1>1
<1>4. n \div ByteMod \in Nat
  BY <1>1, <1>2, <1>3
<1>5. n < ByteMod => n \div ByteMod = 0
  BY <1>1, <1>2, <1>3, <1>4
<1>6. QED
  BY <1>1, <1>2, <1>3, <1>4, <1>5

\* A field's texts are sequences of bytes.
LEMMA FieldTexts ==
    ASSUME NEW e \in Fields
    PROVE  e.key \in Seq(Nat) /\ e.val \in Seq(Nat) /\ Len(e.key) \in Nat /\ Len(e.val) \in Nat
<1>1. e \in [key : Seq(1..(ByteMod - 1)), val : Seq(1..(ByteMod - 1))]
  BY PacketAssumption
<1>2. 1..(ByteMod - 1) \subseteq Nat
  BY PacketAssumption
<1>3. QED
  BY <1>1, <1>2, SeqMonotonic, LenProperties

\* One sequence behind another.
IsBehind(u, s, t, m, n) ==
    /\ Len(u) = m + n
    /\ \A i \in 1..m : u[i] = s[i]
    /\ \A i \in 1..n : u[m + i] = t[i]

\* What stands behind other bytes.
LEMMA Behind ==
    ASSUME NEW S, NEW s \in Seq(S), NEW t \in Seq(S)
    PROVE  s \o t \in Seq(S) /\ IsBehind(s \o t, s, t, Len(s), Len(t))
<1>0. PICK m \in Nat, n \in Nat : m = Len(s) /\ n = Len(t)
  BY LenProperties
<1>1. PICK u : u = s \o t
  OBVIOUS
<1>2. /\ u \in Seq(S) /\ Len(u) = m + n
      /\ \A i \in 1..(m + n) : u[i] = IF i =< m THEN s[i] ELSE t[i - m]
  BY <1>0, <1>1, ConcatProperties
<1>3. \A i \in 1..m : u[i] = s[i]
  BY <1>2
<1>4. ASSUME NEW i \in 1..n PROVE u[m + i] = t[i]
  <2>1. m + i \in 1..(m + n) /\ ~(m + i =< m) /\ (m + i) - m = i
    OBVIOUS
  <2>2. u[m + i] = t[(m + i) - m]
    BY <1>2, <2>1
  <2>3. QED
    BY <2>1, <2>2
<1>5. QED
  BY <1>0, <1>1, <1>2, <1>3, <1>4 DEF IsBehind

\* What is where in a field of k bytes of key and n bytes of value.
FieldHas(f, e, high, low, k, n) ==
    /\ f \in Seq(Nat) /\ Len(f) = k + 3 + n
    /\ f[1] = k % ByteMod
    /\ \A j \in 1..k : f[1 + j] = e.key[j]
    /\ f[k + 2] = high /\ f[k + 3] = low
    /\ \A j \in 1..n : f[k + 3 + j] = e.val[j]

\* The bytes of a field.
LEMMA FieldBytes ==
    ASSUME NEW e \in Fields, NEW high \in Nat, NEW low \in Nat
    PROVE  FieldHas(Field(e, high, low), e, high, low, Len(e.key), Len(e.val))
<1>1. PICK k \in Nat, n \in Nat : k = Len(e.key) /\ n = Len(e.val)
  BY FieldTexts
<1>2. e.key \in Seq(Nat) /\ e.val \in Seq(Nat) /\ k % ByteMod \in Nat
  BY FieldTexts, Divided
<1>3. PICK a : a = <<k % ByteMod>>
  OBVIOUS
<1>4. a \in Seq(Nat) /\ Len(a) = 1 /\ a[1] = k % ByteMod
  BY <1>2, <1>3
<1>5. PICK b : b = a \o e.key
  OBVIOUS
<1>6. b \in Seq(Nat) /\ IsBehind(b, a, e.key, 1, k)
  BY <1>1, <1>2, <1>4, <1>5, Behind
<1>7. PICK d : d = <<high, low>>
  OBVIOUS
<1>8. d \in Seq(Nat) /\ Len(d) = 2 /\ d[1] = high /\ d[2] = low
  BY <1>7
<1>9. PICK c : c = b \o d
  OBVIOUS
<1>10. c \in Seq(Nat) /\ IsBehind(c, b, d, 1 + k, 2)
  <2>1. c \in Seq(Nat) /\ IsBehind(c, b, d, Len(b), Len(d))
    BY <1>6, <1>8, <1>9, Behind
  <2>2. Len(b) = 1 + k
    BY <1>6 DEF IsBehind
  <2>3. QED
    BY <1>8, <2>1, <2>2
<1>11. PICK f : f = c \o e.val
  OBVIOUS
<1>12. f \in Seq(Nat) /\ IsBehind(f, c, e.val, k + 3, n)
  <2>1. k + 3 \in Nat /\ Len(c) = k + 3
    BY <1>10 DEF IsBehind
  <2>2. QED
    BY <1>1, <1>2, <1>10, <1>11, <2>1, Behind
<1>13. f = Field(e, high, low)
  BY <1>1, <1>3, <1>5, <1>7, <1>9, <1>11, Zenon DEF Field
<1>14. f[1] = k % ByteMod /\ \A j \in 1..k : f[1 + j] = e.key[j]
  <2>1. \A i \in 1..(1 + k) : f[i] = b[i]
    BY <1>10, <1>12 DEF IsBehind
  <2>2. QED
    BY <1>4, <1>6, <2>1 DEF IsBehind
<1>15. f[k + 2] = high /\ f[k + 3] = low
  <2>1. c[(1 + k) + 1] = d[1] /\ c[(1 + k) + 2] = d[2]
    BY <1>10 DEF IsBehind
  <2>2. /\ (1 + k) + 1 = k + 2 /\ (1 + k) + 2 = k + 3
        /\ k + 2 \in 1..(k + 3) /\ k + 3 \in 1..(k + 3)
    OBVIOUS
  <2>3. QED
    BY <1>8, <1>12, <2>1, <2>2 DEF IsBehind
<1>16. FieldHas(f, e, high, low, k, n)
  BY <1>12, <1>14, <1>15 DEF FieldHas, IsBehind
<1>17. QED
  BY <1>1, <1>13, <1>16

\* A field as the platform writes it.
Coded(e) == Field(e, Len(e.val) \div ByteMod, Len(e.val) % ByteMod)

\* The parts of a field on the wire.
LEMMA CodedHas ==
    ASSUME NEW e \in Fields
    PROVE  /\ Coded(e) \in Seq(Nat)
           /\ FieldHas(Coded(e), e, Len(e.val) \div ByteMod, Len(e.val) % ByteMod,
                       Len(e.key), Len(e.val))
<1>1. Len(e.val) \in Nat
  BY FieldTexts
<1>2. PICK high \in Nat, low \in Nat : high = Len(e.val) \div ByteMod /\ low = Len(e.val) % ByteMod
  BY <1>1, Divided
<1>3. FieldHas(Field(e, high, low), e, high, low, Len(e.key), Len(e.val))
  BY FieldBytes
<1>4. FieldHas(Coded(e), e, Len(e.val) \div ByteMod, Len(e.val) % ByteMod, Len(e.key), Len(e.val))
  BY <1>2, <1>3 DEF Coded
<1>5. QED
  BY <1>4 DEF FieldHas

\* One field more is laid out behind the others.
LEMMA LayoutGrows ==
    ASSUME NEW ext \in Seq(Fields), NEW e \in Fields
    PROVE  Layout(ext) \in Seq(Nat) /\ Layout(Append(ext, e)) = Layout(ext) \o Coded(e)
<1> DEFINE n == Len(ext)
           more == Append(ext, e)
           codes(s) == [i \in DOMAIN s |-> Coded(s[i])]
<1>1. n \in Nat /\ DOMAIN ext = 1..n /\ \A i \in 1..n : ext[i] \in Fields
  BY LenProperties, ElementOfSeq
<1>2. more \in Seq(Fields) /\ Len(more) = n + 1 /\ more[n + 1] = e /\ \A i \in 1..n : more[i] = ext[i]
  BY AppendProperties
<1>3. DOMAIN more = 1..(n + 1)
  BY <1>2, LenProperties
<1>4. Layout(ext) = FlattenSeq(codes(ext)) /\ Layout(more) = FlattenSeq(codes(more))
  BY Zenon DEF Layout, Coded
<1> HIDE DEF n, more
<1>5. codes(ext) \in Seq(Seq(Nat)) /\ Len(codes(ext)) = n /\ \A i \in 1..n : codes(ext)[i] = Coded(ext[i])
  BY <1>1, CodedHas
<1>6. /\ codes(more) \in Seq(Seq(Nat)) /\ Len(codes(more)) = n + 1
      /\ \A i \in 1..(n + 1) : codes(more)[i] = Coded(more[i])
  <2>1. \A i \in 1..(n + 1) : more[i] \in Fields
    BY <1>2, ElementOfSeq
  <2>2. QED
    BY <1>1, <1>3, <2>1, CodedHas
<1> DEFINE cs == codes(ext)
           cm == codes(more)
<1> HIDE DEF cs, cm, codes
<1>7. cm = Append(cs, Coded(e))
  <2>1. Coded(e) \in Seq(Nat)
    BY CodedHas
  <2>2. PICK a : a = Append(cs, Coded(e))
    OBVIOUS
  <2>3. /\ a \in Seq(Seq(Nat)) /\ Len(a) = n + 1 /\ a[n + 1] = Coded(e)
        /\ \A i \in 1..n : a[i] = cs[i]
    BY <1>5, <2>1, <2>2, AppendProperties DEF cs
  <2>4. \A i \in 1..(n + 1) : a[i] = cm[i]
    <3>1. ASSUME NEW i \in 1..n PROVE a[i] = cm[i]
      <4>1. i \in 1..(n + 1) /\ more[i] = ext[i]
        BY <1>1, <1>2
      <4>2. QED
        BY <1>5, <1>6, <2>3, <4>1 DEF cs, cm
    <3>2. a[n + 1] = cm[n + 1]
      <4>1. n + 1 \in 1..(n + 1)
        BY <1>1
      <4>2. QED
        BY <1>2, <1>6, <2>3, <4>1 DEF cm
    <3>3. \A i \in 1..(n + 1) : i \in 1..n \/ i = n + 1
      BY <1>1
    <3>4. QED
      BY <3>1, <3>2, <3>3
  <2>5. cm \in Seq(Seq(Nat)) /\ Len(cm) = n + 1
    BY <1>6 DEF cm
  <2>6. QED
    BY <2>2, <2>3, <2>4, <2>5, SeqEqual
<1>8. Coded(e) \in Seq(Nat) /\ cs \in Seq(Seq(Nat))
  BY <1>5, CodedHas DEF cs
<1>9. FlattenSeq(cs) \in Seq(Nat) /\ FlattenSeq(Append(cs, Coded(e))) = FlattenSeq(cs) \o Coded(e)
  BY <1>8, FlattenAppends
<1>10. QED
  BY <1>4, <1>7, <1>9 DEF cs, cm, more

\* Any extension is laid out as bytes.
LEMMA LayoutBytes ==
    ASSUME NEW ext \in Seq(Fields)
    PROVE  Layout(ext) \in Seq(Nat) /\ Len(Layout(ext)) \in Nat
<1>1. Layout(ext) \in Seq(Nat)
  <2>1. DOMAIN ext = 1..Len(ext) /\ Len(ext) \in Nat /\ \A i \in 1..Len(ext) : ext[i] \in Fields
    BY LenProperties, ElementOfSeq
  <2>2. [i \in DOMAIN ext |-> Coded(ext[i])] \in Seq(Seq(Nat))
    BY <2>1, CodedHas
  <2>3. <<>> \in Seq(Nat)
    OBVIOUS
  <2>4. FlattenSeq([i \in DOMAIN ext |-> Coded(ext[i])]) \in Seq(Nat)
    BY <2>2, <2>3, FlattenAppends
  <2>5. Layout(ext) = FlattenSeq([i \in DOMAIN ext |-> Coded(ext[i])])
    BY Zenon DEF Layout, Coded
  <2>6. QED
    BY <2>4, <2>5
<1>2. QED
  BY <1>1, LenProperties

\* Without fields there is nothing to lay out.
LEMMA LayoutEmpty == Layout(<<>>) = <<>>
<1>1. Len([i \in DOMAIN <<>> |-> Coded(<<>>[i])]) = 0 /\ [i \in DOMAIN <<>> |-> Coded(<<>>[i])] = <<>>
  OBVIOUS
<1>2. Layout(<<>>) = FlattenSeq([i \in DOMAIN <<>> |-> Coded(<<>>[i])])
  BY Zenon DEF Layout, Coded
<1>3. QED
  BY <1>1, <1>2 DEF FlattenSeq

\* The first k fields, and the bytes they take.
Upto(ext, k) == SubSeq(ext, 1, k)
At(ext, k) == Len(Layout(Upto(ext, k)))

\* One field more of an extension.
LEMMA UptoMore ==
    ASSUME NEW ext \in Seq(Fields), NEW k \in Nat, k < Len(ext)
    PROVE  /\ Upto(ext, k) \in Seq(Fields) /\ ext[k + 1] \in Fields
           /\ Upto(ext, k + 1) = Append(Upto(ext, k), ext[k + 1])
<1>1. PICK n \in Nat : n = Len(ext)
  BY LenProperties
<1>2. \A i \in 1..n : ext[i] \in Fields
  BY <1>1, ElementOfSeq
<1>3. \A i \in 1..k : ext[i] \in Fields
  BY <1>1, <1>2
<1>4. PICK s : s = Upto(ext, k)
  OBVIOUS
<1>5. s \in Seq(Fields) /\ Len(s) = k
  BY <1>3, <1>4, SubSeqProperties DEF Upto
<1>6. ext[k + 1] \in Fields
  BY <1>1, <1>2
<1>7. k + 1 \in 1..Len(ext) /\ 1 \in 1..Len(ext) /\ k + 1 \in 1..Len(ext) /\ (k + 1) - 1 = k
  BY <1>1
<1>8. Upto(ext, k + 1) = s \o <<ext[k + 1]>>
  BY <1>4, <1>7, SubSeqRecursiveSecond DEF Upto
<1>9. Append(s, ext[k + 1]) = s \o <<ext[k + 1]>>
  BY <1>5, <1>6, AppendIsConcat
<1>10. QED
  BY <1>4, <1>5, <1>6, <1>8, <1>9

\* So the bytes of the first k + 1 fields are those of the first k and those of the next.
LEMMA UptoBytes ==
    ASSUME NEW ext \in Seq(Fields), NEW k \in Nat, k < Len(ext)
    PROVE  /\ Layout(Upto(ext, k)) \in Seq(Nat) /\ At(ext, k) \in Nat
           /\ Layout(Upto(ext, k + 1)) \in Seq(Nat) /\ At(ext, k + 1) \in Nat
           /\ IsBehind(Layout(Upto(ext, k + 1)), Layout(Upto(ext, k)), Coded(ext[k + 1]),
                       At(ext, k), Len(Coded(ext[k + 1])))
<1>1. PICK s \in Seq(Fields), e \in Fields : s = Upto(ext, k) /\ e = ext[k + 1]
  BY UptoMore
<1>2. Upto(ext, k + 1) = Append(s, e)
  BY <1>1, UptoMore
<1>3. Layout(s) \in Seq(Nat) /\ Layout(Append(s, e)) = Layout(s) \o Coded(e) /\ Coded(e) \in Seq(Nat)
  BY LayoutGrows, CodedHas
<1>4. /\ Layout(s) \o Coded(e) \in Seq(Nat)
      /\ IsBehind(Layout(s) \o Coded(e), Layout(s), Coded(e), Len(Layout(s)), Len(Coded(e)))
  BY <1>3, Behind
<1>5. Len(Layout(s)) \in Nat /\ Len(Layout(s) \o Coded(e)) \in Nat
  BY <1>3, <1>4, LenProperties
<1>6. QED
  BY <1>1, <1>2, <1>3, <1>4, <1>5 DEF At

\* Field k + 1 stands behind the first k, whatever number n of fields there are.
Stands(ext, k, n) ==
    LET c == Coded(ext[k + 1])
    IN  /\ At(ext, n) \in Nat /\ At(ext, k) + Len(c) =< At(ext, n)
        /\ \A j \in 1..Len(c) : Layout(Upto(ext, n))[At(ext, k) + j] = c[j]

\* The fields of an extension stand in its bytes where At says.
LEMMA FieldsStand ==
    ASSUME NEW ext \in Seq(Fields), NEW k \in Nat, NEW n \in Nat, k < n, n =< Len(ext)
    PROVE  Stands(ext, k, n)
<1> DEFINE T == {d \in Nat : (k + 1) + d =< Len(ext) => Stands(ext, k, (k + 1) + d)}
<1>1. PICK size \in Nat : size = Len(ext)
  BY LenProperties
<1>2. PICK c : c = Coded(ext[k + 1])
  OBVIOUS
<1>3. Len(c) \in Nat
  <2>1. k < Len(ext)
    BY <1>1
  <2>2. ext[k + 1] \in Fields
    BY <2>1, UptoMore
  <2>3. QED
    BY <1>2, <2>2, CodedHas, LenProperties
<1>4. (k + 1) + 0 =< Len(ext) => Stands(ext, k, (k + 1) + 0)
  <2>1. SUFFICES ASSUME k < Len(ext) PROVE Stands(ext, k, k + 1)
    BY <1>1
  <2>2. /\ At(ext, k) \in Nat /\ At(ext, k + 1) \in Nat
        /\ IsBehind(Layout(Upto(ext, k + 1)), Layout(Upto(ext, k)), c, At(ext, k), Len(c))
    BY <1>2, <2>1, UptoBytes
  <2>3. At(ext, k + 1) = At(ext, k) + Len(c)
    BY <2>2 DEF IsBehind, At
  <2>4. \A j \in 1..Len(c) : Layout(Upto(ext, k + 1))[At(ext, k) + j] = c[j]
    BY <2>2 DEF IsBehind
  <2>5. QED
    BY <1>2, <1>3, <2>2, <2>3, <2>4 DEF Stands
<1>5. ASSUME NEW m \in Nat, k < m, m + 1 =< Len(ext), Stands(ext, k, m)
      PROVE  Stands(ext, k, m + 1)
  <2>1. m < Len(ext)
    BY <1>1, <1>5
  <2>2. PICK d : d = Coded(ext[m + 1])
    OBVIOUS
  <2>3. Len(d) \in Nat
    <3>1. ext[m + 1] \in Fields
      BY <2>1, UptoMore
    <3>2. QED
      BY <2>2, <3>1, CodedHas, LenProperties
  <2>4. /\ At(ext, m) \in Nat /\ At(ext, m + 1) \in Nat
        /\ IsBehind(Layout(Upto(ext, m + 1)), Layout(Upto(ext, m)), d, At(ext, m), Len(d))
    BY <2>1, <2>2, UptoBytes
  <2>5. At(ext, m + 1) = At(ext, m) + Len(d)
    BY <2>4 DEF IsBehind, At
  <2>6. \A i \in 1..At(ext, m) : Layout(Upto(ext, m + 1))[i] = Layout(Upto(ext, m))[i]
    BY <2>4 DEF IsBehind
  <2>7. At(ext, k) \in Nat
    <3>1. k < Len(ext)
      BY <1>1, <1>5
    <3>2. QED
      BY <3>1, UptoBytes
  <2>8. /\ At(ext, k) + Len(c) =< At(ext, m)
        /\ \A j \in 1..Len(c) : Layout(Upto(ext, m))[At(ext, k) + j] = c[j]
    BY <1>2, <1>5 DEF Stands
  <2>9. \A j \in 1..Len(c) : At(ext, k) + j \in 1..At(ext, m)
    BY <1>3, <2>4, <2>7, <2>8
  <2>10. \A j \in 1..Len(c) : Layout(Upto(ext, m + 1))[At(ext, k) + j] = c[j]
    BY <2>6, <2>8, <2>9
  <2>11. At(ext, k) + Len(c) =< At(ext, m + 1)
    BY <1>3, <2>3, <2>4, <2>5, <2>7, <2>8
  <2>12. QED
    BY <1>2, <2>4, <2>10, <2>11 DEF Stands
<1>6. 0 \in T
  BY <1>4
<1>7. ASSUME NEW d \in Nat, d \in T PROVE d + 1 \in T
  <2>1. SUFFICES ASSUME (k + 1) + (d + 1) =< Len(ext) PROVE Stands(ext, k, (k + 1) + (d + 1))
    OBVIOUS
  <2>2. PICK m \in Nat : m = (k + 1) + d
    OBVIOUS
  <2>3. k < m /\ m + 1 =< Len(ext) /\ m =< Len(ext) /\ m + 1 = (k + 1) + (d + 1)
    BY <1>1, <2>1, <2>2
  <2>4. Stands(ext, k, m)
    BY <1>7, <2>2, <2>3
  <2>5. Stands(ext, k, m + 1)
    BY <1>5, <2>3, <2>4
  <2>6. QED
    BY <2>3, <2>5
<1> HIDE DEF T
<1>8. \A d \in Nat : d \in T
  BY <1>6, <1>7, InductionOn
<1>9. PICK d \in Nat : n = (k + 1) + d
  <2>1. n - (k + 1) \in Nat /\ n = (k + 1) + (n - (k + 1))
    OBVIOUS
  <2>2. QED
    BY <2>1
<1>10. QED
  BY <1>8, <1>9 DEF T

\* A piece that has the bytes of a text is that text.
LEMMA PieceIs ==
    ASSUME NEW b, NEW from \in Nat, NEW s \in Seq(Nat),
           \A j \in 1..Len(s) : b[from + j] = s[j]
    PROVE  SubSeq(b, from + 1, from + Len(s)) = s
<1>1. PICK n \in Nat : n = Len(s)
  BY LenProperties
<1>2. PICK p : p = SubSeq(b, from + 1, from + n)
  OBVIOUS
<1>3. \A i \in (from + 1)..(from + n) : b[i] \in Nat
  <2>1. \A j \in 1..n : b[from + j] \in Nat
    BY <1>1, ElementOfSeq
  <2>2. ASSUME NEW i \in (from + 1)..(from + n) PROVE b[i] \in Nat
    <3>1. i - from \in 1..n /\ from + (i - from) = i
      OBVIOUS
    <3>2. QED
      BY <2>1, <3>1
  <2>3. QED
    BY <2>2
<1>4. PICK lo \in Int, hi \in Int : lo = from + 1 /\ hi = from + n
  OBVIOUS
<1>5. /\ p \in Seq(Nat) /\ Len(p) = IF lo =< hi THEN hi - lo + 1 ELSE 0
      /\ \A i \in 1..(hi - lo + 1) : p[i] = b[lo + i - 1]
  BY <1>2, <1>3, <1>4, SubSeqProperties
<1>6. Len(p) = n
  BY <1>4, <1>5
<1>7. ASSUME NEW j \in 1..n PROVE p[j] = s[j]
  <2>1. j \in 1..(hi - lo + 1) /\ lo + j - 1 = from + j
    BY <1>4
  <2>2. p[j] = b[from + j]
    BY <1>5, <2>1
  <2>3. QED
    BY <1>1, <2>2
<1>8. QED
  BY <1>1, <1>2, <1>5, <1>6, <1>7, SeqEqual

\* Reading at the place of field k + 1 gives that field and the place of the next.
LEMMA FieldIsRead ==
    ASSUME NEW ext \in Seq({e \in Fields : Fits(e)}), NEW k \in Nat, k < Len(ext)
    PROVE  LET b == Layout(ext)
               i == At(ext, k)
               keyLen == Len(ext[k + 1].key)
               valLen == Len(ext[k + 1].val)
           IN  /\ i \in Nat /\ i < Len(b) /\ Len(b) \in Nat
               /\ b[i + 1] = keyLen
               /\ b[i + keyLen + 2] * ByteMod + b[i + keyLen + 3] = valLen
               /\ SubSeq(b, i + 2, i + 1 + keyLen) = ext[k + 1].key
               /\ SubSeq(b, i + keyLen + 4, i + keyLen + 3 + valLen) = ext[k + 1].val
               /\ At(ext, k + 1) = i + keyLen + 3 + valLen
<1>1. ext \in Seq(Fields) /\ Len(ext) \in Nat
  BY SeqMonotonic, LenProperties
<1>2. PICK e : e = ext[k + 1]
  OBVIOUS
<1>3. e \in Fields /\ Fits(e)
  <2>1. k + 1 \in 1..Len(ext)
    BY <1>1
  <2>2. ext[k + 1] \in {f \in Fields : Fits(f)}
    BY <2>1, ElementOfSeq
  <2>3. QED
    BY <1>2, <2>2
<1>4. PICK kl \in Nat, vl \in Nat : kl = Len(e.key) /\ vl = Len(e.val)
  BY <1>3, FieldTexts
<1>5. PICK c : c = Coded(e)
  OBVIOUS
<1>6. FieldHas(c, e, vl \div ByteMod, vl % ByteMod, kl, vl)
  BY <1>3, <1>4, <1>5, CodedHas
<1>7. Len(c) = kl + 3 + vl
  BY <1>6 DEF FieldHas
<1>8. PICK b : b = Layout(ext)
  OBVIOUS
<1>9. PICK i \in Nat : i = At(ext, k)
  BY <1>1, UptoBytes
<1>10. Upto(ext, Len(ext)) = ext
  BY SubSeqFull DEF Upto
<1>11. /\ Len(b) \in Nat /\ i + Len(c) =< Len(b)
       /\ \A j \in 1..Len(c) : b[i + j] = c[j]
  <2>1. Stands(ext, k, Len(ext))
    BY <1>1, FieldsStand
  <2>2. At(ext, Len(ext)) = Len(b)
    BY <1>8, <1>10 DEF At
  <2>3. QED
    BY <1>2, <1>5, <1>8, <1>9, <1>10, <2>1, <2>2 DEF Stands
<1>12. At(ext, k + 1) = i + kl + 3 + vl
  <2>1. /\ At(ext, k + 1) = Len(Layout(Upto(ext, k + 1)))
        /\ IsBehind(Layout(Upto(ext, k + 1)), Layout(Upto(ext, k)), c, i, Len(c))
    BY <1>1, <1>2, <1>5, <1>9, UptoBytes DEF At
  <2>2. At(ext, k + 1) = i + Len(c)
    BY <2>1 DEF IsBehind
  <2>3. QED
    BY <1>7, <2>2
<1>13. b[i + 1] = kl
  <2>1. c[1] = kl % ByteMod
    BY <1>6 DEF FieldHas
  <2>2. kl < ByteMod
    BY <1>3, <1>4 DEF Fits
  <2>3. kl % ByteMod = kl
    BY <2>2, Divided
  <2>4. 1 \in 1..Len(c)
    BY <1>7
  <2>5. QED
    BY <1>11, <2>1, <2>3, <2>4
<1>14. b[i + kl + 2] * ByteMod + b[i + kl + 3] = vl
  <2>1. c[kl + 2] = vl \div ByteMod /\ c[kl + 3] = vl % ByteMod
    BY <1>6 DEF FieldHas
  <2>2. kl + 2 \in 1..Len(c) /\ kl + 3 \in 1..Len(c)
    BY <1>7
  <2>3. b[i + (kl + 2)] = vl \div ByteMod /\ b[i + (kl + 3)] = vl % ByteMod
    BY <1>11, <2>1, <2>2
  <2>4. i + (kl + 2) = i + kl + 2 /\ i + (kl + 3) = i + kl + 3
    OBVIOUS
  <2>5. (vl \div ByteMod) * ByteMod + (vl % ByteMod) = vl
    BY Divided
  <2>6. QED
    BY <2>3, <2>4, <2>5
<1>15. SubSeq(b, i + 2, i + 1 + kl) = e.key
  <2>1. e.key \in Seq(Nat)
    BY <1>3, FieldTexts
  <2>2. \A j \in 1..Len(e.key) : b[(i + 1) + j] = e.key[j]
    <3>1. \A j \in 1..kl : 1 + j \in 1..Len(c) /\ c[1 + j] = e.key[j]
      BY <1>6, <1>7 DEF FieldHas
    <3>2. \A j \in 1..kl : i + (1 + j) = (i + 1) + j
      OBVIOUS
    <3>3. QED
      BY <1>4, <1>11, <3>1, <3>2
  <2>3. PICK from \in Nat : from = i + 1
    OBVIOUS
  <2>4. SubSeq(b, from + 1, from + Len(e.key)) = e.key
    BY <2>1, <2>2, <2>3, PieceIs
  <2>5. from + 1 = i + 2 /\ from + Len(e.key) = i + 1 + kl
    BY <1>4, <2>3
  <2>6. QED
    BY <2>4, <2>5
<1>16. SubSeq(b, i + kl + 4, i + kl + 3 + vl) = e.val
  <2>1. e.val \in Seq(Nat)
    BY <1>3, FieldTexts
  <2>2. \A j \in 1..Len(e.val) : b[(i + kl + 3) + j] = e.val[j]
    <3>1. \A j \in 1..vl : kl + 3 + j \in 1..Len(c) /\ c[kl + 3 + j] = e.val[j]
      BY <1>6, <1>7 DEF FieldHas
    <3>2. \A j \in 1..vl : i + (kl + 3 + j) = (i + kl + 3) + j
      OBVIOUS
    <3>3. QED
      BY <1>4, <1>11, <3>1, <3>2
  <2>3. PICK from \in Nat : from = i + kl + 3
    OBVIOUS
  <2>4. SubSeq(b, from + 1, from + Len(e.val)) = e.val
    BY <2>1, <2>2, <2>3, PieceIs
  <2>5. from + 1 = i + kl + 4 /\ from + Len(e.val) = i + kl + 3 + vl
    BY <1>4, <2>3
  <2>6. QED
    BY <2>4, <2>5
<1>17. i < Len(b)
  BY <1>7, <1>11
<1>18. QED
  BY <1>2, <1>4, <1>8, <1>9, <1>11, <1>12, <1>13, <1>14, <1>15, <1>16, <1>17

-----------------------------------------------------------------------------
(* What is kept of the fields *)

\* A field that is put takes the place of those with its key.
LEMMA PutPuts ==
    ASSUME NEW x \in Seq(Fields), NEW e \in Fields
    PROVE  /\ PutField(x, e) \in Seq(Fields)
           /\ Len(PutField(x, e)) \in Nat /\ Len(PutField(x, e)) =< Len(x) + 1
           /\ ToSet(PutField(x, e)) = {f \in ToSet(x) : f.key # e.key} \cup {e}
<1>1. PICK n \in Nat : n = Len(x) /\ DOMAIN x = 1..n
  BY LenProperties
<1>2. \A i \in 1..n : x[i] \in Fields
  BY <1>1, ElementOfSeq
<1>3. CASE HasKey(x, e.key)
  <2>1. PICK y : y = [i \in 1..n |-> IF x[i].key = e.key THEN e ELSE x[i]]
    OBVIOUS
  <2>2. y = PutField(x, e)
    BY <1>1, <1>3, <2>1 DEF PutField
  <2>3. y \in Seq(Fields) /\ Len(y) = n
    BY <1>2, <2>1
  <2>4. \A i \in 1..n : y[i] = IF x[i].key = e.key THEN e ELSE x[i]
    BY <2>1
  <2>5. PICK p \in 1..n : x[p].key = e.key
    BY <1>1, <1>3 DEF HasKey
  <2>6. ToSet(y) = {y[i] : i \in 1..n} /\ ToSet(x) = {x[i] : i \in 1..n}
    BY <1>1, <2>1 DEF ToSet
  <2>7. ToSet(y) = {f \in ToSet(x) : f.key # e.key} \cup {e}
    BY <2>4, <2>5, <2>6
  <2>8. QED
    BY <1>1, <2>2, <2>3, <2>7
<1>4. CASE ~HasKey(x, e.key)
  <2>1. PICK y : y = Append(x, e)
    OBVIOUS
  <2>2. y = PutField(x, e)
    BY <1>4, <2>1 DEF PutField
  <2>3. /\ y \in Seq(Fields) /\ Len(y) = n + 1 /\ y[n + 1] = e
        /\ \A i \in 1..n : y[i] = x[i]
    BY <1>1, <2>1, AppendProperties
  <2>4. DOMAIN y = 1..(n + 1)
    BY <2>3, LenProperties
  <2>5. \A i \in 1..n : x[i].key # e.key
    BY <1>1, <1>4 DEF HasKey
  <2>6. ToSet(y) = {y[i] : i \in 1..(n + 1)} /\ ToSet(x) = {x[i] : i \in 1..n}
    BY <1>1, <2>4 DEF ToSet
  <2>7. ToSet(y) = ToSet(x) \cup {e}
    BY <2>3, <2>6
  <2>8. \A f \in ToSet(x) : f.key # e.key
    BY <2>5, <2>6
  <2>9. QED
    BY <1>1, <2>2, <2>3, <2>7, <2>8
<1>5. QED
  BY <1>3, <1>4

\* The texts of one field more: a text takes the place of the one with its key.
LEMMA TextsMore ==
    ASSUME NEW s \in Seq(Fields), NEW e \in Fields
    PROVE  Texts(Append(s, e)) =
              IF IsText(e) THEN {f \in Texts(s) : f.key # e.key} \cup {e} ELSE Texts(s)
<1>1. PICK n \in Nat : n = Len(s) /\ DOMAIN s = 1..n
  BY LenProperties
<1>2. PICK t : t = Append(s, e)
  OBVIOUS
<1>3. /\ t \in Seq(Fields) /\ Len(t) = n + 1 /\ t[n + 1] = e
      /\ \A i \in 1..n : t[i] = s[i]
  BY <1>1, <1>2, AppendProperties
<1>4. DOMAIN t = 1..(n + 1)
  BY <1>3, LenProperties
<1>5. Texts(t) = {t[i] : i \in {m \in 1..(n + 1) : LastText(t, m)}}
  BY <1>4 DEF Texts
<1>6. Texts(s) = {s[i] : i \in {m \in 1..n : LastText(s, m)}}
  BY <1>1 DEF Texts
<1>7. LastText(t, n + 1) <=> IsText(e)
  <2>1. ~\E j : j \in ((n + 1) + 1)..(n + 1)
    OBVIOUS
  <2>2. QED
    BY <1>3, <2>1 DEF LastText
<1>8. ASSUME NEW i \in 1..n
      PROVE  LastText(t, i) <=> LastText(s, i) /\ (IsText(e) => s[i].key # e.key)
  <2>1. \A j \in (i + 1)..(n + 1) : j \in (i + 1)..n \/ j = n + 1
    OBVIOUS
  <2>2. \A j \in (i + 1)..n : t[j] = s[j] /\ j \in (i + 1)..(n + 1)
    BY <1>3
  <2>3. n + 1 \in (i + 1)..(n + 1) /\ t[i] = s[i]
    BY <1>3
  <2>4. LastText(t, i) <=>
          IsText(s[i]) /\ \A j \in (i + 1)..(n + 1) : IsText(t[j]) => t[j].key # s[i].key
    BY <1>3, <2>3 DEF LastText
  <2>5. LastText(s, i) <=>
          IsText(s[i]) /\ \A j \in (i + 1)..n : IsText(s[j]) => s[j].key # s[i].key
    BY <1>1 DEF LastText
  <2>6. QED
    BY <1>3, <2>1, <2>2, <2>3, <2>4, <2>5
<1>9. CASE IsText(e)
  <2>1. \A i \in 1..n : LastText(t, i) <=> LastText(s, i) /\ s[i].key # e.key
    BY <1>8, <1>9
  <2>2. \A f : f \in Texts(t) <=> (\E i \in 1..n : LastText(t, i) /\ f = t[i]) \/ f = e
    <3>1. \A i \in 1..(n + 1) : i \in 1..n \/ i = n + 1
      OBVIOUS
    <3>2. n + 1 \in 1..(n + 1) /\ \A i \in 1..n : i \in 1..(n + 1)
      OBVIOUS
    <3>3. \A f : f \in Texts(t) <=> \E i \in 1..(n + 1) : LastText(t, i) /\ f = t[i]
      BY <1>5
    <3>4. QED
      BY <1>3, <1>7, <1>9, <3>1, <3>2, <3>3
  <2>3. \A f : f \in Texts(s) <=> \E i \in 1..n : LastText(s, i) /\ f = s[i]
    BY <1>6
  <2>4. Texts(t) = {f \in Texts(s) : f.key # e.key} \cup {e}
    BY <1>3, <2>1, <2>2, <2>3
  <2>5. QED
    BY <1>2, <1>9, <2>4
<1>10. CASE ~IsText(e)
  <2>1. \A i \in 1..n : LastText(t, i) <=> LastText(s, i)
    BY <1>8, <1>10
  <2>2. \A i \in 1..(n + 1) : LastText(t, i) => i \in 1..n
    BY <1>7, <1>10
  <2>3. Texts(t) = Texts(s)
    BY <1>3, <1>5, <1>6, <2>1, <2>2
  <2>4. QED
    BY <1>2, <1>10, <2>3
<1>11. QED
  BY <1>9, <1>10

\* Without fields there are no texts.
LEMMA TextsEmpty == Texts(<<>>) = {}
BY DEF Texts

-----------------------------------------------------------------------------
(* The inductive invariant *)

HeadType == [byte1 : 0..255, byte2 : 0..255, hdrLen : Int,
             athn : {"none", "given"}, trx : {"new", "given"}]
PacketType == [head : HeadType, ext : Seq(Fields), ext_cnt : Nat, body : Nat]
Fitting == {e \in Fields : Fits(e)}

Shapes ==
    /\ pc \in {"begin", "build", "wait", "ext", "body", "handle", "return", "end"}
    /\ kind \in Kinds /\ rc \in {-1, 0} /\ waits \in BOOLEAN
    /\ answers \in 0..MaxAnswers /\ index \in Nat
    /\ req \in PacketType /\ res \in PacketType
    /\ answer \in [trx : {"same", "other"}, ext : Seq(Fitting), body : BOOLEAN]
    /\ ptrs \subseteq Blocks

\* The request while it is made: every field was counted, and its head is that of its
\* kind.
Making ==
    /\ Len(req.ext) =< req.ext_cnt /\ req.ext_cnt =< MaxFields
    /\ pc = "build" => req.head = HeadOf(kind)

\* What went out was the packet; it stays as it is.
Sending ==
    /\ pc \in {"begin", "build"} => sent.length = 0
    /\ sent.length # 0 /\ Short(req.ext) => LaidOut

\* The loop over the extension stands before a field, with those before it kept.
BeforeField(k) ==
    index = At(answer.ext, k) /\ ToSet(res.ext) = Texts(Upto(answer.ext, k))
ReadingFields ==
    /\ pc = "ext" =>
          /\ res.head.hdrLen = HeadLen + Len(Layout(answer.ext))
          /\ \E k \in Nat : k =< Len(answer.ext) /\ BeforeField(k)
    /\ pc \in {"body", "handle"} => ToSet(res.ext) = Texts(answer.ext)

\* A block is allocated as long as it is pointed to, and no longer.
Held == ~misfreed /\ heap = [b \in Blocks |-> IF b \in ptrs THEN 1 ELSE 0]

\* What is left of an answer that a transaction could not read.
Left == IF waits /\ rc = -1 /\ ~answer.body /\ res.ext_cnt > 0 THEN {"resExt"} ELSE {}

\* The blocks a packet has, by where the call is.
Owned ==
    /\ pc = "begin" => ptrs = {} /\ req.ext_cnt = 0
    /\ pc = "build" =>
          ptrs \subseteq {"reqExt", "reqRoot"} /\ ("reqExt" \in ptrs <=> req.ext_cnt > 0)
    /\ pc = "wait" => ptrs \subseteq OfReq
    /\ pc \in {"ext", "body"} =>
          "resRoot" \notin ptrs /\ ("resExt" \in ptrs <=> res.ext_cnt > 0)
    /\ pc = "return" => ptrs \cap OfRes = Left
    /\ pc = "end" => ptrs = Left

\* What the call has read, by where it is.
HasRead ==
    /\ pc \in {"begin", "build"} => res.ext_cnt = 0
    /\ pc = "wait" => res.ext_cnt = 0 \/ answer.body
    /\ pc = "handle" => answer.body
    /\ pc \notin {"return", "end"} => rc = 0

PacketInv ==
    /\ Shapes /\ Making /\ Sending /\ ReadingFields
    /\ Held /\ Owned /\ HasRead

\* Blocks that were not there are allocated, and those that were are freed.
LEMMA MemoryHeld ==
    ASSUME Held, ptrs \subseteq Blocks, NEW new, NEW freed, new \subseteq Blocks \ ptrs,
           freed \subseteq ptrs, Memory(new, freed)
    PROVE  Held' /\ ptrs' \subseteq Blocks /\ ptrs' = (ptrs \cup new) \ freed
<1>1. ptrs' = (ptrs \cup new) \ freed /\ ptrs' \subseteq Blocks
  BY DEF Memory
<1>2. \A b \in Blocks : heap[b] = IF b \in ptrs THEN 1 ELSE 0
  BY DEF Held
<1>3. ~misfreed'
  <2>1. \A b \in freed : heap[b] = 1
    BY <1>2
  <2>2. misfreed' = (misfreed \/ \E b \in freed : heap[b] = 0)
    BY DEF Memory
  <2>3. ~\E b \in freed : heap[b] = 0
    BY <2>1
  <2>4. QED
    BY <2>2, <2>3 DEF Held
<1>4. heap' = [b \in Blocks |-> IF b \in ptrs' THEN 1 ELSE 0]
  <2>1. heap' = [b \in Blocks |-> heap[b] + (IF b \in new THEN 1 ELSE 0)
                                         - (IF b \in freed /\ heap[b] > 0 THEN 1 ELSE 0)]
    BY DEF Memory
  <2>2. ASSUME NEW b \in Blocks
        PROVE  heap[b] + (IF b \in new THEN 1 ELSE 0)
                 - (IF b \in freed /\ heap[b] > 0 THEN 1 ELSE 0) = IF b \in ptrs' THEN 1 ELSE 0
    BY <1>1, <1>2
  <2>3. QED
    BY <2>1, <2>2
<1>5. QED
  BY <1>1, <1>3, <1>4 DEF Held

\* A release frees the blocks of a packet that are pointed to.
LEMMA ReleaseHeld ==
    ASSUME Held, ptrs \subseteq Blocks, NEW own, Release(own)
    PROVE  Held' /\ ptrs' \subseteq Blocks /\ ptrs' = ptrs \ own
<1>1. Memory({}, own \cap ptrs)
  BY DEF Release
<1>2. Held' /\ ptrs' \subseteq Blocks /\ ptrs' = (ptrs \cup {}) \ (own \cap ptrs)
  BY <1>1, MemoryHeld
<1>3. QED
  BY <1>2

\* What AddVal makes of a packet.
LEMMA AddValAdds ==
    ASSUME NEW p \in PacketType, NEW e \in Fields
    PROVE  LET q == AddVal(p, e)
           IN  /\ q \in PacketType /\ q.head = p.head /\ q.body = p.body
               /\ IsText(e) => q.ext = PutField(p.ext, e) /\ q.ext_cnt = p.ext_cnt + 1
               /\ ~IsText(e) => q = p
<1>1. p.ext \in Seq(Fields) /\ p.ext_cnt \in Nat /\ p.head \in HeadType /\ p.body \in Nat
  BY DEF PacketType
<1>2. PICK x, n : x = PutField(p.ext, e) /\ n = p.ext_cnt + 1
  OBVIOUS
<1>0. x \in Seq(Fields) /\ n \in Nat
  BY <1>1, <1>2, PutPuts
<1>3. CASE IsText(e)
  <2>1. AddVal(p, e) = [p EXCEPT !.ext = x, !.ext_cnt = n]
    BY <1>2, <1>3, Zenon DEF AddVal
  <2>2. PICK q : q = [p EXCEPT !.ext = x, !.ext_cnt = n]
    OBVIOUS
  <2>3. q \in PacketType /\ q.head = p.head /\ q.body = p.body /\ q.ext = x /\ q.ext_cnt = n
    BY <1>0, <2>2 DEF PacketType
  <2>4. QED
    BY <1>2, <1>3, <2>1, <2>2, <2>3
<1>4. CASE ~IsText(e)
  BY <1>4 DEF AddVal
<1>5. QED
  BY <1>3, <1>4

\* Heads and packets as they are made.
LEMMA HeadsTyped ==
    /\ InitHead \in HeadType /\ InitHead.hdrLen = HeadLen
    /\ \A k \in Kinds : /\ HeadOf(k) \in HeadType /\ HeadOf(k).hdrLen = HeadLen
                        /\ <<GetMsgType(HeadOf(k)), GetMsgExchPtrn(HeadOf(k)),
                             GetMethodType(HeadOf(k))>> = Says(k)
<1>1. InitHead \in HeadType /\ InitHead.hdrLen = HeadLen
  BY InitHeadIs DEF HeadWith, HeadType, HeadLen
<1>2. ASSUME NEW k \in Kinds
      PROVE  /\ HeadOf(k) \in HeadType /\ HeadOf(k).hdrLen = HeadLen
             /\ <<GetMsgType(HeadOf(k)), GetMsgExchPtrn(HeadOf(k)),
                  GetMethodType(HeadOf(k))>> = Says(k)
  <2>1. PICK b1 \in 0..255, b2 \in 0..255 : Heads(k, b1, b2)
    BY HeadsSay
  <2>2. PICK athn \in {"none", "given"}, trx \in {"new", "given"} :
           HeadOf(k) = HeadWith(b1, b2, athn, trx)
    BY <2>1 DEF Heads
  <2>3. HeadOf(k) \in HeadType /\ HeadOf(k).hdrLen = HeadLen
    BY <2>2 DEF HeadWith, HeadType, HeadLen
  <2>4. HeadOf(k).byte1 = b1 /\ HeadOf(k).byte2 = b2
    BY <2>2 DEF HeadWith
  <2>5. QED
    BY <2>1, <2>3, <2>4 DEF Heads, Tells, GetMsgType, GetMsgExchPtrn, GetMethodType
<1>3. QED
  BY <1>1, <1>2

\* What im_packet_init leaves.
LEMMA EmptyPacketIs ==
    /\ EmptyPacket \in PacketType /\ EmptyPacket.ext = <<>> /\ EmptyPacket.ext_cnt = 0
    /\ EmptyPacket.head = InitHead
BY HeadsTyped, EmptySeq DEF EmptyPacket, PacketType

\* PacketInv holds before the call.
LEMMA PacketInit == Init => PacketInv
<1> SUFFICES ASSUME Init PROVE PacketInv
  OBVIOUS
<1>1. /\ answer \in [trx : {"same", "other"}, ext : Seq(Fitting), body : BOOLEAN]
      /\ answer.body = FALSE
  BY EmptySeq DEF Init
<1>2. Shapes
  <2>1. answers \in 0..MaxAnswers /\ index \in Nat
    BY PacketAssumption DEF Init
  <2>2. pc = "begin" /\ kind \in Kinds /\ rc \in {-1, 0} /\ waits \in BOOLEAN
    BY DEF Init, Kinds
  <2>3. req \in PacketType /\ res \in PacketType /\ ptrs \subseteq Blocks
    BY EmptyPacketIs DEF Init
  <2>4. QED
    BY <1>1, <2>1, <2>2, <2>3 DEF Shapes
<1>3. Making /\ Sending
  BY EmptyPacketIs, EmptySeq, PacketAssumption DEF Init, Making, Sending
<1>4. ReadingFields /\ Held /\ Owned /\ HasRead
  BY EmptyPacketIs DEF Init, ReadingFields, Held, Owned, HasRead
<1>5. QED
  BY <1>2, <1>3, <1>4 DEF PacketInv

\* What went out stays what it was.
LEMMA SendingStays ==
    ASSUME Sending, req' = req, sent' = sent, kind' = kind, pc' \notin {"begin", "build"}
    PROVE  Sending'
<1>1. LaidOut' <=> LaidOut
  BY DEF LaidOut
<1>2. Short(req.ext)' <=> Short(req.ext)
  BY DEF Short
<1>3. QED
  BY <1>1, <1>2 DEF Sending

\* A request that is made has its body and no field.
LEMMA MakeStep ==
    ASSUME PacketInv, Make
    PROVE  PacketInv'
<1>1. PICK k \in Kinds, n \in Bodies \cup {0}, w \in BOOLEAN :
         /\ kind' = k /\ waits' = w
         /\ req' = [EmptyPacket EXCEPT !.head = HeadOf(k), !.body = n]
         /\ Memory(IF n > 0 THEN {"reqRoot"} ELSE {}, {})
  BY DEF Make
<1>2. /\ pc = "begin" /\ pc' = "build" /\ res' = res /\ sent' = sent /\ answer' = answer
      /\ index' = index /\ answers' = answers /\ rc' = rc
  BY DEF Make
<1>3. n \in Nat /\ HeadOf(k) \in HeadType
  BY PacketAssumption, HeadsTyped
<1>4. /\ req' \in PacketType /\ req'.ext = <<>> /\ req'.ext_cnt = 0
      /\ req'.head = HeadOf(k)
  <2>1. PICK h : h = HeadOf(k)
    OBVIOUS
  <2>2. req' = [EmptyPacket EXCEPT !.head = h, !.body = n]
    BY <1>1, <2>1
  <2>3. h \in HeadType
    BY <1>3, <2>1
  <2>4. req' \in PacketType /\ req'.ext = EmptyPacket.ext /\ req'.ext_cnt = EmptyPacket.ext_cnt /\ req'.head = h
    BY <1>3, <2>2, <2>3, EmptyPacketIs DEF PacketType
  <2>5. QED
    BY <2>1, <2>4, EmptyPacketIs
<1>5. PICK new \in SUBSET {"reqRoot"} : Memory(new, {})
  BY <1>1
<1>6. ptrs = {} /\ ptrs \subseteq Blocks
  BY <1>2 DEF PacketInv, Owned, Shapes
<1>7. Held' /\ ptrs' \subseteq Blocks /\ ptrs' = new
  <2>1. new \subseteq Blocks \ ptrs /\ {} \subseteq ptrs
    BY <1>6 DEF Blocks
  <2>2. Held' /\ ptrs' \subseteq Blocks /\ ptrs' = (ptrs \cup new) \ {}
    BY <1>5, <1>6, <2>1, MemoryHeld DEF PacketInv
  <2>3. QED
    BY <1>6, <2>2
<1>8. Shapes'
  BY <1>1, <1>2, <1>4, <1>7 DEF PacketInv, Shapes
<1>9. Making'
  <2>1. Len(req'.ext) = 0 /\ MaxFields \in Nat
    BY <1>4, PacketAssumption
  <2>2. QED
    BY <1>1, <1>4, <2>1 DEF Making
<1>10. Sending' /\ ReadingFields'
  BY <1>2 DEF PacketInv, Sending, ReadingFields
<1>11. Owned' /\ HasRead'
  BY <1>2, <1>4, <1>7 DEF PacketInv, Owned, HasRead
<1>12. QED
  BY <1>7, <1>8, <1>9, <1>10, <1>11 DEF PacketInv

\* A field that is taken is counted, and the first allocates the object.
LEMMA AddFieldStep ==
    ASSUME PacketInv, AddField
    PROVE  PacketInv'
<1>1. PICK e \in Fields : req' = AddVal(req, e) /\ Memory(NewExt(req, e, "reqExt"), {})
  BY DEF AddField
<1>2. /\ pc = "build" /\ pc' = "build" /\ req.ext_cnt < MaxFields
      /\ waits' = waits /\ kind' = kind /\ res' = res /\ sent' = sent /\ answer' = answer
      /\ index' = index /\ answers' = answers /\ rc' = rc
  BY DEF AddField
<1>3. req \in PacketType /\ req.ext \in Seq(Fields) /\ req.ext_cnt \in Nat /\ Len(req.ext) \in Nat
  BY LenProperties DEF PacketInv, Shapes, PacketType
<1>4. /\ req' \in PacketType /\ req'.head = req.head
      /\ IsText(e) => req'.ext = PutField(req.ext, e) /\ req'.ext_cnt = req.ext_cnt + 1
      /\ ~IsText(e) => req' = req
  BY <1>1, <1>3, AddValAdds
<1>5. Making'
  <2>1. Len(req.ext) =< req.ext_cnt /\ req.head = HeadOf(kind) /\ req.ext_cnt =< MaxFields
    BY <1>2 DEF PacketInv, Making
  <2>2. Len(PutField(req.ext, e)) \in Nat /\ Len(PutField(req.ext, e)) =< Len(req.ext) + 1
    BY <1>3, PutPuts
  <2>3. MaxFields \in Nat
    BY PacketAssumption
  <2>4. Len(req'.ext) =< req'.ext_cnt /\ req'.ext_cnt =< MaxFields
    BY <1>2, <1>3, <1>4, <2>1, <2>2, <2>3
  <2>5. QED
    BY <1>2, <1>4, <2>1, <2>4 DEF Making
<1>6. PICK new : new = NewExt(req, e, "reqExt")
  OBVIOUS
<1>7. /\ ptrs \subseteq {"reqExt", "reqRoot"} /\ ("reqExt" \in ptrs <=> req.ext_cnt > 0)
      /\ ptrs \subseteq Blocks
  BY <1>2 DEF PacketInv, Owned, Shapes
<1>8. /\ new \subseteq {"reqExt"} /\ ("reqExt" \in new <=> req.ext_cnt = 0 /\ IsText(e))
  BY <1>6 DEF NewExt
<1>9. new \subseteq Blocks \ ptrs
  BY <1>3, <1>7, <1>8 DEF Blocks
<1>10. Held' /\ ptrs' \subseteq Blocks /\ ptrs' = (ptrs \cup new) \ {}
  BY <1>1, <1>6, <1>7, <1>9, MemoryHeld DEF PacketInv
<1>11. Shapes'
  BY <1>2, <1>4, <1>10 DEF PacketInv, Shapes
<1>12. Sending' /\ ReadingFields'
  BY <1>2 DEF PacketInv, Sending, ReadingFields
<1>13. "reqExt" \in ptrs' <=> req'.ext_cnt > 0
  BY <1>3, <1>4, <1>7, <1>8, <1>10
<1>14. ptrs' \subseteq {"reqExt", "reqRoot"}
  BY <1>7, <1>8, <1>10
<1>15. Owned' /\ HasRead'
  BY <1>2, <1>13, <1>14 DEF PacketInv, Owned, HasRead
<1>16. QED
  BY <1>5, <1>10, <1>11, <1>12, <1>15 DEF PacketInv

\* Fields shorter than 256 bytes are written as the protocol lays them out.
LEMMA ShortIsLayout ==
    ASSUME req.ext \in Seq(Fields), Short(req.ext)
    PROVE  Written(req) = Layout(req.ext)
<1>1. DOMAIN req.ext = 1..Len(req.ext) /\ \A i \in 1..Len(req.ext) : req.ext[i] \in Fields
  BY LenProperties, ElementOfSeq
<1>2. ASSUME NEW i \in DOMAIN req.ext
      PROVE  Field(req.ext[i], 0, Len(req.ext[i].val) % ByteMod) =
                Field(req.ext[i], Len(req.ext[i].val) \div ByteMod, Len(req.ext[i].val) % ByteMod)
  <2>1. Len(req.ext[i].val) \in Nat /\ Len(req.ext[i].val) < ByteMod
    BY <1>1, <1>2, FieldTexts DEF Short
  <2>2. Len(req.ext[i].val) \div ByteMod = 0
    BY <2>1, Divided
  <2>3. QED
    BY <2>2
<1>3. [i \in DOMAIN req.ext |-> Field(req.ext[i], 0, Len(req.ext[i].val) % ByteMod)] =
        [i \in DOMAIN req.ext |->
            Field(req.ext[i], Len(req.ext[i].val) \div ByteMod, Len(req.ext[i].val) % ByteMod)]
  BY <1>2, Zenon
<1>4. QED
  BY <1>3, Zenon DEF Written, Layout

\* What Send lets go out is laid out as the protocol has it.
LEMMA SendLaysOut ==
    ASSUME PacketInv, Send, Short(req.ext)
    PROVE  LaidOut'
<1>1. /\ req \in PacketType /\ req.ext \in Seq(Fields) /\ req.ext_cnt \in Nat
      /\ req.body \in Nat /\ req.head \in HeadType /\ kind \in Kinds
      /\ Len(req.ext) \in Nat /\ Len(req.ext) =< req.ext_cnt
  BY LenProperties DEF PacketInv, Shapes, PacketType, Making
<1>2. /\ req.head.hdrLen = HeadLen
      /\ <<GetMsgType(req.head), GetMsgExchPtrn(req.head), GetMethodType(req.head)>> = Says(kind)
  BY <1>1, HeadsTyped DEF PacketInv, Making, Send
<1>3. PICK n \in Nat : n = Len(Layout(req.ext)) /\ n = Len(Written(req))
  BY <1>1, LayoutBytes, ShortIsLayout
<1>4. req.ext_cnt = 0 => n = 0
  <2>1. req.ext_cnt = 0 => req.ext = <<>>
    BY <1>1, EmptySeq
  <2>2. Len(<<>>) = 0
    OBVIOUS
  <2>3. QED
    BY <1>3, <2>1, <2>2, LayoutEmpty
<1>5. PICK size \in Nat : size = HeadLen + n
  BY DEF HeadLen
<1>6. /\ HeadSize = size /\ (HasRoom <=> size =< Buffer - 4)
      /\ (BodyFits <=> req.body > 0 /\ req.body =< Buffer - 4 - size)
  BY <1>3, <1>5 DEF HeadSize, HasRoom, BodyFits
<1>7. PICK h, l, x, b : /\ sent' = [length |-> l, head |-> h, ext |-> x, body |-> b]
                        /\ l = IF HasRoom THEN HeadSize + BodySize ELSE -1
                        /\ h = IF req.ext_cnt > 0 /\ HasRoom
                               THEN [req.head EXCEPT !.hdrLen = HeadSize] ELSE req.head
                        /\ x = Written(req)
  BY DEF Send
<1>8. sent'.length = l /\ sent'.head = h /\ sent'.ext = x
  BY <1>7
<1>9. /\ h.byte1 = req.head.byte1 /\ h.byte2 = req.head.byte2
      /\ h.hdrLen = IF req.ext_cnt > 0 /\ HasRoom THEN size ELSE HeadLen
  BY <1>1, <1>2, <1>6, <1>7 DEF HeadType
<1>10. <<GetMsgType(h), GetMsgExchPtrn(h), GetMethodType(h)>> = Says(kind)
  <2>1. /\ GetMsgType(h) = GetMsgType(req.head) /\ GetMsgExchPtrn(h) = GetMsgExchPtrn(req.head)
        /\ GetMethodType(h) = GetMethodType(req.head)
    BY <1>9 DEF GetMsgType, GetMsgExchPtrn, GetMethodType
  <2>2. QED
    BY <1>2, <2>1
<1>11. Buffer \in Nat /\ HeadLen = 35
  BY PacketAssumption DEF HeadLen
<1>12. CASE size + req.body =< Buffer - 4
  <2>1. HasRoom /\ (req.body > 0 => BodyFits)
    BY <1>1, <1>6, <1>11, <1>12
  <2>2. BodySize = req.body
    BY <1>1, <2>1 DEF BodySize
  <2>3. l = size + req.body
    BY <1>6, <1>7, <2>1, <2>2
  <2>4. h.hdrLen = size
    BY <1>1, <1>4, <1>5, <1>9, <1>11, <2>1
  <2>5. x = Layout(req.ext)
    BY <1>1, <1>7, ShortIsLayout
  <2>6. kind' = kind /\ req' = req
    BY DEF Send
  <2>7. QED
    BY <1>3, <1>5, <1>8, <1>10, <1>12, <2>3, <2>4, <2>5, <2>6 DEF LaidOut
<1>13. CASE ~(size + req.body =< Buffer - 4)
  <2>1. l < h.hdrLen
    <3>1. CASE ~HasRoom
      BY <1>7, <1>9, <1>11, <3>1
    <3>2. CASE HasRoom
      <4>1. BodySize = -1
        BY <1>1, <1>5, <1>6, <1>11, <1>13, <3>2 DEF BodySize
      <4>2. l = size - 1
        BY <1>6, <1>7, <3>2, <4>1
      <4>3. h.hdrLen = size
        BY <1>1, <1>4, <1>5, <1>9, <1>11, <3>2
      <4>4. QED
        BY <4>2, <4>3
    <3>3. QED
      BY <3>1, <3>2
  <2>2. kind' = kind /\ req' = req
    BY DEF Send
  <2>3. QED
    BY <1>3, <1>5, <1>8, <1>10, <1>13, <2>1, <2>2 DEF LaidOut
<1>14. QED
  BY <1>12, <1>13

\* The request goes out, or the call fails.
LEMMA SendStep ==
    ASSUME PacketInv, Send
    PROVE  PacketInv'
<1>1. /\ pc = "build" /\ pc' \in {"wait", "return"} /\ rc' \in {0, -1}
      /\ pc' = "wait" => rc' = 0
      /\ waits' = waits /\ kind' = kind /\ req' = req /\ res' = res /\ answer' = answer
      /\ index' = index /\ answers' = answers
  BY DEF Send
<1>2. PICK new \in SUBSET {"reqString"} : Memory(new, {})
  BY DEF Send
<1>3. /\ ptrs \subseteq {"reqExt", "reqRoot"} /\ ptrs \subseteq Blocks /\ res.ext_cnt = 0
  BY <1>1 DEF PacketInv, Owned, Shapes, HasRead
<1>4. Held' /\ ptrs' \subseteq Blocks /\ ptrs' = (ptrs \cup new) \ {}
  <2>1. new \subseteq Blocks \ ptrs /\ {} \subseteq ptrs
    BY <1>3 DEF Blocks
  <2>2. QED
    BY <1>2, <1>3, <2>1, MemoryHeld DEF PacketInv
<1>5. Shapes'
  BY <1>1, <1>4 DEF PacketInv, Shapes
<1>6. Making'
  BY <1>1 DEF PacketInv, Making
<1>7. Sending'
  <2>1. Short(req.ext)' <=> Short(req.ext)
    BY <1>1 DEF Short
  <2>2. QED
    BY <1>1, <2>1, SendLaysOut DEF Sending
<1>8. ReadingFields'
  BY <1>1 DEF ReadingFields
<1>9. ptrs' \subseteq OfReq
  BY <1>3, <1>4 DEF OfReq
<1>10. HasRead'
  BY <1>1, <1>3 DEF HasRead
<1>11. Left' = {}
  BY <1>1, <1>3 DEF Left
<1>12. Owned'
  BY <1>1, <1>9, <1>11 DEF Owned, OfReq, OfRes
<1>13. QED
  BY <1>4, <1>5, <1>6, <1>7, <1>8, <1>10, <1>12 DEF PacketInv

\* A poll begins with nothing allocated.
LEMMA PollStep ==
    ASSUME PacketInv, Poll
    PROVE  PacketInv'
<1>1. /\ pc = "begin" /\ pc' = "wait" /\ waits' = FALSE
      /\ kind' = kind /\ req' = req /\ res' = res /\ sent' = sent /\ answer' = answer
      /\ index' = index /\ answers' = answers /\ rc' = rc
      /\ heap' = heap /\ ptrs' = ptrs /\ misfreed' = misfreed
  BY DEF Poll, packets, memory
<1>2. rc = 0
  BY <1>1 DEF PacketInv, HasRead
<1>3. Shapes' /\ Making' /\ ReadingFields' /\ Held'
  BY <1>1 DEF PacketInv, Shapes, Making, ReadingFields, Held
<1>4. Sending'
  BY <1>1, SendingStays DEF PacketInv
<1>5. Owned' /\ HasRead'
  BY <1>1, <1>2 DEF PacketInv, Owned, HasRead
<1>6. QED
  BY <1>3, <1>4, <1>5 DEF PacketInv

\* Nothing came in time: nothing is left of an answer.
LEMMA TimeOutStep ==
    ASSUME PacketInv, TimeOut
    PROVE  PacketInv'
<1>1. /\ pc = "wait" /\ pc' = "return" /\ rc' = IF waits THEN -1 ELSE 0
      /\ waits' = waits /\ kind' = kind /\ req' = req /\ res' = res /\ sent' = sent
      /\ answer' = answer /\ index' = index /\ answers' = answers
      /\ heap' = heap /\ ptrs' = ptrs /\ misfreed' = misfreed
  BY DEF TimeOut, packets, memory
<1>2. Shapes' /\ Making' /\ ReadingFields' /\ Held' /\ HasRead'
  BY <1>1 DEF PacketInv, Shapes, Making, ReadingFields, Held, HasRead
<1>3. Sending'
  BY <1>1, SendingStays DEF PacketInv
<1>4. Left' = {}
  BY <1>1 DEF PacketInv, HasRead, Left
<1>5. ptrs' \cap OfRes = {}
  BY <1>1 DEF PacketInv, Owned, OfReq, OfRes
<1>6. Owned'
  BY <1>1, <1>4, <1>5 DEF Owned
<1>7. QED
  BY <1>2, <1>3, <1>6 DEF PacketInv

\* Where the loop over the extension begins and ends.
LEMMA UptoEnds ==
    ASSUME NEW ext \in Seq(Fields)
    PROVE  /\ Upto(ext, Len(ext)) = ext /\ At(ext, Len(ext)) = Len(Layout(ext))
           /\ Upto(ext, 0) = <<>> /\ At(ext, 0) = 0
<1>1. Upto(ext, Len(ext)) = ext
  BY SubSeqFull DEF Upto
<1>2. Upto(ext, 0) = <<>>
  BY SubSeqEmpty DEF Upto
<1>3. Len(<<>>) = 0
  OBVIOUS
<1>4. QED
  BY <1>1, <1>2, <1>3, LayoutEmpty DEF At

\* An answer begins: the loop stands before its first field.
LEMMA ArriveStep ==
    ASSUME PacketInv, Arrive
    PROVE  PacketInv'
<1>0. PICK trx \in {"same", "other"}, n \in 0..MaxFields, body \in BOOLEAN :
         \E ext \in [1..n -> Fitting] : answer' = [trx |-> trx, ext |-> ext, body |-> body]
  BY DEF Arrive, Fitting
<1>1. PICK ext \in [1..n -> Fitting] : answer' = [trx |-> trx, ext |-> ext, body |-> body]
  BY <1>0
<1>2. /\ pc = "wait" /\ answers < MaxAnswers /\ answers' = answers + 1 /\ index' = 0
      /\ res' = [EmptyPacket EXCEPT !.head.hdrLen = HeadLen + Len(Layout(answer'.ext))]
      /\ ptrs' = ptrs \ OfRes
      /\ pc' = IF res'.head.hdrLen > HeadLen THEN "ext" ELSE "body"
      /\ waits' = waits /\ kind' = kind /\ req' = req /\ sent' = sent /\ rc' = rc
      /\ heap' = heap /\ misfreed' = misfreed
  BY DEF Arrive
<1>3. answer'.ext = ext /\ ext \in Seq(Fitting) /\ ext \in Seq(Fields) /\ n \in Nat /\ Len(ext) = n
  <2>1. n \in Nat
    BY PacketAssumption
  <2>2. ext \in Seq(Fitting) /\ Len(ext) = n
    BY <2>1
  <2>3. Fitting \subseteq Fields
    BY DEF Fitting
  <2>4. QED
    BY <1>1, <2>1, <2>2, <2>3, SeqMonotonic
<1>4. PICK l \in Nat : l = Len(Layout(ext))
  BY <1>3, LayoutBytes
<1>5. res' \in PacketType /\ res'.ext = <<>> /\ res'.ext_cnt = 0 /\ res'.head.hdrLen = HeadLen + l
  <2>1. PICK len \in Int : len = HeadLen + l
    BY DEF HeadLen
  <2>0. PICK empty \in HeadType : empty = EmptyPacket.head
    BY EmptyPacketIs, HeadsTyped
  <2>2. PICK h : h = [empty EXCEPT !.hdrLen = len]
    OBVIOUS
  <2>3. h \in HeadType /\ h.hdrLen = len
    BY <2>2 DEF HeadType
  <2>4. res' = [EmptyPacket EXCEPT !.head = h]
    BY <1>2, <1>3, <1>4, <2>0, <2>1, <2>2
  <2>5. QED
    BY <2>1, <2>3, <2>4, EmptyPacketIs DEF PacketType
<1>6. ptrs \subseteq OfReq /\ ptrs \subseteq Blocks /\ rc = 0
  BY <1>2 DEF PacketInv, Owned, Shapes, HasRead
<1>7. ptrs' = ptrs /\ Held'
  <2>1. ptrs' = ptrs
    BY <1>2, <1>6 DEF OfReq, OfRes
  <2>2. QED
    BY <1>2, <2>1 DEF PacketInv, Held
<1>8. pc' \in {"ext", "body"} /\ (pc' = "body" => l = 0)
  BY <1>2, <1>5 DEF HeadLen
<1>9. Shapes'
  <2>1. answers' \in 0..MaxAnswers /\ index' \in Nat
    BY <1>2, PacketAssumption DEF PacketInv, Shapes
  <2>2. answer' \in [trx : {"same", "other"}, ext : Seq(Fitting), body : BOOLEAN]
    BY <1>1, <1>3
  <2>3. QED
    BY <1>2, <1>5, <1>6, <1>7, <1>8, <2>1, <2>2 DEF PacketInv, Shapes
<1>10. Making'
  BY <1>2, <1>8 DEF PacketInv, Making
<1>11. Sending'
  BY <1>2, <1>8, SendingStays DEF PacketInv
<1>12. ToSet(res'.ext) = {}
  BY <1>5 DEF ToSet
<1>13. ReadingFields'
  <2>1. BeforeField(0)'
    BY <1>2, <1>3, <1>12, UptoEnds, TextsEmpty DEF BeforeField
  <2>2. 0 \in Nat /\ 0 =< Len(answer'.ext)
    BY <1>3
  <2>3. l = 0 => Texts(ext) = {}
    <3>1. n = 0 => ext = <<>>
      BY <1>3, EmptySeq
    <3>2. 0 < n => 0 < l
      BY <1>3, <1>4, FieldIsRead, UptoEnds DEF Fitting
    <3>3. QED
      BY <1>3, <3>1, <3>2, TextsEmpty
  <2>4. pc' \in {"body", "handle"} => ToSet(res'.ext) = Texts(answer'.ext)
    BY <1>3, <1>8, <1>12, <2>3
  <2>5. res'.head.hdrLen = HeadLen + Len(Layout(answer'.ext))
    BY <1>3, <1>4, <1>5
  <2>6. QED
    BY <2>1, <2>2, <2>4, <2>5 DEF ReadingFields
<1>14. Owned'
  <2>1. "resRoot" \notin ptrs' /\ "resExt" \notin ptrs'
    BY <1>6, <1>7 DEF OfReq
  <2>2. QED
    BY <1>5, <1>8, <2>1 DEF Owned
<1>15. HasRead'
  BY <1>2, <1>6, <1>8 DEF HasRead
<1>16. QED
  BY <1>7, <1>9, <1>10, <1>11, <1>13, <1>14, <1>15 DEF PacketInv

\* A round of the loop reads one field, and stands before the next.
LEMMA ReadFieldStep ==
    ASSUME PacketInv, ReadField
    PROVE  PacketInv'
<1> DEFINE keyLen == Bytes[index + 1]
           valLen == Int16(index + keyLen + 2)
           at == index + 1 + keyLen + 2
           e == [key |-> SubSeq(Bytes, index + 2, index + 1 + keyLen),
                 val |-> SubSeq(Bytes, at + 1, at + valLen)]
<1>1. /\ pc = "ext" /\ pc' = "ext" /\ index < res.head.hdrLen - HeadLen
      /\ res' = AddVal(res, e) /\ Memory(NewExt(res, e, "resExt"), {})
      /\ index' = at + valLen
      /\ waits' = waits /\ kind' = kind /\ req' = req /\ sent' = sent /\ answer' = answer
      /\ answers' = answers /\ rc' = rc
  BY DEF ReadField
<1>2. PICK ext \in Seq(Fitting) : ext = answer.ext
  BY DEF PacketInv, Shapes
<1>3. ext \in Seq(Fields) /\ Len(ext) \in Nat
  BY SeqMonotonic, LenProperties DEF Fitting
<1>4. PICK k \in Nat : k =< Len(ext) /\ index = At(ext, k) /\ ToSet(res.ext) = Texts(Upto(ext, k))
  BY <1>1, <1>2 DEF PacketInv, ReadingFields, BeforeField
<1>5. k < Len(ext)
  <2>1. res.head.hdrLen = HeadLen + Len(Layout(ext)) /\ Len(Layout(ext)) \in Nat
    BY <1>1, <1>2, <1>3, LayoutBytes DEF PacketInv, ReadingFields
  <2>2. index < Len(Layout(ext)) /\ index \in Nat
    BY <1>1, <2>1 DEF HeadLen, PacketInv, Shapes
  <2>3. k # Len(ext)
    BY <1>3, <1>4, <2>1, <2>2, UptoEnds
  <2>4. QED
    BY <1>3, <1>4, <2>3
<1>6. PICK f : f = ext[k + 1]
  OBVIOUS
<1>7. f \in Fields /\ Upto(ext, k) \in Seq(Fields) /\ Upto(ext, k + 1) = Append(Upto(ext, k), f)
  BY <1>3, <1>5, <1>6, UptoMore
<1>8. PICK kl \in Nat, vl \in Nat : kl = Len(f.key) /\ vl = Len(f.val)
  BY <1>7, FieldTexts
<1>9. PICK b : b = Layout(ext)
  OBVIOUS
<1>10. /\ b[index + 1] = kl
       /\ b[index + kl + 2] * ByteMod + b[index + kl + 3] = vl
       /\ SubSeq(b, index + 2, index + 1 + kl) = f.key
       /\ SubSeq(b, index + kl + 4, index + kl + 3 + vl) = f.val
       /\ At(ext, k + 1) = index + kl + 3 + vl /\ index \in Nat
  BY <1>4, <1>5, <1>6, <1>8, <1>9, FieldIsRead DEF Fitting
<1>11. Bytes = b
  BY <1>2, <1>9 DEF Bytes
<1>12. keyLen = kl
  BY <1>10, <1>11
<1>13. valLen = vl
  <2>1. valLen = Bytes[index + keyLen + 2] * ByteMod + Bytes[(index + keyLen + 2) + 1]
    BY DEF Int16
  <2>2. (index + kl + 2) + 1 = index + kl + 3
    BY <1>10
  <2>3. QED
    BY <1>10, <1>11, <1>12, <2>1, <2>2
<1>14. /\ at + 1 = index + kl + 4 /\ at + valLen = index + kl + 3 + vl
       /\ e = [key |-> f.key, val |-> f.val]
  <2>1. at = index + 1 + kl + 2
    BY <1>12
  <2>2. at + 1 = index + kl + 4 /\ at + valLen = index + kl + 3 + vl
    BY <1>10, <1>13, <2>1
  <2>3. QED
    BY <1>10, <1>11, <1>12, <2>2
<1>15. e = f
  <2>1. f \in [key : Seq(1..(ByteMod - 1)), val : Seq(1..(ByteMod - 1))]
    BY <1>7, PacketAssumption
  <2>2. f = [key |-> f.key, val |-> f.val]
    BY <2>1
  <2>3. QED
    BY <1>14, <2>2
<1>16. /\ res' = AddVal(res, f) /\ Memory(NewExt(res, f, "resExt"), {})
       /\ index' = At(ext, k + 1)
  BY <1>1, <1>10, <1>14, <1>15
<1> HIDE DEF keyLen, valLen, at, e
<1>17. res \in PacketType /\ res.ext \in Seq(Fields) /\ res.ext_cnt \in Nat
  BY DEF PacketInv, Shapes, PacketType
<1>18. /\ res' \in PacketType /\ res'.head = res.head
       /\ IsText(f) => res'.ext = PutField(res.ext, f) /\ res'.ext_cnt = res.ext_cnt + 1
       /\ ~IsText(f) => res' = res
  BY <1>7, <1>16, <1>17, AddValAdds
<1>19. ToSet(res'.ext) = Texts(Upto(ext, k + 1))
  <2>1. IsText(f) => ToSet(PutField(res.ext, f)) = {g \in Texts(Upto(ext, k)) : g.key # f.key} \cup {f}
    BY <1>4, <1>7, <1>17, PutPuts
  <2>2. Texts(Upto(ext, k + 1)) =
          IF IsText(f) THEN {g \in Texts(Upto(ext, k)) : g.key # f.key} \cup {f} ELSE Texts(Upto(ext, k))
    BY <1>7, TextsMore
  <2>3. QED
    BY <1>4, <1>18, <2>1, <2>2
<1>20. PICK new : new = NewExt(res, f, "resExt")
  OBVIOUS
<1>21. /\ "resRoot" \notin ptrs /\ ("resExt" \in ptrs <=> res.ext_cnt > 0) /\ ptrs \subseteq Blocks
  BY <1>1 DEF PacketInv, Owned, Shapes
<1>22. new \subseteq {"resExt"} /\ ("resExt" \in new <=> res.ext_cnt = 0 /\ IsText(f))
  BY <1>20 DEF NewExt
<1>23. new \subseteq Blocks \ ptrs
  BY <1>17, <1>21, <1>22 DEF Blocks
<1>24. Held' /\ ptrs' \subseteq Blocks /\ ptrs' = (ptrs \cup new) \ {}
  BY <1>16, <1>20, <1>21, <1>23, MemoryHeld DEF PacketInv
<1>25. Shapes'
  <2>1. index' \in Nat
    BY <1>3, <1>5, <1>16, UptoBytes
  <2>2. QED
    BY <1>1, <1>18, <1>24, <2>1 DEF PacketInv, Shapes
<1>26. Making' /\ HasRead'
  BY <1>1 DEF PacketInv, Making, HasRead
<1>27. Sending'
  BY <1>1, SendingStays DEF PacketInv
<1>28. ReadingFields'
  <2>1. BeforeField(k + 1)'
    BY <1>1, <1>2, <1>16, <1>19 DEF BeforeField
  <2>2. k + 1 \in Nat /\ k + 1 =< Len(answer'.ext)
    BY <1>1, <1>2, <1>3, <1>5
  <2>3. res'.head.hdrLen = HeadLen + Len(Layout(answer'.ext))
    BY <1>1, <1>18 DEF PacketInv, ReadingFields
  <2>4. QED
    BY <1>1, <2>1, <2>2, <2>3 DEF ReadingFields
<1>29. Owned'
  <2>1. "resRoot" \notin ptrs'
    BY <1>21, <1>22, <1>24
  <2>2. "resExt" \in ptrs' <=> res'.ext_cnt > 0
    BY <1>17, <1>18, <1>21, <1>22, <1>24
  <2>3. QED
    BY <1>1, <2>1, <2>2 DEF Owned
<1>30. QED
  BY <1>24, <1>25, <1>26, <1>27, <1>28, <1>29 DEF PacketInv

\* As long as a field is left the loop has not reached the end.
LEMMA BeforeTheEnd ==
    ASSUME NEW ext \in Seq(Fitting), NEW k \in Nat, k < Len(ext)
    PROVE  At(ext, k) < Len(Layout(ext))
BY FieldIsRead DEF Fitting

\* A read that fails: a transaction releases its request, a poll what it was reading.
LEMMA ReadFailsStep ==
    ASSUME PacketInv, pc \in {"ext", "body"}, ReadFails,
           pc = "ext" => res.ext_cnt = 0, pc = "body" => ~answer.body
    PROVE  PacketInv'
<1>1. /\ pc' = "return" /\ rc' = -1
      /\ waits' = waits /\ kind' = kind /\ req' = req /\ res' = res /\ sent' = sent
      /\ answer' = answer /\ index' = index /\ answers' = answers
  BY DEF ReadFails, packets
<1>2. /\ "resRoot" \notin ptrs /\ ("resExt" \in ptrs <=> res.ext_cnt > 0)
      /\ ptrs \subseteq Blocks /\ waits \in BOOLEAN
  BY DEF PacketInv, Owned, Shapes
<1>3. /\ Held' /\ ptrs' \subseteq Blocks
      /\ waits => ptrs' = ptrs \ OfReq
      /\ ~waits => ptrs' = ptrs \ OfRes
  <2>1. CASE waits
    <3>1. Release(OfReq)
      BY <2>1 DEF ReadFails
    <3>2. QED
      BY <1>2, <2>1, <3>1, ReleaseHeld DEF PacketInv
  <2>2. CASE ~waits
    <3>1. Release(OfRes)
      BY <2>2 DEF ReadFails
    <3>2. QED
      BY <1>2, <2>2, <3>1, ReleaseHeld DEF PacketInv
  <2>3. QED
    BY <1>2, <2>1, <2>2
<1>4. Shapes' /\ Making' /\ ReadingFields' /\ HasRead'
  BY <1>1, <1>3 DEF PacketInv, Shapes, Making, ReadingFields, HasRead
<1>5. Sending'
  BY <1>1, SendingStays DEF PacketInv
<1>6. Owned'
  <2>1. ptrs' \cap OfRes = Left'
    <3>1. CASE waits
      <4>1. ptrs' \cap OfRes = ptrs \cap {"resExt"}
        BY <1>2, <1>3, <3>1 DEF OfReq, OfRes
      <4>2. Left' = IF ~answer.body /\ res.ext_cnt > 0 THEN {"resExt"} ELSE {}
        BY <1>1, <3>1 DEF Left
      <4>3. res.ext_cnt > 0 => ~answer.body
        OBVIOUS
      <4>4. QED
        BY <1>2, <4>1, <4>2, <4>3
    <3>2. CASE ~waits
      BY <1>1, <1>3, <3>2 DEF Left
    <3>3. QED
      BY <1>2, <3>1, <3>2
  <2>2. QED
    BY <1>1, <2>1 DEF Owned
<1>7. QED
  BY <1>3, <1>4, <1>5, <1>6 DEF PacketInv

\* At the end of the extension every field of it has been read.
LEMMA ReadExtEndsStep ==
    ASSUME PacketInv, ReadExtEnds
    PROVE  PacketInv'
<1>1. pc = "ext" /\ index >= res.head.hdrLen - HeadLen
  BY DEF ReadExtEnds
<1>2. res.ext_cnt \in Nat
  BY DEF PacketInv, Shapes, PacketType
<1>3. CASE res.ext_cnt =< 0
  <2>1. ReadFails /\ res.ext_cnt = 0
    BY <1>2, <1>3 DEF ReadExtEnds
  <2>2. QED
    BY <1>1, <2>1, ReadFailsStep
<1>4. CASE ~(res.ext_cnt =< 0)
  <2>1. /\ pc' = "body" /\ rc' = rc
        /\ waits' = waits /\ kind' = kind /\ req' = req /\ res' = res /\ sent' = sent
        /\ answer' = answer /\ index' = index /\ answers' = answers
        /\ heap' = heap /\ ptrs' = ptrs /\ misfreed' = misfreed
    BY <1>4 DEF ReadExtEnds, packets, memory
  <2>2. PICK ext \in Seq(Fitting) : ext = answer.ext
    BY DEF PacketInv, Shapes
  <2>3. ext \in Seq(Fields) /\ Len(ext) \in Nat
    BY SeqMonotonic, LenProperties DEF Fitting
  <2>4. PICK k \in Nat : k =< Len(ext) /\ index = At(ext, k) /\ ToSet(res.ext) = Texts(Upto(ext, k))
    BY <1>1, <2>2 DEF PacketInv, ReadingFields, BeforeField
  <2>5. res.head.hdrLen = HeadLen + Len(Layout(ext)) /\ Len(Layout(ext)) \in Nat
    BY <1>1, <2>2, <2>3, LayoutBytes DEF PacketInv, ReadingFields
  <2>6. index >= Len(Layout(ext))
    BY <1>1, <2>5 DEF HeadLen, PacketInv, Shapes
  <2>7. k = Len(ext)
    <3>1. k < Len(ext) => index < Len(Layout(ext))
      BY <2>2, <2>4, BeforeTheEnd
    <3>2. index \in Nat
      BY DEF PacketInv, Shapes
    <3>3. QED
      BY <2>3, <2>4, <2>5, <2>6, <3>1, <3>2
  <2>8. ToSet(res.ext) = Texts(answer.ext)
    BY <2>2, <2>3, <2>4, <2>7, UptoEnds
  <2>9. Shapes' /\ Making' /\ Held' /\ HasRead'
    BY <1>1, <2>1 DEF PacketInv, Shapes, Making, Held, HasRead
  <2>10. Sending'
    BY <2>1, SendingStays DEF PacketInv
  <2>11. ReadingFields'
    BY <2>1, <2>8 DEF ReadingFields
  <2>12. Owned'
    BY <1>1, <2>1 DEF PacketInv, Owned
  <2>13. QED
    BY <2>9, <2>10, <2>11, <2>12 DEF PacketInv
<1>5. QED
  BY <1>3, <1>4

\* The body is read, or the read fails.
LEMMA ReadBodyStep ==
    ASSUME PacketInv, ReadBody
    PROVE  PacketInv'
<1>1. pc = "body" /\ answer.body \in BOOLEAN /\ res \in PacketType /\ rc = 0
  BY DEF ReadBody, PacketInv, Shapes, HasRead
<1>2. CASE ~answer.body
  <2>1. ReadFails
    BY <1>2 DEF ReadBody
  <2>2. QED
    BY <1>1, <1>2, <2>1, ReadFailsStep
<1>3. CASE answer.body
  <2>1. /\ res' = [res EXCEPT !.body = 2] /\ Memory({"resRoot"}, {}) /\ pc' = "handle"
        /\ waits' = waits /\ kind' = kind /\ req' = req /\ sent' = sent /\ answer' = answer
        /\ index' = index /\ answers' = answers /\ rc' = rc
    BY <1>3 DEF ReadBody
  <2>2. res' \in PacketType /\ res'.ext = res.ext
    BY <1>1, <2>1 DEF PacketType
  <2>3. "resRoot" \notin ptrs /\ ptrs \subseteq Blocks
    BY <1>1 DEF PacketInv, Owned, Shapes
  <2>4. Held' /\ ptrs' \subseteq Blocks
    <3>1. {"resRoot"} \subseteq Blocks \ ptrs /\ {} \subseteq ptrs
      BY <2>3 DEF Blocks
    <3>2. QED
      BY <2>1, <2>3, <3>1, MemoryHeld DEF PacketInv
  <2>5. Shapes' /\ Making' /\ HasRead'
    BY <1>1, <1>3, <2>1, <2>2, <2>4 DEF PacketInv, Shapes, Making, HasRead
  <2>6. Sending'
    BY <2>1, SendingStays DEF PacketInv
  <2>7. ReadingFields' /\ Owned'
    BY <1>1, <2>1, <2>2 DEF PacketInv, ReadingFields, Owned
  <2>8. QED
    BY <2>4, <2>5, <2>6, <2>7 DEF PacketInv
<1>4. QED
  BY <1>1, <1>2, <1>3

\* What was read is released once it is handled.
LEMMA HandleStep ==
    ASSUME PacketInv, Handle
    PROVE  PacketInv'
<1>1. /\ pc = "handle" /\ pc' \in {"return", "wait"} /\ Release(OfRes)
      /\ waits' = waits /\ kind' = kind /\ req' = req /\ res' = res /\ sent' = sent
      /\ answer' = answer /\ index' = index /\ answers' = answers /\ rc' = rc
  BY DEF Handle, packets
<1>2. answer.body /\ rc = 0 /\ ptrs \subseteq Blocks
  BY <1>1 DEF PacketInv, HasRead, Shapes
<1>3. Held' /\ ptrs' \subseteq Blocks /\ ptrs' = ptrs \ OfRes
  BY <1>1, <1>2, ReleaseHeld DEF PacketInv
<1>4. Shapes' /\ Making' /\ ReadingFields' /\ HasRead'
  BY <1>1, <1>2, <1>3 DEF PacketInv, Shapes, Making, ReadingFields, HasRead
<1>5. Sending'
  BY <1>1, SendingStays DEF PacketInv
<1>6. Owned'
  <2>1. ptrs' \subseteq OfReq /\ ptrs' \cap OfRes = {}
    BY <1>2, <1>3 DEF Blocks, OfReq, OfRes
  <2>2. Left' = {}
    BY <1>1, <1>2 DEF Left
  <2>3. QED
    BY <1>1, <2>1, <2>2 DEF Owned
<1>7. QED
  BY <1>3, <1>4, <1>5, <1>6 DEF PacketInv

\* The request is released once more: what was released before is not pointed to.
LEMMA ReturnStep ==
    ASSUME PacketInv, Return
    PROVE  PacketInv'
<1>1. /\ pc = "return" /\ pc' = "end" /\ Release(OfReq)
      /\ waits' = waits /\ kind' = kind /\ req' = req /\ res' = res /\ sent' = sent
      /\ answer' = answer /\ index' = index /\ answers' = answers /\ rc' = rc
  BY DEF Return, packets
<1>2. ptrs \subseteq Blocks /\ ptrs \cap OfRes = Left
  BY <1>1 DEF PacketInv, Shapes, Owned
<1>3. Held' /\ ptrs' \subseteq Blocks /\ ptrs' = ptrs \ OfReq
  BY <1>1, <1>2, ReleaseHeld DEF PacketInv
<1>4. Shapes' /\ Making' /\ ReadingFields' /\ HasRead'
  BY <1>1, <1>3 DEF PacketInv, Shapes, Making, ReadingFields, HasRead
<1>5. Sending'
  BY <1>1, SendingStays DEF PacketInv
<1>6. Owned'
  <2>1. ptrs' = Left
    BY <1>2, <1>3 DEF Blocks, OfReq, OfRes
  <2>2. Left' = Left
    BY <1>1 DEF Left
  <2>3. QED
    BY <1>1, <2>1, <2>2 DEF Owned
<1>7. QED
  BY <1>3, <1>4, <1>5, <1>6 DEF PacketInv

\* PacketInv is inductive.
LEMMA PacketNext == PacketInv /\ [Next]_vars => PacketInv'
<1> SUFFICES ASSUME PacketInv, [Next]_vars PROVE PacketInv'
  OBVIOUS
<1>1. CASE Make
  BY <1>1, MakeStep
<1>2. CASE AddField
  BY <1>2, AddFieldStep
<1>3. CASE Send
  BY <1>3, SendStep
<1>4. CASE Poll
  BY <1>4, PollStep
<1>5. CASE TimeOut
  BY <1>5, TimeOutStep
<1>6. CASE Arrive
  BY <1>6, ArriveStep
<1>7. CASE ReadField
  BY <1>7, ReadFieldStep
<1>8. CASE ReadExtEnds
  BY <1>8, ReadExtEndsStep
<1>9. CASE ReadBody
  BY <1>9, ReadBodyStep
<1>10. CASE Handle
  BY <1>10, HandleStep
<1>11. CASE Return
  BY <1>11, ReturnStep
<1>12. CASE UNCHANGED vars
  <2>1. /\ pc' = pc /\ rc' = rc
        /\ waits' = waits /\ kind' = kind /\ req' = req /\ res' = res /\ sent' = sent
        /\ answer' = answer /\ index' = index /\ answers' = answers
        /\ heap' = heap /\ ptrs' = ptrs /\ misfreed' = misfreed
    BY <1>12 DEF vars, packets, memory
  <2>2. Shapes' /\ Making' /\ ReadingFields' /\ Held' /\ HasRead'
    BY <2>1 DEF PacketInv, Shapes, Making, ReadingFields, BeforeField, Held, HasRead
  <2>3. Owned'
    BY <2>1 DEF PacketInv, Owned, Left
  <2>4. Sending'
    <3>1. LaidOut' <=> LaidOut
      BY <2>1 DEF LaidOut
    <3>2. Short(req.ext)' <=> Short(req.ext)
      BY <2>1 DEF Short
    <3>3. QED
      BY <2>1, <3>1, <3>2 DEF PacketInv, Sending
  <2>5. QED
    BY <2>2, <2>3, <2>4 DEF PacketInv
<1>13. QED
  BY <1>1, <1>2, <1>3, <1>4, <1>5, <1>6, <1>7, <1>8, <1>9, <1>10, <1>11, <1>12 DEF Next

-----------------------------------------------------------------------------
(* Theorems *)

\* The inductive invariant: what a packet points to, what has been written of it and
\* what has been read, by where the call is.
THEOREM PacketInvariant == Spec => []PacketInv
BY PacketInit, PacketNext, PTL DEF Spec

\* im_packet_release and im_head_init: no block is freed twice, though a failed read
\* releases the request both inside the transaction and in its caller, and there is
\* never more than one of a sort.
THEOREM PacketMemory == Spec => []MemoryInv
<1>1. PacketInv => MemoryInv
  <2> SUFFICES ASSUME PacketInv PROVE MemoryInv
    OBVIOUS
  <2>1. heap \in [Blocks -> 0..1] /\ FreedOnce
    BY DEF PacketInv, Held, FreedOnce
  <2>2. /\ kind \in Kinds /\ rc \in {-1, 0} /\ answers \in 0..MaxAnswers
        /\ ptrs \subseteq Blocks /\ req \in PacketType
    BY DEF PacketInv, Shapes
  <2>3. req.head.byte1 \in 0..255 /\ req.head.byte2 \in 0..255
    BY <2>2 DEF PacketType, HeadType
  <2>4. req.ext_cnt \in Len(req.ext)..MaxFields
    <3>1. req.ext_cnt \in Nat /\ Len(req.ext) \in Nat
      BY <2>2, LenProperties DEF PacketType
    <3>2. QED
      BY <3>1, PacketAssumption DEF PacketInv, Making
  <2>5. QED
    BY <2>1, <2>2, <2>3, <2>4 DEF MemoryInv, TypeOK
<1>2. QED
  BY <1>1, PacketInvariant, PTL

\* tcp_send_request and tcp_recv_response: a call that has returned leaves nothing of
\* its packets allocated, except the extension of an answer whose body a transaction
\* could not read.
THEOREM NothingIsLeft == Spec => []NothingLeft
<1>1. PacketInv => NothingLeft
  <2> SUFFICES ASSUME PacketInv, pc = "end", NEW b \in Blocks
               PROVE  heap[b] = IF b = "resExt" /\ waits /\ rc = -1
                                   /\ ~answer.body /\ res.ext_cnt > 0 THEN 1 ELSE 0
    BY DEF NothingLeft
  <2>1. heap[b] = IF b \in Left THEN 1 ELSE 0
    BY DEF PacketInv, Held, Owned
  <2>2. QED
    BY <2>1 DEF Left
<1>2. QED
  BY <1>1, PacketInvariant, PTL

\* im_head_get_serialized_to_buff and im_body_get_serialized_to_buff: a request that
\* is reported as sent, none of its fields longer than 255 bytes, went out as the
\* protocol lays it out and its head says, or too short for its head.
THEOREM SentAreWhole == Spec => []SentIsPacket
<1>1. PacketInv => SentIsPacket
  BY DEF PacketInv, Sending, SentIsPacket, IsSent
<1>2. QED
  BY <1>1, PacketInvariant, PTL

\* im_pktHeadExt_get_deserialize_from_buff: the extension that a handler finds is the
\* one that the platform wrote, of any number of fields of any length.
THEOREM ReadIsWritten == Spec => []ReadIsAnswer
<1>1. PacketInv => ReadIsAnswer
  BY DEF PacketInv, ReadingFields, ReadIsAnswer
<1>2. QED
  BY <1>1, PacketInvariant, PTL
=============================================================================
