------------------------ MODULE RequestBodiesProofs ------------------------
(***************************************************************************)
(* What TLAPS proves of the walk over a control, of the report that end    *)
(* handlers fill during it, and of the answer to a query: for requests and *)
(* queries of any size, whatever the handlers return and report.           *)
(***************************************************************************)
EXTENDS RequestBodies, DataBodyProofs

-----------------------------------------------------------------------------
(* The walk: its inductive invariant *)

\* The datum the walk is at.
Cursor == <<dev, row, kind, idx + 1>>

\* The handlers have seen the data that are due and stand before that.
SeenBehind == ToSet(handled) = {x \in Due : Before(x, Cursor)}

\* The rows and devices that the walk has behind it had a datum for a handler.
WalkedOn ==
    /\ \A e \in 1..(dev - 1) : SomethingIn(e, 1)
    /\ \A s \in 1..(row - 1) : SomethingIn(dev, s)
    /\ row = rows + 1

\* What the counter of a row says.
Counters ==
    /\ happens = 0 => devid = 0 /\ \A x \in ToSet(handled) : ~(x[1] = dev /\ x[2] = row)
    /\ happens > 0 => devid = dev /\ \E x \in ToSet(handled) : x[1] = dev /\ x[2] = row
    /\ pc = "sent" => kind > Len(Kinds) /\ happens = 0 /\ rows = 0

\* The end handler's calls are those of the rows before, in which something was handled.
EndedBehind ==
    /\ \A i \in 1..Len(ended) :
          /\ ended[i][3] = ended[i][1]
          /\ ended[i][1] < dev \/ (ended[i][1] = dev /\ ended[i][2] < row)
          /\ \E x \in ToSet(handled) : x[1] = ended[i][1] /\ x[2] = ended[i][2]
    /\ \A i \in 1..(Len(ended) - 1) : Before(ended[i], ended[i + 1])
    /\ onEnd => \A x \in ToSet(handled) :
          \/ x[1] = dev /\ x[2] = row /\ happens > 0
          \/ \E e \in ToSet(ended) : x[1] = e[1] /\ x[2] = e[2]
    /\ ~onEnd => ended = <<>>

\* The code of the report while the walk goes on.
ReportSoFar ==
    /\ respCd = 0 /\ happens = 0 => handled = <<>>
    /\ respCd # 0 => handled # <<>>
    /\ ended # <<>> => (respCd = 200 <=> Last(ended)[4] = 200)

WalkInv ==
    /\ TypeOK /\ OnceInOrder /\ SeenBehind /\ WalkedOn /\ Counters /\ EndedBehind /\ ReportSoFar

-----------------------------------------------------------------------------
(* The report and the answer *)

\* The devices of the report are among those of the data handled, none behind the
\* one the walk is at; and what an end handler has still to put in is that one.
ReportBehind ==
    method = 525 =>
        /\ \A n \in 1..Len(body.root) :
              /\ body.root[n].devId \in 1..dev
              /\ \E x \in ToSet(handled) : x[1] = body.root[n].devId
        /\ \A n \in 1..(Len(body.root) - 1) : body.root[n].devId <= body.root[n + 1].devId
        /\ \A i \in 1..Len(todo) : todo[i].op = "device" => todo[i].name = dev /\ happens > 0

\* The answer has the devices of the query up to the one that is asked for; between
\* handlers nothing is left to put in.
AnswerSoFar ==
    method = 711 =>
        /\ next711 \in 0..Len(query.inclDevIds)
        /\ at = "handler" => next711 < Len(query.inclDevIds)
        /\ at # "handler" => todo = <<>>
        /\ Len(body.root) = next711 + IF at = "handler" THEN 1 ELSE 0
        /\ \A n \in 1..Len(body.root) : body.root[n].devId = query.inclDevIds[n]
        /\ \A i \in 1..Len(todo) : todo[i].op # "device"

\* What does not change, and what the query is.
RequestTypeOK ==
    /\ method \in {411, 525, 711} /\ request \in Requests
    /\ query \in Queries /\ lastval \subseteq {"for", "for_all"}
    /\ at \in {"devices", "handler", "sent"}

RequestInv == RequestTypeOK /\ WalkInv /\ BodyInv /\ ReportBehind /\ AnswerSoFar

-----------------------------------------------------------------------------
(* Lemmas on kinds, on the order of data, and on what is due *)

\* There are five kinds, and each is one place in the order of the blocks.
LEMMA KindsAre ==
    /\ Len(Kinds) = 5 /\ DOMAIN Kinds = 1..5
    /\ ToSet(Kinds) = {Kinds[k] : k \in 1..5}
BY DEF Kinds, ToSet

\* To stand before is to be less in the first place that differs.
LEMMA BeforeIs ==
    ASSUME NEW x, NEW y
    PROVE  Before(x, y) <=>
             \/ x[1] < y[1]
             \/ x[1] = y[1] /\ x[2] < y[2]
             \/ x[1] = y[1] /\ x[2] = y[2] /\ x[3] < y[3]
             \/ x[1] = y[1] /\ x[2] = y[2] /\ x[3] = y[3] /\ x[4] < y[4]
<1>1. Before(x, y) <=>
        \/ x[1] < y[1] /\ \A j \in 1..(1 - 1) : x[j] = y[j]
        \/ x[2] < y[2] /\ \A j \in 1..(2 - 1) : x[j] = y[j]
        \/ x[3] < y[3] /\ \A j \in 1..(3 - 1) : x[j] = y[j]
        \/ x[4] < y[4] /\ \A j \in 1..(4 - 1) : x[j] = y[j]
  <2>1. 1..4 = {1, 2, 3, 4}
    OBVIOUS
  <2>2. QED
    BY <2>1, Zenon DEF Before
<1>2. /\ 1..(1 - 1) = {} /\ 1..(2 - 1) = {1} /\ 1..(3 - 1) = {1, 2} /\ 1..(4 - 1) = {1, 2, 3}
  OBVIOUS
<1>3. QED
  BY <1>1, <1>2, Zenon

\* A datum at a place: its row has so many of its kind, a handler is set for the
\* kind, and the walk reaches the row.
DueAt(d, r, k, n) ==
    /\ d \in Nat \ {0} /\ r \in Nat \ {0} /\ k \in 1..5 /\ n \in 1..MaxData
    /\ Kinds[k] \in handlers
    /\ n <= Count(d, r, Kinds[k])
    /\ Reached(d, r)

\* A request has a number of data of each kind in each of its rows.
LEMMA CountIs ==
    ASSUME request \in Seq(Seq(Row)), NEW d \in Nat \ {0}, NEW r \in Nat \ {0},
           NEW k \in ToSet(Kinds)
    PROVE  /\ Count(d, r, k) \in Nat
           /\ Count(d, r, k) > 0 => d \in 1..Len(request) /\ r \in 1..Len(request[d])
<1>1. Len(request) \in Nat
  BY LenProperties
<1>2. ASSUME d <= Len(request)
      PROVE  d \in 1..Len(request) /\ request[d] \in Seq(Row) /\ Len(request[d]) \in Nat
  <2>1. d \in 1..Len(request)
    BY <1>1, <1>2
  <2>2. request[d] \in Seq(Row)
    BY <2>1, ElementOfSeq
  <2>3. QED
    BY <2>1, <2>2, LenProperties
<1>3. ASSUME d <= Len(request), r <= Len(request[d])
      PROVE  r \in 1..Len(request[d]) /\ request[d][r] \in Row
  <2>1. r \in 1..Len(request[d])
    BY <1>2, <1>3
  <2>2. QED
    BY <1>2, <1>3, <2>1, ElementOfSeq
<1>4. ASSUME d <= Len(request), r <= Len(request[d])
      PROVE  request[d][r][k] \in Nat
  BY <1>3, <1>4 DEF Row
<1>5. QED
  BY <1>2, <1>3, <1>4 DEF Count

\* What is due are the data at such places.
LEMMA DueIs ==
    ASSUME request \in Seq(Seq(Row)), handlers \subseteq ToSet(Kinds)
    PROVE  /\ \A d, r, k, n : DueAt(d, r, k, n) => <<d, r, k, n>> \in Due
           /\ \A x \in Due : /\ DueAt(x[1], x[2], x[3], x[4])
                             /\ x = <<x[1], x[2], x[3], x[4]>>
<1>1. MaxData \in Nat /\ Len(request) \in Nat /\ DOMAIN request = 1..Len(request)
  BY WalkAssumption, LenProperties
<1>2. ASSUME NEW d, NEW r, NEW k, NEW n, DueAt(d, r, k, n)
      PROVE  <<d, r, k, n>> \in Due
  <2>1. /\ d \in 1..Len(request) /\ r \in 1..Len(request[d]) /\ k \in DOMAIN Kinds
        /\ n \in 1..MaxData
    <3>1. Kinds[k] \in ToSet(Kinds) /\ d \in Nat \ {0} /\ r \in Nat \ {0} /\ n \in 1..MaxData
          /\ n <= Count(d, r, Kinds[k]) /\ k \in 1..5
      BY <1>2, KindsAre DEF DueAt
    <3>2. Count(d, r, Kinds[k]) \in Nat
      BY <3>1, CountIs
    <3>3. Count(d, r, Kinds[k]) > 0
      BY <1>1, <3>1, <3>2
    <3>4. QED
      BY <3>1, <3>3, CountIs, KindsAre
  <2>2. <<d, r, k, n>> \in UNION {{<<e, s, l, m>> : s \in 1..Len(request[e]),
                                       l \in DOMAIN Kinds, m \in 1..MaxData}
                      : e \in DOMAIN request}
    BY <1>1, <2>1
  <2>3. QED
    BY <1>2, <2>2 DEF Due, DueAt
<1>3. ASSUME NEW x \in Due
      PROVE  DueAt(x[1], x[2], x[3], x[4]) /\ x = <<x[1], x[2], x[3], x[4]>>
  <2>1. PICK d \in DOMAIN request :
           x \in {<<d, r, k, n>> : r \in 1..Len(request[d]),
                                   k \in DOMAIN Kinds, n \in 1..MaxData}
    BY DEF Due
  <2>2. PICK r \in 1..Len(request[d]), k \in DOMAIN Kinds, n \in 1..MaxData :
           x = <<d, r, k, n>>
    BY <2>1
  <2>3. Kinds[x[3]] \in handlers /\ x[4] <= Count(x[1], x[2], Kinds[x[3]]) /\ Reached(x[1], x[2])
    BY DEF Due
  <2>4. d \in Nat \ {0} /\ r \in Nat \ {0} /\ k \in 1..5
    <3>1. request[d] \in Seq(Row)
      BY <1>1, ElementOfSeq
    <3>2. Len(request[d]) \in Nat
      BY <3>1, LenProperties
    <3>3. QED
      BY <1>1, <2>2, <3>2, KindsAre
  <2>5. x[1] = d /\ x[2] = r /\ x[3] = k /\ x[4] = n
    BY <2>2
  <2>6. QED
    BY <2>2, <2>3, <2>4, <2>5 DEF DueAt
<1>4. QED
  BY <1>2, <1>3

\* What is handed over goes to the end of what was.
LEMMA SetOfAppend ==
    ASSUME NEW S, NEW s \in Seq(S), NEW e
    PROVE  ToSet(Append(s, e)) = ToSet(s) \cup {e}
<1>1. /\ Append(s, e) \in Seq(S \cup {e}) /\ Len(Append(s, e)) = Len(s) + 1
      /\ DOMAIN s = 1..Len(s) /\ Len(s) \in Nat /\ DOMAIN Append(s, e) = 1..(Len(s) + 1)
      /\ \A n \in 1..Len(s) : Append(s, e)[n] = s[n]
      /\ Append(s, e)[Len(s) + 1] = e
  <2>1. s \in Seq(S \cup {e}) /\ e \in S \cup {e}
    BY SeqMonotonic
  <2>2. QED
    BY <2>1, AppendProperties, LenProperties
<1>2. ASSUME NEW x \in ToSet(Append(s, e)) PROVE x \in ToSet(s) \cup {e}
  BY <1>1 DEF ToSet
<1>3. ASSUME NEW x \in ToSet(s) PROVE x \in ToSet(Append(s, e))
  BY <1>1 DEF ToSet
<1>4. e \in ToSet(Append(s, e))
  <2>1. Len(s) + 1 \in DOMAIN Append(s, e)
    BY <1>1
  <2>2. QED
    BY <1>1, <2>1 DEF ToSet
<1>5. QED
  BY <1>2, <1>3, <1>4

\* Nothing is in a set of no elements, and what is at a place is in it.
LEMMA PlacesOf ==
    ASSUME NEW S, NEW s \in Seq(S)
    PROVE  /\ s = <<>> <=> ToSet(s) = {}
           /\ \A i \in 1..Len(s) : s[i] \in ToSet(s)
           /\ \A x \in ToSet(s) : x \in S /\ \E i \in 1..Len(s) : s[i] = x
<1>1. DOMAIN s = 1..Len(s) /\ Len(s) \in Nat /\ (s = <<>> <=> Len(s) = 0)
  BY LenProperties, EmptySeq
<1>2. /\ \A i \in 1..Len(s) : s[i] \in ToSet(s)
      /\ \A x \in ToSet(s) : x \in S /\ \E i \in 1..Len(s) : s[i] = x
  BY <1>1, ElementOfSeq DEF ToSet
<1>3. s = <<>> <=> ToSet(s) = {}
  <2>1. Len(s) > 0 => 1 \in 1..Len(s)
    BY <1>1
  <2>2. Len(s) = 0 => 1..Len(s) = {}
    BY <1>1
  <2>3. QED
    BY <1>1, <1>2, <2>1, <2>2
<1>4. QED
  BY <1>2, <1>3

\* What is due is the same while the request and the handlers are.
LEMMA SameRequest ==
    ASSUME UNCHANGED doc
    PROVE  Due' = Due /\ \A d, r : SomethingIn(d, r)' <=> SomethingIn(d, r)
<1>1. request' = request /\ handlers' = handlers
  BY DEF doc
<1>2. \A d, r, k : Count(d, r, k)' = Count(d, r, k)
  BY <1>1 DEF Count
<1>3. \A d, r : SomethingIn(d, r)' <=> SomethingIn(d, r)
  BY <1>1, <1>2 DEF SomethingIn
<1>4. \A d, r : Reached(d, r)' <=> Reached(d, r)
  BY <1>3 DEF Reached
<1>5. Due' = Due
  BY <1>1, <1>2, <1>4 DEF Due
<1>6. QED
  BY <1>3, <1>5

\* Where a datum is due, its row has something for a handler.
LEMMA DueIsSomething ==
    ASSUME request \in Seq(Seq(Row)), handlers \subseteq ToSet(Kinds),
           NEW d, NEW r, NEW k, NEW n, DueAt(d, r, k, n)
    PROVE  SomethingIn(d, r)
<1>1. Kinds[k] \in handlers /\ n <= Count(d, r, Kinds[k]) /\ n \in 1..MaxData
      /\ d \in Nat \ {0} /\ r \in Nat \ {0} /\ MaxData \in Nat
  BY WalkAssumption DEF DueAt
<1>2. Count(d, r, Kinds[k]) \in Nat
  BY <1>1, CountIs
<1>3. Count(d, r, Kinds[k]) > 0
  BY <1>1, <1>2
<1>4. QED
  BY <1>1, <1>3 DEF SomethingIn

\* The walk is where it may be: it reaches a row with something for a handler.
LEMMA HereIsReached ==
    ASSUME TypeOK, WalkedOn, SomethingIn(dev, row)
    PROVE  Reached(dev, row)
<1>1. dev \in Nat \ {0} /\ row \in Nat \ {0}
  BY DEF TypeOK
<1>2. ASSUME NEW s \in 1..row PROVE SomethingIn(dev, s)
  <2>1. CASE s = row
    BY <2>1
  <2>2. CASE s # row
    <3>1. s \in 1..(row - 1)
      BY <1>1, <2>2
    <3>2. QED
      BY <3>1 DEF WalkedOn
  <2>3. QED
    BY <2>1, <2>2
<1>3. ASSUME NEW e \in 1..dev PROVE SomethingIn(e, 1)
  <2>1. CASE e = dev
    <3>1. 1 \in 1..row
      BY <1>1
    <3>2. QED
      BY <1>2, <2>1, <3>1
  <2>2. CASE e # dev
    <3>1. e \in 1..(dev - 1)
      BY <1>1, <2>2
    <3>2. QED
      BY <3>1 DEF WalkedOn
  <2>3. QED
    BY <2>1, <2>2
<1>4. QED
  BY <1>2, <1>3 DEF Reached

-----------------------------------------------------------------------------
(* The walk: every step keeps the invariant *)

\* What stands before the datum the walk is at.
LEMMA BeforeCursor ==
    ASSUME NEW x
    PROVE  Before(x, Cursor) <=>
             \/ x[1] < dev
             \/ x[1] = dev /\ x[2] < row
             \/ x[1] = dev /\ x[2] = row /\ x[3] < kind
             \/ x[1] = dev /\ x[2] = row /\ x[3] = kind /\ x[4] < idx + 1
<1>1. Cursor[1] = dev /\ Cursor[2] = row /\ Cursor[3] = kind /\ Cursor[4] = idx + 1
  BY DEF Cursor
<1>2. QED
  BY <1>1, BeforeIs, Zenon

\* A datum that is due has a device, a row, a kind and a place, all counted from 1.
LEMMA DueNumbers ==
    ASSUME TypeOK, NEW x \in Due
    PROVE  /\ x[1] \in Nat \ {0} /\ x[2] \in Nat \ {0} /\ x[3] \in 1..5 /\ x[4] \in Nat \ {0}
           /\ x = <<x[1], x[2], x[3], x[4]>>
<1>1. DueAt(x[1], x[2], x[3], x[4]) /\ x = <<x[1], x[2], x[3], x[4]>>
  BY DueIs DEF TypeOK
<1>2. QED
  BY <1>1, WalkAssumption DEF DueAt

\* The datum that is handed over is due, and stands behind all that were.
LEMMA DatumIsNext ==
    ASSUME WalkInv, InBlock
    PROVE  Cursor \in Due /\ Cursor \in Datums /\ Cursor \notin ToSet(handled)
<1>1. TypeOK /\ WalkedOn /\ SeenBehind
  BY DEF WalkInv
<1>2. /\ dev \in Nat \ {0} /\ row \in Nat \ {0} /\ kind \in 1..5 /\ idx \in Nat /\ MaxData \in Nat
      /\ idx + 1 \in 1..MaxData /\ Kinds[kind] \in handlers /\ idx < Count(dev, row, Kinds[kind])
      /\ request \in Seq(Seq(Row)) /\ handlers \subseteq ToSet(Kinds)
  BY <1>1, KindsAre, WalkAssumption DEF TypeOK, InBlock
<1>3. Count(dev, row, Kinds[kind]) \in Nat
  BY <1>2, CountIs
<1>4. idx + 1 <= Count(dev, row, Kinds[kind]) /\ Count(dev, row, Kinds[kind]) > 0
  BY <1>2, <1>3
<1>5. Reached(dev, row)
  <2>1. SomethingIn(dev, row)
    BY <1>2, <1>4 DEF SomethingIn
  <2>2. QED
    BY <1>1, <2>1, HereIsReached
<1>6. DueAt(dev, row, kind, idx + 1)
  BY <1>2, <1>4, <1>5 DEF DueAt
<1>7. Cursor \in Due
  BY <1>2, <1>6, DueIs DEF Cursor
<1>8. Cursor \notin ToSet(handled)
  <2>1. ~Before(Cursor, Cursor)
    <3>1. Cursor[1] = dev /\ Cursor[2] = row /\ Cursor[3] = kind /\ Cursor[4] = idx + 1
      BY DEF Cursor
    <3>2. QED
      BY <1>2, <3>1, BeforeCursor
  <2>2. QED
    BY <1>1, <2>1 DEF SeenBehind
<1>9. Cursor \in Datums
  BY <1>2, KindsAre DEF Cursor, Datums
<1>10. QED
  BY <1>7, <1>8, <1>9

\* The next datum of the kind is handed over.
LEMMA WalkDatum ==
    ASSUME WalkInv, Datum
    PROVE  WalkInv'
<1> DEFINE seen == ToSet(handled)
<1>1. /\ TypeOK /\ OnceInOrder /\ SeenBehind /\ WalkedOn /\ Counters /\ EndedBehind /\ ReportSoFar
      /\ Cursor \in Due /\ Cursor \in Datums /\ UNCHANGED doc
  BY DatumIsNext DEF WalkInv, Datum
<1>2. /\ dev \in Nat \ {0} /\ row \in Nat \ {0} /\ kind \in 1..5 /\ idx \in Nat /\ happens \in Nat
      /\ handled \in Seq(Datums) /\ Len(handled) \in Nat
  <2>1. handled \in Seq(Datums) /\ Len(handled) \in Nat
    BY <1>1, LenProperties DEF TypeOK
  <2>2. QED
    BY <1>1, <2>1, KindsAre DEF TypeOK, Datum, InBlock
<1>3. /\ handled' = Append(handled, Cursor) /\ devid' = dev /\ idx' = idx + 1
      /\ happens' = happens + 1
      /\ UNCHANGED <<doc, pc, dev, row, kind, rows, respCd, ended>>
  BY DEF Datum, Cursor
<1>4. ToSet(handled') = seen \cup {Cursor}
  BY <1>2, <1>3, SetOfAppend
<1>5. /\ handled' \in Seq(Datums) /\ Len(handled') = Len(handled) + 1
      /\ \A i \in 1..Len(handled) : handled'[i] = handled[i]
      /\ handled'[Len(handled) + 1] = Cursor
  BY <1>1, <1>2, <1>3, AppendProperties
<1>6. TypeOK'
  <2>1. idx + 1 \in 0..MaxData
    BY <1>2, WalkAssumption DEF Datum, InBlock
  <2>2. QED
    BY <1>1, <1>2, <1>3, <1>5, <2>1 DEF TypeOK, doc
<1>7. OnceInOrder'
  <2>1. SUFFICES ASSUME NEW i \in 1..Len(handled)
                 PROVE  Before(handled'[i], handled'[i + 1])
    BY <1>2, <1>5 DEF OnceInOrder
  <2>2. CASE i = Len(handled)
    <3>1. handled[i] \in seen
      BY <1>2, PlacesOf
    <3>2. Before(handled[i], Cursor)
      BY <1>1, <3>1 DEF SeenBehind
    <3>3. QED
      BY <1>5, <2>2, <3>2
  <2>3. CASE i # Len(handled)
    <3>1. i \in 1..(Len(handled) - 1) /\ i + 1 \in 1..Len(handled)
      BY <1>2, <2>3
    <3>2. QED
      BY <1>1, <1>5, <3>1 DEF OnceInOrder
  <2>4. QED
    BY <2>2, <2>3
<1>8. SeenBehind'
  <2>1. Due' = Due
    BY <1>1, SameRequest
  <2>2. Cursor' = <<dev, row, kind, idx + 2>>
    BY <1>2, <1>3 DEF Cursor
  <2>3. ASSUME NEW x \in Due
        PROVE  Before(x, Cursor') <=> x = Cursor \/ Before(x, Cursor)
    <3>1. x[1] \in Nat /\ x[2] \in Nat /\ x[3] \in Nat /\ x[4] \in Nat
          /\ x = <<x[1], x[2], x[3], x[4]>>
      BY <1>1, DueNumbers
    <3>2. x = Cursor <=> x[1] = dev /\ x[2] = row /\ x[3] = kind /\ x[4] = idx + 1
      BY <3>1 DEF Cursor
    <3>3. Before(x, Cursor') <=>
             \/ x[1] < dev
             \/ x[1] = dev /\ x[2] < row
             \/ x[1] = dev /\ x[2] = row /\ x[3] < kind
             \/ x[1] = dev /\ x[2] = row /\ x[3] = kind /\ x[4] < idx + 2
      BY <2>2, BeforeIs
    <3>4. x[4] < idx + 2 <=> x[4] = idx + 1 \/ x[4] < idx + 1
      BY <1>2, <3>1
    <3>5. QED
      BY <3>2, <3>3, <3>4, BeforeCursor, Zenon
  <2>4. QED
    BY <1>1, <1>4, <2>1, <2>3 DEF SeenBehind
<1>9. WalkedOn'
  <2>1. \A d, r : SomethingIn(d, r)' <=> SomethingIn(d, r)
    BY <1>1, SameRequest
  <2>2. QED
    BY <1>1, <1>3, <2>1 DEF WalkedOn
<1>10. Cursor[1] = dev /\ Cursor[2] = row
  BY DEF Cursor
<1>11. Counters'
  <2>1. happens' > 0 /\ ~(happens' = 0)
    BY <1>2, <1>3
  <2>2. \E x \in ToSet(handled') : x[1] = dev /\ x[2] = row
    BY <1>4, <1>10
  <2>3. pc' = "row"
    BY <1>3 DEF Datum, InBlock
  <2>4. QED
    BY <1>3, <2>1, <2>2, <2>3 DEF Counters
<1>12. EndedBehind'
  <2>1. happens' > 0
    BY <1>2, <1>3
  <2>2. onEnd' = onEnd
    BY <1>1 DEF doc
  <2>3. \A x \in ToSet(handled') :
          x \in seen \/ (x[1] = dev /\ x[2] = row)
    BY <1>4, <1>10
  <2>4. QED
    BY <1>1, <1>3, <1>4, <2>1, <2>2, <2>3 DEF EndedBehind
<1>13. ReportSoFar'
  <2>1. happens' > 0 /\ handled' # <<>>
    <3>1. Len(handled') > 0
      BY <1>2, <1>5
    <3>2. QED
      BY <1>2, <1>3, <3>1, EmptySeq
  <2>2. QED
    BY <1>1, <1>2, <1>3, <2>1 DEF ReportSoFar
<1>14. QED
  BY <1>6, <1>7, <1>8, <1>9, <1>11, <1>12, <1>13 DEF WalkInv

\* The block of a kind is left: nothing of the kind is due behind its place.
LEMMA WalkNextKind ==
    ASSUME WalkInv, NextKind
    PROVE  WalkInv'
<1>1. /\ TypeOK /\ OnceInOrder /\ SeenBehind /\ WalkedOn /\ Counters /\ EndedBehind /\ ReportSoFar
      /\ UNCHANGED doc
  BY DEF WalkInv, NextKind
<1>2. /\ kind' = kind + 1 /\ idx' = 0 /\ pc = "row" /\ kind <= 5 /\ ~InBlock
      /\ UNCHANGED <<doc, pc, dev, row, happens, rows, devid, respCd, handled, ended>>
  BY KindsAre DEF NextKind
<1>3. kind \in 1..5 /\ kind + 1 \in 1..6 /\ idx \in Nat /\ MaxData \in Nat /\ dev \in Nat /\ row \in Nat
  BY <1>1, <1>2, KindsAre, WalkAssumption DEF TypeOK
<1>4. TypeOK'
  BY <1>1, <1>2, <1>3, KindsAre DEF TypeOK, doc
<1>5. SeenBehind'
  <2>1. Due' = Due
    BY <1>1, SameRequest
  <2>2. Cursor' = <<dev, row, kind + 1, 1>>
    BY <1>2 DEF Cursor
  <2>3. ASSUME NEW x \in Due, x[1] = dev, x[2] = row, x[3] = kind
        PROVE  x[4] < idx + 1
    <3>1. DueAt(dev, row, kind, x[4])
      BY <1>1, <2>3, DueIs DEF TypeOK
    <3>2. /\ x[4] \in 1..MaxData /\ x[4] <= Count(dev, row, Kinds[kind])
          /\ Kinds[kind] \in handlers
      BY <3>1 DEF DueAt
    <3>3. Count(dev, row, Kinds[kind]) \in Nat
      BY <1>1, <1>3, <3>2, CountIs DEF TypeOK
    <3>4. ~(idx < MaxData) \/ ~(idx < Count(dev, row, Kinds[kind]))
      BY <1>2, <3>2, KindsAre DEF InBlock
    <3>5. QED
      BY <1>3, <3>2, <3>3, <3>4
  <2>4. ASSUME NEW x \in Due
        PROVE  Before(x, Cursor') <=> Before(x, Cursor)
    <3>1. x[1] \in Nat /\ x[2] \in Nat /\ x[3] \in Nat /\ x[4] \in Nat \ {0}
      BY <1>1, DueNumbers
    <3>2. Before(x, Cursor') <=>
             \/ x[1] < dev
             \/ x[1] = dev /\ x[2] < row
             \/ x[1] = dev /\ x[2] = row /\ x[3] < kind + 1
             \/ x[1] = dev /\ x[2] = row /\ x[3] = kind + 1 /\ x[4] < 1
      BY <2>2, BeforeIs
    <3>3. (x[3] < kind + 1 <=> x[3] < kind \/ x[3] = kind) /\ ~(x[4] < 1)
      BY <1>3, <3>1
    <3>4. QED
      BY <2>3, <3>2, <3>3, BeforeCursor, Zenon
  <2>5. QED
    BY <1>1, <1>2, <2>1, <2>4 DEF SeenBehind
<1>6. WalkedOn'
  <2>1. \A d, r : SomethingIn(d, r)' <=> SomethingIn(d, r)
    BY <1>1, SameRequest
  <2>2. QED
    BY <1>1, <1>2, <2>1 DEF WalkedOn
<1>7. Counters' /\ EndedBehind' /\ ReportSoFar' /\ OnceInOrder'
  BY <1>1, <1>2 DEF Counters, EndedBehind, ReportSoFar, OnceInOrder, doc
<1>8. QED
  BY <1>4, <1>5, <1>6, <1>7 DEF WalkInv

\* At the end of a row with something for a handler something was handled.
LEMMA SomethingIsSeen ==
    ASSUME WalkInv, kind > Len(Kinds), SomethingIn(dev, row)
    PROVE  happens > 0
<1>1. /\ TypeOK /\ SeenBehind /\ WalkedOn /\ Counters /\ happens \in Nat /\ MaxData \in Nat \ {0}
      /\ request \in Seq(Seq(Row)) /\ handlers \subseteq ToSet(Kinds)
      /\ dev \in Nat \ {0} /\ row \in Nat \ {0} /\ kind > 5 /\ kind \in 1..6
  BY KindsAre, WalkAssumption DEF WalkInv, TypeOK
<1>2. PICK k \in handlers : Count(dev, row, k) > 0
  BY DEF SomethingIn
<1>3. PICK n \in 1..5 : k = Kinds[n]
  BY <1>1, KindsAre
<1>4. Count(dev, row, k) \in Nat
  BY <1>1, CountIs
<1>5. DueAt(dev, row, n, 1)
  <2>1. Reached(dev, row)
    BY <1>1, HereIsReached
  <2>2. 1 <= Count(dev, row, Kinds[n]) /\ 1 \in 1..MaxData
    BY <1>1, <1>2, <1>3, <1>4
  <2>3. QED
    BY <1>1, <1>3, <2>1, <2>2 DEF DueAt
<1>6. <<dev, row, n, 1>> \in Due
  BY <1>1, <1>5, DueIs
<1>7. Before(<<dev, row, n, 1>>, Cursor)
  <2>1. n < kind
    BY <1>1, <1>3
  <2>2. QED
    BY <2>1, BeforeCursor
<1>8. <<dev, row, n, 1>> \in ToSet(handled)
  BY <1>1, <1>6, <1>7 DEF SeenBehind
<1>9. happens # 0
  BY <1>1, <1>8 DEF Counters
<1>10. QED
  BY <1>1, <1>9

\* And in a row in which something was handled there was something for a handler.
LEMMA HappensIsSomething ==
    ASSUME WalkInv, RowDone
    PROVE  happens > 0 <=> SomethingIn(dev, row)
<1>1. /\ SeenBehind /\ Counters /\ kind > Len(Kinds)
      /\ request \in Seq(Seq(Row)) /\ handlers \subseteq ToSet(Kinds)
  BY DEF WalkInv, TypeOK, RowDone
<1>2. ASSUME happens > 0 PROVE SomethingIn(dev, row)
  <2>1. PICK x \in ToSet(handled) : x[1] = dev /\ x[2] = row
    BY <1>1, <1>2 DEF Counters
  <2>2. x \in Due
    BY <1>1 DEF SeenBehind
  <2>3. DueAt(dev, row, x[3], x[4])
    BY <1>1, <2>1, <2>2, DueIs
  <2>4. QED
    BY <1>1, <2>3, DueIsSomething
<1>3. SomethingIn(dev, row) => happens > 0
  BY <1>1, SomethingIsSeen
<1>4. QED
  BY <1>2, <1>3

\* The walk goes on to a row: what is due before its first datum has been seen when
\* all that is due in the rows and devices left out stands before the old place.
LEMMA RowBegun ==
    ASSUME WalkInv, UNCHANGED <<doc, handled>>, NEW d \in Nat \ {0}, NEW r \in Nat \ {0},
           StartRow(d, r),
           \A x \in Due : Before(x, Cursor) <=> x[1] < d \/ (x[1] = d /\ x[2] < r)
    PROVE  SeenBehind'
<1>1. Due' = Due /\ SeenBehind /\ TypeOK
  BY SameRequest DEF WalkInv
<1>2. Cursor' = <<d, r, 1, 1>>
  BY DEF StartRow, Cursor
<1>3. ASSUME NEW x \in Due
      PROVE  Before(x, Cursor') <=> Before(x, Cursor)
  <2>1. x[1] \in Nat /\ x[2] \in Nat /\ x[3] \in Nat \ {0} /\ x[4] \in Nat \ {0}
    BY <1>1, DueNumbers
  <2>2. Before(x, Cursor') <=>
           \/ x[1] < d
           \/ x[1] = d /\ x[2] < r
           \/ x[1] = d /\ x[2] = r /\ x[3] < 1
           \/ x[1] = d /\ x[2] = r /\ x[3] = 1 /\ x[4] < 1
    BY <1>2, BeforeIs
  <2>3. ~(x[3] < 1) /\ ~(x[4] < 1)
    BY <2>1
  <2>4. QED
    BY <2>2, <2>3, Zenon
<1>4. QED
  BY <1>1, <1>3 DEF SeenBehind

\* Between two rows of a device nothing is due.
LEMMA RowBehind ==
    ASSUME WalkInv, RowDone, NEW x \in Due
    PROVE  Before(x, Cursor) <=> x[1] < dev \/ (x[1] = dev /\ x[2] < row + 1)
<1>1. /\ x[1] \in Nat /\ x[2] \in Nat /\ x[3] \in 1..5 /\ kind > 5
      /\ row \in Nat /\ kind \in Nat /\ dev \in Nat
  BY DueNumbers, KindsAre DEF WalkInv, TypeOK, RowDone
<1>2. x[3] < kind /\ (x[2] < row + 1 <=> x[2] < row \/ x[2] = row)
  BY <1>1
<1>3. QED
  BY <1>2, BeforeCursor, Zenon

\* Behind a row without anything for a handler nothing is due in its device.
LEMMA DeviceBehind ==
    ASSUME WalkInv, RowDone, happens = 0, NEW x \in Due
    PROVE  Before(x, Cursor) <=> x[1] < dev + 1
<1>1. x[1] \in Nat /\ dev \in Nat /\ x[2] \in Nat /\ row \in Nat \ {0} /\ TypeOK
  BY DueNumbers DEF WalkInv, TypeOK
<1>2. ASSUME x[1] = dev PROVE x[2] < row
  <2>1. ~SomethingIn(dev, row)
    BY HappensIsSomething
  <2>2. Reached(dev, x[2])
    BY <1>1, <1>2, DueIs DEF DueAt, TypeOK
  <2>3. ~(row \in 1..x[2])
    BY <2>1, <2>2 DEF Reached
  <2>4. QED
    BY <1>1, <2>3
<1>3. Before(x, Cursor) <=> x[1] < dev \/ (x[1] = dev /\ x[2] < row + 1)
  BY RowBehind
<1>4. QED
  BY <1>1, <1>2, <1>3

\* A row in which something was handled is done, with or without an end handler.
LEMMA WalkRowHandled ==
    ASSUME WalkInv, RowHandled
    PROVE  WalkInv'
<1>1. /\ TypeOK /\ OnceInOrder /\ SeenBehind /\ WalkedOn /\ Counters /\ EndedBehind /\ ReportSoFar
      /\ UNCHANGED doc /\ happens > 0 /\ devid = dev /\ RowDone /\ rows' = rows + 1
      /\ StartRow(dev, row + 1) /\ UNCHANGED <<doc, pc, handled>>
  BY DEF WalkInv, RowHandled, Counters
<1>2. /\ dev' = dev /\ row' = row + 1 /\ kind' = 1 /\ idx' = 0 /\ happens' = 0 /\ devid' = 0
      /\ pc = "row" /\ pc' = pc /\ handled' = handled /\ onEnd' = onEnd
  BY <1>1 DEF StartRow, RowDone, doc
<1>3. /\ dev \in Nat \ {0} /\ row \in Nat \ {0} /\ rows \in Nat /\ happens \in Nat
      /\ handled \in Seq(Datums) /\ ended \in Seq(Nat \X Nat \X Nat \X Results)
      /\ Len(ended) \in Nat /\ request \in Seq(Seq(Row)) /\ handlers \subseteq ToSet(Kinds)
      /\ MaxData \in Nat
  <2>1. ended \in Seq(Nat \X Nat \X Nat \X Results)
    BY <1>1 DEF TypeOK
  <2>2. Len(ended) \in Nat
    BY <2>1, LenProperties
  <2>3. QED
    BY <1>1, <2>1, <2>2, WalkAssumption DEF TypeOK
<1>4. PICK here \in ToSet(handled) : here[1] = dev /\ here[2] = row
  BY <1>1, <1>3 DEF Counters
<1>5. handled # <<>>
  <2>1. ToSet(handled) # {}
    BY <1>4
  <2>2. QED
    BY <1>3, <2>1, PlacesOf
<1>6. PICK result \in Results :
        /\ respCd' = IF result <= 0 THEN 100 ELSE result
        /\ IF onEnd THEN ended' = Append(ended, <<dev, row, devid, result>>)
           ELSE ended' = ended /\ result = 0
  <2>1. CASE onEnd
    <3>1. \E result \in Results :
             /\ ended' = Append(ended, <<dev, row, devid, result>>)
             /\ respCd' = IF result <= 0 THEN 100 ELSE result
      BY <2>1 DEF RowHandled
    <3>2. QED
      BY <2>1, <3>1
  <2>2. CASE ~onEnd
    <3>1. respCd' = 100 /\ ended' = ended
      BY <2>2 DEF RowHandled
    <3>2. 0 \in Results
      BY DEF Results
    <3>3. QED
      BY <2>2, <3>1, <3>2
  <2>3. QED
    BY <2>1, <2>2
<1>7. respCd' \in {100, 200} /\ (respCd' = 200 <=> result = 200)
  BY <1>6 DEF Results
<1> DEFINE end == <<dev, row, devid, result>>
<1>8. end \in Nat \X Nat \X Nat \X Results
  BY <1>1, <1>3
<1>9. end[1] = dev /\ end[2] = row /\ end[3] = devid /\ end[4] = result
  OBVIOUS
<1> HIDE DEF end
<1>10. onEnd => /\ ended' \in Seq(Nat \X Nat \X Nat \X Results)
                /\ Len(ended') = Len(ended) + 1 /\ ended'[Len(ended) + 1] = end
                /\ \A i \in 1..Len(ended) : ended'[i] = ended[i]
                /\ ToSet(ended') = ToSet(ended) \cup {end}
                /\ ended' # <<>> /\ Last(ended') = end
  <2>1. SUFFICES ASSUME onEnd
                 PROVE  /\ ended' \in Seq(Nat \X Nat \X Nat \X Results)
                        /\ Len(ended') = Len(ended) + 1 /\ ended'[Len(ended) + 1] = end
                        /\ \A i \in 1..Len(ended) : ended'[i] = ended[i]
                        /\ ToSet(ended') = ToSet(ended) \cup {end}
                        /\ ended' # <<>> /\ Last(ended') = end
    OBVIOUS
  <2>2. ended' = Append(ended, end)
    BY <1>6, <2>1 DEF end
  <2>3. /\ ended' \in Seq(Nat \X Nat \X Nat \X Results)
        /\ Len(ended') = Len(ended) + 1 /\ ended'[Len(ended) + 1] = end
        /\ \A i \in 1..Len(ended) : ended'[i] = ended[i]
    BY <1>3, <1>8, <2>2, AppendProperties
  <2>4. ToSet(ended') = ToSet(ended) \cup {end}
    BY <1>3, <2>2, SetOfAppend
  <2>5. Last(ended') = end /\ ended' # <<>>
    <3>1. Len(ended') # 0
      BY <1>3, <2>3
    <3>2. Last(ended') = end
      BY <2>3 DEF Last
    <3>3. QED
      BY <2>3, <3>1, <3>2, EmptySeq
  <2>6. QED
    BY <2>3, <2>4, <2>5
<1>11. TypeOK'
  <2>1. ended' \in Seq(Nat \X Nat \X Nat \X Results)
    BY <1>3, <1>6, <1>10
  <2>2. QED
    BY <1>1, <1>2, <1>3, <1>7, <2>1, KindsAre DEF TypeOK, doc
<1>12. SeenBehind'
  <2>1. row + 1 \in Nat \ {0}
    BY <1>3
  <2>2. QED
    BY <1>1, <1>3, <2>1, RowBehind, RowBegun
<1>13. WalkedOn'
  <2>1. \A d, r : SomethingIn(d, r)' <=> SomethingIn(d, r)
    BY <1>1, SameRequest
  <2>2. SomethingIn(dev, row)
    BY <1>1, HappensIsSomething
  <2>3. ASSUME NEW s \in 1..((row + 1) - 1) PROVE SomethingIn(dev, s)
    <3>1. s = row \/ s \in 1..(row - 1)
      BY <1>3
    <3>2. QED
      BY <1>1, <2>2, <3>1 DEF WalkedOn
  <2>4. row + 1 = (rows + 1) + 1
    BY <1>1, <1>3 DEF WalkedOn
  <2>5. QED
    BY <1>1, <1>2, <2>1, <2>3, <2>4 DEF WalkedOn
<1>14. Counters'
  <2>1. ASSUME NEW x \in ToSet(handled), x[1] = dev, x[2] = row + 1
        PROVE  FALSE
    <3>1. x \in Due /\ Before(x, Cursor)
      BY <1>1 DEF SeenBehind
    <3>2. x[1] < dev \/ (x[1] = dev /\ x[2] < row + 1)
      BY <1>1, <3>1, RowBehind
    <3>3. QED
      BY <1>3, <2>1, <3>2
  <2>2. QED
    BY <1>2, <2>1 DEF Counters
<1>15. EndedBehind'
  <2>1. CASE ~onEnd
    <3>1. ended' = ended
      BY <1>6, <2>1
    <3>2. \A i \in 1..Len(ended) :
             ended[i][1] < dev \/ (ended[i][1] = dev /\ ended[i][2] < row + 1)
      <4>1. SUFFICES ASSUME NEW i \in 1..Len(ended), ended[i][1] = dev
                     PROVE  ended[i][2] < row + 1
        BY <1>1 DEF EndedBehind
      <4>2. ended[i] \in Nat \X Nat \X Nat \X Results
        BY <1>3, ElementOfSeq
      <4>3. ended[i][2] \in Nat
        BY <4>2
      <4>4. ended[i][2] < row
        BY <1>1, <1>3, <4>1 DEF EndedBehind
      <4>5. QED
        BY <1>3, <4>3, <4>4
    <3>3. QED
      BY <1>1, <1>2, <2>1, <3>1, <3>2 DEF EndedBehind
  <2>2. CASE onEnd
    <3>1. ASSUME NEW i \in 1..Len(ended')
          PROVE  /\ ended'[i][3] = ended'[i][1]
                 /\ ended'[i][1] < dev \/ (ended'[i][1] = dev /\ ended'[i][2] < row + 1)
                 /\ \E x \in ToSet(handled) : x[1] = ended'[i][1] /\ x[2] = ended'[i][2]
      <4>1. CASE i = Len(ended) + 1
        <5>1. ended'[i] = end
          BY <1>10, <2>2, <4>1
        <5>2. dev = end[1] /\ row < row + 1
          BY <1>3, <1>9
        <5>3. QED
          BY <1>1, <1>4, <1>9, <5>1, <5>2
      <4>2. CASE i # Len(ended) + 1
        <5>1. i \in 1..Len(ended)
          <6>1. Len(ended') = Len(ended) + 1 /\ Len(ended) \in Nat
            BY <1>3, <1>10, <2>2
          <6>2. i \in 1..(Len(ended) + 1)
            BY <6>1, Zenon
          <6>3. QED
            BY <4>2, <6>1, <6>2
        <5>2. ended'[i] = ended[i]
          BY <1>10, <2>2, <5>1
        <5>3. ended[i] \in Nat \X Nat \X Nat \X Results
          BY <1>3, <5>1, ElementOfSeq
        <5>4. ended[i][2] \in Nat
          BY <5>3
        <5>5. ended[i][2] < row => ended[i][2] < row + 1
          BY <1>3, <5>4
        <5>6. QED
          BY <1>1, <5>1, <5>2, <5>5 DEF EndedBehind
      <4>3. QED
        BY <4>1, <4>2
    <3>2. ASSUME NEW i \in 1..(Len(ended') - 1)
          PROVE  Before(ended'[i], ended'[i + 1])
      <4>1. i \in 1..Len(ended)
        <5>1. Len(ended') - 1 = Len(ended)
          BY <1>3, <1>10, <2>2
        <5>2. i \in 1..(Len(ended') - 1)
          OBVIOUS
        <5>3. QED
          BY <5>1, <5>2, Zenon
      <4>2. CASE i = Len(ended)
        <5>1. ended'[i] = ended[i] /\ ended'[i + 1] = end
          BY <1>10, <2>2, <4>1, <4>2
        <5>2. ended[i][1] < dev \/ (ended[i][1] = dev /\ ended[i][2] < row)
          BY <1>1, <4>1 DEF EndedBehind
        <5>3. Before(ended[i], end)
          BY <1>9, <5>2, BeforeIs
        <5>4. QED
          BY <5>1, <5>3
      <4>3. CASE i # Len(ended)
        <5>1. i \in 1..(Len(ended) - 1) /\ i + 1 \in 1..Len(ended)
          BY <1>3, <4>1, <4>3
        <5>2. ended'[i] = ended[i] /\ ended'[i + 1] = ended[i + 1]
          BY <1>10, <2>2, <5>1, <4>1
        <5>3. QED
          BY <1>1, <5>1, <5>2 DEF EndedBehind
      <4>4. QED
        BY <4>2, <4>3
    <3>3. ASSUME NEW x \in ToSet(handled)
          PROVE  \E e \in ToSet(ended') : x[1] = e[1] /\ x[2] = e[2]
      <4>1. CASE x[1] = dev /\ x[2] = row
        BY <1>9, <1>10, <2>2, <4>1
      <4>2. CASE ~(x[1] = dev /\ x[2] = row)
        <5>1. PICK e \in ToSet(ended) : x[1] = e[1] /\ x[2] = e[2]
          BY <1>1, <2>2, <4>2 DEF EndedBehind
        <5>2. QED
          BY <1>10, <2>2, <5>1
      <4>3. QED
        BY <4>1, <4>2
    <3>4. ended' # <<>>
      BY <1>10, <2>2
    <3>5. QED
      BY <1>2, <2>2, <3>1, <3>2, <3>3 DEF EndedBehind
  <2>3. QED
    BY <2>1, <2>2
<1>16. ReportSoFar'
  <2>1. ended' # <<>> => (respCd' = 200 <=> Last(ended')[4] = 200)
    <3>1. CASE onEnd
      BY <1>7, <1>9, <1>10, <3>1
    <3>2. CASE ~onEnd
      <4>1. ended' = <<>>
        BY <1>1, <1>6, <3>2 DEF EndedBehind
      <4>2. QED
        BY <4>1
    <3>3. QED
      BY <3>1, <3>2
  <2>2. respCd' # 0
    BY <1>7
  <2>3. QED
    BY <1>2, <1>5, <2>1, <2>2 DEF ReportSoFar
<1>17. OnceInOrder'
  BY <1>1, <1>2 DEF OnceInOrder
<1>18. QED
  BY <1>11, <1>12, <1>13, <1>14, <1>15, <1>16, <1>17 DEF WalkInv

\* A row in which nothing was handled ends its device.
LEMMA WalkDeviceDone ==
    ASSUME WalkInv, DeviceDone
    PROVE  WalkInv'
<1>1. /\ TypeOK /\ OnceInOrder /\ SeenBehind /\ WalkedOn /\ Counters /\ EndedBehind /\ ReportSoFar
      /\ happens = 0 /\ rows > 0 /\ RowDone /\ rows' = 0 /\ StartRow(dev + 1, 1)
      /\ UNCHANGED <<doc, pc, respCd, handled, ended>>
  BY DEF WalkInv, DeviceDone
<1>2. /\ dev' = dev + 1 /\ row' = 1 /\ kind' = 1 /\ idx' = 0 /\ happens' = 0 /\ devid' = 0
      /\ pc = "row" /\ pc' = pc /\ handled' = handled /\ ended' = ended /\ respCd' = respCd
      /\ onEnd' = onEnd
  BY <1>1 DEF StartRow, RowDone, doc
<1>3. /\ dev \in Nat \ {0} /\ row \in Nat \ {0} /\ rows \in Nat /\ row = rows + 1
      /\ MaxData \in Nat /\ dev + 1 \in Nat \ {0}
  BY <1>1, WalkAssumption DEF TypeOK, WalkedOn
<1>4. TypeOK'
  BY <1>1, <1>2, <1>3, KindsAre DEF TypeOK, doc
<1>5. ASSUME NEW x \in Due
      PROVE  Before(x, Cursor) <=> x[1] < dev + 1 \/ (x[1] = dev + 1 /\ x[2] < 1)
  <2>1. ~(x[2] < 1)
    BY <1>1, DueNumbers
  <2>2. Before(x, Cursor) <=> x[1] < dev + 1
    BY <1>1, DeviceBehind
  <2>3. QED
    BY <2>1, <2>2
<1>6. SeenBehind'
  <2>1. 1 \in Nat \ {0} /\ UNCHANGED <<doc, handled>>
    BY <1>1
  <2>2. QED
    BY <1>1, <1>3, <1>5, <2>1, RowBegun
<1>7. WalkedOn'
  <2>1. \A d, r : SomethingIn(d, r)' <=> SomethingIn(d, r)
    BY <1>1, SameRequest
  <2>2. ASSUME NEW e \in 1..((dev + 1) - 1) PROVE SomethingIn(e, 1)
    <3>1. e = dev \/ e \in 1..(dev - 1)
      BY <1>3
    <3>2. 1 \in 1..(row - 1)
      BY <1>1, <1>3
    <3>3. QED
      BY <1>1, <3>1, <3>2 DEF WalkedOn
  <2>3. 1..(1 - 1) = {} /\ 1 = 0 + 1
    OBVIOUS
  <2>4. QED
    BY <1>1, <1>2, <2>1, <2>2, <2>3 DEF WalkedOn
<1>8. Counters'
  <2>1. ASSUME NEW x \in ToSet(handled), x[1] = dev + 1
        PROVE  FALSE
    <3>1. x \in Due /\ Before(x, Cursor)
      BY <1>1 DEF SeenBehind
    <3>2. x[1] < dev + 1
      BY <1>1, <3>1, DeviceBehind
    <3>3. QED
      BY <1>3, <2>1, <3>2
  <2>2. QED
    BY <1>2, <2>1 DEF Counters
<1>9. EndedBehind'
  <2>1. ASSUME NEW i \in 1..Len(ended)
        PROVE  ended[i][1] < dev + 1
    <3>1. ended[i] \in Nat \X Nat \X Nat \X Results
      BY <1>1, ElementOfSeq DEF TypeOK
    <3>2. ended[i][1] \in Nat
      BY <3>1
    <3>3. ended[i][1] < dev \/ ended[i][1] = dev
      BY <1>1 DEF EndedBehind
    <3>4. QED
      BY <1>3, <3>2, <3>3
  <2>2. \A x \in ToSet(handled) : onEnd => \E e \in ToSet(ended) : x[1] = e[1] /\ x[2] = e[2]
    BY <1>1 DEF EndedBehind
  <2>3. QED
    BY <1>1, <1>2, <2>1, <2>2 DEF EndedBehind
<1>10. ReportSoFar' /\ OnceInOrder'
  BY <1>1, <1>2 DEF ReportSoFar, OnceInOrder
<1>11. QED
  BY <1>4, <1>6, <1>7, <1>8, <1>9, <1>10 DEF WalkInv

\* The walk ends where it stands.
LEMMA WalkWalkDone ==
    ASSUME WalkInv, WalkDone
    PROVE  WalkInv'
<1>1. /\ TypeOK /\ OnceInOrder /\ SeenBehind /\ WalkedOn /\ Counters /\ EndedBehind /\ ReportSoFar
      /\ happens = 0 /\ rows = 0 /\ kind > Len(Kinds) /\ pc' = "sent"
      /\ UNCHANGED <<doc, dev, row, kind, idx, happens, rows, devid, respCd, handled, ended>>
  BY DEF WalkInv, WalkDone, RowDone
<1>2. TypeOK'
  BY <1>1 DEF TypeOK, doc
<1>3. Due' = Due /\ \A d, r : SomethingIn(d, r)' <=> SomethingIn(d, r)
  BY <1>1, SameRequest
<1>4. SeenBehind'
  BY <1>1, <1>3 DEF SeenBehind, Cursor
<1>5. WalkedOn'
  BY <1>1, <1>3 DEF WalkedOn
<1>6. Counters' /\ EndedBehind' /\ ReportSoFar' /\ OnceInOrder'
  BY <1>1 DEF Counters, EndedBehind, ReportSoFar, OnceInOrder, doc
<1>7. QED
  BY <1>2, <1>4, <1>5, <1>6 DEF WalkInv

\* What does not touch the walk leaves its invariant.
LEMMA WalkStands ==
    ASSUME WalkInv, UNCHANGED vars
    PROVE  WalkInv'
<1>1. /\ TypeOK /\ OnceInOrder /\ SeenBehind /\ WalkedOn /\ Counters /\ EndedBehind /\ ReportSoFar
      /\ UNCHANGED <<doc, pc, dev, row, kind, idx, happens, rows, devid, respCd, handled, ended>>
  BY DEF WalkInv, vars
<1>2. Due' = Due /\ \A d, r : SomethingIn(d, r)' <=> SomethingIn(d, r)
  BY <1>1, SameRequest
<1>3. SeenBehind' /\ WalkedOn'
  BY <1>1, <1>2 DEF SeenBehind, Cursor, WalkedOn
<1>4. TypeOK' /\ Counters' /\ EndedBehind' /\ ReportSoFar' /\ OnceInOrder'
  BY <1>1 DEF TypeOK, Counters, EndedBehind, ReportSoFar, OnceInOrder, doc
<1>5. QED
  BY <1>1, <1>3, <1>4 DEF WalkInv

\* Before its first row the walk has nothing behind it.
LEMMA WalkBegins == Init => WalkInv
<1> SUFFICES ASSUME Init PROVE WalkInv
  OBVIOUS
<1>1. /\ pc = "row" /\ dev = 1 /\ row = 1 /\ kind = 1 /\ idx = 0 /\ happens = 0 /\ rows = 0
      /\ devid = 0 /\ respCd = 0 /\ handled = <<>> /\ ended = <<>>
      /\ request \in Requests /\ handlers \in HandlerSets /\ onEnd \in BOOLEAN
  BY DEF Init
<1>2. /\ <<>> \in Seq(Datums) /\ <<>> \in Seq(Nat \X Nat \X Nat \X Results) /\ Len(<<>>) = 0
      /\ 1..(1 - 1) = {} /\ 1..(0 - 1) = {} /\ 1..0 = {}
  BY EmptySeq
<1>3. ToSet(handled) = {}
  BY <1>1, <1>2, PlacesOf
<1>4. TypeOK
  BY <1>1, <1>2, KindsAre, WalkAssumption DEF TypeOK
<1>5. OnceInOrder
  BY <1>1, <1>2 DEF OnceInOrder
<1>6. SeenBehind
  <2>1. ASSUME NEW x \in Due, Before(x, Cursor) PROVE FALSE
    <3>1. x[1] \in Nat \ {0} /\ x[2] \in Nat \ {0} /\ x[3] \in 1..5 /\ x[4] \in Nat \ {0}
      BY <1>4, <2>1, DueNumbers
    <3>2. \/ x[1] < 1 \/ x[2] < 1 \/ x[3] < 1 \/ x[4] < 0 + 1
      BY <1>1, <2>1, BeforeCursor
    <3>3. QED
      BY <3>1, <3>2
  <2>2. QED
    BY <1>3, <2>1 DEF SeenBehind
<1>7. WalkedOn
  BY <1>1, <1>2 DEF WalkedOn
<1>8. Counters /\ EndedBehind /\ ReportSoFar
  BY <1>1, <1>2, <1>3 DEF Counters, EndedBehind, ReportSoFar
<1>9. QED
  BY <1>4, <1>5, <1>6, <1>7, <1>8 DEF WalkInv

\* Whatever the walk does, the invariant stays.
LEMMA WalkStep == WalkInv /\ [Next]_vars => WalkInv'
BY WalkDatum, WalkNextKind, WalkRowHandled, WalkDeviceDone, WalkWalkDone, WalkStands DEF Next

\* What the invariant says of the walk's end: it ends at the first device that has
\* nothing for a handler in its first row, and no later one is due.
LEMMA WalkPromises ==
    ASSUME WalkInv
    PROVE  DueIsHandled /\ OnceInOrder /\ EndAfterRow /\ ReportsLastResult
<1>1. /\ TypeOK /\ OnceInOrder /\ SeenBehind /\ WalkedOn /\ Counters /\ EndedBehind /\ ReportSoFar
  BY DEF WalkInv
<1>2. DueIsHandled
  <2>1. SUFFICES ASSUME pc = "sent" PROVE ToSet(handled) = Due
    BY DEF DueIsHandled
  <2>2. /\ kind > Len(Kinds) /\ happens = 0 /\ row = 1 /\ dev \in Nat \ {0}
    BY <1>1, <2>1 DEF Counters, WalkedOn, TypeOK
  <2>3. ~SomethingIn(dev, 1)
    <3>1. ASSUME SomethingIn(dev, row) PROVE FALSE
      BY <2>2, <3>1, SomethingIsSeen
    <3>2. QED
      BY <2>2, <3>1
  <2>4. ASSUME NEW x \in Due PROVE Before(x, Cursor)
    <3>1. x[1] \in Nat \ {0} /\ Reached(x[1], x[2])
      BY <1>1, DueIs, DueNumbers DEF DueAt, TypeOK
    <3>2. ~(dev \in 1..x[1])
      BY <2>3, <3>1 DEF Reached
    <3>3. x[1] < dev
      BY <2>2, <3>1, <3>2
    <3>4. QED
      BY <3>3, BeforeCursor
  <2>5. QED
    BY <1>1, <2>4 DEF SeenBehind
<1>3. EndAfterRow
  <2>1. /\ ended \in Seq(Nat \X Nat \X Nat \X Results) /\ DOMAIN ended = 1..Len(ended)
    BY <1>1, LenProperties DEF TypeOK
  <2>2. ASSUME onEnd, RowDone, happens = 0
        PROVE  {<<e[1], e[2]>> : e \in ToSet(ended)} = {<<x[1], x[2]>> : x \in ToSet(handled)}
    <3>1. ASSUME NEW e \in ToSet(ended)
          PROVE  \E x \in ToSet(handled) : x[1] = e[1] /\ x[2] = e[2]
      <4>1. PICK i \in 1..Len(ended) : ended[i] = e
        BY <2>1, PlacesOf
      <4>2. QED
        BY <1>1, <4>1 DEF EndedBehind
    <3>2. ASSUME NEW x \in ToSet(handled)
          PROVE  \E e \in ToSet(ended) : x[1] = e[1] /\ x[2] = e[2]
      BY <1>1, <2>2 DEF EndedBehind
    <3>3. ASSUME NEW p \in {<<e[1], e[2]>> : e \in ToSet(ended)}
          PROVE  p \in {<<x[1], x[2]>> : x \in ToSet(handled)}
      <4>1. PICK e \in ToSet(ended) : p = <<e[1], e[2]>>
        OBVIOUS
      <4>2. PICK x \in ToSet(handled) : x[1] = e[1] /\ x[2] = e[2]
        BY <3>1
      <4>3. QED
        BY <4>1, <4>2
    <3>4. ASSUME NEW p \in {<<x[1], x[2]>> : x \in ToSet(handled)}
          PROVE  p \in {<<e[1], e[2]>> : e \in ToSet(ended)}
      <4>1. PICK x \in ToSet(handled) : p = <<x[1], x[2]>>
        OBVIOUS
      <4>2. PICK e \in ToSet(ended) : x[1] = e[1] /\ x[2] = e[2]
        BY <3>2
      <4>3. QED
        BY <4>1, <4>2
    <3>5. QED
      BY <3>3, <3>4
  <2>3. QED
    BY <1>1, <2>1, <2>2 DEF EndAfterRow, EndedBehind
<1>4. ReportsLastResult
  BY <1>1 DEF ReportsLastResult, ReportSoFar, Counters
<1>5. QED
  BY <1>1, <1>2, <1>3, <1>4

-----------------------------------------------------------------------------
(* The bodies: whose names are in them *)

\* A call for a device puts its name behind those that are there.
LEMMA NameAdded ==
    ASSUME BodyInv, NEW call \in Calls, call.op = "device", Perform(call)
    PROVE  /\ Len(body.root') = Len(body.root) + 1
           /\ body.root'[Len(body.root) + 1].devId = call.name
           /\ \A n \in 1..Len(body.root) : body.root'[n] = body.root[n]
           /\ Len(body.root) \in Nat
<1>1. body.root' = Append(body.root, Log!NewDevice(call.name))
  BY PerformStep, ApplyDevice
<1>2. body.root \in Seq(DeviceSet) /\ Log!NewDevice(call.name) \in DeviceSet
  BY CallKinds, NewDeviceTyped DEF BodyInv, BodyTypeOK
<1>3. Log!NewDevice(call.name).devId = call.name
  BY DEF Log!NewDevice
<1>4. QED
  BY <1>1, <1>2, <1>3, AppendProperties, LenProperties

\* A document whose last device has got other rows has the names it had.
LEMMA SameNames ==
    ASSUME NEW old \in Seq(DeviceSet), NEW last \in Nat, NEW device,
           device.devId = old[last].devId
    PROVE  LET new == [old EXCEPT ![last] = device]
           IN  Len(new) = Len(old) /\ \A n \in 1..Len(old) : new[n].devId = old[n].devId
<1> DEFINE new == [old EXCEPT ![last] = device]
<1>1. DOMAIN old = 1..Len(old) /\ Len(old) \in Nat /\ DOMAIN new = DOMAIN old
  BY LenProperties
<1>2. new \in Seq(DeviceSet \cup {device})
  <2>1. \A n \in 1..Len(old) : old[n] \in DeviceSet
    BY ElementOfSeq
  <2>2. new \in [1..Len(old) -> DeviceSet \cup {device}]
    BY <1>1, <2>1
  <2>3. QED
    BY <1>1, <2>2, SeqDef
<1>3. Len(new) = Len(old)
  <2>1. DOMAIN new = 1..Len(new) /\ Len(new) \in Nat
    BY <1>2, LenProperties
  <2>2. QED
    BY <1>1, <1>2, <2>1, LenProperties
<1>4. ASSUME NEW n \in 1..Len(old) PROVE new[n].devId = old[n].devId
  BY <1>1
<1>5. QED
  BY <1>3, <1>4

\* A call for a row or a datum names no device.
LEMMA NamesKept ==
    ASSUME BodyInv, NEW call \in Calls, call.op # "device", Perform(call)
    PROVE  /\ Len(body.root') = Len(body.root) /\ Len(body.root) \in Nat
           /\ \A n \in 1..Len(body.root) : body.root'[n].devId = body.root[n].devId
<1>1. body.root \in Seq(DeviceSet) /\ Len(body.root) \in Nat /\ body.root' = Log!Apply(call)
  BY PerformStep, LenProperties DEF BodyInv, BodyTypeOK
<1>2. CASE body.root' = body.root
  BY <1>1, <1>2
<1>3. ASSUME NEW device, device.devId = body.root[Len(body.root)].devId,
             body.root' = [body.root EXCEPT ![Len(body.root)] = device]
      PROVE  /\ Len(body.root') = Len(body.root)
             /\ \A n \in 1..Len(body.root) : body.root'[n].devId = body.root[n].devId
  BY <1>1, <1>3, SameNames
<1>4. body.root # <<>> => body.root[Len(body.root)] \in DeviceSet
  BY IndicesFindEnd DEF Root, LastDevice
<1>5. ASSUME call.op = "row", body.root' # body.root
      PROVE  \E device : /\ device.devId = body.root[Len(body.root)].devId
                         /\ body.root' = [body.root EXCEPT ![Len(body.root)] = device]
  <2>1. /\ body.root # <<>>
        /\ body.root' = [body.root EXCEPT ![Len(body.root)].rows = Append(@, Log!NewRow(call.name))]
    BY <1>1, <1>5, ApplyRow
  <2> DEFINE device == [body.root[Len(body.root)] EXCEPT !.rows = Append(@, Log!NewRow(call.name))]
  <2>2. device.devId = body.root[Len(body.root)].devId
    BY <1>4, <2>1 DEF DeviceSet
  <2>3. body.root' = [body.root EXCEPT ![Len(body.root)] = device]
    BY <2>1
  <2> HIDE DEF device
  <2>4. QED
    BY <2>2, <2>3
<1>6. ASSUME call.op = "datum", body.root' # body.root
      PROVE  \E device : /\ device.devId = body.root[Len(body.root)].devId
                         /\ body.root' = [body.root EXCEPT ![Len(body.root)] = device]
  <2> DEFINE device == [body.root[Len(body.root)] EXCEPT
                           !.rows[Len(Log!LastRows)].data[call.list] = Append(@, call.item)]
  <2>1. /\ body.root # <<>>
        /\ body.root' = [body.root EXCEPT
                           ![Len(body.root)].rows[Len(Log!LastRows)].data[call.list] =
                               Append(@, call.item)]
    BY <1>1, <1>6, ApplyDatum
  <2>2. device.devId = body.root[Len(body.root)].devId
    BY <1>4, <2>1 DEF DeviceSet
  <2>3. body.root' = [body.root EXCEPT ![Len(body.root)] = device]
    BY <2>1
  <2> HIDE DEF device
  <2>4. QED
    BY <2>2, <2>3
<1>7. call.op = "row" \/ call.op = "datum"
  BY CallKinds
<1>8. QED
  BY <1>1, <1>2, <1>3, <1>5, <1>6, <1>7

\* The data of an object are calls for data.
LEMMA DataCallsAre ==
    ASSUME NEW data \in Seq(Offered)
    PROVE  DataCalls(data) \in Seq({call \in Calls : call.op = "datum"})
<1>1. DOMAIN data = 1..Len(data) /\ Len(data) \in Nat
  BY LenProperties
<1>2. ASSUME NEW k \in 1..Len(data)
      PROVE  DatumCall(data[k]) \in {call \in Calls : call.op = "datum"}
  <2>1. data[k] \in Offered
    BY ElementOfSeq
  <2>2. DatumCall(data[k]) \in Calls
    BY <2>1 DEF Calls
  <2>3. DatumCall(data[k]).op = "datum"
    BY DEF DatumCall, Log!Datum
  <2>4. QED
    BY <2>2, <2>3
<1>3. DataCalls(data) \in [1..Len(data) -> {call \in Calls : call.op = "datum"}]
  BY <1>1, <1>2 DEF DataCalls
<1>4. QED
  BY <1>1, <1>3, SeqDef

\* What one asks for are calls, and the body waits for them.
LEMMA AskStep ==
    ASSUME BodyInv, NEW asked \in Seq(Calls), Ask(asked)
    PROVE  BodyInv' /\ todo' = asked /\ todo = <<>> /\ UNCHANGED <<body, calls>>
BY DEF Ask, Idle, BodyInv, BodyTypeOK, IndicesAtEnd

\* A body that is not touched is as it was.
LEMMA BodyStands == ASSUME BodyInv, UNCHANGED bodyVars PROVE BodyInv'
BY DEF bodyVars, BodyInv, BodyTypeOK, IndicesAtEnd

\* What is left to do of a function's calls are some of them.
LEMMA RestOfCalls ==
    ASSUME BodyInv, Fill
    PROVE  /\ todo # <<>> /\ Head(todo) \in Calls /\ Perform(Head(todo)) /\ Head(todo) = todo[1]
           /\ 1 \in 1..Len(todo)
           /\ \A i \in 1..Len(todo') : i + 1 \in 1..Len(todo) /\ todo'[i] = todo[i + 1]
<1>1. todo \in Seq(Calls) /\ todo # <<>> /\ todo' = Tail(todo) /\ Perform(Head(todo))
  BY DEF BodyInv, BodyTypeOK, Fill
<1>2. /\ Head(todo) \in Calls /\ Tail(todo) \in Seq(Calls) /\ Len(Tail(todo)) = Len(todo) - 1
      /\ \A i \in 1..Len(Tail(todo)) : Tail(todo)[i] = todo[i + 1]
      /\ Head(todo) = todo[1]
  BY <1>1, HeadTailProperties
<1>3. Len(todo) \in Nat /\ Len(todo) # 0
  BY <1>1, LenProperties, EmptySeq
<1>4. 1 \in 1..Len(todo) /\ \A i \in 1..(Len(todo) - 1) : i + 1 \in 1..Len(todo)
  BY <1>3
<1>5. QED
  BY <1>1, <1>2, <1>4

\* The walk goes forward, and what was handled stays handled.
LEMMA WalkGoesOn ==
    ASSUME WalkInv, Next
    PROVE  /\ dev' \in Nat /\ dev <= dev'
           /\ \A x \in ToSet(handled) : x \in ToSet(handled')
           /\ request' = request
<1>1. dev \in Nat /\ handled \in Seq(Datums)
  BY DEF WalkInv, TypeOK
<1>2. CASE Datum
  <2>1. /\ handled' = Append(handled, <<dev, row, kind, idx + 1>>) /\ dev' = dev
        /\ request' = request
    BY <1>2 DEF Datum, doc
  <2>2. ToSet(handled') = ToSet(handled) \cup {<<dev, row, kind, idx + 1>>}
    BY <1>1, <2>1, SetOfAppend
  <2>3. QED
    BY <1>1, <2>1, <2>2
<1>3. CASE NextKind
  BY <1>1, <1>3 DEF NextKind, doc
<1>4. CASE RowHandled
  BY <1>1, <1>4 DEF RowHandled, StartRow, doc
<1>5. CASE DeviceDone
  BY <1>1, <1>5 DEF DeviceDone, StartRow, doc
<1>6. CASE WalkDone
  BY <1>1, <1>6 DEF WalkDone, doc
<1>7. QED
  BY <1>2, <1>3, <1>4, <1>5, <1>6 DEF Next

\* While something has been handled in the row, its device is one of the request's.
LEMMA DeviceOfRequest ==
    ASSUME WalkInv, happens > 0
    PROVE  /\ devid = dev /\ dev \in DOMAIN request
           /\ \E x \in ToSet(handled) : x[1] = dev
<1>1. /\ TypeOK /\ Counters /\ SeenBehind /\ request \in Seq(Seq(Row))
      /\ handlers \subseteq ToSet(Kinds)
  BY DEF WalkInv, TypeOK
<1>2. PICK x \in ToSet(handled) : x[1] = dev /\ x[2] = row
  BY <1>1 DEF Counters
<1>3. DueAt(dev, row, x[3], x[4])
  BY <1>1, <1>2, DueIs DEF SeenBehind
<1>4. /\ Kinds[x[3]] \in ToSet(Kinds) /\ x[4] \in 1..MaxData /\ MaxData \in Nat
      /\ x[4] <= Count(dev, row, Kinds[x[3]]) /\ dev \in Nat \ {0} /\ row \in Nat \ {0}
  BY <1>1, <1>3, WalkAssumption DEF DueAt
<1>5. Count(dev, row, Kinds[x[3]]) \in Nat
  BY <1>1, <1>4, CountIs
<1>6. Count(dev, row, Kinds[x[3]]) > 0
  BY <1>4, <1>5
<1>7. dev \in 1..Len(request) /\ DOMAIN request = 1..Len(request)
  BY <1>1, <1>4, <1>6, CountIs, LenProperties
<1>8. devid = dev
  BY <1>1 DEF Counters
<1>9. QED
  BY <1>2, <1>7, <1>8

\* The end handler asks for its row's device, a row and data.
LEMMA ObjectIsReported ==
    ASSUME RequestInv, method = 525, ReportObject
    PROVE  /\ BodyInv' /\ UNCHANGED <<vars, body, calls>>
           /\ \A i \in 1..Len(todo') :
                 todo'[i].op = "device" => todo'[i].name = dev /\ happens > 0
<1>1. BodyInv /\ WalkInv /\ request \in Requests /\ happens > 0
  BY DEF RequestInv, RequestTypeOK, ReportObject, InEndHandler
<1>2. devid = dev /\ dev \in DevIds
  BY <1>1, DeviceOfRequest, ReportAssumption
<1>3. PICK tag \in GroupTags, data \in Reported :
         Ask(<<Log!Device(devid), Log!Row(tag)>> \o DataCalls(Reportable(data)))
  BY DEF ReportObject
<1> DEFINE data2 == DataCalls(Reportable(data))
           begin == <<Log!Device(dev), Log!Row(tag)>>
<1>4. data2 \in Seq({call \in Calls : call.op = "datum"})
  BY ReportAssumption, DataCallsAre
<1>5. data2 \in Seq(Calls)
  BY <1>4, SeqMonotonic
<1>6. begin \in Seq(Calls) /\ Len(begin) = 2 /\ begin[1] = Log!Device(dev) /\ begin[2] = Log!Row(tag)
  <2>1. Log!Device(dev) \in Calls /\ Log!Row(tag) \in Calls
    BY <1>2 DEF Calls, Names
  <2>2. QED
    BY <2>1
<1> HIDE DEF data2, begin
<1>7. /\ begin \o data2 \in Seq(Calls) /\ Len(begin \o data2) = 2 + Len(data2)
      /\ \A i \in 1..(2 + Len(data2)) :
            (begin \o data2)[i] = IF i <= 2 THEN begin[i] ELSE data2[i - 2]
      /\ Len(data2) \in Nat
  <2>1. Len(data2) \in Nat
    BY <1>5, LenProperties
  <2>2. /\ begin \o data2 \in Seq(Calls) /\ Len(begin \o data2) = Len(begin) + Len(data2)
        /\ \A i \in 1..(Len(begin) + Len(data2)) :
              (begin \o data2)[i] = IF i <= Len(begin) THEN begin[i] ELSE data2[i - Len(begin)]
    BY <1>5, <1>6, ConcatProperties
  <2>3. QED
    BY <1>6, <2>1, <2>2
<1>8. Ask(begin \o data2)
  BY <1>2, <1>3 DEF begin, data2
<1>9. BodyInv' /\ todo' = begin \o data2 /\ UNCHANGED <<body, calls>>
  BY <1>1, <1>7, <1>8, AskStep
<1>10. ASSUME NEW i \in 1..Len(todo'), todo'[i].op = "device"
       PROVE  todo'[i].name = dev
  <2>1. i \in 1..(2 + Len(data2)) /\ i \in Nat
    BY <1>7, <1>9
  <2>2. CASE i = 1
    BY <1>6, <1>7, <1>9, <2>1, <2>2 DEF Log!Device
  <2>3. CASE i = 2
    <3>1. todo'[i] = Log!Row(tag)
      BY <1>6, <1>7, <1>9, <2>1, <2>3
    <3>2. QED
      BY <1>10, <3>1 DEF Log!Row
  <2>4. CASE i > 2
    <3>1. todo'[i] = data2[i - 2]
      BY <1>7, <1>9, <2>1, <2>4
    <3>2. i - 2 \in 1..Len(data2)
      BY <1>7, <2>1, <2>4
    <3>3. todo'[i].op = "datum"
      BY <1>4, <3>1, <3>2, ElementOfSeq
    <3>4. QED
      BY <1>10, <3>3
  <2>5. QED
    BY <2>1, <2>2, <2>3, <2>4
<1>11. UNCHANGED vars
  BY DEF ReportObject
<1>12. QED
  BY <1>1, <1>9, <1>10, <1>11

\* A call that an end handler's function makes on the report.
LEMMA ReportFilled ==
    ASSUME RequestInv, method = 525, Fill, UNCHANGED <<vars, method>>
    PROVE  ReportBehind'
<1>1. /\ BodyInv /\ WalkInv /\ ReportBehind /\ dev' = dev /\ handled' = handled
      /\ happens' = happens /\ method' = 525
  BY DEF RequestInv, vars
<1>2. /\ Head(todo) \in Calls /\ Perform(Head(todo)) /\ Head(todo) = todo[1] /\ 1 \in 1..Len(todo)
      /\ \A i \in 1..Len(todo') : i + 1 \in 1..Len(todo) /\ todo'[i] = todo[i + 1]
  BY <1>1, RestOfCalls
<1>3. \A i \in 1..Len(todo') : todo'[i].op = "device" => todo'[i].name = dev /\ happens > 0
  BY <1>1, <1>2 DEF ReportBehind
<1>4. /\ \A n \in 1..Len(body.root') :
            /\ body.root'[n].devId \in 1..dev
            /\ \E x \in ToSet(handled) : x[1] = body.root'[n].devId
      /\ \A n \in 1..(Len(body.root') - 1) : body.root'[n].devId <= body.root'[n + 1].devId
  <2>1. CASE Head(todo).op = "device"
    <3>1. /\ Len(body.root') = Len(body.root) + 1 /\ Len(body.root) \in Nat
          /\ body.root'[Len(body.root) + 1].devId = Head(todo).name
          /\ \A n \in 1..Len(body.root) : body.root'[n] = body.root[n]
      BY <1>1, <1>2, <2>1, NameAdded
    <3>2. Head(todo).name = dev /\ happens > 0
      BY <1>1, <1>2, <2>1 DEF ReportBehind
    <3>3. \E x \in ToSet(handled) : x[1] = dev
      BY <1>1, <3>2, DeviceOfRequest
    <3>4. dev \in Nat \ {0}
      BY <1>1 DEF WalkInv, TypeOK
    <3>5. ASSUME NEW n \in 1..Len(body.root')
          PROVE  /\ body.root'[n].devId \in 1..dev
                 /\ \E x \in ToSet(handled) : x[1] = body.root'[n].devId
      <4>1. CASE n = Len(body.root) + 1
        <5>1. body.root'[n].devId = dev
          BY <3>1, <3>2, <4>1
        <5>2. dev \in 1..dev
          BY <3>4
        <5>3. QED
          BY <3>3, <5>1, <5>2
      <4>2. CASE n # Len(body.root) + 1
        <5>1. n \in 1..Len(body.root)
          BY <3>1, <4>2
        <5>2. QED
          BY <1>1, <3>1, <5>1 DEF ReportBehind
      <4>3. QED
        BY <4>1, <4>2
    <3>6. ASSUME NEW n \in 1..(Len(body.root') - 1)
          PROVE  body.root'[n].devId <= body.root'[n + 1].devId
      <4>1. n \in 1..Len(body.root)
        BY <3>1
      <4>2. CASE n = Len(body.root)
        <5>1. body.root'[n].devId \in 1..dev /\ body.root'[n + 1].devId = dev
          BY <1>1, <3>1, <3>2, <4>1, <4>2 DEF ReportBehind
        <5>2. QED
          BY <3>4, <5>1
      <4>3. CASE n # Len(body.root)
        <5>1. n \in 1..(Len(body.root) - 1) /\ n + 1 \in 1..Len(body.root)
          BY <3>1, <4>1, <4>3
        <5>2. QED
          BY <1>1, <3>1, <4>1, <5>1 DEF ReportBehind
      <4>4. QED
        BY <4>2, <4>3
    <3>7. QED
      BY <3>5, <3>6
  <2>2. CASE Head(todo).op # "device"
    <3>1. /\ Len(body.root') = Len(body.root) /\ Len(body.root) \in Nat
          /\ \A n \in 1..Len(body.root) : body.root'[n].devId = body.root[n].devId
      BY <1>1, <1>2, <2>2, NamesKept
    <3>2. \A n \in 1..(Len(body.root) - 1) : n \in 1..Len(body.root) /\ n + 1 \in 1..Len(body.root)
      BY <3>1
    <3>3. /\ \A n \in 1..Len(body.root) :
                /\ body.root[n].devId \in 1..dev
                /\ \E x \in ToSet(handled) : x[1] = body.root[n].devId
          /\ \A n \in 1..(Len(body.root) - 1) : body.root[n].devId <= body.root[n + 1].devId
      BY <1>1 DEF ReportBehind
    <3>4. ASSUME NEW n \in 1..(Len(body.root) - 1)
          PROVE  body.root'[n].devId <= body.root'[n + 1].devId
      BY <3>1, <3>2, <3>3
    <3>5. ASSUME NEW n \in 1..Len(body.root)
          PROVE  /\ body.root'[n].devId \in 1..dev
                 /\ \E x \in ToSet(handled) : x[1] = body.root'[n].devId
      BY <3>1, <3>3
    <3>6. QED
      BY <3>1, <3>4, <3>5
  <2>3. QED
    BY <2>1, <2>2
<1>5. QED
  BY <1>1, <1>3, <1>4 DEF ReportBehind

\* A step of the walk, while nothing is left to put into the report.
LEMMA ReportWaits ==
    ASSUME RequestInv, method = 525, Idle, Next, UNCHANGED <<bodyVars, method>>
    PROVE  ReportBehind'
<1>1. /\ WalkInv /\ ReportBehind /\ todo' = <<>> /\ body' = body /\ method' = 525
  BY DEF RequestInv, bodyVars, Idle
<1>2. /\ dev' \in Nat /\ dev <= dev' /\ \A x \in ToSet(handled) : x \in ToSet(handled')
      /\ dev \in Nat
  BY <1>1, WalkGoesOn DEF WalkInv, TypeOK
<1>3. 1..Len(<<>>) = {}
  BY EmptySeq
<1>4. \A n \in 1..dev : n \in 1..dev'
  BY <1>2
<1>5. QED
  BY <1>1, <1>2, <1>3, <1>4 DEF ReportBehind

\* What the control's step does.
LEMMA ReportStep ==
    ASSUME RequestInv, method = 525, ReportNext, UNCHANGED <<lastVars, method>>
    PROVE  RequestInv' /\ [Log!Next]_<<body.root, calls>>
<1>1. RequestTypeOK /\ WalkInv /\ BodyInv /\ ReportBehind /\ method' = 525
  BY DEF RequestInv
<1>2. request' = request => RequestTypeOK'
  BY <1>1 DEF RequestTypeOK, lastVars
<1>3. AnswerSoFar'
  BY <1>1 DEF AnswerSoFar
<1>4. CASE ReportObject
  <2>1. /\ BodyInv' /\ UNCHANGED <<vars, body, calls>>
        /\ \A i \in 1..Len(todo') :
              todo'[i].op = "device" => todo'[i].name = dev /\ happens > 0
    BY <1>4, ObjectIsReported
  <2>2. WalkInv'
    BY <1>1, <2>1, WalkStands
  <2>3. ReportBehind'
    BY <1>1, <2>1 DEF ReportBehind, vars
  <2>4. RequestTypeOK'
    BY <1>2, <2>1 DEF vars, doc
  <2>5. QED
    BY <1>3, <2>1, <2>2, <2>3, <2>4 DEF RequestInv
<1>5. CASE Fill /\ UNCHANGED vars
  <2>1. BodyInv' /\ Log!Next
    BY <1>1, <1>5, FillStep
  <2>2. WalkInv' /\ ReportBehind'
    BY <1>1, <1>5, WalkStands, ReportFilled
  <2>3. RequestTypeOK'
    BY <1>2, <1>5 DEF vars, doc
  <2>4. QED
    BY <1>3, <2>1, <2>2, <2>3 DEF RequestInv
<1>6. CASE Idle /\ Next /\ UNCHANGED bodyVars
  <2>1. WalkInv' /\ ReportBehind' /\ BodyInv'
    BY <1>1, <1>6, WalkStep, ReportWaits, BodyStands
  <2>2. RequestTypeOK'
    BY <1>1, <1>2, <1>6, WalkGoesOn
  <2>3. UNCHANGED <<body.root, calls>>
    BY <1>6 DEF bodyVars
  <2>4. QED
    BY <1>3, <2>1, <2>2, <2>3 DEF RequestInv
<1>7. QED
  BY <1>4, <1>5, <1>6 DEF ReportNext

\* What holds of the walk and of the query holds while others' variables change.
LEMMA OthersStand ==
    ASSUME RequestInv, UNCHANGED <<vars, method>>, query' = query, lastval' = lastval,
           at' \in {"devices", "handler", "sent"}
    PROVE  RequestTypeOK' /\ WalkInv'
BY WalkStands DEF RequestInv, RequestTypeOK, vars, doc

\* The query's device is put into the answer.
LEMMA AnswerNextDevice ==
    ASSUME RequestInv, method = 711, NextDevice, UNCHANGED <<vars, method>>
    PROVE  BodyInv' /\ AnswerSoFar' /\ Log!Next
<1> DEFINE name == query.inclDevIds[next711 + 1]
           call == Log!Device(name)
<1>1. /\ BodyInv /\ todo = <<>> /\ todo' = <<>> /\ at = "devices" /\ next711 < Len(query.inclDevIds)
      /\ next711 \in Nat /\ Len(body.root) = next711 /\ query' = query /\ method' = 711
      /\ query \in Queries
      /\ \A n \in 1..Len(body.root) : body.root[n].devId = query.inclDevIds[n]
  BY DEF RequestInv, RequestTypeOK, AnswerSoFar, NextDevice
<1>2. query.inclDevIds \in Seq(DevIds \cup {NoText}) /\ Len(query.inclDevIds) \in Nat
  <2>1. query.inclDevIds \in Seq(DevIds \cup {NoText})
    BY <1>1, QueryAssumption
  <2>2. QED
    BY <2>1, LenProperties
<1>3. name \in DevIds \cup {NoText}
  <2>1. next711 + 1 \in 1..Len(query.inclDevIds)
    BY <1>1, <1>2
  <2>2. QED
    BY <1>2, <2>1, ElementOfSeq
<1>4. call \in Calls
  BY <1>3 DEF Calls, Names
<1>5. call.op = "device" /\ call.name = name /\ Perform(call)
  BY DEF Log!Device, NextDevice
<1> HIDE DEF call
<1>6. BodyInv' /\ Log!Next
  <2>1. todo' \in Seq(Calls)
    BY <1>1, EmptySeq
  <2>2. QED
    BY <1>1, <1>4, <1>5, <2>1, PerformIsLog
<1>7. /\ Len(body.root') = next711 + 1 /\ body.root'[next711 + 1].devId = name
      /\ \A n \in 1..next711 : body.root'[n] = body.root[n]
  BY <1>1, <1>4, <1>5, NameAdded
<1> HIDE DEF name
<1>8. ASSUME NEW n \in 1..(next711 + 1) PROVE body.root'[n].devId = query.inclDevIds[n]
  <2>1. CASE n = next711 + 1
    BY <1>7, <2>1 DEF name
  <2>2. CASE n # next711 + 1
    <3>1. n \in 1..next711
      BY <1>1, <2>2
    <3>2. QED
      BY <1>1, <1>7, <3>1
  <2>3. QED
    BY <2>1, <2>2
<1>9. 1..Len(<<>>) = {}
  BY EmptySeq
<1>10. \/ at' = "handler" /\ next711' = next711
       \/ at' = "devices" /\ next711' = next711 + 1
  BY <1>1 DEF NextDevice
<1>11. /\ next711' \in 0..Len(query.inclDevIds)
       /\ at' = "handler" => next711' < Len(query.inclDevIds)
       /\ Len(body.root') = next711' + IF at' = "handler" THEN 1 ELSE 0
  BY <1>1, <1>2, <1>7, <1>10
<1>12. AnswerSoFar'
  BY <1>1, <1>7, <1>8, <1>9, <1>11 DEF AnswerSoFar
<1>13. QED
  BY <1>6, <1>12

\* What a handler asks for: no devices.
LEMMA AnswerAsked ==
    ASSUME RequestInv, method = 711, InHandler, UNCHANGED <<vars, lastVars, method>>,
           NEW asked \in Seq({call \in Calls : call.op # "device"}), Ask(asked)
    PROVE  BodyInv' /\ AnswerSoFar' /\ UNCHANGED <<body.root, calls>>
<1>1. BodyInv /\ AnswerSoFar /\ asked \in Seq(Calls) /\ at = "handler"
  BY SeqMonotonic DEF RequestInv, InHandler
<1>2. BodyInv' /\ todo' = asked /\ UNCHANGED <<body, calls>>
  BY <1>1, AskStep
<1>3. \A i \in 1..Len(asked) : asked[i].op # "device"
  BY ElementOfSeq
<1>4. AnswerSoFar'
  BY <1>1, <1>2, <1>3 DEF AnswerSoFar, lastVars
<1>5. QED
  BY <1>2, <1>4

\* A handler begins a row, adds a datum or reports an object.
LEMMA AnswerHandler ==
    ASSUME RequestInv, method = 711, UNCHANGED <<vars, method>>,
           HandlerRow \/ HandlerDatum \/ HandlerObject
    PROVE  /\ BodyInv' /\ AnswerSoFar' /\ UNCHANGED <<body.root, calls>>
           /\ UNCHANGED lastVars
<1> DEFINE Mine == {call \in Calls : call.op # "device"}
<1>1. UNCHANGED lastVars /\ InHandler
  BY DEF HandlerRow, HandlerDatum, HandlerObject
<1>2. ASSUME NEW tag \in GroupTags PROVE Log!Row(tag) \in Mine
  <2>1. Log!Row(tag) \in Calls
    BY DEF Calls, Names
  <2>2. Log!Row(tag).op # "device"
    BY DEF Log!Row
  <2>3. QED
    BY <2>1, <2>2
<1>3. ASSUME NEW d \in Offered PROVE DatumCall(d) \in Mine
  <2>1. DatumCall(d) \in Calls
    BY DEF Calls
  <2>2. DatumCall(d).op # "device"
    BY DEF DatumCall, Log!Datum
  <2>3. QED
    BY <2>1, <2>2
<1>4. {call \in Calls : call.op = "datum"} \subseteq Mine
  OBVIOUS
<1> HIDE DEF Mine
<1>5. \E asked \in Seq(Mine) : Ask(asked)
  <2>1. CASE HandlerRow
    <3>1. PICK tag \in GroupTags : Ask(<<Log!Row(tag)>>)
      BY <2>1 DEF HandlerRow
    <3>2. <<Log!Row(tag)>> \in Seq(Mine)
      BY <1>2
    <3>3. QED
      BY <3>1, <3>2
  <2>2. CASE HandlerDatum
    <3>1. PICK d \in Offered : Ask(<<DatumCall(d)>>)
      BY <2>2 DEF HandlerDatum
    <3>2. <<DatumCall(d)>> \in Seq(Mine)
      BY <1>3
    <3>3. QED
      BY <3>1, <3>2
  <2>3. CASE HandlerObject
    <3>1. PICK tag \in GroupTags, data \in Objects : Ask(<<Log!Row(tag)>> \o DataCalls(data))
      BY <2>3 DEF HandlerObject
    <3>2. <<Log!Row(tag)>> \in Seq(Mine)
      BY <1>2
    <3>3. DataCalls(data) \in Seq(Mine)
      <4>1. data \in Seq(Offered)
        BY QueryAssumption
      <4>2. QED
        BY <1>4, <4>1, DataCallsAre, SeqMonotonic
    <3>4. <<Log!Row(tag)>> \o DataCalls(data) \in Seq(Mine)
      BY <3>2, <3>3, ConcatProperties
    <3>5. QED
      BY <3>1, <3>4
  <2>4. QED
    BY <2>1, <2>2, <2>3
<1>6. QED
  BY <1>1, <1>5, AnswerAsked DEF Mine

\* A call that a handler's function makes on the answer.
LEMMA AnswerFilled ==
    ASSUME RequestInv, method = 711, Fill, UNCHANGED <<vars, lastVars, method>>
    PROVE  AnswerSoFar'
<1>1. /\ BodyInv /\ AnswerSoFar /\ method' = 711 /\ query' = query /\ at' = at
      /\ next711' = next711 /\ todo # <<>>
  BY DEF RequestInv, lastVars, Fill
<1>2. /\ Head(todo) \in Calls /\ Perform(Head(todo)) /\ Head(todo) = todo[1] /\ 1 \in 1..Len(todo)
      /\ \A i \in 1..Len(todo') : i + 1 \in 1..Len(todo) /\ todo'[i] = todo[i + 1]
  BY <1>1, RestOfCalls
<1>3. \A i \in 1..Len(todo) : todo[i].op # "device"
  BY <1>1 DEF AnswerSoFar
<1>4. /\ Len(body.root') = Len(body.root)
      /\ \A n \in 1..Len(body.root) : body.root'[n].devId = body.root[n].devId
  BY <1>1, <1>2, <1>3, NamesKept
<1>5. at = "handler"
  BY <1>1 DEF AnswerSoFar
<1>6. QED
  BY <1>1, <1>2, <1>3, <1>4, <1>5 DEF AnswerSoFar

\* A handler returns, or the answer is sent.
LEMMA AnswerGoesOn ==
    ASSUME RequestInv, method = 711, HandlerReturns \/ SendAnswer, UNCHANGED <<vars, method>>
    PROVE  AnswerSoFar' /\ UNCHANGED bodyVars
<1>1. AnswerSoFar /\ UNCHANGED bodyVars /\ query' = query /\ method' = 711
      /\ todo' = todo /\ body' = body
  BY DEF RequestInv, HandlerReturns, SendAnswer, bodyVars
<1>2. query.inclDevIds \in Seq(DevIds \cup {NoText}) /\ Len(query.inclDevIds) \in Nat
  <2>1. query.inclDevIds \in Seq(DevIds \cup {NoText})
    BY QueryAssumption DEF RequestInv, RequestTypeOK
  <2>2. QED
    BY <2>1, LenProperties
<1>3. CASE HandlerReturns
  <2>1. /\ at = "handler" /\ at' = "devices" /\ next711' = next711 + 1 /\ todo = <<>>
    BY <1>3 DEF HandlerReturns, InHandler, Idle
  <2>2. /\ next711 \in 0..Len(query.inclDevIds) /\ next711 < Len(query.inclDevIds)
        /\ Len(body.root) = next711 + 1
    BY <1>1, <2>1 DEF AnswerSoFar
  <2>3. next711 + 1 \in 0..Len(query.inclDevIds) /\ next711 + 1 = (next711 + 1) + 0
    BY <1>2, <2>2
  <2>4. QED
    BY <1>1, <2>1, <2>2, <2>3 DEF AnswerSoFar
<1>4. CASE SendAnswer
  <2>1. at = "devices" /\ at' = "sent" /\ next711' = next711
    BY <1>4 DEF SendAnswer
  <2>2. QED
    BY <1>1, <2>1 DEF AnswerSoFar
<1>5. QED
  BY <1>3, <1>4

\* What the query's step does.
LEMMA AnswerStep ==
    ASSUME RequestInv, method = 711, LastNext, UNCHANGED <<vars, method>>
    PROVE  RequestInv' /\ [Log!Next]_<<body.root, calls>>
<1>1. /\ BodyInv /\ RequestTypeOK /\ method' = 711 /\ ReportBehind'
      /\ query' = query /\ lastval' = lastval
      /\ at' \in {"devices", "handler", "sent"}
  <2>1. BodyInv /\ RequestTypeOK /\ method' = 711
    BY DEF RequestInv
  <2>2. ReportBehind'
    BY <2>1 DEF ReportBehind
  <2>3. query' = query /\ lastval' = lastval /\ at' \in {"devices", "handler", "sent"}
    <3>1. at \in {"devices", "handler", "sent"}
      BY <2>1 DEF RequestTypeOK
    <3>2. CASE NextDevice
      BY <3>1, <3>2 DEF NextDevice
    <3>3. CASE HandlerRow \/ HandlerDatum \/ HandlerObject \/ (Fill /\ UNCHANGED lastVars)
      <4>1. UNCHANGED lastVars
        BY <3>3 DEF HandlerRow, HandlerDatum, HandlerObject
      <4>2. QED
        BY <3>1, <4>1 DEF lastVars
    <3>4. CASE HandlerReturns \/ SendAnswer
      BY <3>4 DEF HandlerReturns, SendAnswer
    <3>5. QED
      BY <3>2, <3>3, <3>4 DEF LastNext
  <2>4. QED
    BY <2>1, <2>2, <2>3
<1>2. RequestTypeOK' /\ WalkInv'
  BY <1>1, OthersStand
<1>3. CASE NextDevice
  BY <1>1, <1>2, <1>3, AnswerNextDevice DEF RequestInv
<1>4. CASE HandlerRow \/ HandlerDatum \/ HandlerObject
  BY <1>1, <1>2, <1>4, AnswerHandler DEF RequestInv
<1>5. CASE HandlerReturns \/ SendAnswer
  <2>1. AnswerSoFar' /\ UNCHANGED bodyVars
    BY <1>5, AnswerGoesOn
  <2>2. BodyInv' /\ UNCHANGED <<body.root, calls>>
    BY <1>1, <2>1, BodyStands DEF bodyVars
  <2>3. QED
    BY <1>1, <1>2, <2>1, <2>2 DEF RequestInv
<1>6. CASE Fill /\ UNCHANGED lastVars
  <2>1. BodyInv' /\ Log!Next
    BY <1>1, <1>6, FillStep
  <2>2. AnswerSoFar'
    BY <1>6, AnswerFilled
  <2>3. QED
    BY <1>1, <1>2, <2>1, <2>2 DEF RequestInv
<1>7. QED
  BY <1>3, <1>4, <1>5, <1>6 DEF LastNext

\* What the application's step does that collects data.
LEMMA CollectingStep ==
    ASSUME RequestInv, method = 411, Collect \/ Fill, UNCHANGED <<vars, lastVars, method>>
    PROVE  RequestInv' /\ [Log!Next]_<<body.root, calls>>
<1>1. BodyInv /\ RequestTypeOK /\ method' = 411 /\ ReportBehind' /\ AnswerSoFar'
  BY DEF RequestInv, ReportBehind, AnswerSoFar
<1>2. RequestTypeOK' /\ WalkInv'
  BY <1>1, OthersStand DEF lastVars, RequestTypeOK
<1>3. BodyInv' /\ [Log!Next]_<<body.root, calls>>
  BY <1>1, CollectStep, FillStep
<1>4. QED
  BY <1>1, <1>2, <1>3 DEF RequestInv

-----------------------------------------------------------------------------
(* Theorems *)

\* At the beginning nothing has been handled, and the body is empty.
LEMMA RequestBegins == RInit => RequestInv /\ Log!Init
<1> SUFFICES ASSUME RInit PROVE RequestInv /\ Log!Init
  OBVIOUS
<1>1. /\ WalkInv /\ BodyInv /\ Log!Init /\ method \in {411, 525, 711}
      /\ todo = <<>> /\ body.root = <<>> /\ request \in Requests
  BY WalkBegins, InitInv DEF RInit, BodyInit, EmptyBody, Init
<1>2. query \in Queries /\ lastval \subseteq {"for", "for_all"} /\ at = "devices" /\ next711 = 0
  BY DEF RInit, LastInit
<1>3. Len(<<>>) = 0 /\ 1..0 = {} /\ 1..(0 - 1) = {} /\ 0 = 0 + 0
  BY EmptySeq
<1>4. 0 \in 0..Len(query.inclDevIds)
  <2>1. query.inclDevIds \in Seq(DevIds \cup {NoText})
    BY <1>2, QueryAssumption
  <2>2. Len(query.inclDevIds) \in Nat
    BY <2>1, LenProperties
  <2>3. QED
    BY <2>2
<1>5. RequestTypeOK
  BY <1>1, <1>2 DEF RequestTypeOK
<1>6. ReportBehind
  BY <1>1, <1>3 DEF ReportBehind
<1>7. AnswerSoFar
  BY <1>1, <1>2, <1>3, <1>4 DEF AnswerSoFar
<1>8. QED
  BY <1>1, <1>5, <1>6, <1>7 DEF RequestInv

\* Every step keeps the invariant, and is a step of the abstract body or none.
LEMMA RequestStep ==
    RequestInv /\ [RNext]_allVars => RequestInv' /\ [Log!Next]_<<body.root, calls>>
<1> SUFFICES ASSUME RequestInv, [RNext]_allVars
             PROVE  RequestInv' /\ [Log!Next]_<<body.root, calls>>
  OBVIOUS
<1>1. CASE RNext
  BY <1>1, CollectingStep, ReportStep, AnswerStep DEF RNext
<1>2. CASE UNCHANGED allVars
  <2>1. /\ UNCHANGED <<vars, method, bodyVars>> /\ UNCHANGED lastVars
        /\ RequestTypeOK /\ BodyInv /\ ReportBehind /\ AnswerSoFar
    BY <1>2 DEF allVars, RequestInv
  <2>2. RequestTypeOK' /\ WalkInv' /\ BodyInv'
    BY <2>1, OthersStand, BodyStands DEF lastVars, RequestTypeOK
  <2>3. ReportBehind' /\ AnswerSoFar'
    BY <2>1 DEF vars, bodyVars, lastVars, ReportBehind, AnswerSoFar
  <2>4. UNCHANGED <<body.root, calls>>
    BY <2>1 DEF bodyVars
  <2>5. QED
    BY <2>2, <2>3, <2>4 DEF RequestInv
<1>3. QED
  BY <1>1, <1>2

\* The invariant of the walk over a control, of its report and of an answer, whatever
\* the request or the query and whatever the handlers do (client/simple_api.c).
THEOREM RequestInvariant == RSpec => []RequestInv
<1>1. RInit => RequestInv
  BY RequestBegins
<1>2. QED
  BY <1>1, RequestStep, PTL DEF RSpec

\* The walk's variables and the body's keep their types, and the body's indices stand
\* at the end of what is in it, whoever fills it: the application, an end handler or
\* a handler for last values (body_util.c).
THEOREM BodiesHold == RSpec => []BodiesInv
<1>1. RequestInv => BodiesInv
  BY DEF RequestInv, WalkInv, BodiesInv
<1>2. QED
  BY <1>1, RequestInvariant, PTL

\* When the report is sent the handlers have seen exactly the data that the walk
\* reaches (__if525_process_req_cnvyRow).
THEOREM WalkReachesAllDue == RSpec => []DueIsHandled
<1>1. RequestInv => DueIsHandled
  BY WalkPromises DEF RequestInv
<1>2. QED
  BY <1>1, RequestInvariant, PTL

\* No control is carried out twice, or before one that stands before it.
THEOREM WalkOnceInOrder == RSpec => []OnceInOrder
<1>1. RequestInv => OnceInOrder
  BY WalkPromises DEF RequestInv
<1>2. QED
  BY <1>1, RequestInvariant, PTL

\* The end handler is called once behind each row in which something was handled.
THEOREM WalkEndsRows == RSpec => []EndAfterRow
<1>1. RequestInv => EndAfterRow
  BY WalkPromises DEF RequestInv
<1>2. QED
  BY <1>1, RequestInvariant, PTL

\* The result code of the report is the last end handler's.
THEOREM WalkReportsLast == RSpec => []ReportsLastResult
<1>1. RequestInv => ReportsLastResult
  BY WalkPromises DEF RequestInv
<1>2. QED
  BY <1>1, RequestInvariant, PTL

\* The report of a control names devices with a handled datum, in their order.
THEOREM ReportFollowsWalk == RSpec => []ReportOfControl
<1>1. ASSUME RequestInv, method = 525 PROVE ReportNamesHandled
  <2> DEFINE named == [n \in DOMAIN body.root |-> body.root[n].devId]
  <2>1. body.root \in Seq(DeviceSet) /\ ReportBehind
    BY <1>1 DEF RequestInv, BodyInv, BodyTypeOK
  <2>2. DOMAIN body.root = 1..Len(body.root) /\ Len(body.root) \in Nat
    BY <2>1, LenProperties
  <2>3. ToSet(named) \subseteq {x[1] : x \in ToSet(handled)}
    <3>1. ASSUME NEW n \in 1..Len(body.root)
          PROVE  \E x \in ToSet(handled) : x[1] = body.root[n].devId
      BY <1>1, <2>1 DEF ReportBehind
    <3>2. ToSet(named) = {body.root[n].devId : n \in 1..Len(body.root)}
      BY <2>2 DEF ToSet
    <3>3. QED
      BY <3>1, <3>2
  <2>4. named \in Seq(Names) /\ Len(named) = Len(body.root)
    <3>1. ASSUME NEW n \in 1..Len(body.root) PROVE body.root[n].devId \in Names
      <4>1. body.root[n] \in DeviceSet
        BY <2>1, ElementOfSeq
      <4>2. QED
        BY <4>1 DEF DeviceSet
    <3>2. named \in [1..Len(body.root) -> Names]
      BY <2>2, <3>1
    <3>3. named \in Seq(Names)
      BY <2>2, <3>2, SeqDef
    <3>4. QED
      BY <2>2, <3>2, <3>3, LenProperties
  <2>5. ASSUME NEW i \in 1..(Len(named) - 1) PROVE named[i] <= named[i + 1]
    <3>1. i \in 1..(Len(body.root) - 1)
      BY <2>4, Zenon
    <3>2. i \in 1..Len(body.root) /\ i + 1 \in 1..Len(body.root)
      BY <2>2, <3>1
    <3>3. body.root[i].devId <= body.root[i + 1].devId
      BY <1>1, <2>1, <3>1 DEF ReportBehind
    <3>4. QED
      BY <2>2, <3>2, <3>3
  <2>6. QED
    BY <2>3, <2>5 DEF ReportNamesHandled
<1>2. RequestInv => ReportOfControl
  BY <1>1 DEF ReportOfControl
<1>3. QED
  BY <1>2, RequestInvariant, PTL

\* An answer names the devices of its query, in the order of the query, up to the one
\* whose handler runs (im_packet711_request_handler_simple).
THEOREM AnswerNamesQuery == RSpec => []AnswerToQuery
<1>1. ASSUME RequestInv, method = 711 PROVE AnswerFollowsQuery
  <2> DEFINE named == [n \in DOMAIN body.root |-> body.root[n].devId]
             begun == next711 + IF at = "handler" THEN 1 ELSE 0
             asked == query.inclDevIds
  <2>1. /\ body.root \in Seq(DeviceSet) /\ next711 \in 0..Len(asked)
        /\ at = "handler" => next711 < Len(asked)
        /\ Len(body.root) = begun /\ query \in Queries
        /\ \A n \in 1..Len(body.root) : body.root[n].devId = asked[n]
    BY <1>1 DEF RequestInv, RequestTypeOK, BodyInv, BodyTypeOK, AnswerSoFar
  <2>2. asked \in Seq(DevIds \cup {NoText}) /\ Len(asked) \in Nat
    <3>1. asked \in Seq(DevIds \cup {NoText})
      BY <2>1, QueryAssumption
    <3>2. QED
      BY <3>1, LenProperties
  <2>3. DOMAIN body.root = 1..begun /\ begun \in 0..Len(asked)
    <3>1. begun \in 0..Len(asked)
      BY <2>1, <2>2
    <3>2. QED
      BY <2>1, <3>1, LenProperties
  <2> HIDE DEF asked, begun
  <2>4. named = [n \in 1..begun |-> asked[n]]
    BY <2>1, <2>3
  <2>5. SubSeq(asked, 1, begun) = [n \in 1..begun |-> asked[n]]
    <3>1. (begun - 1) + 1 = begun
      BY <2>3
    <3>2. \A n \in 1..begun : (n + 1) - 1 = n
      BY <2>3
    <3>3. QED
      BY <2>2, <2>3, <3>1, <3>2
  <2>6. QED
    BY <2>4, <2>5 DEF AnswerFollowsQuery, asked, begun
<1>2. RequestInv => AnswerToQuery
  BY <1>1 DEF AnswerToQuery
<1>3. QED
  BY <1>2, RequestInvariant, PTL

\* Whoever fills a body, and whichever of the three it is, fills it at its end.
THEOREM RequestsFillLog == RSpec => BodyIsLog
<1>1. RInit => Log!Init
  BY RequestBegins
<1>2. QED
  BY <1>1, RequestStep, RequestInvariant, PTL DEF RSpec, BodyIsLog, Log!Spec
=============================================================================
