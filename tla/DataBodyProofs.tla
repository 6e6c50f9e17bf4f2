--------------------------- MODULE DataBodyProofs ---------------------------
(***************************************************************************)
(* What TLAPS proves of DataBody: the two indices stay at the end of the   *)
(* document, and so filling a body through them is filling it at its end,  *)
(* as BodyLog has it.                                                      *)
(***************************************************************************)
EXTENDS DataBody, SequenceTheorems, TLAPS

Root == body.root
LastDevice == Len(Root)

\* A call for a device, a row or a datum says which it is, and of what.
LEMMA CallKinds ==
    ASSUME NEW call \in Calls
    PROVE  \/ call.op = "device" /\ call.name \in Names
           \/ call.op = "row" /\ call.name \in Names
           \/ /\ call.op = "datum"
              /\ call.item \in {DatumCall(d).item : d \in Offered}
BY DEF Calls, DatumCall, Log!Device, Log!Row, Log!Datum

\* A new row is a row.
LEMMA NewRowTyped == ASSUME NEW tag \in Names PROVE Log!NewRow(tag) \in RowSet
<1>1. <<>> \in Seq({DatumCall(d).item : d \in Offered})
  BY EmptySeq
<1>2. QED
  BY <1>1 DEF Log!NewRow, RowSet, Lists

\* A new device is a device, without rows.
LEMMA NewDeviceTyped == ASSUME NEW n \in Names PROVE Log!NewDevice(n) \in DeviceSet
<1>1. <<>> \in Seq(RowSet)
  BY EmptySeq
<1>2. QED
  BY <1>1 DEF Log!NewDevice, DeviceSet

\* What the indices find is the end of the document.
LEMMA IndicesFindEnd ==
    ASSUME BodyInv
    PROVE  /\ Root \in Seq(DeviceSet) /\ LastDevice \in Nat
           /\ HasDevice <=> Root # <<>>
           /\ body.devColecDataIdx + 1 = LastDevice
           /\ Root # <<>> => /\ LastDevice \in 1..LastDevice /\ Root[LastDevice] \in DeviceSet
                             /\ Rows = Root[LastDevice].rows /\ Rows \in Seq(RowSet)
                             /\ Len(Rows) \in Nat
                             /\ body.colecRowIdx + 1 = Len(Rows)
           /\ HasRow <=> Root # <<>> /\ Log!LastRows # <<>>
<1>1. Root \in Seq(DeviceSet) /\ LastDevice \in Nat
  BY LenProperties DEF BodyInv, BodyTypeOK, Root, LastDevice
<1>2. body.devColecDataIdx = LastDevice - 1 /\ body.devColecDataIdx + 1 = LastDevice
  BY <1>1 DEF BodyInv, IndicesAtEnd, Root, LastDevice
<1>3. Root # <<>> <=> LastDevice > 0
  BY <1>1, EmptySeq DEF LastDevice
<1>4. HasDevice <=> Root # <<>>
  BY <1>1, <1>2, <1>3 DEF HasDevice, Finds, Root, LastDevice
<1>5. ASSUME Root # <<>>
      PROVE  /\ LastDevice \in 1..LastDevice /\ Root[LastDevice] \in DeviceSet
             /\ Rows = Root[LastDevice].rows /\ Rows \in Seq(RowSet)
             /\ Len(Rows) \in Nat /\ body.colecRowIdx + 1 = Len(Rows)
  <2>1. LastDevice \in 1..LastDevice /\ Root[LastDevice] \in DeviceSet
    BY <1>1, <1>3, <1>5, ElementOfSeq DEF LastDevice
  <2>2. Rows = Root[LastDevice].rows /\ Rows \in Seq(RowSet)
    BY <1>2, <2>1 DEF Rows, Root, DeviceSet
  <2>3. Len(Rows) \in Nat
    BY <2>2, LenProperties
  <2>4. body.colecRowIdx = Len(Rows) - 1
    BY <1>5, <2>2 DEF BodyInv, IndicesAtEnd, Root, LastDevice
  <2>5. QED
    BY <2>1, <2>2, <2>3, <2>4
<1>6. HasRow <=> Root # <<>> /\ Log!LastRows # <<>>
  <2>1. Root # <<>> => Log!LastRows = Rows
    BY <1>5 DEF Log!LastRows, Root, LastDevice
  <2>2. Root # <<>> => (Rows # <<>> <=> Len(Rows) > 0)
    BY <1>5, EmptySeq
  <2>3. Root # <<>> => (Finds(Rows, body.colecRowIdx) <=> Len(Rows) > 0)
    <3>1. body.colecRowIdx \in Int
      BY DEF BodyInv, BodyTypeOK
    <3>2. QED
      BY <1>5, <3>1 DEF Finds
  <2>4. QED
    BY <1>4, <2>1, <2>2, <2>3 DEF HasRow
<1>7. QED
  BY <1>1, <1>2, <1>4, <1>5, <1>6

\* What the abstract body makes of a call for a device.
LEMMA ApplyDevice ==
    ASSUME NEW call, call.op = "device"
    PROVE  Log!Apply(call) = Append(body.root, Log!NewDevice(call.name))
BY Zenon DEF Log!Apply

\* A device goes to the end, and has no row yet.
LEMMA DeviceStep ==
    ASSUME BodyInv, NEW call \in Calls, call.op = "device", AppendDevice(call.name)
    PROVE  /\ body' \in [root : Seq(DeviceSet), devColecDataIdx : Int, colecRowIdx : Int]
           /\ IndicesAtEnd'
           /\ body.root' = Log!Apply(call)
<1> DEFINE new == Log!NewDevice(call.name)
<1>1. new \in DeviceSet /\ new.rows = <<>>
  BY CallKinds, NewDeviceTyped DEF Log!NewDevice
<1>2. /\ Append(Root, new) \in Seq(DeviceSet)
      /\ Len(Append(Root, new)) = LastDevice + 1
      /\ Append(Root, new)[LastDevice + 1] = new
  BY <1>1, IndicesFindEnd, AppendProperties DEF LastDevice
<1>3. body' = [root |-> Append(Root, new), devColecDataIdx |-> body.devColecDataIdx + 1,
               colecRowIdx |-> -1]
  BY DEF AppendDevice, Root
<1>4. body.devColecDataIdx + 1 = LastDevice /\ LastDevice \in Nat
  BY IndicesFindEnd
<1>5. body' \in [root : Seq(DeviceSet), devColecDataIdx : Int, colecRowIdx : Int]
  BY <1>2, <1>3, <1>4
<1>6. IndicesAtEnd'
  <2>1. Len(<<>>) = 0
    BY EmptySeq
  <2>2. QED
    BY <1>1, <1>2, <1>3, <1>4, <2>1 DEF IndicesAtEnd
<1>7. body.root' = Log!Apply(call)
  BY <1>3, ApplyDevice DEF Root
<1>8. QED
  BY <1>5, <1>6, <1>7

\* What the abstract body makes of a call for a row.
LEMMA ApplyRow ==
    ASSUME NEW call, call.op = "row"
    PROVE  Log!Apply(call) =
             IF body.root = <<>> THEN body.root
             ELSE [body.root EXCEPT ![Len(body.root)].rows = Append(@, Log!NewRow(call.name))]
<1>1. CASE body.root = <<>>
  <2>1. Log!Apply(call) = body.root
    BY <1>1, Zenon DEF Log!Apply
  <2>2. QED
    BY <1>1, <2>1, Zenon
<1>2. CASE body.root # <<>>
  <2>1. Log!Apply(call) =
          [body.root EXCEPT ![Len(body.root)].rows = Append(@, Log!NewRow(call.name))]
    BY <1>2, Zenon DEF Log!Apply
  <2>2. QED
    BY <1>2, <2>1, Zenon
<1>3. QED
  BY <1>1, <1>2, Zenon

\* A device in which the rows are others is a device.
LEMMA OtherRows ==
    ASSUME NEW device \in DeviceSet, NEW rows \in Seq(RowSet)
    PROVE  /\ [device EXCEPT !.rows = rows] \in DeviceSet
           /\ [device EXCEPT !.rows = rows].rows = rows
BY DEF DeviceSet

\* A document in which the last device's rows are others is a document as long.
LEMMA LastDeviceChanged ==
    ASSUME BodyInv, Root # <<>>, NEW rows \in Seq(RowSet)
    PROVE  LET new == [Root EXCEPT ![LastDevice].rows = rows]
           IN  new \in Seq(DeviceSet) /\ Len(new) = LastDevice /\ new[LastDevice].rows = rows
<1> DEFINE device == [Root[LastDevice] EXCEPT !.rows = rows]
<1>1. Root \in Seq(DeviceSet) /\ LastDevice \in 1..LastDevice /\ Root[LastDevice] \in DeviceSet
  BY IndicesFindEnd
<1>2. device \in DeviceSet /\ device.rows = rows
  BY <1>1, OtherRows
<1> HIDE DEF device
<1>3. LET new == [Root EXCEPT ![LastDevice] = device]
      IN  new \in Seq(DeviceSet) /\ Len(new) = LastDevice /\ new[LastDevice] = device
  BY <1>1, <1>2, ExceptSeq DEF LastDevice
<1>4. [Root EXCEPT ![LastDevice].rows = rows] = [Root EXCEPT ![LastDevice] = device]
  BY DEF device
<1>5. QED
  BY <1>2, <1>3, <1>4

\* A row goes to the end of the last device, and is lost where there is none.
LEMMA RowStep ==
    ASSUME BodyInv, NEW call \in Calls, call.op = "row", AppendRow(call.name)
    PROVE  /\ body' \in [root : Seq(DeviceSet), devColecDataIdx : Int, colecRowIdx : Int]
           /\ IndicesAtEnd'
           /\ body.root' = Log!Apply(call)
<1> DEFINE new == Log!NewRow(call.name)
           put == [Root EXCEPT ![LastDevice].rows = Append(@, new)]
<1>1. new \in RowSet
  BY CallKinds, NewRowTyped
<1>2. /\ body \in [root : Seq(DeviceSet), devColecDataIdx : Int, colecRowIdx : Int]
      /\ body.root' = IF HasDevice THEN put ELSE Root
      /\ body.devColecDataIdx' = body.devColecDataIdx
      /\ body.colecRowIdx' = body.colecRowIdx + 1
      /\ body' \in [root : {body.root'}, devColecDataIdx : Int, colecRowIdx : Int]
  <2>1. /\ body \in [root : Seq(DeviceSet), devColecDataIdx : Int, colecRowIdx : Int]
        /\ Root # <<>> => body.devColecDataIdx + 1 = LastDevice
    BY IndicesFindEnd DEF BodyInv, BodyTypeOK
  <2>2. HasDevice => WithRow(new) = put
    BY <2>1, IndicesFindEnd DEF WithRow, Root
  <2> HIDE DEF put
  <2>3. body' = [root |-> IF HasDevice THEN put ELSE Root,
                 devColecDataIdx |-> body.devColecDataIdx,
                 colecRowIdx |-> body.colecRowIdx + 1]
    BY <2>2 DEF AppendRow, Root
  <2>4. QED
    BY <2>1, <2>3
<1>3. CASE Root = <<>>
  <2>1. body.root' = Root /\ ~HasDevice /\ Root \in Seq(DeviceSet)
    BY <1>2, <1>3, IndicesFindEnd
  <2>2. body.root' = Log!Apply(call)
    BY <1>3, <2>1, ApplyRow DEF Root
  <2>3. IndicesAtEnd'
    BY <1>2, <1>3, <2>1 DEF IndicesAtEnd, BodyInv, Root
  <2>4. QED
    BY <1>2, <2>1, <2>2, <2>3
<1>4. CASE Root # <<>>
  <2>1. HasDevice /\ Rows = Root[LastDevice].rows /\ Rows \in Seq(RowSet) /\ Len(Rows) \in Nat
        /\ body.devColecDataIdx + 1 = LastDevice /\ body.colecRowIdx + 1 = Len(Rows) /\ LastDevice \in Nat
    BY <1>4, IndicesFindEnd
  <2>2. Append(Rows, new) \in Seq(RowSet) /\ Len(Append(Rows, new)) = Len(Rows) + 1
    BY <1>1, <2>1, AppendProperties
  <2>3. put = [Root EXCEPT ![LastDevice].rows = Append(Rows, new)]
    BY <2>1
  <2>4. put \in Seq(DeviceSet) /\ Len(put) = LastDevice /\ put[LastDevice].rows = Append(Rows, new)
    BY <1>4, <2>2, <2>3, LastDeviceChanged
  <2>5. body.root' = put
    BY <1>2, <2>1
  <2>6. body.root' = Log!Apply(call)
    BY <1>4, <2>5, ApplyRow DEF Root, LastDevice
  <2> HIDE DEF put, new
  <2>7. IndicesAtEnd'
    BY <1>2, <2>1, <2>2, <2>4, <2>5 DEF IndicesAtEnd
  <2>8. QED
    BY <1>2, <2>4, <2>5, <2>6, <2>7
<1>5. QED
  BY <1>3, <1>4
\* What the abstract body makes of a call for a datum.
LEMMA ApplyDatum ==
    ASSUME NEW call, call.op = "datum"
    PROVE  Log!Apply(call) =
             IF body.root = <<>> \/ Log!LastRows = <<>> THEN body.root
             ELSE [body.root EXCEPT
                     ![Len(body.root)].rows[Len(Log!LastRows)].data[call.list] =
                         Append(@, call.item)]
<1>1. CASE body.root = <<>> \/ Log!LastRows = <<>>
  <2>1. Log!Apply(call) = body.root
    BY <1>1, Zenon DEF Log!Apply
  <2>2. QED
    BY <1>1, <2>1, Zenon
<1>2. CASE body.root # <<>> /\ Log!LastRows # <<>>
  <2>1. Log!Apply(call) = [body.root EXCEPT
                             ![Len(body.root)].rows[Len(Log!LastRows)].data[call.list] =
                                 Append(@, call.item)]
    BY <1>2, Zenon DEF Log!Apply
  <2>2. QED
    BY <1>2, <2>1, Zenon
<1>3. QED
  BY <1>1, <1>2, Zenon

\* A row with a datum more in one of its lists is a row.
LEMMA DatumInRow ==
    ASSUME NEW row \in RowSet, NEW list,
           NEW item \in {DatumCall(d).item : d \in Offered}
    PROVE  [row EXCEPT !.data[list] = Append(@, item)] \in RowSet
<1> DEFINE Items == {DatumCall(d).item : d \in Offered}
           data == [row.data EXCEPT ![list] = Append(@, item)]
<1>1. row.data \in [Lists -> Seq(Items)] /\ row.tag \in Names
  BY DEF RowSet
<1>2. list \in Lists => Append(row.data[list], item) \in Seq(Items)
  <2>1. SUFFICES ASSUME list \in Lists PROVE Append(row.data[list], item) \in Seq(Items)
    OBVIOUS
  <2>2. row.data[list] \in Seq(Items)
    BY <1>1, <2>1
  <2> HIDE DEF Items
  <2>3. item \in Items
    BY DEF Items
  <2>4. QED
    BY <2>2, <2>3, AppendProperties
<1> HIDE DEF Items
<1>3. data \in [Lists -> Seq(Items)]
  BY <1>1, <1>2
<1> HIDE DEF data
<1>4. [row EXCEPT !.data[list] = Append(@, item)] = [row EXCEPT !.data = data]
  BY DEF data
<1>5. [row EXCEPT !.data = data] \in RowSet
  BY <1>1, <1>3 DEF RowSet, Items
<1>6. QED
  BY <1>4, <1>5

\* A datum goes to the last row of the last device, and is lost where there is none.
LEMMA DatumStep ==
    ASSUME BodyInv, NEW call \in Calls, call.op = "datum", AppendDatum(call.list, call.item)
    PROVE  /\ body' \in [root : Seq(DeviceSet), devColecDataIdx : Int, colecRowIdx : Int]
           /\ IndicesAtEnd'
           /\ body.root' = Log!Apply(call)
<1>1. /\ Root \in Seq(DeviceSet) /\ LastDevice \in Nat
      /\ body.devColecDataIdx \in Int /\ body.colecRowIdx \in Int
      /\ body.root' = IF HasRow THEN WithDatum(call.list, call.item) ELSE Root
      /\ body.devColecDataIdx' = body.devColecDataIdx
      /\ body.colecRowIdx' = body.colecRowIdx
      /\ body' = [root |-> body.root', devColecDataIdx |-> body.devColecDataIdx,
                  colecRowIdx |-> body.colecRowIdx]
  BY IndicesFindEnd DEF BodyInv, BodyTypeOK, AppendDatum, Root
<1>2. CASE ~HasRow
  <2>1. body.root' = Root /\ (Root = <<>> \/ Log!LastRows = <<>>)
    BY <1>1, <1>2, IndicesFindEnd
  <2>2. body.root' = Log!Apply(call)
    BY <2>1, ApplyDatum DEF Root
  <2>3. IndicesAtEnd'
    BY <1>1, <2>1 DEF IndicesAtEnd, BodyInv, Root
  <2>4. QED
    BY <1>1, <2>1, <2>2, <2>3
<1>3. CASE HasRow
  <2> DEFINE row == [Rows[Len(Rows)] EXCEPT !.data[call.list] = Append(@, call.item)]
             rows == [Rows EXCEPT ![Len(Rows)] = row]
             put == [Root EXCEPT ![LastDevice].rows = rows]
  <2>1. /\ Root # <<>> /\ Log!LastRows # <<>>
        /\ Rows = Root[LastDevice].rows /\ Rows \in Seq(RowSet) /\ Len(Rows) \in Nat
        /\ body.devColecDataIdx + 1 = LastDevice /\ body.colecRowIdx + 1 = Len(Rows)
    BY <1>3, IndicesFindEnd
  <2>2. Log!LastRows = Rows /\ Len(Rows) \in 1..Len(Rows)
    <3>1. Log!LastRows = Rows
      BY <2>1 DEF Log!LastRows, Root, LastDevice
    <3>2. QED
      BY <2>1, <3>1, EmptySeq
  <2>3. row \in RowSet
    <3>1. Rows[Len(Rows)] \in RowSet
      BY <2>1, <2>2, ElementOfSeq
    <3>2. call.item \in {DatumCall(d).item : d \in Offered}
      BY CallKinds
    <3>3. QED
      BY <3>1, <3>2, DatumInRow
  <2>4. WithDatum(call.list, call.item) = put
    BY <2>1 DEF WithDatum, Root
  <2>5. Log!Apply(call) = put
    <3>1. Log!Apply(call) = [Root EXCEPT ![LastDevice].rows[Len(Rows)].data[call.list] =
                                Append(@, call.item)]
      BY <2>1, <2>2, ApplyDatum DEF Root, LastDevice
    <3>2. QED
      BY <2>1, <3>1
  <2> HIDE DEF row
  <2>6. rows \in Seq(RowSet) /\ Len(rows) = Len(Rows)
    BY <2>1, <2>2, <2>3, ExceptSeq
  <2> HIDE DEF rows
  <2>7. put \in Seq(DeviceSet) /\ Len(put) = LastDevice /\ put[LastDevice].rows = rows
    BY <2>1, <2>6, LastDeviceChanged
  <2>8. body.root' = put
    BY <1>1, <1>3, <2>4
  <2> HIDE DEF put
  <2>9. IndicesAtEnd'
    <3>1. body.devColecDataIdx' = Len(put) - 1
      BY <1>1, <2>1, <2>7
    <3>2. body.colecRowIdx' = Len(put[Len(put)].rows) - 1
      BY <1>1, <2>1, <2>6, <2>7
    <3>3. QED
      BY <2>8, <3>1, <3>2 DEF IndicesAtEnd
  <2>10. QED
    BY <1>1, <2>5, <2>7, <2>8, <2>9
<1>4. QED
  BY <1>2, <1>3
\* A call leaves the body well formed with its indices at the end, and does to the
\* document what the abstract body does.
LEMMA PerformStep ==
    ASSUME BodyInv, NEW call \in Calls, Perform(call)
    PROVE  /\ body' \in [root : Seq(DeviceSet), devColecDataIdx : Int, colecRowIdx : Int]
           /\ IndicesAtEnd'
           /\ body.root' = Log!Apply(call)
           /\ calls' = Append(calls, call)
<1>1. calls' = Append(calls, call)
  BY DEF Perform
<1>2. CASE call.op = "device" /\ AppendDevice(call.name)
  BY <1>1, <1>2, DeviceStep
<1>3. CASE call.op = "row" /\ AppendRow(call.name)
  BY <1>1, <1>3, RowStep
<1>4. CASE call.op = "datum" /\ AppendDatum(call.list, call.item)
  BY <1>1, <1>4, DatumStep
<1>5. QED
  BY <1>2, <1>3, <1>4 DEF Perform

\* A call keeps the body's invariant and is a step of the abstract body, when what is
\* left to do are calls.
LEMMA PerformIsLog ==
    ASSUME BodyInv, NEW call \in Calls, Perform(call), todo' \in Seq(Calls)
    PROVE  BodyInv' /\ Log!Next
<1>1. /\ body' \in [root : Seq(DeviceSet), devColecDataIdx : Int, colecRowIdx : Int]
      /\ IndicesAtEnd' /\ body.root' = Log!Apply(call) /\ calls' = Append(calls, call)
      /\ calls \in Seq(Calls)
  BY PerformStep DEF BodyInv, BodyTypeOK
<1>2. /\ calls' \in Seq(Calls) /\ Len(calls') = Len(calls) + 1
      /\ calls'[Len(calls')] = call /\ Len(calls) \in Nat
      /\ \A i \in 1..Len(calls) : calls'[i] = calls[i]
  BY <1>1, AppendProperties, LenProperties
<1>3. SubSeq(calls', 1, Len(calls)) = calls
  <2>1. calls = SubSeq(Append(calls, call), 1, Len(calls))
    BY <1>1, <1>2, HeadTailAppend, SubSeqProperties, SeqEqual, AppendProperties
  <2>2. QED
    BY <1>1, <2>1
<1>4. BodyInv'
  BY <1>1, <1>2 DEF BodyInv, BodyTypeOK
<1>5. Log!Next
  BY <1>1, <1>2, <1>3 DEF Log!Next
<1>6. QED
  BY <1>4, <1>5

\* The rest of a function's calls.
LEMMA FillStep ==
    ASSUME BodyInv, Fill
    PROVE  BodyInv' /\ Log!Next
<1>1. /\ Head(todo) \in Calls /\ Tail(todo) \in Seq(Calls)
      /\ Perform(Head(todo)) /\ todo' = Tail(todo)
  BY HeadTailProperties DEF BodyInv, BodyTypeOK, Fill
<1>2. QED
  BY <1>1, PerformIsLog

\* What the application asks for are calls, and the body waits for them.
LEMMA CollectStep ==
    ASSUME BodyInv, Collect
    PROVE  BodyInv' /\ UNCHANGED <<body.root, calls>>
<1>1. todo' \in Seq(Calls) /\ UNCHANGED <<body, calls>>
  <2>1. CASE CollectDevice
    <3>1. PICK n \in DevIds : Ask(<<Log!Device(n)>>)
      BY <2>1 DEF CollectDevice
    <3>2. Log!Device(n) \in Calls
      BY DEF Calls, Names
    <3>3. QED
      BY <3>1, <3>2 DEF Ask
  <2>2. CASE CollectRow
    <3>1. PICK n \in GroupTags : Ask(<<Log!Row(n)>>)
      BY <2>2 DEF CollectRow
    <3>2. Log!Row(n) \in Calls
      BY DEF Calls, Names
    <3>3. QED
      BY <3>1, <3>2 DEF Ask
  <2>3. CASE CollectDatum
    <3>1. PICK d \in Offered : Ask(<<DatumCall(d)>>)
      BY <2>3 DEF CollectDatum
    <3>2. DatumCall(d) \in Calls
      BY DEF Calls
    <3>3. QED
      BY <3>1, <3>2 DEF Ask
  <2>4. CASE CollectDefault
    <3>1. PICK n \in DevIds : Ask(<<Log!Device(n), Log!Row(NoText)>>)
      BY <2>4 DEF CollectDefault
    <3>2. Log!Device(n) \in Calls /\ Log!Row(NoText) \in Calls
      BY DEF Calls, Names
    <3>3. QED
      BY <3>1, <3>2 DEF Ask
  <2>5. QED
    BY <2>1, <2>2, <2>3, <2>4 DEF Collect
<1>2. QED
  BY <1>1 DEF BodyInv, BodyTypeOK, IndicesAtEnd

\* An empty body has its indices before the first device.
LEMMA InitInv == BodyInit => BodyInv /\ Log!Init
<1> SUFFICES ASSUME BodyInit PROVE BodyInv /\ Log!Init
  OBVIOUS
<1>1. <<>> \in Seq(DeviceSet) /\ <<>> \in Seq(Calls) /\ Len(<<>>) = 0
  BY EmptySeq
<1>2. QED
  BY <1>1 DEF BodyInit, EmptyBody, BodyInv, BodyTypeOK, IndicesAtEnd, Log!Init

\* Every step of filling a body keeps the invariant, and is a step of the abstract
\* body or none.
LEMMA BodyStep ==
    BodyInv /\ [Collect \/ Fill]_bodyVars => BodyInv' /\ [Log!Next]_<<body.root, calls>>
<1> SUFFICES ASSUME BodyInv, [Collect \/ Fill]_bodyVars
             PROVE  BodyInv' /\ [Log!Next]_<<body.root, calls>>
  OBVIOUS
<1>1. CASE Collect
  BY <1>1, CollectStep
<1>2. CASE Fill
  BY <1>2, FillStep
<1>3. CASE UNCHANGED bodyVars
  BY <1>3 DEF bodyVars, BodyInv, BodyTypeOK, IndicesAtEnd
<1>4. QED
  BY <1>1, <1>2, <1>3

\* The indices of a body that the application fills stand at the end of its
\* document, in whatever order it calls the functions (body_util.c).
THEOREM BodyInvariant == BodySpec => []BodyInv
<1>1. BodyInit => BodyInv
  BY InitInv
<1>2. QED
  BY <1>1, BodyStep, PTL DEF BodySpec

\* Filling a body through the two indices implements filling it at its end: no call
\* goes to another device or row than the last one.
THEOREM BodyImplementsLog == BodySpec => BodyIsLog
<1>1. BodyInit => Log!Init
  BY InitInv
<1>2. QED
  BY <1>1, BodyStep, BodyInvariant, PTL DEF BodySpec, BodyIsLog, Log!Spec
=============================================================================
