---------------------------- MODULE ControlWalk ----------------------------
(***************************************************************************)
(* How a control request (525) is acted on: the walk over its devices,     *)
(* their rows and the data of a row, which calls the user's handler for    *)
(* each datum and the end handler for each row, and then sends the report. *)
(*                                                                         *)
(* A request is its devices, a device its rows, and a row says how many    *)
(* data of each kind it holds.  A datum is its device, row, kind and place.*)
(***************************************************************************)
EXTENDS Integers, Sequences, SequencesExt, FiniteSets

CONSTANTS
    Requests,     \* the requests that may arrive
    HandlerSets,  \* which handlers the application may have set
    MaxData       \* IOTMAKERS_MAX_CONTROL_DATA

\* In the order of the blocks of __if525_process_req_cnvyRow.
Kinds == <<"number", "string", "integer", "float", "boolean">>
Row == [ToSet(Kinds) -> Nat]

ASSUME WalkAssumption ==
    /\ Requests \subseteq Seq(Seq(Row))
    /\ HandlerSets \subseteq SUBSET ToSet(Kinds)
    /\ MaxData \in Nat \ {0}

VARIABLES
    request, handlers,
    onEnd,        \* is if525_handler_on_end_of_control set?
    pc,           \* "row", "sent"
    dev, row,     \* devColecDataIdx and colecRowIdx, counted from 1
    kind, idx,    \* the block of __if525_process_req_cnvyRow, and its idx
    happens,      \* data handled in this row
    rows,         \* rows of this device with a handled datum ("happens" there)
    devid,        \* the local devid of this row: 0 while it is not initialised
    respCd,       \* of the report: 0 (none), 100 (OK), 200 (error)
    (* history *)
    handled,      \* the data handed to a handler, in order
    ended         \* the calls of the end handler: device, row, devid, result

doc == <<request, handlers, onEnd>>
vars == <<doc, pc, dev, row, kind, idx, happens, rows, devid, respCd, handled, ended>>

-----------------------------------------------------------------------------
\* What end handlers return: nothing wrong (0, or 100), or an error.
Results == {0, 200}

\* How many data of a kind im_body525_req_get_*_with_index finds: none in a row
\* or a device that the request has not.
Count(d, r, k) ==
    IF d <= Len(request) /\ r <= Len(request[d]) THEN request[d][r][k] ELSE 0

Init ==
    /\ request \in Requests /\ handlers \in HandlerSets /\ onEnd \in BOOLEAN
    /\ pc = "row" /\ dev = 1 /\ row = 1
    /\ kind = 1 /\ idx = 0 /\ happens = 0 /\ rows = 0 /\ devid = 0
    /\ respCd = 0 /\ handled = <<>> /\ ended = <<>>

InBlock ==
    /\ pc = "row" /\ kind <= Len(Kinds)
    /\ Kinds[kind] \in handlers
    /\ idx < MaxData /\ idx < Count(dev, row, Kinds[kind])

\* Variant: the place in the block is not counted up.
DatumStays ==
    /\ InBlock
    /\ handled' = Append(handled, <<dev, row, kind, idx + 1>>)
    /\ devid' = dev
    /\ idx' = IF happens = 0 THEN idx ELSE idx + 1
    /\ happens' = happens + 1
    /\ UNCHANGED <<doc, pc, dev, row, kind, rows, respCd, ended>>

\* The next datum of the kind, handed to the user's function.
Datum ==
    /\ InBlock
    /\ handled' = Append(handled, <<dev, row, kind, idx + 1>>)
    /\ devid' = dev
    /\ idx' = idx + 1 /\ happens' = happens + 1
    /\ UNCHANGED <<doc, pc, dev, row, kind, rows, respCd, ended>>

\* No handler for the kind, no such datum any more, or enough of them.
NextKind ==
    /\ pc = "row" /\ kind <= Len(Kinds) /\ ~InBlock
    /\ kind' = kind + 1 /\ idx' = 0
    /\ UNCHANGED <<doc, pc, dev, row, happens, rows, devid, respCd, handled, ended>>

RowDone == pc = "row" /\ kind > Len(Kinds)
StartRow(d, r) ==
    dev' = d /\ row' = r /\ kind' = 1 /\ idx' = 0 /\ happens' = 0 /\ devid' = 0

\* Variant: the end handler is called for every row.
RowHandledAlways ==
    /\ RowDone
    /\ \E result \in Results :
          /\ ended' = Append(ended, <<dev, row, devid, result>>)
          /\ respCd' = IF result <= 0 THEN 100 ELSE result
    /\ rows' = rows + 1
    /\ IF happens > 0 THEN StartRow(dev, row + 1) ELSE StartRow(dev + 1, 1)
    /\ UNCHANGED <<doc, pc, handled>>

\* Variant: the first result stays.
RowHandledFirstResult ==
    /\ RowDone /\ happens > 0
    /\ IF onEnd
       THEN \E result \in Results :
               /\ ended' = Append(ended, <<dev, row, devid, result>>)
               /\ respCd' = IF respCd # 0 THEN respCd ELSE IF result <= 0 THEN 100 ELSE result
       ELSE respCd' = 100 /\ UNCHANGED ended
    /\ rows' = rows + 1
    /\ StartRow(dev, row + 1)
    /\ UNCHANGED <<doc, pc, handled>>

\* A row in which something was handled: the end handler, whose result goes
\* into the report as it is when it is positive, and on to the next row.
RowHandled ==
    /\ RowDone /\ happens > 0
    /\ IF onEnd
       THEN \E result \in Results :
               /\ ended' = Append(ended, <<dev, row, devid, result>>)
               /\ respCd' = IF result <= 0 THEN 100 ELSE result
       ELSE respCd' = 100 /\ UNCHANGED ended
    /\ rows' = rows + 1
    /\ StartRow(dev, row + 1)
    /\ UNCHANGED <<doc, pc, handled>>

\* Variant: the next device is begun where the last one ended.
DeviceDoneKeepsRow ==
    /\ RowDone /\ happens = 0 /\ rows > 0
    /\ rows' = 0
    /\ StartRow(dev + 1, row)
    /\ UNCHANGED <<doc, pc, respCd, handled, ended>>

\* A row in which nothing was handled ends its device ...
DeviceDone ==
    /\ RowDone /\ happens = 0 /\ rows > 0
    /\ rows' = 0
    /\ StartRow(dev + 1, 1)
    /\ UNCHANGED <<doc, pc, respCd, handled, ended>>

\* Variant: the walk goes on while the request has devices, and then stands still.
WalkDoneAtEnd ==
    /\ RowDone /\ happens = 0 /\ rows = 0 /\ dev > Len(request)
    /\ pc' = "sent"
    /\ UNCHANGED <<doc, dev, row, kind, idx, happens, rows, devid, respCd, handled, ended>>

\* ... and a device in which nothing was handled ends the walk; then the report
\* is sent, or its sending fails.
WalkDone ==
    /\ RowDone /\ happens = 0 /\ rows = 0
    /\ pc' = "sent"
    /\ UNCHANGED <<doc, dev, row, kind, idx, happens, rows, devid, respCd, handled, ended>>

Next == Datum \/ NextKind \/ RowHandled \/ DeviceDone \/ WalkDone

\* The function runs; the user's handlers return.
Spec == Init /\ [][Next]_vars /\ WF_vars(Next)

-----------------------------------------------------------------------------
(* Properties *)

Datums == Nat \X Nat \X (1..Len(Kinds)) \X Nat

TypeOK ==
    /\ request \in Seq(Seq(Row)) /\ handlers \subseteq ToSet(Kinds) /\ onEnd \in BOOLEAN
    /\ pc \in {"row", "sent"}
    /\ dev \in Nat \ {0} /\ row \in Nat \ {0}
    /\ kind \in 1..(Len(Kinds) + 1) /\ idx \in 0..MaxData
    /\ happens \in Nat /\ rows \in Nat /\ devid \in {0, dev}
    /\ respCd \in {0, 100, 200}
    /\ handled \in Seq(Datums)
    /\ ended \in Seq(Nat \X Nat \X Nat \X Results)

\* What the walk reaches: rows up to the first in which no handler finds a datum,
\* and devices up to the first whose first row is such.
SomethingIn(d, r) == \E k \in handlers : Count(d, r, k) > 0
Reached(d, r) ==
    /\ \A e \in 1..d : SomethingIn(e, 1)
    /\ \A s \in 1..r : SomethingIn(d, s)

Due == {x \in UNION {{<<d, r, k, n>> : r \in 1..Len(request[d]),
                                       k \in DOMAIN Kinds, n \in 1..MaxData}
                      : d \in DOMAIN request} :
           /\ Kinds[x[3]] \in handlers
           /\ x[4] <= Count(x[1], x[2], Kinds[x[3]])
           /\ Reached(x[1], x[2])}

\* When the report is sent the handlers have seen exactly the data that the walk
\* reaches: in particular all of a request with data for a handler in every row.
DueIsHandled == pc = "sent" => ToSet(handled) = Due

\* Before d: an earlier device or row, or earlier in the same row.
Before(x, y) ==
    \E i \in 1..4 : x[i] < y[i] /\ \A j \in 1..(i - 1) : x[j] = y[j]

\* No control is carried out twice, or before one that stands before it.
OnceInOrder ==
    \A i \in 1..(Len(handled) - 1) : Before(handled[i], handled[i + 1])

\* The end handler is called once for each row with a handled datum, when all of
\* the row's data have been handled, and is given the row's device.
EndAfterRow ==
    /\ \A i \in DOMAIN ended : ended[i][3] = ended[i][1]
    /\ \A i \in 1..(Len(ended) - 1) : Before(ended[i], ended[i + 1])
    /\ onEnd /\ RowDone /\ happens = 0
       => {<<e[1], e[2]>> : e \in ToSet(ended)} = {<<x[1], x[2]>> : x \in ToSet(handled)}

\* The result code of the report is the last end handler's: "none" only when
\* nothing was handled, and an error that an earlier row's handler returned is
\* not in it.
ReportsLastResult ==
    pc = "sent" =>
        /\ respCd = 0 <=> handled = <<>>
        /\ ended # <<>> => (respCd = 200 <=> Last(ended)[4] = 200)
=============================================================================
