------------------------------ MODULE BodyLog ------------------------------
(***************************************************************************)
(* What the functions that fill a packet's body promise: a device, a row   *)
(* or a datum goes to the end of the document, a row into the last device  *)
(* and a datum into the last row of it.  A row without a device and a      *)
(* datum without a row are lost.                                           *)
(***************************************************************************)
EXTENDS Integers, Sequences

CONSTANT Lists   \* the names of the lists a row's data are kept in

VARIABLES
    doc,    \* the devices of the body, each with its rows
    calls   \* the calls made so far

Device(devId) == [op |-> "device", name |-> devId]
Row(tag) == [op |-> "row", name |-> tag]
Datum(list, tag, vals) == [op |-> "datum", list |-> list, item |-> [tag |-> tag, vals |-> vals]]

NewDevice(devId) == [devId |-> devId, rows |-> <<>>]
NewRow(tag) == [tag |-> tag, data |-> [l \in Lists |-> <<>>]]

LastRows == doc[Len(doc)].rows

Apply(call) ==
    CASE call.op = "device" -> Append(doc, NewDevice(call.name))
      [] call.op = "row" /\ doc # <<>> ->
            [doc EXCEPT ![Len(doc)].rows = Append(@, NewRow(call.name))]
      [] call.op = "datum" /\ doc # <<>> /\ LastRows # <<>> ->
            [doc EXCEPT ![Len(doc)].rows[Len(LastRows)].data[call.list] =
                Append(@, call.item)]
      [] OTHER -> doc

Init == doc = <<>> /\ calls = <<>>

Next ==
    /\ Len(calls') = Len(calls) + 1
    /\ SubSeq(calls', 1, Len(calls)) = calls
    /\ doc' = Apply(calls'[Len(calls')])

Spec == Init /\ [][Next]_<<doc, calls>>
=============================================================================
