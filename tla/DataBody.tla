------------------------------ MODULE DataBody ------------------------------
(***************************************************************************)
(* The body of a packet that carries data: collected values (411), the     *)
(* report of a control (525) or the answer to a last-value query (711).    *)
(* All three are filled through two indices that IMPacketBody keeps beside *)
(* the document, the device and the row that the next call works on.       *)
(*                                                                         *)
(* A datum is its tag and its values, one for a scalar.  What JSON cannot  *)
(* hold, a NULL string or one that is not UTF-8, is NoText.                *)
(***************************************************************************)
EXTENDS Integers, Sequences

CONSTANTS
    NoText,
    Offered,     \* data that callers hand over
    DevIds,      \* device names that callers hand over, NoText perhaps
    GroupTags,   \* and group tags, NoText for NULL
    MaxCalls     \* bound: calls on one body

ScalarLists == {"snsnDataInfoVOs", "strDataInfoVOs", "intDataInfoVOs",
                "rlNumDataInfoVOs", "booleanDataInfoVOs", "dtDataInfoVOs"}
ArrayLists == {"strListDataInfoVOs", "intListDataInfoVOs", "rlNumListDataInfoVOs",
               "booleanListDataInfoVOs", "dtListDataInfoVOs"}

VARIABLES
    body,    \* root, its devices; devColecDataIdx; colecRowIdx
    todo,    \* calls that a function of the SDK has still to make on the body
    calls    \* history: the calls made

bodyVars == <<body, todo, calls>>

Log == INSTANCE BodyLog WITH doc <- body.root, Lists <- ScalarLists \cup ArrayLists

-----------------------------------------------------------------------------
\* json_array_get_value: the index is made a size_t, so -1 finds nothing.
Finds(arr, idx) == 0 <= idx /\ idx < Len(arr)

HasDevice == Finds(body.root, body.devColecDataIdx)
Rows == body.root[body.devColecDataIdx + 1].rows
HasRow == HasDevice /\ Finds(Rows, body.colecRowIdx)

\* A value that is NULL is not appended to the array, and the next one takes its
\* place; for a scalar the field is missing.
Held(vals) == SelectSeq(vals, LAMBDA v : v # NoText)

EmptyBody == [root |-> <<>>, devColecDataIdx |-> -1, colecRowIdx |-> -1]

\* Variant: the row index goes on counting.
AppendDeviceKeepsRow(devId) ==
    body' = [root |-> Append(body.root, Log!NewDevice(devId)),
             devColecDataIdx |-> body.devColecDataIdx + 1,
             colecRowIdx |-> body.colecRowIdx]

AppendDevice(devId) ==
    body' = [root |-> Append(body.root, Log!NewDevice(devId)),
             devColecDataIdx |-> body.devColecDataIdx + 1,
             colecRowIdx |-> -1]

\* The document with one row, or one datum, more where the indices point.
WithRow(new) == [body.root EXCEPT ![body.devColecDataIdx + 1].rows = Append(@, new)]
WithDatum(list, item) ==
    [body.root EXCEPT ![body.devColecDataIdx + 1].rows[body.colecRowIdx + 1].data[list] =
        Append(@, item)]

\* Variant: the row is not counted.
AppendRowNotCounted(tag) ==
    body' = [root |-> IF HasDevice THEN WithRow(Log!NewRow(tag)) ELSE body.root,
             devColecDataIdx |-> body.devColecDataIdx,
             colecRowIdx |-> body.colecRowIdx]

\* The row is counted whether there is a device to put it into or not.
AppendRow(tag) ==
    body' = [root |-> IF HasDevice THEN WithRow(Log!NewRow(tag)) ELSE body.root,
             devColecDataIdx |-> body.devColecDataIdx,
             colecRowIdx |-> body.colecRowIdx + 1]

AppendDatum(list, item) ==
    body' = [root |-> IF HasRow THEN WithDatum(list, item) ELSE body.root,
             devColecDataIdx |-> body.devColecDataIdx,
             colecRowIdx |-> body.colecRowIdx]

Perform(call) ==
    /\ \/ call.op = "device" /\ AppendDevice(call.name)
       \/ call.op = "row" /\ AppendRow(call.name)
       \/ call.op = "datum" /\ AppendDatum(call.list, call.item)
    /\ calls' = Append(calls, call)

DatumCall(d) == Log!Datum(d.list, d.tag, Held(d.vals))

\* The calls one function makes for the fields of a JSON object.
DataCalls(data) == [k \in DOMAIN data |-> DatumCall(data[k])]

BodyInit == body = EmptyBody /\ todo = <<>> /\ calls = <<>>

Idle == todo = <<>>
Room(n) == Len(calls) + n <= MaxCalls

\* The function goes on with what it has to do.
Fill ==
    /\ todo # <<>>
    /\ Perform(Head(todo))
    /\ todo' = Tail(todo)

\* The application calls a function on the body that makes one call or several.
Ask(asked) == Idle /\ Room(Len(asked)) /\ todo' = asked /\ UNCHANGED <<body, calls>>

-----------------------------------------------------------------------------
\* A request with collected values, filled by the application as it likes:
\* one call at a time ...
CollectDevice == \E devId \in DevIds : Ask(<<Log!Device(devId)>>)
CollectRow == \E tag \in GroupTags : Ask(<<Log!Row(tag)>>)
CollectDatum == \E d \in Offered : Ask(<<DatumCall(d)>>)
\* ... or with the device of the session and a row for it, to begin with.
CollectDefault ==
    \E devId \in DevIds : Ask(<<Log!Device(devId), Log!Row(NoText)>>)

Collect == CollectDevice \/ CollectRow \/ CollectDatum \/ CollectDefault

\* Collecting alone.
BodySpec == BodyInit /\ [][Collect \/ Fill]_bodyVars

-----------------------------------------------------------------------------
(* Properties *)

Names == DevIds \cup GroupTags \cup {NoText}
Lists == ScalarLists \cup ArrayLists
Calls == {Log!Device(n) : n \in Names} \cup {Log!Row(n) : n \in Names}
         \cup {DatumCall(d) : d \in Offered}
RowSet == [tag : Names, data : [Lists -> Seq({DatumCall(d).item : d \in Offered})]]
DeviceSet == [devId : Names, rows : Seq(RowSet)]

BodyTypeOK ==
    /\ body \in [root : Seq(DeviceSet), devColecDataIdx : Int, colecRowIdx : Int]
    /\ todo \in Seq(Calls) /\ calls \in Seq(Calls)

\* The two indices stand at the end of the document; a row that was counted and
\* lost for want of a device is forgotten when the device comes.
IndicesAtEnd ==
    /\ body.devColecDataIdx = Len(body.root) - 1
    /\ body.root # <<>> => body.colecRowIdx = Len(body.root[Len(body.root)].rows) - 1

BodyInv == BodyTypeOK /\ IndicesAtEnd

\* What is filled in through the indices goes where the abstract body puts it:
\* every call for a datum that has a row of its device before it is kept, under
\* that device and in that row, and the others are lost.
BodyIsLog == Log!Spec
=============================================================================
