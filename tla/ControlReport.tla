--------------------------- MODULE ControlReport ---------------------------
(***************************************************************************)
(* The body of the report of a control: the end handler, called behind a   *)
(* row in which something was handled, may put the row's device and the    *)
(* values it now has into it.                                              *)
(***************************************************************************)
EXTENDS ControlWalk, DataBody

CONSTANT Reported   \* JSON objects an end handler may report

\* im_body525_rep_set_* has no dates and no lists: such fields are skipped.
Reportable(data) ==
    SelectSeq(data, LAMBDA d : d.list \in {"strDataInfoVOs", "intDataInfoVOs",
                                           "rlNumDataInfoVOs", "booleanDataInfoVOs"})

\* What is reported are data, and the devices of a request have names.
ASSUME ReportAssumption ==
    /\ \A r \in Requests : DOMAIN r \subseteq DevIds
    /\ \A data \in Reported : Reportable(data) \in Seq(Offered)

InEndHandlerAlways == RowDone /\ onEnd /\ Idle
InEndHandler == RowDone /\ happens > 0 /\ onEnd /\ Idle

\* An object is reported with a device and a row of its own, and one that cannot
\* be parsed or is empty is refused without them.
ReportObject ==
    /\ InEndHandler
    /\ \E tag \in GroupTags, data \in Reported :
          Ask(<<Log!Device(devid), Log!Row(tag)>> \o DataCalls(Reportable(data)))
    /\ UNCHANGED vars

ReportNext ==
    \/ ReportObject
    \/ Fill /\ UNCHANGED vars
    \/ Idle /\ Next /\ UNCHANGED bodyVars

-----------------------------------------------------------------------------
(* Properties *)

\* The devices of the report stand in the order in which they were controlled,
\* and only devices with a datum that was handled are among them.
ReportNamesHandled ==
    LET named == [n \in DOMAIN body.root |-> body.root[n].devId]
    IN  /\ ToSet(named) \subseteq {x[1] : x \in ToSet(handled)}
        /\ \A i \in 1..(Len(named) - 1) : named[i] <= named[i + 1]
=============================================================================
