--------------------------- MODULE RequestBodies ---------------------------
(***************************************************************************)
(* The three packets with a data body, one at a time: the application      *)
(* sends what it has collected (411), or packet_handler hands a request to *)
(* the walk that acts on a control (525) or answers a query (711).         *)
(***************************************************************************)
EXTENDS ControlReport, LastValue

VARIABLE method

allVars == <<vars, bodyVars, lastVars, method>>

\* Of the methods that did not come nothing is looked at: their requests are empty.
RInit ==
    /\ method \in {411, 525, 711}
    /\ Init /\ BodyInit /\ LastInit
    /\ method # 525 => request = <<>> /\ handlers = {} /\ ~onEnd
    /\ method # 711 => query.inclDevIds = <<>> /\ query.groupTag = NoText /\ lastval = {}

RNext ==
    /\ UNCHANGED method
    /\ \/ method = 411 /\ (Collect \/ Fill) /\ UNCHANGED <<vars, lastVars>>
       \/ method = 525 /\ ReportNext /\ UNCHANGED lastVars
       \/ method = 711 /\ LastNext /\ UNCHANGED vars

\* The functions run; the application's handlers return (within MaxCalls calls).
RSpec == RInit /\ [][RNext]_allVars /\ WF_allVars(RNext)

-----------------------------------------------------------------------------
(* Properties *)

\* The walk's variables and the body's have their types, and the body's indices
\* stand at the end of what is in it, whoever fills it.
BodiesInv == TypeOK /\ BodyInv

\* A report follows the walk, and an answer its query.
ReportOfControl == method = 525 => ReportNamesHandled
AnswerToQuery == method = 711 => AnswerFollowsQuery

\* Whatever the handlers report, the walk over a control comes to its end and the
\* report is sent, and so is the answer to a query.
RequestsAreAnswered ==
    /\ method = 525 ~> pc = "sent"
    /\ method = 711 ~> at = "sent"
=============================================================================
