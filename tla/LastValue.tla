----------------------------- MODULE LastValue -----------------------------
(***************************************************************************)
(* How a query for last values (711) is answered: for each of the devices  *)
(* it includes the application's handler is asked for the values, which    *)
(* it puts into the body of the answer; then the answer is sent.           *)
(***************************************************************************)
EXTENDS DataBody

CONSTANTS
    Queries,     \* [inclDevIds, groupTag] of the queries that may arrive
    Objects      \* JSON objects a handler may report: sequences of data

\* A query has names, or what is no string instead; objects hold data.
ASSUME QueryAssumption ==
    /\ Queries \subseteq [inclDevIds : Seq(DevIds \cup {NoText}), groupTag : GroupTags \cup {NoText}]
    /\ Objects \subseteq Seq(Offered)

VARIABLES
    query,
    lastval,     \* the handlers the application has set: "for", "for_all"
    at,          \* "devices", "handler", "sent"
    next711      \* idx: the devices done

lastVars == <<query, lastval, at, next711>>

LastInit ==
    /\ query \in Queries /\ lastval \in SUBSET {"for", "for_all"}
    /\ at = "devices" /\ next711 = 0

\* Without a group tag (or with one that is no string) all values are asked for.
HandlerSet == (IF query.groupTag = NoText THEN "for_all" ELSE "for") \in lastval

\* Variant: a device for which there is no handler is left out.
NextDeviceWithHandler ==
    /\ at = "devices" /\ next711 < Len(query.inclDevIds)
    /\ IF HandlerSet
       THEN Perform(Log!Device(query.inclDevIds[next711 + 1]))
            /\ at' = "handler" /\ UNCHANGED next711
       ELSE UNCHANGED <<body, calls, at>> /\ next711' = next711 + 1
    /\ UNCHANGED <<todo, query, lastval>>

\* The device is put into the answer and its handler, if there is one, called.
NextDevice ==
    /\ at = "devices" /\ next711 < Len(query.inclDevIds)
    /\ Perform(Log!Device(query.inclDevIds[next711 + 1]))
    /\ IF HandlerSet
       THEN at' = "handler" /\ UNCHANGED next711
       ELSE next711' = next711 + 1 /\ UNCHANGED at
    /\ UNCHANGED <<todo, query, lastval>>

InHandler == at = "handler" /\ Idle

\* The handler begins a row, adds a datum, or reports an object: that has a row of
\* its own, and one that cannot be parsed or is empty is refused without it.
HandlerRow == InHandler /\ \E tag \in GroupTags : Ask(<<Log!Row(tag)>>) /\ UNCHANGED lastVars
HandlerDatum == InHandler /\ \E d \in Offered : Ask(<<DatumCall(d)>>) /\ UNCHANGED lastVars
HandlerObject ==
    /\ InHandler
    /\ \E tag \in GroupTags, data \in Objects : Ask(<<Log!Row(tag)>> \o DataCalls(data))
    /\ UNCHANGED lastVars

HandlerReturns ==
    /\ InHandler
    /\ at' = "devices" /\ next711' = next711 + 1
    /\ UNCHANGED <<bodyVars, query, lastval>>

\* The answer is sent, or its sending fails; either way it is done with.
SendAnswer ==
    /\ at = "devices" /\ next711 >= Len(query.inclDevIds)
    /\ at' = "sent"
    /\ UNCHANGED <<bodyVars, query, lastval, next711>>

LastNext ==
    \/ NextDevice \/ HandlerRow \/ HandlerDatum \/ HandlerObject
    \/ HandlerReturns \/ SendAnswer
    \/ Fill /\ UNCHANGED lastVars

-----------------------------------------------------------------------------
(* Properties *)

\* The answer names the included devices in the order of the query, those without
\* a handler or a value too; and while a handler runs, what it adds goes under the
\* device it was called for.
AnswerFollowsQuery ==
    LET named == [n \in DOMAIN body.root |-> body.root[n].devId]
        begun == next711 + IF at = "handler" THEN 1 ELSE 0
    IN  named = SubSeq(query.inclDevIds, 1, begun)
=============================================================================
