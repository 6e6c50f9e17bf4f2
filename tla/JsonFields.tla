----------------------------- MODULE JsonFields -----------------------------
(***************************************************************************)
(* The loop that turns the fields of a JSON object into the data of a      *)
(* packet's body.  The code has it three times: for the data a device      *)
(* sends (411), for the report of a control (525) and for the answer to a  *)
(* last-value query (711).  In each the loop over the fields and the loop  *)
(* over the elements of an array value use one and the same variable i.    *)
(***************************************************************************)
EXTENDS Integers, Sequences

CONSTANTS
    Docs      \* the objects handed in: sequences of fields, in document order

Scalars == {"string", "datetime", "number", "object", "null", "boolean"}

\* A field's name does not matter; an array is its elements' types.
Field == [kind : Scalars, els : {<<>>}] \cup [kind : {"array"}, els : Seq(Scalars)]

ASSUME DocsAssumption == Docs \subseteq Seq(Field)

VARIABLES
    method,    \* 411, 525 or 711: which of the three functions runs
    doc,
    pc,        \* "fields": the outer loop, "elements": the inner one, "done"
    i,         \* the loop variable, of both loops
    field,     \* the field the outer loop looked up last (0: none)
    type_el,   \* type of the array element looked at last, "error" before any
    rc,        \* the function's result
    body       \* how often each field was put into the body: 0, 1, or 2 for more

vars == <<method, doc, pc, i, field, type_el, rc, body>>

-----------------------------------------------------------------------------
\* The report of a control takes no dates and no lists.
Encodable(m, kind) == kind \in Scalars \ (IF m = 525 THEN {"null", "datetime"} ELSE {"null"})
ListEncodable(m, type) == m # 525 /\ type \in {"string", "datetime", "number", "boolean"}

Put(k) == body' = [body EXCEPT ![k] = IF @ = 2 THEN 2 ELSE @ + 1]

\* An object without fields is refused before the loop begins.
Init ==
    /\ method \in {411, 525, 711}
    /\ doc \in Docs
    /\ pc = IF doc = <<>> THEN "done" ELSE "fields"
    /\ rc = IF doc = <<>> THEN -1 ELSE 0
    /\ i = 0 /\ field = 0 /\ type_el = "error"
    /\ body = [k \in DOMAIN doc |-> 0]

ScalarField ==
    /\ pc = "fields" /\ i < Len(doc)
    /\ doc[i + 1].kind # "array"
    /\ field' = i + 1
    /\ IF Encodable(method, doc[i + 1].kind) THEN Put(i + 1) ELSE UNCHANGED body
    /\ i' = i + 1
    /\ UNCHANGED <<method, doc, pc, type_el, rc>>

\* Variant of ArrayField: the loop over the elements begins where i stands.
ArrayFieldKeepsI ==
    /\ pc = "fields" /\ i < Len(doc)
    /\ doc[i + 1].kind = "array"
    /\ pc' = "elements" /\ field' = i + 1
    /\ type_el' = "error"
    /\ UNCHANGED <<method, doc, i, rc, body>>

\* for (i = 0; ...) inside for (i = 0; ...)
ArrayField ==
    /\ pc = "fields" /\ i < Len(doc)
    /\ doc[i + 1].kind = "array"
    /\ pc' = "elements" /\ field' = i + 1
    /\ i' = 0 /\ type_el' = "error"
    /\ UNCHANGED <<method, doc, rc, body>>

Element ==
    /\ pc = "elements" /\ i < Len(doc[field].els)
    /\ type_el' = doc[field].els[i + 1]
    /\ i' = i + 1
    /\ UNCHANGED <<method, doc, pc, field, rc, body>>

\* Variant of ArrayEnd: the outer loop does not step on.
ArrayEndStays ==
    /\ pc = "elements" /\ i >= Len(doc[field].els)
    /\ pc' = "fields" /\ i' = i
    /\ IF ListEncodable(method, type_el) THEN Put(field) ELSE UNCHANGED body
    /\ UNCHANGED <<method, doc, field, type_el, rc>>

\* The list has the type of its last element; then the outer loop steps on from
\* where the inner loop has left i.
ArrayEnd ==
    /\ pc = "elements" /\ i >= Len(doc[field].els)
    /\ pc' = "fields" /\ i' = i + 1
    /\ IF ListEncodable(method, type_el) THEN Put(field) ELSE UNCHANGED body
    /\ UNCHANGED <<method, doc, field, type_el, rc>>

FieldsEnd ==
    /\ pc = "fields" /\ i >= Len(doc)
    /\ pc' = "done"
    /\ UNCHANGED <<method, doc, i, field, type_el, rc, body>>

Next == ScalarField \/ ArrayField \/ Element \/ ArrayEnd \/ FieldsEnd

\* A function that is called runs.
Spec == Init /\ [][Next]_vars /\ WF_vars(Next)

-----------------------------------------------------------------------------
(* Properties *)

TypeOK ==
    /\ method \in {411, 525, 711} /\ doc \in Docs
    /\ pc \in {"fields", "elements", "done"}
    /\ i \in Nat /\ field \in 0..Len(doc)
    /\ type_el \in Scalars \cup {"error"}
    /\ rc \in {-1, 0}
    /\ body \in [DOMAIN doc -> 0..2]

\* Whether field k is put into the body when the loop gets to it.
Wanted(k) ==
    IF doc[k].kind # "array" THEN Encodable(method, doc[k].kind)
    ELSE doc[k].els # <<>> /\ ListEncodable(method, doc[k].els[Len(doc[k].els)])

ArrayOf(k) == doc[k].kind = "array"
NoShortArray == \A k \in DOMAIN doc : ArrayOf(k) => Len(doc[k].els) >= k - 1
NoLongArray == \A k \in DOMAIN doc : ArrayOf(k) => Len(doc[k].els) <= k - 1

\* The body holds no field twice, unless an array is shorter than the number of
\* fields before it.
NoFieldTwice == NoShortArray => \A k \in DOMAIN doc : body[k] <= 1
JInv == TypeOK /\ NoFieldTwice

\* No field is left out of the body when the function returns, unless an array
\* is longer than the number of fields before it.
NoFieldMissing ==
    pc = "done" /\ NoLongArray => \A k \in DOMAIN doc : Wanted(k) => body[k] >= 1

\* The function returns, unless an array is shorter than the number of fields
\* before it.
ReturnsWhenNotShort == NoShortArray ~> pc = "done"

\* What the samples expect of every document they send: the function returns.
Returns == <>(pc = "done")
=============================================================================
