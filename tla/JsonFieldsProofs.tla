-------------------------- MODULE JsonFieldsProofs --------------------------
(***************************************************************************)
(* What TLAPS proves of the loop over the fields of a JSON object: for     *)
(* objects of any size, in which arrays no field is put into the body      *)
(* twice, and in which none is left out.                                   *)
(***************************************************************************)
EXTENDS JsonFields, SequenceTheorems, TLAPS

\* The inner loop is at a place of the array that the outer loop found.
InArray ==
    pc = "elements" =>
        /\ field \in DOMAIN doc /\ ArrayOf(field)
        /\ i <= Len(doc[field].els)
        /\ type_el = IF i = 0 THEN "error" ELSE doc[field].els[i]

\* Where no array is short, the loop never turns back: what it has before it is not
\* in the body.
NothingAhead ==
    NoShortArray => \A k \in DOMAIN doc :
        /\ body[k] <= 1
        /\ pc = "fields" /\ i < k => body[k] = 0
        /\ pc = "elements" /\ field <= k => body[k] = 0

\* Where no array is long, the loop never leaps: what it has behind it is in the body.
NothingBehind ==
    NoLongArray => \A k \in DOMAIN doc : Wanted(k) =>
        /\ pc = "fields" /\ k <= i => body[k] >= 1
        /\ pc = "elements" /\ k < field => body[k] >= 1
        /\ pc = "done" => body[k] >= 1

FieldsInv == TypeOK /\ InArray /\ NothingAhead /\ NothingBehind

-----------------------------------------------------------------------------
\* An object's fields are counted, and an array has elements, which are scalars.
LEMMA FieldsAre ==
    ASSUME doc \in Docs
    PROVE  /\ DOMAIN doc = 1..Len(doc) /\ Len(doc) \in Nat
           /\ \A k \in DOMAIN doc :
                 /\ ArrayOf(k) => doc[k].els \in Seq(Scalars) /\ Len(doc[k].els) \in Nat
                 /\ ArrayOf(k) => (doc[k].els = <<>> <=> Len(doc[k].els) = 0)
<1>1. doc \in Seq(Field)
  BY DocsAssumption
<1>2. DOMAIN doc = 1..Len(doc) /\ Len(doc) \in Nat
  BY <1>1, LenProperties
<1>3. ASSUME NEW k \in DOMAIN doc, ArrayOf(k)
      PROVE  doc[k].els \in Seq(Scalars)
  <2>1. doc[k] \in Field
    BY <1>1, <1>2, <1>3, ElementOfSeq
  <2>2. doc[k].kind = "array"
    BY <1>3 DEF ArrayOf
  <2>3. QED
    BY <2>1, <2>2 DEF Field, Scalars
<1>4. QED
  BY <1>2, <1>3, LenProperties, EmptySeq

\* A field is put into the body once more, and the others are left.
LEMMA PutIs ==
    ASSUME body \in [DOMAIN doc -> 0..2], NEW k \in DOMAIN doc, Put(k)
    PROVE  /\ body' \in [DOMAIN doc -> 0..2]
           /\ body'[k] >= 1
           /\ body[k] = 0 => body'[k] = 1
           /\ \A l \in DOMAIN doc : l # k => body'[l] = body[l]
<1>1. body' = [body EXCEPT ![k] = IF body[k] = 2 THEN 2 ELSE body[k] + 1]
  BY DEF Put
<1>2. body[k] \in 0..2
  OBVIOUS
<1> DEFINE more == IF body[k] = 2 THEN 2 ELSE body[k] + 1
<1>3. more \in 0..2 /\ more >= 1 /\ (body[k] = 0 => more = 1)
  BY <1>2
<1> HIDE DEF more
<1>4. body' = [body EXCEPT ![k] = more]
  BY <1>1 DEF more
<1>5. QED
  BY <1>3, <1>4

\* A document that stays has the same short and long arrays, and the same fields wanted.
LEMMA SameDocument ==
    ASSUME UNCHANGED <<method, doc>>
    PROVE  /\ NoShortArray' <=> NoShortArray
           /\ NoLongArray' <=> NoLongArray
           /\ \A k : (Wanted(k)' <=> Wanted(k)) /\ (ArrayOf(k)' <=> ArrayOf(k))
BY DEF NoShortArray, NoLongArray, Wanted, ArrayOf, Encodable, ListEncodable

\* Nothing has been put in, and the loop stands before the first field.
LEMMA FieldsBegin == Init => FieldsInv
<1> SUFFICES ASSUME Init PROVE FieldsInv
  OBVIOUS
<1>1. /\ doc \in Docs /\ pc = (IF doc = <<>> THEN "done" ELSE "fields") /\ i = 0
      /\ body = [k \in DOMAIN doc |-> 0]
  BY DEF Init
<1>2. DOMAIN doc = 1..Len(doc) /\ Len(doc) \in Nat /\ (doc = <<>> => DOMAIN doc = {})
  BY <1>1, FieldsAre
<1>3. TypeOK
  BY <1>1, <1>2 DEF Init, TypeOK
<1>4. InArray
  BY <1>1 DEF InArray
<1>5. NothingAhead
  BY <1>1, <1>2 DEF NothingAhead
<1>6. NothingBehind
  <2>1. \A k \in DOMAIN doc : ~(k <= 0)
    BY <1>2
  <2>2. pc # "elements"
    BY <1>1
  <2>3. QED
    BY <1>1, <1>2, <2>1, <2>2 DEF NothingBehind
<1>7. QED
  BY <1>3, <1>4, <1>5, <1>6 DEF FieldsInv

\* A field that is no array.
LEMMA ScalarStep == ASSUME FieldsInv, ScalarField PROVE FieldsInv'
<1> DEFINE k == i + 1
<1>1. /\ TypeOK /\ NothingAhead /\ NothingBehind /\ doc \in Docs /\ i \in Nat
      /\ body \in [DOMAIN doc -> 0..2] /\ pc = "fields" /\ i < Len(doc) /\ i' = i + 1
      /\ doc' = doc /\ method' = method /\ pc' = pc /\ field' = k
      /\ type_el' = type_el /\ rc' = rc /\ ~ArrayOf(k)
  BY DEF FieldsInv, TypeOK, ScalarField, ArrayOf
<1>2. DOMAIN doc = 1..Len(doc) /\ Len(doc) \in Nat
  BY <1>1, FieldsAre
<1>3. k \in DOMAIN doc /\ k \in Nat /\ i < k
  BY <1>1, <1>2
<1>4. Wanted(k) <=> Encodable(method, doc[k].kind)
  BY <1>1 DEF Wanted, ArrayOf
<1>5. /\ Wanted(k) => Put(k)
      /\ ~Wanted(k) => body' = body
  BY <1>4 DEF ScalarField
<1> HIDE DEF k
<1>6. /\ body' \in [DOMAIN doc -> 0..2]
      /\ Wanted(k) => body'[k] >= 1
      /\ body[k] = 0 => body'[k] <= 1
      /\ \A l \in DOMAIN doc : l # k => body'[l] = body[l]
  <2>1. CASE Wanted(k)
    BY <1>1, <1>3, <1>5, <2>1, PutIs
  <2>2. CASE ~Wanted(k)
    BY <1>1, <1>3, <1>5, <2>2
  <2>3. QED
    BY <2>1, <2>2
<1>7. TypeOK'
  <2>1. k \in 0..Len(doc) /\ i + 1 \in Nat
    BY <1>1, <1>2, <1>3
  <2>2. QED
    BY <1>1, <1>6, <2>1 DEF TypeOK
<1>8. InArray'
  BY <1>1 DEF InArray
<1>9. NothingAhead'
  <2>1. SUFFICES ASSUME NoShortArray, NEW l \in DOMAIN doc
                 PROVE  body'[l] <= 1 /\ (i + 1 < l => body'[l] = 0)
    BY <1>1, SameDocument DEF NothingAhead
  <2>2. body[l] <= 1 /\ (i < l => body[l] = 0) /\ l \in Nat
    BY <1>1, <1>2, <2>1 DEF NothingAhead
  <2>3. CASE l = k
    <3>1. ~(i + 1 < l)
      BY <1>1, <2>3 DEF k
    <3>2. QED
      BY <1>3, <1>6, <2>2, <2>3, <3>1
  <2>4. CASE l # k
    <3>1. i + 1 < l => i < l
      BY <1>1, <2>2
    <3>2. QED
      BY <1>6, <2>2, <2>4, <3>1
  <2>5. QED
    BY <2>3, <2>4
<1>10. NothingBehind'
  <2>1. SUFFICES ASSUME NoLongArray, NEW l \in DOMAIN doc, Wanted(l), l <= i + 1
                 PROVE  body'[l] >= 1
    BY <1>1, SameDocument DEF NothingBehind
  <2>2. CASE l = k
    BY <1>6, <2>1, <2>2
  <2>3. CASE l # k
    <3>1. l <= i
      BY <1>1, <1>2, <2>1, <2>3 DEF k
    <3>2. QED
      BY <1>1, <1>6, <2>1, <2>3, <3>1 DEF NothingBehind
  <2>4. QED
    BY <2>2, <2>3
<1>11. QED
  BY <1>7, <1>8, <1>9, <1>10 DEF FieldsInv

\* An array is begun: i stands at its first element.
LEMMA ArrayStep == ASSUME FieldsInv, ArrayField PROVE FieldsInv'
<1>1. /\ TypeOK /\ NothingAhead /\ NothingBehind /\ doc \in Docs /\ i \in Nat
      /\ pc = "fields" /\ i < Len(doc) /\ i' = 0 /\ body' = body
      /\ doc' = doc /\ method' = method /\ pc' = "elements" /\ field' = i + 1
      /\ type_el' = "error" /\ rc' = rc /\ ArrayOf(i + 1)
  BY DEF FieldsInv, TypeOK, ArrayField, ArrayOf
<1>2. /\ DOMAIN doc = 1..Len(doc) /\ Len(doc) \in Nat
      /\ \A k \in DOMAIN doc : ArrayOf(k) => Len(doc[k].els) \in Nat
  BY <1>1, FieldsAre
<1>3. i + 1 \in DOMAIN doc /\ i + 1 \in 0..Len(doc)
  BY <1>1, <1>2
<1>4. TypeOK'
  BY <1>1, <1>3 DEF TypeOK
<1>5. InArray'
  <2>1. 0 <= Len(doc[i + 1].els)
    BY <1>1, <1>2, <1>3
  <2>2. QED
    BY <1>1, <1>3, <2>1, SameDocument DEF InArray
<1>6. NothingAhead'
  <2>1. \A k \in DOMAIN doc : i + 1 <= k => i < k
    BY <1>1, <1>2
  <2>2. QED
    BY <1>1, <2>1, SameDocument DEF NothingAhead
<1>7. NothingBehind'
  <2>1. \A k \in DOMAIN doc : k < i + 1 => k <= i
    BY <1>1, <1>2
  <2>2. QED
    BY <1>1, <2>1, SameDocument DEF NothingBehind
<1>8. QED
  BY <1>4, <1>5, <1>6, <1>7 DEF FieldsInv

\* The next element of an array: its type is what is remembered.
LEMMA ElementStep == ASSUME FieldsInv, Element PROVE FieldsInv'
<1>1. /\ TypeOK /\ InArray /\ NothingAhead /\ NothingBehind /\ doc \in Docs /\ i \in Nat
      /\ pc = "elements" /\ i < Len(doc[field].els) /\ i' = i + 1 /\ body' = body
      /\ doc' = doc /\ method' = method /\ pc' = pc /\ field' = field
      /\ type_el' = doc[field].els[i + 1] /\ rc' = rc
  BY DEF FieldsInv, TypeOK, Element
<1>2. field \in DOMAIN doc /\ ArrayOf(field)
  BY <1>1 DEF InArray
<1>3. doc[field].els \in Seq(Scalars) /\ Len(doc[field].els) \in Nat
  BY <1>1, <1>2, FieldsAre
<1>4. i + 1 \in 1..Len(doc[field].els) /\ i + 1 # 0 /\ i + 1 <= Len(doc[field].els) /\ i + 1 \in Nat
  BY <1>1, <1>3
<1>5. TypeOK'
  <2>1. doc[field].els[i + 1] \in Scalars
    BY <1>3, <1>4, ElementOfSeq
  <2>2. QED
    BY <1>1, <1>4, <2>1 DEF TypeOK
<1>6. InArray'
  BY <1>1, <1>2, <1>4, SameDocument DEF InArray
<1>7. NothingAhead' /\ NothingBehind'
  BY <1>1, SameDocument DEF NothingAhead, NothingBehind
<1>8. QED
  BY <1>5, <1>6, <1>7 DEF FieldsInv

\* The list goes in, and the outer loop goes on where the inner one stopped: at the
\* array or behind it when it is not short, at it or before when it is not long.
LEMMA ArrayEndStep == ASSUME FieldsInv, ArrayEnd PROVE FieldsInv'
<1>1. /\ TypeOK /\ InArray /\ NothingAhead /\ NothingBehind /\ doc \in Docs /\ i \in Nat
      /\ body \in [DOMAIN doc -> 0..2] /\ pc = "elements" /\ i >= Len(doc[field].els)
      /\ i' = i + 1 /\ doc' = doc /\ method' = method /\ pc' = "fields" /\ field' = field
      /\ type_el' = type_el /\ rc' = rc
  BY DEF FieldsInv, TypeOK, ArrayEnd
<1>2. /\ field \in DOMAIN doc /\ ArrayOf(field) /\ i <= Len(doc[field].els)
      /\ type_el = IF i = 0 THEN "error" ELSE doc[field].els[i]
  BY <1>1 DEF InArray
<1>3. /\ DOMAIN doc = 1..Len(doc) /\ Len(doc) \in Nat /\ Len(doc[field].els) \in Nat
      /\ doc[field].els = <<>> <=> Len(doc[field].els) = 0
  BY <1>1, <1>2, FieldsAre
<1>4. i = Len(doc[field].els) /\ field \in Nat /\ i + 1 \in Nat
  BY <1>1, <1>2, <1>3
<1>5. Wanted(field) => Put(field)
  <2>1. SUFFICES ASSUME Wanted(field) PROVE Put(field)
    OBVIOUS
  <2>2. doc[field].els # <<>> /\ ListEncodable(method, doc[field].els[Len(doc[field].els)])
    BY <1>2, <2>1 DEF Wanted, ArrayOf
  <2>3. ListEncodable(method, type_el)
    BY <1>2, <1>3, <1>4, <2>2
  <2>4. QED
    BY <2>3 DEF ArrayEnd
<1>6. /\ body' \in [DOMAIN doc -> 0..2]
      /\ Wanted(field) => body'[field] >= 1
      /\ body[field] = 0 => body'[field] <= 1
      /\ \A l \in DOMAIN doc : l # field => body'[l] = body[l]
  <2>1. CASE Put(field)
    BY <1>1, <1>2, <2>1, PutIs
  <2>2. CASE ~Put(field)
    <3>1. body' = body
      BY <2>2 DEF ArrayEnd
    <3>2. QED
      BY <1>1, <1>2, <1>5, <2>2, <3>1
  <2>3. QED
    BY <2>1, <2>2
<1>7. TypeOK'
  BY <1>1, <1>4, <1>6 DEF TypeOK
<1>8. InArray'
  BY <1>1 DEF InArray
<1>9. NothingAhead'
  <2>1. SUFFICES ASSUME NoShortArray, NEW l \in DOMAIN doc
                 PROVE  body'[l] <= 1 /\ (i + 1 < l => body'[l] = 0)
    BY <1>1, SameDocument DEF NothingAhead
  <2>2. body[l] <= 1 /\ (field <= l => body[l] = 0) /\ l \in Nat
    BY <1>1, <1>3, <2>1 DEF NothingAhead
  <2>3. i >= field - 1
    BY <1>2, <1>4, <2>1 DEF NoShortArray
  <2>4. CASE l = field
    <3>1. ~(i + 1 < l)
      BY <1>1, <1>4, <2>3, <2>4
    <3>2. body[field] = 0
      BY <1>4, <2>2, <2>4
    <3>3. QED
      BY <1>6, <2>4, <3>1, <3>2
  <2>5. CASE l # field
    <3>1. i + 1 < l => field <= l
      BY <1>1, <1>4, <2>2, <2>3
    <3>2. QED
      BY <1>6, <2>2, <2>5, <3>1
  <2>6. QED
    BY <2>4, <2>5
<1>10. NothingBehind'
  <2>1. SUFFICES ASSUME NoLongArray, NEW l \in DOMAIN doc, Wanted(l), l <= i + 1
                 PROVE  body'[l] >= 1
    BY <1>1, SameDocument DEF NothingBehind
  <2>2. i <= field - 1
    BY <1>2, <1>4, <2>1 DEF NoLongArray
  <2>3. CASE l = field
    BY <1>6, <2>1, <2>3
  <2>4. CASE l # field
    <3>1. l < field
      BY <1>1, <1>3, <1>4, <2>1, <2>2, <2>4
    <3>2. QED
      BY <1>1, <1>6, <2>1, <2>4, <3>1 DEF NothingBehind
  <2>5. QED
    BY <2>3, <2>4
<1>11. QED
  BY <1>7, <1>8, <1>9, <1>10 DEF FieldsInv

\* All fields are behind the loop.
LEMMA FieldsEndStep == ASSUME FieldsInv, FieldsEnd PROVE FieldsInv'
<1>1. /\ TypeOK /\ NothingAhead /\ NothingBehind /\ doc \in Docs /\ i \in Nat
      /\ pc = "fields" /\ i >= Len(doc) /\ pc' = "done"
      /\ UNCHANGED <<method, doc, i, field, type_el, rc, body>>
  BY DEF FieldsInv, TypeOK, FieldsEnd
<1>2. DOMAIN doc = 1..Len(doc) /\ Len(doc) \in Nat
  BY <1>1, FieldsAre
<1>3. \A k \in DOMAIN doc : k <= i
  BY <1>1, <1>2
<1>4. TypeOK' /\ InArray'
  BY <1>1 DEF TypeOK, InArray
<1>5. NothingAhead' /\ NothingBehind'
  BY <1>1, <1>3, SameDocument DEF NothingAhead, NothingBehind
<1>6. QED
  BY <1>4, <1>5 DEF FieldsInv

\* Every step of the loop keeps the invariant.
LEMMA FieldsStep == FieldsInv /\ [Next]_vars => FieldsInv'
<1>1. ASSUME FieldsInv, UNCHANGED vars PROVE FieldsInv'
  BY <1>1, SameDocument DEF FieldsInv, TypeOK, InArray, NothingAhead, NothingBehind, vars
<1>2. QED
  BY <1>1, ScalarStep, ArrayStep, ElementStep, ArrayEndStep, FieldsEndStep DEF Next

\* The invariant of the loops over fields and elements, for objects and arrays of
\* any size (im_send_data_in_parson, im_set_report_data_on_dev and
\* im_if711_append_data_in_json have a copy of them each).
THEOREM FieldsInvariant == Spec => []FieldsInv
BY FieldsBegin, FieldsStep, PTL DEF Spec

\* No field is put into the body twice, unless an array is shorter than the number
\* of fields before it.
THEOREM FieldsOnce == Spec => []JInv
<1>1. FieldsInv => JInv
  BY DEF FieldsInv, JInv, NoFieldTwice, NothingAhead
<1>2. QED
  BY <1>1, FieldsInvariant, PTL

\* No field is left out when the function returns, unless an array is longer than the
\* number of fields before it.
THEOREM FieldsAll == Spec => []NoFieldMissing
<1>1. FieldsInv => NoFieldMissing
  BY DEF FieldsInv, NoFieldMissing, NothingBehind
<1>2. QED
  BY <1>1, FieldsInvariant, PTL
=============================================================================
