-------------------------- MODULE MCRequestBodies --------------------------
(***************************************************************************)
(* Controls of up to two devices with up to two rows each, of four sorts:  *)
(* empty, more than MaxData of a kind, and several kinds.  Queries for up  *)
(* to two devices, whose names may be no strings.  Data: a string, and a   *)
(* list in which JSON cannot hold the first value.                         *)
(***************************************************************************)
EXTENDS RequestBodies

RowOf(f) == [k \in ToSet(Kinds) |-> IF k \in DOMAIN f THEN f[k] ELSE 0]
SmallRows == {RowOf([string |-> 0]), RowOf([integer |-> 3]),
              RowOf([number |-> 1, float |-> 1]), RowOf([string |-> 1, boolean |-> 2])}
SmallDevices == UNION {[1..n -> SmallRows] : n \in 0..2}
SmallRequests == UNION {[1..n -> SmallDevices] : n \in 0..2}

SmallHandlerSets == {ToSet(Kinds), {"string", "boolean"}, {}}

SmallQueries ==
    [inclDevIds : UNION {[1..n -> {1, NoText}] : n \in 0..2}, groupTag : {NoText, 1}]

String == [list |-> "strDataInfoVOs", tag |-> 1, vals |-> <<1>>]
StringList == [list |-> "strListDataInfoVOs", tag |-> 1, vals |-> <<NoText, 2>>]
SmallData == {String, StringList}
SmallObjects == {<<String, StringList>>}
=============================================================================
