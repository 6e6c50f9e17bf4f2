---------------------------- MODULE MCJsonFields ----------------------------
EXTENDS JsonFields

Scalar(kind) == [kind |-> kind, els |-> <<>>]
Array(type, n) == [kind |-> "array", els |-> [k \in 1..n |-> type]]

\* Every object of at most three fields, its arrays of at most three elements.
SmallFields == {Scalar("number"), Scalar("datetime"), Scalar("null")}
               \cup {Array(t, n) : t \in {"string", "null"}, n \in 0..3}
SmallDocs == UNION {[1..n -> SmallFields] : n \in 0..3}

\* The documents that port/linux-std/test/a.c and samples/biz_app/biz_app_main.c
\* send.
SampleDocs ==
    {<<Scalar("number"), Scalar("number"), Scalar("string"), Scalar("boolean"),
       Scalar("boolean"), Scalar("datetime"), Array("number", 5), Array("number", 5),
       Array("string", 4), Array("datetime", 2), Array("boolean", 3)>>,
     <<Scalar("string"), Scalar("number"), Scalar("number"), Scalar("boolean"),
       Array("string", 4), Array("number", 3), Array("number", 3), Array("boolean", 4)>>}
=============================================================================
