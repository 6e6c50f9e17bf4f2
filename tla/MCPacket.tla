------------------------------ MODULE MCPacket ------------------------------
(***************************************************************************)
(* Bytes below 4: fields with the same key and with another, values of no  *)
(* byte, of three and of four (a length that does not fit one byte), and   *)
(* one that is no text; one key is no text either.  The buffer takes the   *)
(* short body, the middle one without an extension only, the long one      *)
(* never, and not every pair of fields.                                    *)
(***************************************************************************)
EXTENDS Packet

SmallFields ==
    {[key |-> <<1>>, val |-> <<>>], [key |-> <<1>>, val |-> <<2, 1, 2>>],
     [key |-> <<2, 3>>, val |-> <<1, 1, 1>>], [key |-> <<2>>, val |-> <<1, 1, 2, 1>>],
     [key |-> <<2>>, val |-> <<3>>]}
=============================================================================
