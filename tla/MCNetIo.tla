------------------------------ MODULE MCNetIo ------------------------------
(***************************************************************************)
(* Three packets of two lengths come in pieces; two packets are sent, with *)
(* a size_t of four bits; on the mailbox four messages, two requests and a *)
(* second connect.                                                         *)
(***************************************************************************)
EXTENDS NetIo
=============================================================================
