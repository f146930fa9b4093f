--------------------------- MODULE MCOrderNumber ----------------------------
(***************************************************************************)
(* OrderNumber with small integer types: the largest bigint is half of the *)
(* largest uint64, as in the code, and both ends lie inside the texts.     *)
(***************************************************************************)
EXTENDS OrderNumber
=============================================================================
