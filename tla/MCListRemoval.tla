--------------------------- MODULE MCListRemoval ----------------------------
(* ListRemoval on lists of two values; ints of four bits. *)
EXTENDS ListRemoval
=============================================================================
