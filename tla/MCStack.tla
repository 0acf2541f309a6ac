------------------------------- MODULE MCStack ------------------------------
(***************************************************************************)
(* Blocks of two objects and up to three blocks: the stack grows into new  *)
(* and into regained blocks and shrinks back over both boundaries.         *)
(***************************************************************************)
EXTENDS Stack

CONSTANTS a, b, garbage

MCValue == {a, b, garbage}
=============================================================================
