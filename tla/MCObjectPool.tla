---------------------------- MODULE MCObjectPool ----------------------------
(***************************************************************************)
(* Blocks of three objects: arrays that fit, that leave one or two slots   *)
(* unused, that fill a block, and lengths that are refused.                *)
(***************************************************************************)
EXTENDS ObjectPool

MCCounts == 0 .. 4
=============================================================================
