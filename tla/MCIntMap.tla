------------------------------ MODULE MCIntMap ------------------------------
(***************************************************************************)
(* Four keys that collide under one prime and part under the next, in a    *)
(* map that grows from two slots to three and refuses the fourth key.      *)
(***************************************************************************)
EXTENDS IntMap

MCKeys == {0, 2, 3, 6}
MCCapacities == <<1, 2, 3>>
=============================================================================
