------------------------------- MODULE IrNode -------------------------------
(***************************************************************************)
(* The operations the builder hands to the compiler (ir_node.h).  What an  *)
(* operation computes is left out: of its code only its effect on the      *)
(* order of execution is kept, and "event" names what it does.             *)
(***************************************************************************)
EXTENDS Integers, Sequences

NULL == 0

\* "work" stands for every operation that computes, copies or calls.
Code == {"none", "work", "jump_if_false", "return"}

\* ketl_ir_operation: "main" and "extra" are the operations that may follow.
Operation(code, main, extra, event) ==
  [code |-> code, main |-> main, extra |-> extra, event |-> event]

=============================================================================
