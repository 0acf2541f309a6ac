-------------------------------- MODULE Lifo --------------------------------
(***************************************************************************)
(* What a stack promises: values come back last in, first out, and a       *)
(* reader walks over them from the bottom without disturbing them.         *)
(***************************************************************************)
EXTENDS Naturals, Sequences

CONSTANT Value

VARIABLES
  items,    \* the values on the stack, bottom first
  cursor,   \* how many of them the reader has passed
  result    \* the value last delivered by peek or by the reader

vars == <<items, cursor, result>>

Init == items = <<>> /\ cursor = 0 /\ result \in Value

Push(v) == items' = Append(items, v) /\ UNCHANGED <<cursor, result>>

\* The reader may not be used after a value was taken away.
Pop ==
  /\ items # <<>>
  /\ items' = SubSeq(items, 1, Len(items) - 1)
  /\ cursor' = 0
  /\ UNCHANGED result

Clear == items' = <<>> /\ cursor' = 0 /\ UNCHANGED result

Peek == items # <<>> /\ result' = items[Len(items)] /\ UNCHANGED <<items, cursor>>

Rewind == cursor' = 0 /\ UNCHANGED <<items, result>>

Read ==
  /\ cursor < Len(items)
  /\ cursor' = cursor + 1
  /\ result' = items[cursor + 1]
  /\ UNCHANGED items

Skip == cursor < Len(items) /\ cursor' = cursor + 1 /\ UNCHANGED <<items, result>>

Next ==
  \/ \E v \in Value : Push(v)
  \/ Pop \/ Clear \/ Peek
  \/ Rewind \/ Read \/ Skip

Spec == Init /\ [][Next]_vars

=============================================================================
