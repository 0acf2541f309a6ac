-------------------------------- MODULE Stack -------------------------------
(***************************************************************************)
(* The stack of the parser, the compiler and the collector (stack.c): a    *)
(* doubly linked chain of blocks.  Blocks are kept when the stack shrinks  *)
(* and used again when it grows.                                           *)
(***************************************************************************)
EXTENDS Integers, Sequences

CONSTANTS
  PoolSize,   \* "poolSize": objects per block
  Value,      \* what clients push
  Garbage,    \* what a fresh block holds
  MaxBlocks   \* bound: how many blocks a behaviour allocates

ASSUME StackAssumption ==
  /\ PoolSize \in Nat \ {0}
  /\ Garbage \in Value
  /\ MaxBlocks \in Nat \ {0}

VARIABLES
  next, prev,  \* the links of each block, 0 for NULL
  slot,        \* the contents of each block
  current,     \* "currentPool"
  occupied,    \* "occupiedObjects" of the current block
  iterator,    \* a ketl_stack_iterator; block 0: none is in use
  result       \* the object the last peek or get_next returned

stackVars == <<next, prev, slot, current, occupied>>
vars == <<stackVars, iterator, result>>

-----------------------------------------------------------------------------

NULL == 0
FirstPool == 1
NoIterator == [block |-> NULL, index |-> 0]
FreshBlock == [i \in 0 .. PoolSize - 1 |-> Garbage]

Init ==
  /\ next = <<NULL>>
  /\ prev = <<NULL>>
  /\ slot = <<FreshBlock>>
  /\ current = FirstPool
  /\ occupied = 0
  /\ iterator = NoIterator
  /\ result = Garbage

IsEmpty == occupied = 0 /\ prev[current] = NULL

\* Mutant of PushHere: off by one at a full block.
PushPastEnd(v) ==
  /\ occupied <= PoolSize
  /\ slot' = [slot EXCEPT ![current][occupied] = v]
  /\ occupied' = occupied + 1
  /\ UNCHANGED <<next, prev, current>>

\* The current block has room.
PushHere(v) ==
  /\ occupied < PoolSize
  /\ slot' = [slot EXCEPT ![current][occupied] = v]
  /\ occupied' = occupied + 1
  /\ UNCHANGED <<next, prev, current>>

\* It is full, and a block used before follows it.
PushOnNext(v) ==
  /\ occupied >= PoolSize
  /\ next[current] # NULL
  /\ current' = next[current]
  /\ slot' = [slot EXCEPT ![next[current]][0] = v]
  /\ occupied' = 1
  /\ UNCHANGED <<next, prev>>

\* Mutant of PushOnNew: the new block is not linked back.
PushOnNewOneWay(v) ==
  /\ occupied >= PoolSize
  /\ next[current] = NULL
  /\ Len(next) < MaxBlocks
  /\ current' = Len(next) + 1
  /\ next' = Append([next EXCEPT ![current] = Len(next) + 1], NULL)
  /\ prev' = Append(prev, NULL)
  /\ slot' = Append(slot, [FreshBlock EXCEPT ![0] = v])
  /\ occupied' = 1

\* It is full, and no block follows it: createPoolBase.
PushOnNew(v) ==
  /\ occupied >= PoolSize
  /\ next[current] = NULL
  /\ Len(next) < MaxBlocks
  /\ current' = Len(next) + 1
  /\ next' = Append([next EXCEPT ![current] = Len(next) + 1], NULL)
  /\ prev' = Append(prev, current)
  /\ slot' = Append(slot, [FreshBlock EXCEPT ![0] = v])
  /\ occupied' = 1

\* ketl_stack_push, and the assignment clients make to the object at once.
Push(v) ==
  /\ PushHere(v) \/ PushOnNext(v) \/ PushOnNew(v)
  /\ UNCHANGED <<iterator, result>>

(***************************************************************************)
(* ketl_stack_pop: the last object of a later block leads back to the full *)
(* block before it.  Clients pop only what they pushed, and use no         *)
(* iterator across a pop.                                                  *)
(***************************************************************************)
Pop ==
  /\ ~IsEmpty
  /\ IF occupied = 1 /\ prev[current] # NULL
     THEN current' = prev[current] /\ occupied' = PoolSize
     ELSE occupied' = occupied - 1 /\ UNCHANGED current
  /\ iterator' = NoIterator
  /\ UNCHANGED <<next, prev, slot, result>>

\* Where the walk back over "prev" ends that reset and the iterator begin with.
Bottom == CHOOSE b \in DOMAIN prev : prev[b] = NULL

\* Mutant of Reset: the current block is emptied, those before it are not.
ResetCurrentOnly ==
  /\ occupied' = 0
  /\ iterator' = NoIterator
  /\ UNCHANGED <<next, prev, slot, current, result>>

Reset ==
  /\ current' = Bottom
  /\ occupied' = 0
  /\ iterator' = NoIterator
  /\ UNCHANGED <<next, prev, slot, result>>

Peek ==
  /\ ~IsEmpty
  /\ result' = slot[current][occupied - 1]
  /\ UNCHANGED <<stackVars, iterator>>

IteratorInit ==
  /\ iterator' = [block |-> Bottom, index |-> 0]
  /\ UNCHANGED <<stackVars, result>>

HasNext ==
  /\ iterator.block # NULL
  /\ iterator.block # current \/ iterator.index < occupied

\* Where get_next and skip_next find the next object.
AtBlockEnd == iterator.index >= PoolSize
NextBlock == IF AtBlockEnd THEN next[iterator.block] ELSE iterator.block
NextIndex == IF AtBlockEnd THEN 0 ELSE iterator.index

IteratorGetNext ==
  /\ HasNext
  /\ result' = slot[NextBlock][NextIndex]
  /\ iterator' = [block |-> NextBlock, index |-> NextIndex + 1]
  /\ UNCHANGED stackVars

IteratorSkipNext ==
  /\ HasNext
  /\ iterator' = [block |-> NextBlock, index |-> NextIndex + 1]
  /\ UNCHANGED <<stackVars, result>>

Next ==
  \/ \E v \in Value : Push(v)
  \/ Pop
  \/ Reset
  \/ Peek
  \/ IteratorInit
  \/ IteratorGetNext
  \/ IteratorSkipNext

Spec == Init /\ [][Next]_vars

-----------------------------------------------------------------------------

(***************************************************************************)
(* Types of the fields of ketl_stack, of its blocks and of its iterator.   *)
(***************************************************************************)
TypeOK ==
  /\ next \in Seq(Nat)
  /\ prev \in Seq(Nat)
  /\ slot \in Seq([0 .. PoolSize - 1 -> Value])
  /\ current \in 1 .. Len(next)
  /\ occupied \in 0 .. PoolSize
  /\ iterator \in [block : Nat, index : Nat]
  /\ result \in Value

\* The stack as a sequence, through its blocks.
Depth(block, index) == (block - FirstPool) * PoolSize + index

Contents ==
  [i \in 1 .. Depth(current, occupied) |->
     slot[(i - 1) \div PoolSize + FirstPool][(i - 1) % PoolSize]]

Cursor ==
  IF iterator.block = NULL THEN 0 ELSE Depth(iterator.block, iterator.index)

(***************************************************************************)
(* The links of the blocks mirror each other and reach every block ever    *)
(* allocated, so deinit frees all of them; only the first block is ever    *)
(* current and empty, which is_empty, peek and pop rely on.  So is_empty   *)
(* and has_next, which end the loops of the parser, the collector and the  *)
(* compiler, tell exactly when nothing is left.                            *)
(***************************************************************************)
ChainOK ==
  /\ Len(prev) = Len(next) /\ Len(slot) = Len(next)
  /\ \A b \in DOMAIN next :
       /\ next[b] = IF b < Len(next) THEN b + 1 ELSE NULL
       /\ prev[b] = b - 1
  /\ current # FirstPool => occupied > 0
  /\ IsEmpty <=> Contents = <<>>
  /\ iterator.block # NULL => (HasNext <=> Cursor < Len(Contents))

(***************************************************************************)
(* The stack is a LIFO stack of values whose iterator walks from the       *)
(* bottom to the top, across block boundaries, regrown blocks and resets.  *)
(***************************************************************************)
Abstract == INSTANCE Lifo WITH items <- Contents, cursor <- Cursor
ImplementsLifo == Abstract!Spec

=============================================================================
