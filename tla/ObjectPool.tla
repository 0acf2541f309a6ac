----------------------------- MODULE ObjectPool -----------------------------
(***************************************************************************)
(* The arena every component takes its objects from (object_pool.c): a     *)
(* chain of equally sized blocks that is filled front to back, emptied at  *)
(* once by reset, and then filled again without giving blocks back.        *)
(***************************************************************************)
EXTENDS Integers, Sequences

CONSTANTS
  PoolSize,   \* "poolSize": objects per block
  Counts,     \* the array lengths clients ask for
  MaxBlocks   \* bound: how many blocks a behaviour allocates

ASSUME PoolAssumption ==
  /\ PoolSize \in Nat \ {0}
  /\ Counts \subseteq Nat
  /\ MaxBlocks \in Nat \ {0}

VARIABLES
  next,       \* next[b]: the block after block b, 0 for NULL
  last,       \* "lastPool": the block being filled
  occupied,   \* "occupiedObjects" of that block
  live,       \* history: the objects handed out since the last reset
  result,     \* what the last call of get or get_array returned
  iterator,   \* a ketl_object_pool_iterator
  seen,       \* history: what the iterator returned since its init
  walk        \* a call of ketl_object_pool_get_used_count

poolVars == <<next, last, occupied, live, result>>
iteratorVars == <<iterator, seen>>
vars == <<poolVars, iteratorVars, walk>>

-----------------------------------------------------------------------------

NULL == 0

\* "count" neighbouring objects, from slot "first" of a block.
Object(block, first, count) ==
  [block |-> block, first |-> first, count |-> count]

NoObject == Object(NULL, 0, 0)

\* The first block of the chain is allocated by init and never changes.
FirstPool == 1

\* No count is asked for, or the pool was used since the last answer.
NoWalk == [phase |-> "idle", block |-> NULL, stop |-> NULL, used |-> 0]

Init ==
  /\ walk = NoWalk
  /\ next = <<NULL>>
  /\ last = FirstPool
  /\ occupied = 0
  /\ live = <<>>
  /\ result = NoObject
  /\ iterator = [block |-> FirstPool, index |-> 0]
  /\ seen = <<>>

\* The object the pool hands out: it becomes part of the live objects.
HandOut(object) ==
  /\ result' = object
  /\ live' = Append(live, object)

\* The block being filled has room.
TakeHere(count) ==
  /\ HandOut(Object(last, occupied, count))
  /\ occupied' = occupied + count
  /\ UNCHANGED <<next, last>>

\* Mutant of TakeFromNext: the object is not counted in its block.
TakeFromNextUncounted(count) ==
  /\ next[last] # NULL
  /\ last' = next[last]
  /\ HandOut(Object(last', 0, count))
  /\ occupied' = 0
  /\ UNCHANGED next

\* It has not, and a block left over from before a reset follows it.
TakeFromNext(count) ==
  /\ next[last] # NULL
  /\ last' = next[last]
  /\ HandOut(Object(last', 0, count))
  /\ occupied' = count
  /\ UNCHANGED next

\* Mutant of TakeFromNew: the block that follows after a reset is not looked for.
TakeFromNewAlways(count) ==
  /\ Len(next) < MaxBlocks
  /\ last' = Len(next) + 1
  /\ next' = Append([next EXCEPT ![last] = last'], NULL)
  /\ HandOut(Object(last', 0, count))
  /\ occupied' = count

\* It has not, and no block follows it: createObjectPoolBase.
TakeFromNew(count) ==
  /\ next[last] = NULL
  /\ Len(next) < MaxBlocks
  /\ last' = Len(next) + 1
  /\ next' = Append([next EXCEPT ![last] = last'], NULL)
  /\ HandOut(Object(last', 0, count))
  /\ occupied' = count

\* Mutant of Get: off by one at a full block.
GetPastEnd ==
  /\ \/ occupied <= PoolSize /\ TakeHere(1)
     \/ occupied > PoolSize /\ (TakeFromNext(1) \/ TakeFromNew(1))
  /\ UNCHANGED iteratorVars

(***************************************************************************)
(* ketl_object_pool_get.                                                   *)
(***************************************************************************)
Get ==
  /\ \/ occupied < PoolSize /\ TakeHere(1)
     \/ occupied >= PoolSize /\ (TakeFromNext(1) \/ TakeFromNew(1))
  /\ UNCHANGED iteratorVars

(***************************************************************************)
(* ketl_object_pool_get_array: an array never spans two blocks, so the     *)
(* rest of a block that is too small for it is left unused.                *)
(***************************************************************************)
GetArray(count) ==
  /\ count > 0 /\ count <= PoolSize
  /\ \/ occupied + count <= PoolSize /\ TakeHere(count)
     \/ occupied + count > PoolSize /\ (TakeFromNext(count) \/ TakeFromNew(count))
  /\ UNCHANGED iteratorVars

\* ketl_object_pool_get_array for a length no block can hold.
GetArrayRefused(count) ==
  /\ count = 0 \/ count > PoolSize
  /\ result' = NoObject
  /\ UNCHANGED <<next, last, occupied, live, iteratorVars>>

(***************************************************************************)
(* ketl_object_pool_reset.  The pool's clients drop their objects and      *)
(* their iterators with it.                                                *)
(***************************************************************************)
Reset ==
  /\ last' = FirstPool
  /\ occupied' = 0
  /\ live' = <<>>
  /\ result' = NoObject
  /\ iterator' = [block |-> FirstPool, index |-> 0]
  /\ seen' = <<>>
  /\ UNCHANGED next

IteratorInit ==
  /\ iterator' = [block |-> FirstPool, index |-> 0]
  /\ seen' = <<>>
  /\ UNCHANGED poolVars

HasNext ==
  /\ iterator.block # NULL
  /\ iterator.block # last \/ iterator.index < occupied

\* Mutant of IteratorGetNext: the next block is entered one object too late.
IteratorGetNextLate ==
  /\ HasNext
  /\ LET ended == iterator.index > PoolSize
         block == IF ended THEN next[iterator.block] ELSE iterator.block
         index == IF ended THEN 0 ELSE iterator.index
     IN  /\ iterator' = [block |-> block, index |-> index + 1]
         /\ seen' = Append(seen, Object(block, index, 1))
  /\ UNCHANGED poolVars

(***************************************************************************)
(* ketl_object_pool_iterator_get_next, which clients call after has_next.  *)
(***************************************************************************)
IteratorGetNext ==
  /\ HasNext
  /\ LET ended == iterator.index >= PoolSize
         block == IF ended THEN next[iterator.block] ELSE iterator.block
         index == IF ended THEN 0 ELSE iterator.index
     IN  /\ iterator' = [block |-> block, index |-> index + 1]
         /\ seen' = Append(seen, Object(block, index, 1))
  /\ UNCHANGED poolVars

\* Mutant of UsedCountBegin: the walk is to stop at the end of the chain.
UsedCountBeginToEnd ==
  /\ walk.phase # "walk"
  /\ walk' = [phase |-> "walk", block |-> FirstPool, stop |-> NULL, used |-> 0]
  /\ UNCHANGED <<poolVars, iteratorVars>>

(***************************************************************************)
(* The head of ketl_object_pool_get_used_count: what follows the block     *)
(* being filled, a block or NULL, is read once, before the walk.           *)
(***************************************************************************)
UsedCountBegin ==
  /\ walk.phase # "walk"
  /\ walk' = [phase |-> "walk", block |-> FirstPool, stop |-> next[last], used |-> 0]
  /\ UNCHANGED <<poolVars, iteratorVars>>

(***************************************************************************)
(* A turn of the walk that does not end it.  Compared is the block that    *)
(* follows, so the block being filled is not counted as a full one.        *)
(***************************************************************************)
UsedCountTurn ==
  /\ walk.phase = "walk"
  /\ next[walk.block] # walk.stop
  /\ walk' = [walk EXCEPT !.used = @ + PoolSize, !.block = next[@]]
  /\ UNCHANGED <<poolVars, iteratorVars>>

\* The break, and the answer: walk.used.
UsedCountReturn ==
  /\ walk.phase = "walk"
  /\ next[walk.block] = walk.stop
  /\ walk' = [walk EXCEPT !.used = @ + occupied, !.phase = "returned"]
  /\ UNCHANGED <<poolVars, iteratorVars>>

\* A call of another operation: an answer given before it is out of date.
Use ==
  /\ walk.phase # "walk"
  /\ walk' = NoWalk
  /\ \/ Get
     \/ \E count \in Counts : GetArray(count)
     \/ \E count \in Counts : GetArrayRefused(count)
     \/ Reset
     \/ IteratorInit
     \/ IteratorGetNext

Next ==
  \/ Use
  \/ UsedCountBegin
  \/ UsedCountTurn
  \/ UsedCountReturn

Spec == Init /\ [][Next]_vars

-----------------------------------------------------------------------------

ObjectType == [block : Nat, first : Nat, count : Nat]

WalkType == [phase : {"idle", "walk", "returned"},
             block : Nat, stop : Nat, used : Nat]

(***************************************************************************)
(* Types of the fields of ketl_object_pool, of its iterator and of the     *)
(* locals of ketl_object_pool_get_used_count.                              *)
(***************************************************************************)
TypeOK ==
  /\ next \in Seq(Nat)
  /\ last \in 1 .. Len(next)
  /\ occupied \in 0 .. PoolSize
  /\ live \in Seq(ObjectType)
  /\ result \in ObjectType
  /\ iterator \in [block : Nat, index : Nat]
  /\ seen \in Seq(ObjectType)
  /\ walk \in WalkType

(***************************************************************************)
(* Every block ever allocated stays in the chain from the first block,     *)
(* also when a pool is filled again after a reset: deinit frees them all.  *)
(***************************************************************************)
NoBlockLost ==
  \A b \in DOMAIN next : next[b] = IF b < Len(next) THEN b + 1 ELSE NULL

\* The end of an object in its block.
End(object) == object.first + object.count

(***************************************************************************)
(* Objects handed out since the last reset lie inside a block of the pool, *)
(* before its fill mark, and share no slot with one another.               *)
(***************************************************************************)
ObjectsDisjoint ==
  /\ \A i \in DOMAIN live :
       /\ live[i].count >= 1
       /\ live[i].block \in DOMAIN next
       /\ End(live[i]) <= PoolSize
       /\ \/ live[i].block < last
          \/ live[i].block = last /\ End(live[i]) <= occupied
  /\ \A i, j \in DOMAIN live :
       i < j => \/ live[i].block < live[j].block
                \/ /\ live[i].block = live[j].block
                   /\ End(live[i]) <= live[j].first

\* Only single objects were taken since the last reset.
OnlySingles == \A i \in DOMAIN live : live[i].count = 1

(***************************************************************************)
(* The walk of the used count stays on blocks that are in use, and does    *)
(* not go on to those left over from before a reset, nor to NULL; and in a *)
(* pool of single objects the answer is how many there are, across any     *)
(* number of blocks and resets.                                            *)
(***************************************************************************)
UsedCountExact ==
  /\ walk.phase = "walk" => walk.block \in FirstPool .. last
  /\ walk.phase = "returned" /\ OnlySingles => walk.used = Len(live)

(***************************************************************************)
(* An iterator over a pool of single objects returns them in the order     *)
(* they were handed out, each once, and stops exactly behind the last one, *)
(* also when objects are added while it runs.                              *)
(***************************************************************************)
IteratorInOrder ==
  OnlySingles =>
    /\ Len(seen) <= Len(live)
    /\ \A k \in DOMAIN seen : seen[k] = live[k]
    /\ HasNext <=> Len(seen) < Len(live)

(***************************************************************************)
(* An iterator that asks has_next first never leaves the chain of blocks   *)
(* and never points behind the end of a block.                             *)
(***************************************************************************)
IteratorInBounds ==
  /\ iterator.block \in DOMAIN next
  /\ iterator.index <= PoolSize

=============================================================================
