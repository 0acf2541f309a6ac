------------------------------- MODULE IntMap -------------------------------
(***************************************************************************)
(* The hash map of the state, the collector and the compiler (int_map.c):  *)
(* chains of buckets under an array of prime size, which is replaced by a  *)
(* larger one when the map holds more keys than the array has slots.       *)
(* Buckets come from an object pool, so they never move; removed ones wait *)
(* in a list of their own.  The loop that relinks the buckets under the    *)
(* larger array is modelled one bucket at a time.                          *)
(***************************************************************************)
EXTENDS Integers, Sequences, FiniteSets

CONSTANTS
  Keys,        \* the keys clients use
  Capacities,  \* ketl_prime_capacities
  MaxSize      \* bound: "size" stays at or below it

ASSUME MapAssumption ==
  /\ Keys \subseteq Nat /\ Keys # {}
  /\ Capacities \in Seq(Nat \ {0}) /\ Capacities # <<>>
  /\ \A i, j \in DOMAIN Capacities : i < j => Capacities[i] < Capacities[j]
  /\ MaxSize \in Nat

VARIABLES
  capacityIndex,  \* "capacityIndex", counted from 1
  slots,          \* "buckets": the first bucket of each chain, 0 for NULL
  key, link,      \* "key" and "next" of each bucket of the pool
  free,           \* "freeBuckets"
  size,           \* "size"
  growth,         \* the locals of get_or_create while it relinks
  iterator,       \* a ketl_int_map_iterator; bucket 0 when it has ended
  answer,         \* what the last call returned
  refused         \* history: a key was refused since the last reset

table == <<capacityIndex, slots, key, link, free, size>>
vars == <<table, growth, iterator, answer, refused>>

-----------------------------------------------------------------------------

NULL == 0
Capacity == Capacities[capacityIndex]
EmptySlots(capacity) == [i \in 0 .. capacity - 1 |-> NULL]

NoGrowth ==
  [moving |-> FALSE, old |-> EmptySlots(0), index |-> 0, bucket |-> NULL, key |-> 0]

Ended == [index |-> 0, bucket |-> NULL]

Answer(k, address, new) == [key |-> k, address |-> address, new |-> new]

Init ==
  /\ capacityIndex = 1
  /\ slots = EmptySlots(Capacities[1])
  /\ key = <<>> /\ link = <<>>
  /\ free = NULL
  /\ size = 0
  /\ growth = NoGrowth
  /\ iterator = Ended
  /\ \E k \in Keys : answer = Answer(k, NULL, FALSE)
  /\ refused = FALSE

\* The buckets from b on along "next", in order.
Chain(b) ==
  LET from[c \in 0 .. Len(key)] ==
        IF c = NULL THEN <<>> ELSE <<c>> \o from[link[c]]
  IN  from[b]

BucketsFrom(b) == {Chain(b)[i] : i \in DOMAIN Chain(b)}

\* The bucket the walk over the chain of k's slot finds, or NULL.
Find(k) ==
  LET found == {b \in BucketsFrom(slots[k % Capacity]) : key[b] = k}
  IN  IF found = {} THEN NULL ELSE CHOOSE b \in found : TRUE

\* No call is under way.
Ready == ~growth.moving

Get(k) ==
  /\ Ready
  /\ answer' = Answer(k, Find(k), FALSE)
  /\ UNCHANGED <<table, growth, iterator, refused>>

\* ketl_int_map_get_or_create for a key that is there.
GetOrCreateFinds(k) ==
  /\ Ready
  /\ Find(k) # NULL
  /\ answer' = Answer(k, Find(k), FALSE)
  /\ UNCHANGED <<table, growth, iterator, refused>>

(***************************************************************************)
(* A bucket for a new key, removed before or fresh from the pool, becomes  *)
(* the first of its chain.                                                 *)
(***************************************************************************)
Link(k) ==
  LET b == IF free = NULL THEN Len(key) + 1 ELSE free
      first == slots[k % Capacity]
  IN  /\ IF free = NULL
         THEN /\ key' = Append(key, k)
              /\ link' = Append(link, first)
              /\ UNCHANGED free
         ELSE /\ key' = [key EXCEPT ![b] = k]
              /\ link' = [link EXCEPT ![b] = first]
              /\ free' = link[b]
      /\ slots' = [slots EXCEPT ![k % Capacity] = b]
      /\ answer' = Answer(k, b, TRUE)

\* Clients create no key and reset no map while they iterate over it.
MayCreate(k) ==
  /\ Ready
  /\ iterator.bucket = NULL
  /\ Find(k) = NULL
  /\ size < MaxSize

GetOrCreateLinks(k) ==
  /\ MayCreate(k)
  /\ size + 1 <= Capacity
  /\ size' = size + 1
  /\ Link(k)
  /\ UNCHANGED <<capacityIndex, growth, iterator, refused>>

GetOrCreateGrows(k) ==
  /\ MayCreate(k)
  /\ size + 1 > Capacity
  /\ capacityIndex < Len(Capacities)
  /\ size' = size + 1
  /\ capacityIndex' = capacityIndex + 1
  /\ slots' = EmptySlots(Capacities[capacityIndex'])
  /\ growth' = [moving |-> TRUE, old |-> slots, index |-> 0,
                bucket |-> slots[0], key |-> k]
  /\ UNCHANGED <<key, link, free, iterator, answer, refused>>

\* No larger prime is left: size is counted up, and *ppValue is not set.
GetOrCreateRefuses(k) ==
  /\ MayCreate(k)
  /\ size + 1 > Capacity
  /\ capacityIndex = Len(Capacities)
  /\ size' = size + 1
  /\ answer' = Answer(k, NULL, FALSE)
  /\ refused' = TRUE
  /\ UNCHANGED <<capacityIndex, slots, key, link, free, growth, iterator>>

\* Mutant of RelinkBucket: "next" is read after it has been overwritten.
RelinkBucketReadingLate ==
  LET b == growth.bucket
      newIndex == key[b] % Capacity
  IN  /\ growth.moving
      /\ b # NULL
      /\ link' = [link EXCEPT ![b] = slots[newIndex]]
      /\ slots' = [slots EXCEPT ![newIndex] = b]
      /\ growth' = [growth EXCEPT !.bucket = slots[newIndex]]
      /\ UNCHANGED <<capacityIndex, key, free, size, iterator, answer, refused>>

\* One turn of the inner loop: a bucket moves to the front of its new chain.
RelinkBucket ==
  LET b == growth.bucket
      newIndex == key[b] % Capacity
  IN  /\ growth.moving
      /\ b # NULL
      /\ link' = [link EXCEPT ![b] = slots[newIndex]]
      /\ slots' = [slots EXCEPT ![newIndex] = b]
      /\ growth' = [growth EXCEPT !.bucket = link[b]]
      /\ UNCHANGED <<capacityIndex, key, free, size, iterator, answer, refused>>

\* Mutant of RelinkNextChain: the chain just relinked is taken again.
RelinkSameChain ==
  /\ growth.moving
  /\ growth.bucket = NULL
  /\ growth.index + 1 \in DOMAIN growth.old
  /\ growth' = [growth EXCEPT !.bucket = growth.old[growth.index]]
  /\ UNCHANGED <<table, iterator, answer, refused>>

\* One turn of the outer loop: the next chain of the old array.
RelinkNextChain ==
  /\ growth.moving
  /\ growth.bucket = NULL
  /\ growth.index + 1 \in DOMAIN growth.old
  /\ growth' = [growth EXCEPT !.index = growth.index + 1,
                              !.bucket = growth.old[growth.index + 1]]
  /\ UNCHANGED <<table, iterator, answer, refused>>

\* All chains are relinked; the new key follows.
FinishGrowth ==
  /\ growth.moving
  /\ growth.bucket = NULL
  /\ growth.index + 1 \notin DOMAIN growth.old
  /\ Link(growth.key)
  /\ growth' = NoGrowth
  /\ UNCHANGED <<capacityIndex, size, iterator, refused>>

Grow == RelinkBucket \/ RelinkNextChain \/ FinishGrowth

\* Mutant of Reset: removed buckets are still waiting for new keys.
ResetKeepsFree ==
  /\ Ready
  /\ iterator.bucket = NULL
  /\ key' = <<>> /\ link' = <<>>
  /\ size' = 0
  /\ slots' = EmptySlots(Capacity)
  /\ refused' = FALSE
  /\ UNCHANGED <<capacityIndex, free, growth, iterator, answer>>

Reset ==
  /\ Ready
  /\ iterator.bucket = NULL
  /\ key' = <<>> /\ link' = <<>>
  /\ size' = 0
  /\ slots' = EmptySlots(Capacity)
  /\ free' = NULL
  /\ refused' = FALSE
  /\ UNCHANGED <<capacityIndex, growth, iterator, answer>>

\* The first bucket of the first chain of "array" from slot i on.
FirstFrom(array, i) ==
  LET used == {j \in DOMAIN array : j >= i /\ array[j] # NULL}
  IN  IF used = {} THEN Ended
      ELSE LET j == CHOOSE j \in used : \A h \in used : j <= h
           IN  [index |-> j, bucket |-> array[j]]

\* The iterator moves on to bucket b of its chain, or to a later chain.
Continue(array, b) ==
  iterator' = IF b # NULL THEN [iterator EXCEPT !.bucket = b]
                          ELSE FirstFrom(array, iterator.index + 1)

IteratorInit ==
  /\ Ready
  /\ iterator' = FirstFrom(slots, 0)
  /\ UNCHANGED <<table, growth, answer, refused>>

\* ketl_int_map_iterator_has_next, which every client asks first.
HasNext == iterator.bucket # NULL

IteratorGet ==
  /\ Ready /\ HasNext
  /\ answer' = Answer(key[iterator.bucket], iterator.bucket, FALSE)
  /\ UNCHANGED <<table, growth, iterator, refused>>

IteratorNext ==
  /\ Ready /\ HasNext
  /\ Continue(slots, link[iterator.bucket])
  /\ UNCHANGED <<table, growth, answer, refused>>

\* The bucket before b in its chain: where the walk from the first one ends.
Parent(b) == CHOOSE p \in BucketsFrom(slots[iterator.index]) : link[p] = b

\* The current bucket leaves its chain for the list of removed ones.
Unlink(b) ==
  LET isFirst == slots[iterator.index] = b
  IN  /\ slots' = IF isFirst THEN [slots EXCEPT ![iterator.index] = link[b]]
                             ELSE slots
      /\ link' = IF isFirst THEN [link EXCEPT ![b] = free]
                 ELSE [link EXCEPT ![Parent(b)] = link[b], ![b] = free]
      /\ free' = b

\* Mutant of IteratorRemove: the iterator goes on along the list of removed ones.
IteratorRemoveIntoFree ==
  /\ Ready /\ HasNext
  /\ size' = size - 1
  /\ Unlink(iterator.bucket)
  /\ Continue(slots', free)
  /\ UNCHANGED <<capacityIndex, key, growth, answer, refused>>

(***************************************************************************)
(* ketl_int_map_iterator_remove: the current bucket leaves its chain and   *)
(* waits for a new key, and the iterator moves on.                         *)
(***************************************************************************)
IteratorRemove ==
  /\ Ready /\ HasNext
  /\ size' = size - 1
  /\ Unlink(iterator.bucket)
  /\ Continue(slots', link[iterator.bucket])
  /\ UNCHANGED <<capacityIndex, key, growth, answer, refused>>

Next ==
  \/ \E k \in Keys :
       \/ Get(k)
       \/ GetOrCreateFinds(k)
       \/ GetOrCreateLinks(k)
       \/ GetOrCreateGrows(k)
       \/ GetOrCreateRefuses(k)
  \/ RelinkBucket \/ RelinkNextChain \/ FinishGrowth
  \/ Reset
  \/ IteratorInit \/ IteratorGet \/ IteratorNext \/ IteratorRemove

(***************************************************************************)
(* A call that has begun to grow the map runs on: one thread, no waiting.  *)
(***************************************************************************)
Spec == Init /\ [][Next]_vars /\ WF_vars(Grow)

-----------------------------------------------------------------------------

(***************************************************************************)
(* Types of the fields of ketl_int_map, its buckets and its iterator.      *)
(***************************************************************************)
TypeOK ==
  LET Bucket == 1 .. Len(key)
      Pointer == Bucket \cup {NULL}
  IN  /\ capacityIndex \in DOMAIN Capacities
      /\ slots \in [0 .. Capacity - 1 -> Pointer]
      /\ key \in Seq(Keys)
      /\ link \in [Bucket -> Pointer]
      /\ free \in Pointer
      /\ size \in 0 .. MaxSize
      /\ growth.moving \in BOOLEAN /\ growth.bucket \in Pointer
      /\ iterator \in [index : DOMAIN slots, bucket : Pointer]
      /\ answer \in [key : Keys, address : Nat, new : BOOLEAN]
      /\ refused \in BOOLEAN

\* Chains of an old array that the relinking has not reached.
OldChains ==
  IF growth.moving
  THEN {growth.bucket} \cup
       {growth.old[i] : i \in {j \in DOMAIN growth.old : j > growth.index}}
  ELSE {}

\* The first buckets of all lists that exist, without NULL.
Heads ==
  ({slots[i] : i \in DOMAIN slots} \cup OldChains \cup {free}) \ {NULL}

\* The buckets that hold a key of the map.
Held ==
  UNION {BucketsFrom(b) :
           b \in {slots[i] : i \in DOMAIN slots} \cup OldChains}

(***************************************************************************)
(* Every bucket of the pool is in exactly one list: a chain, a chain not   *)
(* yet relinked, or the list of removed buckets.  No key and no bucket is  *)
(* lost while the map grows, and no list runs in a circle.  Between calls, *)
(* size is the number of keys in the map, unless a key was refused: the    *)
(* compiler numbers the operations and arguments of a function by the size *)
(* of the map they are entered in.                                         *)
(***************************************************************************)
BucketsPartitioned ==
  /\ UNION {BucketsFrom(b) : b \in Heads} = DOMAIN key
  /\ \A a, b \in Heads : a # b => BucketsFrom(a) \cap BucketsFrom(b) = {}
  /\ \A i, j \in DOMAIN slots : slots[i] = slots[j] /\ slots[i] # NULL => i = j
  /\ Ready /\ ~refused => size = Cardinality(Held)

(***************************************************************************)
(* The map is a dictionary: the object of a key keeps its address while    *)
(* the map grows, and an iteration that removes keys visits each key once. *)
(***************************************************************************)
Where ==
  [k \in {key[b] : b \in Held} |-> CHOOSE b \in Held : key[b] = k]

Visit ==
  IF iterator.bucket = NULL THEN {}
  ELSE {key[b] : b \in BucketsFrom(iterator.bucket) \cup
          UNION {BucketsFrom(slots[i]) :
                   i \in {j \in DOMAIN slots : j > iterator.index}}}

At == IF iterator.bucket = NULL THEN {} ELSE {key[iterator.bucket]}

Abstract ==
  INSTANCE Dictionary WITH
    Key <- Keys, Limit <- Capacities[Len(Capacities)],
    where <- Where, visit <- Visit, at <- At

ImplementsDictionary == Abstract!Spec

(***************************************************************************)
(* A call that grows the map returns: the relinking reaches the end of     *)
(* every chain although it changes the links it follows.                   *)
(***************************************************************************)
GrowthEnds == growth.moving ~> ~growth.moving

=============================================================================
