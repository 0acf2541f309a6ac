--------------------------- MODULE HashTableProofs ---------------------------
(***************************************************************************)
(* Machine-checked proofs about the two hash tables, IntMap and            *)
(* AtomicStrings, for every set of keys and of texts, all hashes and every *)
(* row of capacities: no bucket and no key is ever lost or in two lists,   *)
(* the map is a dictionary, and a name has one address.                    *)
(*                                                                         *)
(* The invariant of the map describes its lists by what ProofLemmas calls  *)
(* the home and the rank of each bucket.  The state has no such fields:    *)
(* that some exist is what the invariant says.  The table of names, whose  *)
(* buckets never leave it, has sequences for lists.                        *)
(***************************************************************************)
EXTENDS IntMap, AtomicStrings, ProofLemmas, FiniteSetTheorems

Bucket == 1 .. Len(key)

(***************************************************************************)
(* The lists have numbers: a chain that of its slot, the removed buckets   *)
(* -1, the chain that is being relinked -2, and one that waits for it, at  *)
(* slot i of the old array, -3 - i.                                        *)
(***************************************************************************)
FreeList == -1
MovingList == -2
OldList(i) == -3 - i

Waiting(i) == growth.moving /\ i \in DOMAIN growth.old /\ i > growth.index

ListHead ==
  [r \in Int |->
     IF r \in DOMAIN slots THEN slots[r]
     ELSE IF r = FreeList THEN free
     ELSE IF r = MovingList /\ growth.moving THEN growth.bucket
     ELSE IF Waiting(-3 - r) THEN growth.old[-3 - r]
     ELSE NULL]

Lists(home, rank, bound) ==
  Listed(Bucket, link, ListHead, home, rank, bound)

HeldAt(home) == {b \in Bucket : home[b] # FreeList}

\* Every key is in the chain of its slot, once.
Placed(home) ==
  /\ \A b \in Bucket : home[b] \in DOMAIN slots => key[b] % Capacity = home[b]
  /\ \A a, b \in HeldAt(home) : key[a] = key[b] => a = b
  /\ growth.moving => \A b \in HeldAt(home) : key[b] # growth.key
  /\ iterator.bucket # NULL =>
       iterator.bucket \in Bucket /\ home[iterator.bucket] = iterator.index

\* The key that makes the map grow is counted before it is in the map.
Pending == IF growth.moving THEN 1 ELSE 0

Counted(home) ==
  /\ IsFiniteSet(HeldAt(home))
  /\ Cardinality(HeldAt(home)) + Pending <= size
  /\ ~refused => Cardinality(HeldAt(home)) + Pending = size /\ size <= Capacity

Arranged(home, rank, bound) ==
  /\ Lists(home, rank, bound)
  /\ Placed(home)
  /\ Counted(home)

\* The array that the growth relinks is the one of the capacity before.
Growing ==
  /\ capacityIndex - 1 \in DOMAIN Capacities
  /\ growth.old \in [0 .. Capacities[capacityIndex - 1] - 1 -> Nat]
  /\ growth.index \in DOMAIN growth.old
  /\ growth.key \in Keys
  /\ iterator.bucket = NULL

Typed ==
  /\ capacityIndex \in DOMAIN Capacities
  /\ slots \in [0 .. Capacity - 1 -> Nat]
  /\ key \in Seq(Keys)
  /\ link \in Seq(Nat) /\ Len(link) = Len(key)
  /\ free \in Nat
  /\ size \in 0 .. MaxSize
  /\ growth = [moving |-> growth.moving, old |-> growth.old, index |-> growth.index,
               bucket |-> growth.bucket, key |-> growth.key]
  /\ growth.moving \in BOOLEAN
  /\ IF growth.moving THEN Growing ELSE growth.bucket = NULL
  /\ iterator \in [index : DOMAIN slots, bucket : Nat]
  /\ answer \in [key : Keys, address : Nat, new : BOOLEAN]
  /\ refused \in BOOLEAN

IInv ==
  /\ Typed
  /\ \E home, rank, bound : Arranged(home, rank, bound)

-----------------------------------------------------------------------------

(* A key has a slot in an array of any capacity. *)
LEMMA SlotOfKey ==
  ASSUME Typed, NEW k \in Keys
  PROVE  /\ Capacity \in Nat \ {0} /\ k % Capacity \in DOMAIN slots
         /\ DOMAIN slots = 0 .. Capacity - 1 /\ DOMAIN slots \subseteq Nat
<1>1. Capacity \in Nat \ {0}
  BY MapAssumption DEF Typed, Capacity
<1>2. k \in Nat
  BY MapAssumption
<1>3. DOMAIN slots = 0 .. Capacity - 1
  BY DEF Typed
<1>4. k % Capacity \in 0 .. Capacity - 1
  BY <1>1, <1>2
<1> QED
  BY <1>1, <1>3, <1>4

(* The walk along "next" meets the rest of the list of a bucket. *)
LEMMA BucketsFromAre ==
  ASSUME Typed, NEW home, NEW rank, NEW bound, Lists(home, rank, bound)
  PROVE  /\ BucketsFrom(NULL) = {}
         /\ \A b \in Bucket :
              BucketsFrom(b) = {c \in Bucket : home[c] = home[b] /\ rank[c] <= rank[b]}
<1>1. \A b : Chain(b) = Chains(Len(key), link)[b]
  BY DEF Chain, Chains, Before, NULL
<1>2. \A b : BucketsFrom(b) = ElementsOf(Chains(Len(key), link)[b])
  BY <1>1 DEF BucketsFrom, ElementsOf
<1>3. Len(key) \in Nat
  BY DEF Typed
<1>4. /\ Chains(Len(key), link)[0] = <<>>
      /\ \A b \in 1 .. Len(key) :
           ElementsOf(Chains(Len(key), link)[b]) =
             {c \in 1 .. Len(key) : home[c] = home[b] /\ rank[c] <= rank[b]}
  BY <1>3, ChainElements DEF Lists, Bucket
<1>5. ElementsOf(<<>>) = {}
  BY DEF ElementsOf
<1> QED
  BY <1>2, <1>4, <1>5 DEF Bucket, NULL

(* The walk from the first bucket of a list meets all of it. *)
LEMMA ListIs ==
  ASSUME Typed, NEW home, NEW rank, NEW bound, Lists(home, rank, bound), NEW r \in Int
  PROVE  /\ BucketsFrom(ListHead[r]) = {c \in Bucket : home[c] = r}
         /\ \/ ListHead[r] = NULL
            \/ /\ ListHead[r] \in Bucket /\ home[ListHead[r]] = r
               /\ \A c \in Bucket : home[c] = r => rank[c] <= rank[ListHead[r]]
<1>1. \/ ListHead[r] = NULL /\ \A c \in Bucket : home[c] # r
      \/ /\ ListHead[r] \in Bucket /\ home[ListHead[r]] = r
         /\ \A c \in Bucket : home[c] = r => rank[c] <= rank[ListHead[r]]
  <2>1. \A q \in Int :
          \/ ListHead[q] = NULL /\ \A c \in Bucket : home[c] # q
          \/ /\ ListHead[q] \in Bucket /\ home[ListHead[q]] = q
             /\ \A c \in Bucket : home[c] = q => rank[c] <= rank[ListHead[q]]
    BY DEF Lists, Listed, NULL
  <2> QED
    BY <2>1
<1>2. CASE ListHead[r] = NULL /\ \A c \in Bucket : home[c] # r
  BY <1>2, BucketsFromAre
<1>3. CASE /\ ListHead[r] \in Bucket /\ home[ListHead[r]] = r
           /\ \A c \in Bucket : home[c] = r => rank[c] <= rank[ListHead[r]]
  <2>1. BucketsFrom(ListHead[r]) =
          {c \in Bucket : home[c] = home[ListHead[r]] /\ rank[c] <= rank[ListHead[r]]}
    BY <1>3, BucketsFromAre
  <2> QED
    BY <1>3, <2>1
<1> QED
  BY <1>1, <1>2, <1>3

(* The heads of the lists, by the numbers the lists have. *)
LEMMA HeadsAre ==
  ASSUME Typed
  PROVE  /\ DOMAIN slots \subseteq Nat
         /\ \A i \in DOMAIN slots : ListHead[i] = slots[i]
         /\ ListHead[FreeList] = free
         /\ growth.moving => ListHead[MovingList] = growth.bucket
         /\ \A i : Waiting(i) => i \in Nat /\ ListHead[OldList(i)] = growth.old[i]
<1>1. DOMAIN slots = 0 .. Capacity - 1 /\ Capacity \in Nat \ {0}
  BY MapAssumption DEF Typed, Capacity
<1>2. \A i : Waiting(i) => i \in Nat
  <2> TAKE i
  <2> HAVE Waiting(i)
  <2>1. growth.moving /\ i \in DOMAIN growth.old
    BY DEF Waiting
  <2>2. DOMAIN growth.old = 0 .. Capacities[capacityIndex - 1] - 1
    BY <2>1 DEF Typed, Growing
  <2> QED
    BY <2>1, <2>2
<1>3. ASSUME NEW i, Waiting(i)
      PROVE  i \in Nat /\ ListHead[OldList(i)] = growth.old[i]
  <2>1. i \in Nat
    BY <1>2, <1>3
  <2>2. OldList(i) \in Int /\ OldList(i) < -2 /\ -3 - OldList(i) = i
    BY <2>1 DEF OldList
  <2>3. OldList(i) \notin DOMAIN slots /\ OldList(i) # FreeList /\ OldList(i) # MovingList
    BY <1>1, <2>2 DEF FreeList, MovingList
  <2> QED
    BY <1>3, <2>1, <2>2, <2>3 DEF ListHead
<1>4. FreeList \in Int /\ MovingList \in Int /\ FreeList # MovingList
      /\ FreeList \notin DOMAIN slots /\ MovingList \notin DOMAIN slots
  BY <1>1 DEF FreeList, MovingList
<1>5. \A i \in DOMAIN slots : ListHead[i] = slots[i]
  BY <1>1 DEF ListHead
<1>6. ListHead[FreeList] = free
  BY <1>4 DEF ListHead
<1>7. growth.moving => ListHead[MovingList] = growth.bucket
  BY <1>4 DEF ListHead
<1> QED
  BY <1>1, <1>3, <1>5, <1>6, <1>7

(* The buckets of chains are those in no list but that of removed ones. *)
LEMMA HeldAre ==
  ASSUME Typed, NEW home, NEW rank, NEW bound, Lists(home, rank, bound)
  PROVE  Held = HeldAt(home)
<1> DEFINE Firsts == {slots[i] : i \in DOMAIN slots} \cup OldChains
<1>1. ASSUME NEW b \in Firsts
      PROVE  BucketsFrom(b) \subseteq HeldAt(home)
  <2>1. \E r \in Int : r # FreeList /\ ListHead[r] = b
    <3>1. CASE b \in {slots[i] : i \in DOMAIN slots}
      BY <3>1, HeadsAre DEF FreeList
    <3>2. CASE b \in OldChains
      <4>1. growth.moving
        BY <3>2 DEF OldChains
      <4>2. CASE b = growth.bucket
        BY <4>1, <4>2, HeadsAre DEF FreeList, MovingList
      <4>3. CASE b # growth.bucket
        <5>1. PICK i \in DOMAIN growth.old : i > growth.index /\ b = growth.old[i]
          BY <3>2, <4>1, <4>3 DEF OldChains
        <5>2. Waiting(i)
          BY <4>1, <5>1 DEF Waiting
        <5>3. i \in Nat /\ ListHead[OldList(i)] = b
          BY <5>1, <5>2, HeadsAre
        <5>4. OldList(i) \in Int /\ OldList(i) # FreeList
          BY <5>3 DEF OldList, FreeList
        <5> QED
          BY <5>3, <5>4
      <4> QED
        BY <4>2, <4>3
    <3> QED
      BY <1>1, <3>1, <3>2
  <2>2. PICK r \in Int : r # FreeList /\ ListHead[r] = b
    BY <2>1
  <2>3. BucketsFrom(b) = {c \in Bucket : home[c] = r}
    BY <2>2, ListIs
  <2> QED
    BY <2>2, <2>3 DEF HeldAt
<1>2. ASSUME NEW c \in HeldAt(home)
      PROVE  \E b \in Firsts : c \in BucketsFrom(b)
  <2>1. PICK r \in Int : r = home[c]
    BY DEF Lists, Listed, HeldAt
  <2>2. c \in BucketsFrom(ListHead[r])
    BY <2>1, ListIs DEF HeldAt
  <2>3. ListHead[r] # NULL
    BY <2>2, BucketsFromAre
  <2>4. r # FreeList
    BY <2>1 DEF HeldAt
  <2>5. ListHead[r] \in Firsts
    <3>1. CASE r \in DOMAIN slots
      BY <3>1, HeadsAre
    <3>2. CASE r \notin DOMAIN slots /\ r = MovingList /\ growth.moving
      BY <3>2, HeadsAre DEF OldChains
    <3>3. CASE r \notin DOMAIN slots /\ ~(r = MovingList /\ growth.moving)
      <4>1. Waiting(-3 - r) /\ ListHead[r] = growth.old[-3 - r]
        BY <2>3, <2>4, <3>3 DEF ListHead
      <4> QED
        BY <4>1 DEF OldChains, Waiting
    <3> QED
      BY <3>1, <3>2, <3>3
  <2> QED
    BY <2>2, <2>5
<1> QED
  BY <1>1, <1>2 DEF Held

(* The walk over the chain of a slot finds the key if the map holds it. *)
LEMMA FindIs ==
  ASSUME Typed, NEW home, NEW rank, NEW bound, Lists(home, rank, bound), Placed(home),
         Ready, NEW k \in Keys
  PROVE  \/ Find(k) = NULL /\ \A b \in HeldAt(home) : key[b] # k
         \/ Find(k) \in HeldAt(home) /\ key[Find(k)] = k
<1> DEFINE found == {b \in BucketsFrom(slots[k % Capacity]) : key[b] = k}
<1>1. k % Capacity \in DOMAIN slots /\ k % Capacity \in Int
  BY SlotOfKey
<1>2. BucketsFrom(slots[k % Capacity]) = {c \in Bucket : home[c] = k % Capacity}
  BY <1>1, ListIs, HeadsAre
<1>3. found \subseteq HeldAt(home)
  BY <1>1, <1>2, HeadsAre DEF HeldAt, FreeList
<1>4. ASSUME NEW b \in HeldAt(home), key[b] = k
      PROVE  b \in found
  <2>1. home[b] \in DOMAIN slots
    <3>1. PICK r \in Int : r = home[b]
      BY DEF Lists, Listed, HeldAt
    <3>2. b \in BucketsFrom(ListHead[r])
      BY <3>1, ListIs DEF HeldAt
    <3>3. ListHead[r] # NULL
      BY <3>2, BucketsFromAre
    <3> QED
      BY <3>1, <3>3 DEF ListHead, Ready, HeldAt, Waiting
  <2>2. home[b] = k % Capacity
    BY <1>4, <2>1 DEF Placed, HeldAt
  <2> QED
    BY <1>2, <1>4, <2>2 DEF HeldAt
<1>5. Find(k) = IF found = {} THEN NULL ELSE CHOOSE b \in found : TRUE
  BY DEF Find
<1> QED
  BY <1>3, <1>4, <1>5
-----------------------------------------------------------------------------

(* Pointers lead to buckets of the pool. *)
LEMMA PointersLead ==
  ASSUME Typed, NEW home, NEW rank, NEW bound, Lists(home, rank, bound)
  PROVE  /\ Bucket \subseteq Nat \ {0} /\ DOMAIN key = Bucket /\ DOMAIN link = Bucket
         /\ Len(key) \in Nat
         /\ \A r \in Int : ListHead[r] \in Bucket \cup {NULL}
         /\ \A b \in Bucket : link[b] \in Bucket \cup {NULL}
         /\ free \in Bucket \cup {NULL}
         /\ \A i \in DOMAIN slots : slots[i] \in Bucket \cup {NULL}
<1>1. /\ Bucket \subseteq Nat \ {0} /\ DOMAIN key = Bucket /\ DOMAIN link = Bucket
      /\ Len(key) \in Nat
  BY DEF Typed, Bucket
<1>2. \A r \in Int : ListHead[r] \in Bucket \cup {NULL}
  BY ListIs
<1>3. \A b \in Bucket : link[b] \in Bucket \cup {NULL}
  BY DEF Lists, Listed, NULL
<1>4. free \in Bucket \cup {NULL}
  BY <1>2, HeadsAre DEF FreeList
<1>5. \A i \in DOMAIN slots : slots[i] \in Bucket \cup {NULL}
  BY <1>2, HeadsAre
<1> QED
  BY <1>1, <1>2, <1>3, <1>4, <1>5

\* Bucket b now holds k as the first of its chain, and all else is as it was.
LinkedAt(b, k, home, rank, home2, rank2, bound2) ==
  /\ b \in Nat \ {0}
  /\ Listed(Bucket', link', ListHead', home2, rank2, bound2)
  /\ Bucket' = Bucket \cup {b} /\ b \notin HeldAt(home)
  /\ key'[b] = k /\ home2[b] = k % Capacity /\ answer' = Answer(k, b, TRUE)
  /\ \A c \in Bucket \ {b} : home2[c] = home[c] /\ rank2[c] = rank[c] /\ key'[c] = key[c]

(* What a call to ketl_int_map_get_or_create for a new key does to the lists. *)
LEMMA LinkLists ==
  ASSUME Typed, NEW home, NEW rank, NEW bound, Lists(home, rank, bound),
         NEW k \in Keys, Link(k), capacityIndex' = capacityIndex, ~growth'.moving,
         \A r \in Int : r \notin DOMAIN slots /\ r # FreeList => ListHead[r] = NULL
  PROVE  /\ key' \in Seq(Keys) /\ link' \in Seq(Nat) /\ Len(link') = Len(key')
         /\ slots' \in [0 .. Capacity - 1 -> Nat] /\ free' \in Nat
         /\ \E b, home2, rank2, bound2 :
              LinkedAt(b, k, home, rank, home2, rank2, bound2)
<1> DEFINE i == k % Capacity
<1>1. /\ i \in DOMAIN slots /\ i \in Int /\ i # FreeList /\ Capacity \in Nat \ {0}
      /\ DOMAIN slots = 0 .. Capacity - 1
  BY SlotOfKey DEF FreeList
<1>2. /\ Bucket \subseteq Nat \ {0} /\ DOMAIN key = Bucket /\ DOMAIN link = Bucket
      /\ Len(key) \in Nat /\ Len(link) = Len(key)
      /\ free \in Bucket \cup {NULL} /\ slots[i] \in Bucket \cup {NULL} /\ slots[i] \in Nat
  BY <1>1, PointersLead DEF Typed
<1>3. /\ ListHead[i] = slots[i] /\ ListHead[FreeList] = free /\ FreeList \in Int
      /\ FreeList \notin DOMAIN slots
  BY <1>1, HeadsAre DEF FreeList
<1> HIDE DEF i
<1>4. \A b : slots' = [slots EXCEPT ![i] = b] =>
        /\ ListHead'[i] = b /\ ListHead'[FreeList] = free'
        /\ \A r \in Int : r # i /\ r # FreeList => ListHead'[r] = ListHead[r]
  <2> TAKE b
  <2> HAVE slots' = [slots EXCEPT ![i] = b]
  <2>1. DOMAIN slots' = DOMAIN slots /\ slots'[i] = b
        /\ \A r \in DOMAIN slots : r # i => slots'[r] = slots[r]
    BY <1>1 DEF Typed
  <2>2. \A r : ~Waiting(r)'
    BY DEF Waiting
  <2>3. ListHead' = [r \in Int |->
                      IF r \in DOMAIN slots THEN slots'[r]
                      ELSE IF r = FreeList THEN free' ELSE NULL]
    BY <2>1, <2>2 DEF ListHead
  <2>4. ASSUME NEW r \in Int, r # i, r # FreeList
        PROVE  ListHead'[r] = ListHead[r]
    <3>1. CASE r \in DOMAIN slots
      BY <2>1, <2>3, <2>4, <3>1, HeadsAre
    <3>2. CASE r \notin DOMAIN slots
      BY <2>3, <2>4, <3>2
    <3> QED
      BY <3>1, <3>2
  <2> QED
    BY <1>1, <1>3, <2>1, <2>3, <2>4
<1>5. Listed(Bucket, link, ListHead, home, rank, bound)
  BY DEF Lists
<1>6. CASE free = NULL
  <2>1. PICK b \in Nat \ {0} : b = Len(key) + 1
    BY <1>2
  <2>2. /\ key' = Append(key, k) /\ link' = Append(link, slots[i]) /\ free' = free
        /\ slots' = [slots EXCEPT ![i] = b] /\ answer' = Answer(k, b, TRUE)
    BY <1>6, <2>1 DEF Link, i
  <2>3. /\ key' \in Seq(Keys) /\ Len(key') = Len(key) + 1 /\ key'[b] = k
        /\ \A c \in Bucket : key'[c] = key[c]
    BY <1>2, <2>1, <2>2 DEF Typed, Bucket
  <2>4. /\ link' \in Seq(Nat) /\ Len(link') = Len(key) + 1 /\ link'[b] = slots[i]
        /\ \A c \in Bucket : link'[c] = link[c]
    BY <1>2, <2>1, <2>2 DEF Typed, Bucket
  <2>5. Bucket' = Bucket \cup {b} /\ b \notin Bucket
    BY <1>2, <2>1, <2>3 DEF Bucket
  <2>6. PICK home2 : home2 = [c \in Bucket \cup {b} |-> IF c = b THEN i ELSE home[c]]
    OBVIOUS
  <2>7. PICK rank2 : rank2 = [c \in Bucket \cup {b} |-> IF c = b THEN bound ELSE rank[c]]
    OBVIOUS
  <2>8. home2[b] = i /\ \A c \in Bucket : home2[c] = home[c]
    BY <2>5, <2>6
  <2>9. rank2[b] = bound /\ \A c \in Bucket : rank2[c] = rank[c]
    BY <2>5, <2>7
  <2>10. /\ ListHead'[i] = b /\ \A q \in Int : q # i => ListHead'[q] = ListHead[q]
    BY <1>3, <1>4, <2>2
  <2>11. link'[b] = ListHead[i]
    BY <1>3, <2>4
  <2>12. Listed(Bucket \cup {b}, link', ListHead', home2, rank2, bound + 1)
    <3> DEFINE L == link'
               H == ListHead'
    <3>1. L[b] = ListHead[i] /\ \A c \in Bucket : L[c] = link[c]
      BY <2>4, <2>11
    <3>2. H[i] = b /\ \A q \in Int : i # q => H[q] = ListHead[q]
      BY <2>10
    <3> HIDE DEF L, H
    <3>3. Push(Bucket, link, ListHead, home, rank, bound, b, i, L, H, home2, rank2)
      BY <1>1, <1>2, <2>5, <2>8, <2>9, <3>1, <3>2 DEF Push
    <3>4. Listed(Bucket \cup {b}, L, H, home2, rank2, bound + 1)
      BY <1>5, <3>3, Pushed
    <3> QED
      BY <3>4 DEF L, H
  <2>13. Listed(Bucket', link', ListHead', home2, rank2, bound + 1)
    BY <2>5, <2>12
  <2>14. b \notin HeldAt(home)
    BY <2>5 DEF HeldAt
  <2>15. slots' \in [0 .. Capacity - 1 -> Nat] /\ free' \in Nat
    BY <1>2, <2>2 DEF Typed
  <2> QED
    <3>1. LinkedAt(b, k, home, rank, home2, rank2, bound + 1)
      BY <2>2, <2>3, <2>5, <2>8, <2>9, <2>13, <2>14 DEF LinkedAt, i
    <3> QED
      BY <2>3, <2>4, <2>15, <3>1
<1>7. CASE free # NULL
  <2>1. PICK b \in Nat \ {0} : b = free
    BY <1>2, <1>7 DEF NULL
  <2>2. /\ key' = [key EXCEPT ![b] = k] /\ link' = [link EXCEPT ![b] = slots[i]]
        /\ free' = link[b]
        /\ slots' = [slots EXCEPT ![i] = b] /\ answer' = Answer(k, b, TRUE)
    BY <1>7, <2>1 DEF Link, i
  <2>3. b \in Bucket
    BY <1>2, <1>7, <2>1
  <2>4. /\ key' \in Seq(Keys) /\ Len(key') = Len(key) /\ key'[b] = k
        /\ \A c \in Bucket \ {b} : key'[c] = key[c]
    BY <1>2, <2>2, <2>3 DEF Typed, Bucket
  <2>5. /\ link' \in Seq(Nat) /\ Len(link') = Len(key) /\ link'[b] = slots[i]
        /\ \A c \in Bucket \ {b} : link'[c] = link[c]
    BY <1>2, <2>2, <2>3 DEF Typed, Bucket
  <2>6. Bucket' = Bucket /\ (Bucket \ {b}) \cup {b} = Bucket
    BY <2>3, <2>4 DEF Bucket
  <2>7. home[b] = FreeList
    BY <1>3, <1>7, <2>1, ListIs
  <2>8. PICK home2 : home2 = [c \in Bucket |-> IF c = b THEN i ELSE home[c]]
    OBVIOUS
  <2>9. PICK rank2 : rank2 = [c \in Bucket |-> IF c = b THEN bound ELSE rank[c]]
    OBVIOUS
  <2>10. home2[b] = i /\ \A c \in Bucket \ {b} : home2[c] = home[c]
    BY <2>3, <2>8
  <2>11. rank2[b] = bound /\ \A c \in Bucket \ {b} : rank2[c] = rank[c]
    BY <2>3, <2>9
  <2>12. PICK head : head = [ListHead EXCEPT ![FreeList] = link[b]]
    OBVIOUS
  <2>13. DOMAIN ListHead = Int
    BY DEF ListHead
  <2>14. head[FreeList] = link[b] /\ \A q \in Int : FreeList # q => head[q] = ListHead[q]
    BY <1>3, <2>12, <2>13
  <2>15. ListHead[FreeList] = b
    BY <1>3, <2>1
  <2>16. Listed(Bucket \ {b}, link, head, home, rank, bound)
    <3>1. TakeFirst(Bucket, link, ListHead, b, FreeList, head)
      BY <1>2, <1>3, <2>3, <2>14, <2>15 DEF TakeFirst
    <3> QED
      BY <1>5, <3>1, FirstTaken
  <2>17. Listed(Bucket, link', ListHead', home2, rank2, bound + 1)
    <3> DEFINE L == link'
               H == ListHead'
               B == Bucket \ {b}
    <3>1. L[b] = head[i] /\ \A c \in B : L[c] = link[c]
      BY <1>1, <1>3, <2>5, <2>14
    <3>2. H[i] = b /\ \A q \in Int : i # q => H[q] = head[q]
      BY <1>3, <1>4, <2>2, <2>14
    <3>3. /\ B \in SUBSET (Nat \ {0}) /\ b \notin B /\ B \cup {b} = Bucket
          /\ Listed(B, link, head, home, rank, bound)
          /\ \A c \in B : home2[c] = home[c]
          /\ \A c \in B : rank2[c] = rank[c]
      BY <1>2, <2>6, <2>10, <2>11, <2>16
    <3> HIDE DEF L, H, B
    <3>4. Push(B, link, head, home, rank, bound, b, i, L, H, home2, rank2)
      BY <1>1, <2>10, <2>11, <3>1, <3>2, <3>3 DEF Push
    <3>5. Listed(B \cup {b}, L, H, home2, rank2, bound + 1)
      BY <3>3, <3>4, Pushed
    <3> QED
      BY <3>3, <3>5 DEF L, H
  <2>18. Listed(Bucket', link', ListHead', home2, rank2, bound + 1)
    BY <2>6, <2>17
  <2>19. b \notin HeldAt(home)
    BY <2>7 DEF HeldAt
  <2>20. slots' \in [0 .. Capacity - 1 -> Nat] /\ free' \in Nat
    <3>1. link[b] \in Nat
      BY <1>2, <2>3 DEF Typed, Bucket
    <3> QED
      BY <2>2, <3>1 DEF Typed
  <2> QED
    <3>1. LinkedAt(b, k, home, rank, home2, rank2, bound + 1)
      BY <2>2, <2>4, <2>6, <2>10, <2>11, <2>18, <2>19 DEF LinkedAt, i
    <3> QED
      BY <2>4, <2>5, <2>20, <3>1
<1> QED
  BY <1>6, <1>7
(* The new key is placed and counted. *)
LEMMA LinkPlaces ==
  ASSUME Typed, NEW home, NEW rank, NEW bound, Lists(home, rank, bound),
         Placed(home), Counted(home), NEW k \in Keys,
         \A c \in HeldAt(home) : key[c] # k,
         NEW b, NEW home2, NEW rank2, NEW bound2,
         LinkedAt(b, k, home, rank, home2, rank2, bound2),
         capacityIndex' = capacityIndex, DOMAIN slots' = DOMAIN slots, ~growth'.moving,
         iterator.bucket = NULL, iterator' = iterator, refused' = refused,
         size' = size + 1 - Pending, size' <= Capacity \/ refused
  PROVE  /\ HeldAt(home2)' = HeldAt(home) \cup {b}
         /\ Placed(home2)' /\ Counted(home2)'
<1>1. /\ Bucket' = Bucket \cup {b} /\ b \notin HeldAt(home)
      /\ key'[b] = k /\ home2[b] = k % Capacity
      /\ \A c \in Bucket \ {b} : home2[c] = home[c] /\ key'[c] = key[c]
  BY DEF LinkedAt
<1>2. /\ k % Capacity \in DOMAIN slots /\ k % Capacity # FreeList
      /\ Capacity' = Capacity
  BY SlotOfKey DEF FreeList, Capacity
<1>3. HeldAt(home2)' = HeldAt(home) \cup {b}
  <2>1. HeldAt(home2)' = {c \in Bucket \cup {b} : home2[c] # FreeList}
    BY <1>1 DEF HeldAt, FreeList
  <2>2. \A c \in Bucket \ {b} : home2[c] # FreeList <=> c \in HeldAt(home)
    BY <1>1 DEF HeldAt
  <2>3. home2[b] # FreeList
    BY <1>1, <1>2
  <2>4. HeldAt(home) \subseteq Bucket \ {b}
    BY <1>1 DEF HeldAt
  <2> QED
    BY <2>1, <2>2, <2>3, <2>4
<1>4. Placed(home2)'
  <2>1. \A c \in Bucket' : home2[c] \in DOMAIN slots => key'[c] % Capacity = home2[c]
    <3> TAKE c \in Bucket'
    <3>1. CASE c = b
      BY <1>1, <3>1
    <3>2. CASE c # b
      <4>1. c \in Bucket \ {b}
        BY <1>1, <3>2
      <4> QED
        BY <1>1, <4>1 DEF Placed
    <3> QED
      BY <3>1, <3>2
  <2>2. \A a, c \in HeldAt(home) \cup {b} : key'[a] = key'[c] => a = c
    <3>1. \A c \in HeldAt(home) : key'[c] = key[c]
      BY <1>1 DEF HeldAt
    <3> QED
      BY <1>1, <3>1 DEF Placed
  <2> QED
    BY <1>2, <1>3, <2>1, <2>2 DEF Placed
<1>5. Counted(home2)'
  <2>1. IsFiniteSet(HeldAt(home)) /\ Cardinality(HeldAt(home)) \in Nat
    BY FS_CardinalityType DEF Counted
  <2>2. /\ IsFiniteSet(HeldAt(home) \cup {b})
        /\ Cardinality(HeldAt(home) \cup {b}) = Cardinality(HeldAt(home)) + 1
    BY <1>1, <2>1, FS_AddElement
  <2>3. Pending' = 0 /\ Pending \in Nat /\ size \in Nat
    BY DEF Pending, Typed
  <2>4. /\ IsFiniteSet(HeldAt(home2)')
        /\ Cardinality(HeldAt(home2)') = Cardinality(HeldAt(home)) + 1
    BY <1>3, <2>2
  <2>5. Cardinality(HeldAt(home2)') + Pending' <= size'
    BY <2>1, <2>3, <2>4 DEF Counted
  <2>6. ~refused => Cardinality(HeldAt(home2)') + Pending' = size' /\ size' <= Capacity
    BY <2>1, <2>3, <2>4 DEF Counted
  <2> QED
    BY <1>2, <2>4, <2>5, <2>6 DEF Counted
<1> QED
  BY <1>3, <1>4, <1>5

(* GetOrCreateLinks and FinishGrowth enter a key that the map does not hold. *)
LEMMA Links ==
  ASSUME Typed, NEW home, NEW rank, NEW bound, Lists(home, rank, bound),
         Placed(home), Counted(home), NEW k \in Keys,
         GetOrCreateLinks(k) \/ (FinishGrowth /\ k = growth.key)
  PROVE  /\ Typed'
         /\ \A c \in HeldAt(home) : key[c] # k
         /\ iterator.bucket = NULL /\ iterator' = iterator /\ refused' = refused
         /\ \E b, home2, rank2, bound2 :
              /\ LinkedAt(b, k, home, rank, home2, rank2, bound2)
              /\ HeldAt(home2)' = HeldAt(home) \cup {b}
              /\ Placed(home2)' /\ Counted(home2)'
<1>1. /\ Link(k) /\ capacityIndex' = capacityIndex /\ iterator' = iterator /\ refused' = refused
      /\ iterator.bucket = NULL
  BY DEF GetOrCreateLinks, FinishGrowth, MayCreate, Ready, Typed, Growing
<1>2. \A c \in HeldAt(home) : key[c] # k
  <2>1. CASE GetOrCreateLinks(k)
    <3>1. Ready /\ Find(k) = NULL
      BY <2>1 DEF GetOrCreateLinks, MayCreate
    <3>2. NULL \notin HeldAt(home)
      BY DEF HeldAt, Bucket, NULL
    <3> QED
      BY <3>1, <3>2, FindIs
  <2>2. CASE FinishGrowth /\ k = growth.key
    BY <2>2 DEF FinishGrowth, Placed
  <2> QED
    BY <2>1, <2>2
<1>3. /\ growth' = [moving |-> growth'.moving, old |-> growth'.old, index |-> growth'.index,
                    bucket |-> growth'.bucket, key |-> growth'.key]
      /\ growth'.moving \in BOOLEAN /\ ~growth'.moving /\ growth'.bucket = NULL
  <2>1. CASE GetOrCreateLinks(k)
    BY <2>1 DEF GetOrCreateLinks, MayCreate, Ready, Typed
  <2>2. CASE FinishGrowth
    BY <2>2 DEF FinishGrowth, NoGrowth
  <2> QED
    BY <2>1, <2>2
<1>4. ASSUME NEW r \in Int, r \notin DOMAIN slots, r # FreeList
      PROVE  ListHead[r] = NULL
  <2>1. CASE GetOrCreateLinks(k)
    BY <1>4, <2>1 DEF GetOrCreateLinks, MayCreate, Ready, ListHead, Waiting
  <2>2. CASE FinishGrowth
    <3>1. growth.moving /\ growth.bucket = NULL /\ growth.index + 1 \notin DOMAIN growth.old
      BY <2>2 DEF FinishGrowth
    <3>2. \A i : ~Waiting(i)
      <4> DEFINE c == Capacities[capacityIndex - 1]
      <4>1. capacityIndex - 1 \in DOMAIN Capacities /\ growth.old \in [0 .. c - 1 -> Nat]
            /\ growth.index \in DOMAIN growth.old
        BY <3>1 DEF Typed, Growing
      <4>2. c \in Nat
        BY <4>1, MapAssumption
      <4> HIDE DEF c
      <4>3. growth.index + 1 > c - 1 /\ growth.index \in Nat
        BY <3>1, <4>1, <4>2
      <4> QED
        BY <4>1, <4>2, <4>3 DEF Waiting
    <3> QED
      BY <1>4, <3>1, <3>2 DEF ListHead
  <2> QED
    BY <2>1, <2>2
<1>5. /\ key' \in Seq(Keys) /\ link' \in Seq(Nat) /\ Len(link') = Len(key')
      /\ slots' \in [0 .. Capacity - 1 -> Nat] /\ free' \in Nat
      /\ \E b, home2, rank2, bound2 :
           LinkedAt(b, k, home, rank, home2, rank2, bound2)
  BY <1>1, <1>3, <1>4, LinkLists
<1>6. /\ size' = size + 1 - Pending /\ size' \in 0 .. MaxSize
      /\ size' <= Capacity \/ refused
  <2>1. size \in 0 .. MaxSize /\ MaxSize \in Nat
    BY MapAssumption DEF Typed
  <2>2. CASE GetOrCreateLinks(k)
    BY <2>1, <2>2 DEF GetOrCreateLinks, MayCreate, Ready, Pending
  <2>3. CASE FinishGrowth
    BY <2>1, <2>3 DEF FinishGrowth, Pending, Counted
  <2> QED
    BY <2>2, <2>3
<1>7. PICK b, home2, rank2, bound2 :
        LinkedAt(b, k, home, rank, home2, rank2, bound2)
  BY <1>5
<1>8. DOMAIN slots' = DOMAIN slots
  BY <1>5 DEF Typed
<1>9. /\ HeldAt(home2)' = HeldAt(home) \cup {b}
      /\ Placed(home2)' /\ Counted(home2)'
  BY <1>1, <1>2, <1>3, <1>6, <1>7, <1>8, LinkPlaces
<1>10. Typed'
  <2>1. answer' \in [key : Keys, address : Nat, new : BOOLEAN]
    BY <1>7 DEF LinkedAt, Answer
  <2>2. Capacity' = Capacity
    BY <1>1 DEF Capacity
  <2> QED
    BY <1>1, <1>3, <1>5, <1>6, <1>8, <2>1, <2>2 DEF Typed
<1> QED
  BY <1>1, <1>2, <1>7, <1>9, <1>10
-----------------------------------------------------------------------------

(* Between calls a bucket is in the chain of a slot or waits for a new key. *)
LEMMA HomesWhenReady ==
  ASSUME Typed, NEW home, NEW rank, NEW bound, Lists(home, rank, bound), Ready, NEW c \in Bucket
  PROVE  home[c] \in DOMAIN slots \cup {FreeList}
<1>1. PICK r \in Int : r = home[c]
  BY DEF Lists, Listed
<1>2. c \in BucketsFrom(ListHead[r])
  BY <1>1, ListIs
<1>3. ListHead[r] # NULL
  BY <1>2, BucketsFromAre
<1> QED
  BY <1>1, <1>3 DEF ListHead, Ready, Waiting

\* Buckets have changed lists, and all keys are still in the map.
Moved(home, home2, rank2, bound2) ==
  /\ Listed(Bucket', link', ListHead', home2, rank2, bound2)
  /\ key' = key
  /\ \A c \in Bucket : home2[c] # FreeList <=> home[c] # FreeList

(* A move of buckets between lists moves none into or out of the map. *)
LEMMA MovedHeld ==
  ASSUME NEW home, NEW home2, NEW rank2, NEW bound2, Moved(home, home2, rank2, bound2)
  PROVE  Bucket' = Bucket /\ HeldAt(home2)' = HeldAt(home)
<1>1. Bucket' = Bucket
  BY DEF Moved, Bucket
<1>2. HeldAt(home2)' = {c \in Bucket' : home2[c] # FreeList}
  BY DEF HeldAt, FreeList
<1>3. HeldAt(home) = {c \in Bucket : home[c] # FreeList}
  BY DEF HeldAt
<1>4. \A c \in Bucket : home2[c] # FreeList <=> home[c] # FreeList
  BY DEF Moved
<1> QED
  BY <1>1, <1>2, <1>3, <1>4

(* The growth begins: the chains wait under other numbers. *)
LEMMA Grows ==
  ASSUME Typed, NEW home, NEW rank, NEW bound, Lists(home, rank, bound),
         Placed(home), Counted(home), NEW k \in Keys, GetOrCreateGrows(k)
  PROVE  /\ Typed'
         /\ iterator.bucket = NULL /\ iterator' = iterator /\ refused' = refused
         /\ answer' = answer
         /\ \E home2 :
              /\ Moved(home, home2, rank, bound)
              /\ Placed(home2)' /\ Counted(home2)'
<1>1. /\ Ready /\ iterator.bucket = NULL /\ Find(k) = NULL /\ size < MaxSize
      /\ size + 1 > Capacity /\ capacityIndex < Len(Capacities) /\ size' = size + 1
      /\ capacityIndex' = capacityIndex + 1
      /\ slots' = EmptySlots(Capacities[capacityIndex'])
      /\ growth' = [moving |-> TRUE, old |-> slots, index |-> 0,
                    bucket |-> slots[0], key |-> k]
      /\ UNCHANGED <<key, link, free, iterator, answer, refused>>
  BY DEF GetOrCreateGrows, MayCreate
<1>2. /\ Capacity \in Nat \ {0} /\ DOMAIN slots = 0 .. Capacity - 1
      /\ slots \in [DOMAIN slots -> Nat] /\ 0 \in DOMAIN slots
  BY SlotOfKey DEF Typed
<1>3. /\ Capacity' \in Nat /\ Capacity < Capacity' /\ capacityIndex' \in DOMAIN Capacities
      /\ slots' = [i \in 0 .. Capacity' - 1 |-> NULL]
      /\ DOMAIN slots' = 0 .. Capacity' - 1
  <2>1. capacityIndex' \in DOMAIN Capacities /\ capacityIndex < capacityIndex'
    <3>1. Capacities \in Seq(Nat \ {0})
      BY MapAssumption
    <3>2. capacityIndex \in DOMAIN Capacities
      BY DEF Typed
    <3> QED
      BY <1>1, <3>1, <3>2
  <2>2. Capacity' = Capacities[capacityIndex']
    BY DEF Capacity
  <2>3. Capacity' \in Nat /\ Capacity < Capacity'
    BY <2>1, <2>2, MapAssumption DEF Typed, Capacity
  <2> QED
    BY <1>1, <2>1, <2>2, <2>3 DEF EmptySlots
<1>4. \A c \in HeldAt(home) : key[c] # k
  <2>1. NULL \notin HeldAt(home)
    BY DEF HeldAt, Bucket, NULL
  <2> QED
    BY <1>1, <2>1, FindIs
<1> DEFINE D == DOMAIN slots \cup {FreeList}
<1>5. PICK number : number = [r \in D |-> IF r = FreeList THEN FreeList
                                          ELSE IF r = 0 THEN MovingList ELSE OldList(r)]
  OBVIOUS
<1>6. PICK home2 : home2 = [c \in Bucket |-> number[home[c]]]
  OBVIOUS
<1>7. /\ number[FreeList] = FreeList /\ number[0] = MovingList
      /\ \A i \in DOMAIN slots : i # 0 => number[i] = OldList(i) /\ OldList(i) < -3
      /\ \A r \in D : number[r] \in Int /\ number[r] < 0
  BY <1>2, <1>5 DEF FreeList, MovingList, OldList
<1>8. \A q, r \in D : number[q] = number[r] => q = r
  BY <1>2, <1>5 DEF FreeList, MovingList, OldList
<1>9. /\ \A q \in DOMAIN slots' : ListHead'[q] = NULL
      /\ ListHead'[FreeList] = free
      /\ ListHead'[MovingList] = slots[0]
      /\ \A i \in DOMAIN slots : i # 0 => ListHead'[OldList(i)] = slots[i]
      /\ \A q \in Int : /\ q \notin DOMAIN slots' /\ q # FreeList /\ q # MovingList
                        /\ -3 - q \notin DOMAIN slots \/ -3 - q = 0
                        => ListHead'[q] = NULL
  <2>1. \A i : Waiting(i)' <=> i \in DOMAIN slots /\ i > 0
    BY <1>1 DEF Waiting
  <2>2. growth'.moving /\ growth'.bucket = slots[0] /\ growth'.old = slots /\ free' = free
    BY <1>1
  <2>3. ListHead' =
          [r \in Int |->
             IF r \in 0 .. Capacity' - 1 THEN NULL
             ELSE IF r = FreeList THEN free
             ELSE IF r = MovingList THEN slots[0]
             ELSE IF -3 - r \in DOMAIN slots /\ -3 - r > 0 THEN slots[-3 - r]
             ELSE NULL]
    BY <1>3, <2>1, <2>2 DEF ListHead
  <2>4. \A q \in DOMAIN slots' : ListHead'[q] = NULL
    BY <1>3, <2>3
  <2>5. ListHead'[FreeList] = free
    BY <1>3, <2>3 DEF FreeList
  <2>6. ListHead'[MovingList] = slots[0]
    BY <1>3, <2>3 DEF FreeList, MovingList
  <2>7. ASSUME NEW i \in DOMAIN slots, i # 0
        PROVE  ListHead'[OldList(i)] = slots[i]
    <3>1. OldList(i) \in Int /\ OldList(i) < -3 /\ -3 - OldList(i) = i /\ i > 0
      BY <1>2, <2>7 DEF OldList
    <3> QED
      BY <1>3, <2>3, <2>7, <3>1 DEF FreeList, MovingList
  <2>8. ASSUME NEW q \in Int, q \notin DOMAIN slots', q # FreeList, q # MovingList,
               -3 - q \notin DOMAIN slots \/ -3 - q = 0
        PROVE  ListHead'[q] = NULL
    <3>1. ~(-3 - q \in DOMAIN slots /\ -3 - q > 0)
      BY <1>2, <2>8
    <3>2. q \notin 0 .. Capacity' - 1
      BY <1>3, <2>8
    <3> QED
      BY <2>3, <2>8, <3>1, <3>2
  <2> QED
    BY <2>4, <2>5, <2>6, <2>7, <2>8
<1>10. Renumber(Bucket, ListHead, home, D, number, ListHead', home2)
  <2>1. D \subseteq Int
    BY <1>2 DEF FreeList
  <2>2. \A c \in Bucket : home[c] \in D /\ home2[c] = number[home[c]]
    BY <1>1, <1>6, HomesWhenReady
  <2>3. ASSUME NEW r \in D
        PROVE  ListHead'[number[r]] = ListHead[r]
    <3>1. CASE r = FreeList
      BY <1>7, <1>9, <3>1, HeadsAre
    <3>2. CASE r = 0
      BY <1>2, <1>7, <1>9, <3>2, HeadsAre
    <3>3. CASE r \in DOMAIN slots /\ r # 0
      BY <1>7, <1>9, <3>3, HeadsAre
    <3> QED
      BY <3>1, <3>2, <3>3
  <2>4. ASSUME NEW q \in Int, \A r \in D : number[r] # q
        PROVE  ListHead'[q] = NULL
    <3>1. q # FreeList /\ q # MovingList
      BY <1>2, <1>7, <2>4
    <3>2. -3 - q \notin DOMAIN slots \/ -3 - q = 0
      <4>1. ASSUME -3 - q \in DOMAIN slots, -3 - q # 0
            PROVE  FALSE
        <5>1. number[-3 - q] = OldList(-3 - q)
          BY <1>7, <4>1
        <5>2. OldList(-3 - q) = q
          BY DEF OldList
        <5> QED
          BY <2>4, <4>1, <5>1, <5>2
      <4> QED
        BY <4>1
    <3>3. CASE q \in DOMAIN slots'
      BY <1>9, <3>3
    <3>4. CASE q \notin DOMAIN slots'
      BY <1>9, <3>1, <3>2, <3>4
    <3> QED
      BY <3>3, <3>4
  <2> HIDE DEF D
  <2> DEFINE H == ListHead'
  <2>5. \A r \in D : number[r] \in Int /\ H[number[r]] = ListHead[r]
    BY <1>7, <2>3 DEF D
  <2>6. \A q \in Int : (\A r \in D : number[r] # q) => H[q] = 0
    BY <2>4 DEF NULL
  <2> HIDE DEF H
  <2>7. Renumber(Bucket, ListHead, home, D, number, H, home2)
    BY <1>8, <2>1, <2>2, <2>5, <2>6 DEF Renumber, D
  <2> QED
    BY <2>7 DEF H, D
<1>11. Moved(home, home2, rank, bound)
  <2>1. Listed(Bucket, link, ListHead', home2, rank, bound)
    <3>1. Listed(Bucket, link, ListHead, home, rank, bound)
      BY DEF Lists
    <3> HIDE DEF D
    <3> QED
      BY <1>10, <3>1, Renumbered
  <2>2. \A c \in Bucket : home2[c] # FreeList <=> home[c] # FreeList
    <3> TAKE c \in Bucket
    <3>1. home[c] \in D /\ home2[c] = number[home[c]]
      BY <1>1, <1>6, HomesWhenReady
    <3> QED
      BY <1>7, <1>8, <3>1
  <2>3. Bucket' = Bucket
    BY <1>1 DEF Bucket
  <2> QED
    BY <1>1, <2>1, <2>2, <2>3 DEF Moved
<1>12. Bucket' = Bucket /\ HeldAt(home2)' = HeldAt(home)
  BY <1>11, MovedHeld
<1>13. Placed(home2)'
  <2>1. \A c \in Bucket : home2[c] \notin DOMAIN slots'
    <3> TAKE c \in Bucket
    <3>1. home[c] \in D /\ home2[c] = number[home[c]]
      BY <1>1, <1>6, HomesWhenReady
    <3> QED
      BY <1>3, <1>7, <3>1
  <2>2. \A a, c \in HeldAt(home) : key[a] = key[c] => a = c
    BY DEF Placed
  <2>3. growth'.key = k /\ key' = key /\ iterator'.bucket = NULL
    BY <1>1
  <2> QED
    BY <1>4, <1>12, <2>1, <2>2, <2>3 DEF Placed
<1>14. Counted(home2)'
  <2>1. IsFiniteSet(HeldAt(home)) /\ Cardinality(HeldAt(home)) \in Nat
    BY FS_CardinalityType DEF Counted
  <2>2. Pending = 0 /\ Pending' = 1 /\ size \in Nat
    BY <1>1 DEF Pending, Ready, Typed
  <2>3. Cardinality(HeldAt(home)) + 1 <= size'
    BY <1>1, <2>1, <2>2 DEF Counted
  <2>4. ~refused => Cardinality(HeldAt(home)) + 1 = size' /\ size' <= Capacity'
    BY <1>1, <1>2, <1>3, <2>1, <2>2 DEF Counted
  <2> QED
    BY <1>1, <1>12, <2>1, <2>2, <2>3, <2>4 DEF Counted
<1>15. Typed'
  <2>1. size' \in 0 .. MaxSize
    <3>1. size' = size + 1 /\ size < MaxSize
      BY <1>1
    <3>2. size \in 0 .. MaxSize
      BY DEF Typed
    <3>3. MaxSize \in Nat
      BY MapAssumption
    <3> QED
      BY <3>1, <3>2, <3>3
  <2>2. slots' \in [0 .. Capacity' - 1 -> Nat]
    BY <1>3 DEF NULL
  <2>3. iterator' \in [index : DOMAIN slots', bucket : Nat]
    <3>1. DOMAIN slots \subseteq DOMAIN slots'
      BY <1>2, <1>3
    <3> QED
      BY <1>1, <3>1 DEF Typed
  <2>4. Growing'
    <3>1. capacityIndex' - 1 = capacityIndex /\ capacityIndex \in DOMAIN Capacities
      BY <1>1, MapAssumption DEF Typed
    <3>2. growth'.old \in [0 .. Capacities[capacityIndex' - 1] - 1 -> Nat]
      BY <1>1, <3>1 DEF Typed, Capacity
    <3>3. /\ growth'.index \in DOMAIN growth'.old /\ growth'.key \in Keys
          /\ iterator'.bucket = NULL
      BY <1>1, <1>2
    <3> QED
      BY <3>1, <3>2, <3>3 DEF Growing
  <2> QED
    BY <1>1, <1>3, <2>1, <2>2, <2>3, <2>4 DEF Typed
<1> QED
  BY <1>1, <1>11, <1>13, <1>14, <1>15
(* Buckets that moved during the growth are placed and counted. *)
LEMMA MovedPlaces ==
  ASSUME Typed, NEW home, NEW rank, NEW bound, Lists(home, rank, bound),
         Placed(home), Counted(home), growth.moving, growth'.moving, growth'.key = growth.key,
         iterator.bucket = NULL, iterator' = iterator, capacityIndex' = capacityIndex,
         size' = size, refused' = refused, DOMAIN slots' = DOMAIN slots,
         NEW home2, NEW rank2, NEW bound2, Moved(home, home2, rank2, bound2),
         \A c \in Bucket : home2[c] \in DOMAIN slots => key[c] % Capacity = home2[c]
  PROVE  Placed(home2)' /\ Counted(home2)'
<1>1. Bucket' = Bucket /\ HeldAt(home2)' = HeldAt(home) /\ key' = key
  BY MovedHeld DEF Moved
<1>2. Capacity' = Capacity /\ Pending' = Pending
  BY DEF Capacity, Pending
<1>3. Placed(home2)'
  BY <1>1, <1>2 DEF Placed
<1>4. Counted(home2)'
  BY <1>1, <1>2 DEF Counted
<1> QED
  BY <1>3, <1>4

(* The next chain of the old array gets the number of the one being relinked. *)
LEMMA TakesNextChain ==
  ASSUME Typed, NEW home, NEW rank, NEW bound, Lists(home, rank, bound),
         Placed(home), Counted(home), RelinkNextChain
  PROVE  /\ Typed'
         /\ iterator.bucket = NULL /\ iterator' = iterator /\ refused' = refused
         /\ answer' = answer
         /\ \E home2 :
              /\ Moved(home, home2, rank, bound)
              /\ Placed(home2)' /\ Counted(home2)'
<1> DEFINE n == growth.index + 1
           D == Int \ {MovingList}
<1>1. /\ growth.moving /\ growth.bucket = NULL /\ n \in DOMAIN growth.old
      /\ growth' = [growth EXCEPT !.index = n, !.bucket = growth.old[n]]
      /\ UNCHANGED <<capacityIndex, slots, key, link, free, size, iterator, answer, refused>>
  BY DEF RelinkNextChain, table
<1>2. /\ growth'.moving /\ growth'.old = growth.old /\ growth'.index = n
      /\ growth'.bucket = growth.old[n] /\ growth'.key = growth.key
      /\ growth' = [moving |-> growth'.moving, old |-> growth'.old, index |-> growth'.index,
                    bucket |-> growth'.bucket, key |-> growth'.key]
      /\ growth'.moving \in BOOLEAN
  BY <1>1 DEF Typed
<1>3. /\ Growing /\ Growing' /\ iterator.bucket = NULL
      /\ growth.index \in Nat /\ n \in Nat /\ DOMAIN growth.old \subseteq Nat
  <2>1. Growing
    BY <1>1 DEF Typed
  <2>2. DOMAIN growth.old = 0 .. Capacities[capacityIndex - 1] - 1
    BY <2>1 DEF Growing
  <2>3. Growing'
    BY <1>1, <1>2, <2>1 DEF Growing
  <2> QED
    BY <1>1, <2>1, <2>2, <2>3 DEF Growing
<1>4. Waiting(n) /\ \A i : Waiting(i)' <=> Waiting(i) /\ i # n
  BY <1>1, <1>2, <1>3 DEF Waiting
<1> HIDE DEF n
<1>5. /\ OldList(n) \in Int /\ OldList(n) < -2 /\ -3 - OldList(n) = n
      /\ OldList(n) \notin DOMAIN slots
  BY <1>3, SlotOfKey, HeadsAre DEF OldList
<1>6. /\ ListHead'[MovingList] = ListHead[OldList(n)]
      /\ ListHead'[OldList(n)] = NULL
      /\ \A q \in Int : q # MovingList /\ q # OldList(n) => ListHead'[q] = ListHead[q]
  <2>1. ListHead' =
          [r \in Int |->
             IF r \in DOMAIN slots THEN slots[r]
             ELSE IF r = FreeList THEN free
             ELSE IF r = MovingList THEN growth.old[n]
             ELSE IF Waiting(-3 - r) /\ -3 - r # n THEN growth.old[-3 - r]
             ELSE NULL]
    BY <1>1, <1>2, <1>4 DEF ListHead
  <2>2. /\ MovingList \in Int /\ MovingList # FreeList /\ MovingList \notin DOMAIN slots
        /\ OldList(n) # FreeList /\ OldList(n) # MovingList
    BY <1>5, HeadsAre DEF MovingList, FreeList
  <2>3. ListHead'[MovingList] = growth.old[n] /\ ListHead[OldList(n)] = growth.old[n]
    BY <1>4, <2>1, <2>2, HeadsAre
  <2>4. ListHead'[OldList(n)] = NULL
    BY <1>5, <2>1, <2>2
  <2>5. ASSUME NEW q \in Int, q # MovingList, q # OldList(n)
        PROVE  ListHead'[q] = ListHead[q]
    <3>1. -3 - q # n
      BY <1>3, <2>5 DEF OldList
    <3> QED
      BY <1>1, <2>1, <2>5, <3>1 DEF ListHead
  <2> QED
    BY <2>3, <2>4, <2>5
<1>7. PICK number : number = [r \in D |-> IF r = OldList(n) THEN MovingList ELSE r]
  OBVIOUS
<1>8. PICK home2 : home2 = [c \in Bucket |-> number[home[c]]]
  OBVIOUS
<1>9. \A c \in Bucket : home[c] \in D /\ home2[c] = number[home[c]]
  <2> TAKE c \in Bucket
  <2>1. PICK r \in Int : r = home[c]
    BY DEF Lists, Listed
  <2>2. c \in BucketsFrom(ListHead[r])
    BY <2>1, ListIs
  <2>3. ListHead[r] # NULL
    BY <2>2, BucketsFromAre
  <2>4. r # MovingList
    BY <1>1, <2>3, HeadsAre
  <2> QED
    BY <1>8, <2>1, <2>4
<1>10. /\ \A r \in D : number[r] \in Int
       /\ \A q, r \in D : number[q] = number[r] => q = r
       /\ \A r \in D : number[r] = IF r = OldList(n) THEN MovingList ELSE r
  BY <1>7 DEF MovingList
<1>11. Renumber(Bucket, ListHead, home, D, number, ListHead', home2)
  <2> DEFINE H == ListHead'
  <2>1. \A r \in D : H[number[r]] = ListHead[r]
    BY <1>6, <1>10
  <2>2. ASSUME NEW q \in Int, \A r \in D : number[r] # q
        PROVE  H[q] = 0
    <3>1. CASE q = OldList(n)
      BY <1>6, <3>1 DEF NULL
    <3>2. CASE q = MovingList
      <4>1. OldList(n) \in D
        BY <1>5 DEF MovingList
      <4> QED
        BY <1>10, <2>2, <3>2, <4>1
    <3>3. CASE q # OldList(n) /\ q # MovingList
      BY <1>10, <2>2, <3>3
    <3> QED
      BY <3>1, <3>2, <3>3
  <2>3. D \subseteq Int
    OBVIOUS
  <2> HIDE DEF H, D
  <2>4. Renumber(Bucket, ListHead, home, D, number, H, home2)
    BY <1>9, <1>10, <2>1, <2>2, <2>3 DEF Renumber
  <2> QED
    BY <2>4 DEF H
<1> HIDE DEF D
<1>12. Moved(home, home2, rank, bound)
  <2>1. Listed(Bucket, link, ListHead, home, rank, bound)
    BY DEF Lists
  <2>2. Listed(Bucket, link, ListHead', home2, rank, bound)
    BY <1>11, <2>1, Renumbered
  <2>3. Bucket' = Bucket
    BY <1>1 DEF Bucket
  <2>4. \A c \in Bucket : home2[c] # FreeList <=> home[c] # FreeList
    BY <1>5, <1>9, <1>10 DEF FreeList, MovingList
  <2> QED
    BY <1>1, <2>2, <2>3, <2>4 DEF Moved
<1>13. \A c \in Bucket : home2[c] \in DOMAIN slots => key[c] % Capacity = home2[c]
  <2>1. MovingList \notin DOMAIN slots
    BY HeadsAre DEF MovingList
  <2> QED
    BY <1>9, <1>10, <2>1 DEF Placed
<1>14. Placed(home2)' /\ Counted(home2)'
  BY <1>1, <1>2, <1>3, <1>12, <1>13, MovedPlaces
<1>15. Typed'
  <2>1. Capacity' = Capacity
    BY <1>1 DEF Capacity
  <2> QED
    BY <1>1, <1>2, <1>3, <2>1 DEF Typed
<1> QED
  BY <1>1, <1>3, <1>12, <1>14, <1>15

(* A bucket of the chain being relinked becomes the first of its new chain. *)
LEMMA MovesBucket ==
  ASSUME Typed, NEW home, NEW rank, NEW bound, Lists(home, rank, bound),
         Placed(home), Counted(home), RelinkBucket
  PROVE  /\ Typed'
         /\ iterator.bucket = NULL /\ iterator' = iterator /\ refused' = refused
         /\ answer' = answer
         /\ \E home2, rank2, bound2 :
              /\ Moved(home, home2, rank2, bound2)
              /\ Placed(home2)' /\ Counted(home2)'
<1>1. PICK b : b = growth.bucket
  OBVIOUS
<1>2. PICK i : i = key[b] % Capacity
  OBVIOUS
<1>3. /\ growth.moving /\ b # NULL
      /\ link' = [link EXCEPT ![b] = slots[i]]
      /\ slots' = [slots EXCEPT ![i] = b]
      /\ growth' = [growth EXCEPT !.bucket = link[b]]
      /\ UNCHANGED <<capacityIndex, key, free, size, iterator, answer, refused>>
  BY <1>1, <1>2 DEF RelinkBucket
<1>4. /\ growth'.moving /\ growth'.old = growth.old /\ growth'.index = growth.index
      /\ growth'.bucket = link[b] /\ growth'.key = growth.key
      /\ growth' = [moving |-> growth'.moving, old |-> growth'.old, index |-> growth'.index,
                    bucket |-> growth'.bucket, key |-> growth'.key]
      /\ growth'.moving \in BOOLEAN
  BY <1>3 DEF Typed
<1>5. MovingList \in Int /\ MovingList \notin DOMAIN slots /\ MovingList # FreeList
      /\ ListHead[MovingList] = b
  BY <1>1, <1>3, HeadsAre DEF MovingList, FreeList
<1>6. b \in Bucket /\ home[b] = MovingList
  BY <1>3, <1>5, ListIs
<1>7. /\ Bucket \subseteq Nat \ {0} /\ DOMAIN key = Bucket /\ DOMAIN link = Bucket
      /\ Len(key) \in Nat /\ Len(link) = Len(key)
      /\ b \in Nat \ {0} /\ link[b] \in Nat /\ key[b] \in Keys
  <2>1. /\ Bucket \subseteq Nat \ {0} /\ DOMAIN key = Bucket /\ DOMAIN link = Bucket
        /\ Len(key) \in Nat /\ Len(link) = Len(key)
    BY PointersLead DEF Typed
  <2>2. link[b] \in Nat /\ key[b] \in Keys
    BY <1>6, <2>1 DEF Typed, Bucket
  <2> QED
    BY <1>6, <2>1, <2>2
<1>8. i \in DOMAIN slots /\ i \in Int /\ i # MovingList /\ i # FreeList
      /\ DOMAIN slots = 0 .. Capacity - 1 /\ slots[i] \in Nat /\ ListHead[i] = slots[i]
  <2>1. i \in DOMAIN slots /\ DOMAIN slots = 0 .. Capacity - 1
    BY <1>2, <1>7, SlotOfKey
  <2> QED
    BY <2>1, HeadsAre DEF Typed, MovingList, FreeList
<1>9. DOMAIN slots' = DOMAIN slots /\ slots'[i] = b
      /\ \A r \in DOMAIN slots : r # i => slots'[r] = slots[r]
      /\ slots' \in [0 .. Capacity - 1 -> Nat]
  BY <1>3, <1>7, <1>8 DEF Typed
<1>10. link' \in Seq(Nat) /\ Len(link') = Len(key) /\ link'[b] = slots[i]
       /\ \A c \in Bucket \ {b} : link'[c] = link[c]
  BY <1>3, <1>6, <1>7, <1>8 DEF Typed, Bucket
<1>11. /\ ListHead'[i] = b /\ ListHead'[MovingList] = link[b]
       /\ \A q \in Int : q # i /\ q # MovingList => ListHead'[q] = ListHead[q]
  <2>1. \A q : Waiting(q)' <=> Waiting(q)
    BY <1>3, <1>4 DEF Waiting
  <2>2. ListHead' =
          [r \in Int |->
             IF r \in DOMAIN slots THEN slots'[r]
             ELSE IF r = FreeList THEN free
             ELSE IF r = MovingList THEN link[b]
             ELSE IF Waiting(-3 - r) THEN growth.old[-3 - r]
             ELSE NULL]
    BY <1>3, <1>4, <1>9, <2>1 DEF ListHead
  <2>3. ASSUME NEW q \in Int, q # i, q # MovingList
        PROVE  ListHead'[q] = ListHead[q]
    <3>1. CASE q \in DOMAIN slots
      BY <1>9, <2>2, <2>3, <3>1 DEF ListHead
    <3>2. CASE q \notin DOMAIN slots
      BY <1>3, <2>2, <2>3, <3>2 DEF ListHead
    <3> QED
      BY <3>1, <3>2
  <2> QED
    BY <1>5, <1>8, <1>9, <2>2, <2>3
<1>12. PICK head : head = [ListHead EXCEPT ![MovingList] = link[b]]
  OBVIOUS
<1>13. head[MovingList] = link[b] /\ \A q \in Int : q # MovingList => head[q] = ListHead[q]
  <2>1. DOMAIN ListHead = Int
    BY DEF ListHead
  <2> QED
    BY <1>5, <1>12, <2>1
<1>14. PICK B : B = Bucket \ {b}
  OBVIOUS
<1>15. Listed(B, link, head, home, rank, bound)
  <2>1. Listed(Bucket, link, ListHead, home, rank, bound)
    BY DEF Lists
  <2>2. TakeFirst(Bucket, link, ListHead, b, MovingList, head)
    BY <1>5, <1>6, <1>7, <1>13 DEF TakeFirst
  <2> QED
    BY <1>14, <2>1, <2>2, FirstTaken
<1>16. PICK home2 : home2 = [c \in Bucket |-> IF c = b THEN i ELSE home[c]]
  OBVIOUS
<1>17. PICK rank2 : rank2 = [c \in Bucket |-> IF c = b THEN bound ELSE rank[c]]
  OBVIOUS
<1>18. /\ home2[b] = i /\ \A c \in B : home2[c] = home[c]
       /\ rank2[b] = bound /\ \A c \in B : rank2[c] = rank[c]
       /\ B \cup {b} = Bucket /\ b \notin B
  BY <1>6, <1>14, <1>16, <1>17
<1>19. Listed(Bucket, link', ListHead', home2, rank2, bound + 1)
  <2> DEFINE L == link'
             H == ListHead'
  <2>1. L[b] = head[i] /\ \A c \in B : L[c] = link[c]
    BY <1>8, <1>10, <1>13, <1>14
  <2>2. H[i] = b /\ \A q \in Int : q # i => H[q] = head[q]
    BY <1>11, <1>13
  <2> HIDE DEF L, H
  <2>3. Push(B, link, head, home, rank, bound, b, i, L, H, home2, rank2)
    BY <1>7, <1>8, <1>14, <1>18, <2>1, <2>2 DEF Push
  <2>4. Listed(B \cup {b}, L, H, home2, rank2, bound + 1)
    BY <1>15, <2>3, Pushed
  <2> QED
    BY <1>18, <2>4 DEF L, H
<1>20. Moved(home, home2, rank2, bound + 1)
  <2>1. Bucket' = Bucket
    BY <1>3 DEF Bucket
  <2>2. \A c \in Bucket : home2[c] # FreeList <=> home[c] # FreeList
    BY <1>5, <1>6, <1>8, <1>14, <1>18
  <2> QED
    BY <1>3, <1>19, <2>1, <2>2 DEF Moved
<1>21. \A c \in Bucket : home2[c] \in DOMAIN slots => key[c] % Capacity = home2[c]
  BY <1>2, <1>14, <1>18 DEF Placed
<1>22. Growing /\ Growing' /\ iterator.bucket = NULL
  BY <1>3, <1>4 DEF Typed, Growing
<1>23. Placed(home2)' /\ Counted(home2)'
  BY <1>3, <1>4, <1>9, <1>20, <1>21, <1>22, MovedPlaces
<1>24. Typed'
  <2>1. Capacity' = Capacity
    BY <1>3 DEF Capacity
  <2> QED
    BY <1>3, <1>4, <1>9, <1>10, <1>22, <2>1 DEF Typed
<1> QED
  BY <1>3, <1>20, <1>22, <1>23, <1>24
-----------------------------------------------------------------------------

(* The first used slot from i on, if there is one. *)
LEMMA FirstFromIs ==
  ASSUME NEW array, DOMAIN array \subseteq Nat, NEW i \in Nat
  PROVE  \/ FirstFrom(array, i) = Ended /\ \A j \in DOMAIN array : j >= i => array[j] = NULL
         \/ \E j \in DOMAIN array :
              /\ FirstFrom(array, i) = [index |-> j, bucket |-> array[j]]
              /\ j >= i /\ array[j] # NULL
              /\ \A h \in DOMAIN array : h >= i /\ array[h] # NULL => j <= h
<1> DEFINE used == {j \in DOMAIN array : j >= i /\ array[j] # NULL}
<1>1. CASE used = {}
  <2>1. FirstFrom(array, i) = Ended
    BY <1>1 DEF FirstFrom
  <2> QED
    BY <1>1, <2>1
<1>2. CASE used # {}
  <2>1. used \in SUBSET Nat
    OBVIOUS
  <2>2. \E j \in used : \A h \in used : j <= h
    <3> HIDE DEF used
    <3> QED
      BY <1>2, <2>1, LeastElement
  <2>3. PICK j : j = CHOOSE g \in used : \A h \in used : g <= h
    OBVIOUS
  <2>4. j \in used /\ \A h \in used : j <= h
    BY <2>2, <2>3
  <2>5. FirstFrom(array, i) = [index |-> j, bucket |-> array[j]]
    BY <1>2, <2>3 DEF FirstFrom
  <2> QED
    BY <2>4, <2>5
<1> QED
  BY <1>1, <1>2

(* Where lists and keys stay, so do the heads and the held keys. *)
LEMMA StillLists ==
  ASSUME NEW home, NEW rank, NEW bound, Lists(home, rank, bound),
         UNCHANGED <<slots, key, link, free, growth>>
  PROVE  /\ Listed(Bucket', link', ListHead', home, rank, bound)
         /\ Lists(home, rank, bound)'
         /\ HeldAt(home)' = HeldAt(home) /\ Bucket' = Bucket
<1>1. Bucket' = Bucket
  BY DEF Bucket
<1>2. ListHead' = ListHead
  <2>1. \A i : Waiting(i)' <=> Waiting(i)
    BY DEF Waiting
  <2> QED
    BY <2>1 DEF ListHead
<1>3. HeldAt(home)' = HeldAt(home)
  BY <1>1 DEF HeldAt, FreeList
<1> QED
  BY <1>1, <1>2, <1>3 DEF Lists

(* Calls that read the map, or refuse a key, leave the lists as they are. *)
LEMMA Reads ==
  ASSUME Typed, NEW home, NEW rank, NEW bound, Lists(home, rank, bound),
         Placed(home), Counted(home), NEW k \in Keys,
         Get(k) \/ GetOrCreateFinds(k) \/ GetOrCreateRefuses(k) \/ IteratorGet
  PROVE  /\ Typed'
         /\ Lists(home, rank, bound)' /\ HeldAt(home)' = HeldAt(home)
         /\ Placed(home)' /\ Counted(home)'
<1>1. UNCHANGED <<capacityIndex, slots, key, link, free, growth, iterator>>
  BY DEF Get, GetOrCreateFinds, GetOrCreateRefuses, IteratorGet, table
<1>2. /\ Lists(home, rank, bound)' /\ HeldAt(home)' = HeldAt(home) /\ Bucket' = Bucket
  BY <1>1, StillLists
<1>3. Placed(home)'
  BY <1>1, <1>2 DEF Placed, Capacity
<1>4. /\ size' \in 0 .. MaxSize /\ refused' \in BOOLEAN
      /\ refused' \/ (size' = size /\ refused' = refused)
      /\ size <= size'
  <2>1. CASE GetOrCreateRefuses(k)
    <3>1. size' \in 0 .. MaxSize /\ size <= size'
      <4>1. size' = size + 1 /\ size < MaxSize
        BY <2>1 DEF GetOrCreateRefuses, MayCreate
      <4>2. size \in 0 .. MaxSize
        BY DEF Typed
      <4>3. MaxSize \in Nat
        BY MapAssumption
      <4> QED
        BY <4>1, <4>2, <4>3
    <3>2. refused' = TRUE
      BY <2>1 DEF GetOrCreateRefuses
    <3> QED
      BY <3>1, <3>2
  <2>2. CASE Get(k) \/ GetOrCreateFinds(k) \/ IteratorGet
    <3>1. size' = size /\ refused' = refused
      BY <2>2 DEF Get, GetOrCreateFinds, IteratorGet, table
    <3>2. size \in 0 .. MaxSize /\ refused \in BOOLEAN
      BY DEF Typed
    <3> QED
      BY <3>1, <3>2, MapAssumption
  <2> QED
    BY <2>1, <2>2
<1>5. Counted(home)'
  <2>1. IsFiniteSet(HeldAt(home)) /\ Cardinality(HeldAt(home)) \in Nat
    BY FS_CardinalityType DEF Counted
  <2>2. Pending' = Pending /\ Capacity' = Capacity /\ Pending \in Nat /\ size \in Nat
    BY <1>1 DEF Pending, Capacity, Typed
  <2>3. Cardinality(HeldAt(home)) + Pending <= size'
    BY <1>4, <2>1, <2>2 DEF Counted
  <2> QED
    BY <1>2, <1>4, <2>1, <2>2, <2>3 DEF Counted
<1>6. answer' \in [key : Keys, address : Nat, new : BOOLEAN]
  <2>1. CASE Get(k) \/ GetOrCreateFinds(k)
    <3>1. Ready /\ answer' = Answer(k, Find(k), FALSE)
      BY <2>1 DEF Get, GetOrCreateFinds
    <3>2. Find(k) \in Nat
      <4>1. NULL \in Nat /\ HeldAt(home) \subseteq Nat
        BY PointersLead DEF NULL, HeldAt
      <4> QED
        BY <3>1, <4>1, FindIs
    <3> QED
      BY <3>1, <3>2 DEF Answer
  <2>2. CASE GetOrCreateRefuses(k)
    BY <2>2 DEF GetOrCreateRefuses, Answer, NULL
  <2>3. CASE IteratorGet
    <3>1. iterator.bucket \in Bucket /\ answer' = Answer(key[iterator.bucket], iterator.bucket, FALSE)
      BY <2>3 DEF IteratorGet, HasNext, Placed
    <3>2. key[iterator.bucket] \in Keys /\ iterator.bucket \in Nat
      BY <3>1 DEF Typed, Bucket
    <3> QED
      BY <3>1, <3>2 DEF Answer
  <2> QED
    BY <2>1, <2>2, <2>3
<1>7. Typed'
  <2>1. Capacity' = Capacity /\ (Growing <=> Growing')
    BY <1>1 DEF Capacity, Growing
  <2> QED
    BY <1>1, <1>4, <1>6, <2>1 DEF Typed
<1> QED
  BY <1>2, <1>3, <1>5, <1>7

\* The slots of "array" head the chains of the buckets B.
Heading(array, home, B) ==
  /\ DOMAIN array \subseteq Nat /\ 0 \in DOMAIN array /\ B \subseteq Nat
  /\ \A j \in DOMAIN array : array[j] # NULL => array[j] \in B /\ home[array[j]] = j

\* A cursor on these chains, or at their end.
OnChain(array, home, B, cursor) ==
  /\ cursor \in [index : DOMAIN array, bucket : Nat]
  /\ cursor.bucket # NULL => cursor.bucket \in B /\ home[cursor.bucket] = cursor.index

(* Where the iterator stands after a step along the chains in "array". *)
LEMMA StandsOn ==
  ASSUME NEW array, NEW home, NEW B, Heading(array, home, B), NEW i \in Nat
  PROVE  OnChain(array, home, B, FirstFrom(array, i))
<1>1. CASE FirstFrom(array, i) = Ended
  BY <1>1 DEF Ended, NULL, Heading, OnChain
<1>2. ASSUME NEW j \in DOMAIN array, array[j] # NULL,
             FirstFrom(array, i) = [index |-> j, bucket |-> array[j]]
      PROVE  OnChain(array, home, B, FirstFrom(array, i))
  <2>1. array[j] \in B /\ array[j] \in Nat /\ home[array[j]] = j
    BY <1>2 DEF Heading
  <2> QED
    BY <1>2, <2>1 DEF OnChain
<1> QED
  BY <1>1, <1>2, FirstFromIs DEF Heading

(* The iteration moves on. *)
LEMMA Iterates ==
  ASSUME Typed, NEW home, NEW rank, NEW bound, Lists(home, rank, bound),
         Placed(home), Counted(home), IteratorInit \/ IteratorNext
  PROVE  /\ Typed'
         /\ Lists(home, rank, bound)' /\ HeldAt(home)' = HeldAt(home)
         /\ Placed(home)' /\ Counted(home)'
<1>1. UNCHANGED <<capacityIndex, slots, key, link, free, size, growth, answer, refused>> /\ Ready
  BY DEF IteratorInit, IteratorNext, table
<1>2. /\ Lists(home, rank, bound)' /\ HeldAt(home)' = HeldAt(home) /\ Bucket' = Bucket
  BY <1>1, StillLists
<1>3. Counted(home)'
  BY <1>1, <1>2 DEF Counted, Pending, Capacity
<1>4. /\ iterator' \in [index : DOMAIN slots, bucket : Nat]
      /\ iterator'.bucket # NULL =>
           iterator'.bucket \in Bucket /\ home[iterator'.bucket] = iterator'.index
  <2>1. /\ DOMAIN slots \subseteq Nat /\ 0 \in DOMAIN slots /\ Bucket \subseteq Nat
    <3>1. \E k : k \in Keys
      BY MapAssumption
    <3> QED
      BY <3>1, SlotOfKey, PointersLead
  <2>2. \A j \in DOMAIN slots : slots[j] # NULL => slots[j] \in Bucket /\ home[slots[j]] = j
    BY <2>1, HeadsAre, ListIs
  <2>3. ASSUME NEW i \in Nat, iterator' = FirstFrom(slots, i)
        PROVE  /\ iterator' \in [index : DOMAIN slots, bucket : Nat]
               /\ iterator'.bucket # NULL =>
                    iterator'.bucket \in Bucket /\ home[iterator'.bucket] = iterator'.index
    <3>1. Heading(slots, home, Bucket)
      BY <2>1, <2>2 DEF Heading
    <3>2. OnChain(slots, home, Bucket, iterator')
      BY <2>3, <3>1, StandsOn
    <3> QED
      BY <3>2 DEF OnChain
  <2>4. CASE IteratorInit
    BY <2>3, <2>4 DEF IteratorInit
  <2>5. CASE IteratorNext
    <3>1. /\ iterator.bucket \in Bucket /\ home[iterator.bucket] = iterator.index
          /\ iterator.index \in DOMAIN slots
          /\ iterator = [index |-> iterator.index, bucket |-> iterator.bucket]
      BY <2>5 DEF IteratorNext, HasNext, Placed, Typed
    <3>2. CASE link[iterator.bucket] # NULL
      <4>1. iterator' = [index |-> iterator.index, bucket |-> link[iterator.bucket]]
        BY <2>5, <3>1, <3>2 DEF IteratorNext, Continue
      <4>2. /\ link[iterator.bucket] \in Bucket
            /\ home[link[iterator.bucket]] = home[iterator.bucket]
        BY <3>1, <3>2 DEF Lists, Listed, NULL
      <4> QED
        BY <2>1, <3>1, <4>1, <4>2
    <3>3. CASE link[iterator.bucket] = NULL
      <4>1. iterator' = FirstFrom(slots, iterator.index + 1) /\ iterator.index + 1 \in Nat
        BY <2>1, <2>5, <3>1, <3>3 DEF IteratorNext, Continue
      <4> QED
        BY <2>3, <4>1
    <3> QED
      BY <3>2, <3>3
  <2> QED
    BY <2>4, <2>5
<1>5. Placed(home)'
  <2>1. Capacity' = Capacity /\ ~growth.moving
    BY <1>1 DEF Capacity, Ready
  <2> QED
    BY <1>1, <1>2, <1>4, <2>1 DEF Placed
<1>6. Typed'
  <2>1. Capacity' = Capacity /\ ~growth.moving
    BY <1>1 DEF Capacity, Ready
  <2> QED
    BY <1>1, <1>4, <2>1 DEF Typed
<1> QED
  BY <1>2, <1>3, <1>5, <1>6

(* A map that has been reset holds nothing. *)
LEMMA Resets ==
  ASSUME Typed, Reset
  PROVE  /\ Typed'
         /\ \A home, rank :
              Lists(home, rank, 0)' /\ HeldAt(home)' = {} /\ Placed(home)' /\ Counted(home)'
<1>1. /\ Ready /\ iterator.bucket = NULL
      /\ key' = <<>> /\ link' = <<>> /\ size' = 0 /\ free' = NULL /\ refused' = FALSE
      /\ slots' = EmptySlots(Capacity)
      /\ UNCHANGED <<capacityIndex, growth, iterator, answer>>
  BY DEF Reset
<1>2. Capacity' = Capacity /\ Capacity \in Nat \ {0} /\ DOMAIN slots = 0 .. Capacity - 1
  BY <1>1, SlotOfKey, MapAssumption DEF Capacity
<1>3. slots' = [i \in 0 .. Capacity - 1 |-> NULL] /\ DOMAIN slots' = DOMAIN slots
  BY <1>1, <1>2 DEF EmptySlots
<1>4. Typed'
  <2>1. /\ key' \in Seq(Keys) /\ link' \in Seq(Nat) /\ Len(link') = Len(key')
    BY <1>1
  <2>2. ~growth.moving /\ size' \in 0 .. MaxSize
    BY <1>1, MapAssumption DEF Ready
  <2>3. slots' \in [0 .. Capacity' - 1 -> Nat]
    BY <1>2, <1>3 DEF NULL
  <2> QED
    BY <1>1, <1>2, <1>3, <2>1, <2>2, <2>3 DEF Typed, NULL
<1>5. Bucket' = {}
  BY <1>1 DEF Bucket
<1>6. \A r \in Int : ListHead'[r] = NULL
  BY <1>1, <1>3 DEF ListHead, Waiting, Ready
<1>7. ASSUME NEW home, NEW rank
      PROVE  Lists(home, rank, 0)' /\ HeldAt(home)' = {} /\ Placed(home)' /\ Counted(home)'
  <2>1. HeldAt(home)' = {}
    BY <1>5 DEF HeldAt
  <2>2. Lists(home, rank, 0)'
    BY <1>5, <1>6 DEF Lists, Listed, NULL
  <2>3. Placed(home)'
    BY <1>1, <1>5, <2>1 DEF Placed
  <2>4. Pending' = 0
    BY <1>1 DEF Pending, Ready
  <2>5. Counted(home)'
    BY <1>1, <1>2, <2>1, <2>4, FS_EmptySet DEF Counted
  <2> QED
    BY <2>1, <2>2, <2>3, <2>5
<1> QED
  BY <1>4, <1>7
-----------------------------------------------------------------------------

\* Bucket b waits for a new key, and all else is as it was.
UnlinkedTo(b, home, rank, home2, rank2, bound2) ==
  /\ Listed(Bucket', link', ListHead', home2, rank2, bound2)
  /\ home2[b] = FreeList
  /\ \A c \in Bucket \ {b} : home2[c] = home[c] /\ rank2[c] = rank[c]

(* What ketl_int_map_iterator_remove does to the lists. *)
LEMMA UnlinkLists ==
  ASSUME Typed, NEW home, NEW rank, NEW bound, Lists(home, rank, bound),
         Ready, growth' = growth, key' = key,
         NEW b \in Bucket, home[b] = iterator.index, Unlink(b)
  PROVE  /\ link' \in Seq(Nat) /\ Len(link') = Len(key)
         /\ slots' \in [0 .. Capacity - 1 -> Nat] /\ free' \in Nat
         /\ \E home2, rank2 : UnlinkedTo(b, home, rank, home2, rank2, bound + 1)
<1>1. PICK x : x = iterator.index
  OBVIOUS
<1>2. /\ x \in DOMAIN slots /\ x \in Nat /\ x \in Int /\ home[b] = x /\ x # FreeList
      /\ DOMAIN slots = 0 .. Capacity - 1
  <2>1. x \in DOMAIN slots /\ DOMAIN slots \subseteq Nat /\ DOMAIN slots = 0 .. Capacity - 1
    BY <1>1, HeadsAre DEF Typed
  <2> QED
    BY <1>1, <2>1 DEF FreeList
<1>3. /\ Bucket \subseteq Nat \ {0} /\ DOMAIN key = Bucket /\ DOMAIN link = Bucket
      /\ Len(key) \in Nat /\ Len(link) = Len(key)
      /\ b \in Nat \ {0} /\ link[b] \in Nat /\ free \in Nat
  <2>1. /\ Bucket \subseteq Nat \ {0} /\ DOMAIN key = Bucket /\ DOMAIN link = Bucket
        /\ Len(key) \in Nat /\ Len(link) = Len(key) /\ free \in Nat
    BY PointersLead DEF Typed
  <2>2. link[b] \in Nat
    BY <2>1 DEF Typed, Bucket
  <2> QED
    BY <2>1, <2>2
<1>4. /\ FreeList \in Int /\ FreeList \notin DOMAIN slots /\ ListHead[FreeList] = free
      /\ ListHead[x] = slots[x] /\ DOMAIN ListHead = Int
  BY <1>2, HeadsAre DEF FreeList, ListHead
<1>5. Listed(Bucket, link, ListHead, home, rank, bound)
  BY DEF Lists
<1>6. Bucket' = Bucket
  BY DEF Bucket
<1>7. PICK B : B = Bucket \ {b}
  OBVIOUS
<1>8. PICK home2 : home2 = [c \in Bucket |-> IF c = b THEN FreeList ELSE home[c]]
  OBVIOUS
<1>9. PICK rank2 : rank2 = [c \in Bucket |-> IF c = b THEN bound ELSE rank[c]]
  OBVIOUS
<1>10. /\ home2[b] = FreeList /\ \A c \in B : home2[c] = home[c]
       /\ rank2[b] = bound /\ \A c \in B : rank2[c] = rank[c]
       /\ B \cup {b} = Bucket /\ b \notin B /\ B \subseteq Nat \ {0}
  BY <1>3, <1>7, <1>8, <1>9
<1>11. free' = b
  BY DEF Unlink
<1>12. DOMAIN slots' = DOMAIN slots =>
         ListHead' = [r \in Int |-> IF r \in DOMAIN slots THEN slots'[r]
                                    ELSE IF r = FreeList THEN b ELSE NULL]
  <2>1. \A i : ~Waiting(i)'
    BY DEF Waiting, Ready
  <2> QED
    BY <1>11, <2>1 DEF ListHead, Ready
<1>13. ListHead = [r \in Int |-> IF r \in DOMAIN slots THEN slots[r]
                                 ELSE IF r = FreeList THEN free ELSE NULL]
  BY DEF ListHead, Ready, Waiting
<1>14. CASE slots[x] = b
  <2>1. slots' = [slots EXCEPT ![x] = link[b]] /\ link' = [link EXCEPT ![b] = free]
    BY <1>1, <1>14 DEF Unlink
  <2>2. /\ DOMAIN slots' = DOMAIN slots /\ slots'[x] = link[b]
        /\ \A r \in DOMAIN slots : r # x => slots'[r] = slots[r]
        /\ slots' \in [0 .. Capacity - 1 -> Nat]
    BY <1>2, <1>3, <2>1 DEF Typed
  <2>3. link' \in Seq(Nat) /\ Len(link') = Len(key) /\ link'[b] = free
        /\ \A c \in Bucket \ {b} : link'[c] = link[c]
    BY <1>3, <2>1 DEF Typed, Bucket
  <2>4. PICK head : head = [ListHead EXCEPT ![x] = link[b]]
    OBVIOUS
  <2>5. head[x] = link[b] /\ \A q \in Int : q # x => head[q] = ListHead[q]
    BY <1>2, <1>4, <2>4
  <2>6. Listed(B, link, head, home, rank, bound)
    <3>1. TakeFirst(Bucket, link, ListHead, b, x, head)
      BY <1>2, <1>3, <1>4, <1>14, <2>5 DEF TakeFirst
    <3> QED
      BY <1>5, <1>7, <3>1, FirstTaken
  <2>7. ListHead'[FreeList] = b /\ \A q \in Int : q # FreeList => ListHead'[q] = head[q]
    <3>1. ListHead'[FreeList] = b
      BY <1>4, <1>12, <2>2
    <3>2. ASSUME NEW q \in Int, q # FreeList
          PROVE  ListHead'[q] = head[q]
      <4>1. CASE q = x
        BY <1>2, <1>12, <2>2, <2>5, <4>1
      <4>2. CASE q # x
        <5>1. head[q] = ListHead[q]
          BY <2>5, <4>2
        <5> QED
          BY <1>12, <1>13, <2>2, <3>2, <4>2, <5>1
      <4> QED
        BY <4>1, <4>2
    <3> QED
      BY <3>1, <3>2
  <2>8. Listed(Bucket, link', ListHead', home2, rank2, bound + 1)
    <3> DEFINE L == link'
               H == ListHead'
    <3>1. L[b] = head[FreeList] /\ \A c \in B : L[c] = link[c]
      BY <1>2, <1>4, <1>7, <2>3, <2>5
    <3>2. H[FreeList] = b /\ \A q \in Int : q # FreeList => H[q] = head[q]
      BY <2>7
    <3> HIDE DEF L, H
    <3>3. Push(B, link, head, home, rank, bound, b, FreeList, L, H, home2, rank2)
      BY <1>3, <1>4, <1>10, <3>1, <3>2 DEF Push
    <3>4. Listed(B \cup {b}, L, H, home2, rank2, bound + 1)
      BY <2>6, <3>3, Pushed
    <3> QED
      BY <1>10, <3>4 DEF L, H
  <2>9. UnlinkedTo(b, home, rank, home2, rank2, bound + 1)
    BY <1>6, <1>7, <1>10, <2>8 DEF UnlinkedTo
  <2> QED
    BY <1>3, <1>11, <2>2, <2>3, <2>9
<1>15. CASE slots[x] # b
  <2>1. PICK p : p = Parent(b)
    OBVIOUS
  <2>2. p \in Bucket /\ link[p] = b
    <3>1. \E q \in Bucket : home[q] = x /\ link[q] = b
      BY <1>2, <1>4, <1>5, <1>15, BehindOne
    <3>2. BucketsFrom(slots[x]) = {c \in Bucket : home[c] = x}
      BY <1>2, <1>4, ListIs
    <3> QED
      BY <1>1, <2>1, <3>1, <3>2 DEF Parent
  <2>3. slots' = slots /\ link' = [link EXCEPT ![p] = link[b], ![b] = free]
    BY <1>1, <1>15, <2>1 DEF Unlink
  <2>4. p # b
    <3>1. \/ link[p] = 0
          \/ rank[link[p]] < rank[p]
      BY <1>5, <2>2 DEF Listed
    <3>2. rank[b] \in Nat
      BY <1>5 DEF Listed
    <3> QED
      BY <1>3, <2>2, <3>1, <3>2
  <2>5. link' \in Seq(Nat) /\ Len(link') = Len(key) /\ link'[b] = free /\ link'[p] = link[b]
        /\ \A c \in Bucket : c # p /\ c # b => link'[c] = link[c]
    BY <1>3, <2>2, <2>3, <2>4 DEF Typed, Bucket
  <2>6. Listed(B, link', ListHead, home, rank, bound)
    <3> DEFINE L == link'
    <3>1. L[p] = link[b] /\ \A c \in Bucket : c # p /\ c # b => L[c] = link[c]
      BY <2>5
    <3> HIDE DEF L
    <3>2. TakeBehind(Bucket, link, p, b, L)
      BY <1>3, <2>2, <3>1 DEF TakeBehind
    <3>3. Listed(B, L, ListHead, home, rank, bound)
      BY <1>5, <1>7, <3>2, BehindTaken
    <3> QED
      BY <3>3 DEF L
  <2>7. ListHead'[FreeList] = b /\ \A q \in Int : q # FreeList => ListHead'[q] = ListHead[q]
    BY <1>4, <1>12, <1>13, <2>3
  <2>8. Listed(Bucket, link', ListHead', home2, rank2, bound + 1)
    <3> DEFINE L == link'
               H == ListHead'
    <3>1. L[b] = ListHead[FreeList]
      BY <1>4, <2>5
    <3>2. H[FreeList] = b /\ \A q \in Int : q # FreeList => H[q] = ListHead[q]
      BY <2>7
    <3>3. Listed(B, L, ListHead, home, rank, bound)
      BY <2>6
    <3> HIDE DEF L, H
    <3>4. Push(B, L, ListHead, home, rank, bound, b, FreeList, L, H, home2, rank2)
      BY <1>3, <1>4, <1>10, <3>1, <3>2 DEF Push
    <3>5. Listed(B \cup {b}, L, H, home2, rank2, bound + 1)
      BY <3>3, <3>4, Pushed
    <3> QED
      BY <1>10, <3>5 DEF L, H
  <2>9. UnlinkedTo(b, home, rank, home2, rank2, bound + 1)
    BY <1>6, <1>7, <1>10, <2>8 DEF UnlinkedTo
  <2>10. slots' \in [0 .. Capacity - 1 -> Nat]
    BY <2>3 DEF Typed
  <2> QED
    BY <1>3, <1>11, <2>5, <2>9, <2>10
<1> QED
  BY <1>14, <1>15

(* The key under the iterator leaves the map, and the iterator moves on. *)
LEMMA Removes ==
  ASSUME Typed, NEW home, NEW rank, NEW bound, Lists(home, rank, bound),
         Placed(home), Counted(home), IteratorRemove
  PROVE  /\ Typed'
         /\ iterator.bucket \in HeldAt(home)
         /\ \E home2, rank2 :
              /\ UnlinkedTo(iterator.bucket, home, rank, home2, rank2, bound + 1)
              /\ HeldAt(home2)' = HeldAt(home) \ {iterator.bucket}
              /\ Placed(home2)' /\ Counted(home2)'
<1>1. PICK b : b = iterator.bucket
  OBVIOUS
<1>2. /\ Ready /\ b # NULL /\ size' = size - 1 /\ Unlink(b) /\ Continue(slots', link[b])
      /\ UNCHANGED <<capacityIndex, key, growth, answer, refused>>
  BY <1>1 DEF IteratorRemove, HasNext
<1>3. /\ b \in Bucket /\ home[b] = iterator.index /\ iterator.index \in DOMAIN slots
      /\ iterator.index \in Nat /\ DOMAIN slots \subseteq Nat
      /\ iterator = [index |-> iterator.index, bucket |-> iterator.bucket]
  <2>1. b \in Bucket /\ home[b] = iterator.index
    BY <1>1, <1>2 DEF Placed
  <2>2. iterator.index \in DOMAIN slots /\ DOMAIN slots \subseteq Nat
        /\ iterator = [index |-> iterator.index, bucket |-> iterator.bucket]
    BY HeadsAre DEF Typed
  <2> QED
    BY <2>1, <2>2
<1>4. b \in HeldAt(home)
  BY <1>3 DEF HeldAt, FreeList
<1>5. /\ link' \in Seq(Nat) /\ Len(link') = Len(key)
      /\ slots' \in [0 .. Capacity - 1 -> Nat] /\ free' \in Nat
      /\ \E home2, rank2 : UnlinkedTo(b, home, rank, home2, rank2, bound + 1)
  BY <1>2, <1>3, UnlinkLists
<1>6. PICK home2, rank2 : UnlinkedTo(b, home, rank, home2, rank2, bound + 1)
  BY <1>5
<1>7. /\ Listed(Bucket', link', ListHead', home2, rank2, bound + 1)
      /\ home2[b] = FreeList
      /\ \A c \in Bucket \ {b} : home2[c] = home[c] /\ rank2[c] = rank[c]
  BY <1>6 DEF UnlinkedTo
<1>8. Bucket' = Bucket /\ Capacity' = Capacity /\ DOMAIN slots' = DOMAIN slots
      /\ DOMAIN slots = 0 .. Capacity - 1 /\ Capacity \in Nat \ {0}
  <2>1. \E k : k \in Keys
    BY MapAssumption
  <2> QED
    BY <1>2, <1>5, <2>1, SlotOfKey DEF Bucket, Capacity
<1>9. HeldAt(home2)' = HeldAt(home) \ {b}
  <2>1. HeldAt(home2)' = {c \in Bucket : home2[c] # FreeList}
    BY <1>8 DEF HeldAt, FreeList
  <2> QED
    BY <1>7, <2>1 DEF HeldAt
<1>10. /\ iterator' \in [index : DOMAIN slots, bucket : Nat]
       /\ iterator'.bucket # NULL =>
            iterator'.bucket \in Bucket /\ home2[iterator'.bucket] = iterator'.index
  <2>1. CASE link[b] # NULL
    <3>1. iterator' = [index |-> iterator.index, bucket |-> link[b]]
      BY <1>2, <1>3, <2>1 DEF Continue
    <3>2. link[b] \in Bucket /\ home[link[b]] = home[b] /\ rank[link[b]] < rank[b] /\ rank[b] \in Nat
      BY <1>3, <2>1 DEF Lists, Listed, NULL
    <3>3. link[b] # b /\ link[b] \in Nat
      BY <3>2, PointersLead
    <3> QED
      BY <1>3, <1>7, <3>1, <3>2, <3>3
  <2>2. CASE link[b] = NULL
    <3>1. iterator' = FirstFrom(slots', iterator.index + 1) /\ iterator.index + 1 \in Nat
      BY <1>2, <1>3, <2>2 DEF Continue
    <3>2. DOMAIN slots' \subseteq Nat /\ 0 \in DOMAIN slots' /\ Bucket \subseteq Nat
      BY <1>3, <1>8, PointersLead
    <3>3. ASSUME NEW j \in DOMAIN slots', slots'[j] # NULL
          PROVE  slots'[j] \in Bucket /\ home2[slots'[j]] = j
      <4>1. j \in Int /\ ListHead'[j] = slots'[j]
        BY <3>2 DEF ListHead
      <4>2. \A r \in Int : ListHead'[r] # 0 => ListHead'[r] \in Bucket' /\ home2[ListHead'[r]] = r
        BY <1>7 DEF Listed
      <4> QED
        BY <1>8, <3>3, <4>1, <4>2 DEF NULL
    <3> DEFINE array == slots'
    <3>4. iterator' = FirstFrom(array, iterator.index + 1)
      BY <3>1
    <3>5. Heading(array, home2, Bucket)
      BY <3>2, <3>3 DEF Heading
    <3> HIDE DEF array
    <3>6. /\ iterator' \in [index : DOMAIN array, bucket : Nat]
          /\ iterator'.bucket # NULL =>
               iterator'.bucket \in Bucket /\ home2[iterator'.bucket] = iterator'.index
      <4>1. OnChain(array, home2, Bucket, iterator')
        BY <3>1, <3>4, <3>5, StandsOn
      <4> QED
        BY <4>1 DEF OnChain
    <3> QED
      BY <1>8, <3>6 DEF array
  <2> QED
    BY <2>1, <2>2
<1>11. Placed(home2)'
  <2>1. \A c \in Bucket : home2[c] \in DOMAIN slots => key[c] % Capacity = home2[c]
    <3>1. FreeList \notin DOMAIN slots
      BY <1>3 DEF FreeList
    <3> QED
      BY <1>7, <3>1 DEF Placed
  <2>2. \A a, c \in HeldAt(home) \ {b} : key[a] = key[c] => a = c
    BY DEF Placed
  <2>3. ~growth'.moving
    BY <1>2 DEF Ready
  <2> QED
    BY <1>2, <1>8, <1>9, <1>10, <2>1, <2>2, <2>3 DEF Placed
<1>12. Counted(home2)' /\ size' \in 0 .. MaxSize
  <2>1. IsFiniteSet(HeldAt(home)) /\ Cardinality(HeldAt(home)) \in Nat
    BY FS_CardinalityType DEF Counted
  <2>2. /\ IsFiniteSet(HeldAt(home) \ {b})
        /\ Cardinality(HeldAt(home) \ {b}) = Cardinality(HeldAt(home)) - 1
        /\ Cardinality(HeldAt(home) \ {b}) \in Nat
    BY <1>4, <2>1, FS_RemoveElement, FS_CardinalityType
  <2>3. Pending' = 0 /\ Pending = 0
    BY <1>2 DEF Pending, Ready
  <2>4. size \in Nat /\ size <= MaxSize /\ Cardinality(HeldAt(home)) <= size
    BY <2>1, <2>3, MapAssumption DEF Counted, Typed
  <2>5. ~refused => Cardinality(HeldAt(home)) = size /\ size <= Capacity
    BY <2>1, <2>3 DEF Counted
  <2>6. size' \in 0 .. MaxSize
    <3>1. PICK n : n = Cardinality(HeldAt(home))
      OBVIOUS
    <3>2. n \in Nat /\ n - 1 \in Nat
      BY <2>1, <2>2, <3>1
    <3>3. n <= size /\ size \in Nat /\ size <= MaxSize /\ MaxSize \in Nat
      BY <2>4, <3>1, MapAssumption
    <3>4. size - 1 \in 0 .. MaxSize
      BY <3>2, <3>3
    <3> QED
      BY <1>2, <3>4
  <2>7. Cardinality(HeldAt(home2)') + Pending' <= size'
    BY <1>2, <1>9, <2>1, <2>2, <2>3, <2>4
  <2>8. ~refused => Cardinality(HeldAt(home2)') + Pending' = size' /\ size' <= Capacity
    BY <1>2, <1>8, <1>9, <2>1, <2>2, <2>3, <2>4, <2>5
  <2> QED
    BY <1>2, <1>8, <1>9, <2>2, <2>6, <2>7, <2>8 DEF Counted
<1>13. Typed'
  <2>1. ~growth.moving
    BY <1>2 DEF Ready
  <2> QED
    BY <1>2, <1>5, <1>8, <1>10, <1>12, <2>1 DEF Typed
<1> QED
  BY <1>1, <1>4, <1>6, <1>9, <1>11, <1>12, <1>13
-----------------------------------------------------------------------------

(* An empty map is arranged. *)
LEMMA InitArranged ==
  ASSUME Init
  PROVE  IInv
<1>1. /\ capacityIndex = 1 /\ slots = EmptySlots(Capacities[1])
      /\ key = <<>> /\ link = <<>> /\ free = NULL /\ size = 0
      /\ growth = NoGrowth /\ iterator = Ended /\ refused = FALSE
      /\ \E k \in Keys : answer = Answer(k, NULL, FALSE)
  BY DEF Init
<1>2. 1 \in DOMAIN Capacities /\ Capacity \in Nat \ {0} /\ Capacity = Capacities[1]
  BY <1>1, MapAssumption DEF Capacity
<1>3. slots = [i \in 0 .. Capacity - 1 |-> NULL] /\ DOMAIN slots = 0 .. Capacity - 1
  BY <1>1, <1>2 DEF EmptySlots
<1>4. Typed
  <2>1. key \in Seq(Keys) /\ link \in Seq(Nat) /\ Len(link) = Len(key)
    BY <1>1
  <2>2. /\ growth = [moving |-> growth.moving, old |-> growth.old, index |-> growth.index,
                     bucket |-> growth.bucket, key |-> growth.key]
        /\ growth.moving = FALSE /\ growth.bucket = NULL
    BY <1>1 DEF NoGrowth
  <2>3. iterator \in [index : DOMAIN slots, bucket : Nat]
    BY <1>1, <1>2, <1>3 DEF Ended, NULL
  <2>4. answer \in [key : Keys, address : Nat, new : BOOLEAN]
    BY <1>1 DEF Answer, NULL
  <2>5. slots \in [0 .. Capacity - 1 -> Nat] /\ free \in Nat /\ size \in 0 .. MaxSize
    BY <1>1, <1>3, MapAssumption DEF NULL
  <2> QED
    BY <1>1, <1>2, <2>1, <2>2, <2>3, <2>4, <2>5 DEF Typed
<1>5. Bucket = {}
  BY <1>1 DEF Bucket
<1>6. \A r \in Int : ListHead[r] = NULL
  BY <1>1, <1>3 DEF ListHead, Waiting, NoGrowth
<1>7. PICK home : home = [b \in Bucket |-> 0]
  OBVIOUS
<1>8. HeldAt(home) = {}
  BY <1>5 DEF HeldAt
<1>9. Lists(home, home, 0)
  BY <1>5, <1>6 DEF Lists, Listed, NULL
<1>10. Placed(home)
  BY <1>1, <1>5, <1>8 DEF Placed, NoGrowth, Ended
<1>11. Counted(home)
  BY <1>1, <1>2, <1>8, FS_EmptySet DEF Counted, Pending, NoGrowth
<1> QED
  BY <1>4, <1>9, <1>10, <1>11 DEF IInv, Arranged

(* Every step keeps the lists, the keys and the count in order. *)
LEMMA StepArranged ==
  ASSUME IInv, [Next]_vars
  PROVE  IInv'
<1>1. PICK home, rank, bound : Arranged(home, rank, bound)
  BY DEF IInv
<1>2. Typed /\ Lists(home, rank, bound) /\ Placed(home) /\ Counted(home)
  BY <1>1 DEF IInv, Arranged
<1>3. ASSUME Typed',
             NEW home2, NEW rank2, NEW bound2,
             Lists(home2, rank2, bound2)', Placed(home2)', Counted(home2)'
      PROVE  IInv'
  BY <1>3 DEF IInv, Arranged
<1>4. ASSUME Typed',
             NEW home2, NEW rank2, NEW bound2,
             Listed(Bucket', link', ListHead', home2, rank2, bound2),
             Placed(home2)', Counted(home2)'
      PROVE  IInv'
  <2>1. Lists(home2, rank2, bound2)'
    BY <1>4 DEF Lists
  <2> QED
    BY <1>3, <1>4, <2>1
<1>5. ASSUME NEW k \in Keys, GetOrCreateLinks(k) \/ (FinishGrowth /\ k = growth.key)
      PROVE  IInv'
  <2>1. Typed' /\ \E b, home2, rank2, bound2 :
                    /\ LinkedAt(b, k, home, rank, home2, rank2, bound2)
                    /\ Placed(home2)' /\ Counted(home2)'
    BY <1>2, <1>5, Links
  <2>2. PICK b, home2, rank2, bound2 :
          /\ LinkedAt(b, k, home, rank, home2, rank2, bound2)
          /\ Placed(home2)' /\ Counted(home2)'
    BY <2>1
  <2> QED
    BY <1>4, <2>1, <2>2 DEF LinkedAt
<1>6. ASSUME NEW k \in Keys, GetOrCreateGrows(k)
      PROVE  IInv'
  <2>1. Typed' /\ \E home2 : /\ Moved(home, home2, rank, bound)
                             /\ Placed(home2)' /\ Counted(home2)'
    BY <1>2, <1>6, Grows
  <2> QED
    BY <1>4, <2>1 DEF Moved
<1>7. ASSUME RelinkNextChain
      PROVE  IInv'
  <2>1. Typed' /\ \E home2 : /\ Moved(home, home2, rank, bound)
                             /\ Placed(home2)' /\ Counted(home2)'
    BY <1>2, <1>7, TakesNextChain
  <2> QED
    BY <1>4, <2>1 DEF Moved
<1>8. ASSUME RelinkBucket
      PROVE  IInv'
  <2>1. Typed' /\ \E home2, rank2, bound2 : /\ Moved(home, home2, rank2, bound2)
                                            /\ Placed(home2)' /\ Counted(home2)'
    BY <1>2, <1>8, MovesBucket
  <2> QED
    BY <1>4, <2>1 DEF Moved
<1>9. ASSUME NEW k \in Keys,
             Get(k) \/ GetOrCreateFinds(k) \/ GetOrCreateRefuses(k) \/ IteratorGet
      PROVE  IInv'
  BY <1>2, <1>3, <1>9, Reads
<1>10. ASSUME IteratorInit \/ IteratorNext
       PROVE  IInv'
  BY <1>2, <1>3, <1>10, Iterates
<1>11. ASSUME Reset
       PROVE  IInv'
  BY <1>2, <1>3, <1>11, Resets
<1>12. ASSUME IteratorRemove
       PROVE  IInv'
  <2>1. Typed' /\ \E home2, rank2 :
                    /\ UnlinkedTo(iterator.bucket, home, rank, home2, rank2, bound + 1)
                    /\ Placed(home2)' /\ Counted(home2)'
    BY <1>2, <1>12, Removes
  <2> QED
    BY <1>4, <2>1 DEF UnlinkedTo
<1>13. ASSUME UNCHANGED vars
       PROVE  IInv'
  <2>1. UNCHANGED <<capacityIndex, slots, key, link, free, size, growth, iterator, answer, refused>>
    BY <1>13 DEF vars, table
  <2>2. Lists(home, rank, bound)' /\ HeldAt(home)' = HeldAt(home) /\ Bucket' = Bucket
    BY <1>2, <2>1, StillLists
  <2>3. Capacity' = Capacity /\ Pending' = Pending /\ (Growing' <=> Growing)
    BY <2>1 DEF Capacity, Pending, Growing
  <2>4. Placed(home)'
    BY <1>2, <2>1, <2>2, <2>3 DEF Placed
  <2>5. Counted(home)'
    BY <1>2, <2>1, <2>2, <2>3 DEF Counted
  <2>6. Typed'
    BY <1>2, <2>1, <2>3 DEF Typed
  <2> QED
    BY <1>3, <2>2, <2>4, <2>5, <2>6
<1>14. ASSUME FinishGrowth
       PROVE  IInv'
  <2>1. growth.key \in Keys
    BY <1>2, <1>14 DEF FinishGrowth, Typed, Growing
  <2> QED
    BY <1>5, <1>14, <2>1
<1>15. ASSUME IteratorGet
       PROVE  IInv'
  <2>1. \E k : k \in Keys
    BY MapAssumption
  <2> QED
    BY <1>9, <1>15, <2>1
<1> QED
  <2>1. CASE \E k \in Keys :
               \/ Get(k) \/ GetOrCreateFinds(k) \/ GetOrCreateLinks(k)
               \/ GetOrCreateGrows(k) \/ GetOrCreateRefuses(k)
    <3>1. PICK k \in Keys :
            \/ Get(k) \/ GetOrCreateFinds(k) \/ GetOrCreateLinks(k)
            \/ GetOrCreateGrows(k) \/ GetOrCreateRefuses(k)
      BY <2>1
    <3>2. CASE Get(k) \/ GetOrCreateFinds(k) \/ GetOrCreateRefuses(k)
      <4>1. Get(k) \/ GetOrCreateFinds(k) \/ GetOrCreateRefuses(k) \/ IteratorGet
        BY <3>2
      <4> QED
        BY <1>9, <4>1
    <3>3. CASE GetOrCreateLinks(k)
      <4>1. GetOrCreateLinks(k) \/ (FinishGrowth /\ k = growth.key)
        BY <3>3
      <4> QED
        BY <1>5, <4>1
    <3>4. CASE GetOrCreateGrows(k)
      BY <1>6, <3>4
    <3> QED
      BY <3>1, <3>2, <3>3, <3>4
  <2>2. CASE RelinkBucket \/ RelinkNextChain \/ FinishGrowth \/ Reset
    BY <1>7, <1>8, <1>11, <1>14, <2>2
  <2>3. CASE IteratorInit \/ IteratorGet \/ IteratorNext \/ IteratorRemove
    BY <1>10, <1>12, <1>15, <2>3
  <2>4. CASE UNCHANGED vars
    BY <1>13, <2>4
  <2> QED
    BY <2>1, <2>2, <2>3, <2>4 DEF Next

(* The invariant. *)
LEMMA Invariance == Spec => []IInv
<1>1. Init => IInv
  BY InitArranged
<1>2. IInv /\ [Next]_vars => IInv'
  BY StepArranged
<1> QED
  BY <1>1, <1>2, PTL DEF Spec

(***************************************************************************)
(* The fields of the map, its buckets and its iterator keep their types,   *)
(* and every pointer leads to a bucket of the pool, also behind a reset    *)
(* (int_map.c).                                                            *)
(***************************************************************************)
THEOREM TypeCorrect == Spec => []TypeOK
<1>1. ASSUME IInv
      PROVE  TypeOK
  <2>1. PICK home, rank, bound : Arranged(home, rank, bound)
    BY <1>1 DEF IInv
  <2>2. Typed /\ Lists(home, rank, bound) /\ Placed(home)
    BY <1>1, <2>1 DEF IInv, Arranged
  <2> DEFINE P == Bucket \cup {NULL}
  <2>3. /\ DOMAIN key = Bucket /\ DOMAIN link = Bucket
        /\ \A b \in Bucket : link[b] \in P
        /\ free \in P
        /\ \A i \in DOMAIN slots : slots[i] \in P
        /\ \A r \in Int : ListHead[r] \in P
    BY <2>2, PointersLead
  <2>4. slots \in [0 .. Capacity - 1 -> P]
    BY <2>2, <2>3 DEF Typed
  <2>5. link \in [Bucket -> P]
    BY <2>2, <2>3 DEF Typed
  <2>6. growth.bucket \in P
    <3>1. CASE growth.moving
      BY <2>2, <2>3, <3>1, HeadsAre DEF MovingList
    <3>2. CASE ~growth.moving
      BY <2>2, <3>2 DEF Typed
    <3> QED
      BY <3>1, <3>2
  <2>7. iterator \in [index : DOMAIN slots, bucket : P]
    <3>1. iterator.bucket \in P
      BY <2>2 DEF Placed
    <3> QED
      BY <2>2, <3>1 DEF Typed
  <2> HIDE DEF P
  <2>8. /\ capacityIndex \in DOMAIN Capacities /\ key \in Seq(Keys) /\ size \in 0 .. MaxSize
        /\ growth.moving \in BOOLEAN
        /\ answer \in [key : Keys, address : Nat, new : BOOLEAN]
        /\ refused \in BOOLEAN
    BY <2>2 DEF Typed
  <2> QED
    BY <2>3, <2>4, <2>5, <2>6, <2>7, <2>8 DEF TypeOK, P, Bucket
<1> QED
  BY <1>1, Invariance, PTL

(* The first buckets of the lists are the heads the state shows. *)
LEMMA HeadsHaveNumbers ==
  ASSUME Typed
  PROVE  /\ \A b \in Heads : b # NULL /\ \E r \in Int : ListHead[r] = b
         /\ \A r \in Int : ListHead[r] # NULL => ListHead[r] \in Heads
<1>1. ASSUME NEW b \in Heads
      PROVE  b # NULL /\ \E r \in Int : ListHead[r] = b
  <2>1. b # NULL /\ b \in {slots[i] : i \in DOMAIN slots} \cup OldChains \cup {free}
    BY DEF Heads
  <2>2. CASE b \in {slots[i] : i \in DOMAIN slots}
    BY <2>1, <2>2, HeadsAre
  <2>3. CASE b = free
    BY <2>1, <2>3, HeadsAre DEF FreeList
  <2>4. CASE b \in OldChains
    <3>1. growth.moving
      BY <2>4 DEF OldChains
    <3>2. CASE b = growth.bucket
      BY <2>1, <3>1, <3>2, HeadsAre DEF MovingList
    <3>3. CASE b # growth.bucket
      <4>1. PICK i \in DOMAIN growth.old : i > growth.index /\ b = growth.old[i]
        BY <2>4, <3>1, <3>3 DEF OldChains
      <4>2. Waiting(i)
        BY <3>1, <4>1 DEF Waiting
      <4>3. i \in Nat /\ ListHead[OldList(i)] = b
        BY <4>1, <4>2, HeadsAre
      <4>4. OldList(i) \in Int
        BY <4>3 DEF OldList
      <4> QED
        BY <2>1, <4>3, <4>4
    <3> QED
      BY <3>2, <3>3
  <2> QED
    BY <2>1, <2>2, <2>3, <2>4
<1>2. ASSUME NEW r \in Int, ListHead[r] # NULL
      PROVE  ListHead[r] \in Heads
  <2>1. CASE r \in DOMAIN slots
    BY <1>2, <2>1, HeadsAre DEF Heads
  <2>2. CASE r = FreeList
    BY <1>2, <2>2, HeadsAre DEF Heads
  <2>3. CASE r = MovingList /\ growth.moving
    BY <1>2, <2>3, HeadsAre DEF Heads, OldChains
  <2>4. CASE r \notin DOMAIN slots /\ r # FreeList /\ ~(r = MovingList /\ growth.moving)
    <3>1. Waiting(-3 - r) /\ ListHead[r] = growth.old[-3 - r]
      BY <1>2, <2>4 DEF ListHead
    <3>2. ListHead[r] \in OldChains
      BY <3>1 DEF OldChains, Waiting
    <3> QED
      BY <1>2, <3>2 DEF Heads
  <2> QED
    BY <2>1, <2>2, <2>3, <2>4
<1> QED
  BY <1>1, <1>2

(***************************************************************************)
(* No bucket is ever lost or in two lists, whatever is created, removed    *)
(* and relinked, and between calls the size is the number of keys          *)
(* (int_map.c, get_or_create with its two loops, and iterator_remove).     *)
(***************************************************************************)
THEOREM NoBucketLost == Spec => []BucketsPartitioned
<1>1. ASSUME IInv
      PROVE  BucketsPartitioned
  <2>1. PICK home, rank, bound : Arranged(home, rank, bound)
    BY <1>1 DEF IInv
  <2>2. Typed /\ Lists(home, rank, bound) /\ Placed(home) /\ Counted(home)
    BY <1>1, <2>1 DEF IInv, Arranged
  <2>3. DOMAIN key = Bucket
    BY <2>2, PointersLead
  <2>4. \A r \in Int : BucketsFrom(ListHead[r]) = {c \in Bucket : home[c] = r}
    BY <2>2, ListIs
  <2>5. \A b \in Heads : b # NULL /\ \E r \in Int : ListHead[r] = b
    BY <2>2, HeadsHaveNumbers
  <2>6. UNION {BucketsFrom(b) : b \in Heads} = DOMAIN key
    <3>1. ASSUME NEW b \in Heads
          PROVE  BucketsFrom(b) \subseteq Bucket
      BY <2>4, <2>5
    <3>2. ASSUME NEW c \in Bucket
          PROVE  \E b \in Heads : c \in BucketsFrom(b)
      <4>1. PICK r \in Int : r = home[c]
        BY <2>2 DEF Lists, Listed
      <4>2. c \in BucketsFrom(ListHead[r])
        BY <2>4, <4>1
      <4>3. ListHead[r] # NULL
        BY <2>2, <4>2, BucketsFromAre
      <4> QED
        BY <2>2, <4>2, <4>3, HeadsHaveNumbers
    <3> QED
      BY <2>3, <3>1, <3>2
  <2>7. ASSUME NEW a \in Heads, NEW b \in Heads, a # b
        PROVE  BucketsFrom(a) \cap BucketsFrom(b) = {}
    <3>1. PICK q \in Int : ListHead[q] = a
      BY <2>5
    <3>2. PICK r \in Int : ListHead[r] = b
      BY <2>5
    <3> QED
      BY <2>4, <2>7, <3>1, <3>2
  <2>8. ASSUME NEW i \in DOMAIN slots, NEW j \in DOMAIN slots, slots[i] = slots[j], slots[i] # NULL
        PROVE  i = j
    <3>1. i \in Int /\ j \in Int /\ ListHead[i] = slots[i] /\ ListHead[j] = slots[j]
      BY <2>2, HeadsAre
    <3>2. home[slots[i]] = i /\ home[slots[j]] = j
      BY <2>2, <2>8, <3>1, ListIs
    <3> QED
      BY <2>8, <3>2
  <2>9. ASSUME Ready, ~refused
        PROVE  size = Cardinality(Held)
    <3>1. Held = HeldAt(home)
      BY <2>2, HeldAre
    <3>2. Cardinality(HeldAt(home)) + 0 = size /\ Cardinality(HeldAt(home)) \in Nat
      BY <2>2, <2>9, FS_CardinalityType DEF Counted, Pending, Ready
    <3> QED
      BY <3>1, <3>2
  <2> QED
    BY <2>6, <2>7, <2>8, <2>9 DEF BucketsPartitioned
<1> QED
  BY <1>1, Invariance, PTL

(***************************************************************************)
(* IntMap implements Dictionary, step by step: what clients see of the     *)
(* map is a function from keys to addresses and an iteration over it.      *)
(***************************************************************************)

\* w sends each key of the buckets H to the bucket that has it.
Finds(w, H, of) ==
  /\ w = [k \in DOMAIN w |-> w[k]]
  /\ DOMAIN w = {of[b] : b \in H}
  /\ \A b \in H : w[of[b]] = b

(* The same buckets with the same keys make the same dictionary. *)
LEMMA SameFinds ==
  ASSUME NEW v, NEW w, NEW H, NEW of, NEW of2, Finds(v, H, of), Finds(w, H, of2),
         \A b \in H : of2[b] = of[b]
  PROVE  w = v
<1>1. DOMAIN w = DOMAIN v
  BY DEF Finds
<1>2. \A k \in DOMAIN v : w[k] = v[k]
  BY DEF Finds
<1> QED
  BY <1>1, <1>2 DEF Finds

\* Bucket b comes to the buckets H, which keep their keys, with a key of its own.
Joins(b, H, of, of2) == b \notin H /\ \A c \in H : of2[c] = of[c] /\ of[c] # of2[b]

\* Dictionary w is v with b as the object of k, which is new.
Adds(w, v, k, b) ==
  /\ w = [j \in DOMAIN w |-> w[j]] /\ DOMAIN w = DOMAIN v \cup {k}
  /\ w[k] = b /\ k \notin DOMAIN v
  /\ \A j \in DOMAIN v : w[j] = v[j] /\ v[j] # b

(* A bucket with a key of its own adds that key. *)
LEMMA MoreFinds ==
  ASSUME NEW v, NEW w, NEW H, NEW of, NEW of2, NEW b, Finds(v, H, of), Finds(w, H \cup {b}, of2),
         Joins(b, H, of, of2)
  PROVE  Adds(w, v, of2[b], b)
BY DEF Finds, Joins, Adds

\* Dictionary w is v without key k.
Lacks(w, v, k) ==
  /\ w = [j \in DOMAIN w |-> w[j]] /\ DOMAIN w = DOMAIN v \ {k}
  /\ \A j \in DOMAIN w : w[j] = v[j]

(* A bucket that leaves takes its key with it. *)
LEMMA FewerFinds ==
  ASSUME NEW v, NEW w, NEW H, NEW of, NEW b \in H, Finds(v, H, of), Finds(w, H \ {b}, of)
  PROVE  Lacks(w, v, of[b])
<1>1. \A c \in H : of[c] = of[b] => c = b
  BY DEF Finds
<1>2. DOMAIN w = DOMAIN v \ {of[b]}
  <2>1. DOMAIN w = {of[c] : c \in H \ {b}} /\ DOMAIN v = {of[c] : c \in H}
    BY DEF Finds
  <2> QED
    BY <1>1, <2>1
<1> QED
  BY <1>2 DEF Finds, Lacks

(* No bucket, no key. *)
LEMMA NoneFinds ==
  ASSUME NEW w, NEW of, Finds(w, {}, of)
  PROVE  w = <<>>
<1>1. w = [k \in DOMAIN w |-> w[k]] /\ DOMAIN w = {}
  BY DEF Finds
<1> QED
  BY <1>1

(* There are as many keys as buckets that have them. *)
LEMMA CountFinds ==
  ASSUME NEW w, NEW H, NEW of, Finds(w, H, of), IsFiniteSet(H)
  PROVE  Cardinality(DOMAIN w) = Cardinality(H)
<1>1. PICK f : f = [b \in H |-> of[b]]
  OBVIOUS
<1>2. f \in [H -> DOMAIN w] /\ \A b \in H : f[b] = of[b]
  BY <1>1 DEF Finds
<1>3. \A k \in DOMAIN w : \E b \in H : f[b] = k
  BY <1>2 DEF Finds
<1>4. \A a, b \in H : f[a] = f[b] => a = b
  BY <1>2 DEF Finds
<1>5. f \in Surjection(H, DOMAIN w) /\ f \in Injection(H, DOMAIN w)
  <2>1. f \in Surjection(H, DOMAIN w)
    BY <1>2, <1>3 DEF Surjection
  <2>2. f \in Injection(H, DOMAIN w)
    BY <1>2, <1>4 DEF Injection, IsInjective
  <2> QED
    BY <2>1, <2>2
<1>6. Cardinality(DOMAIN w) <= Cardinality(H) /\ IsFiniteSet(DOMAIN w)
  BY <1>5, FS_Surjection
<1>7. Cardinality(H) <= Cardinality(DOMAIN w)
  BY <1>5, <1>6, FS_Injection
<1> QED
  BY <1>6, <1>7, FS_CardinalityType

-----------------------------------------------------------------------------

\* The buckets from b on, which is in list x, and in the lists behind x.
Ahead(B, S, home, rank, x, b) ==
  {c \in B : home[c] \in S /\ (home[c] > x \/ (home[c] = x /\ rank[c] <= rank[b]))}

\* The buckets of the lists from i on.
From(B, S, home, i) == {c \in B : home[c] \in S /\ home[c] >= i}

\* The buckets from n on, or those of the lists behind x if n is NULL, are R.
Behind(B, S, home, rank, x, n, R) ==
  IF n = 0 THEN From(B, S, home, x + 1) = R ELSE Ahead(B, S, home, rank, x, n) = R

(* What lies behind bucket b lies behind or at the one it points to. *)
LEMMA AheadOfNext ==
  ASSUME NEW B, NEW next, NEW head, NEW home, NEW rank, NEW bound,
         Listed(B, next, head, home, rank, bound), B \subseteq Nat \ {0},
         NEW S, S \subseteq Nat, NEW b \in B, NEW x \in S, home[b] = x
  PROVE  Behind(B, S, home, rank, x, next[b], Ahead(B, S, home, rank, x, b) \ {b})
<1>0. \/ next[b] = 0 /\ \A c \in B : home[c] = x => rank[b] <= rank[c]
      \/ /\ next[b] \in B /\ home[next[b]] = x /\ rank[next[b]] < rank[b]
         /\ \A c \in B : home[c] = x /\ rank[c] < rank[b] => rank[c] <= rank[next[b]]
  <2>1. \/ next[b] = 0 /\ \A c \in B : home[c] = home[b] => rank[b] <= rank[c]
        \/ /\ next[b] \in B /\ home[next[b]] = home[b] /\ rank[next[b]] < rank[b]
           /\ \A c \in B : home[c] = home[b] /\ rank[c] < rank[b] => rank[c] <= rank[next[b]]
    BY DEF Listed
  <2> QED
    BY <2>1
<1>1. \A c \in B : home[c] \in Int /\ rank[c] \in Nat
  BY DEF Listed
<1>2. \A c \in B : home[c] = x /\ rank[c] = rank[b] => c = b
  BY DEF Listed
<1>3. x \in Nat
  OBVIOUS
<1>5. ASSUME next[b] # 0
      PROVE  Ahead(B, S, home, rank, x, next[b]) = Ahead(B, S, home, rank, x, b) \ {b}
  <2>1. /\ next[b] \in B /\ home[next[b]] = x /\ rank[next[b]] < rank[b]
        /\ \A c \in B : home[c] = x /\ rank[c] < rank[b] => rank[c] <= rank[next[b]]
    BY <1>0, <1>5
  <2>2. ASSUME NEW c \in B, home[c] = x
        PROVE  rank[c] <= rank[next[b]] <=> rank[c] <= rank[b] /\ c # b
    <3>1. rank[c] \in Nat /\ rank[b] \in Nat /\ rank[next[b]] \in Nat
      BY <1>1, <2>1
    <3>2. c # b => rank[c] # rank[b]
      BY <1>2, <2>2
    <3>3. rank[c] < rank[b] => rank[c] <= rank[next[b]]
      BY <2>1, <2>2
    <3> QED
      BY <2>1, <3>1, <3>2, <3>3
  <2>3. ASSUME NEW c \in B
        PROVE  c \in Ahead(B, S, home, rank, x, next[b]) <=>
                 c \in Ahead(B, S, home, rank, x, b) /\ c # b
    <3>1. CASE home[c] = x
      BY <1>3, <2>2, <3>1 DEF Ahead
    <3>2. CASE home[c] # x
      BY <1>3, <3>2 DEF Ahead
    <3> QED
      BY <3>1, <3>2
  <2>4. Ahead(B, S, home, rank, x, next[b]) \subseteq B /\ Ahead(B, S, home, rank, x, b) \subseteq B
    BY DEF Ahead
  <2> QED
    BY <2>3, <2>4
<1>6. ASSUME next[b] = 0
      PROVE  From(B, S, home, x + 1) = Ahead(B, S, home, rank, x, b) \ {b}
  <2>1. \A c \in B : home[c] = x => rank[b] <= rank[c]
    <3>1. CASE next[b] = 0 /\ \A c \in B : home[c] = x => rank[b] <= rank[c]
      BY <3>1
    <3>2. CASE next[b] \in B /\ rank[next[b]] < rank[b] /\ home[next[b]] = x
      <4>1. 0 \notin B
        OBVIOUS
      <4> QED
        BY <1>6, <3>2, <4>1
    <3> QED
      BY <1>0, <3>1, <3>2
  <2>2. ASSUME NEW c \in B, home[c] = x, rank[c] <= rank[b]
        PROVE  c = b
    <3>1. PICK m, n \in Nat : m = rank[c] /\ n = rank[b]
      BY <1>1
    <3>2. n <= m /\ m <= n
      BY <2>1, <2>2, <3>1
    <3>3. m = n
      BY <3>2
    <3> QED
      BY <1>2, <2>2, <3>1, <3>3
  <2>3. ~(home[b] > x)
    BY <1>3
  <2>4. ASSUME NEW c \in B, home[c] \in S
        PROVE  home[c] >= x + 1 <=> home[c] > x
    <3>1. PICK m \in Nat : m = home[c]
      BY <2>4
    <3> QED
      BY <1>3, <3>1
  <2> QED
    BY <2>2, <2>3, <2>4 DEF Ahead, From
<1> QED
  BY <1>5, <1>6 DEF Behind

-----------------------------------------------------------------------------

(* The dictionary sends the key of each bucket that holds one to that bucket. *)
LEMMA WhereIs ==
  \A home, rank, bound :
    Typed /\ Lists(home, rank, bound) /\ Placed(home) => Finds(Where, HeldAt(home), key)
<1> SUFFICES ASSUME NEW home, NEW rank, NEW bound,
                    Typed, Lists(home, rank, bound), Placed(home)
             PROVE  Finds(Where, HeldAt(home), key)
  OBVIOUS
<1>1. Held = HeldAt(home)
  BY HeldAre
<1>2. Where = [k \in {key[b] : b \in HeldAt(home)} |-> CHOOSE b \in HeldAt(home) : key[b] = k]
  BY <1>1 DEF Where
<1>3. \A a, b \in HeldAt(home) : key[a] = key[b] => a = b
  BY DEF Placed
<1>4. ASSUME NEW b \in HeldAt(home)
      PROVE  Where[key[b]] = b
  <2>1. Where[key[b]] = CHOOSE a \in HeldAt(home) : key[a] = key[b]
    BY <1>2
  <2> QED
    BY <1>3, <2>1
<1> QED
  BY <1>2, <1>4 DEF Finds

\* The buckets that an iteration from slot i on has yet to leave.
ToVisit(home, rank) == Ahead(Bucket, DOMAIN slots, home, rank, iterator.index, iterator.bucket)

(* The keys of the chains, from the bucket under the iterator on. *)
VisitsAhead(home, rank) ==
  IF iterator.bucket = NULL THEN Visit = {} /\ At = {}
  ELSE /\ Visit = {key[c] : c \in ToVisit(home, rank)} /\ At = {key[iterator.bucket]}
       /\ iterator.bucket \in ToVisit(home, rank) /\ ToVisit(home, rank) \subseteq HeldAt(home)

(* What the iteration has yet to visit. *)
LEMMA VisitIs ==
  \A home, rank, bound :
    Typed /\ Lists(home, rank, bound) /\ Placed(home) => VisitsAhead(home, rank)
<1> SUFFICES ASSUME NEW home, NEW rank, NEW bound,
                    Typed, Lists(home, rank, bound), Placed(home)
             PROVE  VisitsAhead(home, rank)
  OBVIOUS
<1>1. CASE iterator.bucket = NULL
  BY <1>1 DEF VisitsAhead, Visit, At
<1>2. CASE iterator.bucket # NULL
  <2>1. PICK b : b = iterator.bucket
    OBVIOUS
  <2>2. PICK x : x = iterator.index
    OBVIOUS
  <2>3. b \in Bucket /\ home[b] = x /\ x \in DOMAIN slots /\ DOMAIN slots \subseteq Nat
    BY <1>2, <2>1, <2>2, HeadsAre DEF Placed, Typed
  <2>4. BucketsFrom(b) = {c \in Bucket : home[c] = x /\ rank[c] <= rank[b]}
    BY <2>3, BucketsFromAre
  <2>5. \A j \in DOMAIN slots : BucketsFrom(slots[j]) = {c \in Bucket : home[c] = j}
    BY <2>3, HeadsAre, ListIs
  <2>6. BucketsFrom(b) \cup
          UNION {BucketsFrom(slots[i]) : i \in {j \in DOMAIN slots : j > x}} =
        Ahead(Bucket, DOMAIN slots, home, rank, x, b)
    <3>1. UNION {BucketsFrom(slots[i]) : i \in {j \in DOMAIN slots : j > x}} =
            {c \in Bucket : home[c] \in DOMAIN slots /\ home[c] > x}
      BY <2>5
    <3> QED
      BY <2>3, <2>4, <3>1 DEF Ahead
  <2>7. Visit = {key[c] : c \in Ahead(Bucket, DOMAIN slots, home, rank, x, b)}
    BY <1>2, <2>1, <2>2, <2>6 DEF Visit
  <2>8. At = {key[b]}
    BY <1>2, <2>1 DEF At
  <2>9. b \in Ahead(Bucket, DOMAIN slots, home, rank, x, b)
    <3>1. rank[b] \in Nat
      BY <2>3 DEF Lists, Listed
    <3> QED
      BY <2>3, <3>1 DEF Ahead
  <2>10. Ahead(Bucket, DOMAIN slots, home, rank, x, b) \subseteq HeldAt(home)
    BY <2>3 DEF Ahead, HeldAt, FreeList
  <2> QED
    BY <1>2, <2>1, <2>2, <2>7, <2>8, <2>9, <2>10 DEF VisitsAhead, ToVisit
<1> QED
  BY <1>1, <1>2

(* The same of the state behind a step. *)
LEMMA WhereIsNext ==
  \A home, rank, bound :
    Typed' /\ Lists(home, rank, bound)' /\ Placed(home)' => Finds(Where', HeldAt(home)', key')
<1>1. \A home, rank, bound :
        Typed /\ Lists(home, rank, bound) /\ Placed(home) => Finds(Where, HeldAt(home), key)
  BY WhereIs
<1>2. (\A home, rank, bound :
         Typed /\ Lists(home, rank, bound) /\ Placed(home) => Finds(Where, HeldAt(home), key))'
  BY <1>1, PTL
<1> QED
  BY <1>2 DEF Finds

(* The same of the state behind a step. *)
LEMMA VisitIsNext ==
  \A home, rank, bound :
    Typed' /\ Lists(home, rank, bound)' /\ Placed(home)' => VisitsAhead(home, rank)'
<1>1. \A home, rank, bound :
        Typed /\ Lists(home, rank, bound) /\ Placed(home) => VisitsAhead(home, rank)
  BY VisitIs
<1>2. (\A home, rank, bound :
         Typed /\ Lists(home, rank, bound) /\ Placed(home) => VisitsAhead(home, rank))'
  BY <1>1, PTL
<1> QED
  BY <1>2

(* A step that neither adds nor removes a bucket keeps the dictionary. *)
LEMMA KeepsWhere ==
  ASSUME Typed, NEW home, NEW rank, NEW bound, Lists(home, rank, bound), Placed(home),
         Typed', NEW home2, NEW rank2, NEW bound2, Lists(home2, rank2, bound2)', Placed(home2)',
         HeldAt(home2)' = HeldAt(home), key' = key
  PROVE  Where' = Where
<1>1. Finds(Where, HeldAt(home), key)
  BY WhereIs
<1>2. Finds(Where', HeldAt(home2)', key')
  BY WhereIsNext
<1>3. Finds(Where', HeldAt(home), key)
  BY <1>2
<1> QED
  BY <1>1, <1>3, SameFinds

(* An iterator that has ended visits nothing. *)
LEMMA NothingToVisit ==
  ASSUME iterator.bucket = NULL
  PROVE  Visit = {} /\ At = {}
BY DEF Visit, At

(* A step that leaves the chains and the iterator alone keeps the iteration. *)
LEMMA KeepsVisit ==
  ASSUME iterator' = iterator, iterator.bucket = NULL \/ UNCHANGED <<slots, key, link>>
  PROVE  Visit' = Visit /\ At' = At
<1>1. CASE iterator.bucket = NULL
  BY <1>1 DEF Visit, At, NULL
<1>2. CASE UNCHANGED <<slots, key, link>>
  <2>1. \A b : Chain(b)' = Chain(b)
    BY <1>2 DEF Chain, NULL
  <2>2. \A b : BucketsFrom(b)' = BucketsFrom(b)
    BY <2>1 DEF BucketsFrom
  <2>3. Visit' = Visit
    BY <1>2, <2>2 DEF Visit, NULL
  <2> QED
    BY <1>2, <2>3 DEF At, NULL
<1> QED
  BY <1>1, <1>2

(* The iteration stands on one of the keys it has yet to leave. *)
LEMMA IteratorStands ==
  ASSUME NEW home, NEW rank, VisitsAhead(home, rank)'
  PROVE  Abstract!StandOn(Visit')
<1>1. CASE iterator'.bucket = NULL
  BY <1>1 DEF VisitsAhead, Abstract!StandOn, NULL
<1>2. CASE iterator'.bucket # NULL
  <2>1. /\ Visit' = {key'[c] : c \in ToVisit(home, rank)'} /\ At' = {key'[iterator'.bucket]}
        /\ iterator'.bucket \in ToVisit(home, rank)'
    BY <1>2 DEF VisitsAhead, NULL
  <2> QED
    BY <2>1 DEF Abstract!StandOn
<1> QED
  BY <1>1, <1>2

(* What get finds is what the dictionary has for the key. *)
LEMMA FindLooksUp ==
  ASSUME Typed, NEW home, NEW rank, NEW bound, Lists(home, rank, bound), Placed(home),
         Ready, NEW k \in Keys
  PROVE  /\ Abstract!Lookup(k) = Find(k)
         /\ k \in DOMAIN Where <=> Find(k) # NULL
<1>1. Finds(Where, HeldAt(home), key)
  BY WhereIs
<1>2. NULL \notin HeldAt(home)
  BY DEF HeldAt, Bucket, NULL
<1>3. \/ Find(k) = NULL /\ \A b \in HeldAt(home) : key[b] # k
      \/ Find(k) \in HeldAt(home) /\ key[Find(k)] = k
  BY FindIs
<1> QED
  BY <1>1, <1>2, <1>3 DEF Abstract!Lookup, Finds, NULL
-----------------------------------------------------------------------------

(* The abstract specification counts as this one does. *)
LEMMA SameCardinality == \A S : Abstract!Cardinality(S) = Cardinality(S)
BY DEF Cardinality, Abstract!Cardinality

(* Calls that read the map, or refuse a key, do what they do to a dictionary. *)
LEMMA ReadsRefine ==
  ASSUME Typed, NEW home, NEW rank, NEW bound, Lists(home, rank, bound),
         Placed(home), Counted(home), NEW k \in Keys,
         Get(k) \/ GetOrCreateFinds(k) \/ GetOrCreateRefuses(k) \/ IteratorGet
  PROVE  Abstract!Get(k) \/ Abstract!Find(k) \/ Abstract!Refuse(k) \/ Abstract!Current
<1>1. /\ Typed' /\ Lists(home, rank, bound)' /\ HeldAt(home)' = HeldAt(home) /\ Placed(home)'
  BY Reads
<1>2. UNCHANGED <<slots, key, link, growth, iterator>>
  BY DEF Get, GetOrCreateFinds, GetOrCreateRefuses, IteratorGet, table
<1>3. Where' = Where /\ Visit' = Visit /\ At' = At
  <2>1. Where' = Where
    BY <1>1, <1>2, KeepsWhere
  <2> QED
    BY <1>2, <2>1, KeepsVisit
<1>4. CASE Get(k)
  <2>1. Abstract!Lookup(k) = Find(k)
    BY <1>4, FindLooksUp DEF Get
  <2> QED
    BY <1>3, <1>4, <2>1 DEF Get, Abstract!Get, Answer, Abstract!Answer
<1>5. CASE GetOrCreateFinds(k)
  <2>1. Abstract!Lookup(k) = Find(k) /\ k \in DOMAIN Where
    BY <1>5, FindLooksUp DEF GetOrCreateFinds
  <2>2. Where[k] = Find(k)
    BY <2>1 DEF Abstract!Lookup
  <2> QED
    BY <1>3, <1>5, <2>1, <2>2 DEF GetOrCreateFinds, Abstract!Find, Answer, Abstract!Answer
<1>6. CASE GetOrCreateRefuses(k)
  <2>1. /\ Ready /\ Find(k) = NULL /\ size + 1 > Capacity /\ capacityIndex = Len(Capacities)
        /\ answer' = Answer(k, NULL, FALSE) /\ refused' = TRUE
    BY <1>6 DEF GetOrCreateRefuses, MayCreate
  <2>2. k \notin DOMAIN Where
    BY <2>1, FindLooksUp
  <2>3. ~refused => Cardinality(DOMAIN Where) = Capacities[Len(Capacities)]
    <3> HAVE ~refused
    <3>1. Cardinality(DOMAIN Where) = Cardinality(HeldAt(home))
      BY WhereIs, CountFinds DEF Counted
    <3>2. Pending = 0
      BY <2>1 DEF Pending, Ready
    <3>3. Cardinality(HeldAt(home)) + 0 = size /\ size <= Capacity
      BY <3>2 DEF Counted
    <3>4. Cardinality(HeldAt(home)) \in Nat /\ size \in Nat
      BY FS_CardinalityType DEF Counted, Typed
    <3>5. Capacity \in Nat /\ Capacity = Capacities[Len(Capacities)]
      BY <2>1, SlotOfKey DEF Capacity
    <3> QED
      BY <2>1, <3>1, <3>3, <3>4, <3>5
  <2>4. Abstract!Refuse(k)
    BY <1>3, <2>1, <2>2, <2>3, SameCardinality DEF Abstract!Refuse, Answer, Abstract!Answer, NULL
  <2> QED
    BY <2>4
<1>7. CASE IteratorGet
  <2>1. /\ Ready /\ iterator.bucket # NULL /\ refused' = refused
        /\ answer' = Answer(key[iterator.bucket], iterator.bucket, FALSE)
    BY <1>7 DEF IteratorGet, HasNext
  <2>2. At = {key[iterator.bucket]} /\ iterator.bucket \in HeldAt(home)
    BY <2>1, VisitIs DEF VisitsAhead
  <2>3. Where[key[iterator.bucket]] = iterator.bucket
    BY <2>2, WhereIs DEF Finds
  <2>4. Abstract!Current
    BY <1>3, <2>1, <2>2, <2>3 DEF Abstract!Current, Answer, Abstract!Answer
  <2> QED
    BY <2>4
<1> QED
  BY <1>4, <1>5, <1>6, <1>7

(* A key that was not in the map is created at an address of its own. *)
LEMMA LinksRefine ==
  ASSUME Typed, NEW home, NEW rank, NEW bound, Lists(home, rank, bound),
         Placed(home), Counted(home), NEW k \in Keys,
         GetOrCreateLinks(k) \/ (FinishGrowth /\ k = growth.key)
  PROVE  Abstract!Create(k)
<1>1. /\ Typed'
      /\ \A c \in HeldAt(home) : key[c] # k
      /\ iterator.bucket = NULL /\ iterator' = iterator /\ refused' = refused
      /\ \E b, home2, rank2, bound2 :
           /\ LinkedAt(b, k, home, rank, home2, rank2, bound2)
           /\ HeldAt(home2)' = HeldAt(home) \cup {b}
           /\ Placed(home2)'
  BY Links
<1>2. PICK b, home2, rank2, bound2 :
        /\ LinkedAt(b, k, home, rank, home2, rank2, bound2)
        /\ HeldAt(home2)' = HeldAt(home) \cup {b}
        /\ Placed(home2)'
  BY <1>1
<1>3. /\ b \in Nat \ {0} /\ b \notin HeldAt(home)
      /\ key'[b] = k /\ answer' = Answer(k, b, TRUE)
      /\ \A c \in Bucket \ {b} : key'[c] = key[c]
      /\ Lists(home2, rank2, bound2)'
  BY <1>2 DEF LinkedAt, Lists
<1>4. \A c \in HeldAt(home) : key'[c] = key[c] /\ key[c] # key'[b]
  BY <1>1, <1>3 DEF HeldAt
<1>5. Finds(Where, HeldAt(home), key)
  BY WhereIs
<1>6. Finds(Where', HeldAt(home) \cup {b}, key')
  <2>1. Finds(Where', HeldAt(home2)', key')
    BY <1>1, <1>2, <1>3, WhereIsNext
  <2> QED
    BY <1>2, <2>1
<1>7. /\ k \notin DOMAIN Where /\ b \notin {Where[j] : j \in DOMAIN Where}
      /\ Where' = [j \in DOMAIN Where \cup {k} |-> IF j = k THEN b ELSE Where[j]]
  <2> DEFINE of2 == key'
             w == Where'
  <2>1. /\ Finds(w, HeldAt(home) \cup {b}, of2) /\ of2[b] = k
        /\ Joins(b, HeldAt(home), key, of2)
    BY <1>3, <1>4, <1>6 DEF Joins
  <2> HIDE DEF of2, w
  <2>2. Adds(w, Where, of2[b], b)
    BY <1>5, <2>1, MoreFinds
  <2>3. w = [j \in DOMAIN Where \cup {k} |-> IF j = k THEN b ELSE Where[j]]
    BY <2>1, <2>2 DEF Adds
  <2> QED
    BY <2>1, <2>2, <2>3 DEF w, Adds
<1>8. Visit = {} /\ Visit' = {} /\ At' = At
  <2>1. Visit = {}
    BY <1>1, NothingToVisit
  <2>2. Visit' = Visit /\ At' = At
    BY <1>1, KeepsVisit
  <2> QED
    BY <2>1, <2>2
<1>9. answer'.address = b
  BY <1>3 DEF Answer
<1> QED
  BY <1>1, <1>3, <1>7, <1>8, <1>9 DEF Abstract!Create, Abstract!Address, Answer, Abstract!Answer
-----------------------------------------------------------------------------

(* Relinking the chains under a larger array changes nothing clients see. *)
LEMMA GrowthRefines ==
  ASSUME Typed, NEW home, NEW rank, NEW bound, Lists(home, rank, bound),
         Placed(home), Counted(home), NEW k \in Keys,
         GetOrCreateGrows(k) \/ RelinkNextChain \/ RelinkBucket
  PROVE  UNCHANGED <<Where, Visit, At, refused, answer>>
<1>1. /\ Typed'
      /\ iterator.bucket = NULL /\ iterator' = iterator /\ refused' = refused
      /\ answer' = answer
      /\ \E home2, rank2, bound2 :
           Moved(home, home2, rank2, bound2) /\ Placed(home2)'
  <2>1. CASE GetOrCreateGrows(k)
    BY <2>1, Grows
  <2>2. CASE RelinkNextChain
    BY <2>2, TakesNextChain
  <2>3. CASE RelinkBucket
    BY <2>3, MovesBucket
  <2> QED
    BY <2>1, <2>2, <2>3
<1>2. PICK home2, rank2, bound2 : Moved(home, home2, rank2, bound2) /\ Placed(home2)'
  BY <1>1
<1>3. HeldAt(home2)' = HeldAt(home) /\ key' = key /\ Lists(home2, rank2, bound2)'
  BY <1>2, MovedHeld DEF Moved, Lists
<1>4. Where' = Where
  BY <1>1, <1>2, <1>3, KeepsWhere
<1>5. Visit' = Visit /\ At' = At
  BY <1>1, KeepsVisit
<1> QED
  BY <1>1, <1>4, <1>5

(* A map that has been reset has no keys. *)
LEMMA ResetRefines ==
  ASSUME Typed, Reset
  PROVE  Abstract!Clear
<1>1. /\ iterator.bucket = NULL /\ iterator' = iterator /\ refused' = FALSE /\ answer' = answer
  BY DEF Reset
<1>2. /\ Typed'
      /\ \A home, rank : Lists(home, rank, 0)' /\ HeldAt(home)' = {} /\ Placed(home)'
  BY Resets
<1>3. PICK home : home = 0
  OBVIOUS
<1>4. Lists(home, home, 0)' /\ HeldAt(home)' = {} /\ Placed(home)'
  BY <1>2
<1>5. Finds(Where', {}, key')
  <2>1. Finds(Where', HeldAt(home)', key')
    BY <1>2, <1>4, WhereIsNext
  <2> QED
    BY <1>4, <2>1
<1>6. Where' = <<>>
  BY <1>5, NoneFinds
<1>7. Visit = {} /\ Visit' = Visit /\ At' = At
  BY <1>1, NothingToVisit, KeepsVisit
<1> QED
  BY <1>1, <1>6, <1>7 DEF Abstract!Clear

\* The slots of an array are the first buckets of lists.
FirstBuckets(array, head) ==
  DOMAIN array \subseteq Nat /\ \A j \in DOMAIN array : head[j] = array[j]

\* Iterator "it" has all lists from i on ahead.
AllAhead(B, S, home, rank, i, it) ==
  IF it.bucket = 0 THEN From(B, S, home, i) = {}
  ELSE Ahead(B, S, home, rank, it.index, it.bucket) = From(B, S, home, i)

(* The iterator behind FirstFrom has all lists from i on ahead. *)
LEMMA AheadOfFirst ==
  ASSUME NEW B, NEW next, NEW head, NEW home, NEW rank, NEW bound,
         Listed(B, next, head, home, rank, bound), B \subseteq Nat \ {0},
         NEW array, FirstBuckets(array, head),
         NEW i \in Nat, NEW it, it = FirstFrom(array, i)
  PROVE  AllAhead(B, DOMAIN array, home, rank, i, it)
<1> DOMAIN array \subseteq Nat /\ \A j \in DOMAIN array : head[j] = array[j]
  BY DEF FirstBuckets
<1>1. /\ (\A j \in DOMAIN array : j >= i => head[j] = 0) =>
           From(B, DOMAIN array, home, i) = {}
      /\ \A j \in DOMAIN array :
           j >= i /\ head[j] # 0 /\ (\A h \in DOMAIN array : h >= i /\ head[h] # 0 => j <= h) =>
             Ahead(B, DOMAIN array, home, rank, j, head[j]) =
               From(B, DOMAIN array, home, i)
  <2>0. PICK S \in SUBSET Nat : S = DOMAIN array
    OBVIOUS
  <2>1. ASSUME NEW c \in B, home[c] \in S
        PROVE  head[home[c]] # 0 /\ rank[c] <= rank[head[home[c]]] /\ home[c] \in Nat
    <3>1. PICK r \in Int : r = home[c]
      BY DEF Listed
    <3>2. head[r] # 0 /\ rank[c] <= rank[head[r]]
      <4>1. \/ head[r] = 0 /\ \A b \in B : home[b] # r
            \/ /\ head[r] \in B /\ home[head[r]] = r
               /\ \A b \in B : home[b] = r => rank[b] <= rank[head[r]]
        BY DEF Listed
      <4> QED
        BY <3>1, <4>1
    <3> QED
      BY <2>1, <3>1, <3>2
  <2>2. ASSUME \A j \in S : j >= i => head[j] = 0
        PROVE  From(B, S, home, i) = {}
    BY <2>1, <2>2 DEF From
  <2>3. ASSUME NEW j \in S, j >= i, head[j] # 0, \A h \in S : h >= i /\ head[h] # 0 => j <= h
        PROVE  Ahead(B, S, home, rank, j, head[j]) = From(B, S, home, i)
    <3>1. j \in Nat
      OBVIOUS
    <3>2. ASSUME NEW c \in B, home[c] \in S, home[c] >= i
          PROVE  c \in Ahead(B, S, home, rank, j, head[j])
      <4>1. j <= home[c] /\ home[c] \in Nat
        BY <2>1, <2>3, <3>2
      <4>2. CASE home[c] = j
        BY <2>1, <3>2, <4>2 DEF Ahead
      <4>3. CASE home[c] # j
        BY <3>1, <3>2, <4>1, <4>3 DEF Ahead
      <4> QED
        BY <4>2, <4>3
    <3>3. ASSUME NEW c \in Ahead(B, S, home, rank, j, head[j])
          PROVE  c \in B /\ home[c] \in S /\ home[c] >= i
      <4>1. c \in B /\ home[c] \in S /\ (home[c] > j \/ home[c] = j)
        BY DEF Ahead
      <4>2. home[c] \in Nat
        BY <4>1
      <4> QED
        BY <2>3, <3>1, <4>1, <4>2
    <3>4. Ahead(B, S, home, rank, j, head[j]) \subseteq B
      BY DEF Ahead
    <3> QED
      BY <3>2, <3>3, <3>4 DEF From
  <2> QED
    BY <2>0, <2>2, <2>3
<1>2. CASE FirstFrom(array, i) = Ended /\ \A j \in DOMAIN array : j >= i => array[j] = NULL
  <2>1. it.bucket = 0
    BY <1>2 DEF Ended, NULL
  <2>2. \A j \in DOMAIN array : j >= i => head[j] = 0
    BY <1>2 DEF NULL
  <2> QED
    BY <1>1, <2>1, <2>2 DEF AllAhead
<1>3. ASSUME NEW j \in DOMAIN array,
             FirstFrom(array, i) = [index |-> j, bucket |-> array[j]],
             j >= i, array[j] # NULL,
             \A h \in DOMAIN array : h >= i /\ array[h] # NULL => j <= h
      PROVE  /\ it.bucket # 0
             /\ Ahead(B, DOMAIN array, home, rank, it.index, it.bucket) =
                  From(B, DOMAIN array, home, i)
  <2>1. it.bucket = head[j] /\ it.index = j /\ head[j] # 0
    BY <1>3 DEF NULL
  <2>2. \A h \in DOMAIN array : h >= i /\ head[h] # 0 => j <= h
    BY <1>3 DEF NULL
  <2>3. Ahead(B, DOMAIN array, home, rank, j, head[j]) =
          From(B, DOMAIN array, home, i)
    BY <1>1, <1>3, <2>1, <2>2
  <2> QED
    BY <2>1, <2>3
<1> QED
  BY <1>2, <1>3, FirstFromIs DEF AllAhead

\* Homes and ranks are as before, but bucket b may have left the lists S.
Without(B, S, b, home, rank, home2, rank2) ==
  /\ \A c \in B \ {b} : home2[c] = home[c] /\ rank2[c] = rank[c]
  /\ home2[b] \notin S \/ (home2[b] = home[b] /\ rank2[b] = rank[b])

(* The same where b may have left its list meanwhile. *)
LEMMA AheadWithout ==
  ASSUME NEW B, NEW next, NEW head, NEW home, NEW rank, NEW bound,
         Listed(B, next, head, home, rank, bound), B \subseteq Nat \ {0},
         NEW S, S \subseteq Nat, NEW b \in B, NEW x \in S, home[b] = x,
         NEW home2, NEW rank2, Without(B, S, b, home, rank, home2, rank2)
  PROVE  Behind(B, S, home2, rank2, x, next[b], Ahead(B, S, home, rank, x, b) \ {b})
<1>1. IF next[b] = 0 THEN From(B, S, home, x + 1) = Ahead(B, S, home, rank, x, b) \ {b}
      ELSE Ahead(B, S, home, rank, x, next[b]) = Ahead(B, S, home, rank, x, b) \ {b}
  <2>1. Behind(B, S, home, rank, x, next[b], Ahead(B, S, home, rank, x, b) \ {b})
    BY AheadOfNext
  <2> QED
    BY <2>1 DEF Behind
<1> /\ \A c \in B \ {b} : home2[c] = home[c] /\ rank2[c] = rank[c]
    /\ home2[b] \notin S \/ (home2[b] = home[b] /\ rank2[b] = rank[b])
  BY DEF Without
<1>2. CASE next[b] = 0
  <2>1. b \notin From(B, S, home2, x + 1)
    <3>1. CASE home2[b] \notin S
      BY <3>1 DEF From
    <3>2. CASE home2[b] = x
      BY <3>2 DEF From
    <3> QED
      BY <3>1, <3>2
  <2>2. \A c \in B \ {b} : c \in From(B, S, home2, x + 1) <=> c \in From(B, S, home, x + 1)
    BY DEF From
  <2>3. b \notin From(B, S, home, x + 1)
    BY DEF From
  <2>4. From(B, S, home2, x + 1) \subseteq B /\ From(B, S, home, x + 1) \subseteq B
    BY DEF From
  <2>5. ASSUME NEW c \in B
        PROVE  c \in From(B, S, home2, x + 1) <=> c \in From(B, S, home, x + 1)
    <3>1. CASE c = b
      BY <2>1, <2>3, <3>1
    <3>2. CASE c # b
      BY <2>2, <3>2
    <3> QED
      BY <3>1, <3>2
  <2>6. From(B, S, home2, x + 1) = From(B, S, home, x + 1)
    BY <2>4, <2>5
  <2> QED
    BY <1>1, <1>2, <2>6 DEF Behind
<1>3. CASE next[b] # 0
  <2>1. PICK n : n = next[b]
    OBVIOUS
  <2>2. n \in B /\ rank[n] < rank[b] /\ rank[n] \in Nat /\ rank[b] \in Nat
    BY <1>3, <2>1 DEF Listed
  <2>3. n # b /\ rank2[n] = rank[n]
    BY <2>2
  <2>4. b \notin Ahead(B, S, home2, rank2, x, n)
    BY <2>2, <2>3 DEF Ahead
  <2>5. b \notin Ahead(B, S, home, rank, x, n)
    BY <2>2 DEF Ahead
  <2>6. \A c \in B \ {b} : c \in Ahead(B, S, home2, rank2, x, n) <=> c \in Ahead(B, S, home, rank, x, n)
    BY <2>3 DEF Ahead
  <2>7. Ahead(B, S, home2, rank2, x, n) \subseteq B /\ Ahead(B, S, home, rank, x, n) \subseteq B
    BY DEF Ahead
  <2>8. Ahead(B, S, home2, rank2, x, n) = Ahead(B, S, home, rank, x, n)
    <3>1. ASSUME NEW c \in B
          PROVE  c \in Ahead(B, S, home2, rank2, x, n) <=> c \in Ahead(B, S, home, rank, x, n)
      <4>1. CASE c = b
        BY <2>4, <2>5, <4>1
      <4>2. CASE c # b
        BY <2>6, <4>2
      <4> QED
        BY <4>1, <4>2
    <3> QED
      BY <2>7, <3>1
  <2> QED
    BY <1>1, <1>3, <2>1, <2>8 DEF Behind
<1> QED
  BY <1>2, <1>3

(* An iteration begins with all keys. *)
LEMMA InitIteratorRefines ==
  ASSUME Typed, NEW home, NEW rank, NEW bound, Lists(home, rank, bound),
         Placed(home), Counted(home), IteratorInit
  PROVE  Abstract!Iterate
<1>1. Typed' /\ Lists(home, rank, bound)' /\ HeldAt(home)' = HeldAt(home) /\ Placed(home)'
  BY Iterates
<1>2. /\ UNCHANGED <<slots, key, link, free, growth, answer, refused>>
      /\ iterator' = FirstFrom(slots, 0) /\ Ready
  BY DEF IteratorInit, table
<1>3. Where' = Where
  BY <1>1, <1>2, KeepsWhere
<1>4. VisitsAhead(home, rank)'
  BY <1>1, VisitIsNext
<1>5. Bucket' = Bucket /\ Bucket \subseteq Nat \ {0}
  BY <1>2, PointersLead DEF Bucket
<1>6. PICK it : it = iterator'
  OBVIOUS
<1>7. From(Bucket, DOMAIN slots, home, 0) = HeldAt(home)
  <2>1. \A c \in Bucket : home[c] \in DOMAIN slots \/ home[c] = FreeList
    BY <1>2, HomesWhenReady
  <2>2. DOMAIN slots \subseteq Nat
    BY HeadsAre
  <2> QED
    BY <2>1, <2>2 DEF From, HeldAt, FreeList
<1>8. IF it.bucket = 0 THEN HeldAt(home) = {}
      ELSE Ahead(Bucket, DOMAIN slots, home, rank, it.index, it.bucket) = HeldAt(home)
  <2>1. /\ FirstBuckets(slots, ListHead)
        /\ Listed(Bucket, link, ListHead, home, rank, bound) /\ it = FirstFrom(slots, 0)
    BY <1>2, <1>6, HeadsAre DEF Lists, FirstBuckets
  <2>2. AllAhead(Bucket, DOMAIN slots, home, rank, 0, it)
    BY <1>5, <2>1, AheadOfFirst
  <2> QED
    BY <1>7, <2>2 DEF AllAhead
<1>9. Visit' = {key[c] : c \in HeldAt(home)}
  <2>1. CASE iterator'.bucket = NULL
    BY <1>4, <1>6, <1>8, <2>1 DEF VisitsAhead, NULL
  <2>2. CASE iterator'.bucket # NULL
    <3>1. Visit' = {key'[c] : c \in ToVisit(home, rank)'}
      BY <1>4, <2>2 DEF VisitsAhead, NULL
    <3>2. ToVisit(home, rank)' = Ahead(Bucket, DOMAIN slots, home, rank, it.index, it.bucket)
      BY <1>2, <1>5, <1>6 DEF ToVisit
    <3> QED
      BY <1>2, <1>6, <1>8, <2>2, <3>1, <3>2 DEF NULL
  <2> QED
    BY <2>1, <2>2
<1>10. DOMAIN Where = {key[c] : c \in HeldAt(home)}
  BY WhereIs DEF Finds
<1>11. Abstract!StandOn(Visit')
  BY <1>4, IteratorStands
<1> QED
  BY <1>2, <1>3, <1>9, <1>10, <1>11 DEF Abstract!Iterate, Abstract!StandOn
(* The iterator leaves the bucket it stands on, and no other. *)
LEMMA ContinueLeaves ==
  ASSUME Typed, NEW home, NEW rank, NEW bound, Lists(home, rank, bound), Placed(home),
         HasNext, key' = key, DOMAIN slots' = DOMAIN slots,
         NEW home2, NEW rank2, NEW bound2,
         Lists(home2, rank2, bound2)', VisitsAhead(home2, rank2)',
         Without(Bucket, DOMAIN slots, iterator.bucket, home, rank, home2, rank2),
         Continue(slots', link[iterator.bucket])
  PROVE  Visit' = Visit \ At
<1>1. PICK b : b = iterator.bucket
  OBVIOUS
<1>2. PICK x : x = iterator.index
  OBVIOUS
<1>3. PICK A : A = Ahead(Bucket, DOMAIN slots, home, rank, x, b)
  OBVIOUS
<1>4. VisitsAhead(home, rank)
  BY VisitIs
<1>5. /\ Visit = {key[c] : c \in A} /\ At = {key[b]} /\ b \in A /\ A \subseteq HeldAt(home)
  BY <1>1, <1>2, <1>3, <1>4 DEF VisitsAhead, ToVisit, HasNext
<1>6. /\ b \in Bucket /\ home[b] = x /\ x \in DOMAIN slots /\ DOMAIN slots \subseteq Nat
      /\ Bucket \subseteq Nat \ {0} /\ Bucket' = Bucket
      /\ iterator = [index |-> x, bucket |-> b]
  BY <1>1, <1>2, HeadsAre, PointersLead DEF HasNext, Placed, Typed, Bucket
<1>7. IF link[b] = 0 THEN From(Bucket, DOMAIN slots, home2, x + 1) = A \ {b}
      ELSE Ahead(Bucket, DOMAIN slots, home2, rank2, x, link[b]) = A \ {b}
  <2>1. Without(Bucket, DOMAIN slots, b, home, rank, home2, rank2)
    BY <1>1
  <2>2. Listed(Bucket, link, ListHead, home, rank, bound)
    BY DEF Lists
  <2> QED
    <3>1. Behind(Bucket, DOMAIN slots, home2, rank2, x, link[b],
                 Ahead(Bucket, DOMAIN slots, home, rank, x, b) \ {b})
      BY <1>6, <2>1, <2>2, AheadWithout
    <3> QED
      BY <1>3, <3>1 DEF Behind
<1>8. PICK it : it = iterator'
  OBVIOUS
<1>9. IF it.bucket = 0 THEN A \ {b} = {}
      ELSE Ahead(Bucket, DOMAIN slots, home2, rank2, it.index, it.bucket) = A \ {b}
  <2>1. CASE link[b] # NULL
    <3>1. it = [index |-> x, bucket |-> link[b]]
      <4>1. it = [iterator EXCEPT !.bucket = link[b]]
        BY <1>1, <1>8, <2>1 DEF Continue
      <4> QED
        BY <1>6, <4>1
    <3> QED
      BY <1>7, <2>1, <3>1 DEF NULL
  <2>2. CASE link[b] = NULL
    <3>1. it = FirstFrom(slots', x + 1) /\ x + 1 \in Nat
      BY <1>1, <1>2, <1>6, <1>8, <2>2 DEF Continue
    <3>2. FirstBuckets(slots', ListHead')
      BY <1>6 DEF FirstBuckets, ListHead
    <3>3. Listed(Bucket, link', ListHead', home2, rank2, bound2)
      BY <1>6 DEF Lists
    <3>4. AllAhead(Bucket, DOMAIN slots, home2, rank2, x + 1, it)
      <4> DEFINE L == link'
                 H == ListHead'
                 array == slots'
      <4>1. /\ Listed(Bucket, L, H, home2, rank2, bound2) /\ FirstBuckets(array, H)
            /\ it = FirstFrom(array, x + 1) /\ DOMAIN array = DOMAIN slots
        BY <3>1, <3>2, <3>3
      <4> HIDE DEF L, H, array
      <4>2. AllAhead(Bucket, DOMAIN array, home2, rank2, x + 1, it)
        BY <1>6, <3>1, <4>1, AheadOfFirst
      <4> QED
        BY <4>1, <4>2
    <3> QED
      BY <1>7, <2>2, <3>4 DEF AllAhead, NULL
  <2> QED
    BY <2>1, <2>2
<1>10. Visit' = {key[c] : c \in A \ {b}}
  <2>1. CASE iterator'.bucket = NULL
    BY <1>8, <1>9, <2>1 DEF VisitsAhead, NULL
  <2>2. CASE iterator'.bucket # NULL
    <3>1. Visit' = {key'[c] : c \in ToVisit(home2, rank2)'}
      BY <2>2 DEF VisitsAhead, NULL
    <3>2. ToVisit(home2, rank2)' = Ahead(Bucket, DOMAIN slots, home2, rank2, it.index, it.bucket)
      BY <1>6, <1>8 DEF ToVisit
    <3> QED
      BY <1>8, <1>9, <2>2, <3>1, <3>2 DEF NULL
  <2> QED
    BY <2>1, <2>2
<1>11. \A c \in A : key[c] = key[b] => c = b
  BY <1>5 DEF Placed
<1> QED
  BY <1>5, <1>10, <1>11

(* An iteration goes on with the keys it has not visited. *)
LEMMA NextRefines ==
  ASSUME Typed, NEW home, NEW rank, NEW bound, Lists(home, rank, bound),
         Placed(home), Counted(home), IteratorNext
  PROVE  Abstract!Advance
<1>1. Typed' /\ Lists(home, rank, bound)' /\ HeldAt(home)' = HeldAt(home) /\ Placed(home)'
  BY Iterates
<1>2. /\ UNCHANGED <<slots, key, link, free, growth, answer, refused>> /\ HasNext
      /\ Continue(slots, link[iterator.bucket])
  BY DEF IteratorNext, table
<1>3. Where' = Where
  BY <1>1, <1>2, KeepsWhere
<1>4. VisitsAhead(home, rank)'
  BY <1>1, VisitIsNext
<1>5. Visit' = Visit \ At
  <2>1. Continue(slots', link[iterator.bucket]) /\ DOMAIN slots' = DOMAIN slots
    BY <1>2
  <2>2. Without(Bucket, DOMAIN slots, iterator.bucket, home, rank, home, rank)
    BY DEF Without
  <2> QED
    BY <1>1, <1>2, <1>4, <2>1, <2>2, ContinueLeaves
<1>6. At # {}
  BY <1>2 DEF At, HasNext
<1>7. Abstract!StandOn(Visit')
  BY <1>4, IteratorStands
<1> QED
  BY <1>2, <1>3, <1>5, <1>6, <1>7 DEF Abstract!Advance, Abstract!StandOn

(* The key under the iterator leaves the dictionary and the iteration. *)
LEMMA RemoveRefines ==
  ASSUME Typed, NEW home, NEW rank, NEW bound, Lists(home, rank, bound),
         Placed(home), Counted(home), IteratorRemove
  PROVE  Abstract!Remove
<1>1. PICK b : b = iterator.bucket
  OBVIOUS
<1>2. /\ Typed' /\ b \in HeldAt(home)
      /\ \E home2, rank2 :
           /\ UnlinkedTo(b, home, rank, home2, rank2, bound + 1)
           /\ HeldAt(home2)' = HeldAt(home) \ {b} /\ Placed(home2)'
  BY <1>1, Removes
<1>3. PICK home2, rank2 :
        /\ UnlinkedTo(b, home, rank, home2, rank2, bound + 1)
        /\ HeldAt(home2)' = HeldAt(home) \ {b} /\ Placed(home2)'
  BY <1>2
<1>4. /\ HasNext /\ Continue(slots', link[b]) /\ UNCHANGED <<key, answer, refused>>
      /\ Unlink(b)
  BY <1>1 DEF IteratorRemove
<1>5. DOMAIN slots' = DOMAIN slots
  BY <1>4 DEF Unlink
<1>6. Lists(home2, rank2, bound + 1)'
  BY <1>3 DEF UnlinkedTo, Lists
<1>7. VisitsAhead(home2, rank2)'
  BY <1>2, <1>3, <1>6, VisitIsNext
<1>8. Without(Bucket, DOMAIN slots, b, home, rank, home2, rank2)
  <2>1. FreeList \notin DOMAIN slots
    BY HeadsAre DEF FreeList
  <2> QED
    BY <1>3, <2>1 DEF Without, UnlinkedTo
<1>9. Visit' = Visit \ At
  BY <1>1, <1>4, <1>5, <1>6, <1>7, <1>8, ContinueLeaves
<1>10. At = {key[b]}
  BY <1>1, <1>4 DEF At, HasNext
<1>11. Where' = [k \in DOMAIN Where \ At |-> Where[k]]
  <2>1. Finds(Where, HeldAt(home), key)
    BY WhereIs
  <2>2. Finds(Where', HeldAt(home2)', key')
    BY <1>2, <1>3, <1>6, WhereIsNext
  <2>3. Finds(Where', HeldAt(home) \ {b}, key)
    BY <1>3, <1>4, <2>2
  <2>4. Lacks(Where', Where, key[b])
    <3> DEFINE w == Where'
    <3>1. Finds(w, HeldAt(home) \ {b}, key)
      BY <2>3
    <3> HIDE DEF w
    <3>2. Lacks(w, Where, key[b])
      BY <1>2, <2>1, <3>1, FewerFinds
    <3> QED
      BY <3>2 DEF w
  <2> QED
    BY <1>10, <2>4 DEF Lacks
<1>12. Abstract!StandOn(Visit')
  BY <1>7, IteratorStands
<1> QED
  BY <1>4, <1>9, <1>10, <1>11, <1>12 DEF Abstract!Remove, Abstract!StandOn
-----------------------------------------------------------------------------

(* A new map is an empty dictionary that nobody iterates over. *)
LEMMA InitRefines ==
  ASSUME Init
  PROVE  Abstract!Init
<1>1. PICK home, rank, bound : Arranged(home, rank, bound)
  BY InitArranged DEF IInv
<1>2. Finds(Where, HeldAt(home), key)
  BY <1>1, InitArranged, WhereIs DEF IInv, Arranged
<1>3. HeldAt(home) = {}
  BY DEF Init, HeldAt, Bucket
<1>4. Where = <<>>
  BY <1>2, <1>3, NoneFinds
<1>5. iterator.bucket = NULL
  BY DEF Init, Ended
<1>6. Visit = {} /\ At = {}
  BY <1>5, NothingToVisit
<1> QED
  BY <1>4, <1>6 DEF Init, Abstract!Init, Answer, Abstract!Answer, NULL

(* A step that changes nothing changes nothing clients see. *)
LEMMA StutterRefines ==
  ASSUME IInv, UNCHANGED vars
  PROVE  UNCHANGED <<Where, Visit, At, refused, answer>>
<1>1. PICK home, rank, bound : Arranged(home, rank, bound)
  BY DEF IInv
<1>2. Typed /\ Lists(home, rank, bound) /\ Placed(home)
  BY <1>1 DEF IInv, Arranged
<1>3. UNCHANGED <<capacityIndex, slots, key, link, free, size, growth, iterator, answer, refused>>
  BY DEF vars, table
<1>4. Typed'
  BY StepArranged DEF IInv
<1>5. Lists(home, rank, bound)' /\ HeldAt(home)' = HeldAt(home) /\ Bucket' = Bucket
  BY <1>2, <1>3, StillLists
<1>6. Placed(home)'
  BY <1>2, <1>3, <1>5 DEF Placed, Capacity
<1>7. Where' = Where
  BY <1>2, <1>3, <1>4, <1>5, <1>6, KeepsWhere
<1>8. Visit' = Visit /\ At' = At
  BY <1>3, KeepsVisit
<1> QED
  BY <1>3, <1>7, <1>8

(* Every step of the map is a step of the dictionary, or clients see none. *)
LEMMA StepRefines ==
  ASSUME IInv, [Next]_vars
  PROVE  [Abstract!Next]_(Abstract!vars)
<1>1. PICK home, rank, bound : Arranged(home, rank, bound)
  BY DEF IInv
<1>2. Typed /\ Lists(home, rank, bound) /\ Placed(home) /\ Counted(home)
  BY <1>1 DEF IInv, Arranged
<1>3. ASSUME NEW k \in Keys,
             Get(k) \/ GetOrCreateFinds(k) \/ GetOrCreateRefuses(k) \/ IteratorGet
      PROVE  Abstract!Next
  <2>1. Abstract!Get(k) \/ Abstract!Find(k) \/ Abstract!Refuse(k) \/ Abstract!Current
    BY <1>2, <1>3, ReadsRefine
  <2> QED
    BY <2>1 DEF Abstract!Next
<1>4. ASSUME NEW k \in Keys, GetOrCreateLinks(k) \/ (FinishGrowth /\ k = growth.key)
      PROVE  Abstract!Next
  <2>1. Abstract!Create(k)
    BY <1>2, <1>4, LinksRefine
  <2> QED
    BY <2>1 DEF Abstract!Next
<1>5. ASSUME NEW k \in Keys, GetOrCreateGrows(k) \/ RelinkNextChain \/ RelinkBucket
      PROVE  UNCHANGED Abstract!vars
  <2>1. UNCHANGED <<Where, Visit, At, refused, answer>>
    BY <1>2, <1>5, GrowthRefines
  <2> QED
    BY <2>1 DEF Abstract!vars
<1>6. ASSUME Reset
      PROVE  Abstract!Next
  BY <1>2, <1>6, ResetRefines DEF Abstract!Next
<1>7. ASSUME IteratorInit
      PROVE  Abstract!Next
  BY <1>2, <1>7, InitIteratorRefines DEF Abstract!Next
<1>8. ASSUME IteratorNext
      PROVE  Abstract!Next
  BY <1>2, <1>8, NextRefines DEF Abstract!Next
<1>9. ASSUME IteratorRemove
      PROVE  Abstract!Next
  BY <1>2, <1>9, RemoveRefines DEF Abstract!Next
<1>10. ASSUME UNCHANGED vars
       PROVE  UNCHANGED Abstract!vars
  BY <1>10, StutterRefines DEF Abstract!vars
<1>11. PICK any : any \in Keys
  BY MapAssumption
<1>12. ASSUME \E k \in Keys :
                \/ Get(k) \/ GetOrCreateFinds(k) \/ GetOrCreateLinks(k)
                \/ GetOrCreateGrows(k) \/ GetOrCreateRefuses(k)
       PROVE  Abstract!Next \/ UNCHANGED Abstract!vars
  <2>1. PICK k \in Keys :
          \/ Get(k) \/ GetOrCreateFinds(k) \/ GetOrCreateLinks(k)
          \/ GetOrCreateGrows(k) \/ GetOrCreateRefuses(k)
    BY <1>12
  <2>2. CASE Get(k) \/ GetOrCreateFinds(k) \/ GetOrCreateRefuses(k)
    <3>1. Get(k) \/ GetOrCreateFinds(k) \/ GetOrCreateRefuses(k) \/ IteratorGet
      BY <2>2
    <3> QED
      BY <1>3, <3>1
  <2>3. CASE GetOrCreateLinks(k)
    <3>1. GetOrCreateLinks(k) \/ (FinishGrowth /\ k = growth.key)
      BY <2>3
    <3> QED
      BY <1>4, <3>1
  <2>4. CASE GetOrCreateGrows(k)
    <3>1. GetOrCreateGrows(k) \/ RelinkNextChain \/ RelinkBucket
      BY <2>4
    <3> QED
      BY <1>5, <3>1
  <2> QED
    BY <2>1, <2>2, <2>3, <2>4
<1>13. ASSUME RelinkBucket \/ RelinkNextChain
       PROVE  UNCHANGED Abstract!vars
  <2>1. GetOrCreateGrows(any) \/ RelinkNextChain \/ RelinkBucket
    BY <1>13
  <2> QED
    BY <1>5, <1>11, <2>1
<1>14. ASSUME FinishGrowth
       PROVE  Abstract!Next
  <2>1. PICK k \in Keys : k = growth.key
    BY <1>2, <1>14 DEF FinishGrowth, Typed, Growing
  <2>2. GetOrCreateLinks(k) \/ (FinishGrowth /\ k = growth.key)
    BY <1>14, <2>1
  <2> QED
    BY <1>4, <2>2
<1>15. ASSUME IteratorGet
       PROVE  Abstract!Next
  <2>1. Get(any) \/ GetOrCreateFinds(any) \/ GetOrCreateRefuses(any) \/ IteratorGet
    BY <1>15
  <2> QED
    BY <1>3, <1>11, <2>1
<1>16. CASE Next
  <2>1. CASE RelinkBucket \/ RelinkNextChain \/ FinishGrowth \/ Reset
    BY <1>6, <1>13, <1>14, <2>1
  <2>2. CASE IteratorInit \/ IteratorGet \/ IteratorNext \/ IteratorRemove
    BY <1>7, <1>8, <1>9, <1>15, <2>2
  <2> QED
    BY <1>12, <1>16, <2>1, <2>2 DEF Next
<1> QED
  BY <1>10, <1>16

(***************************************************************************)
(* The map is a dictionary: the object of a key keeps its address while    *)
(* the array grows, a reused bucket is never one that holds a key, an      *)
(* iteration that removes keys visits every key exactly once, and a key is *)
(* refused only by a map that has been full (int_map.c).                   *)
(***************************************************************************)
THEOREM IsDictionary == Spec => ImplementsDictionary
<1>1. Init => Abstract!Init
  BY InitRefines
<1>2. IInv /\ [Next]_vars => [Abstract!Next]_(Abstract!vars)
  BY StepRefines
<1> QED
  BY <1>1, <1>2, Invariance, PTL DEF Spec, ImplementsDictionary, Abstract!Spec

-----------------------------------------------------------------------------
(***************************************************************************)
(* The table of names.                                                     *)
(***************************************************************************)

\* An array of chains of the first n keys.
ChainsOf(capacity, n) == [0 .. capacity - 1 -> Seq(1 .. n)]

\* The key is in the chain where a text of this hash is looked for.
InSlot(buckets, hash, k) ==
  LET chain == buckets[hash % Cardinality(DOMAIN buckets)]
  IN  \E j \in 1 .. Len(chain) : chain[j] = k

\* Nothing that is in its slot is lost.
KeepsSlots(buckets, buckets2) ==
  \A hash \in Nat, k \in Nat : InSlot(buckets, hash, k) => InSlot(buckets2, hash, k)

(***************************************************************************)
(* The texts are different, and the bucket of each is in the chain of its  *)
(* hash.                                                                   *)
(***************************************************************************)
Interns(names) ==
  /\ names = [capacityIndex |-> names.capacityIndex, size |-> names.size,
              buckets |-> names.buckets, texts |-> names.texts]
  /\ names.capacityIndex \in DOMAIN StringCapacities /\ names.size \in Nat
  /\ names.texts \in Seq(DOMAIN HashOf)
  /\ \A a, b \in DOMAIN names.texts : names.texts[a] = names.texts[b] => a = b
  /\ names.buckets \in ChainsOf(StringCapacity(names), Len(names.texts))
  /\ \A k \in DOMAIN names.texts : InSlot(names.buckets, HashOf[names.texts[k]], k)

\* The copies stay where they are.
KeepsTexts(names, names2) ==
  \A k \in DOMAIN names.texts :
    k \in DOMAIN names2.texts /\ names2.texts[k] = names.texts[k]

-----------------------------------------------------------------------------

\* A table that has no room for a text it does not hold, and never will.
Full(names) ==
  names.capacityIndex = Len(StringCapacities) /\ names.size >= StringCapacity(names)

\* What becomes of a table by being asked.
Follows(names, names2) ==
  /\ Interns(names2) /\ KeepsTexts(names, names2)
  /\ Full(names) => Full(names2) /\ names2.texts = names.texts

\* All tables that may be asked.
Tables ==
  {names \in [capacityIndex : DOMAIN StringCapacities, size : Nat, texts : Seq(DOMAIN HashOf),
              buckets : UNION {ChainsOf(c, n) : c \in Nat, n \in Nat}] : Interns(names)}

-----------------------------------------------------------------------------

(* The array of a table has a slot for every hash. *)
LEMMA CapacityIs ==
  ASSUME NEW i \in DOMAIN StringCapacities
  PROVE  StringCapacities[i] \in Nat \ {0}
BY StringsAssumption

(* The remainder of a hash is a slot, and the number of slots the capacity. *)
LEMMA SlotOfHash ==
  ASSUME NEW capacity \in Nat \ {0}, NEW n \in Nat, NEW buckets \in ChainsOf(capacity, n)
  PROVE  /\ DOMAIN buckets = 0 .. capacity - 1 /\ Cardinality(DOMAIN buckets) = capacity
         /\ \A hash \in Nat : hash % capacity \in 0 .. capacity - 1
<1>1. DOMAIN buckets = 0 .. capacity - 1
  BY DEF ChainsOf
<1>2. Cardinality(0 .. capacity - 1) = capacity
  <2>1. capacity - 1 \in Int /\ 0 \in Int /\ ~(0 > capacity - 1)
    OBVIOUS
  <2>2. Cardinality(0 .. capacity - 1) = (capacity - 1) - 0 + 1
    BY <2>1, FS_Interval
  <2> QED
    BY <2>2
<1> QED
  BY <1>1, <1>2

(* A key that is put in front is in its slot, and the others stay in theirs. *)
LEMMA PutInFrontKeeps ==
  ASSUME NEW capacity \in Nat \ {0}, NEW n \in Nat, NEW buckets \in ChainsOf(capacity, n),
         NEW hash \in Nat, NEW k \in 1 .. n
  PROVE  /\ PutInFront(buckets, hash, k) \in ChainsOf(capacity, n)
         /\ InSlot(PutInFront(buckets, hash, k), hash, k)
         /\ KeepsSlots(buckets, PutInFront(buckets, hash, k))
<1> DEFINE slot == hash % capacity
           after == PutInFront(buckets, hash, k)
<1>1. /\ DOMAIN buckets = 0 .. capacity - 1 /\ Cardinality(DOMAIN buckets) = capacity
      /\ \A h \in Nat : h % capacity \in 0 .. capacity - 1
  BY SlotOfHash
<1>2. after = [buckets EXCEPT ![slot] = <<k>> \o @]
  BY <1>1 DEF PutInFront
<1>3. slot \in 0 .. capacity - 1 /\ \A i \in 0 .. capacity - 1 : buckets[i] \in Seq(1 .. n)
  BY <1>1 DEF ChainsOf
<1> HIDE DEF slot, after
<1>4. <<k>> \o buckets[slot] \in Seq(1 .. n)
  <2>1. <<k>> \in Seq(1 .. n) /\ buckets[slot] \in Seq(1 .. n)
    BY <1>3
  <2> QED
    BY <2>1
<1>5. /\ DOMAIN after = 0 .. capacity - 1 /\ after[slot] = <<k>> \o buckets[slot]
      /\ \A i \in 0 .. capacity - 1 : i # slot => after[i] = buckets[i]
  BY <1>1, <1>2, <1>3
<1>6. after \in ChainsOf(capacity, n)
  <2>1. after = [i \in 0 .. capacity - 1 |->
                   IF i = slot THEN <<k>> \o buckets[slot] ELSE buckets[i]]
    BY <1>1, <1>2, <1>3
  <2> QED
    BY <1>3, <1>4, <2>1 DEF ChainsOf
<1>7. /\ Len(after[slot]) = Len(buckets[slot]) + 1 /\ after[slot][1] = k
      /\ Len(buckets[slot]) \in Nat
      /\ \A j \in 1 .. Len(buckets[slot]) : after[slot][j + 1] = buckets[slot][j]
  BY <1>3, <1>5
<1>8. InSlot(after, hash, k)
  <2>1. 1 \in 1 .. Len(after[slot])
    BY <1>7
  <2> QED
    BY <1>1, <1>5, <1>7, <2>1 DEF InSlot, slot
<1>9. ASSUME NEW h \in Nat, NEW other \in Nat, InSlot(buckets, h, other)
      PROVE  InSlot(after, h, other)
  <2>1. PICK j \in 1 .. Len(buckets[h % capacity]) : buckets[h % capacity][j] = other
    BY <1>1, <1>9 DEF InSlot
  <2>2. h % capacity \in 0 .. capacity - 1
    BY <1>1
  <2>3. \E i \in 1 .. Len(after[h % capacity]) : after[h % capacity][i] = other
    <3>1. CASE h % capacity = slot
      <4>1. j + 1 \in 1 .. Len(after[slot]) /\ after[slot][j + 1] = other
        BY <1>7, <2>1, <3>1
      <4> QED
        BY <3>1, <4>1
    <3>2. CASE h % capacity # slot
      BY <1>5, <2>1, <2>2, <3>2
    <3> QED
      BY <3>1, <3>2
  <2> QED
    BY <1>1, <1>5, <2>3 DEF InSlot
<1> QED
  BY <1>6, <1>8, <1>9 DEF after, KeepsSlots

(* Relinking a chain puts each of its buckets into its slot. *)
LEMMA RelinkedHolds ==
  ASSUME NEW capacity \in Nat \ {0}, NEW texts \in Seq(DOMAIN HashOf),
         NEW n, n = Len(texts), NEW buckets \in ChainsOf(capacity, n), NEW chain \in Seq(1 .. n)
  PROVE  /\ Relinked(buckets, texts, chain) \in ChainsOf(capacity, n)
         /\ KeepsSlots(buckets, Relinked(buckets, texts, chain))
         /\ \A j \in 1 .. Len(chain) :
              InSlot(Relinked(buckets, texts, chain), HashOf[texts[chain[j]]], chain[j])
<1> DEFINE S == ChainsOf(capacity, n)
           count == Len(chain)
           Put(b, j) == PutInFront(b, HashOf[texts[chain[j]]], chain[j])
           Equation(f) == f = [j \in 0 .. count |-> IF j = 0 THEN buckets ELSE Put(f[j - 1], j)]
           behind == CHOOSE f : Equation(f)
<1>1. count \in Nat /\ n \in Nat
  OBVIOUS
<1>2. \A j \in 1 .. count : chain[j] \in 1 .. n /\ HashOf[texts[chain[j]]] \in Nat
  <2> TAKE j \in 1 .. count
  <2>1. chain[j] \in 1 .. n
    OBVIOUS
  <2>2. texts[chain[j]] \in DOMAIN HashOf
    BY <2>1
  <2> QED
    BY <2>1, <2>2, StringsAssumption
<1>3. \A b \in S, j \in 1 .. count :
        /\ Put(b, j) \in S /\ KeepsSlots(b, Put(b, j))
        /\ InSlot(Put(b, j), HashOf[texts[chain[j]]], chain[j])
  BY <1>1, <1>2, PutInFrontKeeps
<1>4. Relinked(buckets, texts, chain) = behind[count]
  BY DEF Relinked
<1> HIDE DEF Put, S, count
<1>5. \E f : Equation(f)
  <2> DEFINE step == [p \in S \X (1 .. count) |-> Put(p[1], p[2])]
  <2>1. step \in StepsOn(S, count)
    BY <1>3 DEF StepsOn
  <2>2. buckets \in S
    BY DEF S
  <2> HIDE DEF step
  <2>3. \E f : Repeats(S, buckets, count, step, f)
    <3> HIDE DEF Equation, behind
    <3> QED
      BY <1>1, <2>1, <2>2, RepeatedStep
  <2> PICK f : Repeats(S, buckets, count, step, f)
    BY <2>3
  <2>4. \A j \in 0 .. count : j # 0 => step[<<f[j - 1], j>>] = Put(f[j - 1], j)
    <3> SUFFICES ASSUME NEW j \in 0 .. count, j # 0
                 PROVE  step[<<f[j - 1], j>>] = Put(f[j - 1], j)
      OBVIOUS
    <3>1. f \in [0 .. count -> S] /\ j - 1 \in 0 .. count /\ j \in 1 .. count
      BY <1>1 DEF Repeats
    <3>2. <<f[j - 1], j>> \in S \X (1 .. count)
      BY <3>1
    <3> QED
      BY <3>2 DEF step
  <2>5. f = [j \in 0 .. count |-> IF j = 0 THEN buckets ELSE Put(f[j - 1], j)]
    BY <2>4 DEF Repeats
  <2> QED
    BY <2>5
<1>6. behind = [j \in 0 .. count |-> IF j = 0 THEN buckets ELSE Put(behind[j - 1], j)]
  BY <1>5
<1> HIDE DEF behind
<1> DEFINE Linked(m) ==
             /\ behind[m] \in S /\ KeepsSlots(buckets, behind[m])
             /\ \A j \in 1 .. m : InSlot(behind[m], HashOf[texts[chain[j]]], chain[j])
           T == {m \in Nat : m <= count => Linked(m)}
<1>7. 0 \in T
  <2>1. behind[0] = buckets
    BY <1>1, <1>6
  <2>2. Linked(0)
    BY <2>1 DEF S, KeepsSlots
  <2> QED
    BY <2>2
<1>8. ASSUME NEW m \in T
      PROVE  m + 1 \in T
  <2> SUFFICES ASSUME m + 1 <= count
               PROVE  Linked(m + 1)
    OBVIOUS
  <2>1. Linked(m) /\ m \in Nat /\ m + 1 \in 1 .. count
    BY <1>1
  <2>2. behind[m + 1] = Put(behind[m], m + 1)
    <3>1. m + 1 \in 0 .. count /\ m + 1 # 0 /\ (m + 1) - 1 = m
      BY <1>1, <2>1
    <3>2. behind[m + 1] = IF m + 1 = 0 THEN buckets ELSE Put(behind[(m + 1) - 1], m + 1)
      BY <1>6, <3>1
    <3> QED
      BY <3>1, <3>2
  <2>3. /\ Put(behind[m], m + 1) \in S /\ KeepsSlots(behind[m], Put(behind[m], m + 1))
        /\ InSlot(Put(behind[m], m + 1), HashOf[texts[chain[m + 1]]], chain[m + 1])
    BY <1>3, <2>1
  <2>4. ASSUME NEW j \in 1 .. m + 1
        PROVE  InSlot(behind[m + 1], HashOf[texts[chain[j]]], chain[j])
    <3>1. CASE j = m + 1
      BY <2>2, <2>3, <3>1
    <3>2. CASE j # m + 1
      <4>1. j \in 1 .. m /\ j \in 1 .. count
        BY <1>1, <2>1, <3>2
      <4>2. InSlot(behind[m], HashOf[texts[chain[j]]], chain[j])
        BY <2>1, <4>1
      <4>3. HashOf[texts[chain[j]]] \in Nat /\ chain[j] \in Nat
        BY <1>2, <4>1
      <4> QED
        BY <2>2, <2>3, <4>2, <4>3 DEF KeepsSlots
    <3> QED
      BY <3>1, <3>2
  <2>5. KeepsSlots(buckets, behind[m + 1])
    BY <2>1, <2>2, <2>3 DEF KeepsSlots
  <2> QED
    BY <2>2, <2>3, <2>4, <2>5
<1>9. T = Nat
  <2>1. T \in SUBSET Nat
    OBVIOUS
  <2> HIDE DEF T
  <2> QED
    BY <1>7, <1>8, <2>1, StepInduction
<1>10. Linked(count)
  <2>1. count \in T
    BY <1>1, <1>9
  <2> HIDE DEF Linked
  <2> QED
    BY <1>1, <2>1
<1> QED
  BY <1>4, <1>10 DEF S, count

(* A larger array has the chains of all keys. *)
LEMMA RegrownHolds ==
  ASSUME NEW names, Interns(names), names.capacityIndex + 1 \in DOMAIN StringCapacities
  PROVE  Interns(Regrown(names)) /\ Regrown(names).texts = names.texts
<1> DEFINE texts == names.texts
           n == Len(texts)
           larger == StringCapacities[names.capacityIndex + 1]
           room == StringCapacity(names)
           chains == names.buckets
           S == ChainsOf(larger, n)
           Put(b, i) == Relinked(b, texts, chains[i - 1])
           Equation(f) ==
             f = [i \in 0 .. room |-> IF i = 0 THEN Slots(larger) ELSE Put(f[i - 1], i)]
           behind == CHOOSE f : Equation(f)
<1>1. /\ larger \in Nat \ {0} /\ room \in Nat \ {0} /\ texts \in Seq(DOMAIN HashOf) /\ n \in Nat
      /\ chains \in ChainsOf(room, n)
  BY CapacityIs DEF Interns, StringCapacity
<1>2. Regrown(names) = [names EXCEPT !.capacityIndex = @ + 1, !.buckets = behind[room]]
  BY DEF Regrown
<1>3. \A i \in 1 .. room : chains[i - 1] \in Seq(1 .. n)
  <2> TAKE i \in 1 .. room
  <2>1. i - 1 \in 0 .. room - 1
    BY <1>1
  <2> HIDE DEF chains, room, n
  <2> QED
    BY <1>1, <2>1 DEF ChainsOf
<1> DEFINE Put2(b, i) ==
             /\ Put(b, i) \in S /\ KeepsSlots(b, Put(b, i))
             /\ \A j \in 1 .. Len(chains[i - 1]) :
                  InSlot(Put(b, i), HashOf[texts[chains[i - 1][j]]], chains[i - 1][j])
<1>4. \A b \in S, i \in 1 .. room : Put2(b, i)
  <2> TAKE b \in S, i \in 1 .. room
  <2>1. chains[i - 1] \in Seq(1 .. n)
    BY <1>3
  <2> HIDE DEF chains, room, larger, texts
  <2> QED
    BY <1>1, <2>1, RelinkedHolds
<1>5. Slots(larger) \in S
  <2>1. Slots(larger) = [i \in 0 .. larger - 1 |-> <<>>] /\ <<>> \in Seq(1 .. n)
    BY DEF Slots
  <2> QED
    BY <2>1 DEF ChainsOf
<1> HIDE DEF Put, S, room, larger, chains, texts
<1>6. \E f : Equation(f)
  <2> DEFINE step == [p \in S \X (1 .. room) |-> Put(p[1], p[2])]
  <2>1. step \in StepsOn(S, room)
    BY <1>4 DEF StepsOn
  <2> HIDE DEF step
  <2>2. \E f : Repeats(S, Slots(larger), room, step, f)
    <3> HIDE DEF Equation, behind
    <3> QED
      BY <1>1, <1>5, <2>1, RepeatedStep
  <2> PICK f : Repeats(S, Slots(larger), room, step, f)
    BY <2>2
  <2>3. \A i \in 0 .. room : i # 0 => step[<<f[i - 1], i>>] = Put(f[i - 1], i)
    <3> SUFFICES ASSUME NEW i \in 0 .. room, i # 0
                 PROVE  step[<<f[i - 1], i>>] = Put(f[i - 1], i)
      OBVIOUS
    <3>1. f \in [0 .. room -> S] /\ i - 1 \in 0 .. room /\ i \in 1 .. room
      BY <1>1 DEF Repeats
    <3>2. <<f[i - 1], i>> \in S \X (1 .. room)
      BY <3>1
    <3> QED
      BY <3>2 DEF step
  <2>4. f = [i \in 0 .. room |-> IF i = 0 THEN Slots(larger) ELSE Put(f[i - 1], i)]
    BY <2>3 DEF Repeats
  <2> QED
    BY <2>4
<1>7. behind = [i \in 0 .. room |-> IF i = 0 THEN Slots(larger) ELSE Put(behind[i - 1], i)]
  BY <1>6
<1> HIDE DEF behind
<1> DEFINE Spread(m) ==
             /\ behind[m] \in S
             /\ \A i \in 1 .. m : \A j \in 1 .. Len(chains[i - 1]) :
                  InSlot(behind[m], HashOf[texts[chains[i - 1][j]]], chains[i - 1][j])
           T == {m \in Nat : m <= room => Spread(m)}
<1>8. 0 \in T
  <2>1. behind[0] = Slots(larger)
    BY <1>1, <1>7
  <2>2. Spread(0)
    BY <1>5, <2>1
  <2> QED
    BY <2>2
<1>9. ASSUME NEW m \in T
      PROVE  m + 1 \in T
  <2> SUFFICES ASSUME m + 1 <= room
               PROVE  Spread(m + 1)
    OBVIOUS
  <2>1. Spread(m) /\ m \in Nat /\ m + 1 \in 1 .. room /\ (m + 1) - 1 = m
    BY <1>1
  <2>2. behind[m + 1] = Put(behind[m], m + 1)
    <3>1. m + 1 \in 0 .. room /\ m + 1 # 0
      BY <1>1, <2>1
    <3>2. behind[m + 1] = IF m + 1 = 0 THEN Slots(larger) ELSE Put(behind[(m + 1) - 1], m + 1)
      BY <1>7, <3>1
    <3> QED
      BY <2>1, <3>1, <3>2
  <2>3. Put2(behind[m], m + 1)
    <3> HIDE DEF Put2
    <3> QED
      BY <1>4, <2>1
  <2>4. ASSUME NEW i \in 1 .. m + 1, NEW j \in 1 .. Len(chains[i - 1])
        PROVE  InSlot(behind[m + 1], HashOf[texts[chains[i - 1][j]]], chains[i - 1][j])
    <3>1. CASE i = m + 1
      BY <2>2, <2>3, <3>1
    <3>2. CASE i # m + 1
      <4>1. i \in 1 .. m /\ i \in 1 .. room
        BY <1>1, <2>1, <3>2
      <4>2. InSlot(behind[m], HashOf[texts[chains[i - 1][j]]], chains[i - 1][j])
        BY <2>1, <4>1
      <4>3. chains[i - 1][j] \in 1 .. n
        BY <1>3, <4>1
      <4>4. HashOf[texts[chains[i - 1][j]]] \in Nat /\ chains[i - 1][j] \in Nat
        <5>1. texts[chains[i - 1][j]] \in DOMAIN HashOf
          BY <1>1, <4>3
        <5>2. HashOf[texts[chains[i - 1][j]]] \in Nat
          BY <5>1, StringsAssumption
        <5>3. chains[i - 1][j] \in Nat
          BY <1>1, <4>3
        <5> QED
          BY <5>2, <5>3
      <4> QED
        BY <2>2, <2>3, <4>2, <4>4 DEF KeepsSlots
    <3> QED
      BY <3>1, <3>2
  <2>5. behind[m + 1] \in S
    BY <2>2, <2>3
  <2> QED
    BY <2>4, <2>5
<1>10. T = Nat
  <2>1. T \in SUBSET Nat
    OBVIOUS
  <2> HIDE DEF T
  <2> QED
    BY <1>8, <1>9, <2>1, StepInduction
<1>11. Spread(room)
  <2>1. room \in T
    BY <1>1, <1>10
  <2> HIDE DEF Spread
  <2> QED
    BY <1>1, <2>1
<1>12. ASSUME NEW k \in DOMAIN texts
       PROVE  InSlot(behind[room], HashOf[texts[k]], k)
  <2>1. HashOf[texts[k]] \in Nat
    <3>1. texts[k] \in DOMAIN HashOf
      BY <1>1
    <3> QED
      BY <3>1, StringsAssumption
  <2>2. HashOf[texts[k]] % room \in 0 .. room - 1 /\ Cardinality(DOMAIN chains) = room
    BY <1>1, <2>1, SlotOfHash
  <2>3. InSlot(chains, HashOf[texts[k]], k)
    BY <1>12 DEF Interns, chains, texts
  <2> DEFINE i == (HashOf[texts[k]] % room) + 1
  <2>4. i \in 1 .. room /\ i - 1 = HashOf[texts[k]] % room
    BY <1>1, <2>2
  <2> HIDE DEF i
  <2>5. PICK j \in 1 .. Len(chains[i - 1]) : chains[i - 1][j] = k
    BY <2>2, <2>3, <2>4 DEF InSlot
  <2>6. InSlot(behind[room], HashOf[texts[chains[i - 1][j]]], chains[i - 1][j])
    BY <1>11, <2>4
  <2> QED
    BY <2>5, <2>6
<1>13. behind[room] \in S
  BY <1>11
<1> DEFINE grown == Regrown(names)
<1>14. /\ grown = [capacityIndex |-> names.capacityIndex + 1, size |-> names.size,
                   buckets |-> behind[room], texts |-> texts]
       /\ names.capacityIndex \in Nat /\ names.size \in Nat
       /\ \A a, b \in DOMAIN texts : texts[a] = texts[b] => a = b
  <2>1. /\ names = [capacityIndex |-> names.capacityIndex, size |-> names.size,
                    buckets |-> names.buckets, texts |-> names.texts]
        /\ names.capacityIndex \in DOMAIN StringCapacities /\ names.size \in Nat
        /\ \A a, b \in DOMAIN names.texts : names.texts[a] = names.texts[b] => a = b
    BY DEF Interns
  <2>2. grown = [capacityIndex |-> names.capacityIndex + 1, size |-> names.size,
                 buckets |-> behind[room], texts |-> names.texts]
    BY <1>2, <2>1
  <2>3. names.capacityIndex \in Nat
    BY <2>1, StringsAssumption
  <2> QED
    BY <2>1, <2>2, <2>3 DEF texts
<1> HIDE DEF grown
<1>15. /\ grown.capacityIndex = names.capacityIndex + 1 /\ grown.size = names.size
       /\ grown.buckets = behind[room] /\ grown.texts = texts
  BY <1>14
<1>16. grown.buckets \in ChainsOf(StringCapacity(grown), Len(grown.texts))
  BY <1>13, <1>15 DEF StringCapacity, larger, S
<1>17. Interns(grown)
  BY <1>1, <1>12, <1>14, <1>15, <1>16 DEF Interns
<1> QED
  BY <1>15, <1>17 DEF grown, texts

(* The walk finds the key of every copy, and no other key. *)
LEMMA FindTextIs ==
  ASSUME NEW names, Interns(names), NEW text \in DOMAIN HashOf
  PROVE  /\ \A k \in DOMAIN names.texts : names.texts[k] = text => FindText(names, text) = k
         /\ (\A k \in DOMAIN names.texts : names.texts[k] # text) => FindText(names, text) = NoKey
<1> DEFINE texts == names.texts
           n == Len(texts)
           room == StringCapacity(names)
           chain == names.buckets[HashOf[text] % room]
           found == {j \in 1 .. Len(chain) : Matches(names, chain[j], text)}
           place == IF found # {} THEN Min(found) ELSE 0
<1>1. /\ room \in Nat \ {0} /\ texts \in Seq(DOMAIN HashOf) /\ n \in Nat
      /\ names.buckets \in ChainsOf(room, n)
      /\ \A a, b \in DOMAIN texts : texts[a] = texts[b] => a = b
  BY CapacityIs DEF Interns, StringCapacity
<1>2. HashOf[text] \in Nat
  BY StringsAssumption
<1>3. HashOf[text] % room \in 0 .. room - 1 /\ Cardinality(DOMAIN names.buckets) = room
  BY <1>1, <1>2, SlotOfHash
<1>4. chain \in Seq(1 .. n)
  <2> HIDE DEF room, n
  <2> QED
    BY <1>1, <1>3 DEF ChainsOf
<1>5. FindText(names, text) = IF place = 0 THEN NoKey ELSE chain[place]
  BY DEF FindText, SelectInSeq
<1>6. \A j \in found : chain[j] \in DOMAIN texts /\ texts[chain[j]] = text
  <2> TAKE j \in found
  <2>1. j \in 1 .. Len(chain) /\ texts[chain[j]] = text
    BY DEF Matches
  <2>2. chain[j] \in 1 .. n
    <3>1. \A s \in Seq(1 .. n), m \in Nat : m \in 1 .. Len(s) => s[m] \in 1 .. n
      OBVIOUS
    <3>2. j \in Nat
      BY <1>4, <2>1
    <3> HIDE DEF n, chain, found
    <3> QED
      BY <1>4, <2>1, <3>1, <3>2
  <2> QED
    BY <1>1, <2>1, <2>2
<1>7. found # {} => place \in found
  <2> SUFFICES ASSUME found # {}
               PROVE  Min(found) \in found
    OBVIOUS
  <2>1. found \in SUBSET Nat
    BY <1>4
  <2> HIDE DEF found
  <2>2. \E j \in found : \A m \in found : j <= m
    BY <2>1, LeastElement
  <2> QED
    BY <2>2 DEF Min
<1>8. found = {} => FindText(names, text) = NoKey
  BY <1>5
<1>9. found # {} => \E j \in found : FindText(names, text) = chain[j]
  <2>1. 0 \notin found
    OBVIOUS
  <2> HIDE DEF found, chain
  <2> QED
    BY <1>5, <1>7, <2>1
<1>10. ASSUME NEW k \in DOMAIN texts, texts[k] = text
       PROVE  found # {}
  <2>1. InSlot(names.buckets, HashOf[text], k)
    BY <1>10 DEF Interns
  <2>2. PICK j \in 1 .. Len(chain) : chain[j] = k
    BY <1>3, <2>1 DEF InSlot
  <2> QED
    BY <1>10, <2>2 DEF Matches
<1> HIDE DEF found, place, chain
<1>11. ASSUME NEW k \in DOMAIN texts, texts[k] = text
       PROVE  FindText(names, text) = k
  <2>1. PICK j \in found : FindText(names, text) = chain[j]
    BY <1>9, <1>10, <1>11
  <2>2. chain[j] \in DOMAIN texts /\ texts[chain[j]] = texts[k]
    BY <1>6, <1>11
  <2> QED
    BY <1>1, <1>11, <2>1, <2>2
<1>12. ASSUME \A k \in DOMAIN texts : texts[k] # text
       PROVE  FindText(names, text) = NoKey
  <2>1. found = {}
    BY <1>6, <1>12
  <2> QED
    BY <1>8, <2>1
<1> QED
  BY <1>11, <1>12

(* A new text becomes one more copy, in the chain of its hash. *)
LEMMA CopiedHolds ==
  ASSUME NEW names, Interns(names), NEW text \in DOMAIN HashOf,
         \A k \in DOMAIN names.texts : names.texts[k] # text
  PROVE  /\ Interns(Copied(names, text))
         /\ Copied(names, text).texts = Append(names.texts, text)
<1> DEFINE texts == names.texts
           n == Len(texts)
           room == StringCapacity(names)
           more == Append(texts, text)
           copied == Copied(names, text)
           buckets == PutInFront(names.buckets, HashOf[text], n + 1)
<1>1. /\ names = [capacityIndex |-> names.capacityIndex, size |-> names.size,
                  buckets |-> names.buckets, texts |-> texts]
      /\ names.capacityIndex \in DOMAIN StringCapacities /\ names.size \in Nat
      /\ texts \in Seq(DOMAIN HashOf) /\ n \in Nat
      /\ names.buckets \in ChainsOf(room, n)
      /\ \A a, b \in DOMAIN texts : texts[a] = texts[b] => a = b
  BY DEF Interns
<1>2. room \in Nat \ {0} /\ HashOf[text] \in Nat
  BY <1>1, CapacityIs, StringsAssumption DEF StringCapacity
<1>3. copied = [capacityIndex |-> names.capacityIndex, size |-> names.size,
                buckets |-> buckets, texts |-> more]
  <2>1. copied = [names EXCEPT !.texts = more, !.buckets = buckets]
    BY DEF Copied
  <2> HIDE DEF copied, more, buckets
  <2> QED
    BY <1>1, <2>1
<1> HIDE DEF copied
<1>4. /\ copied.capacityIndex = names.capacityIndex /\ copied.size = names.size
      /\ copied.buckets = buckets /\ copied.texts = more
  BY <1>3
<1>5. /\ more \in Seq(DOMAIN HashOf) /\ Len(more) = n + 1 /\ more[n + 1] = text
      /\ DOMAIN more = 1 .. n + 1 /\ \A k \in 1 .. n : more[k] = texts[k]
      /\ DOMAIN texts = 1 .. n
  BY <1>1
<1>6. names.buckets \in ChainsOf(room, n + 1)
  <2>1. 1 .. n \subseteq 1 .. n + 1
    BY <1>1
  <2>2. \A s \in Seq(1 .. n) : s \in Seq(1 .. n + 1)
    BY <2>1
  <2> HIDE DEF n, room
  <2> QED
    BY <1>1, <2>2 DEF ChainsOf
<1>7. /\ buckets \in ChainsOf(room, n + 1) /\ InSlot(buckets, HashOf[text], n + 1)
      /\ KeepsSlots(names.buckets, buckets)
  <2>1. n + 1 \in 1 .. n + 1 /\ n + 1 \in Nat
    BY <1>1
  <2> HIDE DEF n, room
  <2> QED
    BY <1>2, <1>6, <2>1, PutInFrontKeeps
<1>8. ASSUME NEW k \in 1 .. n + 1
      PROVE  InSlot(buckets, HashOf[more[k]], k)
  <2>1. CASE k = n + 1
    BY <1>5, <1>7, <2>1
  <2>2. CASE k # n + 1
    <3>1. k \in 1 .. n /\ k \in Nat /\ more[k] = texts[k]
      BY <1>1, <1>5, <2>2
    <3>2. texts[k] \in DOMAIN HashOf
      BY <1>1, <1>5, <3>1
    <3>3. HashOf[texts[k]] \in Nat
      BY <3>2, StringsAssumption
    <3>4. InSlot(names.buckets, HashOf[texts[k]], k)
      BY <1>5, <3>1 DEF Interns
    <3> QED
      BY <1>7, <3>1, <3>3, <3>4 DEF KeepsSlots
  <2> QED
    BY <2>1, <2>2
<1>9. \A a, b \in 1 .. n + 1 : more[a] = more[b] => a = b
  <2> SUFFICES ASSUME NEW a \in 1 .. n + 1, NEW b \in 1 .. n + 1, more[a] = more[b]
               PROVE  a = b
    OBVIOUS
  <2>1. \A k \in 1 .. n : more[k] # text
    BY <1>5
  <2>2. a # n + 1 => a \in 1 .. n
    BY <1>1
  <2>3. b # n + 1 => b \in 1 .. n
    BY <1>1
  <2> HIDE DEF more, n
  <2> QED
    BY <1>1, <1>5, <2>1, <2>2, <2>3
<1>10. copied.buckets \in ChainsOf(StringCapacity(copied), Len(copied.texts))
  BY <1>4, <1>5, <1>7 DEF StringCapacity
<1>11. \A k \in DOMAIN copied.texts : InSlot(copied.buckets, HashOf[copied.texts[k]], k)
  BY <1>4, <1>5, <1>8
<1>12. \A a, b \in DOMAIN copied.texts : copied.texts[a] = copied.texts[b] => a = b
  BY <1>4, <1>5, <1>9
<1> HIDE DEF buckets, more
<1>13. Interns(copied)
  BY <1>1, <1>3, <1>4, <1>5, <1>10, <1>11, <1>12 DEF Interns
<1> QED
  BY <1>4, <1>13 DEF copied, more

(* One more text that was counted changes nothing else. *)
LEMMA CountedHolds ==
  ASSUME NEW names, Interns(names), NEW counted, counted = [names EXCEPT !.size = @ + 1]
  PROVE  /\ Interns(counted) /\ counted.texts = names.texts /\ counted.size = names.size + 1
         /\ counted.capacityIndex = names.capacityIndex
<1>1. /\ names = [capacityIndex |-> names.capacityIndex, size |-> names.size,
                  buckets |-> names.buckets, texts |-> names.texts]
      /\ names.size \in Nat
  BY DEF Interns
<1>2. counted = [capacityIndex |-> names.capacityIndex, size |-> names.size + 1,
                 buckets |-> names.buckets, texts |-> names.texts]
  BY <1>1
<1>3. /\ counted.capacityIndex = names.capacityIndex /\ counted.size = names.size + 1
      /\ counted.buckets = names.buckets /\ counted.texts = names.texts
  BY <1>2
<1>4. StringCapacity(counted) = StringCapacity(names)
  BY <1>3 DEF StringCapacity
<1>5. counted = [capacityIndex |-> counted.capacityIndex, size |-> counted.size,
                 buckets |-> counted.buckets, texts |-> counted.texts]
  BY <1>2, <1>3
<1>6. Interns(counted)
  BY <1>1, <1>3, <1>4, <1>5 DEF Interns
<1> QED
  BY <1>3, <1>6

(* A table that interns is one of those that may be asked. *)
LEMMA InternsIsTable ==
  ASSUME NEW names, Interns(names)
  PROVE  names \in Tables
<1> DEFINE arrays == UNION {ChainsOf(c, n) : c \in Nat, n \in Nat}
<1>1. /\ names = [capacityIndex |-> names.capacityIndex, size |-> names.size,
                  buckets |-> names.buckets, texts |-> names.texts]
      /\ names.capacityIndex \in DOMAIN StringCapacities /\ names.size \in Nat
      /\ names.texts \in Seq(DOMAIN HashOf) /\ Len(names.texts) \in Nat
      /\ names.buckets \in ChainsOf(StringCapacity(names), Len(names.texts))
  BY DEF Interns
<1>2. StringCapacity(names) \in Nat
  BY <1>1, CapacityIs DEF StringCapacity
<1>3. names.buckets \in arrays
  BY <1>1, <1>2
<1> HIDE DEF arrays
<1>4. names \in [capacityIndex : DOMAIN StringCapacities, size : Nat, texts : Seq(DOMAIN HashOf),
                 buckets : arrays]
  BY <1>1, <1>3
<1> QED
  BY <1>4 DEF Tables, arrays

(* The table that nobody asked yet. *)
LEMMA EmptyInterns == Interns(EmptyStrings)
<1>1. /\ EmptyStrings.capacityIndex = 1 /\ EmptyStrings.size = 0 /\ EmptyStrings.texts = <<>>
      /\ EmptyStrings.buckets = Slots(StringCapacities[1])
      /\ EmptyStrings = [capacityIndex |-> 1, size |-> 0, buckets |-> EmptyStrings.buckets,
                         texts |-> <<>>]
  BY DEF EmptyStrings
<1>2. 1 \in DOMAIN StringCapacities
  BY StringsAssumption
<1>3. EmptyStrings.buckets \in ChainsOf(StringCapacities[1], 0)
  <2>1. <<>> \in Seq(1 .. 0)
    OBVIOUS
  <2> QED
    BY <1>1, <2>1 DEF Slots, ChainsOf
<1>4. EmptyStrings.buckets \in ChainsOf(StringCapacity(EmptyStrings), Len(EmptyStrings.texts))
  <2>1. Len(EmptyStrings.texts) = 0
    BY <1>1
  <2> QED
    BY <1>1, <1>3, <2>1 DEF StringCapacity
<1>5. EmptyStrings.texts \in Seq(DOMAIN HashOf) /\ DOMAIN EmptyStrings.texts = {}
  BY <1>1
<1> QED
  BY <1>1, <1>2, <1>4, <1>5 DEF Interns

(***************************************************************************)
(* ketl_atomic_strings_get keeps what it was told before, and its key is   *)
(* that of the text, then and when it is asked again.                      *)
(***************************************************************************)
LEMMA GetKeyIs ==
  ASSUME NEW names, Interns(names), NEW text \in DOMAIN HashOf,
         NEW result, result = GetKey(names, text)
  PROVE  /\ Follows(names, result.strings)
         /\ IF result.key # NoKey
            THEN /\ result.key \in DOMAIN result.strings.texts
                 /\ result.strings.texts[result.key] = text /\ HashOf[text] # 0
            ELSE \/ HashOf[text] = 0
                 \/ /\ Full(result.strings)
                    /\ \A k \in DOMAIN result.strings.texts : result.strings.texts[k] # text
<1> DEFINE texts == names.texts
           known == FindText(names, text)
           counted == [names EXCEPT !.size = @ + 1]
           full == counted.size > StringCapacity(names)
           last == names.capacityIndex = Len(StringCapacities)
           grown == IF full THEN Regrown(counted) ELSE counted
           n == Len(texts)
<1>1. /\ texts \in Seq(DOMAIN HashOf) /\ n \in Nat /\ DOMAIN texts = 1 .. n /\ names.size \in Nat
      /\ names.capacityIndex \in DOMAIN StringCapacities
      /\ StringCapacity(names) \in Nat
  BY CapacityIs DEF Interns, StringCapacity
<1>2. /\ Interns(counted) /\ counted.texts = texts /\ counted.size = names.size + 1
      /\ counted.capacityIndex = names.capacityIndex
  BY CountedHolds
<1>3. /\ \A k \in DOMAIN texts : texts[k] = text => known = k
      /\ (\A k \in DOMAIN texts : texts[k] # text) => known = NoKey
  BY FindTextIs
<1>4. result = IF HashOf[text] = 0 THEN [strings |-> names, key |-> NoKey]
               ELSE IF known # NoKey THEN [strings |-> names, key |-> known]
               ELSE IF full /\ last THEN [strings |-> counted, key |-> NoKey]
               ELSE [strings |-> Copied(grown, text), key |-> n + 1]
  BY DEF GetKey
<1>5. Follows(names, names)
  BY DEF Follows, KeepsTexts
<1>6. StringCapacity(counted) = StringCapacity(names)
  BY <1>2 DEF StringCapacity
<1> HIDE DEF known, counted
<1>7. CASE HashOf[text] = 0
  <2>1. result.strings = names /\ result.key = NoKey
    BY <1>4, <1>7
  <2> QED
    BY <1>5, <1>7, <2>1
<1>8. CASE HashOf[text] # 0 /\ known # NoKey
  <2>1. result.strings = names /\ result.key = known
    BY <1>4, <1>8
  <2>2. PICK k \in DOMAIN texts : texts[k] = text
    BY <1>3, <1>8
  <2>3. known = k
    BY <1>3, <2>2
  <2> QED
    BY <1>5, <1>8, <2>1, <2>2, <2>3
<1>9. ASSUME HashOf[text] # 0, known = NoKey
      PROVE  \A k \in DOMAIN texts : texts[k] # text
  BY <1>1, <1>3, <1>9 DEF NoKey
<1>10. CASE HashOf[text] # 0 /\ known = NoKey /\ full /\ last
  <2>1. result.strings = counted /\ result.key = NoKey
    BY <1>4, <1>10
  <2>2. Full(counted)
    <3>1. counted.capacityIndex = Len(StringCapacities) /\ counted.size > StringCapacity(counted)
      BY <1>2, <1>6, <1>10
    <3> QED
      BY <1>1, <1>2, <1>6, <3>1 DEF Full
  <2>3. Follows(names, counted)
    BY <1>2, <2>2 DEF Follows, KeepsTexts
  <2> QED
    BY <1>2, <1>9, <1>10, <2>1, <2>2, <2>3
<1>11. CASE HashOf[text] # 0 /\ known = NoKey /\ ~(full /\ last)
  <2>1. result.strings = Copied(grown, text) /\ result.key = n + 1
    BY <1>4, <1>11
  <2>2. Interns(grown) /\ grown.texts = texts
    <3>1. CASE full
      <4>1. counted.capacityIndex + 1 \in DOMAIN StringCapacities
        BY <1>1, <1>2, <1>11, <3>1, StringsAssumption
      <4> QED
        BY <1>2, <3>1, <4>1, RegrownHolds
    <3>2. CASE ~full
      BY <1>2, <3>2
    <3> QED
      BY <3>1, <3>2
  <2> HIDE DEF grown
  <2>3. Interns(Copied(grown, text)) /\ Copied(grown, text).texts = Append(texts, text)
    BY <1>9, <1>11, <2>2, CopiedHolds
  <2>4. /\ n + 1 \in DOMAIN Append(texts, text) /\ Append(texts, text)[n + 1] = text
        /\ \A k \in DOMAIN texts :
             k \in DOMAIN Append(texts, text) /\ Append(texts, text)[k] = texts[k]
    BY <1>1
  <2>5. ~Full(names)
    BY <1>1, <1>2, <1>11 DEF Full
  <2>6. Follows(names, Copied(grown, text))
    BY <2>3, <2>4, <2>5 DEF Follows, KeepsTexts
  <2>7. n + 1 # NoKey
    BY <1>1 DEF NoKey
  <2> QED
    BY <1>11, <2>1, <2>3, <2>4, <2>6, <2>7
<1> QED
  BY <1>7, <1>8, <1>10, <1>11

(* What is kept by two askings in a row is kept by both. *)
LEMMA FollowsOn ==
  ASSUME NEW a, NEW b, NEW c, Follows(a, b), Follows(b, c)
  PROVE  Follows(a, c)
BY DEF Follows, KeepsTexts

(* A row of texts is asked for one after the other. *)
LEMMA InternedIs ==
  ASSUME NEW names, Interns(names), NEW texts \in Seq(DOMAIN HashOf)
  PROVE  Follows(names, Interned(names, texts))
<1> DEFINE count == Len(texts)
           Ask(t, i) == GetKey(t, texts[i]).strings
           Equation(f) == f = [i \in 0 .. count |-> IF i = 0 THEN names ELSE Ask(f[i - 1], i)]
           behind == CHOOSE f : Equation(f)
<1>1. count \in Nat /\ Interned(names, texts) = behind[count]
  BY DEF Interned
<1>2. \A t : \A i \in 1 .. count : Interns(t) => Follows(t, Ask(t, i))
  <2> SUFFICES ASSUME NEW t, NEW i \in 1 .. count, Interns(t)
               PROVE  Follows(t, Ask(t, i))
    OBVIOUS
  <2>1. texts[i] \in DOMAIN HashOf
    OBVIOUS
  <2> QED
    BY <2>1, GetKeyIs
<1> HIDE DEF Ask, count
<1>3. \A t \in Tables, i \in 1 .. count : Ask(t, i) \in Tables
  <2> SUFFICES ASSUME NEW t \in Tables, NEW i \in 1 .. count
               PROVE  Ask(t, i) \in Tables
    OBVIOUS
  <2>1. Interns(t)
    BY DEF Tables
  <2>2. Interns(Ask(t, i))
    <3>1. Follows(t, Ask(t, i))
      BY <1>2, <2>1
    <3> QED
      BY <3>1 DEF Follows
  <2> QED
    BY <2>2, InternsIsTable
<1>4. \E f : Equation(f)
  <2> DEFINE step == [p \in Tables \X (1 .. count) |-> Ask(p[1], p[2])]
  <2>1. step \in StepsOn(Tables, count)
    BY <1>3 DEF StepsOn
  <2>2. names \in Tables
    BY InternsIsTable
  <2> HIDE DEF step
  <2>3. \E f : Repeats(Tables, names, count, step, f)
    <3> HIDE DEF Equation, behind
    <3> QED
      BY <1>1, <2>1, <2>2, RepeatedStep
  <2> PICK f : Repeats(Tables, names, count, step, f)
    BY <2>3
  <2>4. \A i \in 0 .. count : i # 0 => step[<<f[i - 1], i>>] = Ask(f[i - 1], i)
    <3> SUFFICES ASSUME NEW i \in 0 .. count, i # 0
                 PROVE  step[<<f[i - 1], i>>] = Ask(f[i - 1], i)
      OBVIOUS
    <3>1. f \in [0 .. count -> Tables] /\ i - 1 \in 0 .. count /\ i \in 1 .. count
      BY <1>1 DEF Repeats
    <3>2. <<f[i - 1], i>> \in Tables \X (1 .. count)
      BY <3>1
    <3> QED
      BY <3>2 DEF step
  <2>5. f = [i \in 0 .. count |-> IF i = 0 THEN names ELSE Ask(f[i - 1], i)]
    BY <2>4 DEF Repeats
  <2> QED
    BY <2>5
<1>5. behind = [i \in 0 .. count |-> IF i = 0 THEN names ELSE Ask(behind[i - 1], i)]
  BY <1>4
<1> HIDE DEF behind
<1> DEFINE T == {m \in Nat : m <= count => Follows(names, behind[m])}
<1>6. 0 \in T
  <2>1. behind[0] = names
    BY <1>1, <1>5
  <2>2. Follows(names, names)
    BY DEF Follows, KeepsTexts
  <2> QED
    BY <2>1, <2>2
<1>7. ASSUME NEW m \in T
      PROVE  m + 1 \in T
  <2> SUFFICES ASSUME m + 1 <= count
               PROVE  Follows(names, behind[m + 1])
    OBVIOUS
  <2>1. Follows(names, behind[m]) /\ m \in Nat /\ m + 1 \in 1 .. count
    BY <1>1
  <2>2. behind[m + 1] = Ask(behind[m], m + 1)
    <3>1. m + 1 \in 0 .. count /\ m + 1 # 0 /\ (m + 1) - 1 = m
      BY <1>1, <2>1
    <3>2. behind[m + 1] = IF m + 1 = 0 THEN names ELSE Ask(behind[(m + 1) - 1], m + 1)
      BY <1>5, <3>1
    <3> QED
      BY <3>1, <3>2
  <2>3. Follows(behind[m], behind[m + 1])
    <3>1. Interns(behind[m])
      BY <2>1 DEF Follows
    <3> QED
      BY <1>2, <2>1, <2>2, <3>1
  <2> QED
    BY <2>1, <2>3, FollowsOn
<1>8. T = Nat
  <2>1. T \in SUBSET Nat
    OBVIOUS
  <2> HIDE DEF T
  <2> QED
    BY <1>6, <1>7, <2>1, StepInduction
<1> QED
  BY <1>1, <1>8

-----------------------------------------------------------------------------

(* The table of every session interns, whatever its clients ask for. *)
LEMMA TableInterns == Interning => []Interns(strings)
<1>1. (\E texts \in Seq(DOMAIN HashOf) : strings = Interned(EmptyStrings, texts))
        => Interns(strings)
  BY EmptyInterns, InternedIs DEF Follows
<1>2. /\ Interns(strings)
      /\ [\E texts \in Seq(DOMAIN HashOf) : strings' = Interned(strings, texts)]_strings
      => Interns(strings)'
  <2> SUFFICES ASSUME Interns(strings),
                      [\E texts \in Seq(DOMAIN HashOf) :
                         strings' = Interned(strings, texts)]_strings
               PROVE  Interns(strings')
    OBVIOUS
  <2>1. CASE strings' = strings
    BY <2>1
  <2>2. CASE \E texts \in Seq(DOMAIN HashOf) : strings' = Interned(strings, texts)
    BY <2>2, InternedIs DEF Follows
  <2> QED
    BY <2>1, <2>2
<1> QED
  BY <1>1, <1>2, PTL DEF Interning

(***************************************************************************)
(* ketl_atomic_strings_get: a name has one address, whatever the hashes of *)
(* the names and the capacities of the table are, in whichever order they  *)
(* are asked for, and however often the table grew.                        *)
(***************************************************************************)
THEOREM CanonicalNames == Interning => []NamesAreCanonical
<1>1. Interns(strings) => NamesAreCanonical
  <2> SUFFICES ASSUME Interns(strings), NEW k \in DOMAIN strings.texts
               PROVE  FindText(strings, strings.texts[k]) = k
    BY DEF NamesAreCanonical
  <2>1. strings.texts[k] \in DOMAIN HashOf
    BY DEF Interns
  <2> QED
    BY <2>1, FindTextIs
<1> QED
  BY <1>1, TableInterns, PTL

(***************************************************************************)
(* Whatever is asked for after a text, the text gets the answer it got:    *)
(* its address stays, and a text that is refused is refused for good.      *)
(***************************************************************************)
SameAnswer ==
  \A text \in DOMAIN HashOf, others \in Seq(DOMAIN HashOf) :
    KeyOf(Interned(GetKey(strings, text).strings, others), text) = KeyOf(strings, text)

(* A text that is known has its key, and one that has no place gets none. *)
LEMMA KeyIs ==
  ASSUME NEW names, Interns(names), NEW text \in DOMAIN HashOf
  PROVE  /\ HashOf[text] = 0 => KeyOf(names, text) = NoKey
         /\ \A k \in DOMAIN names.texts :
              HashOf[text] # 0 /\ names.texts[k] = text => KeyOf(names, text) = k
         /\ Full(names) /\ (\A k \in DOMAIN names.texts : names.texts[k] # text)
              => KeyOf(names, text) = NoKey
<1> DEFINE result == GetKey(names, text)
<1>1. /\ Follows(names, result.strings)
      /\ IF result.key # NoKey
         THEN /\ result.key \in DOMAIN result.strings.texts
              /\ result.strings.texts[result.key] = text /\ HashOf[text] # 0
         ELSE \/ HashOf[text] = 0
              \/ /\ Full(result.strings)
                 /\ \A k \in DOMAIN result.strings.texts : result.strings.texts[k] # text
  BY GetKeyIs
<1>2. KeyOf(names, text) = result.key
  BY DEF KeyOf
<1> HIDE DEF result
<1>3. ASSUME NEW k \in DOMAIN names.texts, HashOf[text] # 0, names.texts[k] = text
      PROVE  result.key = k
  <2>1. k \in DOMAIN result.strings.texts /\ result.strings.texts[k] = text
    BY <1>1, <1>3 DEF Follows, KeepsTexts
  <2>2. result.key # NoKey
    BY <1>1, <1>3, <2>1
  <2> QED
    BY <1>1, <2>1, <2>2 DEF Follows, Interns
<1>4. ASSUME Full(names), \A k \in DOMAIN names.texts : names.texts[k] # text
      PROVE  result.key = NoKey
  BY <1>1, <1>4 DEF Follows
<1>5. HashOf[text] = 0 => result.key = NoKey
  BY <1>1
<1> QED
  BY <1>2, <1>3, <1>4, <1>5

(* The name a client keeps is the name it will get. *)
THEOREM AddressesStay == Interning => []SameAnswer
<1>1. ASSUME Interns(strings), NEW text \in DOMAIN HashOf, NEW others \in Seq(DOMAIN HashOf)
      PROVE  KeyOf(Interned(GetKey(strings, text).strings, others), text) = KeyOf(strings, text)
  <2> DEFINE result == GetKey(strings, text)
             later == Interned(result.strings, others)
  <2>1. /\ Follows(strings, result.strings)
        /\ IF result.key # NoKey
           THEN /\ result.key \in DOMAIN result.strings.texts
                /\ result.strings.texts[result.key] = text /\ HashOf[text] # 0
           ELSE \/ HashOf[text] = 0
                \/ /\ Full(result.strings)
                   /\ \A k \in DOMAIN result.strings.texts : result.strings.texts[k] # text
    BY <1>1, GetKeyIs
  <2>2. KeyOf(strings, text) = result.key
    BY DEF KeyOf
  <2> HIDE DEF result
  <2>3. Follows(result.strings, later)
    BY <1>1, <2>1, InternedIs DEF Follows
  <2> HIDE DEF later
  <2>4. Interns(later)
    BY <2>3 DEF Follows
  <2>5. KeyOf(later, text) = result.key
    <3>1. CASE result.key # NoKey
      <4>1. result.key \in DOMAIN later.texts /\ later.texts[result.key] = text
        BY <2>1, <2>3, <3>1 DEF Follows, KeepsTexts
      <4> QED
        BY <1>1, <2>1, <2>4, <3>1, <4>1, KeyIs
    <3>2. CASE result.key = NoKey /\ HashOf[text] = 0
      BY <1>1, <2>4, <3>2, KeyIs
    <3>3. CASE result.key = NoKey /\ HashOf[text] # 0
      <4>1. Full(later) /\ \A k \in DOMAIN later.texts : later.texts[k] # text
        BY <2>1, <2>3, <3>3 DEF Follows
      <4> QED
        BY <1>1, <2>4, <3>3, <4>1, KeyIs
    <3> QED
      BY <3>1, <3>2, <3>3
  <2> QED
    BY <2>2, <2>5 DEF later, result
<1>2. Interns(strings) => SameAnswer
  BY <1>1 DEF SameAnswer
<1> QED
  BY <1>2, TableInterns, PTL

=============================================================================
