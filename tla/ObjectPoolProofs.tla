-------------------------- MODULE ObjectPoolProofs --------------------------
(***************************************************************************)
(* Machine-checked proofs about ObjectPool, for every block size, set of   *)
(* array lengths and number of blocks.                                     *)
(***************************************************************************)
EXTENDS ObjectPool, TLAPS

(***************************************************************************)
(* What Append does to a sequence, in the form the steps below use.        *)
(***************************************************************************)
LEMMA AppendFacts ==
  ASSUME NEW S, NEW s \in Seq(S), NEW e \in S
  PROVE  /\ Append(s, e) \in Seq(S)
         /\ Len(s) \in Nat
         /\ Len(Append(s, e)) = Len(s) + 1
         /\ DOMAIN s = 1 .. Len(s)
         /\ DOMAIN Append(s, e) = DOMAIN s \cup {Len(s) + 1}
         /\ Append(s, e)[Len(s) + 1] = e
         /\ \A i \in DOMAIN s : Append(s, e)[i] = s[i] /\ s[i] \in S
OBVIOUS

(* The length, the domain and the elements of a sequence over S. *)
LEMMA SeqFacts ==
  ASSUME NEW S, NEW s \in Seq(S)
  PROVE  /\ Len(s) \in Nat
         /\ DOMAIN s = 1 .. Len(s)
         /\ \A i \in DOMAIN s : s[i] \in S
OBVIOUS

-----------------------------------------------------------------------------

\* How many slots of the chain come before a slot of a block.
Rank(block, index) == (block - 1) * PoolSize + index

(***************************************************************************)
(* The end of a block is the beginning of the next one, and slots are      *)
(* ranked by their block first.                                            *)
(***************************************************************************)
LEMMA RankSteps ==
  ASSUME NEW b \in Nat \ {0}, NEW i \in Nat
  PROVE  /\ Rank(b, i) \in Nat
         /\ Rank(1, i) = i
         /\ Rank(b, i) = Rank(b, 0) + i
         /\ Rank(b + 1, i) = Rank(b, PoolSize) + i
         /\ Rank(b, i + 1) = Rank(b, i) + 1
<1>1. PoolSize \in Nat
  BY PoolAssumption
<1>2. (b - 1) \in Nat
  OBVIOUS
<1>3. \A m, n \in Nat : m * n \in Nat /\ (m + 1) * n = m * n + n /\ 0 * n = 0
  OBVIOUS
<1>4. (b - 1) * PoolSize \in Nat
  BY <1>1, <1>2, <1>3
<1>5. ((b + 1) - 1) * PoolSize = (b - 1) * PoolSize + PoolSize
  <2>1. (b + 1) - 1 = (b - 1) + 1
    OBVIOUS
  <2> QED
    BY <1>1, <1>3, <2>1
<1>6. (1 - 1) * PoolSize = 0
  BY <1>1
<1> QED
  BY <1>1, <1>4, <1>5, <1>6 DEF Rank

(* A slot of an earlier block comes before every slot of a later one. *)
LEMMA RankOrder ==
  ASSUME NEW b \in Nat \ {0}, NEW c \in Nat \ {0}, b < c
  PROVE  Rank(b, PoolSize) <= Rank(c, 0)
<1>1. PoolSize \in Nat
  BY PoolAssumption
<1>2. \A k, m, n \in Nat : k <= m => k * n <= m * n
  OBVIOUS
<1>3. b * PoolSize <= (c - 1) * PoolSize
  BY <1>1, <1>2
<1>4. Rank(b, PoolSize) = b * PoolSize
  <2>1. \A m, n \in Nat : m # 0 => (m - 1) * n + n = m * n
    OBVIOUS
  <2> QED
    BY <1>1, <2>1 DEF Rank
<1>5. Rank(c, 0) = (c - 1) * PoolSize
  <2>1. (c - 1) * PoolSize \in Int
    BY <1>1
  <2> QED
    BY <2>1 DEF Rank
<1> QED
  BY <1>3, <1>4, <1>5

(* No two slots have the same rank. *)
LEMMA RankUnique ==
  ASSUME NEW b \in Nat \ {0}, NEW c \in Nat \ {0},
         NEW i \in 0 .. PoolSize - 1, NEW j \in 0 .. PoolSize - 1,
         Rank(b, i) = Rank(c, j)
  PROVE  b = c /\ i = j
<1>1. PoolSize \in Nat \ {0}
  BY PoolAssumption
<1>2. PoolSize \in Nat /\ 0 \in Nat /\ i \in Nat /\ j \in Nat
  BY <1>1
<1>3. /\ Rank(b, i) = Rank(b, 0) + i /\ Rank(c, j) = Rank(c, 0) + j
      /\ Rank(b, PoolSize) = Rank(b, 0) + PoolSize
      /\ Rank(c, PoolSize) = Rank(c, 0) + PoolSize
      /\ Rank(b, 0) \in Nat /\ Rank(c, 0) \in Nat
  BY <1>2, RankSteps
<1>4. Rank(b, 0) + i = Rank(c, 0) + j
  BY <1>3
<1>5. i < PoolSize /\ j < PoolSize
  BY <1>1
<1> DEFINE x == Rank(b, 0)
           y == Rank(c, 0)
<1>6. x \in Nat /\ y \in Nat /\ x + i = y + j
  BY <1>3, <1>4
<1>7. (b < c => x + PoolSize <= y) /\ (c < b => y + PoolSize <= x)
  BY <1>3, RankOrder
<1> HIDE DEF x, y
<1>8. ~ (b < c) /\ ~ (c < b)
  BY <1>2, <1>5, <1>6, <1>7
<1>9. b = c
  BY <1>8
<1>10. x = y
  BY <1>9 DEF x, y
<1> QED
  BY <1>2, <1>6, <1>9, <1>10

-----------------------------------------------------------------------------

\* A block is entered only together with its first object.
FillMark == last > 1 => occupied > 0

\* The iterator never overtakes the block being filled.
IteratorBehind == iterator.block \in 1 .. last /\ iterator.index <= PoolSize

(***************************************************************************)
(* While the used count is taken, every block before the one the walk is   *)
(* at has been counted as full, and the stop has not been passed.          *)
(***************************************************************************)
WalkCounts ==
  /\ walk.phase = "walk" =>
       /\ walk.block \in 1 .. last
       /\ walk.stop = next[last]
       /\ walk.used = Rank(walk.block, 0)
  /\ walk.phase = "returned" => walk.used = Rank(last, occupied)

\* The objects are where their order says, and the iterator where it stopped.
Placed ==
  OnlySingles =>
    /\ Len(live) = Rank(last, occupied)
    /\ \A k \in DOMAIN live :
         Rank(live[k].block, live[k].first) = k - 1 /\ live[k].first < PoolSize
    /\ Len(seen) = Rank(iterator.block, iterator.index)
    /\ Len(seen) <= Len(live)
    /\ \A k \in DOMAIN seen : seen[k] = live[k]

IInv ==
  /\ TypeOK
  /\ NoBlockLost
  /\ ObjectsDisjoint
  /\ FillMark
  /\ IteratorBehind
  /\ WalkCounts
  /\ Placed

-----------------------------------------------------------------------------

(* Where no count is asked for there is nothing to keep. *)
LEMMA NoWalkFacts ==
  /\ walk = NoWalk => walk \in WalkType /\ WalkCounts
  /\ walk' = NoWalk => walk' \in WalkType /\ WalkCounts'
<1>1. NoWalk \in WalkType /\ NoWalk.phase = "idle"
  BY DEF NoWalk, WalkType, NULL
<1> QED
  BY <1>1 DEF WalkCounts

(* The initial state. *)
LEMMA InitIInv == Init => IInv
<1> SUFFICES ASSUME Init PROVE IInv
  OBVIOUS
<1>1. /\ next = <<0>> /\ last = 1 /\ occupied = 0 /\ live = <<>>
      /\ result = [block |-> 0, first |-> 0, count |-> 0]
      /\ iterator = [block |-> 1, index |-> 0] /\ seen = <<>>
      /\ walk \in WalkType /\ WalkCounts
  BY NoWalkFacts DEF Init, NULL, FirstPool, NoObject, Object
<1>2. TypeOK
  BY <1>1, PoolAssumption DEF TypeOK, ObjectType
<1>3. NoBlockLost /\ ObjectsDisjoint /\ FillMark /\ IteratorBehind
  BY <1>1, PoolAssumption
  DEF NoBlockLost, ObjectsDisjoint, FillMark, IteratorBehind, NULL
<1>4. Placed
  <2>1. Rank(last, occupied) = 0 /\ Rank(iterator.block, iterator.index) = 0
    <3>1. Rank(1, 0) = 0
      BY RankSteps
    <3> QED
      BY <1>1, <3>1
  <2> QED
    BY <1>1, <2>1 DEF Placed
<1> QED
  BY <1>1, <1>2, <1>3, <1>4 DEF IInv

(***************************************************************************)
(* What get and get_array have in common: "count" neighbouring slots that  *)
(* fit into a block.                                                       *)
(***************************************************************************)
Take(count) ==
  /\ \/ occupied + count <= PoolSize /\ TakeHere(count)
     \/ occupied + count > PoolSize /\ (TakeFromNext(count) \/ TakeFromNew(count))
  /\ UNCHANGED iteratorVars

(* Both operations are a Take. *)
LEMMA GetIsTake ==
  ASSUME TypeOK, Get \/ \E count \in Counts : GetArray(count)
  PROVE  \E n \in 1 .. PoolSize : Take(n)
<1>1. PoolSize \in Nat \ {0} /\ Counts \subseteq Nat /\ occupied \in Nat
  BY PoolAssumption DEF TypeOK
<1>2. CASE Get
  <2>1. /\ occupied < PoolSize <=> occupied + 1 <= PoolSize
        /\ occupied >= PoolSize <=> occupied + 1 > PoolSize
    BY <1>1
  <2>2. Take(1)
    BY <1>2, <2>1 DEF Get, Take
  <2> QED
    BY <1>1, <2>2
<1>3. ASSUME NEW count \in Counts, GetArray(count)
      PROVE  \E n \in 1 .. PoolSize : Take(n)
  <2>1. Take(count) /\ count \in 1 .. PoolSize
    BY <1>1, <1>3 DEF GetArray, Take
  <2> QED
    BY <2>1
<1> QED
  BY <1>2, <1>3

(* The object a Take hands out. *)
Taken(count) == Object(last', occupied' - count, count)

(***************************************************************************)
(* Where a Take finds its slots: behind the last object, or at the         *)
(* beginning of the block that follows in the chain.                       *)
(***************************************************************************)
LEMMA TakeShape ==
  ASSUME TypeOK, NoBlockLost, NEW count \in 1 .. PoolSize, Take(count)
  PROVE  /\ next' \in Seq(Nat)
         /\ DOMAIN next \subseteq DOMAIN next'
         /\ last' \in 1 .. Len(next')
         /\ NoBlockLost'
         /\ live' = Append(live, Taken(count)) /\ result' = Taken(count)
         /\ occupied' \in Nat /\ occupied' - count \in Nat /\ occupied' <= PoolSize
         /\ UNCHANGED <<iterator, seen>>
         /\ \/ last' = last /\ occupied' - count = occupied
            \/ /\ last' = last + 1 /\ occupied' = count
               /\ occupied + count > PoolSize
<1>1. /\ PoolSize \in Nat \ {0} /\ count \in Nat /\ occupied \in Nat
      /\ last \in Nat /\ count >= 1 /\ count <= PoolSize
  BY PoolAssumption, SeqFacts DEF TypeOK
<1>2. /\ next \in Seq(Nat) /\ Len(next) \in Nat /\ DOMAIN next = 1 .. Len(next)
      /\ last \in 1 .. Len(next)
  BY SeqFacts DEF TypeOK
<1>3. UNCHANGED <<iterator, seen>>
  BY DEF Take, iteratorVars
<1>4. CASE occupied + count <= PoolSize /\ TakeHere(count)
  <2>1. /\ next' = next /\ last' = last /\ occupied' = occupied + count
        /\ live' = Append(live, Object(last, occupied, count))
        /\ result' = Object(last, occupied, count)
    BY <1>4 DEF TakeHere, HandOut
  <2>2. occupied' - count = occupied
    BY <1>1, <2>1
  <2> QED
    BY <1>1, <1>2, <1>3, <1>4, <2>1, <2>2 DEF Taken, NoBlockLost
<1>5. ASSUME occupied + count > PoolSize, TakeFromNext(count) \/ TakeFromNew(count)
      PROVE  /\ next' \in Seq(Nat)
             /\ DOMAIN next \subseteq DOMAIN next'
             /\ last' = last + 1 /\ last' \in 1 .. Len(next')
             /\ NoBlockLost'
  <2>1. CASE TakeFromNext(count)
    <3>1. next' = next /\ next[last] # NULL /\ last' = next[last]
      BY <2>1 DEF TakeFromNext
    <3>2. last' = last + 1 /\ last < Len(next)
      BY <1>2, <3>1 DEF NoBlockLost
    <3> QED
      BY <1>1, <1>2, <3>1, <3>2 DEF NoBlockLost
  <2>2. CASE TakeFromNew(count)
    <3> DEFINE new == Len(next) + 1
               linked == [next EXCEPT ![last] = new]
    <3>1. /\ next[last] = NULL /\ last' = new /\ next' = Append(linked, NULL)
      BY <2>2 DEF TakeFromNew
    <3>2. last = Len(next)
      <4>1. next[last] = IF last < Len(next) THEN last + 1 ELSE NULL
        BY <1>2 DEF NoBlockLost
      <4>2. last + 1 # NULL
        BY <1>1 DEF NULL
      <4>3. next[last] = NULL
        BY <3>1
      <4>4. ~ (last < Len(next))
        BY <4>1, <4>2, <4>3
      <4>5. last \in Nat /\ Len(next) \in Nat /\ last <= Len(next)
        BY <1>1, <1>2
      <4> QED
        BY <4>4, <4>5
    <3>3. new \in Nat /\ NULL \in Nat
      BY <1>2 DEF NULL
    <3>4. /\ linked \in Seq(Nat) /\ Len(linked) = Len(next)
          /\ DOMAIN linked = DOMAIN next /\ linked[last] = new
          /\ \A b \in DOMAIN next : b # last => linked[b] = next[b]
      BY <1>2, <3>3
    <3> HIDE DEF linked
    <3>5. /\ next' \in Seq(Nat) /\ Len(next') = Len(next) + 1
          /\ DOMAIN next' = DOMAIN next \cup {new}
          /\ next'[new] = NULL
          /\ \A b \in DOMAIN next : next'[b] = linked[b]
      BY <1>2, <3>1, <3>3, <3>4, AppendFacts
    <3>6. NoBlockLost'
      <4> SUFFICES ASSUME NEW b \in DOMAIN next'
                   PROVE  next'[b] = IF b < Len(next') THEN b + 1 ELSE NULL
        BY DEF NoBlockLost, NULL
      <4>1. CASE b = new
        BY <1>2, <3>5, <4>1
      <4>2. CASE b = last
        <5>1. next'[b] = last + 1
          BY <1>2, <3>2, <3>4, <3>5, <4>2
        <5>2. Len(next) \in Nat /\ b = Len(next) /\ Len(next') = Len(next) + 1
          BY <1>2, <3>2, <3>5, <4>2
        <5>3. b < Len(next')
          BY <5>2
        <5> QED
          BY <4>2, <5>1, <5>3
      <4>3. CASE b \in DOMAIN next /\ b # last
        BY <1>2, <3>2, <3>4, <3>5, <4>3 DEF NoBlockLost
      <4> QED
        BY <3>5, <4>1, <4>2, <4>3
    <3> QED
      BY <1>2, <3>1, <3>2, <3>5, <3>6
  <2> QED
    BY <1>5, <2>1, <2>2
<1>6. CASE occupied + count > PoolSize /\ (TakeFromNext(count) \/ TakeFromNew(count))
  <2>1. /\ live' = Append(live, Object(last', 0, count))
        /\ result' = Object(last', 0, count) /\ occupied' = count
    BY <1>6 DEF TakeFromNext, TakeFromNew, HandOut
  <2>2. occupied' - count = 0
    BY <1>1, <2>1
  <2> QED
    BY <1>1, <1>3, <1>5, <1>6, <2>1, <2>2 DEF Taken
<1> QED
  BY <1>4, <1>6 DEF Take

(***************************************************************************)
(* The types of the objects that are live and of those that were seen.     *)
(***************************************************************************)
LEMMA ElementTypes ==
  ASSUME TypeOK
  PROVE  /\ PoolSize \in Nat \ {0}
         /\ last \in Nat \ {0} /\ occupied \in Nat /\ occupied <= PoolSize
         /\ live \in Seq(ObjectType) /\ seen \in Seq(ObjectType)
         /\ DOMAIN live = 1 .. Len(live) /\ Len(live) \in Nat
         /\ DOMAIN seen = 1 .. Len(seen) /\ Len(seen) \in Nat
         /\ \A i \in DOMAIN live :
              /\ live[i] = Object(live[i].block, live[i].first, live[i].count)
              /\ live[i].block \in Nat
              /\ live[i].first \in Nat
              /\ live[i].count \in Nat
<1>1. live \in Seq(ObjectType) /\ seen \in Seq(ObjectType)
  BY DEF TypeOK
<1>2. /\ PoolSize \in Nat \ {0}
      /\ last \in Nat \ {0} /\ occupied \in Nat /\ occupied <= PoolSize
  <2>1. Len(next) \in Nat
    BY SeqFacts DEF TypeOK
  <2> QED
    BY <2>1, PoolAssumption DEF TypeOK
<1>3. \A i \in DOMAIN live : live[i] \in ObjectType
  BY <1>1, SeqFacts
<1>4. \A o \in ObjectType :
        /\ o = Object(o.block, o.first, o.count)
        /\ o.block \in Nat /\ o.first \in Nat /\ o.count \in Nat
  BY DEF ObjectType, Object
<1>5. /\ DOMAIN live = 1 .. Len(live) /\ Len(live) \in Nat
      /\ DOMAIN seen = 1 .. Len(seen) /\ Len(seen) \in Nat
  BY <1>1, SeqFacts
<1> QED
  BY <1>1, <1>2, <1>3, <1>4, <1>5

(***************************************************************************)
(* Taking an object keeps what is handed out apart.                        *)
(***************************************************************************)
LEMMA TakeIInv ==
  ASSUME IInv, NEW count \in 1 .. PoolSize, Take(count), walk' = NoWalk
  PROVE  IInv'
<1> DEFINE object == Taken(count)
           first == occupied' - count
           new == Len(live) + 1
<1>1. TypeOK /\ NoBlockLost /\ ObjectsDisjoint /\ FillMark /\ IteratorBehind /\ Placed
  BY DEF IInv
<1>2. /\ next' \in Seq(Nat) /\ DOMAIN next \subseteq DOMAIN next'
      /\ last' \in 1 .. Len(next') /\ NoBlockLost'
      /\ live' = Append(live, object) /\ result' = object
      /\ occupied' \in Nat /\ first \in Nat /\ occupied' <= PoolSize
      /\ iterator' = iterator /\ seen' = seen
      /\ \/ last' = last /\ first = occupied
         \/ last' = last + 1 /\ occupied' = count /\ occupied + count > PoolSize
  BY <1>1, TakeShape
<1>3. /\ PoolSize \in Nat \ {0} /\ count \in Nat /\ count >= 1
      /\ last \in Nat \ {0} /\ occupied \in Nat /\ occupied <= PoolSize
      /\ Len(live) \in Nat /\ DOMAIN live = 1 .. Len(live)
      /\ live \in Seq(ObjectType) /\ seen \in Seq(ObjectType)
      /\ Len(next') \in Nat /\ DOMAIN next' = 1 .. Len(next')
  BY <1>1, <1>2, ElementTypes, SeqFacts
<1>4. last' \in Nat \ {0} /\ last' \in DOMAIN next' /\ (last' = last \/ last' = last + 1)
  <2>1. last' \in DOMAIN next' /\ (last' = last \/ last' = last + 1)
    BY <1>2, <1>3
  <2>2. last + 1 \in Nat \ {0}
    BY <1>3
  <2> QED
    BY <1>3, <2>1, <2>2
<1>5. /\ occupied' \in Nat /\ occupied' = first + count /\ occupied' >= 1
  <2>1. occupied' \in Nat /\ count \in Nat /\ count >= 1 /\ first \in Nat
    BY <1>2, <1>3
  <2>2. \A m, n \in Nat : m = (m - n) + n
    OBVIOUS
  <2>3. occupied' = first + count
    BY <2>1, <2>2
  <2>4. first + count >= 1
    <3> HIDE DEF first
    <3> QED
      BY <2>1
  <2> QED
    BY <2>1, <2>3, <2>4
<1>6. /\ object \in ObjectType /\ object = Object(last', first, count)
      /\ object.block = last' /\ object.first = first /\ object.count = count
      /\ End(object) = occupied'
  BY <1>2, <1>3, <1>4, <1>5 DEF Taken, ObjectType, Object, End
<1> HIDE DEF object, first
<1>7. /\ live' \in Seq(ObjectType)
      /\ Len(live') = new /\ DOMAIN live' = DOMAIN live \cup {new}
      /\ live'[new] = object
      /\ \A i \in DOMAIN live : live'[i] = live[i]
  BY <1>2, <1>3, <1>6, AppendFacts
<1>8. TypeOK'
  BY <1>1, <1>2, <1>3, <1>5, <1>6, <1>7, NoWalkFacts DEF TypeOK
<1>9. FillMark' /\ IteratorBehind'
  BY <1>1, <1>2, <1>3, <1>4, <1>5 DEF FillMark, IteratorBehind
<1>10. \A i \in DOMAIN live :
         /\ live[i].block \in Nat /\ live[i].first \in Nat /\ live[i].count \in Nat
         /\ End(live[i]) \in Nat
  BY <1>1, ElementTypes DEF End
<1>11. ObjectsDisjoint'
  <2>1. ASSUME NEW i \in DOMAIN live
        PROVE  /\ live[i].count >= 1 /\ live[i].block \in DOMAIN next'
               /\ End(live[i]) <= PoolSize
               /\ \/ live[i].block < last'
                  \/ live[i].block = last' /\ End(live[i]) <= occupied'
               /\ \/ live[i].block < last'
                  \/ live[i].block = last' /\ End(live[i]) <= first
    <3>1. /\ live[i].count >= 1 /\ live[i].block \in DOMAIN next
          /\ End(live[i]) <= PoolSize
          /\ live[i].block < last \/ (live[i].block = last /\ End(live[i]) <= occupied)
      BY <1>1, <2>1 DEF ObjectsDisjoint
    <3>2. CASE last' = last /\ first = occupied
      <4>1. occupied <= occupied'
        BY <1>3, <1>5, <3>2
      <4>2. End(live[i]) <= occupied => End(live[i]) <= occupied'
        BY <1>3, <1>5, <1>10, <4>1
      <4>3. live[i].block \in DOMAIN next'
        BY <1>2, <3>1
      <4> QED
        BY <3>1, <3>2, <4>2, <4>3
    <3>3. CASE last' = last + 1
      BY <1>2, <1>3, <1>10, <2>1, <3>1, <3>3
    <3> QED
      BY <1>2, <3>2, <3>3
  <2>2. ASSUME NEW i \in DOMAIN live'
        PROVE  /\ live'[i].count >= 1 /\ live'[i].block \in DOMAIN next'
               /\ End(live'[i]) <= PoolSize
               /\ \/ live'[i].block < last'
                  \/ live'[i].block = last' /\ End(live'[i]) <= occupied'
    <3>1. CASE i \in DOMAIN live
      <4>1. live'[i] = live[i]
        BY <1>7, <3>1
      <4> QED
        BY <2>1, <3>1, <4>1
    <3>2. CASE i = new
      <4>1. live'[i] = object
        BY <1>7, <3>2
      <4> QED
        BY <1>2, <1>3, <1>4, <1>5, <1>6, <4>1
    <3> QED
      BY <1>7, <3>1, <3>2
  <2>3. ASSUME NEW i \in DOMAIN live', NEW j \in DOMAIN live', i < j
        PROVE  \/ live'[i].block < live'[j].block
               \/ live'[i].block = live'[j].block /\ End(live'[i]) <= live'[j].first
    <3>1. i \in DOMAIN live
      BY <1>3, <1>7, <2>3
    <3>2. live'[i] = live[i]
      BY <1>7, <3>1
    <3>3. CASE j \in DOMAIN live
      <4>1. live'[j] = live[j]
        BY <1>7, <3>3
      <4> QED
        BY <1>1, <2>3, <3>1, <3>2, <3>3, <4>1 DEF ObjectsDisjoint
    <3>4. CASE j = new
      <4>1. live'[j] = object
        BY <1>7, <3>4
      <4> QED
        BY <1>6, <2>1, <3>1, <3>2, <4>1
    <3> QED
      BY <1>7, <3>3, <3>4
  <2> QED
    BY <2>2, <2>3 DEF ObjectsDisjoint, End
<1>12. Placed'
  <2> SUFFICES ASSUME OnlySingles' PROVE Placed'
    BY DEF Placed
  <2>1. OnlySingles /\ count = 1
    <3>1. \A i \in DOMAIN live : live[i].count = 1
      BY <1>7 DEF OnlySingles
    <3>2. live'[new].count = 1
      BY <1>7 DEF OnlySingles
    <3> QED
      BY <1>6, <1>7, <3>1, <3>2 DEF OnlySingles
  <2>2. /\ Len(live) = Rank(last, occupied)
        /\ \A k \in DOMAIN live :
             Rank(live[k].block, live[k].first) = k - 1 /\ live[k].first < PoolSize
        /\ Len(seen) = Rank(iterator.block, iterator.index)
        /\ Len(seen) <= Len(live)
        /\ \A k \in DOMAIN seen : seen[k] = live[k]
    BY <1>1, <2>1 DEF Placed
  <2>3. Rank(last', first) = Len(live)
    <3>1. CASE last' = last /\ first = occupied
      BY <2>2, <3>1
    <3>2. CASE last' = last + 1 /\ occupied' = count /\ occupied + count > PoolSize
      <4>1. first = 0
        BY <1>2, <1>3, <1>5, <2>1, <3>2 DEF first
      <4>2. occupied = PoolSize
        BY <1>3, <2>1, <3>2
      <4>3. Rank(last + 1, 0) = Rank(last, PoolSize) + 0 /\ Rank(last, PoolSize) \in Nat
        BY <1>3, RankSteps
      <4> QED
        BY <2>2, <3>2, <4>1, <4>2, <4>3
    <3> QED
      BY <1>2, <3>1, <3>2
  <2>4. Rank(last', occupied') = new
    <3>1. Rank(last', first + 1) = Rank(last', first) + 1
      BY <1>2, <1>4, RankSteps DEF first
    <3> QED
      BY <1>5, <2>1, <2>3, <3>1
  <2>5. ASSUME NEW k \in DOMAIN live'
        PROVE  Rank(live'[k].block, live'[k].first) = k - 1 /\ live'[k].first < PoolSize
    <3>1. CASE k \in DOMAIN live
      <4>1. live'[k] = live[k]
        BY <1>7, <3>1
      <4> QED
        BY <2>2, <3>1, <4>1
    <3>2. CASE k = new
      <4>1. live'[k] = object
        BY <1>7, <3>2
      <4>2. k - 1 = Len(live)
        BY <1>3, <3>2
      <4>3. first + 1 <= PoolSize /\ first \in Nat
        BY <1>2, <1>5, <2>1
      <4>4. first < PoolSize
        BY <1>3, <4>3
      <4> QED
        BY <1>6, <2>3, <4>1, <4>2, <4>4
    <3> QED
      BY <1>7, <3>1, <3>2
  <2>6. /\ Len(seen') = Len(seen) /\ Len(seen) <= Len(live')
        /\ \A k \in DOMAIN seen' : seen'[k] = live'[k]
    <3>1. DOMAIN seen = 1 .. Len(seen) /\ Len(seen) \in Nat
      BY <1>1, ElementTypes
    <3>2. \A k \in DOMAIN seen : k \in DOMAIN live
      BY <1>3, <2>2, <3>1
    <3> QED
      BY <1>2, <1>3, <1>7, <2>2, <3>1, <3>2
  <2>7. Rank(iterator.block, iterator.index)' = Rank(iterator.block, iterator.index)
    BY <1>2 DEF Rank
  <2>8. Rank(last, occupied)' = Rank(last', occupied')
    BY DEF Rank
  <2> QED
    BY <1>2, <1>7, <2>2, <2>4, <2>5, <2>6, <2>7, <2>8 DEF Placed
<1> QED
  BY <1>2, <1>8, <1>9, <1>11, <1>12, NoWalkFacts DEF IInv

(***************************************************************************)
(* has_next answers no exactly when the iterator stands behind the last    *)
(* object.                                                                 *)
(***************************************************************************)
LEMMA HasNextExact ==
  ASSUME IInv, OnlySingles
  PROVE  HasNext <=> Len(seen) < Len(live)
<1> DEFINE block == iterator.block
           index == iterator.index
<1>1. /\ TypeOK /\ FillMark /\ IteratorBehind
      /\ Len(live) = Rank(last, occupied)
      /\ Len(seen) = Rank(block, index)
  BY DEF IInv, Placed
<1>2. /\ PoolSize \in Nat \ {0} /\ last \in Nat \ {0} /\ occupied \in Nat
      /\ Len(live) \in Nat /\ Len(seen) \in Nat
  BY <1>1, ElementTypes
<1>3. block \in Nat \ {0} /\ index \in Nat /\ block <= last /\ index <= PoolSize
  BY <1>1, <1>2 DEF IteratorBehind, TypeOK
<1>4. HasNext <=> block # last \/ index < occupied
  BY <1>3 DEF HasNext, NULL
<1> HIDE DEF block, index
<1>5. 0 \in Nat /\ PoolSize \in Nat
  BY <1>2
<1>6. /\ Rank(block, index) = Rank(block, 0) + index
      /\ Rank(block, PoolSize) = Rank(block, 0) + PoolSize
      /\ Rank(last, occupied) = Rank(last, 0) + occupied
      /\ Rank(block, 0) \in Nat /\ Rank(last, 0) \in Nat
  BY <1>2, <1>3, <1>5, RankSteps
<1> DEFINE x == Rank(block, 0)
           y == Rank(last, 0)
<1>7. /\ x \in Nat /\ y \in Nat
      /\ Len(live) = y + occupied /\ Len(seen) = x + index
  BY <1>1, <1>6
<1>8. CASE block = last
  <2>1. x = y
    BY <1>8
  <2> HIDE DEF x, y
  <2> QED
    BY <1>2, <1>3, <1>4, <1>7, <1>8, <2>1
<1>9. CASE block < last
  <2>1. x + PoolSize <= y
    BY <1>2, <1>3, <1>6, <1>9, RankOrder
  <2>2. occupied > 0
    BY <1>1, <1>2, <1>3, <1>9 DEF FillMark
  <2> HIDE DEF x, y
  <2>3. x + index < y + occupied
    BY <1>2, <1>3, <1>7, <2>1, <2>2
  <2> QED
    BY <1>2, <1>3, <1>4, <1>7, <1>9, <2>3
<1>10. block = last \/ block < last
  BY <1>2, <1>3
<1> QED
  BY <1>8, <1>9, <1>10

(***************************************************************************)
(* The slot get_next returns, and where the iterator then stands.          *)
(***************************************************************************)
LEMMA GetNextShape ==
  ASSUME TypeOK, NoBlockLost, IteratorBehind, IteratorGetNext
  PROVE  \E block \in 1 .. last, index \in 0 .. PoolSize - 1 :
           /\ iterator' = [block |-> block, index |-> index + 1]
           /\ seen' = Append(seen, Object(block, index, 1))
           /\ UNCHANGED poolVars
           /\ Rank(block, index) = Rank(iterator.block, iterator.index)
<1>1. /\ PoolSize \in Nat \ {0} /\ last \in Nat \ {0}
      /\ occupied \in Nat /\ occupied <= PoolSize
  BY ElementTypes
<1>2. /\ iterator.block \in Nat \ {0} /\ iterator.block <= last
      /\ iterator.index \in Nat /\ iterator.index <= PoolSize
  BY <1>1 DEF IteratorBehind, TypeOK
<1>3. UNCHANGED poolVars
  BY DEF IteratorGetNext
<1>4. CASE iterator.index >= PoolSize
  <2>1. iterator.index = PoolSize
    BY <1>1, <1>2, <1>4
  <2>2. iterator.block < last
    <3>1. iterator.block # last \/ iterator.index < occupied
      BY DEF IteratorGetNext, HasNext
    <3>2. ~ (iterator.index < occupied)
      BY <1>1, <2>1
    <3> QED
      BY <1>1, <1>2, <3>1, <3>2
  <2>3. next[iterator.block] = iterator.block + 1
    <3>1. /\ last \in 1 .. Len(next) /\ Len(next) \in Nat
          /\ DOMAIN next = 1 .. Len(next)
      BY SeqFacts DEF TypeOK
    <3>2. iterator.block \in DOMAIN next /\ iterator.block < Len(next)
      BY <1>1, <1>2, <2>2, <3>1
    <3> QED
      BY <3>2 DEF NoBlockLost
  <2> DEFINE block == iterator.block + 1
  <2>4. /\ iterator' = [block |-> block, index |-> 0 + 1]
        /\ seen' = Append(seen, Object(block, 0, 1))
    BY <1>4, <2>3 DEF IteratorGetNext
  <2>5. block \in 1 .. last /\ 0 \in 0 .. PoolSize - 1
    BY <1>1, <1>2, <2>2
  <2>6. Rank(block, 0) = Rank(iterator.block, iterator.index)
    <3>1. /\ Rank(iterator.block + 1, 0) = Rank(iterator.block, PoolSize) + 0
          /\ Rank(iterator.block, PoolSize) \in Nat
      BY <1>1, <1>2, RankSteps
    <3> QED
      BY <2>1, <3>1
  <2> HIDE DEF block
  <2> QED
    BY <1>3, <2>4, <2>5, <2>6
<1>5. CASE ~ (iterator.index >= PoolSize)
  <2>1. /\ iterator' = [block |-> iterator.block, index |-> iterator.index + 1]
        /\ seen' = Append(seen, Object(iterator.block, iterator.index, 1))
    BY <1>5 DEF IteratorGetNext
  <2>2. iterator.block \in 1 .. last /\ iterator.index \in 0 .. PoolSize - 1
    BY <1>1, <1>2, <1>5
  <2> QED
    BY <1>3, <2>1, <2>2
<1> QED
  BY <1>4, <1>5

(***************************************************************************)
(* A step of the iterator returns the object that is next in the order in  *)
(* which they were handed out.                                             *)
(***************************************************************************)
LEMMA GetNextIInv ==
  ASSUME IInv, IteratorGetNext, walk' = NoWalk
  PROVE  IInv'
<1>1. TypeOK /\ NoBlockLost /\ ObjectsDisjoint /\ FillMark /\ IteratorBehind /\ Placed
  BY DEF IInv
<1>2. PICK block \in 1 .. last, index \in 0 .. PoolSize - 1 :
        /\ iterator' = [block |-> block, index |-> index + 1]
        /\ seen' = Append(seen, Object(block, index, 1))
        /\ UNCHANGED poolVars
        /\ Rank(block, index) = Rank(iterator.block, iterator.index)
  BY <1>1, GetNextShape
<1> DEFINE object == Object(block, index, 1)
           new == Len(seen) + 1
<1>3. /\ next' = next /\ last' = last /\ occupied' = occupied
      /\ live' = live /\ result' = result
  BY <1>2 DEF poolVars
<1>4. /\ PoolSize \in Nat \ {0} /\ last \in Nat \ {0} /\ occupied \in Nat
      /\ seen \in Seq(ObjectType) /\ Len(seen) \in Nat /\ DOMAIN seen = 1 .. Len(seen)
      /\ Len(live) \in Nat /\ DOMAIN live = 1 .. Len(live)
  BY <1>1, ElementTypes
<1>5. /\ block \in Nat \ {0} /\ index \in Nat /\ index < PoolSize
  BY <1>4
<1>6. index + 1 \in Nat /\ index + 1 <= PoolSize
  BY <1>4, <1>5
<1>7. object \in ObjectType
  BY <1>5 DEF Object, ObjectType
<1>8. /\ seen' \in Seq(ObjectType)
      /\ Len(seen') = new /\ DOMAIN seen' = DOMAIN seen \cup {new}
      /\ seen'[new] = object
      /\ \A k \in DOMAIN seen : seen'[k] = seen[k]
  <2> HIDE DEF object
  <2>1. seen' = Append(seen, object)
    BY <1>2 DEF object
  <2> QED
    BY <1>4, <1>7, <2>1, AppendFacts
<1>9. TypeOK'
  <2>1. iterator' \in [block : Nat, index : Nat]
    BY <1>2, <1>5, <1>6
  <2> QED
    BY <1>1, <1>3, <1>8, <2>1, NoWalkFacts DEF TypeOK
<1>10. NoBlockLost' /\ ObjectsDisjoint' /\ FillMark'
  BY <1>1, <1>3 DEF NoBlockLost, ObjectsDisjoint, FillMark, End
<1>11. IteratorBehind'
  BY <1>2, <1>3, <1>6 DEF IteratorBehind
<1>12. Placed'
  <2> SUFFICES ASSUME OnlySingles' PROVE Placed'
    BY DEF Placed
  <2>1. OnlySingles
    BY <1>3 DEF OnlySingles
  <2>2. /\ Len(live) = Rank(last, occupied)
        /\ \A k \in DOMAIN live :
             Rank(live[k].block, live[k].first) = k - 1 /\ live[k].first < PoolSize
        /\ Len(seen) = Rank(iterator.block, iterator.index)
        /\ Len(seen) <= Len(live)
        /\ \A k \in DOMAIN seen : seen[k] = live[k]
    BY <1>1, <2>1 DEF Placed
  <2>3. Len(seen) < Len(live)
    BY <2>1, HasNextExact DEF IteratorGetNext
  <2>4. Rank(iterator.block, iterator.index)' = Len(seen')
    <3>1. Rank(block, index + 1) = Rank(block, index) + 1
      BY <1>5, RankSteps
    <3>2. Rank(block, index + 1) = new
      BY <1>2, <2>2, <3>1
    <3>3. iterator'.block = block /\ iterator'.index = index + 1
      BY <1>2
    <3> QED
      BY <1>8, <3>2, <3>3 DEF Rank
  <2>5. live[new] = object
    <3>1. new \in DOMAIN live /\ new - 1 = Len(seen)
      BY <1>4, <2>3
    <3>2. /\ Rank(live[new].block, live[new].first) = Rank(block, index)
          /\ live[new].first < PoolSize
      BY <1>2, <2>2, <3>1
    <3>3. /\ live[new] = Object(live[new].block, live[new].first, live[new].count)
          /\ live[new].block \in Nat /\ live[new].first \in Nat
          /\ live[new].count = 1
      BY <1>1, <2>1, <3>1, ElementTypes DEF OnlySingles
    <3>4. live[new].block # 0
      <4>1. live[new].block \in DOMAIN next
        BY <1>1, <3>1 DEF ObjectsDisjoint
      <4>2. DOMAIN next = 1 .. Len(next)
        BY <1>1, SeqFacts DEF TypeOK
      <4> QED
        BY <4>1, <4>2
    <3>5. live[new].first \in 0 .. PoolSize - 1
      BY <1>4, <3>2, <3>3
    <3>6. live[new].block = block /\ live[new].first = index
      BY <1>5, <3>2, <3>3, <3>4, <3>5, RankUnique
    <3> QED
      BY <3>3, <3>6
  <2>6. \A k \in DOMAIN seen' : seen'[k] = live'[k]
    BY <1>3, <1>8, <2>2, <2>5
  <2>7. Len(seen') <= Len(live')
    BY <1>3, <1>4, <1>8, <2>3
  <2>8. Rank(last, occupied)' = Rank(last, occupied)
    BY <1>3 DEF Rank
  <2>9. \A k \in DOMAIN live' :
          Rank(live'[k].block, live'[k].first) = k - 1 /\ live'[k].first < PoolSize
    BY <1>3, <2>2
  <2>10. Len(live') = Rank(last', occupied')
    BY <1>3, <2>2
  <2> QED
    BY <2>4, <2>6, <2>7, <2>9, <2>10 DEF Placed, Rank
<1> QED
  BY <1>9, <1>10, <1>11, <1>12, NoWalkFacts DEF IInv

(***************************************************************************)
(* An iterator that has returned nothing yet stands before every object.   *)
(***************************************************************************)
LEMMA RestartFacts ==
  ASSUME IInv
  PROVE  /\ Rank(FirstPool, 0) = 0
         /\ FirstPool \in 1 .. last /\ FirstPool \in 1 .. Len(next)
         /\ PoolSize \in Nat \ {0}
<1>1. Rank(1, 0) = 0
  BY RankSteps
<1>2. last \in 1 .. Len(next) /\ PoolSize \in Nat \ {0}
  BY ElementTypes DEF IInv, TypeOK
<1>3. Len(next) \in Nat
  BY SeqFacts DEF IInv, TypeOK
<1> QED
  BY <1>1, <1>2, <1>3 DEF FirstPool

(* A reset forgets the objects and keeps the chain. *)
LEMMA ResetIInv ==
  ASSUME IInv, Reset, walk' = NoWalk
  PROVE  IInv'
<1>1. /\ next' = next /\ last' = 1 /\ occupied' = 0 /\ live' = <<>>
      /\ result' = Object(0, 0, 0)
      /\ iterator' = [block |-> 1, index |-> 0] /\ seen' = <<>>
  BY DEF Reset, FirstPool, NoObject, NULL
<1>2. Rank(1, 0) = 0 /\ 1 \in 1 .. Len(next) /\ PoolSize \in Nat \ {0}
  BY RestartFacts DEF FirstPool
<1>3. TypeOK'
  BY <1>1, <1>2, NoWalkFacts DEF IInv, TypeOK, ObjectType, Object
<1>4. NoBlockLost' /\ ObjectsDisjoint'
  BY <1>1 DEF IInv, NoBlockLost, ObjectsDisjoint
<1>5. FillMark' /\ IteratorBehind'
  BY <1>1, <1>2 DEF FillMark, IteratorBehind
<1>6. Placed'
  <2>1. /\ Rank(last', occupied') = 0
        /\ Rank(iterator'.block, iterator'.index) = 0
    BY <1>1, <1>2
  <2>2. Len(live') = 0 /\ Len(seen') = 0 /\ DOMAIN live' = {} /\ DOMAIN seen' = {}
    BY <1>1
  <2> QED
    BY <2>1, <2>2 DEF Placed, Rank
<1> QED
  BY <1>3, <1>4, <1>5, <1>6, NoWalkFacts DEF IInv

(* Starting the iterator again leaves the pool alone. *)
LEMMA IteratorInitIInv ==
  ASSUME IInv, IteratorInit, walk' = NoWalk
  PROVE  IInv'
<1>1. /\ next' = next /\ last' = last /\ occupied' = occupied
      /\ live' = live /\ result' = result
      /\ iterator' = [block |-> 1, index |-> 0] /\ seen' = <<>>
  BY DEF IteratorInit, FirstPool, poolVars
<1>2. Rank(1, 0) = 0 /\ 1 \in 1 .. last /\ PoolSize \in Nat \ {0}
  BY RestartFacts DEF FirstPool
<1>3. TypeOK'
  BY <1>1, <1>2, NoWalkFacts DEF IInv, TypeOK
<1>4. NoBlockLost' /\ ObjectsDisjoint' /\ FillMark'
  BY <1>1 DEF IInv, NoBlockLost, ObjectsDisjoint, FillMark, End
<1>5. IteratorBehind'
  BY <1>1, <1>2 DEF IteratorBehind
<1>6. Placed'
  <2> SUFFICES ASSUME OnlySingles' PROVE Placed'
    BY DEF Placed
  <2>1. /\ Len(live) = Rank(last, occupied)
        /\ \A k \in DOMAIN live :
             Rank(live[k].block, live[k].first) = k - 1 /\ live[k].first < PoolSize
    BY <1>1 DEF IInv, Placed, OnlySingles
  <2>2. /\ Len(live') = Rank(last', occupied')
        /\ \A k \in DOMAIN live' :
             Rank(live'[k].block, live'[k].first) = k - 1 /\ live'[k].first < PoolSize
    BY <1>1, <2>1
  <2>3. Rank(iterator'.block, iterator'.index) = 0
    BY <1>1, <1>2
  <2>4. Len(seen') = 0 /\ DOMAIN seen' = {}
    BY <1>1
  <2>5. Len(live') \in Nat
    BY <1>1, ElementTypes DEF IInv
  <2> QED
    BY <2>2, <2>3, <2>4, <2>5 DEF Placed, Rank
<1> QED
  BY <1>3, <1>4, <1>5, <1>6, NoWalkFacts DEF IInv

(* A length that no block holds is refused, and nothing is touched. *)
LEMMA RefusedIInv ==
  ASSUME IInv, NEW count \in Counts, GetArrayRefused(count), walk' = NoWalk
  PROVE  IInv'
<1>1. /\ next' = next /\ last' = last /\ occupied' = occupied /\ live' = live
      /\ iterator' = iterator /\ seen' = seen /\ result' = Object(0, 0, 0)
  BY DEF GetArrayRefused, iteratorVars, NoObject, NULL
<1>2. TypeOK'
  BY <1>1, NoWalkFacts DEF IInv, TypeOK, Object, ObjectType
<1>3. NoBlockLost' /\ ObjectsDisjoint' /\ FillMark' /\ IteratorBehind'
  BY <1>1 DEF IInv, NoBlockLost, ObjectsDisjoint, FillMark, IteratorBehind, End
<1>4. Placed'
  BY <1>1 DEF IInv, Placed, OnlySingles, Rank
<1> QED
  BY <1>2, <1>3, <1>4, NoWalkFacts DEF IInv

(***************************************************************************)
(* What does not touch the pool or its iterator keeps all but what is said *)
(* of the used count.                                                      *)
(***************************************************************************)
LEMMA UntouchedIInv ==
  ASSUME IInv, UNCHANGED <<poolVars, iteratorVars>>, walk' \in WalkType, WalkCounts'
  PROVE  IInv'
<1>1. /\ next' = next /\ last' = last /\ occupied' = occupied /\ live' = live
      /\ iterator' = iterator /\ seen' = seen /\ result' = result
  BY DEF poolVars, iteratorVars
<1>2. TypeOK'
  BY <1>1 DEF IInv, TypeOK
<1>3. NoBlockLost' /\ ObjectsDisjoint' /\ FillMark' /\ IteratorBehind'
  BY <1>1 DEF IInv, NoBlockLost, ObjectsDisjoint, FillMark, IteratorBehind, End
<1>4. Placed'
  BY <1>1 DEF IInv, Placed, OnlySingles, Rank
<1> QED
  BY <1>2, <1>3, <1>4 DEF IInv

(***************************************************************************)
(* The numbers and the chain the walk of the used count goes along: only   *)
(* behind the block being filled the chain goes on with what follows it.   *)
(***************************************************************************)
LEMMA WalkFacts ==
  ASSUME IInv
  PROVE  /\ PoolSize \in Nat \ {0} /\ last \in Nat \ {0} /\ occupied \in Nat
         /\ next[last] \in Nat
         /\ \A b \in 1 .. last : next[b] = next[last] <=> b = last
         /\ \A b \in 1 .. last : b # last => next[b] = b + 1 /\ b + 1 \in 1 .. last
<1>1. /\ PoolSize \in Nat \ {0} /\ last \in Nat \ {0} /\ occupied \in Nat
  BY ElementTypes DEF IInv
<1>2. /\ next \in Seq(Nat) /\ last \in 1 .. Len(next)
      /\ Len(next) \in Nat /\ DOMAIN next = 1 .. Len(next)
  BY SeqFacts DEF IInv, TypeOK
<1>3. next[last] \in Nat /\ last \in DOMAIN next
  BY <1>2, SeqFacts
<1>4. next[last] = IF last < Len(next) THEN last + 1 ELSE 0
  BY <1>3 DEF IInv, NoBlockLost, NULL
<1>5. ASSUME NEW b \in 1 .. last, b # last
      PROVE  next[b] = b + 1 /\ b + 1 \in 1 .. last /\ next[b] # next[last]
  <2>1. b \in Nat /\ b < last /\ b < Len(next) /\ b \in DOMAIN next
    BY <1>1, <1>2, <1>5
  <2>2. next[b] = b + 1
    BY <2>1 DEF IInv, NoBlockLost
  <2> QED
    BY <1>1, <1>4, <2>1, <2>2
<1> QED
  BY <1>1, <1>3, <1>5

(* The walk begins at the first block, before anything is counted. *)
LEMMA UsedCountBeginIInv ==
  ASSUME IInv, UsedCountBegin
  PROVE  IInv'
<1>1. /\ walk' = [phase |-> "walk", block |-> 1, stop |-> next[last], used |-> 0]
      /\ UNCHANGED <<poolVars, iteratorVars>>
  BY DEF UsedCountBegin, FirstPool
<1>2. walk' \in WalkType /\ 1 \in 1 .. last /\ Rank(1, 0) = 0
  BY <1>1, WalkFacts, RestartFacts DEF WalkType, FirstPool
<1>3. WalkCounts'
  <2>1. next' = next /\ last' = last
    BY <1>1 DEF poolVars
  <2>2. /\ walk'.phase = "walk" /\ walk'.block = 1
        /\ walk'.stop = next[last] /\ walk'.used = 0
    BY <1>1
  <2> QED
    BY <1>2, <2>1, <2>2 DEF WalkCounts, Rank
<1> QED
  BY <1>1, <1>2, <1>3, UntouchedIInv

(* A turn counts the block it leaves, which is not the one being filled. *)
LEMMA UsedCountTurnIInv ==
  ASSUME IInv, UsedCountTurn
  PROVE  IInv'
<1> DEFINE b == walk.block
           u == walk.used
<1>1. /\ walk.phase = "walk" /\ next[b] # walk.stop
      /\ walk' = [walk EXCEPT !.used = @ + PoolSize, !.block = next[@]]
      /\ UNCHANGED <<poolVars, iteratorVars>>
  BY DEF UsedCountTurn
<1>2. /\ walk \in WalkType /\ b \in 1 .. last
      /\ walk.stop = next[last] /\ u = Rank(b, 0)
  BY <1>1 DEF IInv, TypeOK, WalkCounts
<1>3. next[b] = b + 1 /\ b + 1 \in 1 .. last
  BY <1>1, <1>2, WalkFacts
<1>4. PoolSize \in Nat /\ b \in Nat \ {0} /\ u \in Nat /\ last \in Nat
  BY <1>2, WalkFacts DEF WalkType
<1>5. Rank(b + 1, 0) = u + PoolSize
  <2>1. Rank(b + 1, 0) = Rank(b, PoolSize) + 0 /\ Rank(b, PoolSize) = Rank(b, 0) + PoolSize
    BY <1>4, RankSteps
  <2> QED
    BY <1>2, <1>4, <2>1
<1>6. /\ walk' \in WalkType /\ walk'.phase = "walk" /\ walk'.stop = walk.stop
      /\ walk'.block = b + 1 /\ walk'.used = u + PoolSize
  <2>1. walk' = [phase |-> "walk", block |-> next[b], stop |-> walk.stop,
                 used |-> u + PoolSize]
    BY <1>1, <1>2 DEF WalkType
  <2>2. next[b] = b + 1 /\ next[b] \in Nat /\ walk.stop \in Nat /\ u + PoolSize \in Nat
    BY <1>2, <1>3, <1>4, WalkFacts
  <2> HIDE DEF u, b
  <2> QED
    BY <2>1, <2>2 DEF WalkType
<1>7. WalkCounts'
  <2>1. next' = next /\ last' = last
    BY <1>1 DEF poolVars
  <2> QED
    BY <1>2, <1>3, <1>5, <1>6, <2>1 DEF WalkCounts, Rank
<1> QED
  BY <1>1, <1>6, <1>7, UntouchedIInv

(* The walk returns at the block being filled. *)
LEMMA UsedCountReturnIInv ==
  ASSUME IInv, UsedCountReturn
  PROVE  IInv'
<1> DEFINE u == walk.used
<1>1. /\ walk.phase = "walk" /\ next[walk.block] = walk.stop
      /\ walk' = [walk EXCEPT !.used = @ + occupied, !.phase = "returned"]
      /\ UNCHANGED <<poolVars, iteratorVars>>
  BY DEF UsedCountReturn
<1>2. /\ walk \in WalkType /\ walk.block \in 1 .. last
      /\ walk.stop = next[last] /\ u = Rank(walk.block, 0)
  BY <1>1 DEF IInv, TypeOK, WalkCounts
<1>3. walk.block = last /\ last \in Nat \ {0} /\ occupied \in Nat /\ u \in Nat
  BY <1>1, <1>2, WalkFacts DEF WalkType
<1>4. Rank(last, occupied) = u + occupied
  BY <1>2, <1>3, RankSteps
<1>5. walk' \in WalkType /\ walk'.phase = "returned" /\ walk'.used = u + occupied
  <2>1. walk' = [phase |-> "returned", block |-> walk.block, stop |-> walk.stop,
                 used |-> u + occupied]
    BY <1>1, <1>2 DEF WalkType
  <2>2. walk.block \in Nat /\ walk.stop \in Nat /\ u + occupied \in Nat
    BY <1>2, <1>3, WalkFacts
  <2> HIDE DEF u
  <2> QED
    BY <2>1, <2>2 DEF WalkType
<1>6. WalkCounts'
  <2>1. last' = last /\ occupied' = occupied
    BY <1>1 DEF poolVars
  <2> QED
    BY <1>4, <1>5, <2>1 DEF WalkCounts, Rank
<1> QED
  BY <1>1, <1>5, <1>6, UntouchedIInv

(***************************************************************************)
(* The invariant is inductive.                                             *)
(***************************************************************************)
LEMMA NextIInv == IInv /\ [Next]_vars => IInv'
<1> SUFFICES ASSUME IInv, [Next]_vars PROVE IInv'
  OBVIOUS
<1>1. ASSUME Use PROVE IInv'
  <2>1. walk' = NoWalk
    BY <1>1 DEF Use
  <2>2. CASE Get \/ \E count \in Counts : GetArray(count)
    <3>1. PICK n \in 1 .. PoolSize : Take(n)
      BY <2>2, GetIsTake DEF IInv
    <3> QED
      BY <2>1, <3>1, TakeIInv
  <2>3. ASSUME NEW count \in Counts, GetArrayRefused(count) PROVE IInv'
    BY <2>1, <2>3, RefusedIInv
  <2>4. CASE Reset \/ IteratorInit \/ IteratorGetNext
    BY <2>1, <2>4, ResetIInv, IteratorInitIInv, GetNextIInv
  <2> QED
    BY <1>1, <2>2, <2>3, <2>4 DEF Use
<1>2. CASE UNCHANGED vars
  <2>1. UNCHANGED <<poolVars, iteratorVars>> /\ walk' = walk
    BY <1>2 DEF vars
  <2>2. next' = next /\ last' = last /\ occupied' = occupied
    BY <2>1 DEF poolVars
  <2>3. walk' \in WalkType /\ WalkCounts'
    BY <2>1, <2>2 DEF IInv, TypeOK, WalkCounts, Rank
  <2> QED
    BY <2>1, <2>3, UntouchedIInv
<1> QED
  BY <1>1, <1>2, UsedCountBeginIInv, UsedCountTurnIInv, UsedCountReturnIInv DEF Next

(* The inductive invariant holds of every behaviour of the pool. *)
LEMMA Inductive == Spec => []IInv
BY InitIInv, NextIInv, PTL DEF Spec

-----------------------------------------------------------------------------

(***************************************************************************)
(* The variables of the pool keep their types.                             *)
(***************************************************************************)
THEOREM TypeCorrect == Spec => []TypeOK
<1>1. IInv => TypeOK
  BY DEF IInv
<1> QED
  BY <1>1, Inductive, PTL

(***************************************************************************)
(* However often a pool is reset and filled again, deinit reaches every    *)
(* block from the first one.                                               *)
(***************************************************************************)
THEOREM BlocksStayLinked == Spec => []NoBlockLost
<1>1. IInv => NoBlockLost
  BY DEF IInv
<1> QED
  BY <1>1, Inductive, PTL

(***************************************************************************)
(* No two objects handed out since a reset overlap, and each lies inside   *)
(* its block, for every mix of objects and arrays.                         *)
(***************************************************************************)
THEOREM ObjectsStayApart == Spec => []ObjectsDisjoint
<1>1. IInv => ObjectsDisjoint
  BY DEF IInv
<1> QED
  BY <1>1, Inductive, PTL

(***************************************************************************)
(* The walk of the used count never leaves the blocks in use, though the   *)
(* chain goes on behind them after a reset, and its answer is the number   *)
(* of objects in a pool of single objects.                                 *)
(***************************************************************************)
THEOREM UsedCountIsExact == Spec => []UsedCountExact
<1>1. IInv => UsedCountExact
  BY DEF IInv, WalkCounts, Placed, UsedCountExact, FirstPool
<1> QED
  BY <1>1, Inductive, PTL

(***************************************************************************)
(* An iterator returns every object once, in order, and then stops, while  *)
(* the pool grows under it.                                                *)
(***************************************************************************)
THEOREM IteratorIsExact == Spec => []IteratorInOrder
<1>1. IInv => IteratorInOrder
  BY HasNextExact DEF IInv, Placed, IteratorInOrder
<1> QED
  BY <1>1, Inductive, PTL

(***************************************************************************)
(* An iterator never leaves the blocks of the pool, arrays or not.         *)
(***************************************************************************)
THEOREM IteratorStaysInBounds == Spec => []IteratorInBounds
<1>1. ASSUME IInv PROVE IteratorInBounds
  <2>1. /\ Len(next) \in Nat /\ DOMAIN next = 1 .. Len(next)
        /\ last \in 1 .. Len(next)
    BY <1>1, SeqFacts DEF IInv, TypeOK
  <2>2. iterator.block \in 1 .. last /\ iterator.index <= PoolSize
    BY <1>1 DEF IInv, IteratorBehind
  <2> QED
    BY <2>1, <2>2 DEF IteratorInBounds
<1> QED
  BY <1>1, Inductive, PTL

=============================================================================
