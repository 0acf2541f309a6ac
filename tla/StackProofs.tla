----------------------------- MODULE StackProofs ----------------------------
(***************************************************************************)
(* Machine-checked proofs about Stack, for every block size, set of values *)
(* and number of blocks: its links and counts stay exact, and it is a      *)
(* last-in-first-out stack with a reader.                                  *)
(***************************************************************************)
EXTENDS Stack, TLAPS

(***************************************************************************)
(* What Append does to a sequence.                                         *)
(***************************************************************************)
LEMMA AppendFacts ==
  ASSUME NEW S, NEW s \in Seq(S), NEW e \in S
  PROVE  /\ Append(s, e) \in Seq(S)
         /\ Len(s) \in Nat
         /\ Len(Append(s, e)) = Len(s) + 1
         /\ DOMAIN s = 1 .. Len(s)
         /\ DOMAIN Append(s, e) = 1 .. Len(s) + 1
         /\ Append(s, e)[Len(s) + 1] = e
         /\ \A i \in DOMAIN s : Append(s, e)[i] = s[i] /\ s[i] \in S
OBVIOUS

(* The length, the domain and the elements of a sequence over S. *)
LEMMA SeqFacts ==
  ASSUME NEW S, NEW s \in Seq(S)
  PROVE  /\ Len(s) \in Nat
         /\ DOMAIN s = 1 .. Len(s)
         /\ \A i \in DOMAIN s : s[i] \in S
OBVIOUS

-----------------------------------------------------------------------------

(***************************************************************************)
(* Depth counts the slots below a place, so it is the quotient and the     *)
(* remainder of a depth that lead back to the place.                       *)
(***************************************************************************)
LEMMA DivMod ==
  ASSUME NEW n \in Nat \ {0}, NEW k \in Nat
  PROVE  /\ k \div n \in Nat
         /\ k % n \in 0 .. n - 1
         /\ k = (k \div n) * n + (k % n)
OBVIOUS

(* A number has one quotient and one remainder. *)
LEMMA QuotientUnique ==
  ASSUME NEW n \in Nat \ {0}, NEW q \in Nat, NEW r \in 0 .. n - 1,
         NEW p \in Nat, NEW s \in 0 .. n - 1, q * n + r = p * n + s
  PROVE  q = p /\ r = s
<1>1. ASSUME NEW x \in Nat, NEW y \in Nat, x < y
      PROVE  x * n + n <= y * n
  <2>1. (x + 1) * n <= y * n
    <3>1. x + 1 <= y
      BY <1>1
    <3>2. \A i, j, m \in Nat : i <= j => i * m <= j * m
      OBVIOUS
    <3> QED
      BY <3>1, <3>2
  <2>2. (x + 1) * n = x * n + n
    OBVIOUS
  <2> QED
    BY <2>1, <2>2
<1>2. q * n \in Nat /\ p * n \in Nat
  OBVIOUS
<1>3. ~(q < p)
  BY <1>1, <1>2
<1>4. ~(p < q)
  BY <1>1, <1>2
<1> QED
  BY <1>2, <1>3, <1>4

(***************************************************************************)
(* The end of a block is the beginning of the next one.                    *)
(***************************************************************************)
LEMMA DepthSteps ==
  ASSUME NEW b \in Nat \ {0}, NEW i \in Nat
  PROVE  /\ Depth(b, i) \in Nat
         /\ Depth(FirstPool, i) = i
         /\ Depth(b, i) = Depth(b, 0) + i
         /\ Depth(b + 1, i) = Depth(b, PoolSize) + i
<1>1. PoolSize \in Nat
  BY StackAssumption
<1>2. \A m, n \in Nat : m * n \in Nat /\ (m + 1) * n = m * n + n /\ 0 * n = 0
  OBVIOUS
<1>3. (b - 1) \in Nat /\ (b + 1) - 1 = (b - 1) + 1
  OBVIOUS
<1>4. (b - 1) * PoolSize \in Nat
  BY <1>1, <1>2, <1>3
<1>5. ((b + 1) - 1) * PoolSize = (b - 1) * PoolSize + PoolSize
  BY <1>1, <1>2, <1>3
<1>6. (1 - 1) * PoolSize = 0
  BY <1>1
<1> QED
  BY <1>1, <1>4, <1>5, <1>6 DEF Depth, FirstPool

(* Every slot of a block lies below every slot of a later one. *)
LEMMA DepthOrder ==
  ASSUME NEW b \in Nat \ {0}, NEW c \in Nat \ {0}, b < c
  PROVE  Depth(b, PoolSize) <= Depth(c, 0)
<1>1. PoolSize \in Nat
  BY StackAssumption
<1>2. \A k, m, n \in Nat : k <= m => k * n <= m * n
  OBVIOUS
<1>3. b * PoolSize <= (c - 1) * PoolSize
  BY <1>1, <1>2
<1>4. (b - 1) * PoolSize + PoolSize = b * PoolSize
  <2>1. \A m, n \in Nat : m # 0 => (m - 1) * n + n = m * n
    OBVIOUS
  <2> QED
    BY <1>1, <2>1
<1>5. (c - 1) * PoolSize + 0 = (c - 1) * PoolSize
  <2>1. \A m, n \in Nat : m * n \in Nat
    OBVIOUS
  <2>2. (c - 1) * PoolSize \in Nat
    BY <1>1, <2>1
  <2> QED
    BY <2>2
<1> QED
  BY <1>3, <1>4, <1>5 DEF Depth, FirstPool

\* The place of the slot that so many slots lie below.
BlockOf(k) == k \div PoolSize + FirstPool
IndexOf(k) == k % PoolSize

(* A depth and its place determine each other. *)
LEMMA PlaceOfDepth ==
  ASSUME NEW k \in Nat
  PROVE  /\ BlockOf(k) \in Nat \ {0}
         /\ IndexOf(k) \in 0 .. PoolSize - 1
         /\ Depth(BlockOf(k), IndexOf(k)) = k
<1>1. PoolSize \in Nat \ {0}
  BY StackAssumption
<1>2. k \div PoolSize \in Nat /\ k % PoolSize \in 0 .. PoolSize - 1
  BY <1>1, DivMod
<1>3. k = (k \div PoolSize) * PoolSize + (k % PoolSize)
  BY <1>1, DivMod
<1>4. (k \div PoolSize + 1) - 1 = k \div PoolSize
  BY <1>2
<1> QED
  BY <1>2, <1>3, <1>4 DEF BlockOf, IndexOf, Depth, FirstPool

(* And the place its depth. *)
LEMMA DepthOfPlace ==
  ASSUME NEW b \in Nat \ {0}, NEW i \in 0 .. PoolSize - 1
  PROVE  BlockOf(Depth(b, i)) = b /\ IndexOf(Depth(b, i)) = i
<1>1. PoolSize \in Nat \ {0}
  BY StackAssumption
<1> DEFINE k == Depth(b, i)
<1>2. k \in Nat
  BY DepthSteps
<1>3. k \div PoolSize \in Nat /\ k % PoolSize \in 0 .. PoolSize - 1
  BY <1>1, <1>2, DivMod
<1>4. k = (k \div PoolSize) * PoolSize + (k % PoolSize)
  BY <1>1, <1>2, DivMod
<1>5. (k \div PoolSize) * PoolSize + (k % PoolSize) = (b - 1) * PoolSize + i
  BY <1>4 DEF Depth, FirstPool
<1> HIDE DEF k
<1>6. (b - 1) \in Nat
  OBVIOUS
<1>7. k \div PoolSize = b - 1 /\ k % PoolSize = i
  <2> DEFINE q == k \div PoolSize
             r == k % PoolSize
             p == b - 1
  <2>1. q \in Nat /\ r \in 0 .. PoolSize - 1 /\ p \in Nat /\ q * PoolSize + r = p * PoolSize + i
    BY <1>3, <1>5, <1>6
  <2> HIDE DEF q, r, p
  <2>2. q = p /\ r = i
    BY <1>1, <2>1, QuotientUnique
  <2> QED
    BY <2>2 DEF q, r, p
<1>8. BlockOf(k) = b /\ IndexOf(k) = i
  BY <1>7 DEF BlockOf, IndexOf, FirstPool
<1> QED
  BY <1>8 DEF k

-----------------------------------------------------------------------------
(***************************************************************************)
(* The contents of any blocks up to a place.                               *)
(***************************************************************************)
ContentsOf(blocks, b, i) ==
  [k \in 1 .. Depth(b, i) |-> blocks[BlockOf(k - 1)][IndexOf(k - 1)]]

Blocks == Seq([0 .. PoolSize - 1 -> Value])

\* A place is below another one.
Below(b, i, c, j) == b < c \/ (b = c /\ i < j)

(* The contents of the stack are those up to its top. *)
LEMMA ContentsIsContentsOf == Contents = ContentsOf(slot, current, occupied)
BY DEF Contents, ContentsOf, BlockOf, IndexOf

(* A slot with fewer slots below it is below. *)
LEMMA LesserDepth ==
  ASSUME NEW b \in Nat \ {0}, NEW i \in 0 .. PoolSize,
         NEW c \in Nat \ {0}, NEW j \in 0 .. PoolSize,
         Depth(b, i) < Depth(c, j)
  PROVE  Below(b, i, c, j)
<1>0. PoolSize \in Nat
  BY StackAssumption
<1>1. ASSUME c < b
      PROVE  FALSE
  <2>1. Depth(c, PoolSize) <= Depth(b, 0)
    BY <1>1, DepthOrder
  <2>2. Depth(c, PoolSize) = Depth(c, 0) + PoolSize /\ Depth(c, j) = Depth(c, 0) + j
    BY <1>0, DepthSteps
  <2>3. Depth(b, i) = Depth(b, 0) + i /\ Depth(b, 0) \in Nat /\ Depth(c, 0) \in Nat
    BY <1>0, DepthSteps
  <2> QED
    BY <1>0, <2>1, <2>2, <2>3
<1>2. ASSUME b = c
      PROVE  i < j
  <2>1. Depth(c, j) = Depth(c, 0) + j /\ Depth(c, i) = Depth(c, 0) + i /\ Depth(c, 0) \in Nat
    BY <1>0, DepthSteps
  <2> QED
    BY <1>0, <1>2, <2>1
<1> QED
  BY <1>1, <1>2 DEF Below

(* And the other way round. *)
LEMMA BelowIsLesser ==
  ASSUME NEW b \in Nat \ {0}, NEW i \in 0 .. PoolSize - 1,
         NEW c \in Nat \ {0}, NEW j \in 0 .. PoolSize,
         Below(b, i, c, j)
  PROVE  Depth(b, i) < Depth(c, j)
<1>0. PoolSize \in Nat
  BY StackAssumption
<1>1. /\ Depth(b, i) = Depth(b, 0) + i /\ Depth(b, 0) \in Nat
      /\ Depth(c, j) = Depth(c, 0) + j /\ Depth(c, 0) \in Nat
      /\ Depth(b, PoolSize) = Depth(b, 0) + PoolSize
  BY <1>0, DepthSteps
<1>2. CASE b < c
  <2>1. Depth(b, PoolSize) <= Depth(c, 0)
    BY <1>2, DepthOrder
  <2> QED
    BY <1>0, <1>1, <2>1
<1>3. CASE b = c /\ i < j
  BY <1>0, <1>1, <1>3
<1> QED
  BY <1>2, <1>3 DEF Below

(***************************************************************************)
(* Contents are a sequence of values, one for each slot below the place.   *)
(***************************************************************************)
LEMMA ContentsFacts ==
  ASSUME NEW blocks \in Blocks, NEW c \in 1 .. Len(blocks), NEW j \in 0 .. PoolSize
  PROVE  /\ ContentsOf(blocks, c, j) \in Seq(Value)
         /\ Len(ContentsOf(blocks, c, j)) = Depth(c, j)
         /\ \A b \in Nat \ {0}, i \in 0 .. PoolSize - 1 :
              Below(b, i, c, j) => /\ Depth(b, i) + 1 \in 1 .. Depth(c, j)
                                   /\ ContentsOf(blocks, c, j)[Depth(b, i) + 1] = blocks[b][i]
         /\ \A k \in 1 .. Depth(c, j) :
              \E b \in Nat \ {0}, i \in 0 .. PoolSize - 1 : Below(b, i, c, j) /\ k = Depth(b, i) + 1
<1>0. PoolSize \in Nat /\ c \in Nat \ {0} /\ Len(blocks) \in Nat
  BY StackAssumption, SeqFacts DEF Blocks
<1>1. Depth(c, j) \in Nat
  <2>1. j \in Nat
    BY <1>0
  <2> QED
    BY <1>0, <2>1, DepthSteps
<1>2. ASSUME NEW k \in 1 .. Depth(c, j)
      PROVE  /\ BlockOf(k - 1) \in Nat \ {0} /\ IndexOf(k - 1) \in 0 .. PoolSize - 1
             /\ Below(BlockOf(k - 1), IndexOf(k - 1), c, j)
             /\ k = Depth(BlockOf(k - 1), IndexOf(k - 1)) + 1
  <2>1. k - 1 \in Nat /\ k - 1 < Depth(c, j) /\ k = (k - 1) + 1
    BY <1>1
  <2>2. /\ BlockOf(k - 1) \in Nat \ {0}
        /\ IndexOf(k - 1) \in 0 .. PoolSize - 1
        /\ Depth(BlockOf(k - 1), IndexOf(k - 1)) = k - 1
    BY <2>1, PlaceOfDepth
  <2>3. IndexOf(k - 1) \in 0 .. PoolSize
    BY <1>0, <2>2
  <2>4. Below(BlockOf(k - 1), IndexOf(k - 1), c, j)
    BY <1>0, <2>1, <2>2, <2>3, LesserDepth
  <2> QED
    BY <2>1, <2>2, <2>4
<1>3. ASSUME NEW k \in 1 .. Depth(c, j)
      PROVE  blocks[BlockOf(k - 1)][IndexOf(k - 1)] \in Value
  <2>1. BlockOf(k - 1) \in 1 .. Len(blocks) /\ IndexOf(k - 1) \in 0 .. PoolSize - 1
    BY <1>0, <1>2 DEF Below
  <2>2. blocks[BlockOf(k - 1)] \in [0 .. PoolSize - 1 -> Value]
    BY <2>1, SeqFacts DEF Blocks
  <2> QED
    BY <2>1, <2>2
<1>4. ContentsOf(blocks, c, j) \in Seq(Value) /\ Len(ContentsOf(blocks, c, j)) = Depth(c, j)
  BY <1>1, <1>3 DEF ContentsOf
<1>5. ASSUME NEW b \in Nat \ {0}, NEW i \in 0 .. PoolSize - 1, Below(b, i, c, j)
      PROVE  /\ Depth(b, i) + 1 \in 1 .. Depth(c, j)
             /\ ContentsOf(blocks, c, j)[Depth(b, i) + 1] = blocks[b][i]
  <2>1. Depth(b, i) < Depth(c, j) /\ Depth(b, i) \in Nat
    BY <1>0, <1>5, BelowIsLesser, DepthSteps
  <2>2. Depth(b, i) + 1 \in 1 .. Depth(c, j) /\ (Depth(b, i) + 1) - 1 = Depth(b, i)
    BY <1>1, <2>1
  <2>3. BlockOf(Depth(b, i)) = b /\ IndexOf(Depth(b, i)) = i
    BY DepthOfPlace
  <2> QED
    BY <2>2, <2>3 DEF ContentsOf
<1> QED
  BY <1>2, <1>4, <1>5

(* The value of a slot below the place. *)
LEMMA SlotOfContents ==
  ASSUME NEW blocks \in Blocks, NEW c \in 1 .. Len(blocks), NEW j \in 0 .. PoolSize,
         NEW b \in Nat \ {0}, NEW i \in 0 .. PoolSize - 1, Below(b, i, c, j)
  PROVE  ContentsOf(blocks, c, j)[Depth(b, i) + 1] = blocks[b][i]
BY ContentsFacts

(* Sequences of the same elements are the same. *)
LEMMA SameElements ==
  ASSUME NEW S, NEW s \in Seq(S), NEW t \in Seq(S), Len(s) = Len(t),
         \A k \in 1 .. Len(s) : s[k] = t[k]
  PROVE  s = t
OBVIOUS

(* The first elements of a sequence. *)
LEMMA FrontFacts ==
  ASSUME NEW S, NEW s \in Seq(S), NEW n \in Nat, n <= Len(s)
  PROVE  /\ SubSeq(s, 1, n) \in Seq(S)
         /\ Len(SubSeq(s, 1, n)) = n
         /\ \A k \in 1 .. n : SubSeq(s, 1, n)[k] = s[k]
OBVIOUS

(***************************************************************************)
(* One value more above what was there is appended to the contents.        *)
(***************************************************************************)
LEMMA ContentsPushed ==
  ASSUME NEW blocks \in Blocks, NEW c \in 1 .. Len(blocks), NEW j \in 0 .. PoolSize,
         NEW after \in Blocks, NEW d \in 1 .. Len(after), NEW i \in 0 .. PoolSize - 1,
         NEW v \in Value,
         Depth(d, i) = Depth(c, j),
         after[d][i] = v,
         \A b \in Nat \ {0}, h \in 0 .. PoolSize - 1 :
           Below(b, h, c, j) => after[b][h] = blocks[b][h]
  PROVE  ContentsOf(after, d, i + 1) = Append(ContentsOf(blocks, c, j), v)
<1> DEFINE s == ContentsOf(blocks, c, j)
           t == ContentsOf(after, d, i + 1)
<1>0. /\ PoolSize \in Nat /\ i + 1 \in 0 .. PoolSize
      /\ c \in Nat \ {0} /\ d \in Nat \ {0}
  BY StackAssumption, SeqFacts DEF Blocks
<1>1. s \in Seq(Value) /\ Len(s) = Depth(c, j)
  BY ContentsFacts
<1>2. t \in Seq(Value) /\ Len(t) = Depth(d, i + 1)
  BY <1>0, ContentsFacts
<1>3. Depth(d, i + 1) = Depth(d, i) + 1 /\ Depth(d, i) \in Nat
  <2>1. i \in Nat /\ i + 1 \in Nat
    BY <1>0
  <2>2. /\ Depth(d, i) = Depth(d, 0) + i /\ Depth(d, 0) \in Nat
        /\ Depth(d, i + 1) = Depth(d, 0) + (i + 1)
    BY <1>0, <2>1, DepthSteps
  <2> QED
    BY <2>1, <2>2
<1>4. Len(t) = Len(s) + 1 /\ Len(s) \in Nat
  BY <1>1, <1>2, <1>3
<1>5. ASSUME NEW k \in 1 .. Len(s)
      PROVE  t[k] = s[k]
  <2>1. PICK b \in Nat \ {0}, h \in 0 .. PoolSize - 1 : Below(b, h, c, j) /\ k = Depth(b, h) + 1
    BY <1>1, ContentsFacts
  <2>2. s[k] = blocks[b][h]
    BY <2>1, SlotOfContents
  <2>3. Depth(b, h) < Depth(d, i + 1)
    <3>1. Depth(b, h) < Depth(c, j)
      BY <1>0, <2>1, BelowIsLesser
    <3>2. Depth(b, h) \in Nat
      <4>1. h \in Nat
        BY <1>0
      <4> QED
        BY <4>1, DepthSteps
    <3> QED
      BY <3>1, <3>2, <1>3
  <2>4. Below(b, h, d, i + 1)
    BY <1>0, <2>3, LesserDepth
  <2>5. t[k] = after[b][h]
    BY <1>0, <2>1, <2>4, SlotOfContents
  <2> QED
    BY <2>1, <2>2, <2>5
<1>6. t[Len(s) + 1] = v
  <2>1. Below(d, i, d, i + 1)
    BY DEF Below
  <2>2. t[Depth(d, i) + 1] = after[d][i]
    BY <1>0, <2>1, SlotOfContents
  <2> QED
    BY <1>1, <2>2
<1> HIDE DEF s, t
<1>7. /\ Append(s, v) \in Seq(Value)
      /\ Len(Append(s, v)) = Len(s) + 1
      /\ Append(s, v)[Len(s) + 1] = v
      /\ \A k \in 1 .. Len(s) : Append(s, v)[k] = s[k]
  BY <1>1, AppendFacts
<1>8. \A k \in 1 .. Len(t) : t[k] = Append(s, v)[k]
  BY <1>4, <1>5, <1>6, <1>7
<1>9. t = Append(s, v)
  BY <1>2, <1>4, <1>7, <1>8, SameElements
<1> QED
  BY <1>9 DEF s, t

(* One value less leaves the others. *)
LEMMA ContentsPopped ==
  ASSUME NEW blocks \in Blocks, NEW c \in 1 .. Len(blocks), NEW j \in 0 .. PoolSize,
         NEW d \in 1 .. Len(blocks), NEW i \in 0 .. PoolSize,
         Depth(c, j) = Depth(d, i) + 1
  PROVE  ContentsOf(blocks, d, i)
           = SubSeq(ContentsOf(blocks, c, j), 1, Len(ContentsOf(blocks, c, j)) - 1)
<1> DEFINE s == ContentsOf(blocks, c, j)
           t == ContentsOf(blocks, d, i)
<1>0. PoolSize \in Nat /\ c \in Nat \ {0} /\ d \in Nat \ {0} /\ i \in Nat
  BY StackAssumption, SeqFacts DEF Blocks
<1>1. s \in Seq(Value) /\ Len(s) = Depth(c, j)
  BY ContentsFacts
<1>2. t \in Seq(Value) /\ Len(t) = Depth(d, i)
  BY ContentsFacts
<1>3. Depth(d, i) \in Nat
  BY <1>0, DepthSteps
<1>4. Len(s) - 1 = Len(t) /\ Len(t) \in Nat /\ Len(t) <= Len(s)
  BY <1>1, <1>2, <1>3
<1>5. ASSUME NEW k \in 1 .. Len(t)
      PROVE  t[k] = s[k]
  <2>1. PICK b \in Nat \ {0}, h \in 0 .. PoolSize - 1 : Below(b, h, d, i) /\ k = Depth(b, h) + 1
    BY <1>2, ContentsFacts
  <2>2. t[k] = blocks[b][h]
    BY <2>1, SlotOfContents
  <2>3. Depth(b, h) < Depth(c, j)
    <3>1. Depth(b, h) < Depth(d, i)
      BY <1>0, <2>1, BelowIsLesser
    <3>2. Depth(b, h) \in Nat
      <4>1. h \in Nat
        BY <1>0
      <4> QED
        BY <4>1, DepthSteps
    <3> QED
      BY <1>3, <3>1, <3>2
  <2>4. Below(b, h, c, j)
    BY <1>0, <2>3, LesserDepth
  <2>5. s[k] = blocks[b][h]
    BY <2>1, <2>4, SlotOfContents
  <2> QED
    BY <2>2, <2>5
<1> HIDE DEF s, t
<1>6. /\ SubSeq(s, 1, Len(t)) \in Seq(Value)
      /\ Len(SubSeq(s, 1, Len(t))) = Len(t)
      /\ \A k \in 1 .. Len(t) : SubSeq(s, 1, Len(t))[k] = s[k]
  BY <1>1, <1>4, FrontFacts
<1>7. t = SubSeq(s, 1, Len(t))
  BY <1>2, <1>5, <1>6, SameElements
<1> QED
  BY <1>4, <1>7 DEF s, t

-----------------------------------------------------------------------------
(* What a write to one slot of the blocks does. *)
Written(blocks, c, j, v) == [blocks EXCEPT ![c][j] = v]

(* The blocks stay blocks, and the other slots keep their values. *)
LEMMA WriteFacts ==
  ASSUME NEW blocks \in Blocks, NEW c \in 1 .. Len(blocks), NEW j \in 0 .. PoolSize - 1,
         NEW v \in Value
  PROVE  /\ Written(blocks, c, j, v) \in Blocks
         /\ Len(Written(blocks, c, j, v)) = Len(blocks)
         /\ Written(blocks, c, j, v)[c][j] = v
         /\ \A b \in 1 .. Len(blocks), i \in 0 .. PoolSize - 1 :
              b # c \/ i # j => Written(blocks, c, j, v)[b][i] = blocks[b][i]
<1> DEFINE after == Written(blocks, c, j, v)
           B == [0 .. PoolSize - 1 -> Value]
           block == [blocks[c] EXCEPT ![j] = v]
<1>1. blocks \in Seq(B) /\ blocks[c] \in B
  BY SeqFacts DEF Blocks
<1>2. block \in B /\ block[j] = v /\ \A i \in 0 .. PoolSize - 1 : i # j => block[i] = blocks[c][i]
  BY <1>1
<1>3. after = [blocks EXCEPT ![c] = block]
  BY DEF Written
<1> HIDE DEF block, B, after
<1>4. /\ after \in Seq(B) /\ Len(after) = Len(blocks) /\ after[c] = block
      /\ \A b \in 1 .. Len(blocks) : b # c => after[b] = blocks[b]
  BY <1>1, <1>2, <1>3
<1> QED
  BY <1>2, <1>4 DEF Blocks, B, after

(***************************************************************************)
(* The links, and where the iterator may stand: they make ChainOK          *)
(* inductive. ChainOK alone does not keep the iterator below the top.      *)
(***************************************************************************)
Links ==
  /\ Len(prev) = Len(next) /\ Len(slot) = Len(next)
  /\ \A b \in DOMAIN next :
       /\ next[b] = IF b < Len(next) THEN b + 1 ELSE NULL
       /\ prev[b] = b - 1
  /\ current # FirstPool => occupied > 0

IteratorPlaced ==
  iterator.block # NULL =>
    /\ iterator.block \in 1 .. current
    /\ iterator.index \in 0 .. PoolSize
    /\ iterator.block = current => iterator.index <= occupied

IInv == TypeOK /\ Links /\ IteratorPlaced

(* What the steps below use of it. *)
LEMMA InvFacts ==
  ASSUME IInv
  PROVE  /\ PoolSize \in Nat /\ PoolSize > 0
         /\ Len(next) \in Nat /\ DOMAIN next = 1 .. Len(next)
         /\ DOMAIN prev = 1 .. Len(next)
         /\ slot \in Blocks /\ Len(slot) = Len(next)
         /\ current \in Nat \ {0} /\ current \in 1 .. Len(next) /\ current \in 1 .. Len(slot)
         /\ next[current] = IF current < Len(next) THEN current + 1 ELSE NULL
         /\ prev[current] = current - 1
         /\ occupied \in 0 .. PoolSize /\ occupied \in Nat
         /\ current # FirstPool => occupied > 0
         /\ Bottom = FirstPool
         /\ prev[current] = NULL <=> current = FirstPool
<1> USE DEF IInv, TypeOK, Links
<1>1. PoolSize \in Nat /\ PoolSize > 0
  BY StackAssumption
<1>2. /\ Len(next) \in Nat /\ DOMAIN next = 1 .. Len(next)
      /\ DOMAIN prev = 1 .. Len(next)
      /\ slot \in Blocks /\ Len(slot) = Len(next)
  BY SeqFacts DEF Blocks
<1>3. current \in Nat \ {0} /\ current \in 1 .. Len(next)
  BY <1>2
<1>4. /\ next[current] = IF current < Len(next) THEN current + 1 ELSE NULL
      /\ prev[current] = current - 1
  BY <1>2, <1>3
<1>5. Bottom = FirstPool
  <2>1. FirstPool \in DOMAIN prev /\ prev[FirstPool] = NULL
    BY <1>2, <1>3 DEF FirstPool, NULL
  <2>2. \A b \in DOMAIN prev : prev[b] = NULL => b = FirstPool
    BY <1>2 DEF FirstPool, NULL
  <2> QED
    BY <2>1, <2>2 DEF Bottom
<1>6. occupied \in 0 .. PoolSize /\ occupied \in Nat /\ (current # FirstPool => occupied > 0)
  BY <1>1
<1> QED
  BY <1>1, <1>2, <1>3, <1>4, <1>5, <1>6 DEF FirstPool, NULL

(* A fresh stack. *)
LEMMA InitInv == Init => IInv
<1> SUFFICES ASSUME Init
             PROVE  IInv
  OBVIOUS
<1> USE DEF Init
<1>1. FreshBlock \in [0 .. PoolSize - 1 -> Value]
  BY StackAssumption DEF FreshBlock
<1>2. TypeOK
  BY <1>1, StackAssumption DEF TypeOK, NULL, FirstPool, NoIterator
<1>3. Links
  BY DEF Links, NULL, FirstPool
<1>4. IteratorPlaced
  BY DEF IteratorPlaced, NoIterator
<1> QED
  BY <1>2, <1>3, <1>4 DEF IInv

-----------------------------------------------------------------------------
(***************************************************************************)
(* Each of the three ways to push keeps the invariant, puts the value in   *)
(* the slot above all others, and leaves those below as they are.          *)
(***************************************************************************)
Pushed(v) ==
  /\ slot' \in Blocks
  /\ current' \in 1 .. Len(slot')
  /\ occupied' - 1 \in 0 .. PoolSize - 1
  /\ occupied' = (occupied' - 1) + 1
  /\ Depth(current', occupied' - 1) = Depth(current, occupied)
  /\ slot'[current'][occupied' - 1] = v
  /\ \A b \in Nat \ {0}, h \in 0 .. PoolSize - 1 :
       Below(b, h, current, occupied) => slot'[b][h] = slot[b][h]

(* Into the current block. *)
LEMMA PushHereStep ==
  ASSUME IInv, NEW v \in Value, PushHere(v), UNCHANGED <<iterator, result>>
  PROVE  IInv' /\ Pushed(v)
<1> USE DEF PushHere
<1>0. occupied \in 0 .. PoolSize - 1 /\ current \in 1 .. Len(slot) /\ slot \in Blocks
  BY InvFacts
<1>1. /\ slot' \in Blocks /\ Len(slot') = Len(slot)
      /\ slot'[current][occupied] = v
      /\ \A b \in 1 .. Len(slot), i \in 0 .. PoolSize - 1 :
           b # current \/ i # occupied => slot'[b][i] = slot[b][i]
  <2>1. slot' = Written(slot, current, occupied, v)
    BY DEF Written
  <2> DEFINE after == Written(slot, current, occupied, v)
  <2>2. /\ after \in Blocks /\ Len(after) = Len(slot)
        /\ after[current][occupied] = v
        /\ \A b \in 1 .. Len(slot), i \in 0 .. PoolSize - 1 :
             b # current \/ i # occupied => after[b][i] = slot[b][i]
    BY <1>0, WriteFacts
  <2> HIDE DEF after, PushHere
  <2>3. slot' = after
    BY <2>1 DEF after
  <2> QED
    BY <2>2, <2>3
<1>2. occupied' = occupied + 1 /\ occupied' - 1 = occupied /\ occupied' \in 1 .. PoolSize
  BY <1>0, InvFacts
<1>3. TypeOK'
  BY <1>1, <1>2 DEF IInv, TypeOK, Blocks
<1>4. Links'
  BY <1>1, <1>2 DEF IInv, Links, TypeOK
<1>5. IteratorPlaced'
  <2>1. ASSUME iterator.block # NULL, iterator.block = current
        PROVE  iterator.index <= occupied'
    <3>1. iterator.index \in 0 .. PoolSize /\ iterator.index <= occupied
      BY <2>1 DEF IInv, IteratorPlaced
    <3> QED
      BY <3>1, <1>0, <1>2, InvFacts
  <2> QED
    BY <2>1 DEF IInv, IteratorPlaced
<1>6. Pushed(v)
  <2>1. ASSUME NEW b \in Nat \ {0}, NEW h \in 0 .. PoolSize - 1, Below(b, h, current, occupied)
        PROVE  slot'[b][h] = slot[b][h]
    <3>1. b \in 1 .. Len(slot) /\ (b # current \/ h # occupied)
      BY <2>1, InvFacts DEF Below
    <3> QED
      BY <1>1, <3>1
  <2>2. /\ current' \in 1 .. Len(slot')
        /\ occupied' - 1 \in 0 .. PoolSize - 1
        /\ occupied' = (occupied' - 1) + 1
        /\ Depth(current', occupied' - 1) = Depth(current, occupied)
        /\ slot'[current'][occupied' - 1] = v
    BY <1>0, <1>1, <1>2
  <2> QED
    BY <1>1, <2>1, <2>2 DEF Pushed
<1> QED
  BY <1>3, <1>4, <1>5, <1>6 DEF IInv

(* Into the first slot of a block left from before. *)
LEMMA PushOnNextStep ==
  ASSUME IInv, NEW v \in Value, PushOnNext(v), UNCHANGED <<iterator, result>>
  PROVE  IInv' /\ Pushed(v)
<1> USE DEF PushOnNext
<1>0. /\ current < Len(next) /\ next[current] = current + 1 /\ current + 1 \in 1 .. Len(slot)
      /\ occupied = PoolSize /\ 0 \in 0 .. PoolSize - 1 /\ slot \in Blocks
  BY InvFacts
<1>1. slot' = Written(slot, current + 1, 0, v)
  BY <1>0 DEF Written
<1>2. /\ slot' \in Blocks /\ Len(slot') = Len(slot)
      /\ slot'[current + 1][0] = v
      /\ \A b \in 1 .. Len(slot), i \in 0 .. PoolSize - 1 :
           b # current + 1 \/ i # 0 => slot'[b][i] = slot[b][i]
  <2> DEFINE after == Written(slot, current + 1, 0, v)
  <2>1. /\ after \in Blocks /\ Len(after) = Len(slot)
        /\ after[current + 1][0] = v
        /\ \A b \in 1 .. Len(slot), i \in 0 .. PoolSize - 1 :
             b # current + 1 \/ i # 0 => after[b][i] = slot[b][i]
    BY <1>0, WriteFacts
  <2> HIDE DEF after, PushOnNext
  <2>2. slot' = after
    BY <1>1 DEF after
  <2> QED
    BY <2>1, <2>2
<1>3. current' = current + 1 /\ occupied' = 1 /\ occupied' \in 1 .. PoolSize
  BY <1>0, InvFacts
<1>4. TypeOK'
  BY <1>0, <1>2, <1>3, InvFacts DEF IInv, TypeOK, Blocks
<1>5. Links'
  BY <1>2, <1>3 DEF IInv, Links, TypeOK
<1>6. IteratorPlaced'
  <2>1. ASSUME iterator.block # NULL
        PROVE  iterator.block \in 1 .. current' /\ iterator.block # current'
    <3>1. iterator.block \in 1 .. current
      BY <2>1 DEF IInv, IteratorPlaced
    <3> QED
      BY <3>1, <1>3, InvFacts
  <2> QED
    BY <2>1 DEF IInv, IteratorPlaced
<1>7. Pushed(v)
  <2>1. ASSUME NEW b \in Nat \ {0}, NEW h \in 0 .. PoolSize - 1, Below(b, h, current, occupied)
        PROVE  slot'[b][h] = slot[b][h]
    <3>1. b \in 1 .. Len(slot) /\ b # current + 1
      BY <2>1, InvFacts DEF Below
    <3> QED
      BY <1>2, <3>1
  <2>2. Depth(current + 1, 0) = Depth(current, PoolSize)
    <3>1. /\ Depth(current + 1, 0) = Depth(current, PoolSize) + 0
          /\ Depth(current, PoolSize) \in Nat
      BY InvFacts, DepthSteps
    <3> QED
      BY <3>1
  <2>3. /\ current' \in 1 .. Len(slot')
        /\ occupied' - 1 \in 0 .. PoolSize - 1
        /\ occupied' = (occupied' - 1) + 1
        /\ occupied' - 1 = 0
        /\ slot'[current'][0] = v
    BY <1>0, <1>2, <1>3
  <2> QED
    BY <1>0, <1>2, <1>3, <2>1, <2>2, <2>3 DEF Pushed
<1> QED
  BY <1>4, <1>5, <1>6, <1>7 DEF IInv

(* Into the first slot of a new block. *)
LEMMA PushOnNewStep ==
  ASSUME IInv, NEW v \in Value, PushOnNew(v), UNCHANGED <<iterator, result>>
  PROVE  IInv' /\ Pushed(v)
<1> DEFINE block == [FreshBlock EXCEPT ![0] = v]
           linked == [next EXCEPT ![current] = Len(next) + 1]
<1>0. /\ current = Len(next) /\ next[current] = NULL
      /\ occupied = PoolSize /\ 0 \in 0 .. PoolSize - 1 /\ slot \in Blocks
  BY InvFacts DEF PushOnNew, NULL
<1>1. block \in [0 .. PoolSize - 1 -> Value] /\ block[0] = v
  BY <1>0, StackAssumption DEF FreshBlock
<1> HIDE DEF block
<1>2. slot' = Append(slot, block)
  BY DEF block, PushOnNew
<1>3. /\ slot' \in Blocks /\ Len(slot') = Len(slot) + 1
      /\ slot'[Len(slot) + 1] = block
      /\ \A b \in 1 .. Len(slot) : slot'[b] = slot[b]
  <2> DEFINE B == [0 .. PoolSize - 1 -> Value]
  <2>1. slot \in Seq(B) /\ block \in B
    BY <1>0, <1>1 DEF Blocks
  <2> HIDE DEF B
  <2>2. slot' \in Seq(B) /\ Len(slot') = Len(slot) + 1 /\ slot'[Len(slot) + 1] = block
    BY <1>2, <2>1, AppendFacts
  <2>3. \A b \in 1 .. Len(slot) : slot'[b] = slot[b]
    BY <1>2, <2>1, AppendFacts
  <2> QED
    BY <2>2, <2>3 DEF B, Blocks
<1>4. next \in Seq(Nat) /\ prev \in Seq(Nat) /\ NULL \in Nat /\ Len(prev) = Len(next)
  BY DEF IInv, TypeOK, Links, NULL
<1>5. /\ linked \in Seq(Nat) /\ Len(linked) = Len(next)
      /\ linked[current] = Len(next) + 1
      /\ \A b \in 1 .. Len(next) : b # current => linked[b] = next[b]
  BY <1>4, InvFacts
<1> HIDE DEF linked
<1>6. next' = Append(linked, NULL)
  BY DEF linked, PushOnNew
<1>7. /\ next' \in Seq(Nat) /\ Len(next') = Len(next) + 1
      /\ next'[Len(next) + 1] = NULL
      /\ \A b \in 1 .. Len(next) : next'[b] = linked[b]
  <2> DEFINE after == Append(linked, NULL)
  <2>1. /\ after \in Seq(Nat) /\ Len(after) = Len(linked) + 1 /\ after[Len(linked) + 1] = NULL
        /\ DOMAIN linked = 1 .. Len(linked)
        /\ \A b \in DOMAIN linked : after[b] = linked[b]
    BY <1>4, <1>5, AppendFacts
  <2> HIDE DEF after
  <2>2. next' = after
    BY <1>6 DEF after
  <2> QED
    BY <1>5, <2>1, <2>2
<1>8. /\ prev' \in Seq(Nat) /\ Len(prev') = Len(next) + 1
      /\ prev'[Len(next) + 1] = current
      /\ \A b \in 1 .. Len(next) : prev'[b] = prev[b]
  BY <1>4, AppendFacts, SeqFacts, InvFacts DEF PushOnNew
<1>9. /\ current' = current + 1 /\ current' = Len(next) + 1 /\ Len(slot) = Len(next)
      /\ occupied' = 1 /\ occupied' \in 1 .. PoolSize
  BY <1>0, InvFacts DEF PushOnNew
<1>10. TypeOK'
  <2>1. current' \in 1 .. Len(next')
    BY <1>7, <1>9, InvFacts
  <2> QED
    BY <1>3, <1>7, <1>8, <1>9, <2>1 DEF IInv, TypeOK, Blocks
<1>11. Links'
  <2>1. Len(prev') = Len(next') /\ Len(slot') = Len(next')
    BY <1>3, <1>7, <1>8, <1>9
  <2>2. ASSUME NEW b \in DOMAIN next'
        PROVE  /\ next'[b] = IF b < Len(next') THEN b + 1 ELSE NULL
               /\ prev'[b] = b - 1
    <3>1. b \in 1 .. Len(next) + 1
      BY <1>7, SeqFacts
    <3>2. CASE b = Len(next) + 1
      BY <1>0, <1>7, <1>8, <3>2, InvFacts DEF NULL
    <3>3. CASE b = current
      BY <1>0, <1>5, <1>7, <1>8, <3>3, InvFacts
    <3>4. CASE b \in 1 .. Len(next) /\ b # current
      <4>1. next[b] = b + 1 /\ prev[b] = b - 1
        BY <1>0, <3>4, InvFacts DEF IInv, Links
      <4> QED
        BY <1>0, <1>5, <1>7, <1>8, <3>4, <4>1, InvFacts
    <3> QED
      BY <3>1, <3>2, <3>3, <3>4, InvFacts
  <2> QED
    BY <1>9, <2>1, <2>2 DEF Links
<1>12. IteratorPlaced'
  <2>1. ASSUME iterator.block # NULL
        PROVE  iterator.block \in 1 .. current' /\ iterator.block # current'
    <3>1. iterator.block \in 1 .. current
      BY <2>1 DEF IInv, IteratorPlaced
    <3> QED
      BY <3>1, <1>9, InvFacts
  <2> QED
    BY <2>1 DEF IInv, IteratorPlaced
<1>13. Pushed(v)
  <2>1. ASSUME NEW b \in Nat \ {0}, NEW h \in 0 .. PoolSize - 1, Below(b, h, current, occupied)
        PROVE  slot'[b][h] = slot[b][h]
    <3>1. b \in 1 .. Len(slot)
      BY <2>1, InvFacts DEF Below
    <3> QED
      BY <1>3, <3>1
  <2>2. Depth(current + 1, 0) = Depth(current, PoolSize)
    <3>1. /\ Depth(current + 1, 0) = Depth(current, PoolSize) + 0
          /\ Depth(current, PoolSize) \in Nat
      BY InvFacts, DepthSteps
    <3> QED
      BY <3>1
  <2>3. /\ current' \in 1 .. Len(slot')
        /\ occupied' - 1 \in 0 .. PoolSize - 1
        /\ occupied' = (occupied' - 1) + 1
        /\ occupied' - 1 = 0
        /\ slot'[current'][0] = v
    BY <1>0, <1>1, <1>3, <1>9, InvFacts
  <2> QED
    BY <1>0, <1>3, <1>9, <2>1, <2>2, <2>3 DEF Pushed
<1> QED
  BY <1>10, <1>11, <1>12, <1>13 DEF IInv

(* Every push is one of the three. *)
LEMMA PushStep ==
  ASSUME IInv, NEW v \in Value, Push(v)
  PROVE  IInv' /\ Pushed(v)
<1>1. UNCHANGED <<iterator, result>>
  BY DEF Push
<1>2. CASE PushHere(v)
  BY <1>1, <1>2, PushHereStep
<1>3. CASE PushOnNext(v)
  BY <1>1, <1>3, PushOnNextStep
<1>4. CASE PushOnNew(v)
  BY <1>1, <1>4, PushOnNewStep
<1> QED
  BY <1>2, <1>3, <1>4 DEF Push

-----------------------------------------------------------------------------
(***************************************************************************)
(* How many values there are, and how many the iterator has passed.        *)
(***************************************************************************)
Height == Depth(current, occupied)

(* The contents have that length, and is_empty tells whether it is 0. *)
LEMMA HeightFacts ==
  ASSUME IInv
  PROVE  /\ Height \in Nat
         /\ Contents \in Seq(Value) /\ Len(Contents) = Height
         /\ IsEmpty <=> Height = 0
         /\ IsEmpty <=> Contents = <<>>
<1>1. Height = Depth(current, 0) + occupied /\ Depth(current, 0) \in Nat
  BY InvFacts, DepthSteps DEF Height
<1>2. Contents \in Seq(Value) /\ Len(Contents) = Height
  BY InvFacts, ContentsFacts, ContentsIsContentsOf DEF Height
<1>3. current = FirstPool => Height = occupied
  BY InvFacts, DepthSteps DEF Height
<1>4. IsEmpty <=> (occupied = 0 /\ current = FirstPool)
  BY InvFacts DEF IsEmpty
<1>5. IsEmpty <=> Height = 0
  BY <1>1, <1>3, <1>4, InvFacts
<1>6. Contents = <<>> <=> Len(Contents) = 0
  BY <1>2
<1> QED
  BY <1>1, <1>2, <1>5, <1>6, InvFacts

(* Where the iterator finds the next object: the slot its cursor counts to. *)
LEMMA NextPlace ==
  ASSUME IInv, HasNext
  PROVE  /\ NextBlock \in 1 .. current /\ NextBlock \in Nat \ {0}
         /\ NextIndex \in 0 .. PoolSize - 1
         /\ Below(NextBlock, NextIndex, current, occupied)
         /\ Depth(NextBlock, NextIndex) = Cursor
<1> DEFINE b == iterator.block
           i == iterator.index
<1>1. /\ b # NULL /\ b \in 1 .. current /\ i \in 0 .. PoolSize
      /\ b = current => i <= occupied
      /\ b # current \/ i < occupied
      /\ Cursor = Depth(b, i)
  BY DEF IInv, IteratorPlaced, HasNext, Cursor
<1>2. CASE i < PoolSize
  <2>1. ~AtBlockEnd /\ NextBlock = b /\ NextIndex = i
    BY <1>1, <1>2, InvFacts DEF AtBlockEnd, NextBlock, NextIndex
  <2>2. Below(b, i, current, occupied)
    BY <1>1, InvFacts DEF Below
  <2>3. b \in Nat \ {0} /\ i \in 0 .. PoolSize - 1
    BY <1>1, <1>2, InvFacts
  <2> QED
    BY <1>1, <2>1, <2>2, <2>3
<1>3. CASE i = PoolSize
  <2>1. b < current /\ b \in 1 .. Len(next) /\ b < Len(next) /\ b \in Nat \ {0}
    BY <1>1, <1>3, InvFacts
  <2>2. next[b] = b + 1
    BY <2>1, InvFacts DEF IInv, Links
  <2>3. AtBlockEnd /\ NextBlock = b + 1 /\ NextIndex = 0
    BY <1>3, <2>2, InvFacts DEF AtBlockEnd, NextBlock, NextIndex
  <2>4. b + 1 \in 1 .. current /\ (b + 1 = current => occupied > 0)
    BY <2>1, InvFacts DEF FirstPool
  <2>5. Below(b + 1, 0, current, occupied)
    BY <2>1, <2>4, InvFacts DEF Below
  <2>6. Depth(b + 1, 0) = Depth(b, PoolSize)
    <3>1. Depth(b + 1, 0) = Depth(b, PoolSize) + 0 /\ Depth(b, PoolSize) \in Nat
      BY <2>1, InvFacts, DepthSteps
    <3> QED
      BY <3>1
  <2> QED
    BY <1>1, <1>3, <2>1, <2>3, <2>4, <2>5, <2>6, InvFacts
<1> QED
  BY <1>1, <1>2, <1>3, InvFacts

(* has_next tells whether the cursor is below the top. *)
LEMMA CursorFacts ==
  ASSUME IInv
  PROVE  /\ Cursor \in Nat
         /\ HasNext => Cursor < Height
         /\ iterator.block # NULL => (HasNext <=> Cursor < Height)
<1>1. CASE iterator.block = NULL
  BY <1>1 DEF Cursor, HasNext
<1>2. CASE iterator.block # NULL
  <2> DEFINE b == iterator.block
             i == iterator.index
  <2>1. /\ b \in 1 .. current /\ b \in Nat \ {0} /\ i \in 0 .. PoolSize /\ i \in Nat
        /\ Cursor = Depth(b, i)
    BY <1>2, InvFacts DEF IInv, IteratorPlaced, Cursor
  <2>2. Cursor \in Nat
    BY <2>1, DepthSteps
  <2>3. ASSUME HasNext
        PROVE  Cursor < Height
    BY <2>3, NextPlace, BelowIsLesser, InvFacts DEF Height
  <2>4. ASSUME Cursor < Height
        PROVE  HasNext
    <3>1. Below(b, i, current, occupied)
      BY <2>1, <2>4, LesserDepth, InvFacts DEF Height
    <3> QED
      BY <1>2, <2>1, <3>1, InvFacts DEF Below, HasNext
  <2> QED
    BY <2>2, <2>3, <2>4
<1> QED
  BY <1>1, <1>2

(* What the invariant was strengthened for. *)
LEMMA InvGivesChainOK == IInv => ChainOK
<1> SUFFICES ASSUME IInv
             PROVE  ChainOK
  OBVIOUS
<1> QED
  BY HeightFacts, CursorFacts DEF ChainOK, IInv, Links

-----------------------------------------------------------------------------
(* The steps that leave the blocks and what is in them alone. *)
LEMMA ContentsKept ==
  ASSUME UNCHANGED <<slot, current, occupied>>
  PROVE  Contents' = Contents
BY DEF Contents, Depth

(* The steps that move the top over the blocks as they are. *)
LEMMA LinksKept ==
  ASSUME IInv, UNCHANGED <<next, prev, slot>>,
         current' \in 1 .. Len(next), occupied' \in 0 .. PoolSize,
         current' # FirstPool => occupied' > 0
  PROVE  /\ Links'
         /\ next' \in Seq(Nat) /\ prev' \in Seq(Nat)
         /\ slot' \in Seq([0 .. PoolSize - 1 -> Value])
         /\ current' \in 1 .. Len(next') /\ occupied' \in 0 .. PoolSize
BY DEF IInv, TypeOK, Links

(* An iterator that is dropped. *)
LEMMA NoIteratorPlaced ==
  ASSUME iterator' = NoIterator
  PROVE  IteratorPlaced' /\ iterator' \in [block : Nat, index : Nat] /\ Cursor' = 0
BY DEF NoIterator, IteratorPlaced, Cursor, NULL

(* Pop takes the last value, over the end of a block or not. *)
LEMMA PopStep ==
  ASSUME IInv, Pop
  PROVE  IInv' /\ Abstract!Pop
<1>1. ~IsEmpty /\ Height # 0 /\ Height \in Nat /\ UNCHANGED <<next, prev, slot, result>>
  BY HeightFacts DEF Pop
<1>2. /\ current' \in 1 .. Len(next) /\ current' \in 1 .. Len(slot) /\ occupied' \in 0 .. PoolSize
      /\ current' # FirstPool => occupied' > 0
      /\ Height = Depth(current', occupied') + 1
  <2>1. CASE occupied = 1 /\ prev[current] # NULL
    <3>1. current' = current - 1 /\ occupied' = PoolSize
      BY <2>1, InvFacts DEF Pop
    <3>2. current' \in 1 .. Len(next) /\ current = current' + 1
      BY <2>1, <3>1, InvFacts DEF FirstPool
    <3>3. Depth(current, 1) = Depth(current', PoolSize) + 1
      BY <3>2, InvFacts, DepthSteps
    <3> QED
      BY <2>1, <3>1, <3>2, <3>3, InvFacts DEF Height
  <2>2. CASE ~(occupied = 1 /\ prev[current] # NULL)
    <3>1. current' = current /\ occupied' = occupied - 1
      BY <2>2 DEF Pop
    <3>2. occupied > 0 /\ (current # FirstPool => occupied > 1)
      BY <1>1, <2>2, InvFacts DEF IsEmpty
    <3>3. occupied' \in Nat /\ occupied' \in 0 .. PoolSize /\ occupied = occupied' + 1
      BY <3>1, <3>2, InvFacts
    <3>4. /\ Depth(current, occupied) = Depth(current, 0) + occupied
          /\ Depth(current, occupied') = Depth(current, 0) + occupied'
          /\ Depth(current, 0) \in Nat
      BY <3>3, InvFacts, DepthSteps
    <3> QED
      BY <3>1, <3>2, <3>3, <3>4, InvFacts DEF Height
  <2> QED
    BY <2>1, <2>2
<1>3. iterator' = NoIterator
  BY DEF Pop
<1>4. IInv'
  BY <1>1, <1>2, <1>3, LinksKept, NoIteratorPlaced DEF IInv, TypeOK
<1>5. ContentsOf(slot, current', occupied')
        = SubSeq(ContentsOf(slot, current, occupied), 1, Len(ContentsOf(slot, current, occupied)) - 1)
  BY <1>2, InvFacts, ContentsPopped DEF Height
<1>6. Contents' = ContentsOf(slot, current', occupied')
  BY <1>1 DEF Contents, ContentsOf, BlockOf, IndexOf, Depth
<1>7. Contents' = SubSeq(Contents, 1, Len(Contents) - 1)
  BY <1>5, <1>6, ContentsIsContentsOf
<1> QED
  BY <1>1, <1>3, <1>4, <1>7, HeightFacts, NoIteratorPlaced DEF Abstract!Pop

(* Reset empties every block. *)
LEMMA ResetStep ==
  ASSUME IInv, Reset
  PROVE  IInv' /\ Abstract!Clear
<1>1. /\ current' = FirstPool /\ occupied' = 0 /\ iterator' = NoIterator
      /\ UNCHANGED <<next, prev, slot, result>>
  BY InvFacts DEF Reset
<1>2. current' \in 1 .. Len(next) /\ occupied' \in 0 .. PoolSize
  BY <1>1, InvFacts DEF FirstPool
<1>3. IInv'
  BY <1>1, <1>2, LinksKept, NoIteratorPlaced DEF IInv, TypeOK
<1>4. Depth(current', occupied') = 0
  BY <1>1, DepthSteps DEF FirstPool
<1>5. Contents' = <<>>
  BY <1>1, <1>4 DEF Contents
<1> QED
  BY <1>1, <1>3, <1>5, NoIteratorPlaced DEF Abstract!Clear

(* The steps of the iterator, which change nothing else. *)
LEMMA IteratorKeepsInv ==
  ASSUME IInv, UNCHANGED stackVars,
         iterator' \in [block : Nat, index : Nat], IteratorPlaced', result' \in Value
  PROVE  IInv' /\ Contents' = Contents
<1>1. UNCHANGED <<next, prev, slot, current, occupied>>
  BY DEF stackVars
<1>2. Contents' = Contents
  BY <1>1, ContentsKept
<1> QED
  BY <1>1, <1>2 DEF IInv, TypeOK, Links

(* Peek finds the last value. *)
LEMMA PeekStep ==
  ASSUME IInv, Peek
  PROVE  IInv' /\ Abstract!Peek
<1>1. /\ UNCHANGED <<next, prev, slot, current, occupied>> /\ UNCHANGED iterator
      /\ UNCHANGED stackVars
      /\ ~IsEmpty /\ result' = slot[current][occupied - 1]
  BY DEF Peek, stackVars
<1>2. occupied - 1 \in 0 .. PoolSize - 1 /\ (occupied - 1) \in Nat /\ occupied = (occupied - 1) + 1
  BY <1>1, InvFacts DEF IsEmpty
<1>3. Below(current, occupied - 1, current, occupied)
  BY <1>2 DEF Below
<1>4. Depth(current, occupied - 1) + 1 = Len(Contents)
  <2>1. /\ Depth(current, occupied) = Depth(current, 0) + occupied
        /\ Depth(current, occupied - 1) = Depth(current, 0) + (occupied - 1)
        /\ Depth(current, 0) \in Nat
    BY <1>2, InvFacts, DepthSteps
  <2> QED
    BY <1>2, <2>1, HeightFacts DEF Height
<1>5. Contents[Depth(current, occupied - 1) + 1] = slot[current][occupied - 1]
  BY <1>2, <1>3, InvFacts, SlotOfContents, ContentsIsContentsOf
<1>6. result' = Contents[Len(Contents)] /\ Contents # <<>>
  BY <1>1, <1>4, <1>5, HeightFacts
<1>7. result' \in Value
  <2>1. slot[current] \in [0 .. PoolSize - 1 -> Value]
    BY InvFacts, SeqFacts DEF Blocks
  <2> QED
    BY <1>1, <1>2, <2>1
<1>8. IInv' /\ Contents' = Contents
  <2>1. IteratorPlaced' /\ iterator' \in [block : Nat, index : Nat]
    BY <1>1 DEF IInv, TypeOK, IteratorPlaced
  <2> QED
    BY <1>1, <1>7, <2>1, IteratorKeepsInv
<1>9. Cursor' = Cursor
  BY <1>1 DEF Cursor, Depth
<1> QED
  BY <1>6, <1>8, <1>9 DEF Abstract!Peek

(* An iterator begins at the bottom. *)
LEMMA IteratorInitStep ==
  ASSUME IInv, IteratorInit
  PROVE  IInv' /\ Abstract!Rewind
<1>1. /\ iterator' = [block |-> FirstPool, index |-> 0]
      /\ UNCHANGED stackVars /\ UNCHANGED result
      /\ UNCHANGED <<next, prev, slot, current, occupied>>
  BY InvFacts DEF IteratorInit, stackVars
<1>2. iterator' \in [block : Nat, index : Nat] /\ IteratorPlaced'
  BY <1>1, InvFacts DEF IteratorPlaced, FirstPool
<1>3. IInv' /\ Contents' = Contents
  BY <1>1, <1>2, IteratorKeepsInv DEF IInv, TypeOK
<1>4. Cursor' = 0
  BY <1>1, DepthSteps DEF Cursor, FirstPool, NULL
<1> QED
  BY <1>1, <1>3, <1>4 DEF Abstract!Rewind

(* What get_next and skip_next have in common. *)
LEMMA IteratorMoves ==
  ASSUME IInv, HasNext, UNCHANGED stackVars,
         iterator' = [block |-> NextBlock, index |-> NextIndex + 1]
  PROVE  /\ iterator' \in [block : Nat, index : Nat] /\ IteratorPlaced'
         /\ Cursor' = Cursor + 1 /\ Cursor < Len(Contents)
<1>0. UNCHANGED <<next, prev, slot, current, occupied>>
  BY DEF stackVars
<1>1. /\ NextBlock \in 1 .. current /\ NextBlock \in Nat \ {0}
      /\ NextIndex \in 0 .. PoolSize - 1
      /\ Below(NextBlock, NextIndex, current, occupied)
      /\ Depth(NextBlock, NextIndex) = Cursor
  BY NextPlace
<1>2. NextIndex \in Nat /\ NextIndex + 1 \in Nat /\ NextIndex + 1 \in 0 .. PoolSize
  BY <1>1, InvFacts
<1>3. iterator' \in [block : Nat, index : Nat] /\ IteratorPlaced'
  <2>1. NextBlock = current => NextIndex + 1 <= occupied
    BY <1>1, <1>2, InvFacts DEF Below
  <2> QED
    BY <1>0, <1>1, <1>2, <2>1 DEF IteratorPlaced
<1>4. Cursor' = Cursor + 1
  <2>1. Cursor' = Depth(NextBlock, NextIndex + 1)
    BY <1>1 DEF Cursor, NULL, Depth
  <2>2. /\ Depth(NextBlock, NextIndex) = Depth(NextBlock, 0) + NextIndex
        /\ Depth(NextBlock, NextIndex + 1) = Depth(NextBlock, 0) + (NextIndex + 1)
        /\ Depth(NextBlock, 0) \in Nat
    BY <1>1, <1>2, DepthSteps
  <2> QED
    BY <1>1, <1>2, <2>1, <2>2
<1>5. Cursor < Len(Contents)
  BY CursorFacts, HeightFacts
<1> QED
  BY <1>3, <1>4, <1>5

(* get_next returns the value behind the cursor. *)
LEMMA IteratorGetNextStep ==
  ASSUME IInv, IteratorGetNext
  PROVE  IInv' /\ Abstract!Read
<1>1. /\ HasNext /\ UNCHANGED stackVars /\ result' = slot[NextBlock][NextIndex]
      /\ iterator' = [block |-> NextBlock, index |-> NextIndex + 1]
  BY DEF IteratorGetNext
<1>2. /\ NextBlock \in 1 .. current /\ NextBlock \in Nat \ {0}
      /\ NextIndex \in 0 .. PoolSize - 1
      /\ Below(NextBlock, NextIndex, current, occupied)
      /\ Depth(NextBlock, NextIndex) = Cursor
  BY <1>1, NextPlace
<1>3. result' = Contents[Cursor + 1]
  <2>1. Contents[Depth(NextBlock, NextIndex) + 1] = slot[NextBlock][NextIndex]
    BY <1>2, InvFacts, SlotOfContents, ContentsIsContentsOf
  <2> QED
    BY <1>1, <1>2, <2>1
<1>4. result' \in Value
  <2>1. slot[NextBlock] \in [0 .. PoolSize - 1 -> Value]
    <3>1. NextBlock \in 1 .. Len(slot)
      BY <1>2, InvFacts
    <3> QED
      BY <3>1, InvFacts, SeqFacts DEF Blocks
  <2> QED
    BY <1>1, <1>2, <2>1
<1>5. /\ iterator' \in [block : Nat, index : Nat] /\ IteratorPlaced'
      /\ Cursor' = Cursor + 1 /\ Cursor < Len(Contents)
  BY <1>1, IteratorMoves
<1>6. IInv' /\ Contents' = Contents
  BY <1>1, <1>4, <1>5, IteratorKeepsInv
<1> QED
  BY <1>3, <1>5, <1>6 DEF Abstract!Read

(* skip_next passes it. *)
LEMMA IteratorSkipNextStep ==
  ASSUME IInv, IteratorSkipNext
  PROVE  IInv' /\ Abstract!Skip
<1>1. /\ HasNext /\ UNCHANGED stackVars /\ UNCHANGED result
      /\ iterator' = [block |-> NextBlock, index |-> NextIndex + 1]
  BY DEF IteratorSkipNext
<1>2. /\ iterator' \in [block : Nat, index : Nat] /\ IteratorPlaced'
      /\ Cursor' = Cursor + 1 /\ Cursor < Len(Contents)
  BY <1>1, IteratorMoves
<1>3. IInv' /\ Contents' = Contents
  BY <1>1, <1>2, IteratorKeepsInv DEF IInv, TypeOK
<1> QED
  BY <1>1, <1>2, <1>3 DEF Abstract!Skip

(* Push appends the value. *)
LEMMA PushIsAppend ==
  ASSUME IInv, NEW v \in Value, Push(v)
  PROVE  IInv' /\ Abstract!Push(v)
<1>1. IInv' /\ Pushed(v)
  BY PushStep
<1> DEFINE after == slot'
           d == current'
           i == occupied' - 1
<1>2. /\ after \in Blocks /\ d \in 1 .. Len(after) /\ i \in 0 .. PoolSize - 1
      /\ occupied' = i + 1
      /\ Depth(d, i) = Depth(current, occupied)
      /\ after[d][i] = v
      /\ \A b \in Nat \ {0}, h \in 0 .. PoolSize - 1 :
           Below(b, h, current, occupied) => after[b][h] = slot[b][h]
  BY <1>1 DEF Pushed
<1>3. Contents' = ContentsOf(after, d, i + 1)
  BY <1>2 DEF Contents, ContentsOf, BlockOf, IndexOf, Depth
<1> HIDE DEF after, d, i
<1>4. ContentsOf(after, d, i + 1) = Append(ContentsOf(slot, current, occupied), v)
  <2>1. /\ slot \in Blocks /\ current \in 1 .. Len(slot) /\ occupied \in 0 .. PoolSize
        /\ Depth(d, i) = Depth(current, occupied)
    BY <1>2, InvFacts
  <2> QED
    BY <1>2, <2>1, ContentsPushed
<1>5. UNCHANGED <<Cursor, result>>
  BY DEF Push, Cursor, Depth
<1> QED
  BY <1>1, <1>3, <1>4, <1>5, ContentsIsContentsOf DEF Abstract!Push

-----------------------------------------------------------------------------
(***************************************************************************)
(* A step of the stack keeps the invariant and is a step of what a stack   *)
(* promises.                                                               *)
(***************************************************************************)
LEMMA StepIsAbstract ==
  ASSUME IInv, [Next]_vars
  PROVE  IInv' /\ [Abstract!Next]_(Abstract!vars)
<1>1. CASE \E v \in Value : Push(v)
  BY <1>1, PushIsAppend DEF Abstract!Next
<1>2. CASE Pop
  BY <1>2, PopStep DEF Abstract!Next
<1>3. CASE Reset
  BY <1>3, ResetStep DEF Abstract!Next
<1>4. CASE Peek
  BY <1>4, PeekStep DEF Abstract!Next
<1>5. CASE IteratorInit
  BY <1>5, IteratorInitStep DEF Abstract!Next
<1>6. CASE IteratorGetNext
  BY <1>6, IteratorGetNextStep DEF Abstract!Next
<1>7. CASE IteratorSkipNext
  BY <1>7, IteratorSkipNextStep DEF Abstract!Next
<1>8. CASE UNCHANGED vars
  <2>1. /\ UNCHANGED <<next, prev, slot, current, occupied>>
        /\ UNCHANGED iterator /\ UNCHANGED result /\ UNCHANGED stackVars
    BY <1>8 DEF vars, stackVars
  <2>2. IInv' /\ Contents' = Contents
    <3>1. IteratorPlaced' /\ iterator' \in [block : Nat, index : Nat] /\ result' \in Value
      BY <2>1 DEF IInv, TypeOK, IteratorPlaced
    <3> QED
      BY <2>1, <3>1, IteratorKeepsInv
  <2>3. Cursor' = Cursor
    BY <2>1 DEF Cursor, Depth
  <2> QED
    BY <2>1, <2>2, <2>3 DEF Abstract!vars
<1> QED
  BY <1>1, <1>2, <1>3, <1>4, <1>5, <1>6, <1>7, <1>8 DEF Next

(* A fresh stack is empty. *)
LEMMA InitIsAbstract == Init => Abstract!Init
<1> SUFFICES ASSUME Init
             PROVE  Abstract!Init
  OBVIOUS
<1>1. IInv
  BY InitInv
<1>2. Depth(current, occupied) = 0
  BY DepthSteps DEF Init, FirstPool
<1>3. Contents = <<>> /\ Cursor = 0 /\ result \in Value
  BY <1>1, <1>2, HeightFacts DEF Height, Init, NoIterator, Cursor, NULL, IInv, TypeOK
<1> QED
  BY <1>3 DEF Abstract!Init

(* The invariant holds in every state. *)
LEMMA Invariance == Spec => []IInv
<1>1. Init => IInv
  BY InitInv
<1>2. IInv /\ [Next]_vars => IInv'
  BY StepIsAbstract
<1> QED
  BY <1>1, <1>2, PTL DEF Spec

(***************************************************************************)
(* The fields of the stack, its blocks and its iterator have their types.  *)
(***************************************************************************)
THEOREM TypeCorrect == Spec => []TypeOK
<1>1. IInv => TypeOK
  BY DEF IInv
<1> QED
  BY <1>1, Invariance, PTL

(***************************************************************************)
(* The blocks stay linked both ways, and is_empty and has_next say exactly *)
(* when nothing is left, however the stack grew and shrank.                *)
(***************************************************************************)
THEOREM ChainStaysLinked == Spec => []ChainOK
<1>1. IInv => ChainOK
  BY InvGivesChainOK
<1> QED
  BY <1>1, Invariance, PTL

(***************************************************************************)
(* stack.c implements a last-in-first-out stack with a reader: values come *)
(* back in the order a sequence gives them, across blocks, shrinking and   *)
(* reset, and the iterator reads them from the bottom.                     *)
(***************************************************************************)
THEOREM StackIsLifo == Spec => ImplementsLifo
<1>1. Init => Abstract!Init
  BY InitIsAbstract
<1>2. IInv /\ [Next]_vars => [Abstract!Next]_(Abstract!vars)
  BY StepIsAbstract
<1> QED
  BY <1>1, <1>2, Invariance, PTL DEF Spec, ImplementsLifo, Abstract!Spec
=============================================================================
