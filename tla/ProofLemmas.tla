----------------------------- MODULE ProofLemmas -----------------------------
(***************************************************************************)
(* What several proofs rest on: induction stated over sets of numbers      *)
(* instead of predicates, and lists linked through a "next" field.         *)
(***************************************************************************)
EXTENDS Integers, Sequences, WellFoundedInduction, SequenceTheorems, TLAPS

(* A set of natural numbers that is not empty has a least element. *)
LEMMA LeastElement ==
  ASSUME NEW T \in SUBSET Nat, T # {}
  PROVE  \E n \in T : \A m \in T : n <= m
<1> DEFINE R == {p \in Nat \X Nat : p[1] < p[2]}
<1>1. IsWellFoundedOn(R, Nat)
  BY NatLessThanWellFounded DEF OpToRel
<1>2. \E n \in T : \A m \in T : ~ (<<m, n>> \in R)
  <2> HIDE DEF R
  <2> QED
    BY <1>1, WFMin
<1>3. PICK n \in T : \A m \in T : ~ (<<m, n>> \in R)
  BY <1>2
<1>4. ASSUME NEW m \in T
      PROVE  n <= m
  <2>1. ~ (<<m, n>> \in R)
    BY <1>3
  <2>2. <<m, n>> \in Nat \X Nat
    OBVIOUS
  <2>3. ~ (m < n)
    BY <2>1, <2>2
  <2> QED
    BY <2>3
<1> QED
  BY <1>4

(* Ordinary induction. *)
LEMMA StepInduction ==
  ASSUME NEW S \in SUBSET Nat, 0 \in S, \A n \in S : n + 1 \in S
  PROVE  S = Nat
<1>1. ASSUME Nat \ S # {}
      PROVE  FALSE
  <2>1. PICK n \in Nat \ S : \A m \in Nat \ S : n <= m
    BY <1>1, LeastElement
  <2>2. n - 1 \in Nat /\ ~(n <= n - 1)
    BY <2>1
  <2>3. n - 1 \in S
    BY <2>1, <2>2
  <2>4. n - 1 + 1 \in S
    BY <2>3
  <2>5. n - 1 + 1 = n
    BY <2>2
  <2> QED
    BY <2>1, <2>4, <2>5
<1> QED
  BY <1>1

(* Induction from all smaller numbers. *)
LEMMA StrongInduction ==
  ASSUME NEW S \in SUBSET Nat,
         \A n \in Nat : (\A m \in 0 .. n - 1 : m \in S) => n \in S
  PROVE  S = Nat
<1>1. ASSUME Nat \ S # {}
      PROVE  FALSE
  <2>1. PICK n \in Nat \ S : \A m \in Nat \ S : n <= m
    BY <1>1, LeastElement
  <2>2. \A m \in 0 .. n - 1 : m \in S
    BY <2>1
  <2> QED
    BY <2>1, <2>2
<1> QED
  BY <1>1

\* What may be done n times to a member of S.
StepsOn(S, n) == [S \X (1 .. n) -> S]

\* f has what comes of the base when the step is taken up to n times.
Repeats(S, base, n, step, f) ==
  /\ f \in [0 .. n -> S]
  /\ f = [k \in 0 .. n |-> IF k = 0 THEN base ELSE step[<<f[k - 1], k>>]]

(* A step can be taken n times. *)
LEMMA RepeatedStep ==
  ASSUME NEW S, NEW base \in S, NEW n \in Nat, NEW step \in StepsOn(S, n)
  PROVE  \E f : Repeats(S, base, n, step, f)
<1> USE DEF StepsOn, Repeats
<1> DEFINE Taken(m, f) == Repeats(S, base, m, step, f)
           T == {m \in Nat : m <= n => \E f : Taken(m, f)}
<1>1. 0 \in T
  <2>1. Taken(0, [k \in 0 .. 0 |-> base])
    OBVIOUS
  <2> HIDE DEF Taken
  <2> QED
    BY <2>1
<1>2. ASSUME NEW m \in T
      PROVE  m + 1 \in T
  <2> SUFFICES ASSUME m + 1 <= n
               PROVE  \E f : Taken(m + 1, f)
    OBVIOUS
  <2>1. PICK f : Taken(m, f)
    OBVIOUS
  <2> DEFINE g == [k \in 0 .. m + 1 |-> IF k = m + 1 THEN step[<<f[m], m + 1>>] ELSE f[k]]
  <2>2. step[<<f[m], m + 1>>] \in S
    <3>1. f[m] \in S /\ m + 1 \in 1 .. n
      BY <2>1
    <3> QED
      BY <3>1
  <2>3. g \in [0 .. m + 1 -> S]
    BY <2>1, <2>2
  <2>4. ASSUME NEW k \in 0 .. m + 1
        PROVE  g[k] = IF k = 0 THEN base ELSE step[<<g[k - 1], k>>]
    <3>1. CASE k = m + 1
      <4>1. g[k - 1] = f[m] /\ k # 0
        BY <3>1
      <4> QED
        BY <3>1, <4>1
    <3>2. CASE k # m + 1
      <4>1. k \in 0 .. m /\ g[k] = f[k]
        BY <3>2
      <4>2. f[k] = IF k = 0 THEN base ELSE step[<<f[k - 1], k>>]
        BY <2>1, <4>1
      <4>3. k # 0 => g[k - 1] = f[k - 1]
        BY <4>1
      <4> QED
        BY <4>1, <4>2, <4>3
    <3> QED
      BY <3>1, <3>2
  <2>5. g = [k \in 0 .. m + 1 |-> IF k = 0 THEN base ELSE step[<<g[k - 1], k>>]]
    <3>1. DOMAIN g = 0 .. m + 1
      OBVIOUS
    <3> HIDE DEF g
    <3> QED
      BY <2>3, <2>4
  <2>6. Taken(m + 1, g)
    <3> HIDE DEF g
    <3> QED
      BY <2>3, <2>5
  <2> HIDE DEF Taken
  <2> QED
    BY <2>6
<1>3. T = Nat
  <2>1. T \in SUBSET Nat
    OBVIOUS
  <2> HIDE DEF T
  <2> QED
    BY <1>1, <1>2, <2>1, StepInduction
<1>4. \E f : Taken(n, f)
  <2> HIDE DEF Taken
  <2> QED
    BY <1>3
<1> QED
  BY <1>4

-----------------------------------------------------------------------------

(***************************************************************************)
(* Linked lists, described without walking them: each bucket has a home,   *)
(* which is the list it is in, and a rank, which falls along "next".  0 is *)
(* the null pointer.                                                       *)
(***************************************************************************)

(***************************************************************************)
(* The buckets B lie in lists: head[r] is the first bucket of list r, and  *)
(* next[b] the bucket of the same list with the next smaller rank.         *)
(***************************************************************************)
Listed(B, next, head, home, rank, bound) ==
  /\ bound \in Nat
  /\ \A b \in B : home[b] \in Int /\ rank[b] \in Nat /\ rank[b] < bound
  /\ \A a, b \in B : home[a] = home[b] /\ rank[a] = rank[b] => a = b
  /\ \A r \in Int :
       \/ head[r] = 0 /\ \A b \in B : home[b] # r
       \/ /\ head[r] \in B /\ home[head[r]] = r
          /\ \A b \in B : home[b] = r => rank[b] <= rank[head[r]]
  /\ \A b \in B :
       \/ next[b] = 0 /\ \A c \in B : home[c] = home[b] => rank[b] <= rank[c]
       \/ /\ next[b] \in B /\ home[next[b]] = home[b] /\ rank[next[b]] < rank[b]
          /\ \A c \in B : home[c] = home[b] /\ rank[c] < rank[b] => rank[c] <= rank[next[b]]

\* Bucket b, which is in no list, becomes the first of list r.
Push(B, next, head, home, rank, bound, b, r, next2, head2, home2, rank2) ==
  /\ B \subseteq Nat \ {0} /\ b \in Nat \ {0} /\ b \notin B /\ r \in Int
  /\ next2[b] = head[r] /\ \A c \in B : next2[c] = next[c]
  /\ head2[r] = b /\ \A q \in Int : q # r => head2[q] = head[q]
  /\ home2[b] = r /\ \A c \in B : home2[c] = home[c]
  /\ rank2[b] = bound /\ \A c \in B : rank2[c] = rank[c]

(* Lists of which one gets a new first bucket. *)
LEMMA Pushed ==
  ASSUME NEW B, NEW next, NEW head, NEW home, NEW rank, NEW bound,
         Listed(B, next, head, home, rank, bound),
         NEW b, NEW r, NEW next2, NEW head2, NEW home2, NEW rank2,
         Push(B, next, head, home, rank, bound, b, r, next2, head2, home2, rank2)
  PROVE  Listed(B \cup {b}, next2, head2, home2, rank2, bound + 1)
<1> /\ B \subseteq Nat \ {0} /\ b \in Nat \ {0} /\ b \notin B /\ r \in Int
    /\ next2[b] = head[r] /\ \A c \in B : next2[c] = next[c]
    /\ head2[r] = b /\ \A q \in Int : q # r => head2[q] = head[q]
    /\ home2[b] = r /\ \A c \in B : home2[c] = home[c]
    /\ rank2[b] = bound /\ \A c \in B : rank2[c] = rank[c]
  BY DEF Push
<1>1. bound + 1 \in Nat /\ bound \in Nat
  BY DEF Listed
<1>2. \A c \in B : home2[c] \in Int /\ rank2[c] \in Nat /\ rank2[c] < bound
  BY DEF Listed
<1>3. \A a, c \in B : home2[a] = home2[c] /\ rank2[a] = rank2[c] => a = c
  BY DEF Listed
<1>4. \A q \in Int : \/ head[q] = 0 /\ \A c \in B : home2[c] # q
                   \/ /\ head[q] \in B /\ home2[head[q]] = q
                      /\ \A c \in B : home2[c] = q => rank2[c] <= rank2[head[q]]
  <2> TAKE q \in Int
  <2>1. CASE head[q] = 0 /\ \A c \in B : home[c] # q
    BY <2>1
  <2>2. CASE /\ head[q] \in B /\ home[head[q]] = q
             /\ \A c \in B : home[c] = q => rank[c] <= rank[head[q]]
    BY <2>2
  <2> QED
    BY <2>1, <2>2 DEF Listed
<1>5. \A c \in B :
        \/ next2[c] = 0 /\ \A a \in B : home2[a] = home2[c] => rank2[c] <= rank2[a]
        \/ /\ next2[c] \in B /\ home2[next2[c]] = home2[c] /\ rank2[next2[c]] < rank2[c]
           /\ \A a \in B : home2[a] = home2[c] /\ rank2[a] < rank2[c] => rank2[a] <= rank2[next2[c]]
  <2> TAKE c \in B
  <2>1. CASE next[c] = 0 /\ \A a \in B : home[a] = home[c] => rank[c] <= rank[a]
    BY <2>1
  <2>2. CASE /\ next[c] \in B /\ home[next[c]] = home[c] /\ rank[next[c]] < rank[c]
             /\ \A a \in B : home[a] = home[c] /\ rank[a] < rank[c] => rank[a] <= rank[next[c]]
    <3>1. next2[c] = next[c] /\ home2[c] = home[c] /\ rank2[c] = rank[c]
      OBVIOUS
    <3>2. home2[next[c]] = home[next[c]] /\ rank2[next[c]] = rank[next[c]]
      BY <2>2
    <3>3. \A a \in B : home2[a] = home2[c] /\ rank2[a] < rank2[c] => rank2[a] <= rank2[next2[c]]
      BY <2>2, <3>1, <3>2
    <3> QED
      BY <2>2, <3>1, <3>2, <3>3
  <2>3. \/ next[c] = 0 /\ \A a \in B : home[a] = home[c] => rank[c] <= rank[a]
        \/ /\ next[c] \in B /\ home[next[c]] = home[c] /\ rank[next[c]] < rank[c]
           /\ \A a \in B : home[a] = home[c] /\ rank[a] < rank[c] => rank[a] <= rank[next[c]]
    BY DEF Listed
  <2> QED
    BY <2>1, <2>2, <2>3
<1>6. ASSUME NEW c \in B \cup {b}
      PROVE  home2[c] \in Int /\ rank2[c] \in Nat /\ rank2[c] < bound + 1
  <2>1. CASE c = b
    BY <1>1, <2>1
  <2>2. CASE c \in B
    BY <1>1, <1>2, <2>2
  <2> QED
    BY <2>1, <2>2
<1>7. \A a, c \in B \cup {b} : home2[a] = home2[c] /\ rank2[a] = rank2[c] => a = c
  BY <1>1, <1>2, <1>3
<1>8. ASSUME NEW q \in Int
      PROVE  \/ head2[q] = 0 /\ \A c \in B \cup {b} : home2[c] # q
             \/ /\ head2[q] \in B \cup {b} /\ home2[head2[q]] = q
                /\ \A c \in B \cup {b} : home2[c] = q => rank2[c] <= rank2[head2[q]]
  <2>1. CASE q = r
    <3>1. \A c \in B \cup {b} : rank2[c] <= rank2[b]
      BY <1>1, <1>2
    <3> QED
      BY <2>1, <3>1
  <2>2. CASE q # r
    <3>1. head2[q] = head[q] /\ home2[b] # q
      BY <2>2
    <3> QED
      BY <1>4, <3>1
  <2> QED
    BY <2>1, <2>2
<1>9. ASSUME NEW c \in B \cup {b}
      PROVE  \/ next2[c] = 0 /\ \A a \in B \cup {b} : home2[a] = home2[c] => rank2[c] <= rank2[a]
             \/ /\ next2[c] \in B \cup {b} /\ home2[next2[c]] = home2[c]
                /\ rank2[next2[c]] < rank2[c]
                /\ \A a \in B \cup {b} : home2[a] = home2[c] /\ rank2[a] < rank2[c] =>
                     rank2[a] <= rank2[next2[c]]
  <2>1. CASE c = b
    <3>1. next2[c] = head[r] /\ home2[c] = r /\ rank2[c] = bound
      BY <2>1
    <3>2. CASE head[r] = 0 /\ \A a \in B : home2[a] # r
      <4>1. \A a \in B \cup {b} : home2[a] = home2[c] => a = b
        BY <3>1, <3>2
      <4>2. \A a \in B \cup {b} : home2[a] = home2[c] => rank2[c] <= rank2[a]
        BY <1>1, <2>1, <3>1, <4>1
      <4>3. next2[c] = 0
        BY <3>1, <3>2
      <4> QED
        BY <4>2, <4>3
    <3>3. CASE /\ head[r] \in B /\ home2[head[r]] = r
               /\ \A a \in B : home2[a] = r => rank2[a] <= rank2[head[r]]
      <4>1. \A a \in B \cup {b} : rank2[a] < rank2[c] => a \in B
        BY <1>1, <3>1
      <4>2. \A a \in B \cup {b} : home2[a] = home2[c] /\ rank2[a] < rank2[c] =>
              rank2[a] <= rank2[next2[c]]
        BY <3>1, <3>3, <4>1
      <4>3. next2[c] \in B /\ home2[next2[c]] = home2[c] /\ rank2[next2[c]] < rank2[c]
        BY <1>2, <3>1, <3>3
      <4> QED
        BY <4>2, <4>3
    <3> QED
      BY <1>4, <3>2, <3>3
  <2>2. CASE c \in B
    <3>1. rank2[c] <= rank2[b] /\ ~(rank2[b] < rank2[c])
      BY <1>1, <1>2, <2>2
    <3> QED
      BY <1>5, <2>2, <3>1
  <2> QED
    BY <2>1, <2>2
<1> QED
  <2> DEFINE C == B \cup {b}
  <2>1. /\ \A c \in C : home2[c] \in Int /\ rank2[c] \in Nat /\ rank2[c] < bound + 1
        /\ \A a, c \in C : home2[a] = home2[c] /\ rank2[a] = rank2[c] => a = c
    BY <1>6, <1>7
  <2>2. \A q \in Int :
          \/ head2[q] = 0 /\ \A c \in C : home2[c] # q
          \/ /\ head2[q] \in C /\ home2[head2[q]] = q
             /\ \A c \in C : home2[c] = q => rank2[c] <= rank2[head2[q]]
    BY <1>8
  <2>3. \A c \in C :
          \/ next2[c] = 0 /\ \A a \in C : home2[a] = home2[c] => rank2[c] <= rank2[a]
          \/ /\ next2[c] \in C /\ home2[next2[c]] = home2[c] /\ rank2[next2[c]] < rank2[c]
             /\ \A a \in C : home2[a] = home2[c] /\ rank2[a] < rank2[c] =>
                  rank2[a] <= rank2[next2[c]]
    BY <1>9
  <2> HIDE DEF C
  <2>4. Listed(C, next2, head2, home2, rank2, bound + 1)
    BY <1>1, <2>1, <2>2, <2>3 DEF Listed
  <2> QED
    BY <2>4 DEF C

\* The first bucket of list r, which is b, leaves it.
TakeFirst(B, next, head, b, r, head2) ==
  /\ B \subseteq Nat \ {0} /\ b \in B /\ r \in Int /\ head[r] = b
  /\ head2[r] = next[b] /\ \A q \in Int : q # r => head2[q] = head[q]

(* Lists of which one loses its first bucket. *)
LEMMA FirstTaken ==
  ASSUME NEW B, NEW next, NEW head, NEW home, NEW rank, NEW bound,
         Listed(B, next, head, home, rank, bound),
         NEW b, NEW r, NEW head2, TakeFirst(B, next, head, b, r, head2)
  PROVE  Listed(B \ {b}, next, head2, home, rank, bound)
<1> /\ B \subseteq Nat \ {0} /\ b \in B /\ r \in Int /\ head[r] = b
    /\ head2[r] = next[b] /\ \A q \in Int : q # r => head2[q] = head[q]
  BY DEF TakeFirst
<1>1. /\ home[b] = r /\ rank[b] \in Nat
      /\ \A c \in B : home[c] = r => rank[c] <= rank[b]
      /\ \A c \in B : rank[c] \in Nat
  BY DEF Listed
<1>2. \A c \in B : c # b /\ home[c] = r => rank[c] < rank[b]
  <2> TAKE c \in B
  <2> HAVE c # b /\ home[c] = r
  <2>1. rank[c] # rank[b]
    BY <1>1 DEF Listed
  <2>2. rank[c] <= rank[b] /\ rank[c] \in Nat
    BY <1>1
  <2> QED
    BY <1>1, <2>1, <2>2
<1>3. ASSUME NEW q \in Int
      PROVE  \/ head2[q] = 0 /\ \A c \in B \ {b} : home[c] # q
             \/ /\ head2[q] \in B \ {b} /\ home[head2[q]] = q
                /\ \A c \in B \ {b} : home[c] = q => rank[c] <= rank[head2[q]]
  <2>1. CASE q = r
    <3>1. CASE next[b] = 0 /\ \A c \in B : home[c] = home[b] => rank[b] <= rank[c]
      BY <1>1, <1>2, <2>1, <3>1
    <3>2. CASE /\ next[b] \in B /\ home[next[b]] = home[b] /\ rank[next[b]] < rank[b]
               /\ \A c \in B : home[c] = home[b] /\ rank[c] < rank[b] => rank[c] <= rank[next[b]]
      <4>1. next[b] # b
        BY <1>1, <3>2
      <4> QED
        BY <1>1, <1>2, <2>1, <3>2, <4>1
    <3> QED
      BY <3>1, <3>2 DEF Listed
  <2>2. CASE q # r
    BY <1>1, <2>2 DEF Listed
  <2> QED
    BY <2>1, <2>2
<1>4. ASSUME NEW c \in B \ {b}
      PROVE  \/ next[c] = 0 /\ \A a \in B \ {b} : home[a] = home[c] => rank[c] <= rank[a]
             \/ /\ next[c] \in B \ {b} /\ home[next[c]] = home[c] /\ rank[next[c]] < rank[c]
                /\ \A a \in B \ {b} : home[a] = home[c] /\ rank[a] < rank[c] =>
                     rank[a] <= rank[next[c]]
  <2>1. CASE next[c] = 0 /\ \A a \in B : home[a] = home[c] => rank[c] <= rank[a]
    BY <2>1
  <2>2. CASE /\ next[c] \in B /\ home[next[c]] = home[c] /\ rank[next[c]] < rank[c]
             /\ \A a \in B : home[a] = home[c] /\ rank[a] < rank[c] => rank[a] <= rank[next[c]]
    <3>1. next[c] # b
      <4>1. ASSUME next[c] = b
            PROVE  FALSE
        <5>1. home[c] = r /\ rank[b] < rank[c]
          BY <1>1, <2>2, <4>1
        <5> QED
          BY <1>1, <5>1
      <4> QED
        BY <4>1
    <3> QED
      BY <2>2, <3>1
  <2> QED
    BY <2>1, <2>2 DEF Listed
<1> QED
  BY <1>1, <1>3, <1>4 DEF Listed

\* Bucket b, which is the one behind p, leaves its list.
TakeBehind(B, next, p, b, next2) ==
  /\ B \subseteq Nat \ {0} /\ p \in B /\ b \in B /\ next[p] = b
  /\ next2[p] = next[b] /\ \A c \in B : c # p /\ c # b => next2[c] = next[c]

(* Lists of which one loses a bucket that is not its first. *)
LEMMA BehindTaken ==
  ASSUME NEW B, NEW next, NEW head, NEW home, NEW rank, NEW bound,
         Listed(B, next, head, home, rank, bound),
         NEW p, NEW b, NEW next2, TakeBehind(B, next, p, b, next2)
  PROVE  Listed(B \ {b}, next2, head, home, rank, bound)
<1> /\ B \subseteq Nat \ {0} /\ p \in B /\ b \in B /\ next[p] = b
    /\ next2[p] = next[b] /\ \A c \in B : c # p /\ c # b => next2[c] = next[c]
  BY DEF TakeBehind
<1>1. \A c \in B : rank[c] \in Nat
  BY DEF Listed
<1>2. /\ home[b] = home[p] /\ rank[b] < rank[p]
      /\ \A c \in B : home[c] = home[p] /\ rank[c] < rank[p] => rank[c] <= rank[b]
  BY DEF Listed
<1>3. p # b
  BY <1>1, <1>2
<1>4. ASSUME NEW q \in Int
      PROVE  \/ head[q] = 0 /\ \A c \in B \ {b} : home[c] # q
             \/ /\ head[q] \in B \ {b} /\ home[head[q]] = q
                /\ \A c \in B \ {b} : home[c] = q => rank[c] <= rank[head[q]]
  <2>1. ASSUME head[q] = b
        PROVE  FALSE
    <3>1. home[b] = q /\ \A c \in B : home[c] = q => rank[c] <= rank[b]
      BY <2>1 DEF Listed
    <3>2. rank[p] <= rank[b]
      BY <1>2, <3>1
    <3> QED
      BY <1>1, <1>2, <3>2
  <2> QED
    BY <2>1 DEF Listed
<1>5. ASSUME NEW c \in B \ {b}
      PROVE  \/ next2[c] = 0 /\ \A a \in B \ {b} : home[a] = home[c] => rank[c] <= rank[a]
             \/ /\ next2[c] \in B \ {b} /\ home[next2[c]] = home[c] /\ rank[next2[c]] < rank[c]
                /\ \A a \in B \ {b} : home[a] = home[c] /\ rank[a] < rank[c] =>
                     rank[a] <= rank[next2[c]]
  <2>1. CASE c = p
    <3>1. \A a \in B : a # b /\ home[a] = home[p] /\ rank[a] < rank[p] => rank[a] < rank[b]
      <4>1. \A a \in B : a # b /\ home[a] = home[b] => rank[a] # rank[b]
        BY DEF Listed
      <4> QED
        BY <1>1, <1>2, <4>1
    <3>2. CASE next[b] = 0 /\ \A a \in B : home[a] = home[b] => rank[b] <= rank[a]
      <4>1. ASSUME NEW a \in B \ {b}, home[a] = home[p]
            PROVE  rank[p] <= rank[a]
        BY <1>1, <1>2, <3>1, <3>2, <4>1
      <4> QED
        BY <2>1, <3>2, <4>1
    <3>3. CASE /\ next[b] \in B /\ home[next[b]] = home[b] /\ rank[next[b]] < rank[b]
               /\ \A a \in B : home[a] = home[b] /\ rank[a] < rank[b] => rank[a] <= rank[next[b]]
      <4>1. next[b] # b
        BY <1>1, <3>3
      <4>2. rank[next[b]] < rank[p]
        <5>1. rank[next[b]] \in Nat /\ rank[b] \in Nat /\ rank[p] \in Nat
          BY <1>1, <3>3
        <5> QED
          BY <1>2, <3>3, <5>1
      <4> QED
        BY <1>2, <2>1, <3>1, <3>3, <4>1, <4>2
    <3> QED
      BY <3>2, <3>3 DEF Listed
  <2>2. CASE c # p
    <3>1. CASE next[c] = 0 /\ \A a \in B : home[a] = home[c] => rank[c] <= rank[a]
      BY <2>2, <3>1
    <3>2. CASE /\ next[c] \in B /\ home[next[c]] = home[c] /\ rank[next[c]] < rank[c]
               /\ \A a \in B : home[a] = home[c] /\ rank[a] < rank[c] => rank[a] <= rank[next[c]]
      <4>1. ASSUME next[c] = b
            PROVE  FALSE
        <5>1. home[c] = home[p] /\ rank[b] < rank[c]
          BY <1>2, <3>2, <4>1
        <5>2. rank[c] # rank[p]
          BY <2>2, <5>1 DEF Listed
        <5>3. ~(rank[c] < rank[p])
          BY <1>1, <1>2, <5>1
        <5>4. rank[p] < rank[c]
          BY <1>1, <5>2, <5>3
        <5>5. rank[p] <= rank[b]
          BY <3>2, <4>1, <5>1, <5>4
        <5> QED
          BY <1>1, <1>2, <5>5
      <4> QED
        BY <2>2, <3>2, <4>1
    <3> QED
      BY <3>1, <3>2 DEF Listed
  <2> QED
    BY <2>1, <2>2
<1> QED
  BY <1>4, <1>5 DEF Listed

(* A bucket that is not the first of its list is behind another one. *)
LEMMA BehindOne ==
  ASSUME NEW B, NEW next, NEW head, NEW home, NEW rank, NEW bound,
         Listed(B, next, head, home, rank, bound),
         NEW b \in B, head[home[b]] # b
  PROVE  \E p \in B : home[p] = home[b] /\ next[p] = b
<1>1. \A c \in B : rank[c] \in Nat /\ home[c] \in Int
  BY DEF Listed
<1>2. \A c \in B : home[c] = home[b] /\ rank[c] = rank[b] => c = b
  BY DEF Listed
<1> DEFINE above == {c \in B : home[c] = home[b] /\ rank[b] < rank[c]}
           T == {rank[c] : c \in above}
<1>3. above # {}
  <2>1. PICK r \in Int : r = home[b]
    BY <1>1
  <2>2. head[r] \in B /\ home[head[r]] = r /\ rank[b] <= rank[head[r]]
    BY <2>1 DEF Listed
  <2>3. rank[head[r]] # rank[b]
    BY <1>2, <2>1, <2>2
  <2> QED
    BY <1>1, <2>1, <2>2, <2>3
<1>4. T \in SUBSET Nat /\ T # {}
  BY <1>1, <1>3
<1>5. PICK n \in T : \A m \in T : n <= m
  <2> HIDE DEF T
  <2> QED
    BY <1>4, LeastElement
<1>6. PICK p \in above : rank[p] = n
  BY <1>5
<1>7. \A c \in above : rank[p] <= rank[c]
  BY <1>5, <1>6
<1>8. /\ next[p] \in B /\ home[next[p]] = home[p] /\ rank[next[p]] < rank[p]
      /\ \A c \in B : home[c] = home[p] /\ rank[c] < rank[p] => rank[c] <= rank[next[p]]
  <2>1. ASSUME \A c \in B : home[c] = home[p] => rank[p] <= rank[c]
        PROVE  FALSE
    <3>1. rank[p] <= rank[b]
      BY <1>6, <2>1
    <3> QED
      BY <1>1, <1>6, <3>1
  <2> QED
    BY <1>6, <2>1 DEF Listed
<1>9. rank[b] <= rank[next[p]]
  BY <1>6, <1>8
<1>10. next[p] \notin above
  BY <1>1, <1>6, <1>7, <1>8
<1>11. rank[next[p]] = rank[b] /\ home[next[p]] = home[b]
  BY <1>1, <1>6, <1>8, <1>9, <1>10
<1>12. next[p] = b
  BY <1>2, <1>8, <1>11
<1> QED
  BY <1>6, <1>12

\* The lists with the numbers D get other ones; no other list has a bucket.
Renumber(B, head, home, D, number, head2, home2) ==
  /\ D \subseteq Int
  /\ \A b \in B : home[b] \in D /\ home2[b] = number[home[b]]
  /\ \A r \in D : number[r] \in Int /\ head2[number[r]] = head[r]
  /\ \A q, r \in D : number[q] = number[r] => q = r
  /\ \A q \in Int : (\A r \in D : number[r] # q) => head2[q] = 0

(* Lists that are the same under other numbers. *)
LEMMA Renumbered ==
  ASSUME NEW B, NEW next, NEW head, NEW home, NEW rank, NEW bound,
         Listed(B, next, head, home, rank, bound),
         NEW D, NEW number, NEW head2, NEW home2,
         Renumber(B, head, home, D, number, head2, home2)
  PROVE  Listed(B, next, head2, home2, rank, bound)
<1>1. /\ D \subseteq Int
      /\ \A b \in B : home[b] \in D /\ home2[b] = number[home[b]]
      /\ \A r \in D : number[r] \in Int /\ head2[number[r]] = head[r]
      /\ \A q, r \in D : number[q] = number[r] => q = r
      /\ \A q \in Int : (\A r \in D : number[r] # q) => head2[q] = 0
  BY DEF Renumber
<1>2. ASSUME NEW b \in B, NEW r \in D
      PROVE  home2[b] = number[r] <=> home[b] = r
  <2>1. home[b] \in D /\ home2[b] = number[home[b]]
    BY <1>1
  <2>2. number[home[b]] = number[r] => home[b] = r
    BY <1>1, <2>1
  <2> QED
    BY <2>1, <2>2
<1>3. ASSUME NEW a \in B, NEW b \in B
      PROVE  home2[a] = home2[b] <=> home[a] = home[b]
  <2>1. home[a] \in D /\ home[b] \in D /\ home2[b] = number[home[b]]
    BY <1>1
  <2> QED
    BY <1>2, <2>1
<1>4. ASSUME NEW q \in Int
      PROVE  \/ head2[q] = 0 /\ \A b \in B : home2[b] # q
             \/ /\ head2[q] \in B /\ home2[head2[q]] = q
                /\ \A b \in B : home2[b] = q => rank[b] <= rank[head2[q]]
  <2>1. CASE \A r \in D : number[r] # q
    <3>1. ASSUME NEW b \in B
          PROVE  home2[b] # q
      <4>1. home[b] \in D /\ home2[b] = number[home[b]]
        BY <1>1
      <4> QED
        BY <2>1, <4>1
    <3>2. head2[q] = 0
      BY <1>1, <2>1
    <3> QED
      BY <3>1, <3>2
  <2>2. ASSUME NEW r \in D, number[r] = q
        PROVE  \/ head2[q] = 0 /\ \A b \in B : home2[b] # q
               \/ /\ head2[q] \in B /\ home2[head2[q]] = q
                  /\ \A b \in B : home2[b] = q => rank[b] <= rank[head2[q]]
    <3>1. head2[q] = head[r] /\ r \in Int /\ \A b \in B : home2[b] = q <=> home[b] = r
      BY <1>1, <1>2, <2>2
    <3>2. \/ head[r] = 0 /\ \A b \in B : home[b] # r
          \/ /\ head[r] \in B /\ home[head[r]] = r
             /\ \A b \in B : home[b] = r => rank[b] <= rank[head[r]]
      BY <3>1 DEF Listed
    <3> QED
      BY <3>1, <3>2
  <2> QED
    BY <2>1, <2>2
<1>5. ASSUME NEW b \in B
      PROVE  \/ next[b] = 0 /\ \A c \in B : home2[c] = home2[b] => rank[b] <= rank[c]
             \/ /\ next[b] \in B /\ home2[next[b]] = home2[b] /\ rank[next[b]] < rank[b]
                /\ \A c \in B : home2[c] = home2[b] /\ rank[c] < rank[b] =>
                     rank[c] <= rank[next[b]]
  <2>1. CASE next[b] = 0 /\ \A c \in B : home[c] = home[b] => rank[b] <= rank[c]
    BY <1>3, <2>1
  <2>2. CASE /\ next[b] \in B /\ home[next[b]] = home[b] /\ rank[next[b]] < rank[b]
             /\ \A c \in B : home[c] = home[b] /\ rank[c] < rank[b] => rank[c] <= rank[next[b]]
    BY <1>3, <2>2
  <2> QED
    BY <2>1, <2>2 DEF Listed
<1>6. \A a, b \in B : home2[a] = home2[b] /\ rank[a] = rank[b] => a = b
  BY <1>3 DEF Listed
<1>7. bound \in Nat /\ \A b \in B : home2[b] \in Int /\ rank[b] \in Nat /\ rank[b] < bound
  BY <1>1 DEF Listed
<1> QED
  BY <1>4, <1>5, <1>6, <1>7 DEF Listed

-----------------------------------------------------------------------------

Before(c, s) == <<c>> \o s

ElementsOf(s) == {s[i] : i \in DOMAIN s}

(* The walks along "next" from each of n buckets. *)
Chains(n, next) ==
  CHOOSE from :
    from = [c \in 0 .. n |-> IF c = 0 THEN <<>> ELSE Before(c, from[next[c]])]

(* What it takes to walk: no list runs in a circle, as the ranks fall. *)
LEMMA ChainsWalk ==
  ASSUME NEW n \in Nat, NEW next, NEW rank, NEW bound \in Nat,
         \A c \in 1 .. n : rank[c] \in Nat /\ rank[c] < bound,
         \A c \in 1 .. n : \/ next[c] = 0
                           \/ next[c] \in 1 .. n /\ rank[next[c]] < rank[c]
  PROVE  Chains(n, next) =
           [c \in 0 .. n |-> IF c = 0 THEN <<>> ELSE Before(c, Chains(n, next)[next[c]])]
<1> DEFINE Low(m) == {0} \cup {c \in 1 .. n : rank[c] < m}
           Walks(m, f) == f = [c \in Low(m) |-> IF c = 0 THEN <<>> ELSE Before(c, f[next[c]])]
           S == {m \in Nat : \E f : Walks(m, f)}
<1>1. 0 \in S
  <2>1. Low(0) = {0}
    OBVIOUS
  <2>2. [c \in {0} |-> <<>>] = [c \in Low(0) |-> IF c = 0 THEN <<>> ELSE Before(c, [d \in {0} |-> <<>>][next[c]])]
    BY <2>1
  <2>3. Walks(0, [c \in {0} |-> <<>>])
    BY <2>2
  <2> QED
    BY <2>3
<1>2. ASSUME NEW m \in S
      PROVE  m + 1 \in S
  <2>1. PICK f : Walks(m, f)
    OBVIOUS
  <2>2. PICK g : g = [c \in Low(m + 1) |-> IF c = 0 THEN <<>> ELSE Before(c, f[next[c]])]
    OBVIOUS
  <2>3. \A c \in Low(m) : c \in Low(m + 1) /\ g[c] = f[c]
    <3> TAKE c \in Low(m)
    <3>1. c \in Low(m + 1)
      OBVIOUS
    <3>2. f[c] = IF c = 0 THEN <<>> ELSE Before(c, f[next[c]])
      BY <2>1
    <3>3. g[c] = IF c = 0 THEN <<>> ELSE Before(c, f[next[c]])
      BY <2>2, <3>1
    <3> QED
      BY <3>1, <3>2, <3>3
  <2>4. \A c \in Low(m + 1) : c # 0 => next[c] \in Low(m)
    OBVIOUS
  <2>5. \A c \in Low(m + 1) : c # 0 => Before(c, f[next[c]]) = Before(c, g[next[c]])
    BY <2>3, <2>4
  <2>6. Walks(m + 1, g)
    BY <2>2, <2>5
  <2>7. \E h : Walks(m + 1, h)
    <3> HIDE DEF Walks
    <3> QED
      BY <2>6
  <2>8. m + 1 \in Nat
    OBVIOUS
  <2> HIDE DEF Walks
  <2> QED
    BY <2>7, <2>8
<1>3. S = Nat
  <2>1. S \in SUBSET Nat
    OBVIOUS
  <2> HIDE DEF S
  <2> QED
    BY <1>1, <1>2, <2>1, StepInduction
<1>4. PICK f : Walks(bound, f)
  BY <1>3
<1>5. Low(bound) = 0 .. n
  OBVIOUS
<1>6. f = [c \in 0 .. n |-> IF c = 0 THEN <<>> ELSE Before(c, f[next[c]])]
  BY <1>4, <1>5
<1> QED
  BY <1>6 DEF Chains

(* A walk that goes through c first meets c and what the rest meets. *)
LEMMA ElementsOfCons ==
  ASSUME NEW n \in Nat, NEW c \in 1 .. n, NEW s \in Seq(1 .. n)
  PROVE  Before(c, s) \in Seq(1 .. n) /\ ElementsOf(Before(c, s)) = {c} \cup ElementsOf(s)
<1>1. /\ Before(c, s) \in Seq(1 .. n) /\ Len(Before(c, s)) = 1 + Len(s)
      /\ Before(c, s)[1] = c
      /\ \A i \in 1 .. Len(s) : Before(c, s)[i + 1] = s[i]
  BY DEF Before
<1>2. DOMAIN Before(c, s) = 1 .. 1 + Len(s) /\ DOMAIN s = 1 .. Len(s) /\ Len(s) \in Nat
  BY <1>1
<1>3. ElementsOf(Before(c, s)) \subseteq {c} \cup ElementsOf(s)
  <2>1. ASSUME NEW i \in 1 .. 1 + Len(s)
        PROVE  Before(c, s)[i] \in {c} \cup ElementsOf(s)
    <3>1. CASE i = 1
      BY <1>1, <3>1
    <3>2. CASE i # 1
      <4>1. i - 1 \in 1 .. Len(s) /\ i = (i - 1) + 1
        BY <1>2, <3>2
      <4>2. Before(c, s)[i] = s[i - 1]
        BY <1>1, <4>1
      <4> QED
        BY <1>2, <4>1, <4>2 DEF ElementsOf
    <3> QED
      BY <3>1, <3>2
  <2> QED
    BY <1>2, <2>1 DEF ElementsOf
<1>4. c \in ElementsOf(Before(c, s))
  BY <1>1, <1>2 DEF ElementsOf
<1>5. ElementsOf(s) \subseteq ElementsOf(Before(c, s))
  <2>1. ASSUME NEW i \in 1 .. Len(s)
        PROVE  s[i] \in ElementsOf(Before(c, s))
    <3>1. i + 1 \in 1 .. 1 + Len(s) /\ Before(c, s)[i + 1] = s[i]
      BY <1>1, <1>2
    <3> QED
      BY <1>2, <3>1 DEF ElementsOf
  <2> QED
    BY <1>2, <2>1 DEF ElementsOf
<1> QED
  BY <1>1, <1>3, <1>4, <1>5

(* A walk that ends at once. *)
LEMMA ElementsOfOne ==
  ASSUME NEW n \in Nat, NEW c \in 1 .. n
  PROVE  Before(c, <<>>) \in Seq(1 .. n) /\ ElementsOf(Before(c, <<>>)) = {c}
<1>1. <<>> \in Seq(1 .. n) /\ ElementsOf(<<>>) = {}
  BY DEF ElementsOf
<1>2. ElementsOf(Before(c, <<>>)) = {c} \cup ElementsOf(<<>>)
  BY <1>1, ElementsOfCons
<1> QED
  BY <1>1, <1>2, ElementsOfCons

(* The walk from b meets the buckets of b's list whose rank is not larger. *)
LEMMA ChainElements ==
  ASSUME NEW n \in Nat, NEW next, NEW head, NEW home, NEW rank, NEW bound,
         Listed(1 .. n, next, head, home, rank, bound)
  PROVE  /\ Chains(n, next)[0] = <<>>
         /\ \A b \in 1 .. n :
              ElementsOf(Chains(n, next)[b]) =
                {c \in 1 .. n : home[c] = home[b] /\ rank[c] <= rank[b]}
<1> DEFINE from == Chains(n, next)
           Behind(b) == {c \in 1 .. n : home[c] = home[b] /\ rank[c] <= rank[b]}
           Met(b) == from[b] \in Seq(1 .. n) /\ ElementsOf(from[b]) = Behind(b)
           S == {m \in Nat : \A b \in 1 .. n : rank[b] = m => Met(b)}
<1>1. bound \in Nat /\ \A c \in 1 .. n : rank[c] \in Nat /\ rank[c] < bound
  BY DEF Listed
<1>2. \A c \in 1 .. n : \/ next[c] = 0
                        \/ next[c] \in 1 .. n /\ rank[next[c]] < rank[c]
  BY DEF Listed
<1>3. from = [c \in 0 .. n |-> IF c = 0 THEN <<>> ELSE Before(c, from[next[c]])]
  BY <1>1, <1>2, ChainsWalk
<1> HIDE DEF from
<1>4. from[0] = <<>> /\ \A b \in 1 .. n : from[b] = Before(b, from[next[b]])
  BY <1>3
<1>5. ASSUME NEW m \in Nat, \A k \in 0 .. m - 1 : k \in S,
             NEW b \in 1 .. n, rank[b] = m
      PROVE  Met(b)
  <2>1. CASE next[b] = 0 /\ \A c \in 1 .. n : home[c] = home[b] => rank[b] <= rank[c]
    <3>1. from[b] = Before(b, <<>>)
      BY <1>4, <2>1
    <3>2. from[b] \in Seq(1 .. n) /\ ElementsOf(from[b]) = {b}
      BY <3>1, ElementsOfOne
    <3>3. \A c \in Behind(b) : c = b
      <4> TAKE c \in Behind(b)
      <4>1. rank[c] = rank[b]
        BY <1>1, <2>1
      <4> QED
        BY <4>1 DEF Listed
    <3>4. b \in Behind(b)
      BY <1>1
    <3> QED
      BY <3>2, <3>3, <3>4
  <2>2. CASE /\ next[b] \in 1 .. n /\ home[next[b]] = home[b] /\ rank[next[b]] < rank[b]
             /\ \A c \in 1 .. n : home[c] = home[b] /\ rank[c] < rank[b] => rank[c] <= rank[next[b]]
    <3>1. rank[next[b]] \in 0 .. m - 1
      BY <1>1, <1>5, <2>2
    <3>2. Met(next[b])
      BY <1>5, <2>2, <3>1
    <3>3. from[b] \in Seq(1 .. n) /\ ElementsOf(from[b]) = {b} \cup Behind(next[b])
      <4>1. from[next[b]] \in Seq(1 .. n) /\ ElementsOf(from[next[b]]) = Behind(next[b])
        BY <3>2
      <4>2. /\ Before(b, from[next[b]]) \in Seq(1 .. n)
            /\ ElementsOf(Before(b, from[next[b]])) = {b} \cup ElementsOf(from[next[b]])
        BY <4>1, ElementsOfCons
      <4> QED
        BY <1>4, <4>1, <4>2
    <3>4. \A c \in Behind(b) : c = b \/ c \in Behind(next[b])
      <4> TAKE c \in Behind(b)
      <4>1. CASE rank[c] = rank[b]
        BY <4>1 DEF Listed
      <4>2. CASE rank[c] < rank[b]
        BY <2>2, <4>2
      <4> QED
        BY <1>1, <4>1, <4>2
    <3>5. \A c \in Behind(next[b]) : c \in Behind(b)
      BY <1>1, <2>2
    <3>6. b \in Behind(b)
      BY <1>1
    <3> QED
      BY <3>3, <3>4, <3>5, <3>6
  <2> QED
    BY <2>1, <2>2 DEF Listed
<1>6. \A m \in Nat : (\A k \in 0 .. m - 1 : k \in S) => m \in S
  BY <1>5
<1>7. S = Nat
  <2>1. S \in SUBSET Nat
    OBVIOUS
  <2> HIDE DEF S
  <2> QED
    BY <1>6, <2>1, StrongInduction
<1>8. \A b \in 1 .. n : Met(b)
  <2> TAKE b \in 1 .. n
  <2>1. rank[b] \in S
    BY <1>1, <1>7
  <2> QED
    BY <2>1
<1> QED
  BY <1>4, <1>8 DEF from

=============================================================================
