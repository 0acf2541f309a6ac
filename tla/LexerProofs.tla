----------------------------- MODULE LexerProofs -----------------------------
(***************************************************************************)
(* Proofs about the lexer, for every set of sources.  A source is opaque   *)
(* here: all that is known of it is its length and that the classes of     *)
(* characters are disjoint.                                                *)
(***************************************************************************)
EXTENDS Lexer, ProofLemmas

\* q is the first number from p on that is in B, or n.
IsFirst(p, n, B, q) ==
  /\ q \in p .. n
  /\ q = n \/ q \in B
  /\ \A r \in p .. q - 1 : r \notin B

(* Min finds the first of them. *)
LEMMA FirstIs ==
  ASSUME NEW n \in Nat, NEW p \in 0 .. n, NEW B
  PROVE  IsFirst(p, n, B, Min({q \in p .. n : q = n \/ q \in B}))
<1> DEFINE S == {q \in p .. n : q = n \/ q \in B}
<1>1. S \in SUBSET Nat /\ n \in S
  OBVIOUS
<1>2. \E q \in S : \A r \in S : q <= r
  <2> HIDE DEF S
  <2> QED
    BY <1>1, LeastElement
<1>3. Min(S) \in S /\ \A r \in S : Min(S) <= r
  BY <1>2 DEF Min
<1>4. \A r \in p .. Min(S) - 1 : r \notin B
  <2> SUFFICES ASSUME NEW r \in p .. Min(S) - 1, r \in B
               PROVE  FALSE
    OBVIOUS
  <2>1. Min(S) \in p .. n
    BY <1>3
  <2> HIDE DEF S
  <2>2. r \in p .. n /\ ~(Min(S) <= r)
    BY <2>1
  <2> QED
    BY <1>3, <2>2 DEF S
<1> QED
  BY <1>3, <1>4 DEF IsFirst

-----------------------------------------------------------------------------

\* A source is a text of some length.
IsText(text) == Len(text) \in Nat

(* Behind the end of a text there is no character. *)
LEMMA CharInside ==
  ASSUME NEW text, NEW p, CharAt(text, p) # ""
  PROVE  p < Len(text)
BY DEF CharAt

(* Where a run of characters ends. *)
LEMMA EndOfRunIs ==
  ASSUME NEW text, IsText(text), NEW p \in 0 .. Len(text), NEW chars
  PROVE  LET q == EndOfRun(text, p, chars)
         IN  /\ q \in p .. Len(text)
             /\ q = Len(text) \/ CharAt(text, q) \notin chars
             /\ \A r \in p .. q - 1 : CharAt(text, r) \in chars
<1> DEFINE B == {q \in Nat : CharAt(text, q) \notin chars}
<1>1. IsFirst(p, Len(text), B, Min({q \in p .. Len(text) : q = Len(text) \/ q \in B}))
  BY FirstIs DEF IsText
<1>2. EndOfRun(text, p, chars) = Min({q \in p .. Len(text) : q = Len(text) \/ q \in B})
  <2>1. {q \in p .. Len(text) : q = Len(text) \/ q \in B}
          = {q \in p .. Len(text) : q = Len(text) \/ CharAt(text, q) \notin chars}
    BY DEF IsText
  <2> HIDE DEF B
  <2> QED
    BY <2>1 DEF EndOfRun, FirstFrom
<1> QED
  BY <1>1, <1>2 DEF IsFirst, IsText

(* Where a line comment ends. *)
LEMMA EndOfLineIs ==
  ASSUME NEW text, IsText(text), NEW p \in Nat, p + 2 <= Len(text)
  PROVE  \E q \in p + 2 .. Len(text) :
           /\ \A r \in p + 2 .. q - 1 : CharAt(text, r) # "\n"
           /\ \/ q = Len(text) /\ EndOfSingleLineComment(text, p) = q
              \/ /\ q < Len(text) /\ CharAt(text, q) = "\n"
                 /\ EndOfSingleLineComment(text, p) = q + 1
<1> DEFINE B == {q \in Nat : CharAt(text, q) = "\n"}
           q == Min({r \in p + 2 .. Len(text) : r = Len(text) \/ r \in B})
<1>1. IsFirst(p + 2, Len(text), B, q)
  BY FirstIs DEF IsText
<1>2. FirstFrom(text, p + 2, LAMBDA r : CharAt(text, r) = "\n") = q
  <2>1. {r \in p + 2 .. Len(text) : r = Len(text) \/ r \in B}
          = {r \in p + 2 .. Len(text) : r = Len(text) \/ CharAt(text, r) = "\n"}
    BY DEF IsText
  <2> HIDE DEF B
  <2> QED
    BY <2>1 DEF FirstFrom
<1>3. EndOfSingleLineComment(text, p) = IF q < Len(text) THEN q + 1 ELSE q
  BY <1>2 DEF EndOfSingleLineComment
<1> HIDE DEF q
<1> QED
  BY <1>1, <1>3 DEF IsFirst, IsText

(* Where a block comment ends. *)
LEMMA EndOfBlockIs ==
  ASSUME NEW text, IsText(text), NEW p \in Nat, p + 2 <= Len(text)
  PROVE  \E q \in p + 2 .. Len(text) :
           /\ \A r \in p + 2 .. q - 1 : ~IsEndOfBlock(text, r)
           /\ \/ q = Len(text) /\ EndOfMultiLineComment(text, p) = q
              \/ /\ q < Len(text) /\ IsEndOfBlock(text, q)
                 /\ EndOfMultiLineComment(text, p) = q + 1
<1> DEFINE B == {q \in Nat : IsEndOfBlock(text, q)}
           q == Min({r \in p + 2 .. Len(text) : r = Len(text) \/ r \in B})
<1>1. IsFirst(p + 2, Len(text), B, q)
  BY FirstIs DEF IsText
<1>2. FirstFrom(text, p + 2, LAMBDA r : IsEndOfBlock(text, r)) = q
  <2>1. {r \in p + 2 .. Len(text) : r = Len(text) \/ r \in B}
          = {r \in p + 2 .. Len(text) : r = Len(text) \/ IsEndOfBlock(text, r)}
    BY DEF IsText
  <2> HIDE DEF B
  <2> QED
    BY <2>1 DEF FirstFrom
<1>3. EndOfMultiLineComment(text, p) = IF q < Len(text) THEN q + 1 ELSE q
  BY <1>2 DEF EndOfMultiLineComment
<1> HIDE DEF q
<1> QED
  BY <1>1, <1>3 DEF IsFirst, IsText

-----------------------------------------------------------------------------

\* f reads the first n characters of a text.
Reads(text, n, f) ==
  f = [p \in 0 .. n |-> IF p = 0 THEN "code" ELSE ReadNext(text, p - 1, f[p - 1])]

(* A text can be read as far as one likes. *)
LEMMA ReadingExists ==
  ASSUME NEW text, NEW n \in Nat
  PROVE  \E f : Reads(text, n, f)
<1> DEFINE S == {k \in Nat : \E f : Reads(text, k, f)}
<1>1. 0 \in S
  <2>1. Reads(text, 0, [p \in 0 .. 0 |-> "code"])
    BY DEF Reads
  <2> QED
    BY <2>1
<1>2. ASSUME NEW k \in S
      PROVE  k + 1 \in S
  <2>1. PICK f : Reads(text, k, f)
    OBVIOUS
  <2>2. PICK g : g = [p \in 0 .. k + 1 |-> IF p = 0 THEN "code"
                                           ELSE ReadNext(text, p - 1, f[p - 1])]
    OBVIOUS
  <2>3. ASSUME NEW p \in 0 .. k
        PROVE  g[p] = f[p]
    <3>1. f[p] = IF p = 0 THEN "code" ELSE ReadNext(text, p - 1, f[p - 1])
      BY <2>1 DEF Reads
    <3>2. p \in 0 .. k + 1
      OBVIOUS
    <3> QED
      BY <2>2, <3>1, <3>2
  <2>4. \A p \in 0 .. k + 1 : p # 0 => f[p - 1] = g[p - 1]
    BY <2>3
  <2>5. g = [p \in 0 .. k + 1 |-> IF p = 0 THEN "code" ELSE ReadNext(text, p - 1, g[p - 1])]
    BY <2>2, <2>4
  <2>6. Reads(text, k + 1, g)
    BY <2>5 DEF Reads
  <2> QED
    BY <2>6
<1>3. S = Nat
  <2>1. S \in SUBSET Nat
    OBVIOUS
  <2> HIDE DEF S
  <2> QED
    BY <1>1, <1>2, <2>1, StepInduction
<1> QED
  BY <1>3

(* How a text is read, character by character. *)
LEMMA ReadingIs ==
  ASSUME NEW text, IsText(text)
  PROVE  /\ Reading(text)[0] = "code"
         /\ \A p \in 0 .. Len(text) - 1 :
              Reading(text)[p + 1] = ReadNext(text, p, Reading(text)[p])
<1> DEFINE n == Len(text)
           f == Reading(text)
<1>1. f = CHOOSE g : Reads(text, n, g)
  BY DEF Reading, Reads
<1>2. Reads(text, n, f)
  BY <1>1, ReadingExists DEF IsText
<1> HIDE DEF f
<1>3. f[0] = "code"
  BY <1>2 DEF Reads, IsText
<1>4. ASSUME NEW p \in 0 .. n - 1
      PROVE  f[p + 1] = ReadNext(text, p, f[p])
  <2>1. p + 1 \in 0 .. n /\ p + 1 # 0 /\ (p + 1) - 1 = p
    BY DEF IsText
  <2>2. f[p + 1] = ReadNext(text, (p + 1) - 1, f[(p + 1) - 1])
    BY <1>2, <2>1 DEF Reads
  <2> QED
    BY <2>1, <2>2
<1> QED
  BY <1>3, <1>4 DEF f

(* Characters that do not change what is read. *)
LEMMA ReadingKept ==
  ASSUME NEW text, IsText(text), NEW p \in 0 .. Len(text), NEW q \in p .. Len(text),
         NEW m, Reading(text)[p] = m, \A r \in p .. q - 1 : ReadNext(text, r, m) = m
  PROVE  \A r \in p .. q : Reading(text)[r] = m
<1> DEFINE S == {k \in Nat : p + k <= q => Reading(text)[p + k] = m}
<1>1. 0 \in S
  BY DEF IsText
<1>2. ASSUME NEW k \in S
      PROVE  k + 1 \in S
  <2> SUFFICES ASSUME p + (k + 1) <= q
               PROVE  Reading(text)[p + (k + 1)] = m
    OBVIOUS
  <2>1. /\ p + k \in 0 .. Len(text) - 1 /\ p + k \in p .. q - 1
        /\ p + (k + 1) = (p + k) + 1 /\ p + k <= q
    BY DEF IsText
  <2>2. Reading(text)[p + k] = m
    BY <2>1
  <2>3. Reading(text)[(p + k) + 1] = ReadNext(text, p + k, Reading(text)[p + k])
    BY <2>1, ReadingIs
  <2> QED
    BY <2>1, <2>2, <2>3
<1>3. S = Nat
  <2>1. S \in SUBSET Nat
    OBVIOUS
  <2> HIDE DEF S
  <2> QED
    BY <1>1, <1>2, <2>1, StepInduction
<1> SUFFICES ASSUME NEW r \in p .. q
             PROVE  Reading(text)[r] = m
  OBVIOUS
<1>4. r - p \in Nat /\ p + (r - p) = r /\ p + (r - p) <= q
  BY DEF IsText
<1>5. r - p \in S
  BY <1>3, <1>4
<1> QED
  BY <1>4, <1>5

-----------------------------------------------------------------------------

(* What is skipped is not empty and lies inside the text. *)
LEMMA SkipGoesOn ==
  ASSUME NEW text, IsText(text), NEW p \in 0 .. Len(text)
  PROVE  /\ CharAt(text, p) \in Spaces => p + 1 \in p + 1 .. Len(text)
         /\ IsComment(text, p, "/") =>
              p + 2 <= Len(text) /\ EndOfSingleLineComment(text, p) \in p + 1 .. Len(text)
         /\ IsComment(text, p, "*") =>
              p + 2 <= Len(text) /\ EndOfMultiLineComment(text, p) \in p + 1 .. Len(text)
<1>1. Len(text) \in Nat /\ p \in Nat
  BY DEF IsText
<1>2. ASSUME CharAt(text, p) \in Spaces
      PROVE  p + 1 \in p + 1 .. Len(text)
  <2>1. CharAt(text, p) # ""
    BY <1>2, ClassesAssumption
  <2>2. p < Len(text)
    BY <2>1, CharInside
  <2> QED
    BY <1>1, <2>2
<1>3. ASSUME NEW second \in {"/", "*"}, IsComment(text, p, second)
      PROVE  p + 2 <= Len(text)
  <2>1. CharAt(text, p + 1) # ""
    BY <1>3 DEF IsComment
  <2>2. p + 1 < Len(text)
    BY <2>1, CharInside
  <2> QED
    BY <1>1, <2>2
<1>4. ASSUME IsComment(text, p, "/")
      PROVE  EndOfSingleLineComment(text, p) \in p + 1 .. Len(text)
  <2>1. p + 2 <= Len(text)
    BY <1>3, <1>4
  <2> QED
    BY <1>1, <2>1, EndOfLineIs
<1>5. ASSUME IsComment(text, p, "*")
      PROVE  EndOfMultiLineComment(text, p) \in p + 1 .. Len(text)
  <2>1. p + 2 <= Len(text)
    BY <1>3, <1>5
  <2> QED
    BY <1>1, <2>1, EndOfBlockIs
<1> QED
  BY <1>2, <1>3, <1>4, <1>5

\* One turn of skipSpaceAndComments at p, when f tells the turns behind it.
Turn(text, p, f) ==
  IF CharAt(text, p) \in Spaces THEN f[p + 1]
  ELSE IF IsComment(text, p, "/") THEN f[EndOfSingleLineComment(text, p)]
  ELSE IF IsComment(text, p, "*") THEN f[EndOfMultiLineComment(text, p)]
  ELSE p

\* f is where skipSpaceAndComments ends that begins at a or behind it.
Skips(text, a, f) == f = [p \in a .. Len(text) |-> Turn(text, p, f)]

(* A turn depends on what is behind it only. *)
LEMMA TurnsAgree ==
  ASSUME NEW text, IsText(text), NEW p \in 0 .. Len(text), NEW f, NEW g,
         \A q \in p + 1 .. Len(text) : f[q] = g[q]
  PROVE  Turn(text, p, f) = Turn(text, p, g)
BY SkipGoesOn DEF Turn

(* Skipping ends from wherever it begins. *)
LEMMA SkippingExists ==
  ASSUME NEW text, IsText(text), NEW k \in Nat
  PROVE  k <= Len(text) => \E f : Skips(text, Len(text) - k, f)
<1> DEFINE n == Len(text)
           S == {j \in Nat : j <= n => \E f : Skips(text, n - j, f)}
<1>0. n \in Nat
  BY DEF IsText
<1>1. 0 \in S
  <2> DEFINE f == [p \in n - 0 .. n |-> n]
  <2>1. CharAt(text, n) = ""
    <3>1. ~(n < n)
      BY <1>0
    <3> QED
      BY <3>1 DEF CharAt
  <2>2. Turn(text, n, f) = n
    BY <2>1, ClassesAssumption DEF Turn, IsComment
  <2>3. n - 0 .. n = {n}
    BY <1>0
  <2>4. f = [p \in n - 0 .. n |-> Turn(text, p, f)]
    <3> HIDE DEF f
    <3>1. \A p \in n - 0 .. n : Turn(text, p, f) = n
      BY <2>2, <2>3
    <3> QED
      BY <3>1 DEF f
  <2>5. Skips(text, n - 0, f)
    BY <2>4 DEF Skips
  <2> QED
    BY <2>5
<1>2. ASSUME NEW j \in S
      PROVE  j + 1 \in S
  <2> SUFFICES ASSUME j + 1 <= n
               PROVE  \E f : Skips(text, n - (j + 1), f)
    OBVIOUS
  <2> DEFINE a == n - (j + 1)
  <2>1. a \in Nat /\ a + 1 = n - j /\ a + 1 <= n /\ j <= n
    BY <1>0
  <2>2. PICK f : Skips(text, a + 1, f)
    BY <2>1
  <2> HIDE DEF a
  <2>3. PICK g : g = [p \in a .. n |-> Turn(text, p, f)]
    OBVIOUS
  <2>4. ASSUME NEW q \in a + 1 .. n
        PROVE  g[q] = f[q]
    <3>1. f[q] = Turn(text, q, f)
      BY <2>2 DEF Skips
    <3>2. q \in a .. n
      BY <1>0, <2>1
    <3> QED
      BY <2>3, <3>1, <3>2
  <2>5. ASSUME NEW p \in a .. n
        PROVE  Turn(text, p, f) = Turn(text, p, g)
    <3>1. p \in 0 .. n /\ \A q \in p + 1 .. n : q \in a + 1 .. n
      BY <1>0, <2>1
    <3>2. \A q \in p + 1 .. n : f[q] = g[q]
      BY <2>4, <3>1
    <3> QED
      BY <3>1, <3>2, TurnsAgree
  <2>6. g = [p \in a .. n |-> Turn(text, p, g)]
    BY <2>3, <2>5
  <2>7. Skips(text, a, g)
    BY <2>6 DEF Skips
  <2> QED
    BY <2>7 DEF a
<1>3. S = Nat
  <2>1. S \in SUBSET Nat
    OBVIOUS
  <2> HIDE DEF S
  <2> QED
    BY <1>1, <1>2, <2>1, StepInduction
<1> QED
  BY <1>3

(* What one call of skipSpaceAndComments does, turn by turn. *)
LEMMA SkipIs ==
  ASSUME NEW text, IsText(text), NEW p \in 0 .. Len(text)
  PROVE  SkipSpaceAndComments(text, p) =
           IF CharAt(text, p) \in Spaces THEN SkipSpaceAndComments(text, p + 1)
           ELSE IF IsComment(text, p, "/")
           THEN SkipSpaceAndComments(text, EndOfSingleLineComment(text, p))
           ELSE IF IsComment(text, p, "*")
           THEN SkipSpaceAndComments(text, EndOfMultiLineComment(text, p))
           ELSE p
<1> DEFINE f == CHOOSE g : Skips(text, 0, g)
<1>1. \A q : SkipSpaceAndComments(text, q) = f[q]
  BY DEF SkipSpaceAndComments, Skips, Turn
<1>2. Skips(text, 0, f)
  <2>1. Len(text) \in Nat /\ Len(text) - Len(text) = 0 /\ Len(text) <= Len(text)
    BY DEF IsText
  <2>2. \E g : Skips(text, Len(text) - Len(text), g)
    BY <2>1, SkippingExists
  <2> QED
    BY <2>1, <2>2
<1> HIDE DEF f
<1>3. f[p] = Turn(text, p, f)
  BY <1>2 DEF Skips
<1> QED
  BY <1>1, <1>3 DEF Turn

-----------------------------------------------------------------------------

(* A line comment is read as one, and nothing in it is meant. *)
LEMMA LineCommentRead ==
  ASSUME NEW text, IsText(text), NEW p \in 0 .. Len(text),
         Reading(text)[p] = "code", IsComment(text, p, "/")
  PROVE  LET e == EndOfSingleLineComment(text, p)
         IN  /\ e = Len(text) \/ Reading(text)[e] = "code"
             /\ \A r \in p .. e - 1 : r \notin Meant(text)
<1> DEFINE e == EndOfSingleLineComment(text, p)
           m == Reading(text)
<1>1. Len(text) \in Nat /\ p \in Nat /\ p + 2 <= Len(text)
  BY SkipGoesOn DEF IsText
<1>2. PICK q \in p + 2 .. Len(text) :
        /\ \A r \in p + 2 .. q - 1 : CharAt(text, r) # "\n"
        /\ \/ q = Len(text) /\ e = q
           \/ q < Len(text) /\ CharAt(text, q) = "\n" /\ e = q + 1
  BY <1>1, EndOfLineIs
<1> HIDE DEF e
<1>3. m[p + 1] = "open line"
  <2>1. m[p + 1] = ReadNext(text, p, "code")
    BY <1>1, ReadingIs
  <2> QED
    BY <2>1, ClassesAssumption DEF ReadNext, IsComment
<1>4. m[p + 2] = "line"
  <2>1. p + 1 \in 0 .. Len(text) - 1 /\ (p + 1) + 1 = p + 2
    BY <1>1
  <2>2. m[(p + 1) + 1] = ReadNext(text, p + 1, m[p + 1])
    BY <2>1, ReadingIs
  <2>3. ReadNext(text, p + 1, "open line") = "line"
    BY DEF ReadNext
  <2> QED
    BY <1>3, <2>1, <2>2, <2>3
<1>5. \A r \in p + 2 .. q : m[r] = "line"
  <2>1. \A r \in p + 2 .. q - 1 : ReadNext(text, r, "line") = "line"
    BY <1>2 DEF ReadNext
  <2>2. p + 2 \in 0 .. Len(text) /\ q \in p + 2 .. Len(text)
    BY <1>1
  <2> QED
    BY <1>4, <2>1, <2>2, ReadingKept
<1>6. e = Len(text) \/ m[e] = "code"
  <2> SUFFICES ASSUME q < Len(text), CharAt(text, q) = "\n", e = q + 1
               PROVE  m[e] = "code"
    BY <1>2
  <2>1. m[q + 1] = ReadNext(text, q, "line")
    BY <1>1, <1>5, ReadingIs
  <2> QED
    BY <2>1 DEF ReadNext
<1>7. ASSUME NEW r \in p .. e - 1
      PROVE  r \notin Meant(text)
  <2>1. r = p \/ r = p + 1 \/ r \in p + 2 .. q
    BY <1>1, <1>2
  <2>2. m[p] = "code" /\ IsComment(text, p, "/")
    OBVIOUS
  <2> HIDE DEF m
  <2>3. r = p \/ m[r] = "open line" \/ m[r] = "line"
    BY <1>3, <1>5, <2>1
  <2> QED
    BY <2>2, <2>3 DEF Meant, m
<1> QED
  BY <1>6, <1>7 DEF e

(* A block comment is read as one, up to its slash, and nothing in it is meant. *)
LEMMA BlockCommentRead ==
  ASSUME NEW text, IsText(text), NEW p \in 0 .. Len(text),
         Reading(text)[p] = "code", IsComment(text, p, "*")
  PROVE  LET e == EndOfMultiLineComment(text, p)
         IN  /\ e = Len(text) \/ Reading(text)[e] = "code"
             /\ \A r \in p .. e - 1 : r \notin Meant(text)
<1> DEFINE e == EndOfMultiLineComment(text, p)
           m == Reading(text)
<1>1. Len(text) \in Nat /\ p \in Nat /\ p + 2 <= Len(text)
  BY SkipGoesOn DEF IsText
<1>2. PICK q \in p + 2 .. Len(text) :
        /\ \A r \in p + 2 .. q - 1 : ~IsEndOfBlock(text, r)
        /\ \/ q = Len(text) /\ e = q
           \/ q < Len(text) /\ IsEndOfBlock(text, q) /\ e = q + 1
  BY <1>1, EndOfBlockIs
<1> HIDE DEF e
<1>3. m[p + 1] = "open block"
  <2>1. m[p + 1] = ReadNext(text, p, "code")
    BY <1>1, ReadingIs
  <2> QED
    BY <2>1, ClassesAssumption DEF ReadNext, IsComment
<1>4. m[p + 2] = "block"
  <2>1. p + 1 \in 0 .. Len(text) - 1 /\ (p + 1) + 1 = p + 2
    BY <1>1
  <2>2. m[(p + 1) + 1] = ReadNext(text, p + 1, m[p + 1])
    BY <2>1, ReadingIs
  <2>3. ReadNext(text, p + 1, "open block") = "block"
    BY DEF ReadNext
  <2> QED
    BY <1>3, <2>1, <2>2, <2>3
<1>5. \A r \in p + 2 .. q : m[r] = "block"
  <2>1. \A r \in p + 2 .. q - 1 : ReadNext(text, r, "block") = "block"
    BY <1>2 DEF ReadNext
  <2>2. p + 2 \in 0 .. Len(text) /\ q \in p + 2 .. Len(text)
    BY <1>1
  <2> QED
    BY <1>4, <2>1, <2>2, ReadingKept
<1>6. e = Len(text) \/ m[e] = "code"
  <2> SUFFICES ASSUME q < Len(text), IsEndOfBlock(text, q), e = q + 1
               PROVE  m[e] = "code"
    BY <1>2
  <2>1. m[q + 1] = ReadNext(text, q, "block")
    BY <1>1, <1>5, ReadingIs
  <2> QED
    BY <2>1 DEF ReadNext
<1>7. ASSUME NEW r \in p .. e - 1
      PROVE  r \notin Meant(text)
  <2>1. r = p \/ r = p + 1 \/ r \in p + 2 .. q
    BY <1>1, <1>2
  <2>2. m[p] = "code" /\ IsComment(text, p, "*")
    OBVIOUS
  <2> HIDE DEF m
  <2>3. r = p \/ m[r] = "open block" \/ m[r] = "block"
    BY <1>3, <1>5, <2>1
  <2> QED
    BY <2>2, <2>3 DEF Meant, m
<1> QED
  BY <1>6, <1>7 DEF e

\* Position r is the end of the text, or a token begins there.
AtToken(text, r) ==
  r # Len(text) =>
    /\ Reading(text)[r] = "code" /\ CharAt(text, r) \notin Spaces
    /\ ~IsComment(text, r, "/") /\ ~IsComment(text, r, "*")

\* From p to r there is nothing but layout, and behind it a token or the end.
Layout(text, p, r) ==
  /\ r \in p .. Len(text)
  /\ AtToken(text, r)
  /\ \A q \in p .. r - 1 : q \notin Meant(text)

(* skipSpaceAndComments goes over layout only, and over all of it. *)
LEMMA SkipsLayout ==
  ASSUME NEW text, IsText(text), NEW p \in 0 .. Len(text),
         p = Len(text) \/ Reading(text)[p] = "code"
  PROVE  Layout(text, p, SkipSpaceAndComments(text, p))
<1> DEFINE n == Len(text)
           m == Reading(text)
           To(q) == Layout(text, q, SkipSpaceAndComments(text, q))
           S == {k \in Nat : \A q \in 0 .. n : n - q = k /\ (q = n \/ m[q] = "code") => To(q)}
<1>1. n \in Nat
  BY DEF IsText
<1>2. ASSUME NEW k \in Nat, \A j \in 0 .. k - 1 : j \in S
      PROVE  k \in S
  <2> SUFFICES ASSUME NEW q \in 0 .. n, n - q = k, q = n \/ m[q] = "code"
               PROVE  To(q)
    OBVIOUS
  <2>1. ASSUME NEW e \in q + 1 .. n, e = n \/ m[e] = "code", m[q] = "code",
               SkipSpaceAndComments(text, q) = SkipSpaceAndComments(text, e),
               \A r \in q .. e - 1 : r \notin Meant(text)
        PROVE  To(q)
    <3>1. n - e \in 0 .. k - 1 /\ e \in 0 .. n
      BY <1>1
    <3>2. To(e)
      <4>1. n - e \in S
        BY <1>2, <3>1
      <4> HIDE DEF To
      <4> QED
        BY <2>1, <3>1, <4>1
    <3>3. DEFINE z == SkipSpaceAndComments(text, e)
    <3>4. z \in e .. n /\ AtToken(text, z) /\ \A r \in e .. z - 1 : r \notin Meant(text)
      BY <3>2 DEF Layout
    <3> HIDE DEF z
    <3>5. z \in q .. n /\ \A r \in q .. z - 1 : r \in q .. e - 1 \/ r \in e .. z - 1
      BY <1>1, <3>4
    <3>6. Layout(text, q, z)
      BY <2>1, <3>4, <3>5 DEF Layout
    <3> QED
      BY <2>1, <3>6 DEF z
  <2> HIDE DEF To
  <2>2. CASE CharAt(text, q) \in Spaces
    <3>1. q + 1 \in q + 1 .. n /\ q # n
      BY <1>1, <2>2, SkipGoesOn
    <3>2. CharAt(text, q) \notin {"", "/", Quote}
      BY <2>2, ClassesAssumption
    <3>3. m[q] = "code" /\ q \in 0 .. n - 1
      BY <1>1, <3>1
    <3>4. m[q + 1] = "code"
      <4>1. m[q + 1] = ReadNext(text, q, "code")
        BY <3>3, ReadingIs
      <4> QED
        BY <3>2, <4>1 DEF ReadNext, IsComment
    <3>5. q \notin Meant(text)
      BY <2>2, <3>3 DEF Meant
    <3>6. SkipSpaceAndComments(text, q) = SkipSpaceAndComments(text, q + 1)
      BY <2>2, SkipIs
    <3>7. \A r \in q .. (q + 1) - 1 : r \notin Meant(text)
      BY <1>1, <3>5
    <3> QED
      BY <2>1, <3>1, <3>3, <3>4, <3>6, <3>7
  <2>3. CASE IsComment(text, q, "/")
    <3>1. EndOfSingleLineComment(text, q) \in q + 1 .. n /\ q # n
      BY <1>1, <2>3, SkipGoesOn
    <3>2. CharAt(text, q) \notin Spaces
      BY <2>3, ClassesAssumption DEF IsComment
    <3>3. SkipSpaceAndComments(text, q)
            = SkipSpaceAndComments(text, EndOfSingleLineComment(text, q))
      BY <2>3, <3>2, SkipIs
    <3> QED
      BY <2>1, <2>3, <3>1, <3>3, LineCommentRead
  <2>4. CASE IsComment(text, q, "*")
    <3>1. EndOfMultiLineComment(text, q) \in q + 1 .. n /\ q # n
      BY <1>1, <2>4, SkipGoesOn
    <3>2. CharAt(text, q) \notin Spaces /\ ~IsComment(text, q, "/")
      BY <2>4, ClassesAssumption DEF IsComment
    <3>3. SkipSpaceAndComments(text, q)
            = SkipSpaceAndComments(text, EndOfMultiLineComment(text, q))
      BY <2>4, <3>2, SkipIs
    <3> QED
      BY <2>1, <2>4, <3>1, <3>3, BlockCommentRead
  <2>5. CASE /\ CharAt(text, q) \notin Spaces
             /\ ~IsComment(text, q, "/") /\ ~IsComment(text, q, "*")
    <3>1. SkipSpaceAndComments(text, q) = q
      BY <2>5, SkipIs
    <3>2. q \in q .. n /\ (q .. q - 1) = {}
      BY <1>1
    <3>3. Layout(text, q, q)
      BY <2>5, <3>2 DEF Layout, AtToken
    <3> QED
      BY <3>1, <3>3 DEF To
  <2> QED
    BY <2>2, <2>3, <2>4, <2>5
<1>3. S = Nat
  <2>1. S \in SUBSET Nat
    OBVIOUS
  <2> HIDE DEF S
  <2> QED
    BY <1>2, <2>1, StrongInduction
<1>4. n - p \in S
  <2>1. n - p \in Nat
    BY <1>1
  <2> QED
    BY <1>3, <2>1
<1> QED
  BY <1>4

-----------------------------------------------------------------------------

(* Code without quotes, comments and spaces is meant, and leaves the reading in code. *)
LEMMA CodeIsMeant ==
  ASSUME NEW text, IsText(text), NEW p \in 0 .. Len(text), NEW q \in p .. Len(text),
         Reading(text)[p] = "code",
         \A r \in p .. q - 1 : /\ CharAt(text, r) \notin Spaces \cup {Quote}
                               /\ ~IsComment(text, r, "/") /\ ~IsComment(text, r, "*")
  PROVE  Reading(text)[q] = "code" /\ \A r \in p .. q - 1 : r \in Meant(text)
<1>1. Len(text) \in Nat
  BY DEF IsText
<1>2. \A r \in p .. q - 1 : ReadNext(text, r, "code") = "code"
  BY DEF ReadNext
<1>3. \A r \in p .. q : Reading(text)[r] = "code"
  BY <1>2, ReadingKept
<1>4. ASSUME NEW r \in p .. q - 1
      PROVE  r \in Meant(text)
  <2>1. r \in 0 .. Len(text) - 1 /\ Reading(text)[r] = "code"
    BY <1>1, <1>3
  <2> QED
    BY <2>1 DEF Meant
<1> QED
  BY <1>1, <1>3, <1>4

\* The tokens: their characters from "first" on, without the quotes of a string.
TokenSet == [type : {"ID", "NUMBER", "STRING", "SPECIAL"}, first : Nat, length : Nat]

\* Where the lexer goes on behind a token, before it skips.
Behind(token) == EndOf(token) + (IF token.type = "STRING" THEN 1 ELSE 0)

\* t holds what the text means from p on, up to the place behind it.
TokenFrom(text, p, t) ==
  /\ t \in TokenSet
  /\ p <= t.first /\ EndOf(t) <= Len(text)
  /\ t.length > 0 \/ t.type = "STRING"
  /\ ~IsRefused(text, t) =>
       /\ Behind(t) \in p + 1 .. Len(text) /\ EndOf(t) <= Behind(t)
       /\ Reading(text)[Behind(t)] = "code"
       /\ \A q \in p .. Behind(t) - 1 : q \in Meant(text) <=> q \in t.first .. EndOf(t) - 1

(* A token that is no string is made of code. *)
LEMMA CodeToken ==
  ASSUME NEW text, IsText(text), NEW p \in 0 .. Len(text), NEW q \in p + 1 .. Len(text),
         NEW type \in {"ID", "NUMBER", "SPECIAL"}, Reading(text)[p] = "code",
         \A r \in p .. q - 1 : /\ CharAt(text, r) \notin Spaces \cup {Quote}
                               /\ ~IsComment(text, r, "/") /\ ~IsComment(text, r, "*")
  PROVE  TokenFrom(text, p, Token(type, p, q))
<1>1. Len(text) \in Nat /\ q \in p .. Len(text)
  BY DEF IsText
<1>2. Reading(text)[q] = "code" /\ \A r \in p .. q - 1 : r \in Meant(text)
  BY <1>1, CodeIsMeant
<1> DEFINE t == Token(type, p, q)
<1>3. t.type = type /\ t.first = p /\ t.length = q - p /\ q - p \in Nat /\ q - p > 0
  BY <1>1 DEF Token
<1>4. EndOf(t) = q /\ Behind(t) = q
  BY <1>1, <1>3 DEF EndOf, Behind
<1>5. t \in TokenSet
  BY <1>1, <1>3 DEF TokenSet, Token
<1> HIDE DEF t
<1>6. TokenFrom(text, p, t)
  BY <1>1, <1>2, <1>3, <1>4, <1>5 DEF TokenFrom
<1> QED
  BY <1>6 DEF t

(* What the characters of numbers and identifiers are not. *)
LEMMA WordCharacters ==
  ASSUME NEW text, NEW p, CharAt(text, p) \in IdSymbols \cup {"."}
  PROVE  /\ CharAt(text, p) \notin Spaces \cup {Quote}
         /\ ~IsComment(text, p, "/") /\ ~IsComment(text, p, "*")
BY ClassesAssumption DEF IsComment

(* A number has a character, and all of them are digits or dots. *)
LEMMA EndOfNumberIs ==
  ASSUME NEW text, IsText(text), NEW p \in 0 .. Len(text), BeginsNumber(text, p)
  PROVE  /\ EndOfNumber(text, p) \in p + 1 .. Len(text)
         /\ \A r \in p .. EndOfNumber(text, p) - 1 : CharAt(text, r) \in Digits \cup {"."}
<1> DEFINE n == Len(text)
           q == EndOfRun(text, p, Digits)
           z == EndOfRun(text, q + 1, Digits)
<1>1. n \in Nat
  BY DEF IsText
<1>2. /\ q \in p .. n /\ (q = n \/ CharAt(text, q) \notin Digits)
      /\ \A r \in p .. q - 1 : CharAt(text, r) \in Digits
  BY EndOfRunIs
<1>3. EndOfNumber(text, p) = IF CharAt(text, q) = "." THEN z ELSE q
  BY DEF EndOfNumber
<1>4. "" \notin Digits /\ "." \notin Digits
  BY ClassesAssumption DEF IdSymbols
<1> HIDE DEF q
<1>5. CASE CharAt(text, q) = "."
  <2>1. q < n
    <3>1. CharAt(text, q) # ""
      BY <1>5
    <3> QED
      BY <3>1, CharInside
  <2>2. q + 1 \in 0 .. n
    BY <1>1, <1>2, <2>1
  <2>3. z \in q + 1 .. n /\ \A r \in q + 1 .. z - 1 : CharAt(text, r) \in Digits
    BY <2>2, EndOfRunIs
  <2> HIDE DEF z
  <2>4. z \in p + 1 .. n
    BY <1>1, <1>2, <2>3
  <2>5. \A r \in p .. z - 1 : r \in p .. q - 1 \/ r = q \/ r \in q + 1 .. z - 1
    BY <1>1, <1>2, <2>3
  <2>6. \A r \in p .. z - 1 : CharAt(text, r) \in Digits \cup {"."}
    BY <1>2, <1>5, <2>3, <2>5
  <2> QED
    BY <1>3, <1>5, <2>4, <2>6
<1>6. CASE CharAt(text, q) # "."
  <2>1. q # p
    <3> SUFFICES ASSUME q = p
                 PROVE  FALSE
      OBVIOUS
    <3>1. CharAt(text, p) \in Digits
      BY <1>6 DEF BeginsNumber
    <3>2. CharAt(text, p) # ""
      BY <1>4, <3>1
    <3>3. p < n
      BY <3>2, CharInside
    <3> QED
      BY <1>1, <1>2, <3>1, <3>3
  <2>2. q \in p + 1 .. n
    BY <1>1, <1>2, <2>1
  <2> QED
    BY <1>2, <1>3, <1>6, <2>2
<1> QED
  BY <1>5, <1>6

(* Where a special token ends. *)
LEMMA EndOfSpecialIs ==
  ASSUME NEW text, IsText(text), NEW p \in 0 .. Len(text)
  PROVE  LET q == EndOfSpecial(text, p)
         IN  /\ q \in p .. Len(text)
             /\ q = Len(text) \/ EndsSpecial(text, q)
             /\ \A r \in p .. q - 1 : ~EndsSpecial(text, r)
<1> DEFINE B == {q \in Nat : EndsSpecial(text, q)}
           q == Min({r \in p .. Len(text) : r = Len(text) \/ r \in B})
<1>1. IsFirst(p, Len(text), B, q)
  BY FirstIs DEF IsText
<1>2. EndOfSpecial(text, p) = q
  <2>1. {r \in p .. Len(text) : r = Len(text) \/ r \in B}
          = {r \in p .. Len(text) : r = Len(text) \/ EndsSpecial(text, r)}
    BY DEF IsText
  <2> HIDE DEF B
  <2> QED
    BY <2>1 DEF EndOfSpecial, FirstFrom
<1> HIDE DEF q
<1> QED
  BY <1>1, <1>2 DEF IsFirst, IsText

(* Where a string ends. *)
LEMMA EndOfStringIs ==
  ASSUME NEW text, IsText(text), NEW p \in Nat, p + 1 <= Len(text)
  PROVE  LET q == EndOfString(text, p)
         IN  /\ q \in p + 1 .. Len(text)
             /\ q = Len(text) \/ CharAt(text, q) = Quote
             /\ \A r \in p + 1 .. q - 1 : CharAt(text, r) # Quote
<1> DEFINE B == {q \in Nat : CharAt(text, q) = Quote}
           q == Min({r \in p + 1 .. Len(text) : r = Len(text) \/ r \in B})
<1>1. IsFirst(p + 1, Len(text), B, q)
  BY FirstIs DEF IsText
<1>2. EndOfString(text, p) = q
  <2>1. {r \in p + 1 .. Len(text) : r = Len(text) \/ r \in B}
          = {r \in p + 1 .. Len(text) : r = Len(text) \/ CharAt(text, r) = Quote}
    BY DEF IsText
  <2> HIDE DEF B
  <2> QED
    BY <2>1 DEF EndOfString, FirstFrom
<1> HIDE DEF q
<1> QED
  BY <1>1, <1>2 DEF IsFirst, IsText

(* A string is what lies between two quotes. *)
LEMMA StringToken ==
  ASSUME NEW text, IsText(text), NEW p \in 0 .. Len(text) - 1, CharAt(text, p) = Quote,
         Reading(text)[p] = "code", NEW q \in p + 1 .. Len(text),
         q = Len(text) \/ CharAt(text, q) = Quote,
         \A r \in p + 1 .. q - 1 : CharAt(text, r) # Quote
  PROVE  TokenFrom(text, p, Token("STRING", p + 1, q))
<1> DEFINE t == Token("STRING", p + 1, q)
           m == Reading(text)
<1>1. Len(text) \in Nat /\ p \in Nat /\ p \in 0 .. Len(text) /\ p + 1 \in 0 .. Len(text)
  BY DEF IsText
<1>2. t.type = "STRING" /\ t.first = p + 1 /\ t.length = q - (p + 1) /\ q - (p + 1) \in Nat
  BY <1>1 DEF Token
<1>3. EndOf(t) = q /\ Behind(t) = q + 1
  BY <1>1, <1>2 DEF EndOf, Behind
<1>4. t \in TokenSet
  BY <1>1, <1>2 DEF TokenSet, Token
<1> HIDE DEF t
<1>5. ASSUME ~IsRefused(text, t)
      PROVE  /\ q + 1 \in p + 1 .. Len(text)
             /\ m[q + 1] = "code"
             /\ \A r \in p .. (q + 1) - 1 : r \in Meant(text) <=> r \in p + 1 .. q - 1
  <2>1. q # Len(text) /\ q < Len(text) /\ CharAt(text, q) = Quote /\ q \in 0 .. Len(text) - 1
    BY <1>1, <1>2, <1>3, <1>5 DEF IsRefused
  <2>2. m[p + 1] = "string"
    <3>1. m[p + 1] = ReadNext(text, p, "code")
      BY ReadingIs
    <3> QED
      BY <3>1 DEF ReadNext, IsComment
  <2>3. \A r \in p + 1 .. q : m[r] = "string"
    <3>1. \A r \in p + 1 .. q - 1 : ReadNext(text, r, "string") = "string"
      BY DEF ReadNext
    <3> QED
      BY <1>1, <2>2, <3>1, ReadingKept
  <2>4. m[q + 1] = "code"
    <3>1. m[q] = "string"
      BY <1>1, <2>3
    <3>2. m[q + 1] = ReadNext(text, q, m[q])
      BY <2>1, ReadingIs
    <3> QED
      BY <2>1, <3>1, <3>2 DEF ReadNext
  <2>5. ASSUME NEW r \in p .. (q + 1) - 1
        PROVE  r \in Meant(text) <=> r \in p + 1 .. q - 1
    <3>1. r = p \/ r = q \/ r \in p + 1 .. q - 1
      BY <1>1
    <3>2. CASE r = p \/ r = q
      <4>1. CharAt(text, r) = Quote /\ r \notin p + 1 .. q - 1
        BY <1>1, <2>1, <3>2
      <4> QED
        BY <4>1 DEF Meant
    <3>3. CASE r \in p + 1 .. q - 1
      <4>1. m[r] = "string" /\ CharAt(text, r) # Quote /\ r \in 0 .. Len(text) - 1
        BY <1>1, <2>3, <3>3
      <4> QED
        BY <3>3, <4>1 DEF Meant
    <3> QED
      BY <3>1, <3>2, <3>3
  <2> QED
    BY <1>1, <2>1, <2>4, <2>5
<1>6. TokenFrom(text, p, t)
  BY <1>1, <1>2, <1>3, <1>4, <1>5 DEF TokenFrom
<1> QED
  BY <1>6 DEF t

(* The token at a place where one begins holds what the text means there. *)
LEMMA TokenAtIs ==
  ASSUME NEW text, IsText(text), NEW p \in 0 .. Len(text) - 1, AtToken(text, p)
  PROVE  TokenFrom(text, p, TokenAt(text, p))
<1> DEFINE n == Len(text)
           special == EndOfSpecial(text, p)
           quote == EndOfString(text, p)
<1>1. n \in Nat /\ p \in 0 .. n /\ p \in Nat /\ p + 1 <= n /\ p # n
  BY DEF IsText
<1>2. /\ Reading(text)[p] = "code" /\ CharAt(text, p) \notin Spaces
      /\ ~IsComment(text, p, "/") /\ ~IsComment(text, p, "*")
  BY <1>1 DEF AtToken
<1>3. /\ special \in p .. n /\ (special = n \/ EndsSpecial(text, special))
      /\ \A r \in p .. special - 1 : ~EndsSpecial(text, r)
  BY <1>1, EndOfSpecialIs
<1>4. TokenAt(text, p) =
        IF special > p THEN Token("SPECIAL", p, special)
        ELSE IF BeginsNumber(text, p) THEN Token("NUMBER", p, EndOfNumber(text, p))
        ELSE IF CharAt(text, p) = Quote THEN Token("STRING", p + 1, quote)
        ELSE Token("ID", p, EndOfRun(text, p, IdSymbols))
  BY DEF TokenAt
<1>5. /\ quote \in p + 1 .. n /\ (quote = n \/ CharAt(text, quote) = Quote)
      /\ \A r \in p + 1 .. quote - 1 : CharAt(text, r) # Quote
  BY <1>1, EndOfStringIs
<1> HIDE DEF special, quote
<1>6. CASE special > p
  <2>1. special \in p + 1 .. n
    BY <1>1, <1>3, <1>6
  <2>2. \A r \in p .. special - 1 :
          /\ CharAt(text, r) \notin Spaces \cup {Quote}
          /\ ~IsComment(text, r, "/") /\ ~IsComment(text, r, "*")
    BY <1>3 DEF EndsSpecial
  <2>3. TokenFrom(text, p, Token("SPECIAL", p, special))
    BY <1>1, <1>2, <2>1, <2>2, CodeToken
  <2> QED
    BY <1>4, <1>6, <2>3
<1>7. CASE ~(special > p) /\ BeginsNumber(text, p)
  <2> DEFINE e == EndOfNumber(text, p)
  <2>1. e \in p + 1 .. n /\ \A r \in p .. e - 1 : CharAt(text, r) \in Digits \cup {"."}
    BY <1>1, <1>7, EndOfNumberIs
  <2> HIDE DEF e
  <2>2. \A r \in p .. e - 1 :
          /\ CharAt(text, r) \notin Spaces \cup {Quote}
          /\ ~IsComment(text, r, "/") /\ ~IsComment(text, r, "*")
    <3>1. \A r \in p .. e - 1 : CharAt(text, r) \in IdSymbols \cup {"."}
      BY <2>1 DEF IdSymbols
    <3> QED
      BY <3>1, WordCharacters
  <2>3. TokenFrom(text, p, Token("NUMBER", p, e))
    BY <1>1, <1>2, <2>1, <2>2, CodeToken
  <2> QED
    BY <1>4, <1>7, <2>3 DEF e
<1>8. CASE ~(special > p) /\ ~BeginsNumber(text, p) /\ CharAt(text, p) = Quote
  <2>1. TokenFrom(text, p, Token("STRING", p + 1, quote))
    BY <1>2, <1>5, <1>8, StringToken
  <2> QED
    BY <1>4, <1>8, <2>1
<1>9. CASE ~(special > p) /\ ~BeginsNumber(text, p) /\ CharAt(text, p) # Quote
  <2> DEFINE e == EndOfRun(text, p, IdSymbols)
  <2>1. special = p
    BY <1>1, <1>3, <1>9
  <2>2. CharAt(text, p) \in IdSymbols
    BY <1>1, <1>2, <1>3, <1>9, <2>1 DEF EndsSpecial, IdSymbols
  <2>3. /\ e \in p .. n /\ (e = n \/ CharAt(text, e) \notin IdSymbols)
        /\ \A r \in p .. e - 1 : CharAt(text, r) \in IdSymbols
    BY <1>1, EndOfRunIs
  <2> HIDE DEF e
  <2>4. e \in p + 1 .. n
    BY <1>1, <2>2, <2>3
  <2>5. \A r \in p .. e - 1 :
          /\ CharAt(text, r) \notin Spaces \cup {Quote}
          /\ ~IsComment(text, r, "/") /\ ~IsComment(text, r, "*")
    BY <2>3, WordCharacters
  <2>6. TokenFrom(text, p, Token("ID", p, e))
    BY <1>1, <1>2, <2>4, <2>5, CodeToken
  <2> QED
    BY <1>4, <1>9, <2>6 DEF e
<1> QED
  BY <1>6, <1>7, <1>8, <1>9

-----------------------------------------------------------------------------

\* The position p lies in one of the tokens.
InToken(p) == \E i \in 1 .. Len(tokens) : p \in tokens[i].first .. EndOf(tokens[i]) - 1

\* The tokens lie in the source one behind the other, before sourceIt.
TokensRow ==
  /\ tokens \in Seq(TokenSet)
  /\ \A i \in 1 .. Len(tokens) :
       /\ tokens[i].length > 0 \/ tokens[i].type = "STRING"
       /\ tokens[i].length <= MaxTokenLength
       /\ EndOf(tokens[i]) <= sourceIt
  /\ \A i \in 2 .. Len(tokens) : EndOf(tokens[i - 1]) <= tokens[i].first

(***************************************************************************)
(* The inductive invariant: behind the tokens so far there is a token or   *)
(* the end, read as code, and before it they hold what is meant.           *)
(***************************************************************************)
IInv ==
  /\ source \in Sources /\ failed \in BOOLEAN
  /\ sourceIt \in 0 .. Len(source)
  /\ AtToken(source, sourceIt)
  /\ TokensRow
  /\ \A p \in 0 .. sourceIt - 1 : p \in Meant(source) <=> InToken(p)

(* Every source is a text. *)
LEMMA SourcesAreTexts ==
  ASSUME NEW text \in Sources
  PROVE  IsText(text)
BY LexerAssumption DEF IsText

(* ketl_lexer_init skips to the first token. *)
LEMMA InitIInv == Init => IInv
<1> SUFFICES ASSUME Init
             PROVE  IInv
  OBVIOUS
<1>1. source \in Sources /\ IsText(source) /\ Len(source) \in Nat
  BY SourcesAreTexts DEF Init, IsText
<1>2. Layout(source, 0, sourceIt)
  <2>1. Reading(source)[0] = "code" /\ 0 \in 0 .. Len(source)
    BY <1>1, ReadingIs
  <2> QED
    BY <1>1, <2>1, SkipsLayout DEF Init
<1>3. tokens = <<>> /\ failed = FALSE
  BY DEF Init
<1>4. TokensRow
  BY <1>3 DEF TokensRow
<1>5. \A p : ~InToken(p)
  BY <1>3 DEF InToken
<1> QED
  BY <1>1, <1>2, <1>3, <1>4, <1>5 DEF IInv, Layout

(* A token that is not refused becomes the last one. *)
LEMMA TokenTaken ==
  ASSUME IInv, NEW t, TokenFrom(source, sourceIt, t), ~IsRefused(source, t),
         sourceIt < Len(source),
         tokens' = Append(tokens, t), sourceIt' = PositionAfter(source, t),
         UNCHANGED <<source, failed>>
  PROVE  IInv'
<1> DEFINE n == Len(source)
           k == Len(tokens)
           e == Behind(t)
<1>1. /\ source \in Sources /\ IsText(source) /\ n \in Nat /\ sourceIt \in 0 .. n
      /\ tokens \in Seq(TokenSet) /\ k \in Nat
  BY SourcesAreTexts DEF IInv, TokensRow, IsText
<1>2. /\ t \in TokenSet /\ sourceIt <= t.first
      /\ t.length > 0 \/ t.type = "STRING"
      /\ e \in sourceIt + 1 .. n /\ EndOf(t) <= e
      /\ Reading(source)[e] = "code"
      /\ \A q \in sourceIt .. e - 1 : q \in Meant(source) <=> q \in t.first .. EndOf(t) - 1
  BY DEF TokenFrom
<1>3. t.length <= MaxTokenLength /\ t.first \in Nat /\ t.length \in Nat /\ EndOf(t) \in Nat
  <2>1. t.first \in Nat /\ t.length \in Nat
    BY <1>2 DEF TokenSet
  <2> QED
    BY <2>1, LexerAssumption DEF IsRefused, EndOf
<1> HIDE DEF e
<1>4. e \in 0 .. n
  BY <1>1, <1>2
<1>5. Layout(source, e, sourceIt')
  <2>1. sourceIt' = SkipSpaceAndComments(source, e)
    BY DEF PositionAfter, Behind, e
  <2> QED
    BY <1>1, <1>2, <1>4, <2>1, SkipsLayout
<1>6. /\ sourceIt' \in e .. n /\ AtToken(source, sourceIt')
      /\ \A q \in e .. sourceIt' - 1 : q \notin Meant(source)
  BY <1>5 DEF Layout
<1>7. /\ tokens' \in Seq(TokenSet) /\ Len(tokens') = k + 1 /\ tokens'[k + 1] = t
      /\ \A i \in 1 .. k : tokens'[i] = tokens[i]
  BY <1>1, <1>2
<1>8. /\ sourceIt' \in 0 .. n /\ sourceIt' >= sourceIt /\ sourceIt' >= EndOf(t)
      /\ sourceIt \in Nat /\ sourceIt' \in Nat
  BY <1>1, <1>2, <1>3, <1>4, <1>6
<1>9. \A i \in 1 .. k :
        /\ tokens[i].length > 0 \/ tokens[i].type = "STRING"
        /\ tokens[i].length <= MaxTokenLength
        /\ EndOf(tokens[i]) <= sourceIt /\ EndOf(tokens[i]) \in Nat
  <2>1. ASSUME NEW i \in 1 .. k
        PROVE  EndOf(tokens[i]) \in Nat
    <3>1. tokens[i] \in TokenSet
      BY <1>1
    <3> QED
      BY <3>1 DEF TokenSet, EndOf
  <2> QED
    BY <2>1 DEF IInv, TokensRow
<1>10. TokensRow'
  <2>1. \A i \in 1 .. k + 1 : i = k + 1 \/ i \in 1 .. k
    BY <1>1
  <2>2. \A i \in 1 .. k + 1 :
          /\ tokens'[i].length > 0 \/ tokens'[i].type = "STRING"
          /\ tokens'[i].length <= MaxTokenLength
    BY <1>2, <1>3, <1>7, <1>9, <2>1
  <2>3. \A i \in 1 .. k + 1 : EndOf(tokens'[i]) <= sourceIt'
    <3> SUFFICES ASSUME NEW i \in 1 .. k + 1
                 PROVE  EndOf(tokens'[i]) <= sourceIt'
      OBVIOUS
    <3>1. CASE i = k + 1
      BY <1>3, <1>7, <1>8, <3>1
    <3>2. CASE i \in 1 .. k
      <4>1. tokens'[i] = tokens[i] /\ EndOf(tokens[i]) <= sourceIt /\ EndOf(tokens[i]) \in Nat
        BY <1>7, <1>9, <3>2
      <4> QED
        BY <1>8, <4>1
    <3> QED
      BY <2>1, <3>1, <3>2
  <2>4. ASSUME NEW i \in 2 .. k + 1
        PROVE  EndOf(tokens'[i - 1]) <= tokens'[i].first
    <3>1. i - 1 \in 1 .. k /\ (i = k + 1 \/ i \in 2 .. k) /\ (i \in 2 .. k => i \in 1 .. k)
      BY <1>1
    <3>2. tokens'[i - 1] = tokens[i - 1]
      BY <1>7, <3>1
    <3>3. CASE i = k + 1
      <4>1. EndOf(tokens[i - 1]) <= sourceIt /\ EndOf(tokens[i - 1]) \in Nat
        BY <1>9, <3>1
      <4>2. tokens'[i] = t
        BY <1>7, <3>3
      <4> QED
        BY <1>2, <1>3, <1>8, <3>2, <4>1, <4>2
    <3>4. CASE i \in 2 .. k
      <4>1. tokens'[i] = tokens[i]
        BY <1>7, <3>1, <3>4
      <4> QED
        BY <3>2, <3>4, <4>1 DEF IInv, TokensRow
    <3> QED
      BY <3>1, <3>3, <3>4
  <2> HIDE DEF k
  <2> QED
    BY <1>7, <2>2, <2>3, <2>4 DEF TokensRow
<1>11. ASSUME NEW p \in 0 .. sourceIt' - 1
       PROVE  p \in Meant(source) <=> InToken(p)'
  <2>1. InToken(p)' <=> InToken(p) \/ p \in t.first .. EndOf(t) - 1
    <3>1. InToken(p)' <=> \E i \in 1 .. k + 1 : p \in tokens'[i].first .. EndOf(tokens'[i]) - 1
      BY <1>7 DEF InToken
    <3>2. InToken(p) <=> \E i \in 1 .. k : p \in tokens[i].first .. EndOf(tokens[i]) - 1
      BY DEF InToken
    <3>3. k + 1 \in 1 .. k + 1 /\ \A i \in 1 .. k + 1 : i = k + 1 \/ i \in 1 .. k
      BY <1>1
    <3>4. \A i \in 1 .. k : i \in 1 .. k + 1
      BY <1>1
    <3> HIDE DEF k
    <3> QED
      BY <1>7, <3>1, <3>2, <3>3, <3>4
  <2>2. p \in 0 .. sourceIt - 1 \/ p \in sourceIt .. e - 1 \/ p \in e .. sourceIt' - 1
    BY <1>1, <1>2, <1>8
  <2>3. CASE p \in 0 .. sourceIt - 1
    <3>1. p \notin t.first .. EndOf(t) - 1
      BY <1>2, <1>3, <1>8, <2>3
    <3>2. p \in Meant(source) <=> InToken(p)
      BY <2>3 DEF IInv
    <3> QED
      BY <2>1, <3>1, <3>2
  <2>4. ASSUME p >= sourceIt
        PROVE  ~InToken(p)
    <3>1. \A i \in 1 .. k : p \notin tokens[i].first .. EndOf(tokens[i]) - 1
      BY <1>8, <1>9, <2>4
    <3> QED
      BY <3>1 DEF InToken
  <2>5. CASE p \in sourceIt .. e - 1
    <3>1. p \in Meant(source) <=> p \in t.first .. EndOf(t) - 1
      BY <1>2, <2>5
    <3>2. ~InToken(p)
      BY <1>8, <2>4, <2>5
    <3> QED
      BY <2>1, <3>1, <3>2
  <2>6. CASE p \in e .. sourceIt' - 1
    <3>1. p \notin Meant(source)
      BY <1>6, <2>6
    <3>2. p \notin t.first .. EndOf(t) - 1 /\ p >= sourceIt
      BY <1>2, <1>3, <1>4, <1>8, <2>6
    <3>3. ~InToken(p)
      BY <2>4, <3>2
    <3> QED
      BY <2>1, <3>1, <3>2, <3>3
  <2> QED
    BY <2>2, <2>3, <2>5, <2>6
<1>12. /\ source' = source /\ failed' = failed /\ failed \in BOOLEAN
  BY DEF IInv
<1> QED
  BY <1>1, <1>6, <1>8, <1>10, <1>11, <1>12 DEF IInv

(* Every call of get_next_token preserves the invariant. *)
LEMMA NextIInv == IInv /\ [Next]_vars => IInv'
<1> SUFFICES ASSUME IInv, [Next]_vars
             PROVE  IInv'
  OBVIOUS
<1>1. CASE GetNextToken
  <2> DEFINE t == TokenAt(source, sourceIt)
  <2>1. sourceIt < Len(source) /\ source' = source
    BY <1>1 DEF GetNextToken, HasNextToken
  <2>2. CASE IsRefused(source, t)
    <3>1. failed' = TRUE /\ UNCHANGED <<source, sourceIt, tokens>>
      BY <1>1, <2>2 DEF GetNextToken
    <3> QED
      BY <3>1 DEF IInv, TokensRow, InToken
  <2>3. CASE ~IsRefused(source, t)
    <3>1. /\ tokens' = Append(tokens, t) /\ sourceIt' = PositionAfter(source, t)
          /\ UNCHANGED <<source, failed>>
      BY <1>1, <2>3 DEF GetNextToken
    <3>2. IsText(source) /\ sourceIt \in 0 .. Len(source) - 1 /\ AtToken(source, sourceIt)
      <4>1. source \in Sources /\ sourceIt \in 0 .. Len(source) /\ AtToken(source, sourceIt)
        BY DEF IInv
      <4>2. IsText(source) /\ Len(source) \in Nat
        BY <4>1, SourcesAreTexts DEF IsText
      <4> QED
        BY <2>1, <4>1, <4>2
    <3>3. TokenFrom(source, sourceIt, t)
      BY <3>2, TokenAtIs
    <3> HIDE DEF t
    <3> QED
      BY <2>1, <2>3, <3>1, <3>3, TokenTaken
  <2> QED
    BY <2>2, <2>3
<1>2. CASE UNCHANGED vars
  BY <1>2 DEF vars, IInv, TokensRow, InToken
<1> QED
  BY <1>1, <1>2 DEF Next

(* The invariant holds in every state of the lexer. *)
THEOREM LexerInvariant == Spec => []IInv
BY InitIInv, NextIInv, PTL DEF Spec

(***************************************************************************)
(* The fields of ketl_lexer and of the tokens keep their types: no token   *)
(* leaves the source, and none is longer than its length field can say.    *)
(***************************************************************************)
THEOREM TypeCorrect == Spec => []TypeOK
<1>1. IInv => TypeOK
  <2> SUFFICES ASSUME IInv
               PROVE  TypeOK
    OBVIOUS
  <2>1. Len(source) \in Nat /\ sourceIt \in 0 .. Len(source)
    BY SourcesAreTexts DEF IInv, IsText
  <2>2. tokens \in Seq(TokenSet)
    BY DEF IInv, TokensRow
  <2>3. ASSUME NEW i \in DOMAIN tokens
        PROVE  /\ tokens[i].type \in {"ID", "NUMBER", "STRING", "SPECIAL"}
               /\ tokens[i].first \in 0 .. Len(source)
               /\ tokens[i].length \in 0 .. MaxTokenLength
    <3>1. tokens[i] \in TokenSet /\ i \in 1 .. Len(tokens)
      BY <2>2
    <3>2. /\ tokens[i].type \in {"ID", "NUMBER", "STRING", "SPECIAL"}
          /\ tokens[i].first \in Nat /\ tokens[i].length \in Nat
      BY <3>1 DEF TokenSet
    <3>3. /\ tokens[i].length <= MaxTokenLength
          /\ tokens[i].first + tokens[i].length <= sourceIt
      BY <3>1 DEF IInv, TokensRow, EndOf
    <3> QED
      BY <2>1, <3>2, <3>3, LexerAssumption
  <2> QED
    BY <2>1, <2>3 DEF TypeOK, IInv
<1> QED
  BY <1>1, LexerInvariant, PTL

(***************************************************************************)
(* Whatever spaces and comments lie between them, the tokens lie in the    *)
(* source one behind the other and hold exactly the characters that a      *)
(* reading from left to right takes for code or the contents of a string.  *)
(***************************************************************************)
THEOREM MeaningHeld == Spec => []TokensHoldMeaning
<1>1. IInv => TokensHoldMeaning
  <2> SUFFICES ASSUME IInv
               PROVE  TokensHoldMeaning
    OBVIOUS
  <2>1. Len(source) \in Nat /\ sourceIt \in 0 .. Len(source)
    BY SourcesAreTexts DEF IInv, IsText
  <2>2. tokens \in Seq(TokenSet) /\ DOMAIN tokens = 1 .. Len(tokens) /\ Len(tokens) \in Nat
    BY DEF IInv, TokensRow
  <2>3. ASSUME NEW i \in DOMAIN tokens
        PROVE  /\ tokens[i].length > 0 \/ tokens[i].type = "STRING"
               /\ i > 1 => EndOf(tokens[i - 1]) <= tokens[i].first
               /\ EndOf(tokens[i]) <= sourceIt
    <3>1. i \in 1 .. Len(tokens) /\ (i > 1 => i \in 2 .. Len(tokens))
      BY <2>2
    <3> QED
      BY <3>1 DEF IInv, TokensRow
  <2>4. ASSUME Done, ~failed
        PROVE  UNION {t.first .. EndOf(t) - 1 : t \in {tokens[i] : i \in DOMAIN tokens}}
                 = Meant(source)
    <3>1. sourceIt = Len(source)
      BY <2>1, <2>4 DEF Done, HasNextToken
    <3>2. \A p : p \in UNION {t.first .. EndOf(t) - 1 : t \in {tokens[i] : i \in DOMAIN tokens}}
                   <=> InToken(p)
      BY <2>2 DEF InToken
    <3>3. \A p : p \in Meant(source) => p \in 0 .. sourceIt - 1
      BY <3>1 DEF Meant
    <3>4. \A p : InToken(p) => p \in 0 .. sourceIt - 1
      <4> SUFFICES ASSUME NEW p, NEW i \in 1 .. Len(tokens),
                          p \in tokens[i].first .. EndOf(tokens[i]) - 1
                   PROVE  p \in 0 .. sourceIt - 1
        BY DEF InToken
      <4>1. tokens[i] \in TokenSet
        BY <2>2
      <4>2. tokens[i].first \in Nat /\ EndOf(tokens[i]) \in Nat
        BY <4>1 DEF TokenSet, EndOf
      <4>3. EndOf(tokens[i]) <= sourceIt
        BY <2>2, <2>3
      <4> QED
        BY <2>1, <4>2, <4>3
    <3>5. \A p \in 0 .. sourceIt - 1 : p \in Meant(source) <=> InToken(p)
      BY DEF IInv
    <3>6. \A p : p \in Meant(source) <=> InToken(p)
      BY <3>3, <3>4, <3>5
    <3> QED
      BY <3>2, <3>6
  <2> QED
    BY <2>3, <2>4 DEF TokensHoldMeaning
<1> QED
  BY <1>1, LexerInvariant, PTL

-----------------------------------------------------------------------------

\* At p there is something to skip.
AtLayout(text, p) ==
  CharAt(text, p) \in Spaces \/ IsComment(text, p, "/") \/ IsComment(text, p, "*")

(* skipSpaceAndComments stays inside the text and never goes back. *)
LEMMA SkipMoves ==
  ASSUME NEW text, IsText(text), NEW p \in 0 .. Len(text)
  PROVE  /\ SkipSpaceAndComments(text, p) \in p .. Len(text)
         /\ AtLayout(text, p) => SkipSpaceAndComments(text, p) \in p + 1 .. Len(text)
<1> DEFINE n == Len(text)
           To(q) == /\ SkipSpaceAndComments(text, q) \in q .. n
                    /\ AtLayout(text, q) => SkipSpaceAndComments(text, q) \in q + 1 .. n
           S == {k \in Nat : \A q \in 0 .. n : n - q = k => To(q)}
<1>1. n \in Nat
  BY DEF IsText
<1>2. ASSUME NEW k \in Nat, \A j \in 0 .. k - 1 : j \in S
      PROVE  k \in S
  <2> SUFFICES ASSUME NEW q \in 0 .. n, n - q = k
               PROVE  To(q)
    OBVIOUS
  <2>1. ASSUME NEW e \in q + 1 .. n,
               SkipSpaceAndComments(text, q) = SkipSpaceAndComments(text, e)
        PROVE  To(q)
    <3>1. n - e \in 0 .. k - 1 /\ e \in 0 .. n
      BY <1>1
    <3>2. n - e \in S
      BY <1>2, <3>1
    <3>3. SkipSpaceAndComments(text, e) \in e .. n
      BY <3>1, <3>2
    <3>4. SkipSpaceAndComments(text, q) \in q + 1 .. n
      BY <1>1, <2>1, <3>3
    <3>5. SkipSpaceAndComments(text, q) \in q .. n
      BY <1>1, <3>4
    <3> QED
      BY <3>4, <3>5
  <2> HIDE DEF To
  <2>2. CASE CharAt(text, q) \in Spaces
    <3>1. q + 1 \in q + 1 .. n
      BY <2>2, SkipGoesOn
    <3> QED
      BY <2>1, <2>2, <3>1, SkipIs
  <2>3. CASE CharAt(text, q) \notin Spaces /\ IsComment(text, q, "/")
    <3>1. EndOfSingleLineComment(text, q) \in q + 1 .. n
      BY <2>3, SkipGoesOn
    <3> QED
      BY <2>1, <2>3, <3>1, SkipIs
  <2>4. CASE CharAt(text, q) \notin Spaces /\ ~IsComment(text, q, "/") /\ IsComment(text, q, "*")
    <3>1. EndOfMultiLineComment(text, q) \in q + 1 .. n
      BY <2>4, SkipGoesOn
    <3> QED
      BY <2>1, <2>4, <3>1, SkipIs
  <2>5. CASE ~AtLayout(text, q)
    <3>1. SkipSpaceAndComments(text, q) = q
      BY <2>5, SkipIs DEF AtLayout
    <3> QED
      BY <1>1, <2>5, <3>1 DEF To
  <2> QED
    BY <2>2, <2>3, <2>4, <2>5 DEF AtLayout
<1>3. S = Nat
  <2>1. S \in SUBSET Nat
    OBVIOUS
  <2> HIDE DEF S
  <2> QED
    BY <1>2, <2>1, StrongInduction
<1>4. n - p \in S
  <2>1. n - p \in Nat
    BY <1>1
  <2> QED
    BY <1>3, <2>1
<1> QED
  BY <1>4

\* A token as it is cut at p, wherever p is.
Cut(text, p, t) ==
  /\ t \in TokenSet
  /\ ~IsRefused(text, t) =>
       Behind(t) \in p .. Len(text) /\ (Behind(t) = p => AtLayout(text, p))

(* Between two positions lies a token. *)
LEMMA CutBetween ==
  ASSUME NEW text, IsText(text), NEW p \in 0 .. Len(text), NEW q \in p .. Len(text),
         NEW type \in {"ID", "NUMBER", "SPECIAL"}, q = p => AtLayout(text, p)
  PROVE  Cut(text, p, Token(type, p, q))
<1> DEFINE t == Token(type, p, q)
<1>1. t.type = type /\ t.first = p /\ t.length = q - p /\ q - p \in Nat /\ p + (q - p) = q
  BY DEF Token, IsText
<1>2. EndOf(t) = q /\ Behind(t) = q
  BY <1>1 DEF EndOf, Behind, IsText
<1>3. t \in TokenSet
  BY <1>1 DEF TokenSet, Token, IsText
<1> HIDE DEF t
<1>4. Cut(text, p, t)
  BY <1>2, <1>3 DEF Cut
<1> QED
  BY <1>4 DEF t

(* What is cut from a text is a token, and it is empty only where there is layout. *)
LEMMA TokenAtCuts ==
  ASSUME NEW text, IsText(text), NEW p \in 0 .. Len(text) - 1
  PROVE  Cut(text, p, TokenAt(text, p))
<1> DEFINE n == Len(text)
           special == EndOfSpecial(text, p)
           quote == EndOfString(text, p)
           number == EndOfNumber(text, p)
           id == EndOfRun(text, p, IdSymbols)
<1>1. n \in Nat /\ p \in 0 .. n /\ p \in Nat /\ p + 1 <= n /\ p # n
  BY DEF IsText
<1>2. special \in p .. n /\ (special = n \/ EndsSpecial(text, special))
  BY <1>1, EndOfSpecialIs
<1>3. TokenAt(text, p) =
        IF special > p THEN Token("SPECIAL", p, special)
        ELSE IF BeginsNumber(text, p) THEN Token("NUMBER", p, number)
        ELSE IF CharAt(text, p) = Quote THEN Token("STRING", p + 1, quote)
        ELSE Token("ID", p, id)
  BY DEF TokenAt
<1> HIDE DEF special
<1>4. CASE special > p
  <2>1. Cut(text, p, Token("SPECIAL", p, special))
    BY <1>1, <1>2, <1>4, CutBetween
  <2> QED
    BY <1>3, <1>4, <2>1
<1>5. CASE ~(special > p) /\ BeginsNumber(text, p)
  <2>1. number \in p + 1 .. n
    BY <1>1, <1>5, EndOfNumberIs
  <2> HIDE DEF number
  <2>2. number \in p .. n /\ number # p
    BY <1>1, <2>1
  <2>3. Cut(text, p, Token("NUMBER", p, number))
    BY <1>1, <2>2, CutBetween
  <2> QED
    BY <1>3, <1>5, <2>3
<1>6. CASE ~(special > p) /\ ~BeginsNumber(text, p) /\ CharAt(text, p) = Quote
  <2> DEFINE t == Token("STRING", p + 1, quote)
  <2>1. quote \in p + 1 .. n
    BY <1>1, EndOfStringIs
  <2> HIDE DEF quote
  <2>2. /\ t.type = "STRING" /\ t.first = p + 1 /\ t.length = quote - (p + 1)
        /\ quote - (p + 1) \in Nat /\ (p + 1) + (quote - (p + 1)) = quote
    BY <1>1, <2>1 DEF Token
  <2>3. EndOf(t) = quote /\ Behind(t) = quote + 1
    BY <2>2 DEF EndOf, Behind
  <2>4. t \in TokenSet
    BY <1>1, <2>2 DEF TokenSet, Token
  <2> HIDE DEF t
  <2>5. ~IsRefused(text, t) => quote + 1 \in p .. n /\ quote + 1 # p
    BY <1>1, <2>1, <2>2, <2>3 DEF IsRefused
  <2>6. Cut(text, p, t)
    BY <2>3, <2>4, <2>5 DEF Cut
  <2> QED
    BY <1>3, <1>6, <2>6 DEF t
<1>7. CASE ~(special > p) /\ ~BeginsNumber(text, p) /\ CharAt(text, p) # Quote
  <2>1. EndsSpecial(text, p)
    BY <1>1, <1>2, <1>7
  <2>2. AtLayout(text, p) \/ CharAt(text, p) \in IdSymbols
    BY <1>7, <2>1 DEF EndsSpecial, AtLayout, IdSymbols
  <2>3. id \in p .. n /\ (id = n \/ CharAt(text, id) \notin IdSymbols)
    BY <1>1, EndOfRunIs
  <2> HIDE DEF id
  <2>4. id = p => AtLayout(text, p)
    BY <1>1, <2>2, <2>3
  <2>5. Cut(text, p, Token("ID", p, id))
    BY <1>1, <2>3, <2>4, CutBetween
  <2> QED
    BY <1>3, <1>7, <2>5
<1> QED
  BY <1>4, <1>5, <1>6, <1>7

(* The lexer moves on with every token it does not refuse. *)
LEMMA PositionMoves ==
  ASSUME NEW text, IsText(text), NEW p \in 0 .. Len(text) - 1,
         ~IsRefused(text, TokenAt(text, p))
  PROVE  PositionAfter(text, TokenAt(text, p)) \in p + 1 .. Len(text)
<1> DEFINE t == TokenAt(text, p)
           e == Behind(t)
<1>1. Len(text) \in Nat
  BY DEF IsText
<1>2. e \in p .. Len(text) /\ (e = p => AtLayout(text, p))
  BY TokenAtCuts DEF Cut
<1>3. PositionAfter(text, t) = SkipSpaceAndComments(text, e)
  BY DEF PositionAfter, Behind
<1> HIDE DEF t, e
<1>4. CASE e = p
  <2>1. SkipSpaceAndComments(text, p) \in p + 1 .. Len(text)
    BY <1>1, <1>2, <1>4, SkipMoves
  <2> QED
    BY <1>3, <1>4, <2>1 DEF t
<1>5. CASE e # p
  <2>1. e \in 0 .. Len(text) /\ e \in p + 1 .. Len(text)
    BY <1>1, <1>2, <1>5
  <2>2. SkipSpaceAndComments(text, e) \in e .. Len(text)
    BY <2>1, SkipMoves
  <2>3. SkipSpaceAndComments(text, e) \in p + 1 .. Len(text)
    BY <1>1, <2>1, <2>2
  <2> QED
    BY <1>3, <2>3 DEF t
<1> QED
  BY <1>4, <1>5

-----------------------------------------------------------------------------

\* Where the tokens end.
LastAt(text, p) == p = Len(text) \/ IsRefused(text, TokenAt(text, p))

\* The tokens from p on, when f tells those from the positions behind it.
CutFrom(text, p, f) ==
  IF LastAt(text, p) THEN <<>>
  ELSE <<TokenAt(text, p)>> \o f[PositionAfter(text, TokenAt(text, p))]

\* f has the tokens from a on and from each position behind a.
Cuts(text, a, f) == f = [p \in a .. Len(text) |-> CutFrom(text, p, f)]

(* The tokens from p on depend on what is behind p only. *)
LEMMA CutsAgree ==
  ASSUME NEW text, IsText(text), NEW p \in 0 .. Len(text), NEW f, NEW g,
         \A q \in p + 1 .. Len(text) : f[q] = g[q]
  PROVE  CutFrom(text, p, f) = CutFrom(text, p, g)
<1>1. CASE LastAt(text, p)
  BY <1>1 DEF CutFrom
<1>2. CASE ~LastAt(text, p)
  <2>1. p \in 0 .. Len(text) - 1 /\ ~IsRefused(text, TokenAt(text, p))
    BY <1>2 DEF LastAt, IsText
  <2>2. PositionAfter(text, TokenAt(text, p)) \in p + 1 .. Len(text)
    BY <2>1, PositionMoves
  <2> QED
    BY <2>2 DEF CutFrom
<1> QED
  BY <1>1, <1>2

(* Cutting ends from wherever it begins. *)
LEMMA CuttingExists ==
  ASSUME NEW text, IsText(text), NEW k \in Nat
  PROVE  k <= Len(text) => \E f : Cuts(text, Len(text) - k, f)
<1> DEFINE n == Len(text)
           S == {j \in Nat : j <= n => \E f : Cuts(text, n - j, f)}
<1>0. n \in Nat
  BY DEF IsText
<1>1. 0 \in S
  <2> DEFINE f == [p \in n - 0 .. n |-> <<>>]
  <2>1. \A p \in n - 0 .. n : p = n
    BY <1>0
  <2>2. f = [p \in n - 0 .. n |-> CutFrom(text, p, f)]
    <3> HIDE DEF f
    <3>1. \A p \in n - 0 .. n : CutFrom(text, p, f) = <<>>
      BY <2>1 DEF CutFrom, LastAt
    <3> QED
      BY <3>1 DEF f
  <2>3. Cuts(text, n - 0, f)
    BY <2>2 DEF Cuts
  <2> QED
    BY <2>3
<1>2. ASSUME NEW j \in S
      PROVE  j + 1 \in S
  <2> SUFFICES ASSUME j + 1 <= n
               PROVE  \E f : Cuts(text, n - (j + 1), f)
    OBVIOUS
  <2> DEFINE a == n - (j + 1)
  <2>1. a \in Nat /\ a + 1 = n - j /\ a + 1 <= n /\ j <= n
    BY <1>0
  <2>2. PICK f : Cuts(text, a + 1, f)
    BY <2>1
  <2> HIDE DEF a
  <2>3. PICK g : g = [p \in a .. n |-> CutFrom(text, p, f)]
    OBVIOUS
  <2>4. ASSUME NEW q \in a + 1 .. n
        PROVE  g[q] = f[q]
    <3>1. f[q] = CutFrom(text, q, f)
      BY <2>2 DEF Cuts
    <3>2. q \in a .. n
      BY <1>0, <2>1
    <3> QED
      BY <2>3, <3>1, <3>2
  <2>5. ASSUME NEW p \in a .. n
        PROVE  CutFrom(text, p, f) = CutFrom(text, p, g)
    <3>1. p \in 0 .. n /\ \A q \in p + 1 .. n : q \in a + 1 .. n
      BY <1>0, <2>1
    <3>2. \A q \in p + 1 .. n : f[q] = g[q]
      BY <2>4, <3>1
    <3> QED
      BY <3>1, <3>2, CutsAgree
  <2>6. g = [p \in a .. n |-> CutFrom(text, p, g)]
    BY <2>3, <2>5
  <2>7. Cuts(text, a, g)
    BY <2>6 DEF Cuts
  <2> QED
    BY <2>7 DEF a
<1>3. S = Nat
  <2>1. S \in SUBSET Nat
    OBVIOUS
  <2> HIDE DEF S
  <2> QED
    BY <1>1, <1>2, <2>1, StepInduction
<1> QED
  BY <1>3

(* The tokens from p on: one token, and those from the position behind it. *)
LEMMA TokensFromIs ==
  ASSUME NEW text, IsText(text), NEW p \in 0 .. Len(text)
  PROVE  TokensFrom(text, p) =
           IF LastAt(text, p) THEN <<>>
           ELSE <<TokenAt(text, p)>>
                  \o TokensFrom(text, PositionAfter(text, TokenAt(text, p)))
<1> DEFINE f == CHOOSE g : Cuts(text, 0, g)
<1>1. \A q : TokensFrom(text, q) = f[q]
  BY DEF TokensFrom, Cuts, CutFrom, LastAt
<1>2. Cuts(text, 0, f)
  <2>1. Len(text) \in Nat /\ Len(text) - Len(text) = 0 /\ Len(text) <= Len(text)
    BY DEF IsText
  <2>2. \E g : Cuts(text, Len(text) - Len(text), g)
    BY <2>1, CuttingExists
  <2> QED
    BY <2>1, <2>2
<1> HIDE DEF f
<1>3. f[p] = CutFrom(text, p, f)
  BY <1>2 DEF Cuts
<1> QED
  BY <1>1, <1>3 DEF CutFrom

(* They are a finite sequence of tokens, whatever the text. *)
LEMMA TokensFromTyped ==
  ASSUME NEW text, IsText(text), NEW p \in 0 .. Len(text)
  PROVE  TokensFrom(text, p) \in Seq(TokenSet)
<1> DEFINE n == Len(text)
           S == {k \in Nat : \A q \in 0 .. n : n - q = k => TokensFrom(text, q) \in Seq(TokenSet)}
<1>1. n \in Nat
  BY DEF IsText
<1>2. ASSUME NEW k \in Nat, \A j \in 0 .. k - 1 : j \in S
      PROVE  k \in S
  <2> SUFFICES ASSUME NEW q \in 0 .. n, n - q = k
               PROVE  TokensFrom(text, q) \in Seq(TokenSet)
    OBVIOUS
  <2>1. CASE LastAt(text, q)
    <3>1. TokensFrom(text, q) = <<>>
      BY <2>1, TokensFromIs
    <3> QED
      BY <3>1
  <2>2. CASE ~LastAt(text, q)
    <3> DEFINE t == TokenAt(text, q)
               e == PositionAfter(text, t)
               rest == TokensFrom(text, e)
    <3>1. q \in 0 .. n - 1 /\ ~IsRefused(text, t)
      BY <1>1, <2>2 DEF LastAt
    <3>2. e \in q + 1 .. n
      BY <3>1, PositionMoves
    <3>3. t \in TokenSet
      BY <3>1, TokenAtCuts DEF Cut
    <3>4. TokensFrom(text, q) = <<t>> \o rest
      BY <2>2, TokensFromIs
    <3> HIDE DEF t, e
    <3>5. n - e \in 0 .. k - 1 /\ e \in 0 .. n
      BY <1>1, <3>2
    <3>6. n - e \in S
      BY <1>2, <3>5
    <3>7. rest \in Seq(TokenSet)
      BY <3>5, <3>6
    <3> HIDE DEF rest
    <3> QED
      BY <3>3, <3>4, <3>7
  <2> QED
    BY <2>1, <2>2
<1>3. S = Nat
  <2>1. S \in SUBSET Nat
    OBVIOUS
  <2> HIDE DEF S
  <2> QED
    BY <1>2, <2>1, StrongInduction
<1>4. n - p \in S
  <2>1. n - p \in Nat
    BY <1>1
  <2> QED
    BY <1>3, <2>1
<1> QED
  BY <1>4

(* What the parser is given of a text is a finite sequence of tokens. *)
LEMMA TokensTyped ==
  ASSUME NEW text, IsText(text)
  PROVE  Tokens(text) \in Seq(TokenSet)
<1>1. SkipSpaceAndComments(text, 0) \in 0 .. Len(text)
  BY SkipMoves DEF IsText
<1> QED
  BY <1>1, TokensFromTyped DEF Tokens

-----------------------------------------------------------------------------

\* The tokens so far and those to come are those of the source.
Collected ==
  /\ tokens \o TokensFrom(source, sourceIt) = Tokens(source)
  /\ failed => IsRefused(source, TokenAt(source, sourceIt))

\* A lexer that is at its end has made the tokens the parser works with.
CollectsTokens == Done => tokens = Tokens(source)

(* At the beginning all tokens are to come. *)
LEMMA InitCollected ==
  ASSUME Init
  PROVE  Collected
<1>1. source \in Sources /\ tokens = <<>> /\ failed = FALSE
      /\ sourceIt = SkipSpaceAndComments(source, 0)
  BY DEF Init
<1>2. Tokens(source) \in Seq(TokenSet) /\ Tokens(source) = TokensFrom(source, sourceIt)
  BY <1>1, SourcesAreTexts, TokensTyped DEF Tokens
<1>3. <<>> \o Tokens(source) = Tokens(source)
  BY <1>2, ConcatEmptySeq
<1> QED
  BY <1>1, <1>2, <1>3 DEF Collected

(* A call takes the first of the tokens to come, or fails where they end. *)
LEMMA NextCollected ==
  ASSUME IInv, Collected, [Next]_vars
  PROVE  Collected'
<1>1. CASE GetNextToken
  <2> DEFINE t == TokenAt(source, sourceIt)
             e == PositionAfter(source, t)
             rest == TokensFrom(source, e)
  <2>1. source' = source /\ sourceIt < Len(source) /\ failed = FALSE
    BY <1>1 DEF GetNextToken, HasNextToken, IInv
  <2>2. IsText(source) /\ sourceIt \in 0 .. Len(source) - 1 /\ sourceIt \in 0 .. Len(source)
    <3>1. source \in Sources /\ sourceIt \in 0 .. Len(source)
      BY DEF IInv
    <3>2. IsText(source) /\ Len(source) \in Nat
      BY <3>1, SourcesAreTexts DEF IsText
    <3> QED
      BY <2>1, <3>1, <3>2
  <2>3. CASE IsRefused(source, t)
    <3>1. UNCHANGED <<source, sourceIt, tokens>>
      BY <1>1, <2>3 DEF GetNextToken
    <3> QED
      BY <2>3, <3>1 DEF Collected
  <2>4. CASE ~IsRefused(source, t)
    <3>1. tokens' = Append(tokens, t) /\ sourceIt' = e /\ failed' = FALSE
      BY <1>1, <2>1, <2>4 DEF GetNextToken
    <3>2. t \in TokenSet /\ e \in sourceIt + 1 .. Len(source)
      BY <2>2, <2>4, TokenAtCuts, PositionMoves DEF Cut
    <3>3. TokensFrom(source, sourceIt) = <<t>> \o rest
      BY <2>1, <2>2, <2>4, TokensFromIs DEF LastAt
    <3> HIDE DEF t, e
    <3>4. rest \in Seq(TokenSet)
      <4>1. e \in 0 .. Len(source)
        BY <2>2, <3>2 DEF IsText
      <4> QED
        BY <2>2, <4>1, TokensFromTyped
    <3> HIDE DEF rest
    <3>5. tokens \in Seq(TokenSet) /\ <<t>> \in Seq(TokenSet)
      BY <3>2 DEF IInv, TokensRow
    <3>6. (tokens \o <<t>>) \o rest = tokens \o (<<t>> \o rest)
      BY <3>4, <3>5, ConcatAssociative
    <3>7. tokens' = tokens \o <<t>>
      BY <3>1, <3>2, <3>5, AppendIsConcat
    <3>8. tokens' \o rest = Tokens(source)
      BY <3>3, <3>6, <3>7 DEF Collected
    <3>9. TokensFrom(source', sourceIt') = rest
      BY <2>1, <3>1 DEF rest
    <3>10. tokens' \o TokensFrom(source', sourceIt') = Tokens(source')
      BY <2>1, <3>8, <3>9
    <3> QED
      BY <3>1, <3>10 DEF Collected
  <2> QED
    BY <2>3, <2>4
<1>2. CASE UNCHANGED vars
  BY <1>2 DEF vars, Collected
<1> QED
  BY <1>1, <1>2 DEF Next

(***************************************************************************)
(* The tokens that calls of get_next_token collect until there is no more, *)
(* or one is refused, are those that Tokens has at once: what the models   *)
(* behind the lexer work with is what the lexer does.                      *)
(***************************************************************************)
THEOREM TokensCollected == Spec => []CollectsTokens
<1>1. Init => Collected
  BY InitCollected
<1>2. IInv /\ Collected /\ [Next]_vars => Collected'
  BY NextCollected
<1>3. IInv /\ Collected => CollectsTokens
  <2> SUFFICES ASSUME IInv, Collected, Done
               PROVE  tokens = Tokens(source)
    BY DEF CollectsTokens
  <2>1. /\ IsText(source) /\ Len(source) \in Nat /\ sourceIt \in 0 .. Len(source)
        /\ tokens \in Seq(TokenSet)
    BY SourcesAreTexts DEF IInv, TokensRow, IsText
  <2>2. LastAt(source, sourceIt)
    BY <2>1 DEF Done, HasNextToken, Collected, LastAt
  <2>3. TokensFrom(source, sourceIt) = <<>>
    BY <2>1, <2>2, TokensFromIs
  <2>4. tokens \o <<>> = tokens
    BY <2>1, ConcatEmptySeq
  <2> QED
    BY <2>3, <2>4 DEF Collected
<1> QED
  BY <1>1, <1>2, <1>3, LexerInvariant, PTL DEF Spec

=============================================================================
