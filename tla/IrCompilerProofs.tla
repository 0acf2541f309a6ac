-------------------------- MODULE IrCompilerProofs --------------------------
(***************************************************************************)
(* Machine-checked proofs about IrCompiler, for every well-formed function *)
(* and every length its instructions may have: the jumps of the code lead  *)
(* where the function says, and the processor stays on the code.           *)
(***************************************************************************)
EXTENDS IrCompiler, ProofLemmas

Kinds == {"body", "branch", "jump"}
Phases == {"emit", "patch", "run", "halted"}

\* The instructions a buffer may hold, patched or not.
PlacedInstruction ==
  [at : Nat, size : Nat \ {0}, kind : Kinds, op : Nat, distance : Int \cup {Garbage}]

JumpInfos == [from : Nat, to : 1 .. Len(ops)]

(***************************************************************************)
(* Types of the fields of the compiler; the offset map has an entry for    *)
(* each operation that is in the buffer.                                   *)
(***************************************************************************)
Typed ==
  /\ WellFormed(ops)
  /\ emitted \in 0 .. Len(ops)
  /\ length \in Nat
  /\ code \in Seq(PlacedInstruction)
  /\ offsetOf \in Seq(Nat) /\ Len(offsetOf) = emitted
  /\ jumps \in Seq(JumpInfos)
  /\ patched \in 0 .. Len(jumps)
  /\ phase \in Phases
  /\ phase # "emit" => emitted = Len(ops)
  /\ phase = "emit" => patched = 0
  /\ phase \in {"run", "halted"} => patched = Len(jumps)

\* The bytes of operation i end where the next one begins.
EndOf(i) == IF i = emitted THEN length ELSE offsetOf[i + 1]

(***************************************************************************)
(* Every jump in the buffer is in the list of jumps, with the place behind *)
(* it and the operation it goes to, and it has its distance once the loop  *)
(* is past its entry.                                                      *)
(***************************************************************************)
JumpsListed ==
  \A k \in DOMAIN code : code[k].kind # "body" =>
    \E j \in DOMAIN jumps :
      /\ jumps[j] = JumpInfo(End(code[k]), Target(k))
      /\ j <= patched => code[k].distance = Distance(jumps[j])

\* The list names one successor for each place, and all are in the buffer.
JumpsApart ==
  /\ \A j \in DOMAIN jumps : jumps[j].from <= length
  /\ \A i, j \in DOMAIN jumps :
       jumps[i].from = jumps[j].from => jumps[i].to = jumps[j].to

\* An operation whose successor does not come next has its jump.
JumpsPresent ==
  \A i \in 1 .. emitted :
    NeedsJump(i) => \E k \in DOMAIN code : code[k].op = i /\ code[k].kind = "jump"

(***************************************************************************)
(* An operation takes no bytes and has no instructions, or its last        *)
(* instruction ends where it ends.                                         *)
(***************************************************************************)
OperationsClosed ==
  \A i \in 1 .. emitted :
    \/ /\ EndOf(i) = offsetOf[i]
       /\ \A k \in DOMAIN code : code[k].op # i
    \/ \E k \in DOMAIN code : code[k].op = i /\ End(code[k]) = EndOf(i)

(***************************************************************************)
(* Every instruction belongs to an operation in the buffer that needs it.  *)
(***************************************************************************)
InstructionsMeant ==
  \A k \in DOMAIN code :
    /\ code[k].op \in 1 .. emitted
    /\ code[k].kind = "branch" => IsBranch(code[k].op)
    /\ code[k].kind = "jump" => NeedsJump(code[k].op)

(***************************************************************************)
(* The first operation is behind the header, and each operation begins     *)
(* with an instruction unless it has none.                                 *)
(***************************************************************************)
OperationsBegin ==
  /\ emitted > 0 => offsetOf[1] = HeaderSize
  /\ emitted = 0 => length = HeaderSize
  /\ \A i \in 1 .. emitted :
       \/ \E k \in DOMAIN code : code[k].at = offsetOf[i]
       \/ /\ EndOf(i) = offsetOf[i]
          /\ ops[i].code = "none" /\ ~NeedsJump(i)

(***************************************************************************)
(* Behind an instruction that may be passed comes another, or the end of   *)
(* its operation.                                                          *)
(***************************************************************************)
InstructionsRow ==
  \A k \in DOMAIN code :
    \/ code[k].kind = "jump"
    \/ \E l \in DOMAIN code : code[l].at = End(code[k])
    \/ End(code[k]) = EndOf(code[k].op) /\ ~NeedsJump(code[k].op)

(***************************************************************************)
(* While the code runs, the processor is at the first byte of one of its   *)
(* instructions: it never jumps between them and never runs off the end.   *)
(***************************************************************************)
ProcessorOnCode ==
  phase = "run" => \E k \in DOMAIN code : code[k].at = pc

IInv ==
  /\ Typed
  /\ JumpsListed /\ JumpsApart /\ JumpsPresent /\ OperationsClosed
  /\ InstructionsMeant /\ OperationsBegin /\ InstructionsRow
  /\ ProcessorOnCode

-----------------------------------------------------------------------------

(* The length, the domain and the elements of a sequence over S. *)
LEMMA SequenceFacts ==
  ASSUME NEW S, NEW s \in Seq(S)
  PROVE  /\ Len(s) \in Nat
         /\ DOMAIN s = 1 .. Len(s)
         /\ \A k \in DOMAIN s : s[k] \in S
OBVIOUS

(* An item that is there is the only element, and one that is not is none. *)
LEMMA OptionalFacts ==
  ASSUME NEW S, NEW present \in BOOLEAN, NEW e, present => e \in S
  PROVE  /\ Optional(present, e) \in Seq(S)
         /\ \A m \in DOMAIN Optional(present, e) : present /\ Optional(present, e)[m] = e
         /\ present => 1 \in DOMAIN Optional(present, e) /\ Optional(present, e)[1] = e
<1>1. CASE present
  <2>1. Optional(present, e) = <<e>>
    BY <1>1 DEF Optional
  <2>2. <<e>> \in Seq(S) /\ DOMAIN <<e>> = {1} /\ <<e>>[1] = e
    BY <1>1
  <2> QED
    BY <1>1, <2>1, <2>2
<1>2. CASE ~present
  <2>1. Optional(present, e) = <<>>
    BY <1>2 DEF Optional
  <2>2. <<>> \in Seq(S) /\ DOMAIN <<>> = {}
    OBVIOUS
  <2> QED
    BY <1>2, <2>1, <2>2
<1> QED
  BY <1>1, <1>2

\* Joining two sequences, as an operator the provers do not look into.
Join(s, x) == s \o x

\* t is s and, behind it, what x holds.
Joined(S, s, x, t) ==
  /\ t \in Seq(S)
  /\ Len(t) >= Len(s)
  /\ \A k \in DOMAIN s : k \in DOMAIN t /\ t[k] = s[k]
  /\ \A k \in DOMAIN t : k \notin DOMAIN s => \E m \in DOMAIN x : t[k] = x[m]
  /\ \A m \in DOMAIN x : \E k \in DOMAIN t : t[k] = x[m]

(* What joining two sequences keeps of both. *)
LEMMA JoinFacts ==
  ASSUME NEW S, NEW s \in Seq(S), NEW x \in Seq(S)
  PROVE  Joined(S, s, x, Join(s, x))
<1> DEFINE t == s \o x
<1>1. /\ t \in Seq(S)
      /\ Len(t) = Len(s) + Len(x)
      /\ \A k \in 1 .. Len(s) + Len(x) :
           t[k] = IF k <= Len(s) THEN s[k] ELSE x[k - Len(s)]
  BY ConcatProperties
<1> HIDE DEF t
<1>2. /\ Len(s) \in Nat /\ Len(x) \in Nat /\ Len(t) \in Nat
      /\ DOMAIN s = 1 .. Len(s) /\ DOMAIN x = 1 .. Len(x) /\ DOMAIN t = 1 .. Len(t)
  BY <1>1, LenProperties
<1>3. Len(t) >= Len(s) /\ \A k \in DOMAIN s : k \in DOMAIN t /\ t[k] = s[k]
  BY <1>1, <1>2
<1>4. ASSUME NEW k \in DOMAIN t, k \notin DOMAIN s
      PROVE  \E m \in DOMAIN x : t[k] = x[m]
  <2>1. k - Len(s) \in DOMAIN x /\ t[k] = x[k - Len(s)]
    BY <1>1, <1>2, <1>4
  <2> QED
    BY <2>1
<1>5. ASSUME NEW m \in DOMAIN x
      PROVE  \E k \in DOMAIN t : t[k] = x[m]
  <2>1. m + Len(s) \in DOMAIN t /\ t[m + Len(s)] = x[m]
    BY <1>1, <1>2
  <2> QED
    BY <2>1
<1>6. Join(s, x) = t
  BY DEF t, Join
<1> QED
  BY <1>1, <1>3, <1>4, <1>5, <1>6 DEF Joined

(* What Append does to a sequence. *)
LEMMA Appended ==
  ASSUME NEW S, NEW s \in Seq(S), NEW e \in S, NEW t, t = Append(s, e)
  PROVE  /\ t \in Seq(S)
         /\ Len(s) \in Nat
         /\ Len(t) = Len(s) + 1
         /\ \A k \in 1 .. Len(s) : t[k] = s[k]
         /\ t[Len(s) + 1] = e
OBVIOUS

-----------------------------------------------------------------------------

(* The invariant holds before the first operation is in the buffer. *)
LEMMA InitIInv == Init => IInv
<1> SUFFICES ASSUME Init
             PROVE  IInv
  OBVIOUS
<1> USE CompilerAssumption DEF Init
<1>1. Len(ops) \in Nat
  BY DEF WellFormed
<1>2. Typed
  <2>1. code \in Seq(PlacedInstruction) /\ offsetOf \in Seq(Nat) /\ jumps \in Seq(JumpInfos)
    OBVIOUS
  <2>2. Len(offsetOf) = 0 /\ Len(jumps) = 0
    OBVIOUS
  <2> QED
    BY <1>1, <2>1, <2>2 DEF Typed, Phases
<1>3. DOMAIN code = {} /\ DOMAIN jumps = {} /\ 1 .. emitted = {}
  OBVIOUS
<1>4. JumpsListed /\ JumpsApart /\ InstructionsMeant /\ InstructionsRow
  BY <1>3 DEF JumpsListed, JumpsApart, InstructionsMeant, InstructionsRow
<1>5. JumpsPresent /\ OperationsClosed /\ OperationsBegin
  BY <1>3 DEF JumpsPresent, OperationsClosed, OperationsBegin
<1>6. ProcessorOnCode
  BY DEF ProcessorOnCode
<1> QED
  BY <1>2, <1>4, <1>5, <1>6 DEF IInv

(***************************************************************************)
(* The code and the list of jumps that Emit leaves when the instructions   *)
(* of operation i take size bytes.                                         *)
(***************************************************************************)
Body(i, size) == Instruction(length, size, "body", i)
Branch(i, size) == Instruction(length + size, BranchSize, "branch", i)
Jump(i, size) == Instruction(BranchEnd(i, length + size), JumpSize, "jump", i)

CodeWith(i, size) ==
  Join(Join(Join(code, Optional(size > 0, Body(i, size))),
            Optional(IsBranch(i), Branch(i, size))),
       Optional(NeedsJump(i), Jump(i, size)))

BranchInfo(i, size) == JumpInfo(BranchEnd(i, length + size), ops[i].extra)
ExitInfo(i, size) == JumpInfo(OperationEnd(i, length + size), ops[i].main)

JumpsWith(i, size) ==
  Join(Join(jumps, Optional(IsBranch(i), BranchInfo(i, size))),
       Optional(NeedsJump(i), ExitInfo(i, size)))

(* The places inside an operation of that length, in order. *)
LEMMA EmittedPlaces ==
  ASSUME Typed, NEW i \in 1 .. Len(ops), NEW size \in BodySizes[ops[i].code]
  PROVE  /\ size \in Nat
         /\ size = 0 <=> ops[i].code = "none"
         /\ BranchEnd(i, length + size) \in Nat
         /\ IsBranch(i) => BranchEnd(i, length + size) = length + size + BranchSize
         /\ ~IsBranch(i) => BranchEnd(i, length + size) = length + size
         /\ OperationEnd(i, length + size) \in Nat
         /\ NeedsJump(i) =>
              OperationEnd(i, length + size) = BranchEnd(i, length + size) + JumpSize
         /\ ~NeedsJump(i) =>
              OperationEnd(i, length + size) = BranchEnd(i, length + size)
<1> USE CompilerAssumption
<1>1. ops[i].code \in Code
  BY DEF Typed, WellFormed
<1>2. size \in Nat /\ (size = 0 <=> ops[i].code = "none")
  BY <1>1
<1>3. length + size \in Nat
  BY <1>2 DEF Typed
<1> DEFINE body == length + size
<1>4. body \in Nat
  BY <1>3
<1> HIDE DEF body
<1>5. /\ IsBranch(i) => BranchEnd(i, body) = body + BranchSize
      /\ ~IsBranch(i) => BranchEnd(i, body) = body
  BY <1>4 DEF BranchEnd
<1>6. BranchEnd(i, body) \in Nat
  BY <1>4, <1>5
<1>7. /\ NeedsJump(i) => OperationEnd(i, body) = BranchEnd(i, body) + JumpSize
      /\ ~NeedsJump(i) => OperationEnd(i, body) = BranchEnd(i, body)
  <2>1. OperationEnd(i, body) = BranchEnd(i, body) + (IF NeedsJump(i) THEN JumpSize ELSE 0)
    BY DEF OperationEnd
  <2> QED
    BY <1>6, <2>1
<1>8. OperationEnd(i, body) \in Nat
  BY <1>6, <1>7
<1> QED
  BY <1>2, <1>5, <1>6, <1>7, <1>8 DEF body

(***************************************************************************)
(* What was there is still there, and each instruction of the operation    *)
(* is there if it is needed.                                               *)
(***************************************************************************)
LEMMA EmittedCode ==
  ASSUME Typed, NEW i \in 1 .. Len(ops), NEW size \in BodySizes[ops[i].code]
  PROVE  /\ CodeWith(i, size) \in Seq(PlacedInstruction)
         /\ \A k \in DOMAIN code :
              k \in DOMAIN CodeWith(i, size) /\ CodeWith(i, size)[k] = code[k]
         /\ \A k \in DOMAIN CodeWith(i, size) :
              \/ k \in DOMAIN code /\ CodeWith(i, size)[k] = code[k]
              \/ size > 0 /\ CodeWith(i, size)[k] = Body(i, size)
              \/ IsBranch(i) /\ CodeWith(i, size)[k] = Branch(i, size)
              \/ NeedsJump(i) /\ CodeWith(i, size)[k] = Jump(i, size)
         /\ size > 0 =>
              \E k \in DOMAIN CodeWith(i, size) : CodeWith(i, size)[k] = Body(i, size)
         /\ IsBranch(i) =>
              \E k \in DOMAIN CodeWith(i, size) : CodeWith(i, size)[k] = Branch(i, size)
         /\ NeedsJump(i) =>
              \E k \in DOMAIN CodeWith(i, size) : CodeWith(i, size)[k] = Jump(i, size)
<1> USE CompilerAssumption
<1>1. i \in Nat /\ length \in Nat
  BY DEF Typed
<1>2. /\ size \in Nat /\ length + size \in Nat
      /\ BranchEnd(i, length + size) \in Nat
  BY <1>1, EmittedPlaces
<1> DEFINE first == Body(i, size)
           second == Branch(i, size)
           third == Jump(i, size)
           p1 == size > 0
           p2 == IsBranch(i)
           p3 == NeedsJump(i)
           x1 == Optional(p1, first)
           x2 == Optional(p2, second)
           x3 == Optional(p3, third)
           c1 == Join(code, x1)
           c2 == Join(c1, x2)
           c3 == Join(c2, x3)
<1>10. /\ p1 => first \in PlacedInstruction
       /\ second \in PlacedInstruction
       /\ third \in PlacedInstruction
  BY <1>1, <1>2 DEF PlacedInstruction, Instruction, Kinds, Body, Branch, Jump
<1>11. CodeWith(i, size) = c3
  BY DEF CodeWith
<1>12. p1 \in BOOLEAN /\ p2 \in BOOLEAN /\ p3 \in BOOLEAN
  BY <1>2 DEF IsBranch, NeedsJump
<1>13. code \in Seq(PlacedInstruction)
  BY DEF Typed
<1> HIDE DEF first, second, third, p1, p2, p3
<1>14. /\ x1 \in Seq(PlacedInstruction)
       /\ \A m \in DOMAIN x1 : p1 /\ x1[m] = first
       /\ p1 => 1 \in DOMAIN x1 /\ x1[1] = first
  BY <1>10, <1>12, OptionalFacts
<1>15. x1 \in Seq(PlacedInstruction)
  BY <1>14
<1> HIDE DEF x1
<1>16. /\ c1 \in Seq(PlacedInstruction)
       /\ Len(c1) >= Len(code)
       /\ \A k \in DOMAIN code : k \in DOMAIN c1 /\ c1[k] = code[k]
       /\ \A k \in DOMAIN c1 :
            k \notin DOMAIN code => \E m \in DOMAIN x1 : c1[k] = x1[m]
       /\ \A m \in DOMAIN x1 : \E k \in DOMAIN c1 : c1[k] = x1[m]
  <2>1. Joined(PlacedInstruction, code, x1, c1)
    BY <1>13, <1>15, JoinFacts
  <2> QED
    BY <2>1 DEF Joined
<1>17. c1 \in Seq(PlacedInstruction)
  BY <1>16
<1> HIDE DEF c1
<1>18. /\ x2 \in Seq(PlacedInstruction)
       /\ \A m \in DOMAIN x2 : p2 /\ x2[m] = second
       /\ p2 => 1 \in DOMAIN x2 /\ x2[1] = second
  BY <1>10, <1>12, OptionalFacts
<1>19. x2 \in Seq(PlacedInstruction)
  BY <1>18
<1> HIDE DEF x2
<1>20. /\ c2 \in Seq(PlacedInstruction)
       /\ Len(c2) >= Len(c1)
       /\ \A k \in DOMAIN c1 : k \in DOMAIN c2 /\ c2[k] = c1[k]
       /\ \A k \in DOMAIN c2 :
            k \notin DOMAIN c1 => \E m \in DOMAIN x2 : c2[k] = x2[m]
       /\ \A m \in DOMAIN x2 : \E k \in DOMAIN c2 : c2[k] = x2[m]
  <2>1. Joined(PlacedInstruction, c1, x2, c2)
    BY <1>17, <1>19, JoinFacts
  <2> QED
    BY <2>1 DEF Joined
<1>21. c2 \in Seq(PlacedInstruction)
  BY <1>20
<1> HIDE DEF c2
<1>22. /\ x3 \in Seq(PlacedInstruction)
       /\ \A m \in DOMAIN x3 : p3 /\ x3[m] = third
       /\ p3 => 1 \in DOMAIN x3 /\ x3[1] = third
  BY <1>10, <1>12, OptionalFacts
<1>23. x3 \in Seq(PlacedInstruction)
  BY <1>22
<1> HIDE DEF x3
<1>24. /\ c3 \in Seq(PlacedInstruction)
       /\ Len(c3) >= Len(c2)
       /\ \A k \in DOMAIN c2 : k \in DOMAIN c3 /\ c3[k] = c2[k]
       /\ \A k \in DOMAIN c3 :
            k \notin DOMAIN c2 => \E m \in DOMAIN x3 : c3[k] = x3[m]
       /\ \A m \in DOMAIN x3 : \E k \in DOMAIN c3 : c3[k] = x3[m]
  <2>1. Joined(PlacedInstruction, c2, x3, c3)
    BY <1>21, <1>23, JoinFacts
  <2> QED
    BY <2>1 DEF Joined
<1>25. c3 \in Seq(PlacedInstruction)
  BY <1>24
<1> HIDE DEF c3
<1>26. /\ \A k \in DOMAIN code : k \in DOMAIN c3 /\ c3[k] = code[k]
       /\ \A k \in DOMAIN c3 :
            \/ k \in DOMAIN code /\ c3[k] = code[k]
            \/ p1 /\ c3[k] = first
            \/ p2 /\ c3[k] = second
            \/ p3 /\ c3[k] = third
       /\ p1 => \E k \in DOMAIN c3 : c3[k] = first
       /\ p2 => \E k \in DOMAIN c3 : c3[k] = second
       /\ p3 => \E k \in DOMAIN c3 : c3[k] = third
  <2>1. \A k \in DOMAIN c1 : k \notin DOMAIN code => p1 /\ c1[k] = first
    BY <1>14, <1>16
  <2>2. \A k \in DOMAIN c2 : k \notin DOMAIN c1 => p2 /\ c2[k] = second
    BY <1>18, <1>20
  <2>3. \A k \in DOMAIN c3 : k \notin DOMAIN c2 => p3 /\ c3[k] = third
    BY <1>22, <1>24
  <2>4. \A k \in DOMAIN code : k \in DOMAIN c3 /\ c3[k] = code[k]
    BY <1>16, <1>20, <1>24
  <2>5. ASSUME NEW k \in DOMAIN c3
        PROVE  \/ k \in DOMAIN code /\ c3[k] = code[k]
               \/ p1 /\ c3[k] = first
               \/ p2 /\ c3[k] = second
               \/ p3 /\ c3[k] = third
    BY <1>16, <1>20, <1>24, <2>1, <2>2, <2>3
  <2>6. p1 => \E k \in DOMAIN c3 : c3[k] = first
    BY <1>14, <1>16, <1>20, <1>24
  <2>7. p2 => \E k \in DOMAIN c3 : c3[k] = second
    BY <1>18, <1>20, <1>24
  <2>8. p3 => \E k \in DOMAIN c3 : c3[k] = third
    BY <1>22, <1>24
  <2> QED
    BY <2>4, <2>5, <2>6, <2>7, <2>8
<1> QED
  BY <1>11, <1>25, <1>26 DEF first, second, third, p1, p2, p3

(* The list of jumps that Emit leaves. *)
LEMMA EmittedJumps ==
  ASSUME Typed, NEW i \in 1 .. Len(ops), NEW size,
         BranchEnd(i, length + size) \in Nat, OperationEnd(i, length + size) \in Nat
  PROVE  /\ JumpsWith(i, size) \in Seq(JumpInfos)
         /\ Len(JumpsWith(i, size)) >= Len(jumps)
         /\ \A j \in DOMAIN jumps :
              j \in DOMAIN JumpsWith(i, size) /\ JumpsWith(i, size)[j] = jumps[j]
         /\ \A j \in DOMAIN JumpsWith(i, size) :
              \/ j \in DOMAIN jumps /\ JumpsWith(i, size)[j] = jumps[j]
              \/ IsBranch(i) /\ JumpsWith(i, size)[j] = BranchInfo(i, size)
              \/ NeedsJump(i) /\ JumpsWith(i, size)[j] = ExitInfo(i, size)
         /\ IsBranch(i) =>
              \E j \in DOMAIN JumpsWith(i, size) : JumpsWith(i, size)[j] = BranchInfo(i, size)
         /\ NeedsJump(i) =>
              \E j \in DOMAIN JumpsWith(i, size) : JumpsWith(i, size)[j] = ExitInfo(i, size)
<1> DEFINE first == BranchInfo(i, size)
           second == ExitInfo(i, size)
           p1 == IsBranch(i)
           p2 == NeedsJump(i)
           x1 == Optional(p1, first)
           x2 == Optional(p2, second)
           j1 == Join(jumps, x1)
           j2 == Join(j1, x2)
<1>1. jumps \in Seq(JumpInfos)
  BY DEF Typed
<1>2. p1 => first \in JumpInfos
  BY DEF JumpInfos, JumpInfo, BranchInfo, IsBranch, Typed, WellFormed, NULL
<1>3. p2 => second \in JumpInfos
  BY DEF JumpInfos, JumpInfo, ExitInfo, NeedsJump, Typed, WellFormed, NULL
<1>4. p1 \in BOOLEAN /\ p2 \in BOOLEAN
  BY DEF IsBranch, NeedsJump
<1>5. JumpsWith(i, size) = j2
  BY DEF JumpsWith
<1> HIDE DEF first, second, p1, p2
<1>6. /\ x1 \in Seq(JumpInfos)
      /\ \A m \in DOMAIN x1 : p1 /\ x1[m] = first
      /\ p1 => 1 \in DOMAIN x1 /\ x1[1] = first
  BY <1>2, <1>4, OptionalFacts
<1>7. x1 \in Seq(JumpInfos)
  BY <1>6
<1> HIDE DEF x1
<1>8. /\ j1 \in Seq(JumpInfos)
      /\ Len(j1) >= Len(jumps)
      /\ \A k \in DOMAIN jumps : k \in DOMAIN j1 /\ j1[k] = jumps[k]
      /\ \A k \in DOMAIN j1 :
           k \notin DOMAIN jumps => \E m \in DOMAIN x1 : j1[k] = x1[m]
      /\ \A m \in DOMAIN x1 : \E k \in DOMAIN j1 : j1[k] = x1[m]
  <2>1. Joined(JumpInfos, jumps, x1, j1)
    BY <1>1, <1>7, JoinFacts
  <2> QED
    BY <2>1 DEF Joined
<1>9. j1 \in Seq(JumpInfos)
  BY <1>8
<1> HIDE DEF j1
<1>10. /\ x2 \in Seq(JumpInfos)
       /\ \A m \in DOMAIN x2 : p2 /\ x2[m] = second
       /\ p2 => 1 \in DOMAIN x2 /\ x2[1] = second
  BY <1>3, <1>4, OptionalFacts
<1>11. x2 \in Seq(JumpInfos)
  BY <1>10
<1> HIDE DEF x2
<1>12. /\ j2 \in Seq(JumpInfos)
       /\ Len(j2) >= Len(j1)
       /\ \A k \in DOMAIN j1 : k \in DOMAIN j2 /\ j2[k] = j1[k]
       /\ \A k \in DOMAIN j2 :
            k \notin DOMAIN j1 => \E m \in DOMAIN x2 : j2[k] = x2[m]
       /\ \A m \in DOMAIN x2 : \E k \in DOMAIN j2 : j2[k] = x2[m]
  <2>1. Joined(JumpInfos, j1, x2, j2)
    BY <1>9, <1>11, JoinFacts
  <2> QED
    BY <2>1 DEF Joined
<1>13. j2 \in Seq(JumpInfos)
  BY <1>12
<1> HIDE DEF j2
<1>14. Len(j2) \in Nat /\ Len(j1) \in Nat /\ Len(jumps) \in Nat
  BY <1>1, <1>9, <1>13, SequenceFacts
<1>15. Len(j2) >= Len(jumps)
  BY <1>8, <1>12, <1>14
<1>16. /\ \A k \in DOMAIN jumps : k \in DOMAIN j2 /\ j2[k] = jumps[k]
       /\ \A k \in DOMAIN j2 :
            \/ k \in DOMAIN jumps /\ j2[k] = jumps[k]
            \/ p1 /\ j2[k] = first
            \/ p2 /\ j2[k] = second
       /\ p1 => \E k \in DOMAIN j2 : j2[k] = first
       /\ p2 => \E k \in DOMAIN j2 : j2[k] = second
  <2>1. \A k \in DOMAIN j1 : k \notin DOMAIN jumps => p1 /\ j1[k] = first
    BY <1>6, <1>8
  <2>2. \A k \in DOMAIN j2 : k \notin DOMAIN j1 => p2 /\ j2[k] = second
    BY <1>10, <1>12
  <2>3. \A k \in DOMAIN jumps : k \in DOMAIN j2 /\ j2[k] = jumps[k]
    BY <1>8, <1>12
  <2>4. ASSUME NEW k \in DOMAIN j2
        PROVE  \/ k \in DOMAIN jumps /\ j2[k] = jumps[k]
               \/ p1 /\ j2[k] = first
               \/ p2 /\ j2[k] = second
    BY <1>8, <1>12, <2>1, <2>2
  <2>5. p1 => \E k \in DOMAIN j2 : j2[k] = first
    BY <1>6, <1>8, <1>12
  <2>6. p2 => \E k \in DOMAIN j2 : j2[k] = second
    BY <1>10, <1>12
  <2> QED
    BY <2>3, <2>4, <2>5, <2>6
<1> QED
  BY <1>5, <1>13, <1>15, <1>16 DEF first, second, p1, p2

-----------------------------------------------------------------------------

(* The instructions of one more operation keep the invariant. *)
LEMMA EmitIInv == IInv /\ Emit => IInv'
<1> SUFFICES ASSUME IInv, Emit
             PROVE  IInv'
  OBVIOUS
<1> USE CompilerAssumption
<1>1. /\ Typed /\ JumpsListed /\ JumpsApart /\ JumpsPresent /\ OperationsClosed
      /\ InstructionsMeant /\ OperationsBegin /\ InstructionsRow
  BY DEF IInv
<1>2. /\ phase = "emit" /\ emitted < Len(ops)
      /\ emitted' = emitted + 1
      /\ ops' = ops /\ patched' = patched /\ phase' = phase /\ pc' = pc
  BY DEF Emit
<1>0. emitted + 1 \in 1 .. Len(ops) /\ emitted + 1 \in Nat /\ emitted \in Nat
  BY <1>1, <1>2 DEF Typed
<1>i. PICK i \in 1 .. Len(ops) : i = emitted + 1 /\ i \in Nat
  BY <1>0
<1>3. PICK size \in BodySizes[ops[i].code] :
        LET body == length + size
            branch == BranchEnd(i, body)
            end == OperationEnd(i, body)
        IN  /\ offsetOf' = Append(offsetOf, length)
            /\ code' = code
                 \o Optional(size > 0, Instruction(length, size, "body", i))
                 \o Optional(IsBranch(i), Instruction(body, BranchSize, "branch", i))
                 \o Optional(NeedsJump(i), Instruction(branch, JumpSize, "jump", i))
            /\ jumps' = jumps
                 \o Optional(IsBranch(i), JumpInfo(branch, ops[i].extra))
                 \o Optional(NeedsJump(i), JumpInfo(end, ops[i].main))
            /\ length' = end
  BY <1>i DEF Emit
<1> DEFINE body == length + size
           branch == BranchEnd(i, body)
           end == OperationEnd(i, body)
           first == Body(i, size)
           second == Branch(i, size)
           third == Jump(i, size)
<1>4. i \in 1 .. Len(ops) /\ i \in Nat /\ emitted \in Nat
  BY <1>0, <1>i
<1>5. /\ size \in Nat
      /\ size = 0 <=> ops[i].code = "none"
      /\ branch \in Nat
      /\ IsBranch(i) => branch = body + BranchSize
      /\ ~IsBranch(i) => branch = body
      /\ end \in Nat
      /\ NeedsJump(i) => end = branch + JumpSize
      /\ ~NeedsJump(i) => end = branch
  BY <1>1, <1>4, EmittedPlaces
<1>6. code' = CodeWith(i, size)
  BY <1>3 DEF CodeWith, Join, Body, Branch, Jump
<1>7. jumps' = JumpsWith(i, size)
  BY <1>3 DEF JumpsWith, Join, BranchInfo, ExitInfo
<1>8. /\ CodeWith(i, size) \in Seq(PlacedInstruction)
      /\ \A k \in DOMAIN code :
           k \in DOMAIN CodeWith(i, size) /\ CodeWith(i, size)[k] = code[k]
      /\ \A k \in DOMAIN CodeWith(i, size) :
           \/ k \in DOMAIN code /\ CodeWith(i, size)[k] = code[k]
           \/ size > 0 /\ CodeWith(i, size)[k] = first
           \/ IsBranch(i) /\ CodeWith(i, size)[k] = second
           \/ NeedsJump(i) /\ CodeWith(i, size)[k] = third
      /\ size > 0 => \E k \in DOMAIN CodeWith(i, size) : CodeWith(i, size)[k] = first
      /\ IsBranch(i) => \E k \in DOMAIN CodeWith(i, size) : CodeWith(i, size)[k] = second
      /\ NeedsJump(i) => \E k \in DOMAIN CodeWith(i, size) : CodeWith(i, size)[k] = third
  BY <1>1, <1>4, EmittedCode
<1>9. /\ JumpsWith(i, size) \in Seq(JumpInfos)
      /\ Len(JumpsWith(i, size)) >= Len(jumps)
      /\ \A j \in DOMAIN jumps :
           j \in DOMAIN JumpsWith(i, size) /\ JumpsWith(i, size)[j] = jumps[j]
      /\ \A j \in DOMAIN JumpsWith(i, size) :
           \/ j \in DOMAIN jumps /\ JumpsWith(i, size)[j] = jumps[j]
           \/ IsBranch(i) /\ JumpsWith(i, size)[j] = BranchInfo(i, size)
           \/ NeedsJump(i) /\ JumpsWith(i, size)[j] = ExitInfo(i, size)
      /\ IsBranch(i) =>
           \E j \in DOMAIN JumpsWith(i, size) : JumpsWith(i, size)[j] = BranchInfo(i, size)
      /\ NeedsJump(i) =>
           \E j \in DOMAIN JumpsWith(i, size) : JumpsWith(i, size)[j] = ExitInfo(i, size)
  BY <1>1, <1>4, <1>5, EmittedJumps
<1>10. /\ code' \in Seq(PlacedInstruction)
       /\ \A k \in DOMAIN code : k \in DOMAIN code' /\ code'[k] = code[k]
       /\ \A k \in DOMAIN code' :
            \/ k \in DOMAIN code /\ code'[k] = code[k]
            \/ size > 0 /\ code'[k] = first
            \/ IsBranch(i) /\ code'[k] = second
            \/ NeedsJump(i) /\ code'[k] = third
       /\ size > 0 => \E k \in DOMAIN code' : code'[k] = first
       /\ IsBranch(i) => \E k \in DOMAIN code' : code'[k] = second
       /\ NeedsJump(i) => \E k \in DOMAIN code' : code'[k] = third
  BY <1>6, <1>8
<1>11. /\ jumps' \in Seq(JumpInfos)
       /\ Len(jumps') >= Len(jumps)
       /\ \A j \in DOMAIN jumps : j \in DOMAIN jumps' /\ jumps'[j] = jumps[j]
       /\ \A j \in DOMAIN jumps' :
            \/ j \in DOMAIN jumps /\ jumps'[j] = jumps[j]
            \/ IsBranch(i) /\ jumps'[j] = BranchInfo(i, size)
            \/ NeedsJump(i) /\ jumps'[j] = ExitInfo(i, size)
       /\ IsBranch(i) => \E j \in DOMAIN jumps' : jumps'[j] = BranchInfo(i, size)
       /\ NeedsJump(i) => \E j \in DOMAIN jumps' : jumps'[j] = ExitInfo(i, size)
  BY <1>7, <1>9
<1>12. /\ offsetOf' \in Seq(Nat) /\ Len(offsetOf') = emitted + 1
       /\ \A h \in 1 .. emitted : offsetOf'[h] = offsetOf[h]
       /\ offsetOf'[i] = length
  <2>1. offsetOf \in Seq(Nat) /\ length \in Nat /\ Len(offsetOf) = emitted
    BY <1>1 DEF Typed
  <2>2. offsetOf' = Append(offsetOf, length)
    BY <1>3
  <2> QED
    BY <1>i, <2>1, <2>2, Appended
<1>13. length' = end
  BY <1>3
<1>14. /\ length \in Nat
       /\ first.at = length /\ End(first) = body /\ first.kind = "body" /\ first.op = i
       /\ second.at = body /\ End(second) = body + BranchSize
       /\ second.kind = "branch" /\ second.op = i
       /\ third.at = branch /\ End(third) = branch + JumpSize
       /\ third.kind = "jump" /\ third.op = i
  BY <1>1 DEF Typed, Instruction, End, Body, Branch, Jump
<1>15. body = length + size /\ body \in Nat
  BY <1>5, <1>14
<1>16. /\ BranchInfo(i, size).from = branch /\ BranchInfo(i, size).to = ops[i].extra
       /\ ExitInfo(i, size).from = end /\ ExitInfo(i, size).to = ops[i].main
       /\ BranchInfo(i, size) = JumpInfo(branch, ops[i].extra)
       /\ ExitInfo(i, size) = JumpInfo(end, ops[i].main)
  BY DEF BranchInfo, ExitInfo, JumpInfo
<1>17. i = emitted + 1 /\ emitted' = i /\ \A h \in 1 .. emitted' : h \in 1 .. emitted \/ h = i
  BY <1>2, <1>4, <1>i
<1>18. \A h \in 1 .. emitted : h # i /\ h \in Nat
  BY <1>4, <1>i
<1> HIDE DEF body, branch, end, first, second, third
<1>19. \A h : IsBranch(h)' = IsBranch(h) /\ NeedsJump(h)' = NeedsJump(h)
  BY <1>2 DEF IsBranch, NeedsJump
<1>20. \A h \in 1 .. emitted : EndOf(h)' = EndOf(h)
  <2> SUFFICES ASSUME NEW h \in 1 .. emitted
               PROVE  EndOf(h)' = EndOf(h)
    OBVIOUS
  <2>1. CASE h = emitted
    BY <1>4, <1>12, <1>17, <2>1 DEF EndOf
  <2>2. CASE h # emitted
    <3>1. h + 1 \in 1 .. emitted /\ h # i
      BY <1>4, <1>17, <2>2
    <3> QED
      BY <1>12, <1>17, <2>2, <3>1 DEF EndOf
  <2> QED
    BY <2>1, <2>2
<1>21. EndOf(i)' = end
  BY <1>13, <1>17 DEF EndOf
<1>22. Typed'
  <2>1. Len(jumps) \in Nat /\ Len(jumps') \in Nat
    BY <1>1, <1>11, SequenceFacts DEF Typed
  <2>2. patched \in 0 .. Len(jumps')
    BY <1>1, <1>11, <2>1 DEF Typed
  <2>3. WellFormed(ops)'
    BY <1>1, <1>2 DEF Typed, WellFormed
  <2>4. JumpInfos' = JumpInfos
    BY <1>2 DEF JumpInfos
  <2>5. emitted' \in 0 .. Len(ops')
    BY <1>2, <1>4, <1>17
  <2>6. Len(offsetOf') = emitted' /\ offsetOf' \in Seq(Nat)
    BY <1>2, <1>12
  <2>7. length' \in Nat
    BY <1>5, <1>13
  <2>8. code' \in Seq(PlacedInstruction) /\ jumps' \in Seq(JumpInfos)
    BY <1>10, <1>11
  <2> QED
    BY <1>1, <1>2, <2>2, <2>3, <2>4, <2>5, <2>6, <2>7, <2>8 DEF Typed, Phases
<1>23. JumpsListed'
  <2> SUFFICES ASSUME NEW k \in DOMAIN code', code'[k].kind # "body"
               PROVE  \E j \in DOMAIN jumps' :
                        /\ jumps'[j] = JumpInfo(End(code'[k]), Target(k)')
                        /\ j <= patched' => code'[k].distance = Distance(jumps[j])'
    BY DEF JumpsListed
  <2>0. patched = 0 /\ patched' = 0 /\ DOMAIN jumps' = 1 .. Len(jumps')
    BY <1>1, <1>2, <1>11, SequenceFacts DEF Typed
  <2>1. \A j \in DOMAIN jumps' : ~(j <= patched')
    BY <2>0
  <2>2. CASE k \in DOMAIN code /\ code'[k] = code[k]
    <3>1. PICK j \in DOMAIN jumps : jumps[j] = JumpInfo(End(code[k]), Target(k))
      BY <1>1, <2>2 DEF JumpsListed
    <3>2. Target(k)' = Target(k)
      BY <1>2, <2>2 DEF Target
    <3> QED
      BY <1>11, <2>1, <2>2, <3>1, <3>2
  <2>3. CASE IsBranch(i) /\ code'[k] = second
    <3>1. PICK j \in DOMAIN jumps' : jumps'[j] = BranchInfo(i, size)
      BY <1>11, <2>3
    <3>2. Target(k)' = ops[i].extra /\ End(code'[k]) = branch
      BY <1>2, <1>5, <1>14, <2>3 DEF Target
    <3> QED
      BY <1>16, <2>1, <3>1, <3>2
  <2>4. CASE NeedsJump(i) /\ code'[k] = third
    <3>1. PICK j \in DOMAIN jumps' : jumps'[j] = ExitInfo(i, size)
      BY <1>11, <2>4
    <3>2. Target(k)' = ops[i].main /\ End(code'[k]) = end
      BY <1>2, <1>5, <1>14, <2>4 DEF Target
    <3> QED
      BY <1>16, <2>1, <3>1, <3>2
  <2> QED
    BY <1>10, <1>14, <2>2, <2>3, <2>4
<1>24. JumpsApart'
  <2>1. \A j \in DOMAIN jumps : jumps[j].from \in Nat /\ jumps[j].from <= length
    <3>1. jumps \in Seq(JumpInfos)
      BY <1>1 DEF Typed
    <3>2. \A j \in DOMAIN jumps : jumps[j] \in JumpInfos
      BY <3>1, SequenceFacts
    <3> QED
      BY <1>1, <3>2 DEF JumpsApart, JumpInfos
  <2>2. length <= end /\ branch <= end
    BY <1>5, <1>14, <1>15, CompilerAssumption
  <2>3. IsBranch(i) => branch > length
    BY <1>5, <1>14, <1>15, CompilerAssumption
  <2>4. NeedsJump(i) => end > length /\ end > branch
    BY <1>5, <1>14, <1>15, CompilerAssumption
  <2>5. ASSUME NEW j \in DOMAIN jumps'
        PROVE  jumps'[j].from <= length'
    <3>1. CASE j \in DOMAIN jumps /\ jumps'[j] = jumps[j]
      BY <1>5, <1>13, <1>14, <2>1, <2>2, <3>1
    <3> QED
      BY <1>5, <1>11, <1>13, <1>16, <2>2, <3>1
  <2>6. ASSUME NEW g \in DOMAIN jumps', NEW h \in DOMAIN jumps',
               jumps'[g].from = jumps'[h].from
        PROVE  jumps'[g].to = jumps'[h].to
    <3>1. \A j \in DOMAIN jumps' :
            \/ j \in DOMAIN jumps /\ jumps'[j] = jumps[j] /\ jumps'[j].from <= length
            \/ /\ jumps'[j].from = branch /\ jumps'[j].to = ops[i].extra
               /\ branch > length /\ IsBranch(i)
            \/ /\ jumps'[j].from = end /\ jumps'[j].to = ops[i].main
               /\ end > length /\ end > branch
      BY <1>11, <1>16, <2>1, <2>3, <2>4
    <3>2. \A a, b \in DOMAIN jumps : jumps[a].from = jumps[b].from => jumps[a].to = jumps[b].to
      BY <1>1 DEF JumpsApart
    <3>3. branch \in Nat /\ end \in Nat /\ length \in Nat
      BY <1>5, <1>14
    <3>4. CASE g \in DOMAIN jumps /\ jumps'[g] = jumps[g] /\ jumps'[g].from <= length
      BY <2>1, <2>6, <3>1, <3>2, <3>3, <3>4
    <3>5. CASE jumps'[g].from = branch /\ jumps'[g].to = ops[i].extra /\ branch > length
      <4>1. CASE h \in DOMAIN jumps /\ jumps'[h] = jumps[h] /\ jumps'[h].from <= length
        <5>1. jumps'[h].from \in Nat
          BY <2>1, <4>1
        <5> QED
          BY <2>6, <3>3, <3>5, <4>1, <5>1
      <4>2. CASE jumps'[h].from = branch /\ jumps'[h].to = ops[i].extra
        BY <3>5, <4>2
      <4>3. CASE jumps'[h].from = end /\ end > branch
        <5>1. end # branch
          BY <3>3, <4>3
        <5> QED
          BY <2>6, <3>5, <4>3, <5>1
      <4> QED
        BY <3>1, <4>1, <4>2, <4>3
    <3>6. CASE /\ jumps'[g].from = end /\ jumps'[g].to = ops[i].main
               /\ end > length /\ end > branch
      <4>1. CASE h \in DOMAIN jumps /\ jumps'[h] = jumps[h] /\ jumps'[h].from <= length
        <5>1. jumps'[h].from \in Nat
          BY <2>1, <4>1
        <5> QED
          BY <2>6, <3>3, <3>6, <4>1, <5>1
      <4>2. CASE jumps'[h].from = branch
        <5>1. end # branch
          BY <3>3, <3>6
        <5> QED
          BY <2>6, <3>6, <4>2, <5>1
      <4>3. CASE jumps'[h].from = end /\ jumps'[h].to = ops[i].main
        BY <3>6, <4>3
      <4> QED
        BY <3>1, <4>1, <4>2, <4>3
    <3> QED
      BY <3>1, <3>4, <3>5, <3>6
  <2> QED
    BY <2>5, <2>6 DEF JumpsApart
<1>25. JumpsPresent'
  <2> SUFFICES ASSUME NEW h \in 1 .. emitted', NeedsJump(h)'
               PROVE  \E k \in DOMAIN code' : code'[k].op = h /\ code'[k].kind = "jump"
    BY DEF JumpsPresent
  <2>1. CASE h \in 1 .. emitted
    BY <1>1, <1>10, <1>19, <2>1 DEF JumpsPresent
  <2>2. CASE h = i
    <3>1. NeedsJump(i)
      BY <1>19, <2>2
    <3> QED
      BY <1>10, <1>14, <2>2, <3>1
  <2> QED
    BY <1>17, <2>1, <2>2
<1>26. InstructionsMeant'
  <2> SUFFICES ASSUME NEW k \in DOMAIN code'
               PROVE  /\ code'[k].op \in 1 .. emitted'
                      /\ code'[k].kind = "branch" => IsBranch(code[k].op)'
                      /\ code'[k].kind = "jump" => NeedsJump(code[k].op)'
    BY DEF InstructionsMeant
  <2>0. i \in 1 .. emitted' /\ \A h \in 1 .. emitted : h \in 1 .. emitted'
    BY <1>4, <1>17
  <2>1. CASE k \in DOMAIN code /\ code'[k] = code[k]
    BY <1>1, <1>2, <2>0, <2>1 DEF InstructionsMeant, IsBranch, NeedsJump
  <2>2. CASE code'[k] = first
    BY <1>14, <2>0, <2>2
  <2>3. CASE IsBranch(i) /\ code'[k] = second
    BY <1>2, <1>14, <2>0, <2>3 DEF IsBranch
  <2>4. CASE NeedsJump(i) /\ code'[k] = third
    BY <1>2, <1>14, <2>0, <2>4 DEF NeedsJump
  <2> QED
    BY <1>10, <2>1, <2>2, <2>3, <2>4
<1>27. OperationsClosed'
  <2> SUFFICES ASSUME NEW h \in 1 .. emitted'
               PROVE  \/ /\ EndOf(h)' = offsetOf'[h]
                         /\ \A k \in DOMAIN code' : code'[k].op # h
                      \/ \E k \in DOMAIN code' : code'[k].op = h /\ End(code'[k]) = EndOf(h)'
    BY DEF OperationsClosed
  <2>1. CASE h \in 1 .. emitted
    <3>1. EndOf(h)' = EndOf(h) /\ offsetOf'[h] = offsetOf[h] /\ h # i
      BY <1>12, <1>18, <1>20, <2>1
    <3>2. CASE EndOf(h) = offsetOf[h] /\ \A k \in DOMAIN code : code[k].op # h
      BY <1>10, <1>14, <3>1, <3>2
    <3>3. CASE \E k \in DOMAIN code : code[k].op = h /\ End(code[k]) = EndOf(h)
      BY <1>10, <3>1, <3>3
    <3> QED
      BY <1>1, <2>1, <3>2, <3>3 DEF OperationsClosed
  <2>2. CASE h = i
    <3>1. EndOf(h)' = end /\ offsetOf'[h] = length
      BY <1>12, <1>21, <2>2
    <3>2. CASE NeedsJump(i)
      BY <1>5, <1>10, <1>14, <2>2, <3>1, <3>2
    <3>3. CASE ~NeedsJump(i) /\ IsBranch(i)
      BY <1>5, <1>10, <1>14, <2>2, <3>1, <3>3
    <3>4. CASE ~NeedsJump(i) /\ ~IsBranch(i) /\ size > 0
      BY <1>5, <1>10, <1>14, <2>2, <3>1, <3>4
    <3>5. CASE ~NeedsJump(i) /\ ~IsBranch(i) /\ ~(size > 0)
      <4>1. end = length
        BY <1>5, <1>14, <1>15, <3>5
      <4>2. \A k \in DOMAIN code' : k \in DOMAIN code /\ code'[k] = code[k]
        BY <1>10, <3>5
      <4>3. \A k \in DOMAIN code : code[k].op \in 1 .. emitted
        BY <1>1 DEF InstructionsMeant
      <4> QED
        BY <1>18, <2>2, <3>1, <4>1, <4>2, <4>3
    <3> QED
      BY <1>5, <3>2, <3>3, <3>4, <3>5
  <2> QED
    BY <1>17, <2>1, <2>2
<1>28. OperationsBegin'
  <2>1. offsetOf'[1] = HeaderSize
    <3>1. CASE emitted = 0
      BY <1>1, <1>12, <1>17, <3>1 DEF OperationsBegin
    <3>2. CASE emitted > 0
      BY <1>1, <1>4, <1>12, <3>2 DEF OperationsBegin
    <3> QED
      BY <1>4, <3>1, <3>2
  <2>2. emitted' # 0
    BY <1>4, <1>17
  <2>3. ASSUME NEW h \in 1 .. emitted'
        PROVE  \/ \E k \in DOMAIN code' : code'[k].at = offsetOf'[h]
               \/ /\ EndOf(h)' = offsetOf'[h]
                  /\ ops'[h].code = "none" /\ ~NeedsJump(h)'
    <3>1. CASE h \in 1 .. emitted
      <4>1. EndOf(h)' = EndOf(h) /\ offsetOf'[h] = offsetOf[h]
        BY <1>12, <1>20, <3>1
      <4>2. NeedsJump(h)' <=> NeedsJump(h)
        BY <1>19
      <4>3. CASE \E k \in DOMAIN code : code[k].at = offsetOf[h]
        BY <1>10, <4>1, <4>3
      <4>4. CASE EndOf(h) = offsetOf[h] /\ ops[h].code = "none" /\ ~NeedsJump(h)
        BY <1>2, <4>1, <4>2, <4>4
      <4> QED
        BY <1>1, <3>1, <4>3, <4>4 DEF OperationsBegin
    <3>2. CASE h = i
      <4>1. EndOf(h)' = end /\ offsetOf'[h] = length
        BY <1>12, <1>21, <3>2
      <4>2. CASE size > 0
        BY <1>10, <1>14, <4>1, <4>2
      <4>3. CASE ~(size > 0) /\ IsBranch(i)
        BY <1>5, <1>10, <1>14, <1>15, <4>1, <4>3
      <4>4. CASE ~(size > 0) /\ ~IsBranch(i) /\ NeedsJump(i)
        <5>1. branch = length
          BY <1>5, <1>14, <1>15, <4>4
        <5> QED
          BY <1>10, <1>14, <4>1, <4>4, <5>1
      <4>5. CASE ~(size > 0) /\ ~IsBranch(i) /\ ~NeedsJump(i)
        <5>1. end = length /\ ops[i].code = "none"
          BY <1>5, <1>14, <1>15, <4>5
        <5>2. ~NeedsJump(h)'
          BY <1>19, <3>2, <4>5
        <5>3. ops'[h].code = "none"
          BY <1>2, <3>2, <5>1
        <5> QED
          BY <4>1, <5>1, <5>2, <5>3
      <4> QED
        BY <4>2, <4>3, <4>4, <4>5
    <3> QED
      BY <1>17, <3>1, <3>2
  <2> QED
    BY <2>1, <2>2, <2>3 DEF OperationsBegin
<1>29. InstructionsRow'
  <2> SUFFICES ASSUME NEW k \in DOMAIN code'
               PROVE  \/ code'[k].kind = "jump"
                      \/ \E l \in DOMAIN code' : code'[l].at = End(code'[k])
                      \/ End(code'[k]) = EndOf(code[k].op)' /\ ~NeedsJump(code[k].op)'
    BY DEF InstructionsRow
  <2>1. CASE k \in DOMAIN code /\ code'[k] = code[k]
    <3>1. code[k].op \in 1 .. emitted
      BY <1>1, <2>1 DEF InstructionsMeant
    <3>2. PICK h \in 1 .. emitted : h = code[k].op
      BY <3>1
    <3>3. EndOf(code[k].op)' = EndOf(h)
      <4>1. EndOf(h)' = EndOf(h)
        BY <1>20
      <4>2. code'[k].op = h
        BY <2>1, <3>2
      <4> QED
        BY <4>1, <4>2 DEF EndOf
    <3>4. NeedsJump(code[k].op)' = NeedsJump(h)
      BY <1>2, <2>1, <3>2 DEF NeedsJump
    <3>5. CASE code[k].kind = "jump"
      BY <2>1, <3>5
    <3>6. CASE \E l \in DOMAIN code : code[l].at = End(code[k])
      BY <1>10, <2>1, <3>6
    <3>7. CASE End(code[k]) = EndOf(code[k].op) /\ ~NeedsJump(code[k].op)
      BY <2>1, <3>2, <3>3, <3>4, <3>7
    <3> QED
      BY <1>1, <2>1, <3>5, <3>6, <3>7 DEF InstructionsRow
  <2>2. NeedsJump(i)' = NeedsJump(i) /\ EndOf(i)' = end
    BY <1>19, <1>21
  <2>3. CASE size > 0 /\ code'[k] = first
    <3>1. code'[k].op = i /\ End(code'[k]) = body
      BY <1>14, <2>3
    <3>2. CASE IsBranch(i)
      BY <1>10, <1>14, <3>1, <3>2
    <3>3. CASE ~IsBranch(i) /\ NeedsJump(i)
      BY <1>5, <1>10, <1>14, <3>1, <3>3
    <3>4. CASE ~IsBranch(i) /\ ~NeedsJump(i)
      <4>1. NeedsJump(code[k].op)' = NeedsJump(i) /\ EndOf(code[k].op)' = end
        BY <2>2, <3>1 DEF NeedsJump, EndOf
      <4> QED
        BY <1>5, <3>1, <3>4, <4>1
    <3> QED
      BY <3>2, <3>3, <3>4
  <2>4. CASE IsBranch(i) /\ code'[k] = second
    <3>1. code'[k].op = i /\ End(code'[k]) = branch
      BY <1>5, <1>14, <2>4
    <3>2. CASE NeedsJump(i)
      BY <1>10, <1>14, <3>1, <3>2
    <3>3. CASE ~NeedsJump(i)
      <4>1. NeedsJump(code[k].op)' = NeedsJump(i) /\ EndOf(code[k].op)' = end
        BY <2>2, <3>1 DEF NeedsJump, EndOf
      <4> QED
        BY <1>5, <3>1, <3>3, <4>1
    <3> QED
      BY <3>2, <3>3
  <2>5. CASE NeedsJump(i) /\ code'[k] = third
    BY <1>14, <2>5
  <2> QED
    BY <1>10, <2>1, <2>3, <2>4, <2>5
<1>30. ProcessorOnCode'
  BY <1>2 DEF ProcessorOnCode
<1> QED
  BY <1>22, <1>23, <1>24, <1>25, <1>26, <1>27, <1>28, <1>29, <1>30 DEF IInv

-----------------------------------------------------------------------------

(* A jump that gets its distance keeps the invariant. *)
LEMMA PatchIInv == IInv /\ Patch => IInv'
<1> SUFFICES ASSUME IInv, Patch
             PROVE  IInv'
  OBVIOUS
<1>1. /\ Typed /\ JumpsListed /\ JumpsApart /\ JumpsPresent /\ OperationsClosed
      /\ InstructionsMeant /\ OperationsBegin /\ InstructionsRow
  BY DEF IInv
<1>2. /\ phase = "patch" /\ patched < Len(jumps) /\ patched' = patched + 1
      /\ ops' = ops /\ emitted' = emitted /\ length' = length /\ offsetOf' = offsetOf
      /\ jumps' = jumps /\ phase' = phase /\ pc' = pc
  BY DEF Patch
<1>3. patched \in Nat /\ Len(jumps) \in Nat /\ DOMAIN jumps = 1 .. Len(jumps)
  <2>1. jumps \in Seq(JumpInfos) /\ patched \in 0 .. Len(jumps)
    BY <1>1 DEF Typed
  <2> QED
    BY <2>1, SequenceFacts
<1>4. PICK p \in DOMAIN jumps : p = patched + 1
  BY <1>2, <1>3
<1>5. code' = [k \in DOMAIN code |->
                 IF End(code[k]) = jumps[p].from
                 THEN [code[k] EXCEPT !.distance = Distance(jumps[p])]
                 ELSE code[k]]
  BY <1>4 DEF Patch
<1>6. code \in Seq(PlacedInstruction) /\ Len(code) \in Nat /\ DOMAIN code = 1 .. Len(code)
      /\ \A k \in DOMAIN code : code[k] \in PlacedInstruction
  <2>1. code \in Seq(PlacedInstruction)
    BY <1>1 DEF Typed
  <2> QED
    BY <2>1, SequenceFacts
<1>7. \A j \in DOMAIN jumps : Distance(jumps[j]) \in Int
  <2> SUFFICES ASSUME NEW j \in DOMAIN jumps
               PROVE  Distance(jumps[j]) \in Int
    OBVIOUS
  <2>1. jumps \in Seq(JumpInfos)
    BY <1>1 DEF Typed
  <2>2. jumps[j] \in JumpInfos
    BY <2>1, SequenceFacts
  <2>3. offsetOf \in Seq(Nat) /\ Len(offsetOf) = Len(ops)
    BY <1>1, <1>2 DEF Typed
  <2>4. DOMAIN offsetOf = 1 .. Len(ops) /\ \A h \in DOMAIN offsetOf : offsetOf[h] \in Nat
    BY <2>3, SequenceFacts
  <2> QED
    BY <2>2, <2>4 DEF JumpInfos, Distance
<1>8. /\ DOMAIN code' = DOMAIN code
      /\ \A k \in DOMAIN code :
           /\ code'[k] \in PlacedInstruction
           /\ code'[k].at = code[k].at /\ End(code'[k]) = End(code[k])
           /\ code'[k].kind = code[k].kind /\ code'[k].op = code[k].op
           /\ code'[k].distance = IF End(code[k]) = jumps[p].from
                                  THEN Distance(jumps[p]) ELSE code[k].distance
  <2>1. DOMAIN code' = DOMAIN code
    BY <1>5
  <2>2. ASSUME NEW k \in DOMAIN code
        PROVE  /\ code'[k] \in PlacedInstruction
               /\ code'[k].at = code[k].at /\ code'[k].size = code[k].size
               /\ code'[k].kind = code[k].kind /\ code'[k].op = code[k].op
               /\ code'[k].distance = IF End(code[k]) = jumps[p].from
                                      THEN Distance(jumps[p]) ELSE code[k].distance
    <3>1. code[k] \in PlacedInstruction /\ Distance(jumps[p]) \in Int
      BY <1>6, <1>7
    <3>2. CASE End(code[k]) = jumps[p].from
      <4>1. code'[k] = [code[k] EXCEPT !.distance = Distance(jumps[p])]
        BY <1>5, <3>2
      <4> QED
        BY <3>1, <3>2, <4>1 DEF PlacedInstruction
    <3>3. CASE End(code[k]) # jumps[p].from
      <4>1. code'[k] = code[k]
        BY <1>5, <3>3
      <4> QED
        BY <3>1, <3>3, <4>1
    <3> QED
      BY <3>2, <3>3
  <2> QED
    BY <2>1, <2>2 DEF End
<1>9. Typed'
  <2>1. code' \in Seq(PlacedInstruction)
    <3>1. code' \in [1 .. Len(code) -> PlacedInstruction]
      BY <1>5, <1>6, <1>8
    <3> QED
      BY <1>6, <3>1, SeqDef
  <2>2. JumpInfos' = JumpInfos /\ WellFormed(ops)'
    BY <1>1, <1>2 DEF JumpInfos, Typed, WellFormed
  <2>3. patched' \in 0 .. Len(jumps)
    BY <1>2, <1>3
  <2> QED
    BY <1>1, <1>2, <2>1, <2>2, <2>3 DEF Typed
<1>10. JumpsListed'
  <2> SUFFICES ASSUME NEW k \in DOMAIN code, code'[k].kind # "body"
               PROVE  \E j \in DOMAIN jumps' :
                        /\ jumps'[j] = JumpInfo(End(code'[k]), Target(k)')
                        /\ j <= patched' => code'[k].distance = Distance(jumps[j])'
    BY <1>8 DEF JumpsListed
  <2>1. PICK j \in DOMAIN jumps :
          /\ jumps[j] = JumpInfo(End(code[k]), Target(k))
          /\ j <= patched => code[k].distance = Distance(jumps[j])
    BY <1>1, <1>8 DEF JumpsListed
  <2>2. Target(k)' = Target(k)
    BY <1>2, <1>8 DEF Target
  <2>3. Distance(jumps[j])' = Distance(jumps[j])
    BY <1>2 DEF Distance
  <2>4. jumps[j].from = End(code[k])
    BY <2>1 DEF JumpInfo
  <2>5. CASE End(code[k]) = jumps[p].from
    <3>1. jumps[j].to = jumps[p].to
      BY <1>1, <2>4, <2>5 DEF JumpsApart
    <3>2. Distance(jumps[p]) = Distance(jumps[j])
      BY <2>4, <2>5, <3>1 DEF Distance
    <3>3. code'[k].distance = Distance(jumps[j])
      BY <1>8, <2>5, <3>2
    <3> QED
      BY <1>2, <1>8, <2>1, <2>2, <2>3, <3>3
  <2>6. CASE End(code[k]) # jumps[p].from
    <3>1. j # p
      BY <2>4, <2>6
    <3>2. j <= patched' => j <= patched
      BY <1>2, <1>3, <1>4, <3>1
    <3>3. code'[k].distance = code[k].distance
      BY <1>8, <2>6
    <3> QED
      BY <1>2, <1>8, <2>1, <2>2, <2>3, <3>2, <3>3
  <2> QED
    BY <2>5, <2>6
<1>11. JumpsApart'
  BY <1>1, <1>2 DEF JumpsApart
<1>12. JumpsPresent'
  BY <1>1, <1>2, <1>8 DEF JumpsPresent, NeedsJump
<1>13. OperationsClosed'
  <2>1. \A h : EndOf(h)' = EndOf(h)
    BY <1>2 DEF EndOf
  <2> QED
    BY <1>1, <1>2, <1>8, <2>1 DEF OperationsClosed
<1>14. InstructionsMeant'
  BY <1>1, <1>2, <1>8 DEF InstructionsMeant, IsBranch, NeedsJump
<1>15. OperationsBegin'
  BY <1>1, <1>2, <1>8 DEF OperationsBegin, EndOf, NeedsJump
<1>16. InstructionsRow'
  <2> SUFFICES ASSUME NEW k \in DOMAIN code
               PROVE  \/ code'[k].kind = "jump"
                      \/ \E l \in DOMAIN code' : code'[l].at = End(code'[k])
                      \/ End(code'[k]) = EndOf(code[k].op)' /\ ~NeedsJump(code[k].op)'
    BY <1>8 DEF InstructionsRow
  <2>1. EndOf(code[k].op)' = EndOf(code[k].op)
    BY <1>2, <1>8 DEF EndOf
  <2>2. NeedsJump(code[k].op)' = NeedsJump(code[k].op)
    BY <1>2, <1>8 DEF NeedsJump
  <2> QED
    BY <1>1, <1>8, <2>1, <2>2 DEF InstructionsRow
<1>17. ProcessorOnCode'
  BY <1>2 DEF ProcessorOnCode
<1> QED
  BY <1>9, <1>10, <1>11, <1>12, <1>13, <1>14, <1>15, <1>16, <1>17 DEF IInv

-----------------------------------------------------------------------------

(***************************************************************************)
(* In the finished code an instruction begins where an operation does: the *)
(* operations without instructions are in front of one that has some.      *)
(***************************************************************************)
LEMMA OperationOnCode ==
  ASSUME Typed, OperationsBegin, emitted = Len(ops), NEW i \in 1 .. Len(ops)
  PROVE  \E k \in DOMAIN code : code[k].at = offsetOf[i]
<1> DEFINE n == Len(ops)
<1>1. n \in Nat \ {0} /\ DOMAIN ops = 1 .. n
  BY DEF Typed, WellFormed
<1>2. emitted = n
  OBVIOUS
<1> HIDE DEF n
<1> DEFINE T == {n - j : j \in {h \in i .. n : offsetOf[h] = offsetOf[i]}}
<1>3. T \in SUBSET Nat /\ n - i \in T
  BY <1>1
<1>4. PICK d \in T : \A t \in T : d <= t
  BY <1>3, LeastElement
<1>5. PICK h \in i .. n : d = n - h /\ offsetOf[h] = offsetOf[i]
  BY <1>4
<1>6. h \in 1 .. emitted
  BY <1>1, <1>2
<1>7. CASE \E k \in DOMAIN code : code[k].at = offsetOf[h]
  BY <1>5, <1>7
<1>8. CASE EndOf(h) = offsetOf[h] /\ ops[h].code = "none" /\ ~NeedsJump(h)
  <2>1. ops[h].main # NULL /\ ops[h].main = h + 1 /\ ops[h].main \in DOMAIN ops
    BY <1>1, <1>2, <1>6, <1>8 DEF Typed, WellFormed, NeedsJump
  <2>2. h + 1 \in i .. n /\ h # n
    BY <1>1, <2>1
  <2>3. offsetOf[h + 1] = offsetOf[i]
    BY <1>2, <1>5, <1>8, <2>2 DEF EndOf
  <2>4. n - (h + 1) \in T
    BY <2>2, <2>3
  <2>5. d <= n - (h + 1)
    BY <1>4, <2>4
  <2> QED
    BY <1>1, <1>5, <2>5
<1> QED
  BY <1>6, <1>7, <1>8 DEF OperationsBegin

(***************************************************************************)
(* In the finished code a jump leads to the first byte of its successor.   *)
(***************************************************************************)
LEMMA JumpsLandIn ==
  ASSUME Typed, JumpsListed, phase \in {"run", "halted"},
         NEW k \in DOMAIN code, code[k].kind # "body"
  PROVE  End(code[k]) + code[k].distance = offsetOf[Target(k)]
<1>1. patched = Len(jumps)
  BY DEF Typed
<1>2. PICK j \in DOMAIN jumps :
        /\ jumps[j] = JumpInfo(End(code[k]), Target(k))
        /\ j <= patched => code[k].distance = Distance(jumps[j])
  BY DEF JumpsListed
<1>3. jumps \in Seq(JumpInfos) /\ code \in Seq(PlacedInstruction) /\ offsetOf \in Seq(Nat)
      /\ Len(offsetOf) = Len(ops)
  BY DEF Typed
<1>4. jumps[j] \in JumpInfos /\ code[k] \in PlacedInstruction /\ j <= patched
      /\ DOMAIN offsetOf = 1 .. Len(ops) /\ \A h \in DOMAIN offsetOf : offsetOf[h] \in Nat
  <2>1. jumps[j] \in JumpInfos /\ DOMAIN jumps = 1 .. Len(jumps) /\ Len(jumps) \in Nat
    BY <1>3, SequenceFacts
  <2>2. code[k] \in PlacedInstruction
    BY <1>3, SequenceFacts
  <2> QED
    BY <1>1, <1>3, <2>1, <2>2, SequenceFacts
<1>5. jumps[j].from = End(code[k]) /\ jumps[j].to = Target(k)
  BY <1>2 DEF JumpInfo
<1>6. code[k].distance = offsetOf[Target(k)] - End(code[k])
  BY <1>2, <1>4, <1>5 DEF Distance
<1>7. Target(k) \in 1 .. Len(ops)
  BY <1>4, <1>5 DEF JumpInfos
<1>8. offsetOf[Target(k)] \in Nat
  BY <1>4, <1>7
<1>9. End(code[k]) \in Nat
  BY <1>4 DEF PlacedInstruction, End
<1> QED
  BY <1>6, <1>8, <1>9

(* A place behind an instruction that the processor may pass is on the code. *)
LEMMA PassingOnCode ==
  ASSUME Typed, OperationsBegin, InstructionsRow, InstructionsMeant, emitted = Len(ops),
         NEW k \in DOMAIN code, code[k].kind # "jump", ops[code[k].op].code # "return"
  PROVE  \E l \in DOMAIN code : code[l].at = End(code[k])
<1>1. CASE End(code[k]) = EndOf(code[k].op) /\ ~NeedsJump(code[k].op)
  <2>1. PICK i \in 1 .. Len(ops) : i = code[k].op
    BY DEF InstructionsMeant
  <2>2. Len(ops) \in Nat /\ DOMAIN ops = 1 .. Len(ops)
    BY DEF Typed, WellFormed
  <2>3. ops[i].main # NULL /\ ops[i].main = i + 1 /\ ops[i].main \in DOMAIN ops
    BY <1>1, <2>1, <2>2 DEF Typed, WellFormed, NeedsJump
  <2>4. i + 1 \in 1 .. Len(ops) /\ i # Len(ops)
    BY <2>2, <2>3
  <2>5. End(code[k]) = offsetOf[i + 1]
    BY <1>1, <2>1, <2>4 DEF EndOf
  <2>6. \E l \in DOMAIN code : code[l].at = offsetOf[i + 1]
    BY <2>4, OperationOnCode
  <2> QED
    BY <2>5, <2>6
<1> QED
  BY <1>1 DEF InstructionsRow

(***************************************************************************)
(* The invariant is about the compiler and the place of the processor.     *)
(***************************************************************************)
LEMMA SteadyCode ==
  ASSUME IInv, UNCHANGED compilerVars, phase' \in Phases,
         phase' # "emit" => emitted = Len(ops),
         phase' = "emit" => patched = 0,
         phase' \in {"run", "halted"} => patched = Len(jumps),
         ProcessorOnCode'
  PROVE  IInv'
<1>1. /\ ops' = ops /\ emitted' = emitted /\ length' = length /\ code' = code
      /\ offsetOf' = offsetOf /\ jumps' = jumps /\ patched' = patched
  BY DEF compilerVars
<1>2. Typed'
  BY <1>1 DEF IInv, Typed, WellFormed, JumpInfos
<1>3. JumpsListed' /\ JumpsApart' /\ JumpsPresent'
  BY <1>1 DEF IInv, JumpsListed, JumpsApart, JumpsPresent, NeedsJump, Target, Distance
<1>4. OperationsClosed' /\ InstructionsMeant' /\ OperationsBegin' /\ InstructionsRow'
  BY <1>1 DEF IInv, OperationsClosed, InstructionsMeant, OperationsBegin, InstructionsRow,
              EndOf, NeedsJump, IsBranch
<1> QED
  BY <1>2, <1>3, <1>4 DEF IInv

(* Every step of the compiler and of the processor keeps the invariant. *)
LEMMA NextIInv == IInv /\ [Next]_vars => IInv'
<1> SUFFICES ASSUME IInv, [Next]_vars
             PROVE  IInv'
  OBVIOUS
<1>1. CASE Emit
  BY <1>1, EmitIInv
<1>2. CASE StartPatch
  <2>1. UNCHANGED compilerVars /\ phase = "emit" /\ phase' = "patch" /\ emitted = Len(ops)
    BY <1>2 DEF StartPatch
  <2> QED
    BY <2>1, SteadyCode DEF ProcessorOnCode, Phases
<1>3. CASE Patch
  BY <1>3, PatchIInv
<1>4. CASE StartRun
  <2>1. /\ UNCHANGED compilerVars /\ phase = "patch" /\ phase' = "run"
        /\ patched = Len(jumps) /\ pc' = HeaderSize
    BY <1>4 DEF StartRun
  <2>2. Typed /\ OperationsBegin /\ emitted = Len(ops)
    BY <2>1 DEF IInv, Typed
  <2>3. 1 \in 1 .. Len(ops) /\ offsetOf[1] = HeaderSize
    BY <2>2 DEF Typed, WellFormed, OperationsBegin
  <2>4. \E k \in DOMAIN code : code[k].at = HeaderSize
    BY <2>2, <2>3, OperationOnCode
  <2>5. ProcessorOnCode'
    BY <2>1, <2>4 DEF ProcessorOnCode, compilerVars
  <2> QED
    BY <2>1, <2>2, <2>5, SteadyCode DEF Phases
<1>5. CASE Run
  <2>1. PICK k \in DOMAIN code : RunBody(k) \/ RunBranch(k) \/ RunJump(k)
    BY <1>5 DEF Run
  <2>2. phase = "run" /\ UNCHANGED compilerVars /\ code' = code
    BY <2>1 DEF RunBody, RunBranch, RunJump, At, compilerVars
  <2>3. /\ Typed /\ OperationsBegin /\ InstructionsRow /\ InstructionsMeant /\ JumpsListed
        /\ emitted = Len(ops) /\ patched = Len(jumps) /\ Len(ops) \in Nat
        /\ DOMAIN ops = 1 .. Len(ops)
    BY <2>2 DEF IInv, Typed, WellFormed
  <2>4. code[k].op \in 1 .. Len(ops)
    BY <2>3 DEF InstructionsMeant
  <2>5. CASE RunBody(k) /\ ops[code[k].op].code = "return"
    <3>1. phase' = "halted"
      BY <2>5 DEF RunBody
    <3> QED
      BY <2>2, <2>3, <3>1, SteadyCode DEF Phases, ProcessorOnCode
  <2>6. CASE RunBody(k) /\ ops[code[k].op].code # "return"
    <3>1. phase' = "run" /\ pc' = End(code[k]) /\ code[k].kind = "body"
      BY <2>2, <2>6 DEF RunBody
    <3>2. \E l \in DOMAIN code : code[l].at = End(code[k])
      BY <2>3, <2>6, <3>1, PassingOnCode
    <3> QED
      BY <2>2, <2>3, <3>1, <3>2, SteadyCode DEF Phases, ProcessorOnCode
  <2>7. CASE RunBranch(k)
    <3>1. /\ phase' = "run" /\ code[k].kind = "branch"
          /\ pc' = End(code[k]) \/ pc' = End(code[k]) + code[k].distance
      BY <2>2, <2>7 DEF RunBranch
    <3>2. /\ ops[code[k].op].code = "jump_if_false"
          /\ Target(k) = ops[code[k].op].extra /\ Target(k) \in 1 .. Len(ops)
      BY <2>3, <2>4, <3>1 DEF InstructionsMeant, IsBranch, Target, Typed, WellFormed
    <3>3. \E l \in DOMAIN code : code[l].at = End(code[k])
      BY <2>3, <3>1, <3>2, PassingOnCode
    <3>4. End(code[k]) + code[k].distance = offsetOf[Target(k)]
      BY <2>2, <2>3, <3>1, JumpsLandIn
    <3>5. \E l \in DOMAIN code : code[l].at = offsetOf[Target(k)]
      BY <2>3, <3>2, OperationOnCode
    <3>6. ProcessorOnCode'
      BY <2>2, <3>1, <3>3, <3>4, <3>5 DEF ProcessorOnCode
    <3> QED
      BY <2>2, <2>3, <3>1, <3>6, SteadyCode DEF Phases
  <2>8. CASE RunJump(k)
    <3>1. phase' = "run" /\ code[k].kind = "jump" /\ pc' = End(code[k]) + code[k].distance
      BY <2>2, <2>8 DEF RunJump
    <3>2. Target(k) \in 1 .. Len(ops)
      BY <2>3, <2>4, <3>1 DEF InstructionsMeant, NeedsJump, Target, Typed, WellFormed
    <3>3. End(code[k]) + code[k].distance = offsetOf[Target(k)]
      BY <2>2, <2>3, <3>1, JumpsLandIn
    <3>4. \E l \in DOMAIN code : code[l].at = offsetOf[Target(k)]
      BY <2>3, <3>2, OperationOnCode
    <3>5. ProcessorOnCode'
      BY <2>2, <3>1, <3>3, <3>4 DEF ProcessorOnCode
    <3> QED
      BY <2>2, <2>3, <3>1, <3>5, SteadyCode DEF Phases
  <2> QED
    BY <2>1, <2>5, <2>6, <2>7, <2>8
<1>6. CASE UNCHANGED vars
  <2>1. UNCHANGED compilerVars /\ phase' = phase /\ pc' = pc /\ code' = code
    BY <1>6 DEF vars, compilerVars
  <2>2. ProcessorOnCode'
    BY <2>1 DEF IInv, ProcessorOnCode
  <2> QED
    BY <2>1, <2>2, SteadyCode DEF IInv, Typed
<1> QED
  BY <1>1, <1>2, <1>3, <1>4, <1>5, <1>6 DEF Next

(* The invariant implies that the code follows the function. *)
LEMMA IInvSuccessorsFollow == IInv => SuccessorsFollow
<1> SUFFICES ASSUME IInv
             PROVE  SuccessorsFollow
  OBVIOUS
<1>1. JumpsLand
  <2> SUFFICES ASSUME phase \in {"run", "halted"},
                      NEW k \in DOMAIN code, code[k].kind # "body"
               PROVE  End(code[k]) + code[k].distance = offsetOf[Target(k)]
    BY DEF JumpsLand
  <2>1. Typed /\ JumpsListed
    BY DEF IInv
  <2> QED
    BY <2>1, JumpsLandIn
<1>2. RunsOnIntoSuccessor
  <2> SUFFICES ASSUME phase \in {"run", "halted"}, NEW i \in DOMAIN ops,
                      ops[i].main # NULL,
                      {k \in DOMAIN code : code[k].op = i /\ code[k].kind = "jump"} = {}
               PROVE  LET last == {k \in DOMAIN code : code[k].op = i} IN
                        IF last = {} THEN offsetOf[ops[i].main] = offsetOf[i]
                        ELSE \E k \in last : offsetOf[ops[i].main] = End(code[k])
    BY DEF RunsOnIntoSuccessor
  <2>1. Typed /\ JumpsPresent /\ OperationsClosed
    BY DEF IInv
  <2>2. /\ emitted = Len(ops) /\ Len(ops) \in Nat /\ i \in 1 .. emitted
        /\ DOMAIN ops = 1 .. Len(ops)
    BY <2>1 DEF Typed, WellFormed
  <2>3. ~NeedsJump(i)
    BY <2>1, <2>2 DEF JumpsPresent
  <2>4. ops[i].main = i + 1 /\ ops[i].main \in DOMAIN ops
    BY <2>1, <2>2, <2>3 DEF NeedsJump, Typed, WellFormed
  <2>5. EndOf(i) = offsetOf[ops[i].main]
    BY <2>2, <2>4 DEF EndOf
  <2> QED
    BY <2>1, <2>2, <2>5 DEF OperationsClosed
<1> QED
  BY <1>1, <1>2 DEF SuccessorsFollow

(***************************************************************************)
(* The code goes from each operation to the successors the function names, *)
(* for every well-formed function and whatever the lengths of its          *)
(* instructions are.                                                       *)
(***************************************************************************)
THEOREM CodeFollowsFunction == Spec => []SuccessorsFollow
<1>1. Init => IInv
  BY InitIInv
<1>2. IInv /\ [Next]_vars => IInv'
  BY NextIInv
<1>3. IInv => SuccessorsFollow
  BY IInvSuccessorsFollow
<1> QED
  BY <1>1, <1>2, <1>3, PTL DEF Spec

(***************************************************************************)
(* The processor never leaves the code and never runs into the middle of   *)
(* an instruction, whichever way the branches go and however long it runs. *)
(***************************************************************************)
THEOREM ProcessorStaysOnCode == Spec => []ProcessorOnCode
<1>1. Init => IInv
  BY InitIInv
<1>2. IInv /\ [Next]_vars => IInv'
  BY NextIInv
<1>3. IInv => ProcessorOnCode
  BY DEF IInv
<1> QED
  BY <1>1, <1>2, <1>3, PTL DEF Spec

=============================================================================
