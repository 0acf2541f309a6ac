---------------------------- MODULE IrCompiler ------------------------------
(***************************************************************************)
(* The translation of a function to machine code (ir_compiler.c) and the   *)
(* run of that code.  Operations are laid out in the order of the array;   *)
(* an operation whose successor does not come next is followed by a jump,  *)
(* and jumps get their distance when every operation has its place.  What  *)
(* the instructions of an operation compute is left out, their length is   *)
(* not: everything here is about offsets.                                  *)
(***************************************************************************)
EXTENDS IrNode

CONSTANTS
  HeaderSize,   \* bytes of the function header
  BodySizes,    \* bytes its instructions may take, by the code of an operation
  BranchSize,   \* bytes of a conditional jump
  JumpSize,     \* bytes of a jump
  Garbage       \* the distance of a jump before it is patched

VARIABLES
  ops,       \* "operations" of the function
  emitted,   \* how many of them are in the buffer
  length,    \* bytes in the buffer
  code,      \* the buffer: its instructions, each with its offset
  offsetOf,  \* "operationBufferOffsetMap": the offset of each operation
  jumps,     \* "jumpList"
  patched,   \* how many jumps have their distance
  phase,     \* "emit", "patch", "run", or "halted"
  pc,        \* where the processor is
  trace      \* history: what the function did, and how it branched

compilerVars == <<ops, emitted, length, code, offsetOf, jumps, patched>>
vars == <<compilerVars, phase, pc, trace>>

ASSUME CompilerAssumption ==
  /\ HeaderSize \in Nat
  /\ BodySizes \in [Code -> SUBSET Nat]
  /\ BodySizes["none"] = {0}
  /\ \A c \in Code \ {"none"} : 0 \notin BodySizes[c]
  /\ BranchSize \in Nat \ {0}
  /\ JumpSize \in Nat \ {0}

\* What the compiler takes from the builder: the successors of an operation are
\* operations of the function, and only a return has none.
WellFormed(f) ==
  /\ Len(f) \in Nat \ {0} /\ DOMAIN f = 1 .. Len(f)
  /\ \A i \in DOMAIN f :
       /\ f[i].code \in Code
       /\ f[i].main \in {NULL} \cup DOMAIN f
       /\ f[i].extra \in {NULL} \cup DOMAIN f
       /\ f[i].code = "return" <=> f[i].main = NULL
       /\ f[i].code = "jump_if_false" <=> f[i].extra # NULL

-----------------------------------------------------------------------------

\* An instruction at an offset of the buffer, and the end of it.
Instruction(at, size, kind, op) ==
  [at |-> at, size |-> size, kind |-> kind, op |-> op, distance |-> Garbage]
End(instruction) == instruction.at + instruction.size

Init ==
  /\ WellFormed(ops)
  /\ emitted = 0
  /\ length = HeaderSize
  /\ code = <<>>
  /\ offsetOf = <<>>
  /\ jumps = <<>>
  /\ patched = 0
  /\ phase = "emit"
  /\ pc = 0
  /\ trace = <<>>

\* Mutant of NeedsJump: a successor laid out before the operation is forgotten.
NeedsJumpForward(i) == ops[i].main # NULL /\ ops[i].main > i + 1

\* The operation does not run on into the one laid out behind it.
NeedsJump(i) == ops[i].main # NULL /\ ops[i].main # i + 1

IsBranch(i) == ops[i].code = "jump_if_false"

\* Where operation i ends whose instructions end at "body".
BranchEnd(i, body) == body + (IF IsBranch(i) THEN BranchSize ELSE 0)
OperationEnd(i, body) == BranchEnd(i, body) + (IF NeedsJump(i) THEN JumpSize ELSE 0)

\* The item if it is there.
Optional(present, item) == IF present THEN <<item>> ELSE <<>>

JumpInfo(from, to) == [from |-> from, to |-> to]

(***************************************************************************)
(* A turn of the loop over the operations of the function.  How long the   *)
(* instructions are depends on the operands; an unknown code breaks.       *)
(***************************************************************************)
Emit ==
  /\ phase = "emit" /\ emitted < Len(ops)
  /\ ops[emitted + 1].code \in Code
  /\ LET i == emitted + 1 IN
       \E size \in BodySizes[ops[i].code] :
         LET body == length + size
             branch == BranchEnd(i, body)
             end == OperationEnd(i, body)
         IN  /\ offsetOf' = Append(offsetOf, length)
             /\ code' = code
                  \o Optional(size > 0, Instruction(length, size, "body", i))
                  \o Optional(IsBranch(i), Instruction(body, BranchSize, "branch", i))
                  \o Optional(NeedsJump(i), Instruction(branch, JumpSize, "jump", i))
             /\ jumps' = jumps
                  \o Optional(IsBranch(i), JumpInfo(branch, ops[i].extra))
                  \o Optional(NeedsJump(i), JumpInfo(end, ops[i].main))
             /\ length' = end
  /\ emitted' = emitted + 1
  /\ UNCHANGED <<ops, patched, phase, pc, trace>>

StartPatch ==
  /\ phase = "emit" /\ emitted = Len(ops)
  /\ phase' = "patch"
  /\ UNCHANGED <<compilerVars, pc, trace>>

\* Mutant of Distance: it is counted from the start of the jump.
DistanceFromStart(jump) == offsetOf[jump.to] - (jump.from - JumpSize)

\* Mutant of Distance: the ends are exchanged.
DistanceReversed(jump) == jump.from - offsetOf[jump.to]

\* The processor adds the distance to the offset behind the jump.
Distance(jump) == offsetOf[jump.to] - jump.from

(***************************************************************************)
(* A turn of the loop over the list of jumps.                              *)
(***************************************************************************)
Patch ==
  /\ phase = "patch" /\ patched < Len(jumps)
  /\ LET jump == jumps[patched + 1] IN
       code' = [k \in DOMAIN code |->
                  IF End(code[k]) = jump.from
                  THEN [code[k] EXCEPT !.distance = Distance(jump)]
                  ELSE code[k]]
  /\ patched' = patched + 1
  /\ UNCHANGED <<ops, emitted, length, offsetOf, jumps, phase, pc, trace>>

\* The finished code is copied to executable memory and called there.
StartRun ==
  /\ phase = "patch" /\ patched = Len(jumps)
  /\ phase' = "run"
  /\ pc' = HeaderSize
  /\ UNCHANGED <<compilerVars, trace>>

\* The instruction the processor is at.
At(k) == phase = "run" /\ k \in DOMAIN code /\ code[k].at = pc

RunBody(k) ==
  /\ At(k) /\ code[k].kind = "body"
  /\ trace' = IF IsBranch(code[k].op) THEN trace ELSE Append(trace, ops[code[k].op].event)
  /\ IF ops[code[k].op].code = "return"
     THEN phase' = "halted" /\ UNCHANGED pc
     ELSE pc' = End(code[k]) /\ UNCHANGED phase
  /\ UNCHANGED compilerVars

RunBranch(k) ==
  /\ At(k) /\ code[k].kind = "branch"
  /\ \E holds \in BOOLEAN :
       /\ trace' = Append(trace, <<ops[code[k].op].event[1], IF holds THEN "then" ELSE "else">>)
       /\ pc' = IF holds THEN End(code[k]) ELSE End(code[k]) + code[k].distance
  /\ UNCHANGED <<compilerVars, phase>>

RunJump(k) ==
  /\ At(k) /\ code[k].kind = "jump"
  /\ pc' = End(code[k]) + code[k].distance
  /\ UNCHANGED <<compilerVars, phase, trace>>

Run == \E k \in DOMAIN code : RunBody(k) \/ RunBranch(k) \/ RunJump(k)

Next == Emit \/ StartPatch \/ Patch \/ StartRun \/ Run

Spec == Init /\ [][Next]_vars /\ WF_vars(Next)

-----------------------------------------------------------------------------

\* The operation that follows when instruction k is a jump that is taken.
Target(k) ==
  IF code[k].kind = "branch" THEN ops[code[k].op].extra ELSE ops[code[k].op].main

(***************************************************************************)
(* When the code runs, every jump leads to the first byte of the operation *)
(* that the function names as its successor, in whichever direction and    *)
(* over however many operations and further jumps.                         *)
(***************************************************************************)
JumpsLand ==
  phase \in {"run", "halted"} =>
    \A k \in DOMAIN code :
      code[k].kind # "body" => End(code[k]) + code[k].distance = offsetOf[Target(k)]

(***************************************************************************)
(* An operation that is not left by a jump is left through its end, and    *)
(* there its successor begins.                                             *)
(***************************************************************************)
RunsOnIntoSuccessor ==
  phase \in {"run", "halted"} =>
    \A i \in DOMAIN ops :
      LET after == {k \in DOMAIN code : code[k].op = i /\ code[k].kind = "jump"}
          last == {k \in DOMAIN code : code[k].op = i}
      IN  ops[i].main # NULL /\ after = {} =>
            IF last = {} THEN offsetOf[ops[i].main] = offsetOf[i]
            ELSE \E k \in last : offsetOf[ops[i].main] = End(code[k])

\* Both: the code goes from each operation to its successors and nowhere else.
SuccessorsFollow == JumpsLand /\ RunsOnIntoSuccessor

=============================================================================
