--------------------------- MODULE CodeGeneration ---------------------------
(***************************************************************************)
(* A program from its statements to its run: the builder strings the       *)
(* operations together, the compiler lays them out, the processor runs the *)
(* code.  What the run does is compared with what the statements mean.     *)
(***************************************************************************)
EXTENDS IrBuilder, IrCompiler

CONSTANT Programs  \* lists of statements

VARIABLE program

programVars == <<program, vars>>

ProgramInit ==
  /\ program \in Programs
  /\ phase = "build"
  /\ ops = <<>> /\ emitted = 0 /\ length = HeaderSize /\ code = <<>>
  /\ offsetOf = <<>> /\ jumps = <<>> /\ patched = 0
  /\ pc = 0 /\ trace = <<>>

(***************************************************************************)
(* ketl_ir_builder_build, as called for a source without parameters.       *)
(***************************************************************************)
BuildFunction ==
  /\ phase = "build"
  /\ LET b == Built(program) IN
       IF b.stopped
       THEN phase' = "stopped" /\ UNCHANGED ops
       ELSE phase' = "emit" /\ ops' = Function(b)
  /\ UNCHANGED <<program, emitted, length, code, offsetOf, jumps, patched, pc, trace>>

CompileAndRun == Next /\ UNCHANGED program

ProgramNext == BuildFunction \/ CompileAndRun

\* The one thread runs on, once a function is built.
ProgramSpec == ProgramInit /\ [][ProgramNext]_programVars /\ WF_programVars(CompileAndRun)

-----------------------------------------------------------------------------

(***************************************************************************)
(* What statements mean, told without ranges, jumps or offsets: the set of *)
(* their possible runs, each with its events and whether it returned.      *)
(***************************************************************************)
RunOf(events, returned) == [events |-> events, returned |-> returned]

Times(count, event) == [k \in 1 .. count |-> event]

RECURSIVE Runs(_, _), RunsOfList(_, _, _)

RunsOfList(list, k, path) ==
  IF k > Len(list) THEN {RunOf(<<>>, FALSE)}
  ELSE UNION {IF first.returned THEN {first}
              ELSE {RunOf(first.events \o rest.events, rest.returned) :
                      rest \in RunsOfList(list, k + 1, path)} :
                first \in Runs(list[k], Append(path, k))}

Runs(s, path) ==
  LET work == Times(s.work, <<path, "work">>)
      Then(prefix, runs) == {RunOf(prefix \o r.events, r.returned) : r \in runs}
  IN  CASE s.kind = "do" -> {RunOf(work, FALSE)}
         [] s.kind = "define" -> {RunOf(Append(work, <<path, "copy">>), FALSE)}
        [] s.kind = "return" ->
             {RunOf(work \o Times(s.casts, <<path, "cast">>) \o <<<<path, "return">>>>, TRUE)}
        [] s.kind = "block" -> RunsOfList(s.body, 1, path)
        [] s.kind = "if" ->
             Then(Append(work, <<path, "then">>), Runs(s.body[1], Append(path, 1)))
             \cup Then(Append(work, <<path, "else">>),
                       IF Len(s.body) = 1 THEN {RunOf(<<>>, FALSE)}
                       ELSE Runs(s.body[2], Append(path, 2)))

Traces(list) ==
  {IF r.returned THEN r.events ELSE Append(r.events, <<<<>>, "return">>) :
     r \in RunsOfList(list, 1, <<>>)}

-----------------------------------------------------------------------------

RECURSIVE Empty(_), AlwaysReturns(_), Unreachable(_), ReturnValues(_)

\* Statements that build no operation.
Empty(s) == s.kind = "block" /\ \A k \in DOMAIN s.body : Empty(s.body[k])

AlwaysReturns(s) ==
  \/ s.kind = "return"
  \/ s.kind = "block" /\ \E k \in DOMAIN s.body : AlwaysReturns(s.body[k])
  \/ s.kind = "if" /\ Len(s.body) = 2 /\ AlwaysReturns(s.body[1]) /\ AlwaysReturns(s.body[2])

\* A statement stands behind one that always returns.
Unreachable(s) ==
  \/ s.kind = "block" /\ \E j, k \in DOMAIN s.body :
       j < k /\ AlwaysReturns(s.body[j]) /\ ~Empty(s.body[k])
  \/ \E k \in DOMAIN s.body : Unreachable(s.body[k])

\* Whether the returns of a statement have a value.
ReturnValues(s) ==
  (IF s.kind = "return" THEN {s.value} ELSE {})
    \cup UNION {ReturnValues(s.body[k]) : k \in DOMAIN s.body}

Whole(list) == Statement("block", 0, 0, FALSE, list)

\* Some ends of the program return a value and others do not.
MixedReturns(list) ==
  LET ends == ReturnValues(Whole(list))
                \cup (IF AlwaysReturns(Whole(list)) THEN {} ELSE {FALSE})
  IN  ends = BOOLEAN

-----------------------------------------------------------------------------

(***************************************************************************)
(* Types of what the compiler builds up, and of where the processor is.    *)
(***************************************************************************)
TypeOK ==
  /\ \A i \in DOMAIN ops : ops[i].code \in Code
  /\ emitted \in 0 .. Len(ops)
  /\ length \in Nat
  /\ DOMAIN offsetOf = 1 .. emitted
  /\ \A k \in DOMAIN code :
       /\ code[k].kind \in {"body", "branch", "jump"}
       /\ code[k].op \in DOMAIN ops
       /\ code[k].size > 0
  /\ patched \in 0 .. Len(jumps)
  /\ phase \in {"build", "stopped", "emit", "patch", "run", "halted"}
  /\ pc \in 0 .. length

(***************************************************************************)
(* What the builder hands over is what the compiler takes for granted:     *)
(* every operation was filled, and its successors are in the function,     *)
(* however blocks, ends of blocks and returns are nested.                  *)
(***************************************************************************)
BuiltIsWellFormed == phase = "emit" => WellFormed(ops)

(***************************************************************************)
(* The machine code does what the statements say: whatever the conditions  *)
(* turn out to be, the operations that ran are those of a run of the       *)
(* program, in its order.                                                  *)
(***************************************************************************)
AsWritten == phase = "halted" => trace \in Traces(program)

(***************************************************************************)
(* The builder gives up, by a null dereference or the break of an error,   *)
(* exactly on programs with a statement that is never reached and on those *)
(* of which only some ends return a value.                                 *)
(***************************************************************************)
StopsOnlyForReturns ==
  phase # "build" =>
    (phase = "stopped" <=> Unreachable(Whole(program)) \/ MixedReturns(program))

(***************************************************************************)
(* Compilation ends, and the code returns to its caller: no jump leads in  *)
(* a circle, out of the code or between two instructions.                  *)
(***************************************************************************)
ReturnsToCaller == phase = "emit" ~> phase = "halted"

=============================================================================
