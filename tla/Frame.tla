------------------------------- MODULE Frame -------------------------------
(***************************************************************************)
(* The frame of a function (bakeStackUsage of ir_builder.c, and            *)
(* ir_compiler.c on Linux): the place of every variable below the base     *)
(* pointer, the parameters that the header stores there, and what the      *)
(* operations read and write.  A value is the term that computes it, and   *)
(* memory is a set of cells: reading other bytes than were written         *)
(* together yields garbage.                                                *)
(***************************************************************************)
EXTENDS FunctionBuilder

\* parameterRegs: the function itself comes in the first.
ParameterRegs == 6
StoredRegs == ParameterRegs - 1
Pointer == 8

Garbage == <<"garbage">>

Smaller(m, n) == IF m <= n THEN m ELSE n

-----------------------------------------------------------------------------

\* bakeStackUsage: a variable begins where the one it is stacked upon ends.
Offset(vars) ==
  LET offset[v \in DOMAIN vars] ==
        LET below == vars[v].parent IN
          IF below = NULL THEN 0 ELSE offset[below] + SizeOf[vars[below].type]
  IN  offset

InFrame(vars) == {v \in DOMAIN vars : vars[v].kind = "stack" /\ vars[v].attached}

StackUsage(vars) ==
  LET ends == {Offset(vars)[v] + SizeOf[vars[v].type] : v \in InFrame(vars)}
  IN  CHOOSE n \in ends \cup {0} : \A m \in ends : m <= n

\* The offset of a parameter behind the function, in ketl_ir_builder_build.
ParameterOffset(vars, parameters, k) ==
  FoldLeft(LAMBDA offset, p : offset + SizeOf[vars[p].type], Pointer, SubSeq(parameters, 1, k - 1))

ParameterEnd(vars, parameters, k) ==
  ParameterOffset(vars, parameters, k) + SizeOf[vars[parameters[k]].type]

\* How many parameters come in registers.
InRegisters(parameters) == Smaller(Len(parameters), ParameterRegs - 1)

\* "regParametersSize".
RegistersSize(vars, parameters) ==
  IF parameters = <<>> THEN Pointer ELSE ParameterEnd(vars, parameters, InRegisters(parameters))

RoundedUp(n) == ((n + 15) \div 16) * 16

FrameSize(vars, parameters) == RoundedUp(StackUsage(vars) + RegistersSize(vars, parameters))

\* ketl_ir_compiler_adapt_ir: parameters from registers lie below the variables,
\* the others are left above the return address by the caller.
PlaceOfParameter(vars, parameters, k) ==
  IF k <= InRegisters(parameters) THEN - (StackUsage(vars) + ParameterEnd(vars, parameters, k))
  ELSE (k - InRegisters(parameters) + 1) * Pointer

(***************************************************************************)
(* The lowest byte of each variable.  A temporary that no variable leads   *)
(* to was given no place: it is where its size, which was not set either,  *)
(* happens to put it.                                                      *)
(***************************************************************************)
Places(vars, parameters, stale) ==
  LET Of(v) ==
        IF vars[v].kind = "parameter"
        THEN PlaceOfParameter(vars, parameters, CHOOSE k \in DOMAIN parameters : parameters[k] = v)
        ELSE IF v \in InFrame(vars) THEN - (Offset(vars)[v] + SizeOf[vars[v].type])
        ELSE - stale
  IN  [v \in {u \in DOMAIN vars : vars[u].kind \in {"parameter", "stack"}} |-> Of(v)]

\* ketl_ir_function, as the builder and adapt_ir leave it.
FunctionOf(w, stale) ==
  [vars |-> w.vars, parameters |-> w.parameters, ops |-> w.ops, type |-> w.type,
   places |-> Places(w.vars, w.parameters, stale), size |-> FrameSize(w.vars, w.parameters),
   ifs |-> w.ifs, meant |-> w.meant]

\* The operations that ketl_ir_compiler_compile has instructions for; none of them
\* takes the address of a variable for the place to write to.
HasInstructions(f, op) ==
  /\ CASE op.code = "cast" -> op.type = "i64" /\ f.vars[op.operands[1]].type = "i32"
       [] op.code \in {"+", "*"} -> op.type \in {"i32", "i64"}
       [] op.code \in {"-", "==", "!=", ":="} -> op.type = "i64"
       [] op.code = "copy" -> SizeOf[op.type] \in {4, 8}
       [] op.code = "return" -> op.operands = <<>> \/ SizeOf[op.type] \in {4, 8}
       [] op.code = "test" -> TRUE
       [] OTHER -> FALSE
  /\ op.target # NULL => f.vars[op.target].kind # "pointer"
  /\ op.code = ":=" => f.vars[op.operands[1]].kind \notin {"pointer", "literal"}

Compilable(f) == \A k \in DOMAIN f.ops : HasInstructions(f, f.ops[k])

-----------------------------------------------------------------------------

Cell(low, size, value) == [low |-> low, high |-> low + size, value |-> value]
Apart(cell, other) == cell.high <= other.low \/ other.high <= cell.low

WriteCell(memory, cell) == {other \in memory : Apart(cell, other)} \cup {cell}

ReadCell(memory, low, size) ==
  LET cells == {cell \in memory : cell.low = low /\ cell.high = low + size}
  IN  IF cells = {} THEN Garbage ELSE (CHOOSE cell \in cells : TRUE).value

\* Above the base pointer: its value in the caller, the return address, and the
\* parameters for which no register was left.
CallerBase == Cell(0, Pointer, <<"base of the caller">>)
ReturnAddress == Cell(Pointer, Pointer, <<"return address">>)

Argument(k) == <<"argument", k>>

Entered(f) ==
  {CallerBase, ReturnAddress} \cup
  {LET p == f.parameters[k] IN Cell(f.places[p], SizeOf[f.vars[p].type], Argument(k)) :
     k \in InRegisters(f.parameters) + 1 .. Len(f.parameters)}

\* Where the header stores the function: behind the frame if it has no parameters.
PlaceOfFunction(f) ==
  IF f.parameters = <<>> THEN - (f.size + Pointer)
  ELSE LET first == f.parameters[1] IN f.places[first] + SizeOf[f.vars[first].type]

\* placeFunctionHeader.
Header(f) ==
  LET Store(memory, k) ==
        LET p == f.parameters[k] IN
          WriteCell(memory, Cell(f.places[p], SizeOf[f.vars[p].type], Argument(k)))
      stored == Smaller(Len(f.parameters), StoredRegs - 1)
  IN  FoldLeft(Store, WriteCell(Entered(f), Cell(PlaceOfFunction(f), Pointer, <<"function">>)),
               [k \in 1 .. stored |-> k])

-----------------------------------------------------------------------------
(***************************************************************************)
(* The run of an operation.  Which way an if goes is not computed: every   *)
(* way is tried, and the values of the conditions are kept.                *)
(***************************************************************************)

\* An operation is on the way through the branches.
OnTheWay(path, way) == \A k \in DOMAIN path : way[path[k].branch] = path[k].holds

\* loadArgumentIntoReg: a number written with more than 31 bits loses the rest.
Load(f, run, v, size) ==
  CASE f.vars[v].kind = "reference" -> run.externals[v]
    [] f.vars[v].kind = "literal" /\ f.vars[v].text = "wide" -> <<"low half of wide">>
    [] f.vars[v].kind = "literal" /\ f.vars[v].text # "wide" -> <<f.vars[v].text>>
    [] f.vars[v].kind = "pointer" -> <<"address">>
    [] OTHER -> ReadCell(run.memory, f.places[v], size)

\* loadRegIntoArgument.
Store(f, run, v, size, value) ==
  IF f.vars[v].kind = "reference" THEN [run EXCEPT !.externals[v] = value]
  ELSE [run EXCEPT !.memory = WriteCell(@, Cell(f.places[v], size, value))]

Execute(f, run, op) ==
  LET Operand(k, size) == Load(f, run, op.operands[k], size)
      size == SizeOf[op.type]
  IN  CASE op.code = "cast" ->
             Store(f, run, op.target, 8, Operand(1, 4))
        [] op.code \in {"+", "-", "*", "==", "!="} ->
             Store(f, run, op.target, SizeOf[f.vars[op.target].type],
                   <<op.code, Operand(1, size), Operand(2, size)>>)
        [] op.code = ":=" ->
             LET value == Operand(2, 8) IN
               Store(f, Store(f, run, op.operands[1], 8, value), op.target, 8, value)
        [] op.code = "copy" -> Store(f, run, op.target, size, Operand(1, size))
        [] op.code = "test" -> [run EXCEPT !.conditions = Append(@, Operand(1, 1))]
        [] op.code = "return" ->
             [run EXCEPT !.returned = TRUE,
                         !.value = IF op.operands = <<>> THEN NULL ELSE Operand(1, size)]

RunOperation(f, way, run, op) ==
  IF run.returned \/ ~OnTheWay(op.path, way) THEN run ELSE Execute(f, run, op)

\* What a call leaves: its value, the externals, and the frame of the caller.
Run(f, values, way) ==
  FoldLeft(LAMBDA run, op : RunOperation(f, way, run, op),
           [memory |-> Header(f), externals |-> values, conditions |-> <<>>,
            returned |-> FALSE, value |-> NULL],
           f.ops)

=============================================================================
