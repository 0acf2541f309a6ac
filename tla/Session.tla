------------------------------ MODULE Session ------------------------------
(***************************************************************************)
(* The state as a program uses it (ketl.c): it defines external variables, *)
(* compiles functions and calls them, in any order.  A source is made up   *)
(* statement by statement while it is built.                               *)
(***************************************************************************)
EXTENDS Frame

CONSTANTS
  ExternalNames, ExternalTypes,  \* external variables a program defines
  ParameterLists,  \* parameters of the functions it compiles
  Definitions,     \* definitions in sources: [type, name, expression]
  Statements,      \* expressions that are statements
  Conditions,      \* expressions in an if
  Results,         \* expressions that are returned
  MaxStatements,   \* bounds: statements in the first source, the second, and so on
  MaxDepth,        \* bound: constructs that are open at a time
  MaxExternals,    \* bound: definitions of externals
  MaxCalls         \* bound: calls

VARIABLES
  functions,  \* the compiled functions, in the order of their compilation
  calls,      \* how many calls there were
  last        \* history: what the last call did, and what it was to do

vars == <<builderVars, functions, calls, last>>

Outcome(value, conditions, values, frame) ==
  [value |-> value, conditions |-> conditions, externals |-> values, frame |-> frame]

NoOutcome == Outcome(NULL, <<>>, <<>>, {CallerBase, ReturnAddress})

Init ==
  /\ BuilderInit
  /\ functions = <<>>
  /\ calls = 0
  /\ last = [did |-> NoOutcome, meant |-> NoOutcome]

Build ==
  /\ phase = "build"
  /\ \/ Len(wip.meant) < MaxStatements[Len(functions) + 1]
        /\ \/ \E d \in Definitions : DefineVariable(d.type, d.name, d.expression)
           \/ \E e \in Statements : Evaluate(e)
           \/ \E e \in Results : Return(e)
           \/ ReturnVoid
           \/ Len(wip.open) < MaxDepth
              /\ (EnterBlock \/ \E e \in Conditions, hasElse \in BOOLEAN : EnterIf(e, hasElse))
     \/ LeaveBlock \/ EnterElse \/ LeaveIf \/ Finish
  /\ UNCHANGED <<functions, calls, last>>

(***************************************************************************)
(* ketl_state_compile_function, and ketl_state_eval, which makes the       *)
(* variables at the top of its source external ones.                       *)
(***************************************************************************)
Start ==
  /\ Len(functions) < Len(MaxStatements)
  /\ \/ \E parameters \in ParameterLists : Begin(parameters, FALSE)
     \/ Begin(<<>>, TRUE)
  /\ UNCHANGED <<functions, calls, last>>

\* The rest of ketl_state_compile_function_impl.  Where a run leaves the form
\* "widened_return" out, a source of that form is built and not compiled.
Compile ==
  /\ phase = "built"
  /\ Loose(wip) # {} => "widened_return" \in Forms
  /\ \E stale \in IF Loose(wip) = {} THEN {0} ELSE Range(SizeOf) :
       LET f == FunctionOf(wip, stale) IN
         IF Compilable(f)
         THEN functions' = Append(functions, f) /\ phase' = "idle"
         ELSE phase' = "stopped" /\ UNCHANGED functions
  /\ wip' = NoFunction
  /\ UNCHANGED <<strings, globals, externals, calls, last>>

DefineVariables ==
  /\ Len(externals) < MaxExternals
  /\ \E name \in ExternalNames, type \in ExternalTypes : DefineExternal(name, type)
  /\ UNCHANGED <<functions, calls, last>>

-----------------------------------------------------------------------------
(***************************************************************************)
(* What a call is to do, told with the statements of the source and the    *)
(* variables their names are bound to, without types, places or            *)
(* conversions.                                                            *)
(***************************************************************************)

RECURSIVE Value(_, _)

Value(store, e) ==
  CASE e.kind = "variable" -> store[e.variable]
    [] e.kind = "number" -> <<e.text>>
    [] e.kind = "binary" -> <<e.operator, Value(store, e.lhs), Value(store, e.rhs)>>

IsAssignment(e) == e.kind = "binary" /\ e.operator = ":=" /\ e.lhs.kind = "variable"

Perform(run, s) ==
  CASE s.kind = "define" -> [run EXCEPT !.store[s.variable] = Value(run.store, s.expression)]
    [] s.kind = "evaluate" /\ IsAssignment(s.expression) ->
         [run EXCEPT !.store[s.expression.lhs.variable] = Value(run.store, s.expression.rhs)]
    [] s.kind = "test" ->
         [run EXCEPT !.conditions = Append(@, Value(run.store, s.expression))]
    [] s.kind = "return" ->
         [run EXCEPT !.returned = TRUE,
                     !.value = IF s.expression = NULL THEN NULL ELSE Value(run.store, s.expression)]
    [] OTHER -> run

Meant(f, values, way) ==
  LET store == [v \in DOMAIN f.vars |->
        CASE f.vars[v].kind = "reference" -> values[v]
          [] f.vars[v].kind = "parameter" ->
               Argument(CHOOSE k \in DOMAIN f.parameters : f.parameters[k] = v)
          [] OTHER -> Garbage]
      run == FoldLeft(LAMBDA r, s : IF r.returned \/ ~OnTheWay(s.path, way) THEN r ELSE Perform(r, s),
               [store |-> store, conditions |-> <<>>, returned |-> FALSE, value |-> NULL], f.meant)
      after == [v \in DOMAIN values |->
                 IF v \in DOMAIN f.vars /\ f.vars[v].kind = "reference" THEN run.store[v] ELSE values[v]]
  IN  Outcome(run.value, run.conditions, after, {CallerBase, ReturnAddress})

\* A call with arguments, whichever way its conditions turn out.
Call(f, way) ==
  LET values == [v \in DOMAIN externals |-> externals[v].value]
      run == Run(f, values, way)
  IN  /\ calls < MaxCalls /\ phase = "idle"
      /\ calls' = calls + 1
      /\ externals' = [v \in DOMAIN externals |-> [externals[v] EXCEPT !.value = run.externals[v]]]
      /\ last' = [did |-> Outcome(run.value, run.conditions, run.externals,
                                  run.memory \cap {CallerBase, ReturnAddress}),
                  meant |-> Meant(f, values, way)]
      /\ UNCHANGED <<strings, globals, wip, phase, functions>>

Next ==
  \/ DefineVariables \/ Start \/ Build \/ Compile
  \/ \E f \in Range(functions) : \E way \in [1 .. f.ifs -> BOOLEAN] : Call(f, way)

Spec == Init /\ [][Next]_vars

-----------------------------------------------------------------------------

(***************************************************************************)
(* Types of what the state and the builder keep.                           *)
(***************************************************************************)
TypeOK ==
  /\ phase \in {"idle", "build", "built", "stopped"}
  /\ \A key \in DOMAIN globals : globals[key] \in DOMAIN externals
  /\ \A v \in DOMAIN externals : externals[v].type \in DOMAIN SizeOf
  /\ \A key \in DOMAIN wip.map : wip.map[key] # <<>> /\ \A k \in DOMAIN wip.map[key] :
       wip.map[key][k].variable \in DOMAIN wip.vars /\ wip.map[key][k].scope \in 0 .. wip.scope
  /\ \A v \in DOMAIN wip.vars : wip.vars[v].parent \in {NULL} \cup 1 .. v - 1
  /\ phase = "build" => Len(wip.path) <= Len(wip.open)
  /\ calls \in 0 .. MaxCalls

(***************************************************************************)
(* The scopes of a source: what each scope defines is read off the map of  *)
(* variables, whose chains know only the number of a scope.                *)
(***************************************************************************)
NameOf(key) == strings.texts[key]

ScopeOf(scope) ==
  LET Here(key) == {k \in DOMAIN wip.map[key] : wip.map[key][k].scope = scope}
      keys == {key \in DOMAIN wip.map : Here(key) # {}}
  IN  [name \in {NameOf(key) : key \in keys} |->
        LET key == CHOOSE k \in keys : NameOf(k) = name
        IN  wip.map[key][CHOOSE k \in Here(key) : TRUE].variable]

Lexical == INSTANCE LexicalScopes WITH
  Names <- DOMAIN HashOf,
  Definitions <- Nat,
  scopes <- IF phase = "build" THEN [i \in 1 .. wip.scope + 1 |-> ScopeOf(i - 1)] ELSE <<>>,
  externals <- [name \in {NameOf(key) : key \in DOMAIN globals} |->
                 globals[CHOOSE key \in DOMAIN globals : NameOf(key) = name]],
  used <- IF phase = "build" THEN wip.used ELSE {}

ImplementsLexical == Lexical!Spec

-----------------------------------------------------------------------------
(***************************************************************************)
(* Types, told without lists of options: the type of an expression is the  *)
(* one for which its operands are converted at the least cost.             *)
(***************************************************************************)

\* What it costs to take a value for a type, and the types it may be taken for.
Cost(from, literal, to) ==
  IF literal THEN (IF to = "i64" THEN 0 ELSE 1) ELSE (IF to = from THEN 0 ELSE 1)
TakenFor(from) == {from} \cup {to \in DOMAIN SizeOf : <<from, to>> \in Implicit}

Typed(type, literal) == [type |-> type, literal |-> literal]

\* The types of the least total cost that all of some typed values may be taken for.
Cheapest(values, among) ==
  LET common == {t \in among : \A k \in DOMAIN values : t \in TakenFor(values[k].type)}
      Total(t) == FoldLeft(LAMBDA n, v : n + Cost(v.type, v.literal, t), 0, values)
  IN  {t \in common : \A u \in common : Total(t) <= Total(u)}

RECURSIVE TypeOf(_, _)

TypeOf(variables, e) ==
  CASE e.kind = "variable" -> Typed(variables[e.variable].type, FALSE)
    [] e.kind = "number" -> Typed(e.type, TRUE)
    [] e.kind = "binary" ->
         LET operands == Cheapest(<<TypeOf(variables, e.lhs), TypeOf(variables, e.rhs)>>,
                                  ToSet(BinaryOperators(e.operator)))
         IN  Typed(OutputType(e.operator, CHOOSE t \in operands : operands = {t}), FALSE)

\* Every variable has a type its value takes at the least cost, every expression has a
\* type at all, and what a function returns is of the cheapest type that all its returns
\* can be converted to.
CheapestChosen ==
  LET Expression(k) == wip.meant[k].expression
      returned == SelectSeq(wip.meant, LAMBDA s : s.kind = "return" /\ s.expression # NULL)
      \* Definitions without a type of their own.
      Deduced(k) == wip.meant[k].kind = "define" /\ ~wip.meant[k].declared
  IN  /\ \A k \in DOMAIN wip.meant :
           Expression(k) # NULL => TypeOf(wip.vars, Expression(k)).type \in DOMAIN SizeOf
      /\ \A k \in DOMAIN wip.meant :
           Deduced(k) => wip.vars[wip.meant[k].variable].type
                           \in Cheapest(<<TypeOf(wip.vars, Expression(k))>>, DOMAIN SizeOf)
      /\ phase = "built" =>
           IF returned = <<>> THEN wip.type = "void"
           ELSE wip.type \in Cheapest([k \in DOMAIN returned |-> TypeOf(wip.vars, returned[k].expression)],
                                      DOMAIN SizeOf)

RECURSIVE Typable(_, _)

\* Every operator of an expression has operand types that cost less than all others.
Typable(variables, e) ==
  e.kind = "binary" =>
    /\ Typable(variables, e.lhs) /\ Typable(variables, e.rhs)
    /\ Cardinality(Cheapest(<<TypeOf(variables, e.lhs), TypeOf(variables, e.rhs)>>,
                            ToSet(BinaryOperators(e.operator)))) = 1

\* Why an expression has no type: a name nobody defined, or operands without a cheapest type.
Meaningless(e) ==
  \/ \E name \in ToSet(NamesIn(e)) : Lookup(strings', wip, name) = <<>>
  \/ ~Typable(wip.vars, Bound(strings', wip, e))

TakenAs(e, type) == type \in TakenFor(TypeOf(wip.vars, Bound(strings', wip, e)).type)

\* Why the end of a source may refuse it: a path that returns nothing beside one that
\* returns a value, or values that no type suits.
ReturnsClash ==
  LET valued == SelectSeq(wip.meant, LAMBDA s : s.kind = "return" /\ s.expression # NULL)
      types == [k \in DOMAIN valued |-> TypeOf(wip.vars, valued[k].expression)]
  IN  Len(valued) < Len(wip.returns) \/ ~wip.ended \/ Cheapest(types, DOMAIN SizeOf) = {}

\* A step that has a reason to refuse what it builds.
HasReason ==
  /\ \A e \in Results : Return(e) => Meaningless(e)
  /\ \A e \in Statements : Evaluate(e) => Meaningless(e)
  /\ \A e \in Conditions, hasElse \in BOOLEAN :
       EnterIf(e, hasElse) => Meaningless(e) \/ ~TakenAs(e, "bool")
  /\ \A d \in Definitions : DefineVariable(d.type, d.name, d.expression) =>
       \/ Redefines(wip, KeyOf(strings', d.name), wip.scope)
       \/ Meaningless(d.expression)
       \/ d.type # NULL /\ ~TakenAs(d.expression, d.type)
  /\ Finish => ReturnsClash

(***************************************************************************)
(* What the builder chooses is the cheapest, and it refuses ("Can't deduce *)
(* operator call", "Can't deduce return type") only what has no cheapest   *)
(* types: costs that meet by accident, those of another operator or of a   *)
(* list that is rebuilt while it is walked, neither decide nor refuse.     *)
(***************************************************************************)
TypesAreCheapest == []CheapestChosen /\ [][phase' = "stopped" => HasReason]_vars

-----------------------------------------------------------------------------

Reads(op) == IF op.code = ":=" THEN {op.operands[2]} ELSE Range(op.operands)
Writes(op) == ({op.target} \ {NULL}) \cup (IF op.code = ":=" THEN {op.operands[1]} ELSE {})

\* The bytes of a variable of the frame.
Bytes(f, v) == Cell(f.places[v], SizeOf[f.vars[v].type], NULL)
Overlap(f, u, v) == ~Apart(Bytes(f, u), Bytes(f, v))

\* The operations on the way before the k-th that write over a variable.
WritesOver(f, way, k, v) ==
  {j \in 1 .. k - 1 : OnTheWay(f.ops[j].path, way) /\
     \E u \in Writes(f.ops[j]) \cap DOMAIN f.places : Overlap(f, u, v)}

(***************************************************************************)
(* Variables share bytes of the frame only when the one is not needed any  *)
(* more: on every way through a function, an operation that reads a        *)
(* variable finds what was last written to that variable.  Parameters      *)
(* share no bytes with one another or with the function, and nothing lies  *)
(* outside the frame.                                                      *)
(***************************************************************************)
FrameKept ==
  phase = "idle" => \A f \in Range(functions) :
    /\ \A way \in [1 .. f.ifs -> BOOLEAN], k \in DOMAIN f.ops :
         OnTheWay(f.ops[k].path, way) =>
           \A v \in Reads(f.ops[k]) \cap DOMAIN f.places :
             LET over == WritesOver(f, way, k, v) IN
               IF over = {} THEN v \in Range(f.parameters)
               ELSE v \in Writes(f.ops[CHOOSE j \in over : \A i \in over : i <= j])
    /\ \A p \in Range(f.parameters) :
         /\ \A q \in Range(f.parameters) \ {p} : ~Overlap(f, p, q)
         /\ Apart(Bytes(f, p), Cell(PlaceOfFunction(f), Pointer, NULL))
    /\ \A v \in DOMAIN f.places :
         f.places[v] < 0 => f.places[v] >= - f.size /\ Bytes(f, v).high <= 0

(***************************************************************************)
(* A call does what the source says: the value it returns, the values its  *)
(* conditions had and what it leaves in the external variables are those   *)
(* of the statements, and the frame of the caller is untouched.            *)
(***************************************************************************)
ResultIsMeant == last.did = last.meant

=============================================================================
