-------------------------- MODULE FunctionBuilder --------------------------
(***************************************************************************)
(* How the builder gives the names, the types and the places of a source   *)
(* their meaning (ir_builder.c): which variable a name stands for while    *)
(* scopes come and go, which conversions an expression takes, and where    *)
(* each variable is in the frame.  One statement of the source is one      *)
(* action.  The order in which the operations follow one another is the    *)
(* business of IrBuilder; here an operation only has the branches it is    *)
(* in.  An error that is logged ends the process.                          *)
(***************************************************************************)
EXTENDS AtomicStrings, Casting

CONSTANT
  Forms  \* the forms of sources, of those listed at Form, that are looked at

VARIABLES
  globals,    \* "variables" of the global namespace: the external of each key
  externals,  \* the variables behind it, each with its type and its value
  wip,        \* the KETLIRFunctionWIP and what its pools hold
  phase       \* "idle", "build", "built", or "stopped" by an error

builderVars == <<strings, globals, externals, wip, phase>>

\* Forms that the code gets wrong, or that another module is about.
Form == {"shadowed", "other_branch", "fifth_parameter", "narrow_assignment", "wide_literal",
         "widened_return"}

ASSUME FormsAssumption == Forms \subseteq Form

\* The primitive types in the order the state interns their names, and "types"
\* of the global namespace.
TypeNames == <<"void", "bool", "i8", "i16", "i32", "i64", "f32", "f64">>
TypeOfKey == [key \in DOMAIN TypeNames |-> TypeNames[key]]

-----------------------------------------------------------------------------

\* Expressions, as the syntax tree has them.
Id(name) == [kind |-> "id", name |-> name]
Number(text, type) == [kind |-> "number", text |-> text, type |-> type]
Binary(operator, lhs, rhs) == [kind |-> "binary", operator |-> operator, lhs |-> lhs, rhs |-> rhs]

RECURSIVE NamesIn(_)

NamesIn(e) ==
  CASE e.kind = "id" -> <<e.name>>
    [] e.kind = "number" -> <<>>
    [] e.kind = "binary" -> NamesIn(e.lhs) \o NamesIn(e.rhs)

\* A variable of the function: of the frame, or behind an external, or a number.
\* "parent" is the variable it is stacked upon, once it is "attached".
Variable(kind, type, text, path) ==
  [kind |-> kind, type |-> type, text |-> text, path |-> path, parent |-> NULL, attached |-> FALSE]

\* ketl_ir_operation, and the branches it is in.
Operation(code, type, target, operands, path) ==
  [code |-> code, type |-> type, target |-> target, operands |-> operands, path |-> path]

\* What a statement means, told with the variables its names are bound to.
Meaning(kind, variable, declared, expression, path) ==
  [kind |-> kind, variable |-> variable, declared |-> declared, expression |-> expression,
   path |-> path]

NoFunction ==
  [vars |-> <<>>, parameters |-> <<>>, export |-> FALSE, map |-> <<>>, scope |-> 1, current |-> NULL,
   temps |-> <<>>, open |-> <<>>, path |-> <<>>, ifs |-> 0, ended |-> FALSE, ops |-> <<>>,
   returns |-> <<>>, type |-> NULL, used |-> {}, meant |-> <<>>]

Add(w, variable) == [w EXCEPT !.vars = Append(@, variable)]
Newest(w) == Len(w.vars)
Emit(w, code, type, target, operands) ==
  [w EXCEPT !.ops = Append(@, Operation(code, type, target, operands, w.path))]

-----------------------------------------------------------------------------
(***************************************************************************)
(* Names.  "variablesMap" has, for the key of each name, its definitions   *)
(* from the innermost to the outermost.                                    *)
(***************************************************************************)

Definition(variable, scope) == [variable |-> variable, scope |-> scope]

\* What a name stands for: its definitions in the function, or the external.
Lookup(table, w, name) ==
  LET key == KeyOf(table, name) IN
    IF key \in DOMAIN w.map THEN [k \in DOMAIN w.map[key] |-> w.map[key][k].variable]
    ELSE IF key \in DOMAIN globals THEN <<globals[key]>>
    ELSE <<>>

\* Mutant of Define: the definition is not linked to the others.
DefineAlone(w, key, variable, scope) ==
  [w EXCEPT !.map = [k \in DOMAIN @ \cup {key} |->
     IF k # key THEN @[k] ELSE <<Definition(variable, scope)>>]]

\* A definition of a key hides the others.
Define(w, key, variable, scope) ==
  [w EXCEPT !.map = [k \in DOMAIN @ \cup {key} |->
     IF k # key THEN @[k]
     ELSE <<Definition(variable, scope)>> \o (IF key \in DOMAIN @ THEN @[key] ELSE <<>>)]]

\* The name has a definition in the very scope.
Redefines(w, key, scope) == key \in DOMAIN w.map /\ w.map[key][1].scope = scope

\* Mutant of Visible: a definition of the scope that ends is kept.
VisibleToo(definitions, scope) ==
  SelectSeq(definitions, LAMBDA definition : definition.scope <= scope + 1)

\* The definitions of a name that are left in a scope.
Visible(definitions, scope) ==
  LET first == SelectInSeq(definitions, LAMBDA definition : definition.scope <= scope)
  IN  IF first = 0 THEN <<>> ELSE SubSeq(definitions, first, Len(definitions))

\* restoreScopeContext.
RestoreScope(w, saved) ==
  LET left == {key \in DOMAIN w.map : Visible(w.map[key], saved.scope) # <<>>}
  IN  [w EXCEPT !.scope = saved.scope, !.current = saved.current,
                !.map = [key \in left |-> Visible(@[key], saved.scope)]]

-----------------------------------------------------------------------------
(***************************************************************************)
(* Places.  The variables of a statement are stacked upon the variables    *)
(* that are alive before it; the temporaries upon one another.             *)
(***************************************************************************)

\* createTempVariable; the chain may already be in its place, behind a return.
CreateTemp(w, type) ==
  LET last == IF w.temps = <<>> THEN NULL ELSE Last(w.temps)
      new == [Variable("stack", type, NULL, w.path) EXCEPT
                !.parent = last, !.attached = last # NULL /\ w.vars[last].attached]
  IN  [Add(w, new) EXCEPT !.temps = Append(@, Newest(w) + 1)]

Attach(w, variable, parent) ==
  [w EXCEPT !.vars[variable].parent = parent, !.vars[variable].attached = TRUE]

\* What comes next is stacked upon the local variable of the statement.
AttachLocal(w, local) ==
  IF local = NULL THEN w ELSE [Attach(w, local, w.current) EXCEPT !.current = local]

\* Mutant of AttachTemps: the temporaries are all stacked upon the same variable.
AttachTempsFlat(w) ==
  FoldLeft(LAMBDA v, temp : Attach(v, temp, v.current), [w EXCEPT !.temps = <<>>], w.temps)

AttachTemps(w) ==
  FoldLeft(LAMBDA v, k : Attach(v, w.temps[k], IF k = 1 THEN v.current ELSE w.temps[k - 1]),
           [w EXCEPT !.temps = <<>>], [k \in DOMAIN w.temps |-> k])

\* restoreLocalScopeContext.
RestoreLocal(w, local) == AttachTemps(AttachLocal(w, local))

-----------------------------------------------------------------------------
(***************************************************************************)
(* Expressions.  A value is the variables an expression may stand for, all *)
(* the definitions of a name together; none after an error.                *)
(***************************************************************************)

\* possibleCastingForDelegate: the options of an outer definition come first.
Options(w, value) ==
  LET Of(v) == PossibleCastings(v, w.vars[v].type, w.vars[v].kind = "literal")
  IN  FoldLeft(LAMBDA options, v : Of(v) \o options, <<>>, value)

\* Mutant of Convert: a value that needs a cast is used as it is.
ConvertNothing(w, option) == [wip |-> w, variable |-> option.variable]

\* convertValues: a number takes another type, a value is cast to a temporary.
Convert(w, option) ==
  LET v == option.variable
      temp == CreateTemp(w, option.to)
      Result(after, variable) == [wip |-> after, variable |-> variable]
  IN  IF w.vars[v].kind = "literal" THEN Result([w EXCEPT !.vars[v].type = option.to], v)
      ELSE IF ~option.cast THEN Result(w, v)
      ELSE Result(Emit(temp, "cast", option.to, Newest(temp), <<v>>), Newest(temp))

\* The item if it is there.
Optional(present, item) == IF present THEN <<item>> ELSE <<>>

Built(w, value) == [wip |-> w, value |-> value]

\* An operator on its converted operands.
Applied(w, operator, deduced, result) ==
  LET left == Convert(w, deduced.lhs)
      right == Convert(left.wip, deduced.rhs)
      typed == [right.wip EXCEPT !.vars[result].type = OutputType(operator, deduced.operands)]
  IN  Built(Emit(typed, operator, deduced.operands, result, <<left.variable, right.variable>>),
            <<result>>)

RECURSIVE BuildExpression(_, _, _), BuildBinary(_, _, _)

(***************************************************************************)
(* buildIRExpressionTree: the function afterwards, and the value.          *)
(***************************************************************************)
BuildExpression(table, w, e) ==
  CASE e.kind = "id" ->
         LET value == Lookup(table, w, e.name) IN
           Built(IF value = <<>> THEN w ELSE [w EXCEPT !.used = @ \cup {<<e.name, value[1]>>}], value)
    [] e.kind = "number" ->
         Built(Add(w, Variable("literal", e.type, e.text, w.path)), <<Newest(w) + 1>>)
    [] e.kind = "binary" -> BuildBinary(table, w, e)

BuildBinary(table, w, e) ==
  LET lhs == BuildExpression(table, CreateTemp(w, NULL), e.lhs)
      rhs == BuildExpression(table, lhs.wip, e.rhs)
      deduced == Deduce(e.operator, Options(rhs.wip, lhs.value), Options(rhs.wip, rhs.value))
  IN  IF lhs.value = <<>> \/ rhs.value = <<>> \/ deduced = NULL THEN Built(w, <<>>)
      ELSE Applied(rhs.wip, e.operator, deduced, Newest(w) + 1)

\* A statement begins, and an expression is built for it.
Begun(w) == [w EXCEPT !.temps = <<>>, !.used = {}]

-----------------------------------------------------------------------------

RECURSIVE Bound(_, _, _), FormsIn(_, _, _)

\* An expression with the variables its names are bound to.
Bound(table, w, e) ==
  CASE e.kind = "id" -> [kind |-> "variable", variable |-> Lookup(table, w, e.name)[1]]
    [] e.kind = "number" -> e
    [] e.kind = "binary" -> Binary(e.operator, Bound(table, w, e.lhs), Bound(table, w, e.rhs))

\* The statement means this, its names bound as they are before it.
Means(table, w, kind, variable, declared, e) ==
  [w EXCEPT !.meant = Append(@, Meaning(kind, variable, declared, Bound(table, wip, e), w.path))]

(***************************************************************************)
(* The forms an expression has: a name with more than one definition, a    *)
(* name defined in the other branch of an if, the fifth parameter, an      *)
(* assignment to less than 64 bits, a number that needs more than 31.      *)
(***************************************************************************)
FormsIn(table, w, e) ==
  LET Value(name) == Lookup(table, w, name)
      If(condition, form) == IF condition THEN {form} ELSE {}
  IN  CASE e.kind = "id" ->
             If(Len(Value(e.name)) > 1, "shadowed")
               \cup If(Value(e.name) # <<>> /\ ~IsPrefix(w.vars[Value(e.name)[1]].path, w.path),
                       "other_branch")
               \cup If(Len(w.parameters) > 4 /\ Value(e.name) # <<>>
                       /\ Value(e.name)[1] = w.parameters[5], "fifth_parameter")
        [] e.kind = "number" -> If(e.type = "i64", "wide_literal")
        [] e.kind = "binary" ->
             FormsIn(table, w, e.lhs) \cup FormsIn(table, w, e.rhs)
               \cup If(/\ e.operator = ":=" /\ e.lhs.kind = "id" /\ Value(e.lhs.name) # <<>>
                       /\ w.vars[Value(e.lhs.name)[1]].type # "i64",
                       "narrow_assignment")

-----------------------------------------------------------------------------
(***************************************************************************)
(* Statements.                                                             *)
(***************************************************************************)

BuilderInit ==
  /\ strings = Interned(EmptyStrings, TypeNames)
  /\ globals = <<>>
  /\ externals = <<>>
  /\ wip = NoFunction
  /\ phase = "idle"

Stop(table) == phase' = "stopped" /\ strings' = table /\ wip' = NoFunction

Go(table, w) == phase' = "build" /\ strings' = table /\ wip' = w

\* A construct of the source that is open: what restoreScopeContext gets, whether
\* the statement of the branch is complete, whether an else is to come, and
\* whether the first branch always returned.
Construct(kind, w, hasElse) ==
  [kind |-> kind, current |-> w.current, scope |-> w.scope, hasElse |-> hasElse,
   complete |-> FALSE, returned |-> FALSE]

Top(w) == Last(w.open)
InBranch(w) == w.open # <<>> /\ Top(w).kind = "if"

\* A branch is one statement.
Completed(w) == IF InBranch(w) THEN [w EXCEPT !.open[Len(w.open)].complete = TRUE] ELSE w

\* The next statement of the source may come; none follows one that always returns.
AtStatement == phase = "build" /\ ~wip.ended /\ ~(InBranch(wip) /\ Top(wip).complete)

\* A function before its parameters; what it leaves behind is not looked at.
Fresh(export) ==
  [NoFunction EXCEPT
     !.vars = [k \in DOMAIN externals |-> Variable("reference", externals[k].type, NULL, <<>>)],
     !.export = export]

\* ketl_ir_builder_build until its first statement.
Begin(parameters, export) ==
  /\ phase = "idle"
  /\ LET table == Interned(strings, [k \in DOMAIN parameters |-> parameters[k].name])
         Enter(w, parameter) ==
           LET named == [Add(w, Variable("parameter", parameter.type, NULL, <<>>)) EXCEPT
                           !.parameters = Append(@, Newest(w) + 1)]
           IN  Define(named, KeyOf(table, parameter.name), Newest(named), 0)
         keys == {KeyOf(table, parameters[k].name) : k \in DOMAIN parameters}
     IN  IF Cardinality(keys) < Len(parameters) THEN Stop(table)
         ELSE Go(table, FoldLeft(Enter, Fresh(export), parameters))
  /\ UNCHANGED <<globals, externals>>

\* A local variable takes the value and its type.
Initialised(w, local, value) ==
  LET type == w.vars[value].type
  IN  Emit([w EXCEPT !.vars[local].type = type], "copy", type, local, <<value>>)

(***************************************************************************)
(* createVariableDefinition: the name is visible behind its expression.    *)
(* Without a type, the variable has that of the best option.               *)
(***************************************************************************)
DefineBuilt(table, type, name, e, local, built) ==
  LET key == KeyOf(table, name)
      named == Define(built.wip, key, local, wip.scope)
      options == Options(named, built.value)
      option == IF type = NULL THEN BestOption(options)
                ELSE CastTo(options, TypeOfKey[KeyOf(table, type)])
      converted == Convert(named, option)
      defined == Initialised(converted.wip, local, converted.variable)
  IN  IF built.value = <<>> \/ Redefines(wip, key, wip.scope) \/ option = NULL THEN Stop(table)
      ELSE Go(table, Completed(RestoreLocal(
             Means(table, defined, "define", local, type # NULL, e), local)))

DefineVariable(type, name, e) ==
  /\ AtStatement
  /\ LET table == Interned(strings, Optional(type # NULL, type) \o NamesIn(e) \o <<name>>)
         created == Add(Begun(wip), Variable("stack", NULL, NULL, wip.path))
     IN  /\ FormsIn(table, wip, e) \subseteq Forms
         /\ DefineBuilt(table, type, name, e, Newest(created), BuildExpression(table, created, e))
  /\ UNCHANGED <<globals, externals>>

\* An expression as a statement.
EvaluateBuilt(table, e, built) ==
  IF built.value = <<>> THEN Stop(table)
  ELSE Go(table, Completed(RestoreLocal(Means(table, built.wip, "evaluate", NULL, FALSE, e), NULL)))

Evaluate(e) ==
  /\ AtStatement
  /\ LET table == Interned(strings, NamesIn(e))
     IN  /\ FormsIn(table, wip, e) \subseteq Forms
         /\ EvaluateBuilt(table, e, BuildExpression(table, Begun(wip), e))
  /\ UNCHANGED <<globals, externals>>

EnterBlock ==
  /\ AtStatement
  /\ wip' = [Begun(wip) EXCEPT !.scope = @ + 1, !.open = Append(@, Construct("block", wip, FALSE)),
                                !.meant = Append(@, Meaning("block", NULL, FALSE, NULL, wip.path))]
  /\ UNCHANGED <<strings, globals, externals, phase>>

Closed(w) == [RestoreScope(w, Top(w)) EXCEPT !.open = Front(@)]

LeaveBlock ==
  /\ phase = "build" /\ wip.open # <<>> /\ Top(wip).kind = "block"
  /\ wip' = Completed(Closed(Begun(wip)))
  /\ UNCHANGED <<strings, globals, externals, phase>>

\* The condition has a scope together with both branches.
TestBuilt(table, e, hasElse, built) ==
  LET option == CastTo(Options(built.wip, built.value), "bool")
      converted == Convert(built.wip, option)
      tested == Emit(converted.wip, "test", "bool", NULL, <<converted.variable>>)
      branch == [branch |-> wip.ifs + 1, holds |-> TRUE]
  IN  IF built.value = <<>> \/ option = NULL THEN Stop(table)
      ELSE Go(table, [RestoreLocal(Means(table, tested, "test", NULL, FALSE, e), NULL) EXCEPT
             !.open = Append(@, Construct("if", wip, hasElse)),
             !.ifs = @ + 1,
             !.path = Append(@, branch)])

EnterIf(e, hasElse) ==
  /\ AtStatement
  /\ LET table == Interned(strings, NamesIn(e))
         scoped == [Begun(wip) EXCEPT !.scope = @ + 1]
     IN  /\ FormsIn(table, wip, e) \subseteq Forms
         /\ TestBuilt(table, e, hasElse, BuildExpression(table, scoped, e))
  /\ UNCHANGED <<globals, externals>>

\* From the statement that is done if the condition holds to the one if it does not.
EnterElse ==
  /\ phase = "build" /\ InBranch(wip) /\ Top(wip).complete /\ Top(wip).hasElse
  /\ wip' = [Begun(wip) EXCEPT
       !.open[Len(wip.open)] = [@ EXCEPT !.hasElse = FALSE, !.complete = FALSE, !.returned = wip.ended],
       !.path[Len(wip.path)].holds = FALSE,
       !.ended = FALSE]
  /\ UNCHANGED <<strings, globals, externals, phase>>

LeaveIf ==
  /\ phase = "build" /\ InBranch(wip) /\ Top(wip).complete /\ ~Top(wip).hasElse
  /\ wip' = Completed([Closed(Begun(wip)) EXCEPT
       !.path = Front(@),
       !.ended = Top(wip).returned /\ wip.ended])
  /\ UNCHANGED <<strings, globals, externals, phase>>

\* ketl_ir_return_node: the return operation, its value, its last temporary.
ReturnNode(w, value, temps) ==
  [at |-> Len(w.ops), value |-> value, temps |-> temps]

AddReturn(w, value) ==
  LET returned == Emit(w, "return", NULL, NULL, <<>>)
      temp == IF w.temps = <<>> THEN <<>> ELSE <<Last(w.temps)>>
  IN  [returned EXCEPT !.returns = <<ReturnNode(returned, value, temp)>> \o @, !.ended = TRUE]

ReturnBuilt(table, e, built) ==
  IF built.value = <<>> THEN Stop(table)
  ELSE Go(table, Completed(RestoreLocal(
         AddReturn(Means(table, built.wip, "return", NULL, FALSE, e), built.value), NULL)))

Return(e) ==
  /\ AtStatement
  /\ LET table == Interned(strings, NamesIn(e))
     IN  /\ FormsIn(table, wip, e) \subseteq Forms
         /\ ReturnBuilt(table, e, BuildExpression(table, Begun(wip), e))
  /\ UNCHANGED <<globals, externals>>

ReturnVoid ==
  /\ AtStatement
  /\ wip' = Completed([AddReturn(Begun(wip), <<>>) EXCEPT
               !.meant = Append(@, Meaning("return", NULL, FALSE, NULL, wip.path))])
  /\ UNCHANGED <<strings, globals, externals, phase>>

-----------------------------------------------------------------------------
(***************************************************************************)
(* The end of the source, in ketl_ir_builder_build.                        *)
(***************************************************************************)

\* A return is converted to the type of the function, in front of its operation.
ConvertReturn(w, return) ==
  LET place == return.at
      option == CastTo(Options(w, return.value), w.type)
      converted == Convert([w EXCEPT !.ops = SubSeq(@, 1, place - 1), !.temps = return.temps,
                                     !.path = w.ops[place].path], option)
      last == Emit(converted.wip, "return", w.type, NULL, <<converted.variable>>)
  IN  [last EXCEPT !.ops = @ \o SubSeq(w.ops, place + 1, Len(w.ops)), !.temps = <<>>, !.path = <<>>]

\* The temporaries that no variable leads to.
Loose(w) == {v \in DOMAIN w.vars : w.vars[v].kind = "stack" /\ ~w.vars[v].attached}

\* The keys that a source defines at its top, in an order of the map.
Exported(w) ==
  SetToSeq({key \in DOMAIN w.map : w.export /\ w.map[key][1].scope = 1})

\* A variable leaves the frame: those upon it move down, and its code takes its
\* address for a value from here on.
Export(w, key) ==
  LET v == w.map[key][1].variable IN
    [w EXCEPT !.vars = [u \in DOMAIN @ |->
       IF u = v THEN [@[u] EXCEPT !.kind = "pointer"]
       ELSE IF @[u].parent = v THEN [@[u] EXCEPT !.parent = w.vars[v].parent] ELSE @[u]]]

\* The value an external has before a function assigns to it.
Initial(external) == <<"external", external>>

Finish ==
  /\ phase = "build" /\ wip.open = <<>>
  /\ LET w == IF wip.ended THEN Begun(wip) ELSE AddReturn(Begun(wip), <<>>)
         values == {k \in DOMAIN w.returns : w.returns[k].value # <<>>}
         type == IF values = {} THEN "void"
                 ELSE ReturnType([k \in DOMAIN w.returns |-> Options(w, w.returns[k].value)])
         converted == IF values = {} THEN [w EXCEPT !.type = type]
                      ELSE FoldLeft(ConvertReturn, [w EXCEPT !.type = type], w.returns)
         names == Exported(w)
         Internal(k) == [type |-> w.vars[w.map[names[k]][1].variable].type,
                         value |-> Initial(Len(externals) + k)]
     IN  IF values \notin {{}, DOMAIN w.returns} \/ type = NULL
         THEN Stop(strings) /\ UNCHANGED <<globals, externals>>
         ELSE /\ wip' = FoldLeft(Export, converted, names)
              /\ externals' = externals \o [k \in DOMAIN names |-> Internal(k)]
              /\ globals' = [key \in DOMAIN globals \cup Range(names) |->
                               IF key \in Range(names)
                               THEN Len(externals) + (CHOOSE k \in DOMAIN names : names[k] = key)
                               ELSE globals[key]]
              /\ phase' = "built"
              /\ UNCHANGED strings

\* ketl_state_define_external_variable, for variables of primitive types.
DefineExternal(name, type) ==
  /\ phase = "idle"
  /\ LET table == Interned(strings, <<name>>)
         key == KeyOf(table, name)
     IN  /\ strings' = table
         /\ globals' = [k \in DOMAIN globals \cup {key} |->
                          IF k = key THEN Len(externals) + 1 ELSE globals[k]]
  /\ externals' = Append(externals, [type |-> type, value |-> Initial(Len(externals) + 1)])
  /\ UNCHANGED <<wip, phase>>

=============================================================================
