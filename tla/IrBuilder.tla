----------------------------- MODULE IrBuilder ------------------------------
(***************************************************************************)
(* How the builder of the intermediate representation strings operations   *)
(* together (ir_builder.c): every statement is built into a range, which   *)
(* is the operation to fill next and the one that is to follow it.  The    *)
(* expressions themselves are left out; a statement only says how many     *)
(* operations its expression takes.                                        *)
(***************************************************************************)
EXTENDS IrNode, SequencesExt

(***************************************************************************)
(* Statements: "do" for an expression, "define" for a variable, "return",  *)
(* "block", and "if", whose body is <<then>> or <<then, else>>.            *)
(***************************************************************************)
Statement(kind, work, casts, value, body) ==
  [kind |-> kind, work |-> work, casts |-> casts, value |-> value, body |-> body]

\* What an operation of the pool holds before the builder fills it.
Uninitialised == Operation("uninitialised", NULL, NULL, <<>>)

\* The builder: its pool of operations, the range in hand, and the returns.
EmptyBuilder ==
  [ops |-> <<Uninitialised, Uninitialised>>, root |-> 1, next |-> 2,
   returns |-> <<>>, stopped |-> FALSE]

\* createOperationImpl; the new operation is the last of the pool.
WithOperation(b) == [b EXCEPT !.ops = Append(@, Uninitialised)]
NewOperation(b) == Len(b.ops) + 1

Stopped(b) == [b EXCEPT !.stopped = TRUE]

\* initInnerOperationRange
InnerRange(b) == [WithOperation(b) EXCEPT !.next = NewOperation(b)]

\* Mutant of EndInnerRange: the range goes on with the operation of the inner one.
EndInnerRangeKeepsNext(inner, base) == inner

\* deinitInnerOperationRange
EndInnerRange(inner, base) == [inner EXCEPT !.next = base.next]

\* createOperationFromRange; a range without a root is a null dereference.
FromRange(b, code, event) ==
  IF b.stopped \/ b.root = NULL THEN Stopped(b)
  ELSE [WithOperation(b) EXCEPT
          !.ops[b.root] = Operation(code, b.next, NULL, event),
          !.root = b.next,
          !.next = NewOperation(b)]

\* createLastOperationFromRange
LastFromRange(b, code, event) ==
  IF b.stopped \/ b.root = NULL THEN Stopped(b)
  ELSE [b EXCEPT !.ops[b.root] = Operation(code, NULL, NULL, event), !.root = NULL]

\* The operations of an expression, or those of a conversion.
Work(b, count, event) ==
  FoldLeft(LAMBDA acc, e : FromRange(acc, "work", e), b, [k \in 1 .. count |-> event])

\* The operations of the expression of a statement, in a range of their own.
Expression(b, s, path) ==
  EndInnerRange(Work(InnerRange(b), s.work, <<path, "work">>), b)

\* An expression ends with an operation that does nothing ...
BuildDo(b, s, path) == FromRange(Expression(b, s, path), "none", <<path, "done">>)

\* ... and a definition with the copy to its variable.
BuildDefine(b, s, path) == FromRange(Expression(b, s, path), "work", <<path, "copy">>)

BuildReturn(b, s, path) ==
  LET end == Expression(b, s, path)
      node == [op |-> end.root, casts |-> s.casts, value |-> s.value, path |-> path]
  IN  [LastFromRange(end, "return", <<path, "return">>) EXCEPT !.returns = <<node>> \o @]

\* A true block that added nothing: its operation is given back to the range.
SwapEmpty(b, jump) ==
  [b EXCEPT !.root = b.next, !.next = b.root, !.ops[jump].main = b.next]

RECURSIVE Build(_, _, _)

\* A true block that returned: the range goes on where the jump leads.
Renewed(b) == [WithOperation(b) EXCEPT !.root = b.next, !.next = NewOperation(b)]

\* Mutant of BuildThen: a true block that returned leaves the range without root.
BuildThenKeepsEnd(b, s, path, jump) ==
  LET start == [b EXCEPT !.ops[jump].extra = b.next]
      done == Build(start, s.body[1], Append(path, 1))
  IN  IF ~done.stopped /\ done.root = start.root THEN SwapEmpty(done, jump) ELSE done

\* The true block of an if without else.
BuildThen(b, s, path, jump) ==
  LET start == [b EXCEPT !.ops[jump].extra = b.next]
      done == Build(start, s.body[1], Append(path, 1))
  IN  IF done.stopped THEN done
      ELSE IF done.root = start.root THEN SwapEmpty(done, jump)
      ELSE IF done.root = NULL THEN Renewed(done)
      ELSE done

\* Mutant of BuildThenElse: the jump leads behind the false block.
BuildThenElseSkipped(b, s, path, jump) ==
  LET side == NewOperation(b)
      start == [WithOperation(b) EXCEPT !.ops[jump].extra = b.next]
      true == Build(start, s.body[1], Append(path, 1))
      then == IF ~true.stopped /\ true.root = start.root THEN SwapEmpty(true, jump) ELSE true
      else == Build([then EXCEPT !.root = side, !.next = b.next], s.body[2], Append(path, 2))
  IN  IF then.stopped \/ else.stopped \/ then.root = NULL THEN else
      ELSE [else EXCEPT !.root = then.root, !.next = then.next]

(***************************************************************************)
(* Both blocks: the false one has a range of its own that ends in the      *)
(* operation the true one is followed by; it becomes the range if the true *)
(* block has returned.                                                     *)
(***************************************************************************)
BuildThenElse(b, s, path, jump) ==
  LET side == NewOperation(b)
      start == [WithOperation(b) EXCEPT !.ops[jump].extra = side]
      true == Build(start, s.body[1], Append(path, 1))
      then == IF ~true.stopped /\ true.root = start.root THEN SwapEmpty(true, jump) ELSE true
      else == Build([then EXCEPT !.root = side, !.next = b.next], s.body[2], Append(path, 2))
  IN  IF then.stopped \/ else.stopped \/ then.root = NULL THEN else
      ELSE [else EXCEPT !.root = then.root, !.next = then.next]

BuildIf(b, s, path) ==
  LET condition == Work(InnerRange(b), s.work, <<path, "work">>)
      jump == condition.root
      inner == FromRange(condition, "jump_if_false", <<path, "if">>)
      range == EndInnerRange(inner, b)
  IN  IF range.stopped THEN range
      ELSE IF Len(s.body) = 1 THEN BuildThen(range, s, path, jump)
      ELSE BuildThenElse(range, s, path, jump)

(***************************************************************************)
(* buildIRCommand: all statements but the last are built in an inner       *)
(* range, so that the last one ends in the operation that follows the list.*)
(***************************************************************************)
BuildList(b, list, path) ==
  IF list = <<>> THEN b
  ELSE LET last == Len(list)
           BuildAt(acc, k) == Build(acc, list[k], Append(path, k))
           inner == FoldLeft(BuildAt, InnerRange(b), [k \in 1 .. last - 1 |-> k])
           front == IF last = 1 THEN b ELSE EndInnerRange(inner, b)
       IN  BuildAt(front, last)

\* buildIRCommandLoopIteration
Build(b, s, path) ==
  IF b.stopped THEN b
  ELSE CASE s.kind = "do" -> BuildDo(b, s, path)
         [] s.kind = "define" -> BuildDefine(b, s, path)
         [] s.kind = "return" -> BuildReturn(b, s, path)
         [] s.kind = "block" -> BuildList(b, s.body, path)
         [] s.kind = "if" -> BuildIf(b, s, path)

\* A function that falls off its end returns nothing there.
CloseEnd(b) ==
  IF b.stopped \/ b.root = NULL THEN b
  ELSE [LastFromRange(b, "return", <<<<>>, "return">>) EXCEPT
          !.returns = <<[op |-> b.root, casts |-> 0, value |-> FALSE, path |-> <<>>]>> \o @]

\* All returns have a value or none has; otherwise the compiler breaks.
ReturnsAgree(b) == \A r \in Range(b.returns) : r.value = b.returns[1].value

\* The conversion of a return value: it takes the place of the return operation.
ConvertReturn(b, r) ==
  LET inner == [WithOperation(b) EXCEPT !.root = r.op, !.next = NewOperation(b)]
  IN  LastFromRange(Work(inner, r.casts, <<r.path, "cast">>), "return", <<r.path, "return">>)

\* ketl_ir_builder_build, up to the operations it has strung together.
Built(program) ==
  LET b == CloseEnd(BuildList(EmptyBuilder, program, <<>>))
  IN  IF b.stopped THEN b
      ELSE IF ~ReturnsAgree(b) THEN Stopped(b)
      ELSE IF ~b.returns[1].value THEN b
      ELSE FoldLeft(ConvertReturn, b, b.returns)

-----------------------------------------------------------------------------

(***************************************************************************)
(* countOperationsAndArguments over extraNextStack: the order in which the *)
(* operations are numbered.                                                *)
(***************************************************************************)
RECURSIVE Number(_, _, _, _)
Number(ops, op, extraNextStack, order) ==
  IF op # NULL /\ op \notin Range(order)
  THEN Number(ops, ops[op].main,
              IF ops[op].extra = NULL THEN extraNextStack
              ELSE Append(extraNextStack, ops[op].extra),
              Append(order, op))
  ELSE IF extraNextStack = <<>> THEN order
  ELSE Number(ops, Last(extraNextStack), Front(extraNextStack), order)

\* The operations of the finished function, their links made indexes.
Function(b) ==
  LET order == Number(b.ops, 1, <<>>, <<>>)
      Index(op) == IF op = NULL THEN NULL ELSE CHOOSE k \in DOMAIN order : order[k] = op
  IN  [k \in DOMAIN order |->
         LET op == b.ops[order[k]]
         IN  Operation(op.code, Index(op.main), Index(op.extra), op.event)]

=============================================================================
