------------------------------ MODULE Casting ------------------------------
(***************************************************************************)
(* The choice of conversions (ir_builder.c) among the operators that the   *)
(* state registers (ketl.c).  A value offers the types it has or may be    *)
(* converted to, each at a cost; an operator, a definition or a return     *)
(* takes one of them.                                                      *)
(***************************************************************************)
EXTENDS Integers, FiniteSets, SequencesExt

CONSTANT NULL

\* The primitive types and their sizes.
SizeOf == [void |-> 0, bool |-> 1, i8 |-> 1, i16 |-> 2, i32 |-> 4, i64 |-> 8, f32 |-> 4, f64 |-> 8]

\* ketl_state_create: the types a type may be cast to, in the order of registration.
CastOperators ==
  [void |-> <<>>, bool |-> <<>>,
   i8  |-> <<"i64", "i32", "i16", "f64", "f32">>,
   i16 |-> <<"i64", "i32", "i8", "f64", "f32">>,
   i32 |-> <<"i64", "i16", "i8", "f64", "f32">>,
   i64 |-> <<"i32", "i16", "i8", "f64", "f32">>,
   f32 |-> <<"f64", "i64", "i32", "i16", "i8">>,
   f64 |-> <<"f32", "i64", "i32", "i16", "i8">>]

\* Those that an expression may ask for without saying so.
Implicit ==
  {<<"i8", "i64">>, <<"i8", "i32">>, <<"i8", "i16">>, <<"i8", "f64">>, <<"i8", "f32">>,
   <<"i16", "i64">>, <<"i16", "i32">>, <<"i16", "f64">>, <<"i16", "f32">>,
   <<"i32", "i64">>, <<"i32", "f64">>,
   <<"f32", "f64">>}

\* The operand types of an operator, the last registered first; only 64 bits
\* can be assigned.
BinaryOperators(operator) ==
  IF operator = ":=" THEN <<"i64">> ELSE <<"i64", "i32", "i16", "i8">>

OutputType(operator, operands) == IF operator \in {"==", "!="} THEN "bool" ELSE operands

-----------------------------------------------------------------------------

\* CastingOption: a variable as a value of a type, converted when it has another.
Option(variable, from, to, score) ==
  [variable |-> variable, cast |-> from # to, to |-> to, score |-> score]

(***************************************************************************)
(* possibleCastingForValue: the type a value has, then those it is         *)
(* implicitly cast to.  A number written in the source is taken for an i64 *)
(* for free, for any other type at a cost.                                 *)
(***************************************************************************)
PossibleCastings(variable, type, literal) ==
  LET Score(to) == IF literal THEN (IF to = "i64" THEN 0 ELSE 1)
                   ELSE (IF to = type THEN 0 ELSE 1)
      targets == <<type>> \o SelectSeq(CastOperators[type], LAMBDA to : <<type, to>> \in Implicit)
  IN  [k \in DOMAIN targets |-> Option(variable, type, targets[k], Score(targets[k]))]

\* deduceInstructionCode2: what the search has found so far.
Weighing == [score |-> 0, best |-> NULL, choice |-> NULL]

\* The turn to the next operator.
NextOperator(search) == [search EXCEPT !.score = 0]

\* A pair of options that an operator on these operands accepts.
Weigh(search, operands, lhs, rhs) ==
  LET score == search.score + lhs.score + rhs.score
      better == search.best = NULL \/ score < search.best
  IN  [score |-> score,
       best |-> IF better THEN score ELSE search.best,
       choice |-> IF better THEN [operands |-> operands, lhs |-> lhs, rhs |-> rhs]
                  ELSE IF score = search.best THEN NULL ELSE search.choice]

\* The operands and conversions for an operator, NULL where two are as cheap.
Deduce(operator, lhsOptions, rhsOptions) ==
  LET pairs == FlattenSeq([j \in DOMAIN lhsOptions |->
                 [k \in DOMAIN rhsOptions |-> <<lhsOptions[j], rhsOptions[k]>>]])
      Try(search, operands) ==
        FoldLeft(LAMBDA found, pair : Weigh(found, operands, pair[1], pair[2]),
                 NextOperator(search),
                 SelectSeq(pairs, LAMBDA pair : pair[1].to = operands /\ pair[2].to = operands))
  IN  FoldLeft(Try, Weighing, BinaryOperators(operator)).choice

\* castDelegateToVariable: the first option of a type.
CastTo(options, type) ==
  LET place == SelectInSeq(options, LAMBDA option : option.to = type)
  IN  IF place = 0 THEN NULL ELSE options[place]

\* getBestCastingOptionForDelegate: the first option without a cost, or else
\* the one that costs less than all others.
BestOption(options) ==
  LET free == SelectInSeq(options, LAMBDA option : option.score = 0)
      cheapest == {k \in DOMAIN options : \A j \in DOMAIN options : options[k].score <= options[j].score}
  IN  IF free # 0 THEN options[free]
      ELSE IF Cardinality(cheapest) = 1 THEN options[CHOOSE k \in cheapest : TRUE] ELSE NULL

-----------------------------------------------------------------------------

(***************************************************************************)
(* The type that all returns of a function can be cast to, in              *)
(* ketl_ir_builder_build: the list of the types that are left, with the    *)
(* cost of each.  An option moves the entry of its type to the front of    *)
(* the new list; the first entry of the old one is not unlinked from it,   *)
(* so that the walk goes on from there into the new list.                  *)
(***************************************************************************)
\* ReturnCastingOption: what the k-th option of the last return becomes.
ReturnOption(k, option) == [from |-> k, type |-> option.to, score |-> option.score]

KeepOption(lists, option) ==
  LET place == SelectInSeq(lists.old, LAMBDA entry : entry.type = option.to)
      kept == [lists.old[place] EXCEPT !.score = @ + option.score]
  IN  IF place = 0 THEN lists
      ELSE [old |-> IF place = 1 THEN <<kept>> \o lists.new ELSE RemoveAt(lists.old, place),
            new |-> <<kept>> \o lists.new]

\* The types common to the returns so far and a further one.
CommonTypes(set, options) == FoldLeft(KeepOption, [old |-> set, new |-> <<>>], options).new

\* Mutant of ReturnType: two types of the same cost are a reason to refuse.
ReturnTypeUnlessTied(returns) ==
  LET first == Reverse([k \in DOMAIN returns[1] |-> ReturnOption(k, returns[1][k])])
      set == FoldLeft(CommonTypes, first, Tail(returns))
      cheapest == {j \in DOMAIN set : \A k \in DOMAIN set : set[j].score <= set[k].score}
  IN  IF Cardinality(cheapest) # 1 THEN NULL ELSE set[CHOOSE k \in cheapest : TRUE].type

\* The first of the cheapest types, of the options of each return, the last return
\* first.  A list that has an entry twice runs in a circle, and the search for ever.
ReturnType(returns) ==
  LET first == Reverse([k \in DOMAIN returns[1] |-> ReturnOption(k, returns[1][k])])
      set == FoldLeft(CommonTypes, first, Tail(returns))
      place == SelectInSeq(set, LAMBDA entry : \A k \in DOMAIN set : entry.score <= set[k].score)
      circle == \E j, k \in DOMAIN set : j # k /\ set[j].from = set[k].from
  IN  IF circle \/ place = 0 THEN NULL ELSE set[place].type

=============================================================================
