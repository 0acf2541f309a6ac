-------------------------- MODULE MCCodeGeneration --------------------------
(***************************************************************************)
(* All programs of up to MaxSize statements, an if and a block counting as *)
(* one.  Two forms that the builder gets wrong are set apart: an empty     *)
(* else, which the code itself names as a thing to do, and a branch that   *)
(* ends elsewhere than in the operation that is to follow.                 *)
(***************************************************************************)
EXTENDS CodeGeneration, FiniteSetsExt

CONSTANT MaxSize

Do == Statement("do", 1, 0, FALSE, <<>>)
Define == Statement("define", 0, 0, FALSE, <<>>)
Return(value) == Statement("return", 0, IF value THEN 1 ELSE 0, value, <<>>)
Block(list) == Statement("block", 0, 0, FALSE, list)
If(body) == Statement("if", 1, 0, FALSE, body)

\* From all statements and lists of up to n - 1 statements, those of n.
Larger(known, n, value) ==
    LET Of(size) == known.statements[size]
        statements ==
          (IF n = 1 THEN {Do, Define, Return(value)} ELSE {If(<<s>>) : s \in Of(n - 1)})
            \cup {Block(l) : l \in known.lists[n]}
            \cup UNION {{If(<<st[1], st[2]>>) : st \in Of(k) \X Of(n - 1 - k)} : k \in 1 .. n - 2}
        lists ==
          {<<s>> : s \in statements}
            \cup UNION {{<<sl[1]>> \o sl[2] : sl \in Of(k) \X known.lists[n - k + 1]} : k \in 1 .. n - 1}
    IN  [statements |-> Append(known.statements, statements),
         lists |-> Append(known.lists, lists)]

\* Lists of n statements are at n + 1.
Lists(value) ==
  FoldLeft(LAMBDA known, n : Larger(known, n, value),
           [statements |-> <<>>, lists |-> <<{<<>>}>>], [n \in 1 .. MaxSize |-> n]).lists

RECURSIVE EndsElsewhere(_), RaggedBranch(_), EmptyElse(_)

\* Statements that build operations but do not end in the one that is to follow:
\* a block whose last statement builds nothing, an empty else behind a return.
EndsElsewhere(s) ==
  \/ /\ s.kind = "block" /\ ~Empty(s)
     /\ Empty(Last(s.body)) \/ EndsElsewhere(Last(s.body))
  \/ /\ s.kind = "if" /\ Len(s.body) = 2
     /\ Empty(s.body[2]) /\ AlwaysReturns(s.body[1])

RaggedBranch(s) ==
  \/ s.kind = "if" /\ \E k \in DOMAIN s.body : EndsElsewhere(s.body[k])
  \/ \E k \in DOMAIN s.body : RaggedBranch(s.body[k])

\* An empty else behind a true block that goes on.
EmptyElse(s) ==
  \/ s.kind = "if" /\ Len(s.body) = 2 /\ Empty(s.body[2]) /\ ~AlwaysReturns(s.body[1])
  \/ \E k \in DOMAIN s.body : EmptyElse(s.body[k])

MCPrograms ==
  {p \in UNION (Range(Lists(TRUE)) \cup Range(Lists(FALSE))) :
     ~EmptyElse(Whole(p)) /\ ~RaggedBranch(Whole(p))}

\* Programs with a ragged branch, long enough that every operation is filled.
RaggedPrograms ==
  {<<If(<<Block(<<Do, Block(<<>>)>>)>>), Do, Do>>,
   <<If(<<If(<<Return(FALSE), Block(<<>>)>>)>>), Do, Do>>}

\* Bytes of instructions with operands on the stack, or in a register.
MCBodySizes == [c \in Code |->
  CASE c = "none" -> {0} [] c = "work" -> {2, 17} [] c = "jump_if_false" -> {9} [] c = "return" -> {9}]

=============================================================================
