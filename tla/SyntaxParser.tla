---------------------------- MODULE SyntaxParser ----------------------------
(***************************************************************************)
(* The syntax tree (syntax_parser.c), built from the frames a successful   *)
(* parse leaves on the stack: an iterator walks over them from the bottom, *)
(* and the builder of a frame says which frames must follow it.            *)
(***************************************************************************)
EXTENDS BnfLanguage

\* The frame in slot i; above the top, what the last frame there left.
Slot(i) == IF i <= Len(stack) THEN stack[i] ELSE above[i - Len(stack)]

Builder(i) == NodeAt(Slot(i).node).builder
Kind(i) == NodeAt(Slot(i).node).type

\* Where the text of a frame begins, and the rest of its token from there on.
PlaceOf(i) == Place(Slot(i).token, Slot(i).offset)
RestOf(i) ==
  SubSeq(source, PlaceOf(i) + 1, Lexer!EndOf(tokens[Slot(i).token]))

Tree(kind, place, text, children) ==
  [kind |-> kind, place |-> place, text |-> text, children |-> children]

NoTree == Tree("NULL", 0, "", <<>>)

\* KETL_DEBUGBREAK, or a write through NULL: the process ends.
Stopped == Tree("STOPPED", 0, "", <<>>)

\* What ketl_syntax_parse returns, and the slot its iterator has come to.
Built(tree, next) == [tree |-> tree, next |-> next]

\* The call after the call that made "built", unless the process has ended.
Then(built, After2(_, _)) ==
  IF built.tree = Stopped THEN built ELSE After2(built.tree, built.next)

Leaf(kind, i) == Tree(kind, PlaceOf(i), RestOf(i), <<>>)

Operators == {"+", "-", "*", "/", "==", "!=", ":="}

\* decideOperatorSyntaxType: by the length of the token's rest and its first
\* symbol, which for two symbols tells "==", "!=" and ":=" apart.
OperatorOf(i) ==
  LET known == {o \in Operators :
                  Len(o) = Len(RestOf(i)) /\ SubSeq(o, 1, 1) = SubSeq(RestOf(i), 1, 1)}
  IN  IF known = {} THEN "STOPPED" ELSE CHOOSE o \in known : TRUE

\* Slot i holds a child of the frame in slot p.
IsChild(i, p) == Slot(i).parent = p

RECURSIVE Parse(_), Commands(_, _, _), LeftChain(_, _, _), RightChain(_, _, _)

(***************************************************************************)
(* BLOCK: the frames of the commands, each a reference and its command;    *)
(* commands without a tree are left out.                                   *)
(***************************************************************************)
Commands(block, sofar, i) ==
  IF i > Len(stack) \/ ~IsChild(i, block) THEN Built(Tree("LIST", 0, "", sofar), i)
  ELSE Then(Parse(i + 1), LAMBDA command, j :
         Commands(block, IF command = NoTree THEN sofar ELSE Append(sofar, command), j))

\* From the second frame of a bracketed block on.
ParseBlock(i) ==
  Then(Parse(i + 2), LAMBDA list, j :
    Built(Tree("BLOCK", PlaceOf(i), "", list.children), j + 1))

\* COMMAND: another rule, an optional expression, or a block.
ParseCommand(i) ==
  IF Kind(i + 1) = "REF" THEN Parse(i + 2)
  ELSE IF Kind(i + 2) # "OPTIONAL" THEN ParseBlock(i + 2)
  ELSE IF ~IsChild(i + 3, i + 2) THEN Built(NoTree, i + 4)
  ELSE Then(Parse(i + 4), LAMBDA expression, j : Built(expression, j + 1))

ParseType(i) ==
  IF Kind(i + 1) = "ID" THEN Built(Leaf("ID", i + 1), i + 2) ELSE Built(Stopped, i)

ParsePrimary(i) ==
  CASE Kind(i + 1) \in {"ID", "NUMBER"} -> Built(Leaf(Kind(i + 1), i + 1), i + 2)
    [] Kind(i + 1) = "CONCAT" ->
         Then(Parse(i + 4), LAMBDA expression, j : Built(expression, j + 1))
    [] OTHER -> Built(Stopped, i)

\* PRECEDENCE_EXPRESSION_1: no member is read yet.
ParseMember(i) ==
  Then(Parse(i + 2), LAMBDA left, repeat :
    IF IsChild(repeat + 1, repeat) THEN Built(Stopped, i) ELSE Built(left, repeat + 1))

(***************************************************************************)
(* PRECEDENCE_EXPRESSION_2: a call without arguments.  The loop over       *)
(* further calls looks at the closing bracket of this one and always ends. *)
(***************************************************************************)
ParseCall(i) ==
  Then(Parse(i + 2), LAMBDA caller, repeat :
    IF ~IsChild(repeat + 1, repeat) THEN Built(caller, repeat + 1)
    ELSE IF IsChild(repeat + 4, repeat + 3) THEN Built(Stopped, i)
    ELSE Built(Tree("CALL", caller.place, "", <<caller>>), repeat + 5))

\* The operator and the right operand behind "left", as a call of Chain.
Operation(i, Chain(_, _)) ==
  IF OperatorOf(i + 2) = "STOPPED" THEN Built(Stopped, i)
  ELSE Then(Parse(i + 4), Chain)

\* PRECEDENCE_EXPRESSION_3 and _4: what was read so far is the left operand.
LeftChain(left, repeat, i) ==
  IF ~IsChild(i, repeat) THEN Built(left, i)
  ELSE Operation(i, LAMBDA right, j :
         LeftChain(Tree(OperatorOf(i + 2), PlaceOf(i + 2), "", <<left, right>>), repeat, j))

\* PRECEDENCE_EXPRESSION_5 and _6: the last operand becomes the left operand
\* of the operator behind it.
RightChain(operand, repeat, i) ==
  IF ~IsChild(i, repeat) THEN Built(operand, i)
  ELSE Operation(i, LAMBDA next, j :
         Then(RightChain(next, repeat, j), LAMBDA right, k :
           Built(Tree(OperatorOf(i + 2), PlaceOf(i + 2), "", <<operand, right>>), k)))

ParseLeft(i) ==
  Then(Parse(i + 2), LAMBDA left, repeat : LeftChain(left, repeat, repeat + 1))

\* Mutant of ParseRight: it takes from left to right.
ParseRightFromLeft(i) ==
  Then(Parse(i + 2), LAMBDA left, repeat : LeftChain(left, repeat, repeat + 1))

ParseRight(i) ==
  Then(Parse(i + 2), LAMBDA left, repeat : RightChain(left, repeat, repeat + 1))

\* The name and the expression of a definition, from the frame of the name on.
Definition(kind, place, types, id) ==
  Then(Parse(id + 3), LAMBDA expression, j :
    Built(Tree(kind, place, "", types \o <<Leaf("ID", id), expression>>), j + 1))

ParseDefinition(i) ==
  LET first == i + 2
  IN  IF Kind(first) = "CONSTANT"
      THEN Definition("DEFINE_VAR", PlaceOf(first), <<>>, first + 1)
      ELSE Then(Parse(first + 1), LAMBDA typeTree, id :
             Definition("DEFINE_VAR_OF_TYPE", PlaceOf(first), <<typeTree>>, id))

\* The branches are linked to one another: one without a tree is NULL there.
IfElseTree(i, expression, branches, next) ==
  IF \E b \in DOMAIN branches : branches[b] = NoTree THEN Built(Stopped, next)
  ELSE Built(Tree("IF_ELSE", PlaceOf(i), "", <<expression>> \o branches), next)

\* The slot behind the optional frame is read also when no frame is in it.
ParseElse(i, expression, true, optional) ==
  IF IsChild(optional + 1, optional)
  THEN Then(Parse(optional + 4), LAMBDA false, j :
         IfElseTree(i, expression, <<true, false>>, j))
  ELSE IfElseTree(i, expression, <<true>>, optional + 1)

ParseIfElse(i) ==
  Then(Parse(i + 4), LAMBDA expression, j :
    Then(Parse(j + 2), LAMBDA true, optional :
      ParseElse(i, expression, true, optional)))

ParseReturn(i) ==
  IF IsChild(i + 3, i + 2)
  THEN Then(Parse(i + 4), LAMBDA expression, j :
         Built(Tree("RETURN", PlaceOf(i + 1), "", <<expression>>), j + 1))
  ELSE Built(Tree("RETURN", PlaceOf(i + 1), "", <<>>), i + 4)

\* ketl_syntax_parse, from the frame in slot i on.
Parse(i) ==
  CASE Builder(i) = "BLOCK" -> Commands(i, <<>>, i + 1)
    [] Builder(i) = "COMMAND" -> ParseCommand(i)
    [] Builder(i) = "TYPE" -> ParseType(i)
    [] Builder(i) = "PRIMARY_EXPRESSION" -> ParsePrimary(i)
    [] Builder(i) = "PRECEDENCE_EXPRESSION_1" -> ParseMember(i)
    [] Builder(i) = "PRECEDENCE_EXPRESSION_2" -> ParseCall(i)
    [] Builder(i) \in {"PRECEDENCE_EXPRESSION_3", "PRECEDENCE_EXPRESSION_4"} -> ParseLeft(i)
    [] Builder(i) \in {"PRECEDENCE_EXPRESSION_5", "PRECEDENCE_EXPRESSION_6"} -> ParseRight(i)
    [] Builder(i) = "DEFINE_WITH_ASSIGNMENT" -> ParseDefinition(i)
    [] Builder(i) = "IF_ELSE" -> ParseIfElse(i)
    [] Builder(i) = "RETURN" -> ParseReturn(i)
    [] OTHER -> Built(Stopped, i)

\* The tree of the whole source: the list of its commands.
SyntaxTree == Parse(1).tree

-----------------------------------------------------------------------------

(***************************************************************************)
(* The tree a source means, found in the row of its lexemes without the    *)
(* frames: an expression is split at the operator that binds weakest, an   *)
(* else belongs to the nearest if.                                         *)
(***************************************************************************)
Lexemes ==
  LET leaves == SelectSeq([i \in DOMAIN stack |-> i], LAMBDA i : IsLeaf(FrameNode(i)))
      lexeme(i) ==
        [kind |-> Kind(i), place |-> PlaceOf(i),
         mark |-> IF Kind(i) = "CONSTANT" THEN FrameNode(i).value ELSE "",
         text |-> RestOf(i)]
  IN  [n \in DOMAIN leaves |-> lexeme(leaves[n])]

\* How many brackets are open behind the first n lexemes.
Depth(lex) ==
  LET depth[n \in 0 .. Len(lex)] ==
        IF n = 0 THEN 0
        ELSE depth[n - 1] + (CASE lex[n].mark \in {"(", "{"} -> 1
                               [] lex[n].mark \in {")", "}"} -> -1
                               [] OTHER -> 0)
  IN  depth

\* Where the bracket at n closes.
ClosingOf(lex, n) ==
  Min({m \in n .. Len(lex) : Depth(lex)[m] = Depth(lex)[n - 1]})

\* The places of the given operators outside of brackets.
Outside(lex, operators) ==
  {n \in DOMAIN lex : lex[n].mark \in operators /\ Depth(lex)[n] = 0}

RECURSIVE Meant(_), Statements(_), Statement(_), EndOfStatement(_)

\* An expression without operators: a leaf, a call or brackets.
MeantOperand(lex) ==
  LET last == Len(lex)
  IN  CASE last = 1 /\ lex[1].kind \in {"ID", "NUMBER"} ->
             Tree(lex[1].kind, lex[1].place, lex[1].text, <<>>)
        [] last > 1 /\ lex[last].mark = ")" /\ lex[last - 1].mark = "(" ->
             LET caller == Meant(SubSeq(lex, 1, last - 2))
             IN  IF caller = Stopped THEN Stopped
                 ELSE Tree("CALL", caller.place, "", <<caller>>)
        [] last > 1 /\ lex[1].mark = "(" /\ ClosingOf(lex, 1) = last ->
             Meant(SubSeq(lex, 2, last - 1))
        [] OTHER -> Stopped

\* Operators from the weakest on, and where equals are split.
Levels ==
  <<[operators |-> {":="}, split |-> "first"],
    [operators |-> {"==", "!="}, split |-> "first"],
    [operators |-> {"+", "-"}, split |-> "last"],
    [operators |-> {"*", "/"}, split |-> "last"]>>

\* The tree with these children, unless one has no meaning.
Meaningful(tree) ==
  IF Stopped \in {tree.children[c] : c \in DOMAIN tree.children} THEN Stopped ELSE tree

Meant(lex) ==
  LET weakest == {l \in DOMAIN Levels : Outside(lex, Levels[l].operators) # {}}
  IN  IF weakest = {} THEN MeantOperand(lex)
      ELSE LET level == Levels[Min(weakest)]
               all == Outside(lex, level.operators)
               n == IF level.split = "first" THEN Min(all) ELSE Max(all)
           IN  Meaningful(
                 Tree(lex[n].mark, lex[n].place, "",
                      <<Meant(SubSeq(lex, 1, n - 1)), Meant(SubSeq(lex, n + 1, Len(lex)))>>))

Behind(lex, n) == SubSeq(lex, n + 1, Len(lex))

\* Where the first statement of a row ends.
EndOfStatement(lex) ==
  CASE lex[1].mark = "{" -> ClosingOf(lex, 1)
    [] lex[1].mark = "if" ->
         LET head == ClosingOf(lex, 2)
             true == head + EndOfStatement(Behind(lex, head))
         IN  IF true < Len(lex) /\ lex[true + 1].mark = "else"
             THEN true + 1 + EndOfStatement(Behind(lex, true + 1))
             ELSE true
    [] OTHER -> Min(Outside(lex, {";"}))

MeantIfElse(lex) ==
  LET head == ClosingOf(lex, 2)
      true == head + EndOfStatement(Behind(lex, head))
      else == IF true = Len(lex) THEN <<>> ELSE <<Statement(Behind(lex, true + 1))>>
  IN  Meaningful(
        Tree("IF_ELSE", lex[1].place, "",
             <<Meant(SubSeq(lex, 3, head - 1)), Statement(SubSeq(lex, head + 1, true))>>
               \o else))

MeantDefinition(lex) ==
  LET id == Tree("ID", lex[2].place, lex[2].text, <<>>)
      type1 == Tree("ID", lex[1].place, lex[1].text, <<>>)
      value == Meant(SubSeq(lex, 4, Len(lex) - 1))
  IN  Meaningful(
        IF lex[1].mark = "var"
        THEN Tree("DEFINE_VAR", lex[1].place, "", <<id, value>>)
        ELSE Tree("DEFINE_VAR_OF_TYPE", lex[1].place, "", <<type1, id, value>>))

Statement(lex) ==
  CASE lex[1].mark = "{" ->
         Meaningful(Tree("BLOCK", lex[1].place, "",
                         Statements(SubSeq(lex, 2, Len(lex) - 1))))
    [] lex[1].mark = "if" -> MeantIfElse(lex)
    [] lex[1].mark = "return" ->
         Meaningful(Tree("RETURN", lex[1].place, "",
           IF Len(lex) = 2 THEN <<>> ELSE <<Meant(SubSeq(lex, 2, Len(lex) - 1))>>))
    [] lex[1].mark = ";" -> NoTree
    [] lex[2].kind = "ID" /\ (lex[1].kind = "ID" \/ lex[1].mark = "var") ->
         MeantDefinition(lex)
    [] lex[1].mark = "(" /\ Outside(lex, {"->"}) # {} -> Stopped
    [] OTHER -> Meant(SubSeq(lex, 1, Len(lex) - 1))

\* The meaning of a row of statements, without those that have none.
Statements(lex) ==
  IF lex = <<>> THEN <<>>
  ELSE LET end == EndOfStatement(lex)
           first == Statement(SubSeq(lex, 1, end))
           rest == Statements(Behind(lex, end))
       IN  IF first = NoTree THEN rest ELSE <<first>> \o rest

(***************************************************************************)
(* The tree of every accepted source is the one it means: precedence,      *)
(* associativity, dangling else, the order of the statements and the place *)
(* and text of every node.  Strings, members, arguments and function types *)
(* have no builder yet and stop the process.                               *)
(***************************************************************************)
TreeIsMeant ==
  pc = "done" /\ success =>
    SyntaxTree = Meaningful(Tree("LIST", 0, "", Statements(Lexemes)))

=============================================================================
