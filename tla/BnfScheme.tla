------------------------------ MODULE BnfScheme -----------------------------
(***************************************************************************)
(* The grammar of the language as data (bnf_scheme.c): a rule for each     *)
(* root node of the scheme, a tree of nodes under it, and the builder that *)
(* marks the nodes the syntax parser makes syntax nodes of.                *)
(***************************************************************************)
EXTENDS Sequences

\* "value" is the text of a constant or the rule a reference leads to.
Node(type, value, children) ==
  [type |-> type, value |-> value, children |-> children, builder |-> "NONE"]

Id == Node("ID", "", <<>>)
Number == Node("NUMBER", "", <<>>)
String == Node("STRING", "", <<>>)
Constant(value) == Node("CONSTANT", value, <<>>)
Ref(rule) == Node("REF", rule, <<>>)
Concat(children) == Node("CONCAT", "", children)
Or(children) == Node("OR", "", children)
Optional(child) == Node("OPTIONAL", "", <<child>>)
Repeat(children) == Node("REPEAT", "", children)

BuiltBy(builder, node) == [node EXCEPT !.builder = builder]

-----------------------------------------------------------------------------

type ==
  BuiltBy("TYPE",
    Or(<<Id,
         Concat(<<Constant("("),
                  Optional(Concat(<<Ref("type"),
                                    Repeat(<<Constant(","), Ref("type")>>)>>)),
                  Constant(")"), Constant("->"), Ref("type")>>)>>))

primary ==
  BuiltBy("PRIMARY_EXPRESSION",
    Or(<<Id, Number, String,
         Concat(<<Constant("("), Ref("expression"), Constant(")")>>)>>))

\* An operand, and any number of operators with another operand.
Chained(operand, operators) ==
  Concat(<<Ref(operand), Repeat(<<Concat(<<operators, Ref(operand)>>)>>)>>)

precedenceExpression1 ==
  BuiltBy("PRECEDENCE_EXPRESSION_1", Chained("primary", Constant(".")))

precedenceExpression2 ==
  BuiltBy("PRECEDENCE_EXPRESSION_2",
    Concat(<<Ref("precedenceExpression1"),
             Repeat(<<Concat(<<
               Constant("("),
               Optional(Concat(<<
                 Ref("precedenceExpression1"),
                 Repeat(<<Constant(","), Ref("precedenceExpression1")>>)>>)),
               Constant(")")>>)>>)>>))

precedenceExpression3 ==
  BuiltBy("PRECEDENCE_EXPRESSION_3",
    Chained("precedenceExpression2", Or(<<Constant("*"), Constant("/")>>)))

precedenceExpression4 ==
  BuiltBy("PRECEDENCE_EXPRESSION_4",
    Chained("precedenceExpression3", Or(<<Constant("+"), Constant("-")>>)))

precedenceExpression5 ==
  BuiltBy("PRECEDENCE_EXPRESSION_5",
    Chained("precedenceExpression4", Or(<<Constant("=="), Constant("!=")>>)))

precedenceExpression6 ==
  BuiltBy("PRECEDENCE_EXPRESSION_6",
    Chained("precedenceExpression5", Or(<<Constant(":=")>>)))

defineVariableAssigment ==
  BuiltBy("DEFINE_WITH_ASSIGNMENT",
    Concat(<<Or(<<Constant("var"), Ref("type")>>), Id, Constant(":="),
             Ref("expression"), Constant(";")>>))

ifElse ==
  BuiltBy("IF_ELSE",
    Concat(<<Constant("if"), Constant("("), Ref("expression"), Constant(")"),
             Ref("command"),
             Optional(Concat(<<Constant("else"), Ref("command")>>))>>))

returnNode ==
  BuiltBy("RETURN",
    Concat(<<Constant("return"), Optional(Ref("expression")), Constant(";")>>))

command ==
  BuiltBy("COMMAND",
    Or(<<Ref("ifElse"), Ref("defineVariableAssigment"), Ref("returnNode"),
         Concat(<<Optional(Ref("expression")), Constant(";")>>),
         Concat(<<Constant("{"), Ref("severalCommands"), Constant("}")>>)>>))

severalCommands == BuiltBy("BLOCK", Repeat(<<Ref("command")>>))

\* ketl_bnf_build_scheme; "expression" is the rule of the last precedence.
Scheme ==
  [type |-> type,
   primary |-> primary,
   precedenceExpression1 |-> precedenceExpression1,
   precedenceExpression2 |-> precedenceExpression2,
   precedenceExpression3 |-> precedenceExpression3,
   precedenceExpression4 |-> precedenceExpression4,
   precedenceExpression5 |-> precedenceExpression5,
   expression |-> precedenceExpression6,
   defineVariableAssigment |-> defineVariableAssigment,
   ifElse |-> ifElse,
   returnNode |-> returnNode,
   command |-> command,
   severalCommands |-> severalCommands]

\* The rule a source is parsed by.
SchemeRoot == "severalCommands"

=============================================================================
