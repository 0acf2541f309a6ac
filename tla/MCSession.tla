----------------------------- MODULE MCSession ------------------------------
(***************************************************************************)
(* Small sources over two local names, up to six parameters and an         *)
(* external variable.  "x" and "g" have one hash, and the table of names   *)
(* grows while the parameters of a function are entered.                   *)
(***************************************************************************)
EXTENDS Session

MCMaxStatements == <<4, 1>>

MCStringCapacities == <<3, 11, 23>>

MCHashOf ==
  [void |-> 1, bool |-> 2, i8 |-> 3, i16 |-> 4, i32 |-> 5, i64 |-> 6, f32 |-> 7, f64 |-> 12,
   g |-> 10, x |-> 10, y |-> 27, a |-> 19, s |-> 13,
   p2 |-> 14, p3 |-> 15, p4 |-> 16, p5 |-> 17, p6 |-> 18]

Parameter(name, type) == [name |-> name, type |-> type]

One == Number("1", "i8")
Sum(lhs, rhs) == Binary("+", lhs, rhs)
Same(lhs, rhs) == Binary("==", lhs, rhs)
Assign(lhs, rhs) == Binary(":=", lhs, rhs)
LocalDefinition(type, name, e) == [type |-> type, name |-> name, expression |-> e]

MCParameterLists ==
  {<<Parameter("a", "i64"), Parameter("s", "i32"), Parameter("p3", "i8"), Parameter("p4", "i16"),
     Parameter("p5", "i64"), Parameter("p6", "i32")>>}

MCDefinitions ==
  {LocalDefinition("i32", "x", One), LocalDefinition(NULL, "y", Sum(Id("x"), Id("p6")))}

MCStatements == {Assign(Id("g"), Sum(Sum(Id("x"), Id("y")), Sum(Id("a"), Id("s"))))}
MCConditions == {Same(Id("a"), Id("s"))}
MCResults == {Sum(Id("y"), Id("a")), Id("x"), Id("p3"), One, Sum(Id("p3"), One)}

\* A name defined in a scope and again in the one within.
MCShadowedMaxStatements == <<4>>
MCShadowedDefinitions == {LocalDefinition("i64", "x", One), LocalDefinition("i64", "x", Id("a"))}
MCShadowedResults == {Id("x")}

=============================================================================
