----------------------------- MODULE MCBnfParser ----------------------------
(***************************************************************************)
(* The grammar of the language on every source of up to three lexemes, and *)
(* on longer ones that need its recursion and its backtracking.  In the    *)
(* sources of the passing run a space separates the special symbols, so no *)
(* token holds two of them; in the others they touch.                      *)
(***************************************************************************)
EXTENDS BnfScheme, SyntaxSolver

\* The nodes of the scheme, found from its rules downwards.
MCNodes ==
  LET within[depth \in 0 .. 10] ==
        IF depth = 0 THEN {Scheme[rule] : rule \in DOMAIN Scheme}
        ELSE within[depth - 1] \cup
               UNION {{node.children[i] : i \in DOMAIN node.children} :
                        node \in within[depth - 1]}
  IN  within[10]

MCLexemes == {"a", ";", "(", ")", ":=", "if", "else", "}"}

MCShort ==
  LET upTo[n \in 0 .. 3] ==
        IF n = 0 THEN {""}
        ELSE upTo[n - 1] \cup {s \o " " \o c : s \in upTo[n - 1], c \in MCLexemes}
  IN  upTo[3]

MCLong ==
  {"a := b := 1 ;", "( a ) + b ;", "( ( a ) ) ;", "a . b . c ( d ) * e - 1 == 2 ;",
   "if ( a ) b ; else { c ; }", "if ( a ) if ( b ) c ; else d ;",
   "if ( a ) if ( b ) c ; else d ; else { e ; } f ;",
   "if ( a == 3 ) { } else { a := 5 ; } return 0 ;", "if ( a ) b ;",
   "a - b - c * d / e + f ;", "a == b != c == d := e := f ;", "a * ( b - ( c - d ) ) ;",
   "( a ) -> b c := 1 ;", "( ) -> ( ) -> a b := c ;", "var x := \"s\" ;",
   "int x := y ; var z := x + 1 ; { ; z ; { } return ; }", "f ( ) * ( g ) ( ) ;",
   "f ( a , b ) ;", "f ( a ) ;", "return ( a ;", "{ { a } }", "a b := 1 ; c",
   "if ( a ) ; else", "if ; a + ( b * ( c - 1 ) ) ;"}

MCSeparated == (MCShort \cup MCLong) \ {""}

\* Statements with brackets, the last of which begins with one.
MCTouching == {"a;", "{}", "f(a);", "a:=(b);", "if(a){b;}else{c;}", "(a)+b;"}

\* Sources that are parsed after another one.
MCFollowers == {"a ;", "if ( a ) b ;", "( a ) + b ; var x := f ( ) ;"}
=============================================================================
