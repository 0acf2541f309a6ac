------------------------------- MODULE MCLexer ------------------------------
(***************************************************************************)
(* Every source of up to four characters over one of each kind, and longer *)
(* ones with nested and unclosed comments and strings.                     *)
(***************************************************************************)
EXTENDS Lexer

MCChars == {"a", "1", ".", "/", "*", "\"", "\n", ";"}

MCShort ==
  LET upTo[n \in 0 .. 4] ==
        IF n = 0 THEN {""}
        ELSE upTo[n - 1] \cup {s \o c : s \in upTo[n - 1], c \in MCChars}
  IN  upTo[4]

MCSources ==
  MCShort \cup
  {"a/*1*/;", "a /**/ 1", "/*a*//1\n;", "//*\na*/", "a/*/;*/1", "\"//\";a//1",
   "1.1.1a", "a.1..", " \t;\r\n a ", "\fa" \o VerticalTab \o "1",
   "aaaaaa1", "\"a1;a1;", "a:=(1+.1);//"}
=============================================================================
