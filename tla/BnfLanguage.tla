---------------------------- MODULE BnfLanguage -----------------------------
(***************************************************************************)
(* The language the parser's grammar derives, and what the parser says of  *)
(* a source compared with it.                                              *)
(***************************************************************************)
EXTENDS BnfParser

(***************************************************************************)
(* The language of the grammar, by what each node may derive: the places   *)
(* where a text of the node that begins at the place p may end.  A         *)
(* repetition repeats its first child, as nextChild does.                  *)
(***************************************************************************)
TokenOver(p) ==
  LET over == {t \in DOMAIN tokens : p \in tokens[t].first .. Lexer!EndOf(tokens[t]) - 1}
  IN  IF over = {} THEN NULL ELSE CHOOSE t \in over : TRUE

LeafEnds(node, p) ==
  LET t == TokenOver(p)
      off == p - tokens[t].first
      whole == TokenType(t) # "SPECIAL"
  IN  IF /\ t # NULL
         /\ whole => off = 0
         /\ Matches(node, t, off)
      THEN LET after == After(node, t, off) IN {Place(after[1], after[2])}
      ELSE {}

RECURSIVE Ends(_, _), EndsOfAll(_, _), EndsOfAny(_, _)

\* Where children i, i + 1, ... may end one after the other.
EndsOfAll(nodes, p) ==
  IF nodes = <<>> THEN {p}
  ELSE UNION {EndsOfAll(Tail(nodes), q) : q \in Ends(Head(nodes), p)}

\* Where repetitions of a node that consumes something may end.
EndsOfAny(node, p) ==
  {p} \cup UNION {EndsOfAny(node, q) : q \in Ends(node, p) \ {p}}

Ends(node, p) ==
  CASE IsLeaf(node) -> LeafEnds(node, p)
    [] node.type = "REF" -> Ends(Rules[node.value], p)
    [] node.type = "CONCAT" -> EndsOfAll(node.children, p)
    [] node.type = "OR" -> UNION {Ends(node.children[i], p) : i \in DOMAIN node.children}
    [] node.type = "OPTIONAL" -> {p} \cup Ends(node.children[1], p)
    [] node.type = "REPEAT" -> EndsOfAny(node.children[1], p)

Derivable == Ends(Rules[Root], Place(1, 0))

(***************************************************************************)
(* The parser accepts exactly the sources the grammar derives.             *)
(***************************************************************************)
AcceptsLanguage == pc = "done" => (success <=> Len(source) \in Derivable)

(***************************************************************************)
(* The place a failed parse reports lies not before the end of what can be *)
(* derived from the beginning of the source.                               *)
(***************************************************************************)
ErrorBehindValidPart ==
  pc = "done" /\ ~success =>
    Place(error.maxToken, error.maxTokenOffset) >= Max(Derivable)

=============================================================================
