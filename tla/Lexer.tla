-------------------------------- MODULE Lexer -------------------------------
(***************************************************************************)
(* The lexer (lexer.c): it cuts a source into tokens and drops spaces and  *)
(* comments.  Positions count from 0, as sourceIt - source does.           *)
(***************************************************************************)
EXTENDS Integers, Sequences, FiniteSetsExt

CONSTANTS
  Sources,         \* the sources to cut
  MaxTokenLength   \* UINT16_MAX

ASSUME LexerAssumption ==
  /\ MaxTokenLength \in Nat \ {0}
  /\ \A text \in Sources : Len(text) \in Nat

VARIABLES
  source,    \* "source"
  sourceIt,  \* "sourceIt"
  tokens,    \* the tokens so far, linked by "next"
  failed     \* get_next_token returned NULL

vars == <<source, sourceIt, tokens, failed>>

-----------------------------------------------------------------------------

\* getChar for position p of a source; "" stands for the end.
CharAt(text, p) == IF p < Len(text) THEN SubSeq(text, p + 1, p + 1) ELSE ""

CharsOf(text) == {CharAt(text, p) : p \in 0 .. Len(text) - 1}

Quote == "\""
\* '\v', for which TLA+ has no escape: the string holds the character itself.
VerticalTab == ""
Spaces == CharsOf(" \t\n\f\r") \cup {VerticalTab}
Digits == CharsOf("0123456789")
StartingIdSymbols ==
  CharsOf("_abcdefghijklmnopqrstuvwxyzABCDEFGHIJKLMNOPQRSTUVWXYZ")
IdSymbols == StartingIdSymbols \cup Digits

\* No character is of two classes, and the end of the source is of none.
ASSUME ClassesAssumption ==
  /\ Spaces \cap IdSymbols = {} /\ Digits \cap StartingIdSymbols = {}
  /\ {"", "/", Quote, ".", "*"} \cap (Spaces \cup IdSymbols) = {}
  /\ Quote \notin {"", "/", ".", "*"}

\* The first position from p on that satisfies Test, or the end.
FirstFrom(text, p, Test(_)) ==
  Min({q \in p .. Len(text) : q = Len(text) \/ Test(q)})

\* The end of a run of such characters that begins at p.
EndOfRun(text, p, chars) ==
  FirstFrom(text, p, LAMBDA q : CharAt(text, q) \notin chars)

IsComment(text, p, second) ==
  CharAt(text, p) = "/" /\ CharAt(text, p + 1) = second

\* skipSingleLineComment: up to and including the end of the line.
EndOfSingleLineComment(text, p) ==
  LET q == FirstFrom(text, p + 2, LAMBDA r : CharAt(text, r) = "\n")
  IN  IF q < Len(text) THEN q + 1 ELSE q

IsEndOfBlock(text, p) == CharAt(text, p) = "*" /\ CharAt(text, p + 1) = "/"

\* Mutant of EndOfMultiLineComment: the star that opens it may also close it.
EndOfMultiLineCommentEarly(text, p) ==
  LET q == FirstFrom(text, p + 1, LAMBDA r : IsEndOfBlock(text, r))
  IN  IF q < Len(text) THEN q + 1 ELSE q

\* skipMultiLineComment: the "/" of the closing "*/" is left to the caller.
EndOfMultiLineComment(text, p) ==
  LET q == FirstFrom(text, p + 2, LAMBDA r : IsEndOfBlock(text, r))
  IN  IF q < Len(text) THEN q + 1 ELSE q

SkipSpaceAndComments(text, start) ==
  LET skip[p \in 0 .. Len(text)] ==
        IF CharAt(text, p) \in Spaces THEN skip[p + 1]
        ELSE IF IsComment(text, p, "/") THEN skip[EndOfSingleLineComment(text, p)]
        ELSE IF IsComment(text, p, "*") THEN skip[EndOfMultiLineComment(text, p)]
        ELSE p
  IN  skip[start]

\* Where a number, an id or a string begins, or a special token must end.
BeginsNumber(text, p) ==
  \/ CharAt(text, p) \in Digits
  \/ CharAt(text, p) = "." /\ CharAt(text, p + 1) \in Digits

\* Mutant of EndsSpecial: spaces do not end a special token.
EndsSpecialNotAtSpace(text, p) ==
  \/ BeginsNumber(text, p)
  \/ CharAt(text, p) \in StartingIdSymbols \cup {Quote}
  \/ IsComment(text, p, "/") \/ IsComment(text, p, "*")

EndsSpecial(text, p) ==
  \/ BeginsNumber(text, p)
  \/ CharAt(text, p) \in Spaces \cup StartingIdSymbols \cup {Quote}
  \/ IsComment(text, p, "/") \/ IsComment(text, p, "*")

EndOfSpecial(text, p) == FirstFrom(text, p, LAMBDA q : EndsSpecial(text, q))

\* The closing quote of the string that is opened at p.
EndOfString(text, p) == FirstFrom(text, p + 1, LAMBDA q : CharAt(text, q) = Quote)

EndOfNumber(text, p) ==
  LET q == EndOfRun(text, p, Digits)
  IN  IF CharAt(text, q) = "." THEN EndOfRun(text, q + 1, Digits) ELSE q

Token(type, first, end) == [type |-> type, first |-> first, length |-> end - first]

\* The token at p; a string token begins behind its quote.
TokenAt(text, p) ==
  IF EndOfSpecial(text, p) > p THEN Token("SPECIAL", p, EndOfSpecial(text, p))
  ELSE IF BeginsNumber(text, p) THEN Token("NUMBER", p, EndOfNumber(text, p))
  ELSE IF CharAt(text, p) = Quote THEN Token("STRING", p + 1, EndOfString(text, p))
  ELSE Token("ID", p, EndOfRun(text, p, IdSymbols))

EndOf(token) == token.first + token.length

\* Mutant of IsRefused: the length is not checked.
IsRefusedAnyLength(text, token) ==
  token.type = "STRING" /\ EndOf(token) = Len(text)

\* createToken refuses long tokens, and a string must have a closing quote.
IsRefused(text, token) ==
  \/ token.length > MaxTokenLength
  \/ token.type = "STRING" /\ EndOf(token) = Len(text)

\* Where the lexer goes on: behind the token, its quote, and what is skipped.
PositionAfter(text, token) ==
  SkipSpaceAndComments(text,
    EndOf(token) + (IF token.type = "STRING" THEN 1 ELSE 0))

-----------------------------------------------------------------------------

\* ketl_lexer_init.
Init ==
  /\ source \in Sources
  /\ sourceIt = SkipSpaceAndComments(source, 0)
  /\ tokens = <<>>
  /\ failed = FALSE

HasNextToken == sourceIt < Len(source)

\* Mutant of GetNextToken: a refused token is asked for again.
GetNextTokenRetries ==
  /\ ~failed
  /\ HasNextToken
  /\ LET token == TokenAt(source, sourceIt)
     IN  /\ ~IsRefused(source, token)
         /\ tokens' = Append(tokens, token)
         /\ sourceIt' = PositionAfter(source, token)
         /\ UNCHANGED failed
  /\ UNCHANGED source

\* ketl_lexer_get_next_token.
GetNextToken ==
  /\ ~failed
  /\ HasNextToken
  /\ LET token == TokenAt(source, sourceIt)
     IN  IF IsRefused(source, token)
         THEN failed' = TRUE /\ UNCHANGED <<sourceIt, tokens>>
         ELSE /\ tokens' = Append(tokens, token)
              /\ sourceIt' = PositionAfter(source, token)
              /\ UNCHANGED failed
  /\ UNCHANGED source

Next == GetNextToken

Spec == Init /\ [][Next]_vars /\ WF_vars(Next)

-----------------------------------------------------------------------------

\* The tokens of a source from a position on, up to one that is refused.
TokensFrom(text, start) ==
  LET from[p \in 0 .. Len(text)] ==
        IF p = Len(text) \/ IsRefused(text, TokenAt(text, p)) THEN <<>>
        ELSE <<TokenAt(text, p)>> \o from[PositionAfter(text, TokenAt(text, p))]
  IN  from[start]

\* The tokens of a whole source, as the solver collects them.
Tokens(text) == TokensFrom(text, SkipSpaceAndComments(text, 0))

Text(text, token) == SubSeq(text, token.first + 1, EndOf(token))

Done == failed \/ ~HasNextToken

(***************************************************************************)
(* Types of the fields of ketl_lexer and of the tokens.                    *)
(***************************************************************************)
TypeOK ==
  /\ source \in Sources
  /\ sourceIt \in 0 .. Len(source)
  /\ \A i \in DOMAIN tokens :
       /\ tokens[i].type \in {"ID", "NUMBER", "STRING", "SPECIAL"}
       /\ tokens[i].first \in 0 .. Len(source)
       /\ tokens[i].length \in 0 .. MaxTokenLength
  /\ failed \in BOOLEAN

\* What the character behind position p is, if that at p is m.
ReadNext(text, p, m) ==
  LET c == CharAt(text, p)
  IN  CASE m = "code" /\ IsComment(text, p, "/") -> "open line"
        [] m = "code" /\ IsComment(text, p, "*") -> "open block"
        [] m = "code" /\ c = Quote -> "string"
        [] m = "open line" -> "line"
        [] m = "open block" -> "block"
        [] m = "line" /\ c = "\n" -> "code"
        [] m = "block" /\ IsEndOfBlock(text, p) -> "code"
        [] m = "string" /\ c = Quote -> "code"
        [] OTHER -> m

(***************************************************************************)
(* What each character of a source is, by reading it once from left to     *)
(* right: code, part of a string, or part of a comment.  A block comment   *)
(* ends before its closing slash, as it does in skipMultiLineComment.      *)
(***************************************************************************)
Reading(text) ==
  LET mode[p \in 0 .. Len(text)] ==
        IF p = 0 THEN "code" ELSE ReadNext(text, p - 1, mode[p - 1])
  IN  mode

\* The characters that carry meaning: code without layout, and string contents.
Meant(text) ==
  {p \in 0 .. Len(text) - 1 :
     /\ CharAt(text, p) # Quote
     /\ \/ /\ Reading(text)[p] = "code"
           /\ CharAt(text, p) \notin Spaces
           /\ ~IsComment(text, p, "/") /\ ~IsComment(text, p, "*")
        \/ Reading(text)[p] = "string"}

(***************************************************************************)
(* Tokens follow one another in the source without overlap, and none but   *)
(* a string is empty: the parser's walk over a token always moves on.      *)
(* Together they hold every character that carries meaning and nothing of  *)
(* the layout: no text of a comment is read as code, and no code is        *)
(* swallowed by a comment.                                                 *)
(***************************************************************************)
TokensHoldMeaning ==
  /\ \A i \in DOMAIN tokens :
       /\ tokens[i].length > 0 \/ tokens[i].type = "STRING"
       /\ i > 1 => EndOf(tokens[i - 1]) <= tokens[i].first
       /\ EndOf(tokens[i]) <= sourceIt
  /\ Done /\ ~failed =>
       UNION {t.first .. EndOf(t) - 1 : t \in {tokens[i] : i \in DOMAIN tokens}}
         = Meant(source)

(***************************************************************************)
(* skipMultiLineComment ends at "*" and "/" (lexer.c:66, "isSecondSymbol-   *)
(* MultiLineCommentEnd"), so no token holds the slash that ends a comment.   *)
(***************************************************************************)
CommentsSkipped ==
  \A i \in DOMAIN tokens : \A p \in tokens[i].first .. EndOf(tokens[i]) - 1 :
    p > 0 => ~(Reading(source)[p - 1] = "block" /\ IsEndOfBlock(source, p - 1))

\* A token as it is written.
Written(text, token) ==
  IF token.type = "STRING" THEN Quote \o Text(text, token) \o Quote ELSE Text(text, token)

Joined(text, list) ==
  LET upTo[i \in 0 .. Len(list)] ==
        IF i = 0 THEN "" ELSE upTo[i - 1] \o Written(text, list[i]) \o " "
  IN  upTo[Len(list)]

Meaning(text, list) ==
  [i \in DOMAIN list |-> <<list[i].type, Text(text, list[i])>>]

(***************************************************************************)
(* Layout carries no meaning: the tokens of a source, written out with one *)
(* space between them, are cut into the same tokens again.                 *)
(***************************************************************************)
LayoutIrrelevant ==
  Done /\ ~failed =>
    LET plain == Joined(source, tokens)
    IN  Meaning(plain, Tokens(plain)) = Meaning(source, tokens)

(***************************************************************************)
(* Every source is cut to its end, or refused.                             *)
(***************************************************************************)
LexingEnds == <>Done

=============================================================================
