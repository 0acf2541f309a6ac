------------------------------ MODULE BnfParser -----------------------------
(***************************************************************************)
(* The backtracking parser (bnf_parser.c).  A stack of frames, one for     *)
(* each node of the grammar it has entered, is the derivation found so     *)
(* far; a frame that cannot be matched is popped, and so are the frames    *)
(* before it until one has another alternative.                            *)
(***************************************************************************)
EXTENDS Integers, Sequences, SequencesExt, FiniteSetsExt, TLC

CONSTANTS
  Rules,     \* the scheme: the nodes of each rule as a tree
  Nodes,     \* all nodes of these trees
  Root,      \* the rule to parse by
  Sources,   \* the texts to parse
  Followers  \* the texts to parse behind the first one

ASSUME SchemeAssumption ==
  /\ Root \in DOMAIN Rules
  /\ \A rule \in DOMAIN Rules : Rules[rule] \in Nodes
  /\ \A node \in Nodes :
       /\ node.type \in {"ID", "NUMBER", "STRING", "CONSTANT",
                         "REF", "CONCAT", "OR", "OPTIONAL", "REPEAT"}
       /\ node.children \in Seq(Nodes)
       /\ node.type = "REF" => node.value \in DOMAIN Rules
       /\ node.type \in {"OR", "REPEAT"} => node.children # <<>>
       /\ node.type = "CONSTANT" => Len(node.value) \in Nat

VARIABLES
  source,   \* the text the tokens point into
  tokens,   \* the tokens the lexer made of it
  stack,    \* "bnfStateStack"
  above,    \* what popped frames left in the slots above its top
  pc,       \* where ketl_bnf_parse is: at the top of its loop ("match"), in the
            \* loop over nextChild ("descend"), in that over pop ("reject"), "done"
  current,  \* the index of the frame "current" points to, 0 for NULL
  token,    \* "currentToken", 0 for NULL
  offset,   \* "currentTokenOffset"
  error,    \* the ketl_bnf_error_info
  success   \* what ketl_bnf_parse returned

position == <<current, token, offset>>
vars == <<source, tokens, stack, above, pc, position, error, success>>

-----------------------------------------------------------------------------

Lexer == INSTANCE Lexer WITH sourceIt <- 0, failed <- FALSE, MaxTokenLength <- 65535

\* What the lexer makes of a text.
TokenSet == [type : {"ID", "NUMBER", "STRING", "SPECIAL"}, first : Nat, length : Nat]

ASSUME TextsAssumption ==
  \A text \in Sources \cup Followers : Lexer!Tokens(text) \in Seq(TokenSet)

NULL == 0

\* A node is named by its rule and the way down to it; a frame holds such a name.
NodeAt(path) ==
  LET at[n \in 1 .. Len(path)] ==
        IF n = 1 THEN Rules[path[1]] ELSE at[n - 1].children[path[n]]
  IN  at[Len(path)]

FrameNode(i) == NodeAt(stack[i].node)

Frame(node, parent, tok, off) ==
  [node |-> node, state |-> 0, token |-> tok, offset |-> off, parent |-> parent]

NextToken(t) == IF t < Len(tokens) THEN t + 1 ELSE NULL

TokenType(t) == IF t = NULL THEN "END" ELSE tokens[t].type

\* ketl_syntax_solver_solve: the first frame, and the error before there is one.
FirstFrames == <<Frame(<<Root>>, NULL, 1, 0)>>
NoErrorYet == [maxToken |-> 1, maxTokenOffset |-> 0, node |-> <<>>]

\* A state that was just created, with the tokens of a text.
StartOn(text) ==
  /\ source = text
  /\ tokens = Lexer!Tokens(text)
  /\ tokens # <<>>
  /\ stack = FirstFrames
  /\ above = <<>>
  /\ pc = "match"
  /\ current = 1
  /\ token = 1
  /\ offset = 0
  /\ error = NoErrorYet
  /\ success = FALSE

Init == \E text \in Sources : StartOn(text)

-----------------------------------------------------------------------------

IsLeaf(node) == node.type \in {"ID", "NUMBER", "STRING", "CONSTANT"}

\* The n characters of the source behind "off" characters of token t, as far
\* as the source goes.
TextAt(t, off, n) ==
  LET first == tokens[t].first + off
  IN  SubSeq(source, first + 1, Min({first + n, Len(source)}))

\* "tokenDiff" is unsigned: behind the end of a token it is larger than any text.
Wrapped == 2^16
Rest(t, off) ==
  LET diff == tokens[t].length - off IN IF diff < 0 THEN diff + Wrapped ELSE diff

\* iterateIterator finds the text at the offset.
HasText(t, off, text) ==
  /\ Len(text) <= Rest(t, off)
  /\ TextAt(t, off, Len(text)) = text

\* A leaf matches at an offset of a token.
Matches(node, t, off) ==
  IF node.type = "CONSTANT"
  THEN \/ TokenType(t) = "SPECIAL" /\ HasText(t, off, node.value)
       \/ /\ TokenType(t) = "ID" /\ tokens[t].length = Len(node.value)
          /\ HasText(t, off, node.value)
  ELSE TokenType(t) = node.type

\* Where a leaf that matches leaves the position: <<token, offset>>.
After(node, t, off) ==
  IF node.type # "CONSTANT" THEN <<NextToken(t), off>>
  ELSE IF Len(node.value) = Rest(t, off) THEN <<NextToken(t), 0>>
  ELSE <<t, off + Len(node.value)>>

(***************************************************************************)
(* iterate succeeds for the frame at the top of the stack: a leaf consumes *)
(* what it matches, any other node begins with its first child.            *)
(***************************************************************************)
Match ==
  LET top == Len(stack)
      frame == stack[top]
      node == FrameNode(top)
  IN  /\ pc = "match"
      /\ current' = top
      /\ pc' = "descend"
      /\ IF IsLeaf(node)
         THEN /\ Matches(node, frame.token, frame.offset)
              /\ token' = After(node, frame.token, frame.offset)[1]
              /\ offset' = After(node, frame.token, frame.offset)[2]
              /\ UNCHANGED stack
         ELSE /\ stack' = [stack EXCEPT ![top].state = 0]
              /\ token' = frame.token /\ offset' = frame.offset
      /\ UNCHANGED <<source, tokens, above, error, success>>

\* A position of a token as one number, the end of the source for NULL.
Place(t, off) == IF t = NULL THEN Len(source) ELSE tokens[t].first + off

\* Mutant of IsFarther: the comparison of the places is turned around.
IsNearer(frame) ==
  /\ error.maxToken # NULL /\ frame.token # NULL
  /\ Place(error.maxToken, error.maxTokenOffset) > Place(frame.token, frame.offset)

\* The frame lies behind the error noted so far.
IsFarther(frame) ==
  /\ error.maxToken # NULL
  /\ \/ frame.token = NULL
     \/ Place(error.maxToken, error.maxTokenOffset) < Place(frame.token, frame.offset)

\* The error the user is told: the last failure at the farthest position.
Noted(frame) ==
  IF \/ error.maxToken = frame.token /\ error.maxTokenOffset = frame.offset
     \/ IsFarther(frame)
  THEN [maxToken |-> frame.token, maxTokenOffset |-> frame.offset, node |-> frame.node]
  ELSE error

\* iterate fails for the leaf at the top of the stack.
Mismatch ==
  LET top == Len(stack)
      frame == stack[top]
  IN  /\ pc = "match"
      /\ IsLeaf(FrameNode(top))
      /\ ~Matches(FrameNode(top), frame.token, frame.offset)
      /\ error' = Noted(frame)
      /\ current' = top
      /\ token' = frame.token /\ offset' = frame.offset
      /\ pc' = "reject"
      /\ UNCHANGED <<source, tokens, stack, above, success>>

Outcome(state, goesOn) == [state |-> state, goesOn |-> goesOn]

\* Mutant of RejectedConcat: a sequence does not count its child back.
RejectedConcatUncounted(state) == Outcome(state, FALSE)

RejectedConcat(state) == Outcome(state - 1, FALSE)

\* Mutant of RejectedOr: the last alternative is never tried.
RejectedOrBeforeLast(size, state) ==
  Outcome(state - (size - 1), state - (size - 1) < size - 1)

RejectedOr(size, state) ==
  Outcome(state - (size - 1), state - (size - 1) < size)

\* childRejected: the state of a node whose child failed, and whether it goes on.
Rejected(node, state) ==
  LET size == Len(node.children)
  IN  CASE node.type = "CONCAT" -> RejectedConcat(state)
        [] node.type = "OR" -> RejectedOr(size, state)
        [] node.type = "OPTIONAL" ->
             Outcome(state - (size - 1), state - (size - 1) <= size)
        [] node.type = "REPEAT" -> Outcome(1, TRUE)
        [] OTHER -> Outcome(state, FALSE)

Return(result) == pc' = "done" /\ success' = result

\* Mutant of Reject: the parser goes back in the grammar, not in the tokens.
RejectKeepsToken ==
  LET parent == stack[current].parent
      outcome == Rejected(FrameNode(parent), stack[parent].state)
      rest == IF parent = NULL THEN Front(stack)
              ELSE [Front(stack) EXCEPT ![parent].state = outcome.state]
  IN  /\ pc = "reject"
      /\ stack' = rest
      /\ above' = <<stack[current]>> \o above
      /\ IF parent # NULL /\ outcome.goesOn
         THEN pc' = "descend" /\ current' = parent /\ UNCHANGED success
         ELSE IF rest = <<>>
         THEN Return(token = NULL) /\ UNCHANGED current
         ELSE current' = Len(rest) /\ UNCHANGED <<pc, success>>
      /\ UNCHANGED <<source, tokens, token, offset, error>>

(***************************************************************************)
(* One turn of the loop over pop.  The frame's token becomes the current   *)
(* one again when the loop goes on with the frame below; the offset stays  *)
(* what it was when the leaf failed.                                       *)
(***************************************************************************)
Reject ==
  LET parent == stack[current].parent
      outcome == Rejected(FrameNode(parent), stack[parent].state)
      rest == IF parent = NULL THEN Front(stack)
              ELSE [Front(stack) EXCEPT ![parent].state = outcome.state]
  IN  /\ pc = "reject"
      /\ stack' = rest
      /\ above' = <<stack[current]>> \o above
      /\ IF parent # NULL /\ outcome.goesOn
         THEN pc' = "descend" /\ current' = parent /\ UNCHANGED <<token, success>>
         ELSE IF rest = <<>>
         THEN Return(token = NULL) /\ UNCHANGED <<current, token>>
         ELSE /\ current' = Len(rest)
              /\ token' = Last(rest).token
              /\ UNCHANGED <<pc, success>>
      /\ UNCHANGED <<source, tokens, offset, error>>

Enter(child, state) == [child |-> child, state |-> state]
Leave(state) == Enter(0, state)

\* Mutant of NextOfConcat: a sequence does not count the child it enters.
NextOfConcatUncounted(size, state) ==
  IF state < size THEN Enter(state + 1, state) ELSE Leave(state)

NextOfConcat(size, state) ==
  IF state < size THEN Enter(state + 1, state + 1) ELSE Leave(state)

\* Mutant of NextOfRepeat: a repetition is never left.
NextOfRepeatForEver(state) == Enter(1, 0)

NextOfRepeat(state) == IF state = 1 THEN Leave(0) ELSE Enter(1, state)

\* nextChild: the child to enter, 0 if there is none, and the state it leaves.
NextChild(node, state) ==
  LET size == Len(node.children)
  IN  CASE node.type = "REF" -> IF state > 0 THEN Leave(state) ELSE Enter(1, state + 1)
        [] node.type = "CONCAT" -> NextOfConcat(size, state)
        [] node.type \in {"OR", "OPTIONAL"} ->
             IF state < size THEN Enter(state + 1, state + size) ELSE Leave(state)
        [] node.type = "REPEAT" -> NextOfRepeat(state)
        [] OTHER -> Leave(state)

ChildPath(path, child) ==
  IF NodeAt(path).type = "REF" THEN <<NodeAt(path).value>> ELSE Append(path, child)

\* One turn of the loop over nextChild.
Descend ==
  LET frame == stack[current]
      outcome == NextChild(FrameNode(current), frame.state)
      marked == [stack EXCEPT ![current].state = outcome.state]
  IN  /\ pc = "descend"
      /\ IF outcome.child # 0
         THEN /\ stack' = Append(marked, Frame(ChildPath(frame.node, outcome.child),
                                               current, token, offset))
              /\ above' = SubSeq(above, 2, Len(above))
              /\ pc' = "match"
              /\ UNCHANGED <<current, success>>
         ELSE /\ stack' = marked
              /\ current' = frame.parent
              /\ IF frame.parent = NULL THEN Return(token = NULL)
                 ELSE UNCHANGED <<pc, success>>
              /\ UNCHANGED above
      /\ UNCHANGED <<source, tokens, token, offset, error>>

Next == Match \/ Mismatch \/ Reject \/ Descend

(***************************************************************************)
(* ketl_syntax_solver_solve for another text: the stack and the pool of    *)
(* tokens were reset behind the one before.  A frame and its token are a   *)
(* place in memory, which this text takes again.                           *)
(***************************************************************************)
Restart(text) ==
  /\ pc = "done" /\ success
  /\ source' = text
  /\ tokens' = Lexer!Tokens(text)
  /\ tokens' # <<>>
  /\ stack' = FirstFrames
  /\ above' = SubSeq(stack \o above, 2, Len(stack) + Len(above))
  /\ pc' = "match" /\ current' = 1 /\ token' = 1 /\ offset' = 0
  /\ error' = NoErrorYet
  /\ success' = FALSE

\* The parser on one text after the other.
Parsing == Init /\ [][Next \/ \E text \in Followers : Restart(text)]_vars

-----------------------------------------------------------------------------

(***************************************************************************)
(* Types of the frames and of the locals of ketl_bnf_parse.                *)
(***************************************************************************)
TypeOK ==
  LET TokenOrNull == 0 .. Len(tokens)
  IN  /\ \A i \in DOMAIN stack :
           /\ stack[i].state \in Nat
           /\ stack[i].token \in TokenOrNull
           /\ stack[i].offset \in Nat
           /\ stack[i].parent \in 0 .. i - 1
      /\ pc \in {"match", "descend", "reject", "done"}
      /\ current \in 0 .. Len(stack) + 1
      /\ token \in TokenOrNull
      /\ offset \in Nat
      /\ error.maxToken \in TokenOrNull /\ error.maxTokenOffset \in Nat
      /\ success \in BOOLEAN

\* The frames entered as children of frame i.
Children(i) == {j \in DOMAIN stack : stack[j].parent = i}

(***************************************************************************)
(* However often the parser goes back, a sequence knows how many of its    *)
(* children it has entered, and an alternative which one of them.          *)
(***************************************************************************)
StateCountsChildren ==
  pc # "match" =>
  \A i \in DOMAIN stack :
    LET node == FrameNode(i)
    IN  /\ node.type = "CONCAT" => stack[i].state = Cardinality(Children(i))
        /\ node.type = "OR" /\ Children(i) # {} =>
             \E j \in Children(i) :
               stack[j].node =
                 ChildPath(stack[i].node, stack[i].state - Len(node.children) + 1)

\* The position behind frame i, if it is a leaf, or else where it begins.
PlaceBehind(i) ==
  IF IsLeaf(FrameNode(i))
  THEN LET after == After(FrameNode(i), stack[i].token, stack[i].offset)
       IN  Place(after[1], after[2])
  ELSE Place(stack[i].token, stack[i].offset)

(***************************************************************************)
(* The leaves on the stack match the tokens from the first on without a    *)
(* gap: every frame begins where the one before it ended, also after the   *)
(* parser went back to an earlier token.  The syntax parser builds its     *)
(* tree from these frames alone.                                           *)
(***************************************************************************)
FramesJoin ==
  /\ \A i \in 1 .. Len(stack) - 1 :
       Place(stack[i + 1].token, stack[i + 1].offset) = PlaceBehind(i)
  /\ pc = "descend" => Place(token, offset) = PlaceBehind(Len(stack))

(***************************************************************************)
(* Every symbol that begins a token of the source is the whole token: a    *)
(* text with a space between its symbols is like that, but for "->", which *)
(* begins with "-".                                                        *)
(***************************************************************************)
SymbolsSeparated ==
  \A node \in Nodes, t \in 1 .. Len(tokens) :
    node.type = "CONSTANT" /\ Matches(node, t, 0) => Len(node.value) = Rest(t, 0)

=============================================================================
