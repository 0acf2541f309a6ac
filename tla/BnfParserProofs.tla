-------------------------- MODULE BnfParserProofs ---------------------------
(***************************************************************************)
(* Proofs about the backtracking parser.                                   *)
(***************************************************************************)
EXTENDS BnfParser, ProofLemmas, FiniteSetTheorems

-----------------------------------------------------------------------------

\* f holds the first m nodes on the way down a path.
Way(path, m, f) ==
  f = [n \in 1 .. m |-> IF n = 1 THEN Rules[path[1]] ELSE f[n - 1].children[path[n]]]

(* There is a way down every path. *)
LEMMA WayExists ==
  ASSUME NEW path, NEW m \in Nat
  PROVE  \E f : Way(path, m, f)
<1> DEFINE S == {k \in Nat : \E f : Way(path, k, f)}
<1>1. 0 \in S
  <2>1. Way(path, 0, <<>>)
    BY DEF Way
  <2> QED
    BY <2>1
<1>2. ASSUME NEW k \in S
      PROVE  k + 1 \in S
  <2>1. PICK f : Way(path, k, f)
    OBVIOUS
  <2>2. PICK g : g = [n \in 1 .. k + 1 |-> IF n = 1 THEN Rules[path[1]]
                                           ELSE f[n - 1].children[path[n]]]
    OBVIOUS
  <2>3. ASSUME NEW n \in 1 .. k
        PROVE  g[n] = f[n]
    <3>1. f[n] = IF n = 1 THEN Rules[path[1]] ELSE f[n - 1].children[path[n]]
      BY <2>1 DEF Way
    <3>2. n \in 1 .. k + 1
      OBVIOUS
    <3> QED
      BY <2>2, <3>1, <3>2
  <2>4. \A n \in 1 .. k + 1 : n # 1 => f[n - 1] = g[n - 1]
    BY <2>3
  <2>5. g = [n \in 1 .. k + 1 |-> IF n = 1 THEN Rules[path[1]]
                                  ELSE g[n - 1].children[path[n]]]
    BY <2>2, <2>4
  <2>6. Way(path, k + 1, g)
    BY <2>5 DEF Way
  <2> QED
    BY <2>6
<1>3. S = Nat
  <2>1. S \in SUBSET Nat
    OBVIOUS
  <2> HIDE DEF S
  <2> QED
    BY <1>1, <1>2, <2>1, StepInduction
<1> QED
  BY <1>3

(* Two ways agree as far as their paths do. *)
LEMMA WaysAgree ==
  ASSUME NEW p, NEW q, NEW m \in Nat, NEW k \in Nat, m <= k,
         \A n \in 1 .. m : p[n] = q[n],
         NEW f, NEW g, Way(p, m, f), Way(q, k, g)
  PROVE  \A n \in 1 .. m : f[n] = g[n]
<1> DEFINE S == {n \in Nat : n \in 1 .. m => f[n] = g[n]}
<1>1. 0 \in S
  OBVIOUS
<1>2. ASSUME NEW n \in S
      PROVE  n + 1 \in S
  <2>1. CASE n + 1 \in 1 .. m /\ n = 0
    <3>1. f[1] = Rules[p[1]] /\ g[1] = Rules[q[1]] /\ p[1] = q[1]
      BY <2>1 DEF Way
    <3> QED
      BY <2>1, <3>1
  <2>2. CASE n + 1 \in 1 .. m /\ n # 0
    <3>0. /\ n \in Nat \ {0} /\ n + 1 \in 1 .. m /\ n + 1 \in 1 .. k
          /\ n + 1 # 1 /\ (n + 1) - 1 = n
      BY <2>2
    <3>1. f[n + 1] = f[n].children[p[n + 1]]
      <4>1. f[n + 1] = f[(n + 1) - 1].children[p[n + 1]]
        BY <3>0 DEF Way
      <4> QED
        BY <3>0, <4>1
    <3>2. g[n + 1] = g[n].children[q[n + 1]]
      <4>1. g[n + 1] = g[(n + 1) - 1].children[q[n + 1]]
        BY <3>0 DEF Way
      <4> QED
        BY <3>0, <4>1
    <3>3. f[n] = g[n] /\ p[n + 1] = q[n + 1]
      BY <2>2
    <3> QED
      BY <3>1, <3>2, <3>3
  <2> QED
    BY <2>1, <2>2
<1>3. S = Nat
  <2>1. S \in SUBSET Nat
    OBVIOUS
  <2> HIDE DEF S
  <2> QED
    BY <1>1, <1>2, <2>1, StepInduction
<1> QED
  BY <1>3

(* The node at the end of a path is the end of the way down. *)
LEMMA NodeAtEnd ==
  ASSUME NEW path, Len(path) \in Nat
  PROVE  \E f : Way(path, Len(path), f) /\ NodeAt(path) = f[Len(path)]
<1> DEFINE at == CHOOSE f : Way(path, Len(path), f)
<1>1. Way(path, Len(path), at)
  BY WayExists
<1>2. NodeAt(path) = at[Len(path)]
  BY DEF NodeAt, Way
<1> QED
  BY <1>1, <1>2

\* The parts of the names of nodes: a rule, and the children on the way down.
Steps == DOMAIN Rules \cup Nat

(* The node a rule begins with. *)
LEMMA NodeOfRule ==
  ASSUME NEW rule
  PROVE  NodeAt(<<rule>>) = Rules[rule]
<1> DEFINE path == <<rule>>
<1>0. Len(path) = 1 /\ Len(path) \in Nat /\ path[1] = rule
  OBVIOUS
<1> HIDE DEF path
<1>1. PICK f : Way(path, 1, f) /\ NodeAt(path) = f[1]
  <2>1. \E f : Way(path, Len(path), f) /\ NodeAt(path) = f[Len(path)]
    BY <1>0, NodeAtEnd
  <2> QED
    BY <1>0, <2>1
<1>2. NodeAt(path) = Rules[rule]
  BY <1>0, <1>1 DEF Way
<1> QED
  BY <1>2 DEF path

(* The node one step further down. *)
LEMMA NodeOfChild ==
  ASSUME NEW path \in Seq(Steps), path # <<>>, NEW child \in Nat
  PROVE  NodeAt(Append(path, child)) = NodeAt(path).children[child]
<1> DEFINE m == Len(path)
           q == Append(path, child)
<1>1. m \in Nat /\ m >= 1 /\ q \in Seq(Steps) /\ Len(q) = m + 1 /\ q[m + 1] = child
      /\ \A n \in 1 .. m : path[n] = q[n]
  BY DEF Steps
<1>2. PICK f : Way(path, m, f) /\ NodeAt(path) = f[m]
  BY <1>1, NodeAtEnd
<1> HIDE DEF m, q
<1>3. PICK g : Way(q, m + 1, g) /\ NodeAt(q) = g[m + 1]
  <2>1. \E g : Way(q, Len(q), g) /\ NodeAt(q) = g[Len(q)]
    BY <1>1, NodeAtEnd
  <2> QED
    BY <1>1, <2>1
<1>4. f[m] = g[m]
  BY <1>1, <1>2, <1>3, WaysAgree
<1>5. g[m + 1] = g[m].children[q[m + 1]]
  BY <1>1, <1>3 DEF Way
<1> QED
  BY <1>1, <1>2, <1>3, <1>4, <1>5 DEF q

-----------------------------------------------------------------------------

\* The names of nodes.
Names == {path \in Seq(Steps) : path # <<>>}

\* What nextChild may answer for a node in a state.
MayEnter(node, state, outcome) ==
  LET size == Len(node.children)
  IN  /\ outcome.state \in Nat /\ outcome.child \in Nat
      /\ outcome.child # 0 => node.type = "REF" \/ outcome.child \in 1 .. size
      /\ node.type = "CONCAT" =>
           outcome.state = IF outcome.child = 0 THEN state ELSE state + 1
      /\ node.type \in {"OR", "OPTIONAL"} =>
           IF outcome.child = 0 THEN outcome.state = state
           ELSE state < size /\ outcome.child = state + 1 /\ outcome.state = state + size

(* nextChild answers with a child of the node, and counts it. *)
LEMMA NextChildIs ==
  ASSUME NEW node \in Nodes, NEW state \in Nat
  PROVE  MayEnter(node, state, NextChild(node, state))
<1> DEFINE size == Len(node.children)
<1>1. size \in Nat /\ (node.type = "REPEAT" => size >= 1)
  <2>1. node.children \in Seq(Nodes)
    BY SchemeAssumption
  <2>2. node.type = "REPEAT" => node.children # <<>>
    BY SchemeAssumption
  <2> QED
    BY <2>1, <2>2
<1> HIDE DEF size
<1> USE DEF Enter, Leave
<1>2. CASE node.type = "REF"
  BY <1>1, <1>2 DEF NextChild, MayEnter, size
<1>3. CASE node.type = "CONCAT"
  BY <1>1, <1>3 DEF NextChild, NextOfConcat, MayEnter, size
<1>4. CASE node.type \in {"OR", "OPTIONAL"}
  BY <1>1, <1>4 DEF NextChild, MayEnter, size
<1>5. CASE node.type = "REPEAT"
  BY <1>1, <1>5 DEF NextChild, NextOfRepeat, MayEnter, size
<1>6. CASE node.type \notin {"REF", "CONCAT", "OR", "OPTIONAL", "REPEAT"}
  BY <1>6 DEF NextChild, MayEnter
<1> QED
  BY <1>2, <1>3, <1>4, <1>5, <1>6

\* What childRejected does to the state of a node.
CountsBack(node, state, after) ==
  /\ node.type = "CONCAT" => after = state - 1
  /\ node.type \in {"OR", "OPTIONAL"} => after = state - (Len(node.children) - 1)
  /\ node.type \notin {"CONCAT", "OR", "OPTIONAL"} => after \in {1, state}

(* childRejected takes back what nextChild counted. *)
LEMMA RejectedIs ==
  ASSUME NEW node, NEW state
  PROVE  CountsBack(node, state, Rejected(node, state).state)
<1> USE DEF Outcome
<1>1. CASE node.type = "CONCAT"
  BY <1>1 DEF Rejected, RejectedConcat, CountsBack
<1>2. CASE node.type = "OR"
  BY <1>2 DEF Rejected, RejectedOr, CountsBack
<1>3. CASE node.type = "OPTIONAL"
  BY <1>3 DEF Rejected, CountsBack
<1>4. CASE node.type = "REPEAT"
  BY <1>4 DEF Rejected, CountsBack
<1>5. CASE node.type \notin {"CONCAT", "OR", "OPTIONAL", "REPEAT"}
  BY <1>5 DEF Rejected, CountsBack
<1> QED
  BY <1>1, <1>2, <1>3, <1>4, <1>5

(* The child a frame enters is a node of the scheme. *)
LEMMA ChildIsNode ==
  ASSUME NEW path \in Names, NodeAt(path) \in Nodes, NEW child \in Nat,
         NodeAt(path).type = "REF" \/ child \in 1 .. Len(NodeAt(path).children)
  PROVE  ChildPath(path, child) \in Names /\ NodeAt(ChildPath(path, child)) \in Nodes
<1> DEFINE node == NodeAt(path)
<1>1. node \in Nodes /\ path \in Seq(Steps) /\ path # <<>>
  BY DEF Names
<1>2. CASE node.type = "REF"
  <2>1. node.value \in DOMAIN Rules
    BY <1>1, <1>2, SchemeAssumption
  <2>2. ChildPath(path, child) = <<node.value>>
    BY <1>2 DEF ChildPath
  <2>3. NodeAt(<<node.value>>) \in Nodes
    BY <2>1, NodeOfRule, SchemeAssumption
  <2>4. <<node.value>> \in Names
    <3> HIDE DEF node
    <3> QED
      BY <2>1 DEF Names, Steps
  <2> QED
    BY <2>2, <2>3, <2>4
<1>3. CASE node.type # "REF"
  <2>1. ChildPath(path, child) = Append(path, child)
    BY <1>3 DEF ChildPath
  <2>2. NodeAt(Append(path, child)) = node.children[child]
    BY <1>1, NodeOfChild
  <2>3. node.children \in Seq(Nodes) /\ child \in 1 .. Len(node.children)
    BY <1>1, <1>3, SchemeAssumption
  <2>4. node.children[child] \in Nodes
    <3> HIDE DEF node
    <3> QED
      BY <2>3
  <2>5. Append(path, child) \in Names
    BY <1>1 DEF Names, Steps
  <2> QED
    BY <2>1, <2>2, <2>4, <2>5
<1> QED
  BY <1>2, <1>3

-----------------------------------------------------------------------------

\* Frames whose tokens are among the first T.
Frames(T) ==
  [node : Names, state : Nat, token : 0 .. T, offset : Nat, parent : Nat]

\* The frames entered as children of frame i of the stack s.
Kids(s, i) == {j \in 1 .. Len(s) : s[j].parent = i}

\* An alternative or an option has entered one child at most, its state tells which.
Chosen(s, i) ==
  LET size == Len(NodeAt(s[i].node).children)
  IN  \/ Kids(s, i) = {}
      \/ /\ s[i].state >= size
         /\ \E j \in 1 .. Len(s) :
              Kids(s, i) = {j} /\ s[j].node = ChildPath(s[i].node, s[i].state - size + 1)

Counted(s, i) ==
  LET type == NodeAt(s[i].node).type
  IN  /\ type = "CONCAT" => s[i].state = Cardinality(Kids(s, i))
      /\ type \in {"OR", "OPTIONAL"} => Chosen(s, i)

\* A stack of frames of the parser.
Derivation(T, s) ==
  /\ s \in Seq(Frames(T))
  /\ \A i \in 1 .. Len(s) :
       /\ NodeAt(s[i].node) \in Nodes
       /\ s[i].parent < i /\ (s[i].parent = 0 <=> i = 1)
       /\ Counted(s, i)

\* s2 is the stack s but for the state of frame c.
Restated(T, s, s2, c, state) ==
  /\ s2 \in Seq(Frames(T)) /\ Len(s2) = Len(s)
  /\ s2[c].state = state
  /\ \A i \in 1 .. Len(s) :
       /\ s2[i].node = s[i].node /\ s2[i].parent = s[i].parent
       /\ s2[i].token = s[i].token /\ s2[i].offset = s[i].offset
       /\ i # c => s2[i] = s[i]
       /\ Kids(s2, i) = Kids(s, i)

(* A frame gets another state. *)
LEMMA Restates ==
  ASSUME NEW T, NEW s \in Seq(Frames(T)), NEW c \in 1 .. Len(s), NEW state \in Nat
  PROVE  Restated(T, s, [s EXCEPT ![c].state = state], c, state)
<1> DEFINE s2 == [s EXCEPT ![c].state = state]
<1>1. /\ Len(s) \in Nat /\ DOMAIN s = 1 .. Len(s)
      /\ \A i \in 1 .. Len(s) : s[i] \in Frames(T)
  OBVIOUS
<1>2. [s[c] EXCEPT !.state = state] \in Frames(T)
  BY <1>1 DEF Frames
<1>3. s2 = [i \in 1 .. Len(s) |-> IF i = c THEN [s[c] EXCEPT !.state = state] ELSE s[i]]
  BY <1>1
<1>4. s2 \in Seq(Frames(T)) /\ Len(s2) = Len(s)
  <2>1. \A i \in 1 .. Len(s) : s2[i] \in Frames(T)
    BY <1>1, <1>2, <1>3
  <2>2. s2 \in [1 .. Len(s) -> Frames(T)]
    BY <1>3, <2>1
  <2> HIDE DEF s2
  <2> QED
    BY <1>1, <2>2
<1>5. s2[c] = [s[c] EXCEPT !.state = state] /\ \A i \in 1 .. Len(s) : i # c => s2[i] = s[i]
  BY <1>3
<1> HIDE DEF s2
<1>6. /\ s2[c].state = state /\ s2[c].node = s[c].node /\ s2[c].parent = s[c].parent
      /\ s2[c].token = s[c].token /\ s2[c].offset = s[c].offset
  BY <1>1, <1>5 DEF Frames
<1>7. \A i \in 1 .. Len(s) : s2[i].parent = s[i].parent
  BY <1>5, <1>6
<1>8. \A i \in 1 .. Len(s) : Kids(s2, i) = Kids(s, i)
  BY <1>4, <1>7 DEF Kids
<1>9. Restated(T, s, s2, c, state)
  BY <1>4, <1>5, <1>6, <1>8 DEF Restated
<1> QED
  BY <1>9 DEF s2

(* A frame that keeps its state keeps its count. *)
LEMMA CountedStill ==
  ASSUME NEW s, NEW s2, NEW i, Counted(s, i), Kids(s2, i) = Kids(s, i),
         s2[i].node = s[i].node, s2[i].state = s[i].state,
         \A j \in 1 .. Len(s) : s[j].parent = i => j \in 1 .. Len(s2) /\ s2[j].node = s[j].node
  PROVE  Counted(s2, i)
<1>1. ASSUME Chosen(s, i)
      PROVE  Chosen(s2, i)
  <2>1. CASE Kids(s, i) = {}
    BY <2>1 DEF Chosen
  <2>2. ASSUME NEW j \in 1 .. Len(s), Kids(s, i) = {j},
               s[i].state >= Len(NodeAt(s[i].node).children),
               s[j].node =
                 ChildPath(s[i].node, s[i].state - Len(NodeAt(s[i].node).children) + 1)
        PROVE  Chosen(s2, i)
    <3>1. s[j].parent = i
      BY <2>2 DEF Kids
    <3>2. j \in 1 .. Len(s2) /\ s2[j].node = s[j].node
      BY <3>1
    <3> QED
      BY <2>2, <3>2 DEF Chosen
  <2> QED
    BY <1>1, <2>1, <2>2 DEF Chosen
<1> QED
  BY <1>1 DEF Counted

(* The frame at the top begins anew. *)
LEMMA DerivationBegins ==
  ASSUME NEW T, NEW s, Derivation(T, s), Len(s) >= 1
  PROVE  Derivation(T, [s EXCEPT ![Len(s)].state = 0])
<1> DEFINE n == Len(s)
           s2 == [s EXCEPT ![n].state = 0]
<1>1. s \in Seq(Frames(T)) /\ n \in 1 .. n /\ n \in Nat
  BY DEF Derivation
<1>2. Restated(T, s, s2, n, 0)
  BY <1>1, Restates
<1> HIDE DEF s2, n
<1>3. Kids(s, n) = {}
  BY DEF Kids, Derivation, n
<1>4. ASSUME NEW i \in 1 .. n
      PROVE  Counted(s2, i)
  <2>1. CASE i = n
    <3>1. Kids(s2, i) = {} /\ s2[i].state = 0
      BY <1>1, <1>2, <1>3, <2>1 DEF Restated, n
    <3> QED
      BY <3>1, FS_EmptySet DEF Counted, Chosen
  <2>2. CASE i # n
    <3>1. Counted(s, i)
      BY DEF Derivation, n
    <3>2. Kids(s2, i) = Kids(s, i) /\ s2[i] = s[i]
          /\ \A j \in 1 .. Len(s) : j \in 1 .. Len(s2) /\ s2[j].node = s[j].node
      BY <1>2, <2>2 DEF Restated, n
    <3> QED
      BY <3>1, <3>2, CountedStill
  <2> QED
    BY <2>1, <2>2
<1>5. Derivation(T, s2)
  BY <1>2, <1>4 DEF Derivation, Restated, n
<1> QED
  BY <1>5 DEF s2, n

(* A frame whose node has no further child is left. *)
LEMMA DerivationLeft ==
  ASSUME NEW T, NEW s, Derivation(T, s), NEW c \in 1 .. Len(s), NEW outcome,
         MayEnter(NodeAt(s[c].node), s[c].state, outcome), outcome.child = 0
  PROVE  Derivation(T, [s EXCEPT ![c].state = outcome.state])
<1> DEFINE n == Len(s)
           s2 == [s EXCEPT ![c].state = outcome.state]
<1>1. s \in Seq(Frames(T)) /\ n \in Nat /\ outcome.state \in Nat
  BY DEF Derivation, MayEnter
<1>2. Restated(T, s, s2, c, outcome.state)
  BY <1>1, Restates
<1> HIDE DEF s2, n
<1>3. ASSUME NEW i \in 1 .. n
      PROVE  Counted(s2, i)
  <2>1. Counted(s, i)
    BY DEF Derivation, n
  <2>2. /\ Kids(s2, i) = Kids(s, i) /\ s2[i].node = s[i].node
        /\ \A j \in 1 .. Len(s) : j \in 1 .. Len(s2) /\ s2[j].node = s[j].node
    BY <1>2 DEF Restated, n
  <2>3. CASE NodeAt(s[i].node).type \in {"CONCAT", "OR", "OPTIONAL"}
    <3>1. s2[i].state = s[i].state
      BY <1>2, <2>3 DEF Restated, MayEnter, n
    <3> QED
      BY <2>1, <2>2, <3>1, CountedStill
  <2>4. CASE NodeAt(s[i].node).type \notin {"CONCAT", "OR", "OPTIONAL"}
    BY <2>2, <2>4 DEF Counted
  <2> QED
    BY <2>3, <2>4
<1>4. Derivation(T, s2)
  BY <1>2, <1>3 DEF Derivation, Restated, n
<1> QED
  BY <1>4 DEF s2

\* s2 is the stack s with the frame top above it, a child of frame c, which has another state.
Grown(T, s, s2, c, state, top) ==
  /\ s2 \in Seq(Frames(T)) /\ Len(s2) = Len(s) + 1
  /\ s2[Len(s) + 1] = top /\ s2[c].state = state
  /\ \A i \in 1 .. Len(s) :
       /\ s2[i].node = s[i].node /\ s2[i].parent = s[i].parent
       /\ s2[i].token = s[i].token /\ s2[i].offset = s[i].offset
       /\ i # c => s2[i] = s[i] /\ Kids(s2, i) = Kids(s, i)
  /\ Kids(s2, Len(s) + 1) = {}
  /\ Kids(s2, c) = Kids(s, c) \cup {Len(s) + 1}

(* A frame enters a child, which gets a frame of its own at the top. *)
LEMMA Grows ==
  ASSUME NEW T, NEW s, Derivation(T, s), NEW c \in 1 .. Len(s), NEW outcome,
         MayEnter(NodeAt(s[c].node), s[c].state, outcome), outcome.child # 0,
         NEW tok \in 0 .. T, NEW off \in Nat
  PROVE  /\ Grown(T, s, Append([s EXCEPT ![c].state = outcome.state],
                             Frame(ChildPath(s[c].node, outcome.child), c, tok, off)),
                  c, outcome.state, Frame(ChildPath(s[c].node, outcome.child), c, tok, off))
         /\ NodeAt(ChildPath(s[c].node, outcome.child)) \in Nodes
<1> DEFINE n == Len(s)
           top == Frame(ChildPath(s[c].node, outcome.child), c, tok, off)
           marked == [s EXCEPT ![c].state = outcome.state]
           s2 == Append(marked, top)
<1>1. s \in Seq(Frames(T)) /\ n \in Nat /\ outcome.state \in Nat /\ outcome.child \in Nat
  BY DEF Derivation, MayEnter
<1>2. Restated(T, s, marked, c, outcome.state)
  BY <1>1, Restates
<1>3. s[c] \in Frames(T) /\ s[c].node \in Names /\ NodeAt(s[c].node) \in Nodes
  <2>1. s[c] \in Frames(T)
    BY <1>1
  <2>2. s[c].node \in Names
    BY <2>1 DEF Frames
  <2> QED
    BY <2>1, <2>2 DEF Derivation
<1>4. /\ ChildPath(s[c].node, outcome.child) \in Names
      /\ NodeAt(ChildPath(s[c].node, outcome.child)) \in Nodes
  BY <1>1, <1>3, ChildIsNode DEF MayEnter
<1>5. /\ top \in Frames(T) /\ top.node = ChildPath(s[c].node, outcome.child)
      /\ top.state = 0 /\ top.parent = c
  BY <1>4 DEF Frame, Frames
<1> HIDE DEF marked, top
<1>6. /\ s2 \in Seq(Frames(T)) /\ Len(s2) = n + 1
      /\ s2[n + 1] = top
      /\ \A i \in 1 .. n : s2[i] = marked[i]
  BY <1>2, <1>5 DEF Restated
<1> HIDE DEF s2, n
<1>7. /\ s2[c].state = outcome.state
      /\ \A i \in 1 .. n : /\ s2[i].node = s[i].node /\ s2[i].parent = s[i].parent
                           /\ s2[i].token = s[i].token /\ s2[i].offset = s[i].offset
                           /\ i # c => s2[i] = s[i]
  BY <1>2, <1>6 DEF Restated, n
<1>8. /\ \A j \in 1 .. n : s2[j].parent = s[j].parent /\ s[j].parent # n + 1
      /\ s2[n + 1].parent = c /\ c # n + 1 /\ c \in 1 .. n
      /\ 1 .. n + 1 = (1 .. n) \cup {n + 1}
  <2>1. \A j \in 1 .. n : s[j].parent < j
    BY DEF Derivation, n
  <2>2. \A j \in 1 .. n : s[j].parent \in Nat
    <3>1. \A j \in 1 .. n : s[j] \in Frames(T)
      BY <1>1 DEF n
    <3> QED
      BY <3>1 DEF Frames
  <2>3. \A j \in 1 .. n : s[j].parent # n + 1
    BY <1>1, <2>1, <2>2
  <2>4. 1 .. n + 1 = (1 .. n) \cup {n + 1}
    BY <1>1
  <2>5. c # n + 1 /\ c \in 1 .. n
    BY <1>1 DEF n
  <2>6. s2[n + 1].parent = c
    BY <1>5, <1>6
  <2> QED
    BY <1>7, <2>3, <2>4, <2>5, <2>6
<1>9. ASSUME NEW i
      PROVE  Kids(s2, i) = IF i = c THEN Kids(s, c) \cup {n + 1}
                           ELSE IF i = n + 1 THEN {} ELSE Kids(s, i)
  <2>1. Kids(s2, i) = {j \in (1 .. n) \cup {n + 1} : s2[j].parent = i}
    BY <1>6, <1>8 DEF Kids
  <2>2. Kids(s, i) = {j \in 1 .. n : s[j].parent = i}
    BY DEF Kids, n
  <2> QED
    BY <1>8, <2>1, <2>2
<1>10. Kids(s2, n + 1) = {} /\ Kids(s2, c) = Kids(s, c) \cup {n + 1}
       /\ \A i \in 1 .. n : i # c => Kids(s2, i) = Kids(s, i)
  <2>1. \A i \in 1 .. n : i # n + 1
    BY <1>1
  <2> QED
    BY <1>8, <1>9, <2>1
<1>11. Grown(T, s, s2, c, outcome.state, top)
  BY <1>6, <1>7, <1>10 DEF Grown, n
<1> QED
  BY <1>4, <1>11 DEF s2, marked, top

(* A frame enters a child, and counts it. *)
LEMMA DerivationGrows ==
  ASSUME NEW T, NEW s, Derivation(T, s), NEW c \in 1 .. Len(s), NEW outcome,
         MayEnter(NodeAt(s[c].node), s[c].state, outcome), outcome.child # 0,
         NEW tok \in 0 .. T, NEW off \in Nat
  PROVE  Derivation(T, Append([s EXCEPT ![c].state = outcome.state],
                              Frame(ChildPath(s[c].node, outcome.child), c, tok, off)))
<1> DEFINE n == Len(s)
           top == Frame(ChildPath(s[c].node, outcome.child), c, tok, off)
           s2 == Append([s EXCEPT ![c].state = outcome.state], top)
<1>1. s \in Seq(Frames(T)) /\ n \in Nat /\ outcome.state \in Nat /\ outcome.child \in Nat
  BY DEF Derivation, MayEnter
<1>2. /\ Grown(T, s, s2, c, outcome.state, top)
      /\ NodeAt(ChildPath(s[c].node, outcome.child)) \in Nodes
  BY Grows
<1>3. s[c] \in Frames(T) /\ s[c].node \in Names /\ NodeAt(s[c].node) \in Nodes
  <2>1. s[c] \in Frames(T)
    BY <1>1
  <2>2. s[c].node \in Names
    BY <2>1 DEF Frames
  <2> QED
    BY <2>1, <2>2 DEF Derivation
<1>5. /\ top.node = ChildPath(s[c].node, outcome.child)
      /\ top.state = 0 /\ top.parent = c
  BY DEF Frame
<1> HIDE DEF s2, top, n
<1>6. /\ s2 \in Seq(Frames(T)) /\ Len(s2) = n + 1 /\ s2[n + 1] = top
  BY <1>2 DEF Grown, n
<1>7. /\ s2[c].state = outcome.state
      /\ \A i \in 1 .. n : /\ s2[i].node = s[i].node /\ s2[i].parent = s[i].parent
                           /\ i # c => s2[i] = s[i]
  BY <1>2 DEF Grown, n
<1>10. Kids(s2, n + 1) = {} /\ Kids(s2, c) = Kids(s, c) \cup {n + 1}
       /\ \A i \in 1 .. n : i # c => Kids(s2, i) = Kids(s, i)
  BY <1>2 DEF Grown, n
<1>11. Counted(s2, n + 1)
  BY <1>5, <1>6, <1>10, FS_EmptySet DEF Counted, Chosen
<1>12. ASSUME NEW i \in 1 .. n, i # c
       PROVE  Counted(s2, i)
  <2>1. Counted(s, i)
    BY DEF Derivation, n
  <2>2. Kids(s2, i) = Kids(s, i) /\ s2[i] = s[i]
    BY <1>7, <1>10, <1>12
  <2>3. \A j \in 1 .. Len(s) : j \in 1 .. Len(s2) /\ s2[j].node = s[j].node
    <3>1. \A j \in 1 .. n : j \in 1 .. n + 1
      BY <1>1
    <3> QED
      BY <1>6, <1>7, <3>1 DEF n
  <2> QED
    BY <2>1, <2>2, <2>3, CountedStill
<1>13. Counted(s2, c)
  <2> DEFINE node == NodeAt(s[c].node)
  <2>1. NodeAt(s2[c].node) = node /\ Counted(s, c)
    BY <1>7 DEF Derivation, n
  <2>2. CASE node.type = "CONCAT"
    <3>1. s[c].state = Cardinality(Kids(s, c)) /\ outcome.state = s[c].state + 1
      BY <2>1, <2>2 DEF Counted, MayEnter
    <3>2. IsFiniteSet(1 .. n) /\ Kids(s, c) \subseteq 1 .. n
      BY <1>1, FS_Interval DEF Kids, n
    <3>3. IsFiniteSet(Kids(s, c)) /\ n + 1 \notin Kids(s, c)
      BY <1>1, <3>2, FS_Subset
    <3>4. Cardinality(Kids(s2, c)) = Cardinality(Kids(s, c)) + 1
      BY <1>10, <3>3, FS_AddElement
    <3> QED
      BY <1>7, <2>1, <2>2, <3>1, <3>4 DEF Counted
  <2>3. CASE node.type \in {"OR", "OPTIONAL"}
    <3> DEFINE size == Len(node.children)
    <3>1. /\ s[c].state < size /\ outcome.child = s[c].state + 1
          /\ outcome.state = s[c].state + size
      BY <2>3 DEF MayEnter
    <3>2. Chosen(s, c)
      BY <2>1, <2>3 DEF Counted
    <3>3. node.children \in Seq(Nodes) /\ size \in Nat /\ s[c].state \in Nat
      BY <1>3, SchemeAssumption DEF Frames
    <3>4. Kids(s, c) = {}
      BY <3>1, <3>2, <3>3 DEF Chosen
    <3> HIDE DEF size, node
    <3>5. outcome.state >= size /\ outcome.state - size + 1 = outcome.child
      BY <3>1, <3>3
    <3>6. Kids(s2, c) = {n + 1} /\ n + 1 \in 1 .. Len(s2)
      BY <1>1, <1>6, <1>10, <3>4
    <3>7. s2[n + 1].node = ChildPath(s2[c].node, outcome.child)
      BY <1>5, <1>6, <1>7 DEF n
    <3>8. Chosen(s2, c)
      BY <1>7, <2>1, <3>5, <3>6, <3>7 DEF Chosen, size
    <3> QED
      BY <2>1, <2>3, <3>8 DEF Counted
  <2>4. CASE node.type \notin {"CONCAT", "OR", "OPTIONAL"}
    BY <2>1, <2>4 DEF Counted
  <2> QED
    BY <2>2, <2>3, <2>4
<1>14. ASSUME NEW i \in 1 .. n
       PROVE  /\ NodeAt(s2[i].node) \in Nodes
              /\ s2[i].parent < i /\ (s2[i].parent = 0 <=> i = 1)
  BY <1>7 DEF Derivation, n
<1>15. /\ NodeAt(s2[n + 1].node) \in Nodes
       /\ s2[n + 1].parent < n + 1 /\ (s2[n + 1].parent = 0 <=> n + 1 = 1)
  BY <1>1, <1>2, <1>5, <1>6 DEF n
<1>16. Derivation(T, s2)
  <2>1. \A i \in 1 .. Len(s2) : i = n + 1 \/ i \in 1 .. n
    BY <1>1, <1>6
  <2> QED
    BY <1>6, <1>11, <1>12, <1>13, <1>14, <1>15, <2>1 DEF Derivation
<1> QED
  BY <1>16 DEF s2, top

\* front is the stack s without its top.
Popped(T, s, front) ==
  /\ front \in Seq(Frames(T)) /\ Len(front) = Len(s) - 1
  /\ \A i \in 1 .. Len(s) - 1 : front[i] = s[i]

(* What Front leaves of a stack. *)
LEMMA Pops ==
  ASSUME NEW T, NEW s \in Seq(Frames(T)), Len(s) >= 1
  PROVE  Popped(T, s, Front(s))
<1> DEFINE F == Frames(T)
           m == Len(s) - 1
<1>1. Len(s) \in Nat /\ m \in Nat /\ Front(s) = SubSeq(s, 1, m)
  BY DEF Front
<1>2. \A i \in 1 .. m : i \in 1 .. Len(s)
  BY <1>1
<1>3. s \in Seq(F)
  OBVIOUS
<1> HIDE DEF F
<1>4. \A i \in 1 .. m : s[i] \in F
  BY <1>2, <1>3
<1> HIDE DEF m
<1>5. SubSeq(s, 1, m) = [i \in 1 .. m |-> s[i]]
  <2>1. SubSeq(s, 1, m) = [i \in 1 .. m - 1 + 1 |-> s[1 + i - 1]]
    BY <1>1
  <2>2. m - 1 + 1 = m /\ \A i \in 1 .. m : 1 + i - 1 = i
    BY <1>1
  <2> QED
    BY <2>1, <2>2
<1>6. SubSeq(s, 1, m) \in Seq(F) /\ Len(SubSeq(s, 1, m)) = m
  <2> DEFINE front == SubSeq(s, 1, m)
  <2>1. front \in [1 .. m -> F]
    BY <1>4, <1>5
  <2> HIDE DEF front
  <2>2. front \in Seq(F) /\ Len(front) = m
    BY <1>1, <2>1
  <2> QED
    BY <2>2 DEF front
<1>7. \A i \in 1 .. m : SubSeq(s, 1, m)[i] = s[i]
  BY <1>5
<1> QED
  BY <1>1, <1>6, <1>7 DEF Popped, F, m

\* rest is the stack s without its top, a child of frame p, which has another state.
Shrunk(T, s, rest, p, state) ==
  /\ rest \in Seq(Frames(T)) /\ Len(rest) = Len(s) - 1 /\ rest[p].state = state
  /\ \A i \in 1 .. Len(s) - 1 : /\ rest[i].node = s[i].node /\ rest[i].parent = s[i].parent
                                /\ rest[i].token = s[i].token /\ rest[i].offset = s[i].offset
                                /\ i # p => rest[i] = s[i]
  /\ \A i : Kids(rest, i) = Kids(s, i) \ {Len(s)}

(* The frame at the top is popped, and its parent gets another state. *)
LEMMA Shrinks ==
  ASSUME NEW T, NEW s \in Seq(Frames(T)), Len(s) >= 1, NEW p \in 1 .. Len(s) - 1,
         NEW state \in Nat
  PROVE  Shrunk(T, s, [Front(s) EXCEPT ![p].state = state], p, state)
<1> DEFINE n == Len(s)
           front == Front(s)
           rest == [front EXCEPT ![p].state = state]
<1>1. n \in Nat /\ n >= 1 /\ n \notin 1 .. n - 1
  OBVIOUS
<1> HIDE DEF n
<1>10. Popped(T, s, front)
  BY <1>1, Pops DEF n
<1>11. front \in Seq(Frames(T)) /\ Len(front) = n - 1 /\ \A i \in 1 .. n - 1 : front[i] = s[i]
  BY <1>10 DEF Popped, n
<1> HIDE DEF front
<1>12. Restated(T, front, rest, p, state)
  BY <1>11, Restates DEF n
<1> HIDE DEF rest
<1>13. /\ rest \in Seq(Frames(T)) /\ Len(rest) = n - 1 /\ rest[p].state = state
       /\ \A i \in 1 .. n - 1 : /\ rest[i].node = s[i].node /\ rest[i].parent = s[i].parent
                                /\ rest[i].token = s[i].token /\ rest[i].offset = s[i].offset
                                /\ i # p => rest[i] = s[i]
  BY <1>11, <1>12 DEF Restated
<1>14. \A i : Kids(rest, i) = Kids(s, i) \ {n}
  <2>1. 1 .. n = (1 .. n - 1) \cup {n}
    BY <1>1
  <2>2. \A i : Kids(rest, i) = {j \in 1 .. n - 1 : rest[j].parent = i}
    BY <1>13 DEF Kids
  <2>3. \A i : Kids(s, i) = {j \in (1 .. n - 1) \cup {n} : s[j].parent = i}
    BY <2>1 DEF Kids, n
  <2>4. \A j \in 1 .. n - 1 : rest[j].parent = s[j].parent /\ j # n
    BY <1>1, <1>13
  <2> QED
    BY <2>2, <2>3, <2>4
<1>15. Shrunk(T, s, rest, p, state)
  BY <1>13, <1>14 DEF Shrunk, n
<1> QED
  BY <1>15 DEF rest, front

(* The frame at the top is popped, and its parent counts it back. *)
LEMMA DerivationShrinks ==
  ASSUME NEW T, NEW s, Derivation(T, s), Len(s) >= 1,
         NEW p, p = s[Len(s)].parent, p # 0, NEW state,
         CountsBack(NodeAt(s[p].node), s[p].state, state)
  PROVE  /\ state \in Nat /\ p \in 1 .. Len(s) - 1
         /\ Derivation(T, [Front(s) EXCEPT ![p].state = state])
<1> DEFINE n == Len(s)
           front == Front(s)
           rest == [front EXCEPT ![p].state = state]
           node == NodeAt(s[p].node)
           size == Len(node.children)
<1>1. s \in Seq(Frames(T)) /\ n \in Nat /\ n >= 1 /\ n \in 1 .. n
  BY DEF Derivation
<1>2. \A i \in 1 .. n : s[i] \in Frames(T)
  BY <1>1
<1> HIDE DEF n
<1>3. p \in 1 .. n - 1 /\ p \in 1 .. n
  <2>1. s[n].parent < n /\ s[n].parent \in Nat
    BY <1>1, <1>2 DEF Derivation, Frames, n
  <2> QED
    BY <1>1, <2>1 DEF n
<1>4. s[p].state \in Nat /\ node \in Nodes /\ Counted(s, p)
  BY <1>2, <1>3 DEF Derivation, Frames, n
<1>5. n \in Kids(s, p) /\ n \notin 1 .. n - 1
  BY <1>1 DEF Kids, n
<1>6. size \in Nat
  <2>1. node.children \in Seq(Nodes)
    BY <1>4, SchemeAssumption
  <2> QED
    BY <2>1
<1>7. node.type = "CONCAT" =>
        /\ s[p].state = Cardinality(Kids(s, p))
        /\ state = s[p].state - 1
        /\ Cardinality(Kids(s, p) \ {n}) = state /\ state \in Nat
  <2> SUFFICES ASSUME node.type = "CONCAT"
               PROVE  /\ s[p].state = Cardinality(Kids(s, p))
                      /\ state = s[p].state - 1
                      /\ Cardinality(Kids(s, p) \ {n}) = state /\ state \in Nat
    OBVIOUS
  <2>1. s[p].state = Cardinality(Kids(s, p)) /\ state = s[p].state - 1
    BY <1>4 DEF Counted, CountsBack
  <2>2. IsFiniteSet(1 .. n) /\ Kids(s, p) \subseteq 1 .. n
    BY <1>1, FS_Interval DEF Kids, n
  <2>3. IsFiniteSet(Kids(s, p))
    BY <2>2, FS_Subset
  <2>4. Cardinality(Kids(s, p) \ {n}) = Cardinality(Kids(s, p)) - 1
    BY <1>5, <2>3, FS_RemoveElement
  <2>5. Cardinality(Kids(s, p) \ {n}) \in Nat
    BY <2>3, FS_Subset, FS_CardinalityType
  <2> QED
    BY <2>1, <2>4, <2>5
<1>8. node.type \in {"OR", "OPTIONAL"} => Kids(s, p) = {n} /\ state \in Nat
  <2> SUFFICES ASSUME node.type \in {"OR", "OPTIONAL"}
               PROVE  Kids(s, p) = {n} /\ state \in Nat
    OBVIOUS
  <2>1. Chosen(s, p) /\ state = s[p].state - (size - 1)
    BY <1>4 DEF Counted, CountsBack
  <2>2. s[p].state >= size /\ \E j : Kids(s, p) = {j}
    BY <1>5, <2>1 DEF Chosen
  <2>3. Kids(s, p) = {n}
    BY <1>5, <2>2
  <2> HIDE DEF size
  <2>4. state \in Nat
    BY <1>4, <1>6, <2>1, <2>2
  <2> QED
    BY <2>3, <2>4
<1>9. state \in Nat
  <2>1. node.type \notin {"CONCAT", "OR", "OPTIONAL"} => state \in {1, s[p].state}
    BY DEF CountsBack
  <2> QED
    BY <1>4, <1>7, <1>8, <2>1
<1>10. Shrunk(T, s, rest, p, state)
  BY <1>1, <1>3, <1>9, Shrinks DEF n
<1> HIDE DEF rest, front
<1>13. /\ rest \in Seq(Frames(T)) /\ Len(rest) = n - 1 /\ rest[p].state = state
       /\ \A i \in 1 .. n - 1 : /\ rest[i].node = s[i].node /\ rest[i].parent = s[i].parent
                                /\ i # p => rest[i] = s[i]
  BY <1>10 DEF Shrunk, n
<1>14. \A i : Kids(rest, i) = Kids(s, i) \ {n}
  BY <1>10 DEF Shrunk, n
<1>15. ASSUME NEW i \in 1 .. n - 1, i # p
       PROVE  Counted(rest, i)
  <2>1. Counted(s, i) /\ i \in 1 .. n
    BY <1>1 DEF Derivation, n
  <2>2. n \notin Kids(s, i)
    BY <1>15 DEF Kids, n
  <2>3. Kids(rest, i) = Kids(s, i) /\ rest[i] = s[i]
    BY <1>13, <1>14, <1>15, <2>2
  <2>4. \A j \in 1 .. Len(s) :
          s[j].parent = i => j \in 1 .. Len(rest) /\ rest[j].node = s[j].node
    <3>1. \A j \in 1 .. n : j = n \/ j \in 1 .. n - 1
      BY <1>1
    <3>2. s[n].parent # i
      BY <1>15 DEF n
    <3> QED
      BY <1>13, <3>1, <3>2 DEF n
  <2> QED
    BY <2>1, <2>3, <2>4, CountedStill
<1>16. Counted(rest, p)
  <2>1. NodeAt(rest[p].node) = node /\ Kids(rest, p) = Kids(s, p) \ {n}
    BY <1>3, <1>13, <1>14
  <2>2. node.type = "CONCAT" => rest[p].state = Cardinality(Kids(rest, p))
    BY <1>7, <1>13, <2>1
  <2>3. node.type \in {"OR", "OPTIONAL"} => Chosen(rest, p)
    <3>1. node.type \in {"OR", "OPTIONAL"} => Kids(rest, p) = {}
      BY <1>8, <2>1
    <3> QED
      BY <3>1 DEF Chosen
  <2> QED
    BY <2>1, <2>2, <2>3 DEF Counted
<1>17. Derivation(T, rest)
  <2>1. \A i \in 1 .. n - 1 : i \in 1 .. n
    BY <1>1
  <2>2. \A i \in 1 .. n - 1 : /\ NodeAt(rest[i].node) \in Nodes
                              /\ rest[i].parent < i /\ (rest[i].parent = 0 <=> i = 1)
    BY <1>13, <2>1 DEF Derivation, n
  <2> QED
    BY <1>13, <1>15, <1>16, <2>2 DEF Derivation
<1> QED
  BY <1>3, <1>9, <1>17 DEF rest, front, n

(* The first frame is the last to be popped. *)
LEMMA DerivationEnds ==
  ASSUME NEW T, NEW s, Derivation(T, s), Len(s) >= 1, s[Len(s)].parent = 0
  PROVE  Len(s) = 1 /\ Front(s) = <<>>
<1>1. s \in Seq(Frames(T)) /\ Len(s) \in Nat /\ Len(s) = 1
  <2>1. s \in Seq(Frames(T))
    BY DEF Derivation
  <2>2. Len(s) \in 1 .. Len(s) /\ Len(s) \in Nat
    BY <2>1
  <2> QED
    BY <2>1, <2>2 DEF Derivation
<1>2. Popped(T, s, Front(s))
  BY <1>1, Pops
<1>3. Front(s) \in Seq(Frames(T)) /\ Len(Front(s)) = 0
  BY <1>1, <1>2 DEF Popped
<1> QED
  BY <1>1, <1>3

-----------------------------------------------------------------------------

(***************************************************************************)
(* What holds in every state of the parser: its stack is a derivation, and *)
(* "current" is the frame the loop it is in looks at.                      *)
(***************************************************************************)
IInv ==
  /\ Len(tokens) \in Nat \ {0}
  /\ Derivation(Len(tokens), stack)
  /\ pc \in {"match", "descend", "reject", "done"}
  /\ pc \in {"match", "reject"} => Len(stack) >= 1
  /\ pc = "reject" => current = Len(stack)
  /\ pc = "descend" => current \in 1 .. Len(stack)
  /\ current \in 0 .. Len(stack) + 1
  /\ token \in 0 .. Len(tokens) /\ offset \in Nat
  /\ error.maxToken \in 0 .. Len(tokens) /\ error.maxTokenOffset \in Nat
  /\ success \in BOOLEAN

(* A parser that begins on a text satisfies the invariant. *)
LEMMA FirstFrame ==
  ASSUME NEW T \in Nat \ {0}
  PROVE  Derivation(T, FirstFrames) /\ Len(FirstFrames) = 1
<1> DEFINE s == FirstFrames
           frame == Frame(<<Root>>, NULL, 1, 0)
           name == <<Root>>
<1>1. name \in Names
  BY SchemeAssumption DEF Names, Steps
<1>2. NodeAt(name) \in Nodes
  BY NodeOfRule, SchemeAssumption
<1> HIDE DEF name
<1>3. /\ frame \in Frames(T) /\ frame.node = name /\ frame.state = 0 /\ frame.parent = 0
  BY <1>1 DEF Frame, Frames, NULL, name
<1>4. s = <<frame>>
  BY DEF FirstFrames
<1> HIDE DEF frame, s
<1>5. s \in Seq(Frames(T)) /\ Len(s) = 1 /\ s[1] = frame
  BY <1>3, <1>4
<1>6. Kids(s, 1) = {}
  BY <1>3, <1>5 DEF Kids
<1>7. Counted(s, 1)
  BY <1>3, <1>5, <1>6, FS_EmptySet DEF Counted, Chosen
<1>8. \A i \in 1 .. Len(s) : i = 1
  BY <1>5
<1>9. Derivation(T, s)
  BY <1>2, <1>3, <1>5, <1>7, <1>8 DEF Derivation
<1> QED
  BY <1>5, <1>9 DEF s

(* The invariant holds on the first text, and on every text behind it. *)
LEMMA BeginsRight ==
  ASSUME NEW text \in Sources \cup Followers,
         tokens' = Lexer!Tokens(text), tokens' # <<>>, stack' = FirstFrames,
         pc' = "match", current' = 1, token' = 1, offset' = 0,
         error' = NoErrorYet, success' = FALSE
  PROVE  IInv'
<1>1. tokens' \in Seq(TokenSet)
  BY TextsAssumption
<1>2. Len(tokens') \in Nat \ {0}
  BY <1>1
<1>3. Derivation(Len(tokens'), stack') /\ Len(stack') = 1
  BY <1>2, FirstFrame
<1>4. error'.maxToken = 1 /\ error'.maxTokenOffset = 0
  BY DEF NoErrorYet
<1>5. 1 \in 0 .. Len(tokens') /\ 1 \in 0 .. Len(stack') + 1
  BY <1>2, <1>3
<1>6. /\ token' \in 0 .. Len(tokens') /\ offset' \in Nat
      /\ error'.maxToken \in 0 .. Len(tokens') /\ error'.maxTokenOffset \in Nat
      /\ current' \in 0 .. Len(stack') + 1
  BY <1>4, <1>5
<1>7. success' \in BOOLEAN
  OBVIOUS
<1> QED
  BY <1>2, <1>3, <1>6, <1>7 DEF IInv

(* The invariant holds for the first text. *)
LEMMA InitIInv == Init => IInv
<1> SUFFICES ASSUME NEW text \in Sources, StartOn(text)
             PROVE  IInv
  BY DEF Init
<1>1. tokens \in Seq(TokenSet) /\ tokens # <<>>
  BY TextsAssumption DEF StartOn
<1>2. Len(tokens) \in Nat \ {0}
  BY <1>1
<1>3. Derivation(Len(tokens), stack) /\ Len(stack) = 1
  BY <1>2, FirstFrame DEF StartOn
<1>4. error.maxToken = 1 /\ error.maxTokenOffset = 0
  BY DEF NoErrorYet, StartOn
<1>5. 1 \in 0 .. Len(tokens) /\ 1 \in 0 .. Len(stack) + 1
  BY <1>2, <1>3
<1>6. /\ token \in 0 .. Len(tokens) /\ offset \in Nat
      /\ error.maxToken \in 0 .. Len(tokens) /\ error.maxTokenOffset \in Nat
      /\ current \in 0 .. Len(stack) + 1 /\ pc = "match"
  BY <1>4, <1>5 DEF StartOn
<1>7. success \in BOOLEAN
  BY DEF StartOn
<1> QED
  BY <1>2, <1>3, <1>6, <1>7 DEF IInv

\* Frame i of the stack and its node, with the types the invariant gives them.
FrameIs(i) ==
  /\ stack[i] \in Frames(Len(tokens)) /\ FrameNode(i) \in Nodes
  /\ stack[i].node \in Names /\ stack[i].state \in Nat
  /\ stack[i].token \in 0 .. Len(tokens) /\ stack[i].offset \in Nat
  /\ stack[i].parent \in 0 .. i - 1 /\ (stack[i].parent = 0 <=> i = 1)

(* What the invariant says of one frame. *)
LEMMA FramesAre ==
  ASSUME IInv, NEW i \in 1 .. Len(stack)
  PROVE  FrameIs(i) /\ stack \in Seq(Frames(Len(tokens))) /\ Len(stack) \in Nat
<1>1. stack \in Seq(Frames(Len(tokens))) /\ Len(stack) \in Nat
  BY DEF IInv, Derivation
<1>2. stack[i] \in Frames(Len(tokens))
  BY <1>1
<1>3. /\ stack[i].node \in Names /\ stack[i].state \in Nat /\ stack[i].parent \in Nat
      /\ stack[i].token \in 0 .. Len(tokens) /\ stack[i].offset \in Nat
  BY <1>2 DEF Frames
<1>4. /\ FrameNode(i) \in Nodes
      /\ stack[i].parent < i /\ (stack[i].parent = 0 <=> i = 1)
  BY DEF IInv, Derivation, FrameNode
<1> QED
  BY <1>1, <1>2, <1>3, <1>4 DEF FrameIs

(* Where a leaf leaves the position is a position again. *)
LEMMA AfterIs ==
  ASSUME Len(tokens) \in Nat \ {0}, NEW node \in Nodes,
         NEW t \in 0 .. Len(tokens), NEW off \in Nat
  PROVE  After(node, t, off)[1] \in 0 .. Len(tokens) /\ After(node, t, off)[2] \in Nat
<1>1. NextToken(t) \in 0 .. Len(tokens)
  BY DEF NextToken, NULL
<1>2. node.type = "CONSTANT" => Len(node.value) \in Nat
  BY SchemeAssumption
<1> QED
  BY <1>1, <1>2 DEF After

(* A leaf consumes what it matches, another node begins with its first child. *)
LEMMA MatchKeeps ==
  ASSUME IInv, Match
  PROVE  IInv'
<1> DEFINE T == Len(tokens)
           top == Len(stack)
<1>1. /\ pc = "match" /\ current' = top /\ pc' = "descend"
      /\ tokens' = tokens /\ error' = error /\ success' = success
  BY DEF Match
<1>2. T \in Nat \ {0} /\ top >= 1 /\ top \in Nat /\ top \in 1 .. top
  BY <1>1 DEF IInv, Derivation
<1>3. FrameIs(top)
  BY <1>2, FramesAre
<1>4. Derivation(T, stack') /\ Len(stack') = top
  <2>1. CASE stack' = stack
    BY <2>1 DEF IInv
  <2>2. CASE stack' = [stack EXCEPT ![top].state = 0]
    <3>1. Derivation(T, [stack EXCEPT ![top].state = 0])
      BY <1>2, DerivationBegins DEF IInv
    <3>2. Restated(T, stack, [stack EXCEPT ![top].state = 0], top, 0)
      BY <1>2, Restates DEF IInv, Derivation
    <3> QED
      BY <2>2, <3>1, <3>2 DEF Restated
  <2> QED
    BY <2>1, <2>2 DEF Match
<1>5. token' \in 0 .. T /\ offset' \in Nat
  <2>1. CASE IsLeaf(FrameNode(top))
    <3> DEFINE after == After(FrameNode(top), stack[top].token, stack[top].offset)
    <3>1. token' = after[1] /\ offset' = after[2]
      BY <2>1 DEF Match
    <3>2. after[1] \in 0 .. T /\ after[2] \in Nat
      BY <1>2, <1>3, AfterIs DEF FrameIs
    <3> QED
      BY <3>1, <3>2
  <2>2. CASE ~IsLeaf(FrameNode(top))
    <3>1. token' = stack[top].token /\ offset' = stack[top].offset
      BY <2>2 DEF Match
    <3> QED
      BY <1>3, <3>1 DEF FrameIs
  <2> QED
    BY <2>1, <2>2
<1>6. current' \in 1 .. Len(stack') /\ current' \in 0 .. Len(stack') + 1
  BY <1>1, <1>2, <1>4
<1>7. /\ error.maxToken \in 0 .. T /\ error.maxTokenOffset \in Nat /\ success' \in BOOLEAN
  BY <1>1 DEF IInv
<1> QED
  BY <1>1, <1>2, <1>4, <1>5, <1>6, <1>7 DEF IInv

(* A leaf fails, and the place may be noted as that of the error. *)
LEMMA MismatchKeeps ==
  ASSUME IInv, Mismatch
  PROVE  IInv'
<1> DEFINE T == Len(tokens)
           top == Len(stack)
           frame == stack[top]
<1>1. /\ pc = "match" /\ current' = top /\ pc' = "reject"
      /\ tokens' = tokens /\ stack' = stack /\ success' = success
      /\ token' = frame.token /\ offset' = frame.offset /\ error' = Noted(frame)
  BY DEF Mismatch
<1>2. T \in Nat \ {0} /\ top >= 1 /\ top \in Nat /\ top \in 1 .. top
  BY <1>1 DEF IInv, Derivation
<1>3. FrameIs(top)
  BY <1>2, FramesAre
<1>4. error.maxToken \in 0 .. T /\ error.maxTokenOffset \in Nat /\ success' \in BOOLEAN
  BY <1>1 DEF IInv
<1>5. frame.token \in 0 .. T /\ frame.offset \in Nat
  BY <1>3 DEF FrameIs
<1>6. error'.maxToken \in 0 .. T /\ error'.maxTokenOffset \in Nat
  BY <1>1, <1>4, <1>5 DEF Noted
<1>7. Derivation(T, stack') /\ current' \in 0 .. Len(stack') + 1
  BY <1>1, <1>2 DEF IInv
<1> QED
  BY <1>1, <1>2, <1>4, <1>5, <1>6, <1>7 DEF IInv

\* What one turn of the loop over pop makes of the stack.
Remaining(parent) ==
  IF parent = NULL THEN Front(stack)
  ELSE [Front(stack) EXCEPT
         ![parent].state = Rejected(FrameNode(parent), stack[parent].state).state]

(* What is left of the stack is a derivation. *)
LEMMA RejectLeaves ==
  ASSUME IInv, pc = "reject", NEW parent, parent = stack[Len(stack)].parent
  PROVE  /\ Derivation(Len(tokens), Remaining(parent)) /\ Len(Remaining(parent)) = Len(stack) - 1
         /\ parent \in 0 .. Len(stack) - 1
         /\ \A i \in 1 .. Len(stack) - 1 : /\ Remaining(parent)[i].node = stack[i].node
                                           /\ Remaining(parent)[i].token = stack[i].token
                                           /\ Remaining(parent)[i].offset = stack[i].offset
<1> DEFINE T == Len(tokens)
           top == Len(stack)
<1>1. T \in Nat \ {0} /\ top >= 1 /\ top \in Nat /\ top \in 1 .. top /\ Derivation(T, stack)
  BY DEF IInv, Derivation
<1>2. stack \in Seq(Frames(T))
  BY <1>1 DEF Derivation
<1>3. parent \in 0 .. top - 1
  BY <1>1, FramesAre DEF FrameIs
<1>4. Popped(T, stack, Front(stack))
  BY <1>1, <1>2, Pops
<1>5. CASE parent = NULL
  <2>1. Remaining(parent) = Front(stack)
    BY <1>5 DEF Remaining
  <2>2. top = 1 /\ Front(stack) = <<>>
    BY <1>1, <1>5, DerivationEnds DEF NULL
  <2>3. Derivation(T, <<>>)
    BY DEF Derivation
  <2>4. Len(Remaining(parent)) = top - 1 /\ \A i \in 1 .. top - 1 : FALSE
    BY <2>1, <2>2
  <2> QED
    BY <1>3, <2>1, <2>2, <2>3, <2>4
<1>6. CASE parent # NULL
  <2> DEFINE state == Rejected(FrameNode(parent), stack[parent].state).state
  <2>1. Remaining(parent) = [Front(stack) EXCEPT ![parent].state = state]
    BY <1>6 DEF Remaining
  <2>2. CountsBack(NodeAt(stack[parent].node), stack[parent].state, state)
    BY RejectedIs DEF FrameNode
  <2> HIDE DEF state
  <2>3. /\ state \in Nat /\ parent \in 1 .. top - 1
        /\ Derivation(T, [Front(stack) EXCEPT ![parent].state = state])
    BY <1>1, <1>6, <2>2, DerivationShrinks DEF NULL
  <2>4. /\ Front(stack) \in Seq(Frames(T)) /\ Len(Front(stack)) = top - 1
        /\ \A i \in 1 .. top - 1 : Front(stack)[i] = stack[i]
    BY <1>4 DEF Popped
  <2>5. Restated(T, Front(stack), [Front(stack) EXCEPT ![parent].state = state], parent, state)
    BY <2>3, <2>4, Restates
  <2>6. /\ Len(Remaining(parent)) = top - 1
        /\ \A i \in 1 .. top - 1 : /\ Remaining(parent)[i].node = stack[i].node
                                   /\ Remaining(parent)[i].token = stack[i].token
                                   /\ Remaining(parent)[i].offset = stack[i].offset
    BY <2>1, <2>4, <2>5 DEF Restated
  <2> QED
    BY <1>3, <2>1, <2>3, <2>6
<1> QED
  BY <1>5, <1>6

\* How the loop over pop goes on: with another child, not at all, or once more.
GoesOn(parent) ==
  \/ /\ parent # NULL /\ Rejected(FrameNode(parent), stack[parent].state).goesOn
     /\ pc' = "descend" /\ current' = parent /\ UNCHANGED <<token, success>>
  \/ /\ stack' = <<>> /\ pc' = "done" /\ success' = (token = NULL)
     /\ UNCHANGED <<current, token>>
  \/ /\ parent = NULL \/ ~Rejected(FrameNode(parent), stack[parent].state).goesOn
     /\ stack' # <<>> /\ current' = Len(stack') /\ token' = Last(stack').token
     /\ UNCHANGED <<pc, success>>

(* One turn of the loop over pop, with its three ways to go on in one formula. *)
LEMMA RejectIs ==
  ASSUME IInv, Reject
  PROVE  /\ pc = "reject" /\ current = Len(stack)
         /\ stack' = Remaining(stack[Len(stack)].parent)
         /\ GoesOn(stack[Len(stack)].parent)
         /\ UNCHANGED <<source, tokens, offset, error>>
<1>1. pc = "reject" /\ current = Len(stack) /\ UNCHANGED <<source, tokens, offset, error>>
  BY DEF Reject, IInv
<1> DEFINE parent == stack[current].parent
           rest == IF parent = NULL THEN Front(stack)
                   ELSE [Front(stack) EXCEPT
                          ![parent].state = Rejected(FrameNode(parent), stack[parent].state).state]
<1>2. stack' = rest
  BY DEF Reject
<1>3. rest = Remaining(parent)
  BY DEF Remaining
<1>4. \/ /\ parent # NULL /\ Rejected(FrameNode(parent), stack[parent].state).goesOn
         /\ pc' = "descend" /\ current' = parent /\ UNCHANGED <<token, success>>
      \/ /\ rest = <<>> /\ pc' = "done" /\ success' = (token = NULL)
         /\ UNCHANGED <<current, token>>
      \/ /\ parent = NULL \/ ~Rejected(FrameNode(parent), stack[parent].state).goesOn
         /\ rest # <<>> /\ current' = Len(rest) /\ token' = Last(rest).token
         /\ UNCHANGED <<pc, success>>
  BY DEF Reject, Return
<1> QED
  BY <1>1, <1>2, <1>3, <1>4 DEF GoesOn

(* A frame is popped, and its parent may have another child to enter. *)
LEMMA RejectKeeps ==
  ASSUME IInv, Reject
  PROVE  IInv'
<1> DEFINE T == Len(tokens)
           top == Len(stack)
           parent == stack[top].parent
<1>1. /\ pc = "reject" /\ current = top /\ GoesOn(parent)
      /\ UNCHANGED <<tokens, offset, error>> /\ stack' = Remaining(parent)
  BY RejectIs
<1>2. /\ Derivation(T, stack') /\ Len(stack') = top - 1 /\ parent \in 0 .. top - 1
      /\ \A i \in 1 .. top - 1 : stack'[i].token = stack[i].token
  BY <1>1, RejectLeaves
<1>3. T \in Nat \ {0} /\ top >= 1 /\ top \in Nat
  BY <1>1 DEF IInv, Derivation
<1>4. stack' # <<>> => top - 1 >= 1
  <2>1. stack' \in Seq(Frames(T))
    BY <1>2 DEF Derivation
  <2> QED
    BY <1>2, <1>3, <2>1
<1>5. /\ pc' \in {"descend", "reject", "done"}
      /\ pc' = "reject" => Len(stack') >= 1 /\ current' = Len(stack')
      /\ pc' = "descend" => current' \in 1 .. Len(stack')
  BY <1>1, <1>2, <1>3, <1>4 DEF GoesOn, NULL
<1>6. current' \in 0 .. Len(stack') + 1
  BY <1>1, <1>2, <1>3, <1>4 DEF GoesOn
<1>7. token' \in 0 .. T
  <2>1. token \in 0 .. T
    BY DEF IInv
  <2>2. stack' # <<>> => Last(stack').token \in 0 .. T
    <3>1. SUFFICES ASSUME stack' # <<>>
                   PROVE  Last(stack').token \in 0 .. T
      OBVIOUS
    <3>2. top - 1 \in 1 .. top - 1 /\ top - 1 \in 1 .. top
      BY <1>3, <1>4, <3>1
    <3>3. Last(stack').token = stack[top - 1].token
      BY <1>2, <3>2 DEF Last
    <3>4. FrameIs(top - 1)
      BY <3>2, FramesAre
    <3> QED
      BY <3>3, <3>4 DEF FrameIs
  <2> QED
    BY <1>1, <2>1, <2>2 DEF GoesOn
<1>8. success' \in BOOLEAN
  <2>1. success \in BOOLEAN
    BY DEF IInv
  <2>2. success' = success \/ success' = (token = NULL)
    BY <1>1 DEF GoesOn
  <2> QED
    BY <2>1, <2>2
<1>9. /\ error'.maxToken \in 0 .. T /\ error'.maxTokenOffset \in Nat /\ offset' \in Nat
      /\ tokens' = tokens
  BY <1>1 DEF IInv
<1> QED
  BY <1>2, <1>3, <1>5, <1>6, <1>7, <1>8, <1>9 DEF IInv

(* A frame enters its next child, or is left for the frame it is a child of. *)
LEMMA DescendKeeps ==
  ASSUME IInv, Descend
  PROVE  IInv'
<1> DEFINE T == Len(tokens)
           n == Len(stack)
           c == current
           outcome == NextChild(FrameNode(c), stack[c].state)
           marked == [stack EXCEPT ![c].state = outcome.state]
           child == Frame(ChildPath(stack[c].node, outcome.child), c, token, offset)
<1>1. pc = "descend" /\ UNCHANGED <<tokens, token, offset, error>>
  BY DEF Descend
<1>2. /\ T \in Nat \ {0} /\ c \in 1 .. n /\ n \in Nat /\ Derivation(T, stack)
      /\ token \in 0 .. T /\ offset \in Nat
  BY <1>1 DEF IInv, Derivation
<1>3. FrameIs(c)
  BY <1>2, FramesAre
<1>4. MayEnter(NodeAt(stack[c].node), stack[c].state, outcome)
  BY <1>3, NextChildIs DEF FrameIs, FrameNode
<1>5. Restated(T, stack, marked, c, outcome.state)
  BY <1>2, <1>4, Restates DEF MayEnter, Derivation
<1>6. \/ /\ outcome.child # 0 /\ stack' = Append(marked, child) /\ pc' = "match"
         /\ current' = current /\ success' = success
      \/ /\ outcome.child = 0 /\ stack' = marked /\ current' = stack[c].parent
         /\ IF stack[c].parent = NULL THEN pc' = "done" /\ success' = (token = NULL)
            ELSE pc' = pc /\ success' = success
  BY DEF Descend, Return
<1> HIDE DEF outcome
<1>7. success' \in BOOLEAN
  <2>1. success \in BOOLEAN
    BY DEF IInv
  <2>2. success' = success \/ success' = (token = NULL)
    BY <1>6
  <2> QED
    BY <2>1, <2>2
<1>8. /\ error'.maxToken \in 0 .. T /\ error'.maxTokenOffset \in Nat
      /\ token' \in 0 .. T /\ offset' \in Nat /\ tokens' = tokens
  BY <1>1, <1>2 DEF IInv
<1>9. CASE outcome.child # 0
  <2>1. Derivation(T, Append(marked, child))
    BY <1>2, <1>4, <1>9, DerivationGrows
  <2>2. Len(Append(marked, child)) = n + 1
    <3>1. marked \in Seq(Frames(T)) /\ Len(marked) = n
      BY <1>5 DEF Restated
    <3> HIDE DEF marked, child
    <3> QED
      BY <3>1
  <2>3. stack' = Append(marked, child) /\ pc' = "match" /\ current' = current
    BY <1>6, <1>9
  <2> HIDE DEF marked, child
  <2>4. Derivation(T, stack') /\ Len(stack') = n + 1
    BY <2>1, <2>2, <2>3
  <2>5. Len(stack') >= 1 /\ current' \in 0 .. Len(stack') + 1
    BY <1>2, <2>3, <2>4
  <2> QED
    BY <1>2, <1>7, <1>8, <2>3, <2>4, <2>5 DEF IInv
<1>10. CASE outcome.child = 0
  <2>1. Derivation(T, marked)
    BY <1>2, <1>4, <1>10, DerivationLeft
  <2>2. Len(marked) = n
    BY <1>5 DEF Restated
  <2> HIDE DEF marked
  <2>3. Derivation(T, stack') /\ Len(stack') = n /\ current' = stack[c].parent
    BY <1>6, <1>10, <2>1, <2>2
  <2>4. stack[c].parent \in 0 .. c - 1
    BY <1>3 DEF FrameIs
  <2>5. current' \in 0 .. Len(stack') + 1 /\ (current' # 0 => current' \in 1 .. Len(stack'))
    BY <1>2, <2>3, <2>4
  <2>6. pc' = (IF current' = 0 THEN "done" ELSE "descend")
    BY <1>1, <1>6, <1>10 DEF NULL
  <2> QED
    BY <1>2, <1>7, <1>8, <2>3, <2>5, <2>6 DEF IInv
<1> QED
  BY <1>9, <1>10

(* Every step of the parser preserves the invariant. *)
LEMMA NextIInv ==
  IInv /\ [Next \/ \E text \in Followers : Restart(text)]_vars => IInv'
<1> SUFFICES ASSUME IInv, [Next \/ \E text \in Followers : Restart(text)]_vars
             PROVE  IInv'
  OBVIOUS
<1>1. CASE Match
  BY <1>1, MatchKeeps
<1>2. CASE Mismatch
  BY <1>2, MismatchKeeps
<1>3. CASE Reject
  BY <1>3, RejectKeeps
<1>4. CASE Descend
  BY <1>4, DescendKeeps
<1>5. ASSUME NEW text \in Followers, Restart(text)
      PROVE  IInv'
  BY <1>5, BeginsRight DEF Restart
<1>6. CASE UNCHANGED vars
  BY <1>6 DEF IInv, vars, position
<1> QED
  BY <1>1, <1>2, <1>3, <1>4, <1>5, <1>6 DEF Next

-----------------------------------------------------------------------------

(* The invariant holds in every state of the parser. *)
THEOREM ParserInvariant == Parsing => []IInv
BY InitIInv, NextIInv, PTL DEF Parsing

(* The frames and the locals of ketl_bnf_parse keep their types. *)
THEOREM TypeCorrect == Parsing => []TypeOK
<1>1. IInv => TypeOK
  <2> SUFFICES ASSUME IInv
               PROVE  TypeOK
    OBVIOUS
  <2>1. DOMAIN stack = 1 .. Len(stack)
    BY DEF IInv, Derivation
  <2>2. \A i \in 1 .. Len(stack) : FrameIs(i)
    BY FramesAre
  <2>3. \A i \in DOMAIN stack :
          /\ stack[i].state \in Nat /\ stack[i].token \in 0 .. Len(tokens)
          /\ stack[i].offset \in Nat /\ stack[i].parent \in 0 .. i - 1
    BY <2>1, <2>2 DEF FrameIs
  <2> QED
    BY <2>3 DEF IInv, TypeOK
<1> QED
  BY <1>1, ParserInvariant, PTL

(***************************************************************************)
(* However often the parser goes back (childRejected, nextChild), the      *)
(* state of a sequence counts the children it has entered, and that of     *)
(* an alternative tells which one it is in.                                *)
(***************************************************************************)
THEOREM StatesCount == Parsing => []StateCountsChildren
<1>1. IInv => StateCountsChildren
  <2> SUFFICES ASSUME IInv, NEW i \in DOMAIN stack
               PROVE  LET node == FrameNode(i)
                      IN  /\ node.type = "CONCAT" => stack[i].state = Cardinality(Children(i))
                          /\ node.type = "OR" /\ Children(i) # {} =>
                               \E j \in Children(i) :
                                 stack[j].node =
                                   ChildPath(stack[i].node,
                                             stack[i].state - Len(node.children) + 1)
    BY DEF StateCountsChildren
  <2>1. DOMAIN stack = 1 .. Len(stack)
    BY DEF IInv, Derivation
  <2>2. Counted(stack, i)
    BY <2>1 DEF IInv, Derivation
  <2>3. Children(i) = Kids(stack, i)
    BY <2>1 DEF Children, Kids
  <2>4. FrameNode(i).type = "CONCAT" => stack[i].state = Cardinality(Children(i))
    BY <2>2, <2>3 DEF Counted, FrameNode
  <2>5. ASSUME FrameNode(i).type = "OR", Children(i) # {}
        PROVE  \E j \in Children(i) :
                 stack[j].node =
                   ChildPath(stack[i].node,
                             stack[i].state - Len(FrameNode(i).children) + 1)
    <3>1. Chosen(stack, i)
      BY <2>2, <2>5 DEF Counted, FrameNode
    <3> QED
      BY <2>3, <2>5, <3>1 DEF Chosen, FrameNode
  <2> QED
    BY <2>4, <2>5
<1> QED
  BY <1>1, ParserInvariant, PTL

-----------------------------------------------------------------------------

\* The position behind frame i, if it is a leaf, or else where it begins.
EndOfFrame(i) ==
  IF IsLeaf(FrameNode(i)) THEN After(FrameNode(i), stack[i].token, stack[i].offset)
  ELSE <<stack[i].token, stack[i].offset>>

\* Each frame begins where the one before it ends, and always at a token.
Row ==
  /\ offset = 0
  /\ \A i \in 1 .. Len(stack) : stack[i].offset = 0
  /\ \A i \in 1 .. Len(stack) - 1 :
       <<stack[i + 1].token, stack[i + 1].offset>> = EndOfFrame(i)
  /\ pc = "descend" => \A k \in {Len(stack)} : <<token, offset>> = EndOfFrame(k)
  /\ pc = "reject" => token = stack[Len(stack)].token

(* A leaf that matches at a token leaves the position at a token. *)
LEMMA AfterWhole ==
  ASSUME SymbolsSeparated, NEW node \in Nodes, NEW t \in 0 .. Len(tokens), Matches(node, t, 0)
  PROVE  After(node, t, 0)[2] = 0
<1>1. CASE node.type # "CONSTANT"
  BY <1>1 DEF After
<1>2. CASE node.type = "CONSTANT"
  <2>1. t # 0
    <3>1. TokenType(0) = "END"
      BY DEF TokenType, NULL
    <3> QED
      BY <1>2, <3>1 DEF Matches
  <2>2. Len(node.value) = Rest(t, 0)
    <3>1. t \in 1 .. Len(tokens)
      BY <2>1
    <3> QED
      BY <1>2, <3>1 DEF SymbolsSeparated
  <2> QED
    BY <1>2, <2>2 DEF After
<1> QED
  BY <1>1, <1>2

\* The first n frames stay where they are, and so do the tokens.
Stays(n) ==
  /\ UNCHANGED <<source, tokens>>
  /\ \A i \in 1 .. n : /\ stack'[i].node = stack[i].node
                       /\ stack'[i].token = stack[i].token
                       /\ stack'[i].offset = stack[i].offset

(* A frame that stays where it is ends where it ended. *)
LEMMA EndsStay ==
  ASSUME NEW n, Stays(n), NEW i \in 1 .. n
  PROVE  EndOfFrame(i)' = EndOfFrame(i)
<1>1. /\ tokens' = tokens /\ stack'[i].node = stack[i].node
      /\ stack'[i].token = stack[i].token /\ stack'[i].offset = stack[i].offset
  BY DEF Stays
<1>2. FrameNode(i)' = FrameNode(i)
  BY <1>1 DEF FrameNode
<1> QED
  BY <1>1, <1>2 DEF EndOfFrame, After, NextToken, Rest

(* Whether the symbols are separated is about the source and its tokens alone. *)
LEMMA SeparatedStays ==
  ASSUME UNCHANGED <<source, tokens>>
  PROVE  SymbolsSeparated' <=> SymbolsSeparated
BY DEF SymbolsSeparated, Matches, TokenType, HasText, Rest, TextAt

(* Steps that leave the frames where they are keep the row. *)
LEMMA RowStays ==
  ASSUME Row, Stays(Len(stack)), Len(stack') = Len(stack), Len(stack) \in Nat, offset' = 0,
         pc' = "descend" =>
           \A k \in {Len(stack)} : <<token', offset'>> = EndOfFrame(k)',
         pc' = "reject" => token' = stack[Len(stack)].token, Len(stack) >= 1
  PROVE  Row'
<1> DEFINE n == Len(stack)
<1>1. n \in 1 .. n /\ \A i \in 1 .. n - 1 : i \in 1 .. n /\ i + 1 \in 1 .. n
  OBVIOUS
<1>2. \A i \in 1 .. n : stack'[i].offset = 0
  BY DEF Row, Stays
<1>3. ASSUME NEW i \in 1 .. n - 1
      PROVE  <<stack'[i + 1].token, stack'[i + 1].offset>> = EndOfFrame(i)'
  <2>1. EndOfFrame(i)' = EndOfFrame(i)
    BY <1>1, EndsStay
  <2>2. <<stack[i + 1].token, stack[i + 1].offset>> = EndOfFrame(i)
    BY DEF Row
  <2>3. stack'[i + 1].token = stack[i + 1].token /\ stack'[i + 1].offset = stack[i + 1].offset
    BY <1>1 DEF Stays
  <2> QED
    BY <2>1, <2>2, <2>3
<1>4. stack'[n].token = stack[n].token
  BY <1>1 DEF Stays
<1> QED
  BY <1>2, <1>3, <1>4 DEF Row

(* A leaf that matches ends where the next frame will begin. *)
LEMMA MatchJoins ==
  ASSUME IInv, Row, SymbolsSeparated, Match
  PROVE  Row'
<1> DEFINE T == Len(tokens)
           top == Len(stack)
<1>1. pc = "match" /\ pc' = "descend" /\ UNCHANGED <<source, tokens>>
  BY DEF Match
<1>2. top >= 1 /\ top \in Nat /\ top \in 1 .. top /\ stack \in Seq(Frames(T))
  BY <1>1 DEF IInv, Derivation
<1>3. FrameIs(top) /\ stack[top].offset = 0
  BY <1>2, FramesAre DEF Row
<1>4. Stays(top) /\ Len(stack') = top
  <2>1. CASE stack' = stack
    BY <1>1, <2>1 DEF Stays
  <2>2. CASE stack' = [stack EXCEPT ![top].state = 0]
    <3>1. Restated(T, stack, [stack EXCEPT ![top].state = 0], top, 0)
      BY <1>2, Restates
    <3> QED
      BY <1>1, <2>2, <3>1 DEF Restated, Stays
  <2> QED
    BY <2>1, <2>2 DEF Match
<1>5. \A k \in {top} : EndOfFrame(k)' = EndOfFrame(k)
  BY <1>2, <1>4, EndsStay
<1>6. offset' = 0 /\ <<token', offset'>> = EndOfFrame(top)
  <2>1. CASE IsLeaf(FrameNode(top))
    <3> DEFINE after == After(FrameNode(top), stack[top].token, stack[top].offset)
    <3>1. /\ token' = after[1] /\ offset' = after[2]
          /\ Matches(FrameNode(top), stack[top].token, stack[top].offset)
      BY <2>1 DEF Match
    <3>2. after[2] = 0
      BY <1>3, <3>1, AfterWhole DEF FrameIs
    <3>3. after = <<after[1], after[2]>>
      BY DEF After
    <3>4. EndOfFrame(top) = after
      BY <2>1 DEF EndOfFrame
    <3> QED
      BY <3>1, <3>2, <3>3, <3>4
  <2>2. CASE ~IsLeaf(FrameNode(top))
    <3>1. token' = stack[top].token /\ offset' = stack[top].offset
      BY <2>2 DEF Match
    <3> QED
      BY <1>3, <2>2, <3>1 DEF EndOfFrame
  <2> QED
    BY <2>1, <2>2
<1> QED
  BY <1>1, <1>2, <1>4, <1>5, <1>6, RowStays

(* A leaf that fails gives its own place back. *)
LEMMA MismatchJoins ==
  ASSUME IInv, Row, Mismatch
  PROVE  Row'
<1> DEFINE top == Len(stack)
<1>1. /\ pc = "match" /\ pc' = "reject" /\ UNCHANGED <<source, tokens, stack>>
      /\ token' = stack[top].token /\ offset' = stack[top].offset
  BY DEF Mismatch
<1>2. top >= 1 /\ top \in Nat /\ top \in 1 .. top
  BY <1>1 DEF IInv, Derivation
<1>3. Stays(top) /\ Len(stack') = top /\ offset' = 0
  BY <1>1, <1>2 DEF Stays, Row
<1> QED
  BY <1>1, <1>2, <1>3, RowStays

(* Behind a pop, the place is that of the frame that was popped. *)
LEMMA RejectJoins ==
  ASSUME IInv, Row, Reject
  PROVE  Row'
<1> DEFINE T == Len(tokens)
           top == Len(stack)
           m == top - 1
           parent == stack[top].parent
<1>1. /\ pc = "reject" /\ current = top /\ GoesOn(parent)
      /\ UNCHANGED <<source, tokens, offset>> /\ stack' = Remaining(parent)
  BY RejectIs
<1>2. /\ Derivation(T, stack') /\ Len(stack') = m /\ parent \in 0 .. m
      /\ \A i \in 1 .. m : /\ stack'[i].node = stack[i].node
                           /\ stack'[i].token = stack[i].token
                           /\ stack'[i].offset = stack[i].offset
  BY <1>1, RejectLeaves
<1>3. top >= 1 /\ top \in Nat /\ top \in 1 .. top
  BY <1>1 DEF IInv, Derivation
<1>4. Stays(m)
  BY <1>1, <1>2 DEF Stays
<1>5. /\ offset' = 0 /\ stack[top].offset = 0 /\ token = stack[top].token
      /\ \A i \in 1 .. m : stack'[i].offset = 0
  BY <1>1, <1>2, <1>3 DEF Row
<1>6. ASSUME NEW i \in 1 .. m - 1
      PROVE  <<stack'[i + 1].token, stack'[i + 1].offset>> = EndOfFrame(i)'
  <2>1. i \in 1 .. m /\ i + 1 \in 1 .. m /\ i \in 1 .. top - 1
    BY <1>3
  <2>2. EndOfFrame(i)' = EndOfFrame(i)
    BY <1>4, <2>1, EndsStay
  <2>3. <<stack[i + 1].token, stack[i + 1].offset>> = EndOfFrame(i)
    BY <2>1 DEF Row
  <2> QED
    BY <1>2, <2>1, <2>2, <2>3
<1>7. ASSUME pc' = "descend"
      PROVE  \A k \in {m} : <<token', offset'>> = EndOfFrame(k)'
  <2> SUFFICES ASSUME NEW k \in {m}
               PROVE  <<token', offset'>> = EndOfFrame(k)'
    OBVIOUS
  <2>1. parent # 0 /\ token' = token
    BY <1>1, <1>7 DEF GoesOn, NULL
  <2>2. k \in 1 .. m /\ k \in 1 .. top - 1 /\ k + 1 = top
    BY <1>2, <1>3, <2>1
  <2>3. EndOfFrame(k)' = EndOfFrame(k)
    BY <1>4, <2>2, EndsStay
  <2>4. <<stack[k + 1].token, stack[k + 1].offset>> = EndOfFrame(k)
    BY <2>2 DEF Row
  <2> QED
    BY <1>5, <2>1, <2>2, <2>3, <2>4
<1>8. ASSUME pc' = "reject"
      PROVE  token' = stack'[Len(stack')].token
  BY <1>1, <1>2, <1>8 DEF GoesOn, Last
<1>9. pc' = "descend" => \A k \in {Len(stack')} : <<token', offset'>> = EndOfFrame(k)'
  BY <1>2, <1>7
<1> QED
  BY <1>2, <1>5, <1>6, <1>8, <1>9 DEF Row

(* A child begins where the last frame ends. *)
LEMMA DescendJoins ==
  ASSUME IInv, Row, Descend
  PROVE  Row'
<1> DEFINE T == Len(tokens)
           n == Len(stack)
           c == current
           outcome == NextChild(FrameNode(c), stack[c].state)
           marked == [stack EXCEPT ![c].state = outcome.state]
           child == Frame(ChildPath(stack[c].node, outcome.child), c, token, offset)
<1>1. pc = "descend" /\ UNCHANGED <<source, tokens, token, offset>>
  BY DEF Descend
<1>2. /\ c \in 1 .. n /\ n \in Nat /\ n >= 1 /\ n \in 1 .. n /\ stack \in Seq(Frames(T))
      /\ offset = 0
  BY <1>1 DEF IInv, Derivation, Row
<1>3. FrameIs(c)
  BY <1>2, FramesAre
<1>4. MayEnter(NodeAt(stack[c].node), stack[c].state, outcome)
  BY <1>3, NextChildIs DEF FrameIs, FrameNode
<1>5. Restated(T, stack, marked, c, outcome.state)
  BY <1>2, <1>4, Restates DEF MayEnter
<1>6. \/ outcome.child # 0 /\ stack' = Append(marked, child) /\ pc' = "match"
      \/ outcome.child = 0 /\ stack' = marked /\ pc' \in {"done", "descend"}
  BY <1>1 DEF Descend, Return
<1>7. child.token = token /\ child.offset = 0
  BY <1>2 DEF Frame
<1>8. <<token, offset>> = EndOfFrame(n)
  BY <1>1 DEF Row
<1> HIDE DEF outcome, child
<1>9. /\ marked \in Seq(Frames(T)) /\ Len(marked) = n
      /\ \A i \in 1 .. n : /\ marked[i].node = stack[i].node /\ marked[i].token = stack[i].token
                           /\ marked[i].offset = stack[i].offset
  BY <1>5 DEF Restated
<1> HIDE DEF marked
<1>10. CASE stack' = Append(marked, child) /\ pc' = "match"
  <2>1. /\ Len(stack') = n + 1 /\ stack'[n + 1] = child
        /\ \A i \in 1 .. n : stack'[i] = marked[i]
    BY <1>2, <1>9, <1>10
  <2>2. Stays(n)
    BY <1>1, <1>9, <2>1 DEF Stays
  <2>3. ASSUME NEW i \in 1 .. n
        PROVE  <<stack'[i + 1].token, stack'[i + 1].offset>> = EndOfFrame(i)'
    <3>1. EndOfFrame(i)' = EndOfFrame(i)
      BY <2>2, EndsStay
    <3>2. CASE i = n
      BY <1>2, <1>7, <1>8, <2>1, <3>1, <3>2
    <3>3. CASE i # n
      <4>1. i \in 1 .. n - 1 /\ i + 1 \in 1 .. n
        BY <1>2, <3>3
      <4>2. <<stack[i + 1].token, stack[i + 1].offset>> = EndOfFrame(i)
        BY <4>1 DEF Row
      <4> QED
        BY <1>9, <2>1, <3>1, <4>1, <4>2
    <3> QED
      BY <3>2, <3>3
  <2>4. \A i \in 1 .. n + 1 : stack'[i].offset = 0
    <3>1. \A i \in 1 .. n + 1 : i = n + 1 \/ i \in 1 .. n
      BY <1>2
    <3>2. \A i \in 1 .. n : stack[i].offset = 0
      BY DEF Row
    <3> QED
      BY <1>7, <1>9, <2>1, <3>1, <3>2
  <2>5. Len(stack') - 1 = n /\ offset' = 0
    BY <1>1, <1>2, <2>1
  <2> QED
    BY <1>10, <2>1, <2>3, <2>4, <2>5 DEF Row
<1>11. CASE stack' = marked /\ pc' \in {"done", "descend"}
  <2>1. Stays(n) /\ Len(stack') = n /\ offset' = 0
    BY <1>1, <1>2, <1>9, <1>11 DEF Stays
  <2>2. ASSUME NEW k \in {n}
        PROVE  <<token', offset'>> = EndOfFrame(k)'
    <3>1. k \in 1 .. n /\ EndOfFrame(k)' = EndOfFrame(k)
      BY <1>2, <2>1, EndsStay
    <3>2. <<token, offset>> = EndOfFrame(k)
      BY <1>1 DEF Row
    <3> QED
      BY <1>1, <3>1, <3>2
  <2>3. \A k \in {n} : <<token', offset'>> = EndOfFrame(k)'
    BY <2>2
  <2> QED
    BY <1>2, <1>11, <2>1, <2>3, RowStays
<1> QED
  BY <1>6, <1>10, <1>11

(* A text begins with one frame, at its first token. *)
LEMMA OneFrame ==
  Len(FirstFrames) = 1 /\ FirstFrames[1].offset = 0 /\ (1 .. 1 - 1) = {}
BY DEF FirstFrames, Frame

\* Row, for a text whose symbols are separated.
SeparatedRow == SymbolsSeparated => Row

(* Every step of the parser keeps the frames in a row. *)
LEMMA NextJoins ==
  IInv /\ SeparatedRow /\ [Next \/ \E text \in Followers : Restart(text)]_vars => SeparatedRow'
<1> SUFFICES ASSUME IInv, SeparatedRow, [Next \/ \E text \in Followers : Restart(text)]_vars
             PROVE  SeparatedRow'
  OBVIOUS
<1>1. CASE \E text \in Followers : Restart(text)
  <2>1. stack' = FirstFrames /\ pc' = "match" /\ offset' = 0
    BY <1>1 DEF Restart
  <2>2. Row'
    BY <2>1, OneFrame DEF Row
  <2> QED
    BY <2>2 DEF SeparatedRow
<1>2. CASE [Next]_vars
  <2>1. UNCHANGED <<source, tokens>>
    BY <1>2 DEF Next, Match, Mismatch, Reject, Descend, vars
  <2>2. SUFFICES ASSUME SymbolsSeparated, Row
                 PROVE  Row'
    BY <2>1, SeparatedStays DEF SeparatedRow
  <2>3. CASE Match
    BY <2>2, <2>3, MatchJoins
  <2>4. CASE Mismatch
    BY <2>2, <2>4, MismatchJoins
  <2>5. CASE Reject
    BY <2>2, <2>5, RejectJoins
  <2>6. CASE Descend
    BY <2>2, <2>6, DescendJoins
  <2>7. CASE UNCHANGED vars
    <3>1. UNCHANGED <<tokens, stack, pc, token, offset>>
      BY <2>7 DEF vars, position
    <3>2. \A i : EndOfFrame(i)' = EndOfFrame(i)
      BY <3>1 DEF EndOfFrame, FrameNode, After, NextToken, Rest
    <3>3. offset' = 0 /\ \A i \in 1 .. Len(stack') : stack'[i].offset = 0
      BY <2>2, <3>1 DEF Row
    <3>4. \A i \in 1 .. Len(stack') - 1 :
            <<stack'[i + 1].token, stack'[i + 1].offset>> = EndOfFrame(i)'
      BY <2>2, <3>1, <3>2 DEF Row
    <3>5. pc' = "descend" => \A k \in {Len(stack')} : <<token', offset'>> = EndOfFrame(k)'
      BY <2>2, <3>1, <3>2 DEF Row
    <3>6. pc' = "reject" => token' = stack'[Len(stack')].token
      BY <2>2, <3>1 DEF Row
    <3> QED
      BY <3>3, <3>4, <3>5, <3>6 DEF Row
  <2> QED
    BY <1>2, <2>3, <2>4, <2>5, <2>6, <2>7 DEF Next
<1> QED
  BY <1>1, <1>2

(* Frames in a row join. *)
LEMMA RowOfFrames ==
  ASSUME IInv, Row
  PROVE  FramesJoin
<1>1. ASSUME NEW i \in 1 .. Len(stack), NEW t, NEW o, <<t, o>> = EndOfFrame(i)
      PROVE  Place(t, o) = PlaceBehind(i)
  BY <1>1 DEF EndOfFrame, PlaceBehind
<1>2. ASSUME NEW i \in 1 .. Len(stack) - 1
      PROVE  Place(stack[i + 1].token, stack[i + 1].offset) = PlaceBehind(i)
  <2>1. i \in 1 .. Len(stack)
    OBVIOUS
  <2> QED
    BY <1>1, <2>1 DEF Row
<1>3. ASSUME pc = "descend"
      PROVE  Place(token, offset) = PlaceBehind(Len(stack))
  <2>1. Len(stack) \in 1 .. Len(stack)
    BY <1>3 DEF IInv, Derivation
  <2>2. <<token, offset>> = EndOfFrame(Len(stack))
    BY <1>3 DEF Row
  <2> QED
    BY <1>1, <2>1, <2>2
<1> QED
  BY <1>2, <1>3 DEF FramesJoin

(***************************************************************************)
(* The frames join, also behind every return to an earlier token: for a    *)
(* scheme and a text where no symbol is the beginning of a longer one or   *)
(* touches the next, the offset that ketl_bnf_parse forgets to set back is *)
(* always 0.                                                               *)
(***************************************************************************)
THEOREM FramesRow == Parsing => [](SymbolsSeparated => FramesJoin)
<1>1. Init => SeparatedRow
  <2> SUFFICES ASSUME Init
               PROVE  Row
    BY DEF SeparatedRow
  <2>1. stack = FirstFrames /\ pc = "match" /\ offset = 0
    BY DEF Init, StartOn
  <2> QED
    BY <2>1, OneFrame DEF Row
<1>2. IInv /\ SeparatedRow => (SymbolsSeparated => FramesJoin)
  BY RowOfFrames DEF SeparatedRow
<1> QED
  BY <1>1, <1>2, ParserInvariant, NextJoins, PTL DEF Parsing

-----------------------------------------------------------------------------

\* The frames i + 1 .. c are entered from frame i or from one of these frames.
Below(s, i, c) == \A j \in i + 1 .. c : s[j].parent >= i

\* The frames are in the order in which a derivation is read from left to right.
Preorder(s) == \A j \in 2 .. Len(s) : Below(s, s[j].parent, j - 1)

\* Which children a frame in this state has entered: those its node has, in their order.
Entered(s, node, path, state, kids) ==
  /\ IsLeaf(node) => kids = {}
  /\ node.type = "REF" =>
       \/ kids = {}
       \/ /\ state > 0
          /\ \E j \in 1 .. Len(s) : kids = {j} /\ s[j].node = ChildPath(path, 1)
  /\ node.type = "CONCAT" =>
       /\ state <= Len(node.children)
       /\ \A j \in kids : s[j].node = ChildPath(path, Cardinality(kids \cap 1 .. j))
  /\ node.type \in {"OR", "OPTIONAL"} =>
       \A j \in kids : \E k \in 1 .. Len(node.children) : s[j].node = ChildPath(path, k)
  /\ node.type = "REPEAT" => \A j \in kids : s[j].node = ChildPath(path, 1)

InOrder(s, i) == Entered(s, NodeAt(s[i].node), s[i].node, s[i].state, Kids(s, i))

\* The state of frame i knows that it has a child.
Tried(s, i) ==
  LET node == NodeAt(s[i].node)
  IN  Kids(s, i) = {} =>
        /\ node.type = "REF" => s[i].state = 0
        /\ node.type = "OR" => s[i].state < Len(node.children)

\* Frame i has all children its node demands.
Complete(s, i) ==
  LET node == NodeAt(s[i].node)
  IN  /\ node.type = "CONCAT" => Cardinality(Kids(s, i)) = Len(node.children)
      /\ node.type \in {"REF", "OR"} => Kids(s, i) # {}

\* All frames are complete but c and those it was entered from.
ClosedComplete(s, c) == \A i \in 1 .. Len(s) : (i <= c /\ Below(s, i, c)) \/ Complete(s, i)

\* The stack is a tree whose frames have the children of their nodes in order.
Tree(s) == Preorder(s) /\ \A i \in 1 .. Len(s) : InOrder(s, i)

\* What nextChild answers, kind by kind: the first child that is still to be entered.
EntersNext(node, state, outcome) ==
  LET size == Len(node.children)
  IN  /\ IsLeaf(node) => outcome.child = 0
      /\ node.type = "REF" =>
           IF outcome.child = 0 THEN state > 0 /\ outcome.state = state
           ELSE outcome.child = 1 /\ outcome.state = 1 /\ state = 0
      /\ node.type = "CONCAT" =>
           IF outcome.child = 0 THEN state >= size
           ELSE state < size /\ outcome.child = state + 1
      /\ node.type = "OR" => (outcome.child = 0 => state >= size)
      /\ node.type = "REPEAT" => outcome.child \in {0, 1}

(* nextChild goes through the children in their order. *)
LEMMA NextInOrder ==
  ASSUME NEW node \in Nodes, NEW state \in Nat
  PROVE  EntersNext(node, state, NextChild(node, state))
<1> DEFINE size == Len(node.children)
<1>1. size \in Nat
  <2>1. node.children \in Seq(Nodes)
    BY SchemeAssumption
  <2> QED
    BY <2>1
<1> HIDE DEF size
<1> USE DEF Enter, Leave, IsLeaf
<1>2. CASE node.type = "REF"
  BY <1>1, <1>2 DEF NextChild, EntersNext, size
<1>3. CASE node.type = "CONCAT"
  BY <1>1, <1>3 DEF NextChild, NextOfConcat, EntersNext, size
<1>4. CASE node.type \in {"OR", "OPTIONAL"}
  BY <1>1, <1>4 DEF NextChild, EntersNext, size
<1>5. CASE node.type = "REPEAT"
  BY <1>1, <1>5 DEF NextChild, NextOfRepeat, EntersNext, size
<1>6. CASE node.type \notin {"REF", "CONCAT", "OR", "OPTIONAL", "REPEAT"}
  BY <1>6 DEF NextChild, EntersNext
<1> QED
  BY <1>2, <1>3, <1>4, <1>5, <1>6

(* childRejected goes on with an alternative that is left, never with a reference. *)
LEMMA RejectedGoesOn ==
  ASSUME NEW node, NEW state, Rejected(node, state).goesOn
  PROVE  /\ node.type # "REF"
         /\ node.type = "OR" => Rejected(node, state).state < Len(node.children)
<1>1. CASE node.type = "OR"
  BY <1>1 DEF Rejected, RejectedOr, Outcome
<1>2. CASE node.type = "REF"
  BY <1>2 DEF Rejected, Outcome
<1> QED
  BY <1>1, <1>2

\* Frame i of s2 is that of s, with the same children.
Same(s, s2, i) ==
  /\ Kids(s2, i) = Kids(s, i) /\ s2[i].node = s[i].node
  /\ \A j \in 1 .. Len(s) : s[j].parent = i => j \in 1 .. Len(s2) /\ s2[j].node = s[j].node

(* A frame with the same children has them in the same order. *)
LEMMA InOrderStill ==
  ASSUME NEW s, NEW s2, NEW i, InOrder(s, i), Same(s, s2, i),
         NodeAt(s[i].node).type \in {"REF", "CONCAT"} => s2[i].state = s[i].state
  PROVE  InOrder(s2, i)
<1> DEFINE path == s[i].node
           node == NodeAt(path)
           kids == Kids(s, i)
<1>1. Kids(s2, i) = kids /\ s2[i].node = path
  BY DEF Same
<1>2. \A j \in kids : j \in 1 .. Len(s2) /\ s2[j].node = s[j].node
  BY DEF Same, Kids
<1>3. IsLeaf(node) => Kids(s2, i) = {}
  BY <1>1 DEF InOrder, Entered
<1>4. ASSUME node.type = "REF"
      PROVE  \/ Kids(s2, i) = {}
             \/ /\ s2[i].state > 0
                /\ \E j \in 1 .. Len(s2) :
                     Kids(s2, i) = {j} /\ s2[j].node = ChildPath(path, 1)
  <2>1. \/ kids = {}
        \/ /\ s[i].state > 0
           /\ \E j \in 1 .. Len(s) : kids = {j} /\ s[j].node = ChildPath(path, 1)
    BY <1>4 DEF InOrder, Entered
  <2>2. s2[i].state = s[i].state
    BY <1>4
  <2> HIDE DEF kids, path
  <2> QED
    BY <1>1, <1>2, <2>1, <2>2
<1>5. ASSUME node.type = "CONCAT"
      PROVE  /\ s2[i].state <= Len(node.children)
             /\ \A j \in Kids(s2, i) :
                  s2[j].node = ChildPath(path, Cardinality(Kids(s2, i) \cap 1 .. j))
  <2>1. /\ s[i].state <= Len(node.children)
        /\ \A j \in kids : s[j].node = ChildPath(path, Cardinality(kids \cap 1 .. j))
    BY <1>5 DEF InOrder, Entered
  <2>2. s2[i].state = s[i].state
    BY <1>5
  <2> HIDE DEF kids, path
  <2> QED
    BY <1>1, <1>2, <2>1, <2>2
<1>6. ASSUME node.type = "REPEAT"
      PROVE  \A j \in Kids(s2, i) : s2[j].node = ChildPath(path, 1)
  BY <1>1, <1>2, <1>6 DEF InOrder, Entered
<1>7. ASSUME node.type \in {"OR", "OPTIONAL"}
      PROVE  \A j \in Kids(s2, i) :
               \E k \in 1 .. Len(node.children) : s2[j].node = ChildPath(path, k)
  BY <1>1, <1>2, <1>7 DEF InOrder, Entered
<1> QED
  BY <1>1, <1>3, <1>4, <1>5, <1>6, <1>7 DEF InOrder, Entered

(* The parents of the frames are frames below them. *)
LEMMA ParentsBelow ==
  ASSUME NEW T, NEW s, Derivation(T, s)
  PROVE  /\ s \in Seq(Frames(T)) /\ Len(s) \in Nat
         /\ \A i \in 1 .. Len(s) :
              /\ s[i].parent \in Nat /\ s[i].parent < i /\ (s[i].parent = 0 <=> i = 1)
              /\ s[i].state \in Nat /\ s[i].node \in Names /\ NodeAt(s[i].node) \in Nodes
<1>1. s \in Seq(Frames(T)) /\ Len(s) \in Nat
  BY DEF Derivation
<1>2. \A i \in 1 .. Len(s) : s[i] \in Frames(T)
  BY <1>1
<1>3. \A i \in 1 .. Len(s) : s[i].parent \in Nat /\ s[i].state \in Nat /\ s[i].node \in Names
  BY <1>2 DEF Frames
<1> QED
  BY <1>1, <1>3 DEF Derivation

(* The children of a frame are finitely many frames above it. *)
LEMMA KidsFinite ==
  ASSUME NEW s, Len(s) \in Nat, NEW i
  PROVE  IsFiniteSet(Kids(s, i)) /\ Kids(s, i) \subseteq 1 .. Len(s)
<1>1. IsFiniteSet(1 .. Len(s)) /\ Kids(s, i) \subseteq 1 .. Len(s)
  BY FS_Interval DEF Kids
<1> QED
  BY <1>1, FS_Subset

\* A stack while its frame c looks for its next child.
Partial(T, s, c) ==
  /\ Derivation(T, s) /\ Tree(s) /\ \A i \in 1 .. Len(s) : Tried(s, i)
  /\ c \in 1 .. Len(s) /\ Below(s, c, Len(s)) /\ ClosedComplete(s, c)

\* A stack whose top frame is to be popped.
Rejecting(T, s) ==
  /\ Derivation(T, s) /\ Len(s) >= 1 /\ Tree(s) /\ \A i \in 1 .. Len(s) - 1 : Tried(s, i)
  /\ ClosedComplete(s, Len(s))

\* A stack that is a derivation of what its leaves match.
Whole(T, s) ==
  /\ Derivation(T, s) /\ Len(s) >= 1 /\ Tree(s) /\ \A i \in 1 .. Len(s) : Complete(s, i)

(* A child that is entered is the next one of its parent. *)
LEMMA InOrderGrows ==
  ASSUME NEW T, NEW s, Derivation(T, s), NEW c \in 1 .. Len(s), InOrder(s, c), NEW outcome,
         EntersNext(NodeAt(s[c].node), s[c].state, outcome),
         MayEnter(NodeAt(s[c].node), s[c].state, outcome), outcome.child # 0,
         NEW s2, NEW top, Grown(T, s, s2, c, outcome.state, top),
         top.node = ChildPath(s[c].node, outcome.child)
  PROVE  InOrder(s2, c)
<1> DEFINE n == Len(s)
           path == s[c].node
           node == NodeAt(path)
           kids == Kids(s, c)
           kids2 == Kids(s2, c)
<1>1. n \in Nat /\ s[c].state \in Nat
  BY ParentsBelow
<1>2. IsFiniteSet(kids) /\ kids \subseteq 1 .. n /\ n + 1 \notin kids
  BY <1>1, KidsFinite
<1>3. /\ kids2 = kids \cup {n + 1} /\ s2[n + 1] = top /\ Len(s2) = n + 1
      /\ s2[c].state = outcome.state /\ s2[c].node = path
      /\ \A j \in 1 .. n : s2[j].node = s[j].node
  BY DEF Grown
<1>4. s2[n + 1].node = ChildPath(path, outcome.child)
  BY <1>3
<1> HIDE DEF kids, kids2, path
<1>5. ~IsLeaf(node)
  BY DEF EntersNext, path
<1>6. ASSUME node.type = "REF"
      PROVE  /\ s2[c].state > 0
             /\ \E j \in 1 .. Len(s2) : kids2 = {j} /\ s2[j].node = ChildPath(path, 1)
  <2>1. outcome.child = 1 /\ outcome.state = 1 /\ s[c].state = 0
    BY <1>6 DEF EntersNext, path
  <2>2. kids = {}
    BY <1>6, <2>1 DEF InOrder, Entered, kids, path
  <2>3. n + 1 \in 1 .. Len(s2)
    BY <1>1, <1>3
  <2> QED
    BY <1>3, <1>4, <2>1, <2>2, <2>3
<1>7. ASSUME node.type = "CONCAT"
      PROVE  /\ s2[c].state <= Len(node.children)
             /\ \A j \in kids2 : s2[j].node = ChildPath(path, Cardinality(kids2 \cap 1 .. j))
  <2>1. /\ s[c].state < Len(node.children) /\ outcome.child = s[c].state + 1
        /\ outcome.state = s[c].state + 1
    BY <1>7 DEF EntersNext, MayEnter, path
  <2>2. Len(node.children) \in Nat
    <3>1. node \in Nodes
      BY ParentsBelow DEF path
    <3>2. node.children \in Seq(Nodes)
      BY <3>1, SchemeAssumption
    <3> QED
      BY <3>2
  <2>3. /\ s[c].state = Cardinality(kids)
        /\ \A j \in kids : s[j].node = ChildPath(path, Cardinality(kids \cap 1 .. j))
    <3>1. Counted(s, c)
      BY DEF Derivation
    <3> QED
      BY <1>7, <3>1 DEF Counted, InOrder, Entered, kids, path
  <2>4. ASSUME NEW j \in kids
        PROVE  s2[j].node = ChildPath(path, Cardinality(kids2 \cap 1 .. j))
    <3>1. j \in 1 .. n
      BY <1>2
    <3>2. n + 1 \notin 1 .. j
      BY <1>1, <3>1
    <3>3. kids2 \cap 1 .. j = kids \cap 1 .. j
      BY <1>3, <3>2
    <3> QED
      BY <1>3, <2>3, <3>1, <3>3
  <2>5. s2[n + 1].node = ChildPath(path, Cardinality(kids2 \cap 1 .. n + 1))
    <3>1. kids2 \cap 1 .. n + 1 = kids \cup {n + 1}
      <4>1. \A j \in 1 .. n : j \in 1 .. n + 1
        BY <1>1
      <4>2. n + 1 \in 1 .. n + 1
        BY <1>1
      <4> QED
        BY <1>2, <1>3, <4>1, <4>2
    <3>2. Cardinality(kids \cup {n + 1}) = Cardinality(kids) + 1
      BY <1>2, FS_AddElement
    <3> QED
      BY <1>4, <2>1, <2>3, <3>1, <3>2
  <2>6. s2[c].state <= Len(node.children)
    BY <1>1, <1>3, <2>1, <2>2
  <2> QED
    BY <1>3, <2>4, <2>5, <2>6
<1>8. ASSUME node.type = "REPEAT"
      PROVE  \A j \in kids2 : s2[j].node = ChildPath(path, 1)
  <2>1. outcome.child = 1
    BY <1>8 DEF EntersNext, path
  <2>2. \A j \in kids : s[j].node = ChildPath(path, 1)
    BY <1>8 DEF InOrder, Entered, kids, path
  <2> QED
    BY <1>2, <1>3, <1>4, <2>1, <2>2
<1>9. ASSUME node.type \in {"OR", "OPTIONAL"}
      PROVE  \A j \in kids2 :
               \E k \in 1 .. Len(node.children) : s2[j].node = ChildPath(path, k)
  <2>1. outcome.child \in 1 .. Len(node.children)
    BY <1>9 DEF MayEnter, path
  <2>2. \A j \in kids :
          \E k \in 1 .. Len(node.children) : s[j].node = ChildPath(path, k)
    BY <1>9 DEF InOrder, Entered, kids, path
  <2> QED
    BY <1>2, <1>3, <1>4, <2>1, <2>2
<1> QED
  BY <1>3, <1>5, <1>6, <1>7, <1>8, <1>9 DEF InOrder, Entered, kids2, path

(* The stack grows by the next child of the frame that looks for one. *)
LEMMA PartialGrows ==
  ASSUME NEW T, NEW s, NEW c, Partial(T, s, c), NEW outcome,
         EntersNext(NodeAt(s[c].node), s[c].state, outcome),
         MayEnter(NodeAt(s[c].node), s[c].state, outcome), outcome.child # 0,
         NEW tok \in 0 .. T, NEW off \in Nat
  PROVE  Partial(T, Append([s EXCEPT ![c].state = outcome.state],
                           Frame(ChildPath(s[c].node, outcome.child), c, tok, off)), Len(s) + 1)
<1> DEFINE n == Len(s)
           top == Frame(ChildPath(s[c].node, outcome.child), c, tok, off)
           s2 == Append([s EXCEPT ![c].state = outcome.state], top)
<1>1. /\ Derivation(T, s) /\ c \in 1 .. n /\ Below(s, c, n) /\ ClosedComplete(s, c)
      /\ Preorder(s) /\ \A i \in 1 .. n : InOrder(s, i) /\ Tried(s, i)
  BY DEF Partial, Tree
<1>2. Derivation(T, s2)
  BY <1>1, DerivationGrows
<1>3. Grown(T, s, s2, c, outcome.state, top) /\ NodeAt(top.node) \in Nodes
  BY <1>1, Grows DEF Frame
<1>4. top.node = ChildPath(s[c].node, outcome.child) /\ top.state = 0 /\ top.parent = c
  BY DEF Frame
<1>5. /\ n \in Nat /\ c \in 1 .. n
      /\ \A i \in 1 .. n : s[i].parent \in Nat /\ s[i].parent < i
  BY <1>1, ParentsBelow
<1> HIDE DEF s2, top, n
<1>6. /\ Len(s2) = n + 1 /\ s2[n + 1] = top
      /\ \A i \in 1 .. n : /\ s2[i].node = s[i].node /\ s2[i].parent = s[i].parent
                           /\ i # c => s2[i] = s[i] /\ Kids(s2, i) = Kids(s, i)
      /\ Kids(s2, n + 1) = {} /\ Kids(s2, c) = Kids(s, c) \cup {n + 1}
  BY <1>3 DEF Grown, n
<1>7. \A i \in 1 .. n + 1 : i \in 1 .. n \/ i = n + 1
  BY <1>5
<1>8. Preorder(s2)
  <2> SUFFICES ASSUME NEW j \in 2 .. n + 1, NEW k \in s2[j].parent + 1 .. j - 1
               PROVE  s2[k].parent >= s2[j].parent
    BY <1>6 DEF Preorder, Below
  <2>1. CASE j = n + 1
    <3>1. s2[j].parent = c /\ k \in c + 1 .. n
      BY <1>4, <1>5, <1>6, <2>1
    <3>2. k \in 1 .. n /\ s[k].parent >= c
      BY <1>1, <1>5, <3>1 DEF Below, n
    <3> QED
      BY <1>6, <3>1, <3>2
  <2>2. CASE j \in 2 .. n
    <3>1. s2[j].parent = s[j].parent /\ s[j].parent \in Nat /\ j \in 2 .. Len(s)
      BY <1>5, <1>6, <2>2 DEF n
    <3>2. k \in 1 .. n /\ s[k].parent >= s[j].parent
      BY <1>1, <1>5, <2>2, <3>1 DEF Preorder, Below
    <3> QED
      BY <1>6, <3>1, <3>2
  <2> QED
    BY <1>5, <2>1, <2>2
<1>9. ASSUME NEW i \in 1 .. n, i # c
      PROVE  InOrder(s2, i) /\ Tried(s2, i) /\ (Complete(s, i) => Complete(s2, i))
  <2>1. s2[i] = s[i] /\ Kids(s2, i) = Kids(s, i)
    BY <1>6, <1>9
  <2>2. \A j \in 1 .. n : j \in 1 .. n + 1
    BY <1>5
  <2>3. Same(s, s2, i)
    BY <1>6, <2>1, <2>2 DEF Same, n
  <2>4. InOrder(s2, i)
    BY <1>1, <2>1, <2>3, InOrderStill
  <2>5. Tried(s, i)
    BY <1>1
  <2> QED
    BY <2>1, <2>4, <2>5 DEF Tried, Complete
<1>10. InOrder(s2, c)
  BY <1>1, <1>3, <1>4, InOrderGrows DEF n
<1>11. Tried(s2, c)
  BY <1>6 DEF Tried
<1>12. InOrder(s2, n + 1) /\ Tried(s2, n + 1)
  <2>1. Kids(s2, n + 1) = {} /\ s2[n + 1].state = 0 /\ NodeAt(s2[n + 1].node) \in Nodes
    BY <1>3, <1>4, <1>6
  <2> DEFINE node == NodeAt(s2[n + 1].node)
  <2>2. node.children \in Seq(Nodes) /\ (node.type = "OR" => node.children # <<>>)
    BY <2>1, SchemeAssumption
  <2> HIDE DEF node
  <2>3. Len(node.children) \in Nat /\ (node.type = "OR" => Len(node.children) > 0)
    BY <2>2
  <2>4. Tried(s2, n + 1)
    BY <2>1, <2>3 DEF Tried, node
  <2>5. node.type = "CONCAT" => 0 <= Len(node.children)
    BY <2>3
  <2> QED
    BY <2>1, <2>4, <2>5 DEF InOrder, Entered, node
<1>13. ClosedComplete(s2, n + 1)
  <2> SUFFICES ASSUME NEW i \in 1 .. n, ~Complete(s2, i)
               PROVE  i <= n + 1 /\ Below(s2, i, n + 1)
    <3>1. n + 1 <= n + 1 /\ Below(s2, n + 1, n + 1)
      BY <1>5 DEF Below
    <3> QED
      BY <1>6, <1>7, <3>1 DEF ClosedComplete
  <2>1. i <= c /\ Below(s, i, c)
    <3>1. CASE i = c
      BY <1>5, <3>1 DEF Below
    <3>2. CASE i # c
      BY <1>1, <1>9, <3>2 DEF ClosedComplete, n
    <3> QED
      BY <3>1, <3>2
  <2>2. ASSUME NEW k \in i + 1 .. n + 1
        PROVE  s2[k].parent >= i
    <3>1. CASE k = n + 1
      BY <1>4, <1>6, <2>1, <3>1
    <3>2. CASE k \in i + 1 .. c
      <4>1. k \in 1 .. n /\ s[k].parent >= i
        BY <1>5, <2>1, <3>2 DEF Below
      <4> QED
        BY <1>6, <4>1
    <3>3. CASE k \in c + 1 .. n
      <4>1. k \in 1 .. n /\ s[k].parent >= c
        BY <1>1, <1>5, <3>3 DEF Below, n
      <4>2. s2[k].parent >= i
        BY <1>5, <1>6, <2>1, <4>1
      <4> QED
        BY <4>2
    <3> QED
      BY <1>5, <3>1, <3>2, <3>3
  <2> QED
    BY <1>5, <2>2 DEF Below
<1>14. /\ n + 1 \in 1 .. Len(s2) /\ Below(s2, n + 1, Len(s2))
       /\ \A i \in 1 .. Len(s2) : InOrder(s2, i) /\ Tried(s2, i)
  BY <1>5, <1>6, <1>7, <1>9, <1>10, <1>11, <1>12 DEF Below
<1>15. Partial(T, s2, n + 1)
  BY <1>2, <1>8, <1>13, <1>14 DEF Partial, Tree
<1> QED
  BY <1>15 DEF s2, top, n

(* A frame that is left has all the children its node demands. *)
LEMMA LeftComplete ==
  ASSUME NEW T, NEW s, Derivation(T, s), NEW c \in 1 .. Len(s), InOrder(s, c), Tried(s, c),
         NEW outcome, EntersNext(NodeAt(s[c].node), s[c].state, outcome), outcome.child = 0
  PROVE  Complete(s, c)
<1> DEFINE node == NodeAt(s[c].node)
<1>1. s[c].state \in Nat /\ node \in Nodes /\ Counted(s, c)
  BY ParentsBelow DEF Derivation
<1>2. Len(node.children) \in Nat
  <2>1. node.children \in Seq(Nodes)
    BY <1>1, SchemeAssumption
  <2> QED
    BY <2>1
<1>3. node.type = "CONCAT" => Cardinality(Kids(s, c)) = Len(node.children)
  <2> SUFFICES ASSUME node.type = "CONCAT"
               PROVE  Cardinality(Kids(s, c)) = Len(node.children)
    OBVIOUS
  <2>1. s[c].state = Cardinality(Kids(s, c))
    BY <1>1 DEF Counted
  <2>2. s[c].state >= Len(node.children) /\ s[c].state <= Len(node.children)
    BY DEF EntersNext, InOrder, Entered
  <2> HIDE DEF node
  <2> QED
    BY <1>1, <1>2, <2>1, <2>2
<1>4. node.type \in {"REF", "OR"} => Kids(s, c) # {}
  <2> SUFFICES ASSUME node.type \in {"REF", "OR"}, Kids(s, c) = {}
               PROVE  FALSE
    OBVIOUS
  <2>1. /\ node.type = "REF" => s[c].state = 0 /\ s[c].state > 0
        /\ node.type = "OR" => /\ s[c].state < Len(node.children)
                               /\ s[c].state >= Len(node.children)
    BY DEF Tried, EntersNext
  <2> HIDE DEF node
  <2> QED
    BY <1>1, <1>2, <2>1
<1> QED
  BY <1>3, <1>4 DEF Complete

(* A frame without a further child is left for its parent, the first one for good. *)
LEMMA PartialLeft ==
  ASSUME NEW T, NEW s, NEW c, Partial(T, s, c), NEW outcome,
         EntersNext(NodeAt(s[c].node), s[c].state, outcome),
         MayEnter(NodeAt(s[c].node), s[c].state, outcome), outcome.child = 0,
         NEW p, p = s[c].parent
  PROVE  IF p = 0 THEN Whole(T, [s EXCEPT ![c].state = outcome.state])
         ELSE Partial(T, [s EXCEPT ![c].state = outcome.state], p)
<1> DEFINE n == Len(s)
           s2 == [s EXCEPT ![c].state = outcome.state]
<1>1. /\ Derivation(T, s) /\ c \in 1 .. n /\ Below(s, c, n) /\ ClosedComplete(s, c)
      /\ Preorder(s) /\ \A i \in 1 .. n : InOrder(s, i) /\ Tried(s, i)
  BY DEF Partial, Tree
<1>2. Derivation(T, s2)
  BY <1>1, DerivationLeft
<1>3. Restated(T, s, s2, c, outcome.state)
  BY <1>1, Restates DEF MayEnter, Derivation
<1>4. /\ n \in Nat /\ c \in 1 .. n
      /\ \A i \in 1 .. n : s[i].parent \in Nat /\ s[i].parent < i /\ (s[i].parent = 0 <=> i = 1)
  BY <1>1, ParentsBelow
<1> HIDE DEF s2, n
<1>5. /\ Len(s2) = n /\ s2[c].state = outcome.state
      /\ \A i \in 1 .. n : /\ s2[i].node = s[i].node /\ s2[i].parent = s[i].parent
                           /\ i # c => s2[i] = s[i]
                           /\ Kids(s2, i) = Kids(s, i)
  BY <1>3 DEF Restated, n
<1>6. ASSUME NEW i \in 1 .. n, NodeAt(s[i].node).type \in {"REF", "CONCAT", "OR"}
      PROVE  s2[i].state = s[i].state
  <2>1. i = c => outcome.state = s[i].state
    BY <1>6 DEF MayEnter, EntersNext
  <2> QED
    BY <1>5, <2>1
<1>7. ASSUME NEW i \in 1 .. n
      PROVE  InOrder(s2, i) /\ Tried(s2, i) /\ (Complete(s, i) => Complete(s2, i))
  <2>1. Same(s, s2, i)
    BY <1>5 DEF Same, n
  <2>2. InOrder(s2, i)
    BY <1>1, <1>6, <2>1, InOrderStill
  <2>3. Tried(s, i) /\ s2[i].node = s[i].node /\ Kids(s2, i) = Kids(s, i)
    BY <1>1, <1>5
  <2>4. Tried(s2, i)
    BY <1>6, <2>3 DEF Tried
  <2>5. Complete(s, i) => Complete(s2, i)
    BY <2>3 DEF Complete
  <2> QED
    BY <2>2, <2>4, <2>5
<1>8. Complete(s, c)
  BY <1>1, LeftComplete DEF n
<1>9. Preorder(s2)
  <2> SUFFICES ASSUME NEW j \in 2 .. n, NEW k \in s2[j].parent + 1 .. j - 1
               PROVE  s2[k].parent >= s2[j].parent
    BY <1>5 DEF Preorder, Below
  <2>1. s2[j].parent = s[j].parent /\ s[j].parent \in Nat /\ j \in 2 .. Len(s)
    BY <1>4, <1>5 DEF n
  <2>2. k \in 1 .. n /\ s[k].parent >= s[j].parent
    BY <1>1, <1>4, <2>1 DEF Preorder, Below
  <2> QED
    BY <1>5, <2>1, <2>2
<1>10. Tree(s2)
  BY <1>5, <1>7, <1>9 DEF Tree
<1>11. ASSUME NEW i \in 1 .. n, ~Complete(s, i)
       PROVE  i <= p /\ p < c /\ Below(s, i, p)
  <2>1. i <= c /\ Below(s, i, c) /\ i # c
    BY <1>1, <1>8, <1>11 DEF ClosedComplete, n
  <2>2. c \in i + 1 .. c
    BY <1>4, <2>1
  <2>3. i <= p /\ p < c /\ p \in Nat
    BY <1>4, <2>1, <2>2 DEF Below
  <2>4. \A k \in i + 1 .. p : k \in i + 1 .. c
    BY <1>4, <2>3
  <2> QED
    BY <2>1, <2>3, <2>4 DEF Below
<1>12. CASE p = 0
  <2>1. \A i \in 1 .. n : Complete(s, i)
    BY <1>4, <1>11, <1>12
  <2>2. \A i \in 1 .. Len(s2) : Complete(s2, i)
    BY <1>5, <1>7, <2>1
  <2>3. Len(s2) >= 1
    BY <1>4, <1>5
  <2>4. Whole(T, s2)
    BY <1>2, <1>10, <2>2, <2>3 DEF Whole
  <2> QED
    BY <1>12, <2>4 DEF s2
<1>13. CASE p # 0
  <2>1. p \in 1 .. n /\ p < c /\ c \in 2 .. n
    BY <1>4, <1>13
  <2>2. ASSUME NEW k \in p + 1 .. n
        PROVE  s2[k].parent >= p
    <3>1. CASE k = c
      BY <1>4, <1>5, <3>1
    <3>2. CASE k \in p + 1 .. c - 1
      <4>1. k \in 1 .. n /\ s[k].parent >= p
        BY <1>1, <1>4, <2>1, <3>2 DEF Preorder, Below, n
      <4> QED
        BY <1>5, <4>1
    <3>3. CASE k \in c + 1 .. n
      <4>1. k \in 1 .. n /\ s[k].parent >= c
        BY <1>1, <1>4, <3>3 DEF Below
      <4>2. s[k].parent >= p
        BY <1>4, <2>1, <4>1
      <4> QED
        BY <1>5, <4>1, <4>2
    <3> QED
      BY <1>4, <2>1, <3>1, <3>2, <3>3
  <2>3. Below(s2, p, Len(s2))
    BY <1>5, <2>2 DEF Below
  <2>4. ASSUME NEW i \in 1 .. n
        PROVE  (i <= p /\ Below(s2, i, p)) \/ Complete(s2, i)
    <3>1. CASE Complete(s, i)
      BY <1>7, <3>1
    <3>2. CASE ~Complete(s, i)
      <4>1. i <= p /\ Below(s, i, p)
        BY <1>11, <3>2
      <4>2. \A k \in i + 1 .. p : k \in 1 .. n
        BY <1>4, <2>1
      <4>3. Below(s2, i, p)
        BY <1>5, <4>1, <4>2 DEF Below
      <4> QED
        BY <4>1, <4>3
    <3> QED
      BY <3>1, <3>2
  <2>5. ClosedComplete(s2, p)
    BY <1>5, <2>4 DEF ClosedComplete
  <2>6. Partial(T, s2, p)
    BY <1>2, <1>5, <1>7, <1>10, <2>1, <2>3, <2>5 DEF Partial
  <2> QED
    BY <1>13, <2>6 DEF s2
<1> QED
  BY <1>12, <1>13

(* The children of a node that lost its last one are still in order. *)
LEMMA InOrderShrinks ==
  ASSUME NEW T, NEW s, Derivation(T, s), Len(s) >= 1,
         NEW p, p = s[Len(s)].parent, p \in 1 .. Len(s) - 1, InOrder(s, p), NEW state \in Nat,
         CountsBack(NodeAt(s[p].node), s[p].state, state),
         NEW rest, Shrunk(T, s, rest, p, state)
  PROVE  InOrder(rest, p)
<1> DEFINE n == Len(s)
           path == s[p].node
           node == NodeAt(path)
           kids == Kids(s, p)
           kids2 == Kids(rest, p)
<1>1. n \in Nat /\ p \in 1 .. n /\ s[p].state \in Nat /\ node \in Nodes
  BY ParentsBelow
<1>2. kids \subseteq 1 .. n /\ n \in kids
  BY <1>1 DEF Kids
<1>3. /\ kids2 = kids \ {n} /\ rest[p].state = state /\ rest[p].node = path
      /\ \A j \in 1 .. n - 1 : rest[j].node = s[j].node
  BY DEF Shrunk
<1>4. \A j \in kids2 : j \in kids /\ j \in 1 .. n - 1
  BY <1>1, <1>2, <1>3
<1> HIDE DEF kids, kids2, path
<1>5. ~IsLeaf(node)
  BY <1>2 DEF InOrder, Entered, kids, path
<1>6. node.type = "REF" => kids2 = {}
  <2>1. node.type = "REF" => kids = {} \/ \E j : kids = {j}
    BY DEF InOrder, Entered, kids, path
  <2> QED
    BY <1>2, <1>3, <2>1
<1>7. ASSUME node.type = "CONCAT"
      PROVE  /\ rest[p].state <= Len(node.children)
             /\ \A j \in kids2 : rest[j].node = ChildPath(path, Cardinality(kids2 \cap 1 .. j))
  <2>1. /\ s[p].state <= Len(node.children) /\ state = s[p].state - 1
        /\ \A j \in kids : s[j].node = ChildPath(path, Cardinality(kids \cap 1 .. j))
    BY <1>7 DEF InOrder, Entered, CountsBack, kids, path
  <2>2. Len(node.children) \in Nat
    <3>1. node.children \in Seq(Nodes)
      BY <1>1, SchemeAssumption
    <3> QED
      BY <3>1
  <2>3. ASSUME NEW j \in kids2
        PROVE  rest[j].node = ChildPath(path, Cardinality(kids2 \cap 1 .. j))
    <3>1. j \in kids /\ j \in 1 .. n - 1
      BY <1>4
    <3>2. n \notin 1 .. j
      BY <1>1, <3>1
    <3>3. kids2 \cap 1 .. j = kids \cap 1 .. j
      BY <1>3, <3>2
    <3> QED
      BY <1>3, <2>1, <3>1, <3>3
  <2>4. rest[p].state <= Len(node.children)
    BY <1>1, <1>3, <2>1, <2>2
  <2> QED
    BY <2>3, <2>4
<1>8. ASSUME node.type = "REPEAT"
      PROVE  \A j \in kids2 : rest[j].node = ChildPath(path, 1)
  <2>1. \A j \in kids : s[j].node = ChildPath(path, 1)
    BY <1>8 DEF InOrder, Entered, kids, path
  <2> QED
    BY <1>3, <1>4, <2>1
<1>9. ASSUME node.type \in {"OR", "OPTIONAL"}
      PROVE  \A j \in kids2 :
               \E k \in 1 .. Len(node.children) : rest[j].node = ChildPath(path, k)
  <2>1. \A j \in kids :
          \E k \in 1 .. Len(node.children) : s[j].node = ChildPath(path, k)
    BY <1>9 DEF InOrder, Entered, kids, path
  <2> QED
    BY <1>3, <1>4, <2>1
<1>10. kids2 = Kids(rest, p) /\ node = NodeAt(rest[p].node) /\ path = rest[p].node
  BY <1>3 DEF kids2
<1> HIDE DEF node
<1>11. Entered(rest, node, path, rest[p].state, kids2)
  BY <1>5, <1>6, <1>7, <1>8, <1>9 DEF Entered
<1> QED
  BY <1>10, <1>11 DEF InOrder

(* The only child of a frame, if it is at the top, is right above it. *)
LEMMA OnlyChild ==
  ASSUME NEW T, NEW s, Derivation(T, s), Len(s) >= 1, Preorder(s),
         NEW p, p = s[Len(s)].parent, p # 0, Kids(s, p) = {Len(s)}
  PROVE  p = Len(s) - 1
<1> DEFINE n == Len(s)
<1>1. /\ n \in Nat /\ n >= 2 /\ p \in 1 .. n - 1
      /\ \A i \in 1 .. n : s[i].parent \in Nat /\ s[i].parent < i
  BY ParentsBelow
<1>2. Below(s, p, n - 1)
  BY <1>1 DEF Preorder
<1>3. ASSUME p + 1 <= n - 1
      PROVE  FALSE
  <2>1. p + 1 \in p + 1 .. n - 1 /\ p + 1 \in 1 .. n
    BY <1>1, <1>3
  <2>2. s[p + 1].parent >= p /\ s[p + 1].parent < p + 1 /\ s[p + 1].parent \in Nat
    BY <1>1, <1>2, <2>1 DEF Below
  <2>3. s[p + 1].parent = p
    BY <1>1, <2>2
  <2>4. p + 1 \in Kids(s, p)
    BY <2>1, <2>3 DEF Kids
  <2> QED
    BY <1>1, <1>3, <2>4
<1> QED
  BY <1>1, <1>3

(***************************************************************************)
(* The top is popped: the frame below it is the next to be popped, or the  *)
(* parent of the popped one looks for another child.                       *)
(***************************************************************************)
LEMMA RejectingShrinks ==
  ASSUME NEW T, NEW s, Rejecting(T, s), NEW p, p = s[Len(s)].parent, p # 0,
         NEW outcome, outcome = Rejected(NodeAt(s[p].node), s[p].state)
  PROVE  /\ Rejecting(T, [Front(s) EXCEPT ![p].state = outcome.state])
         /\ outcome.goesOn => Partial(T, [Front(s) EXCEPT ![p].state = outcome.state], p)
<1> DEFINE n == Len(s)
           m == n - 1
           node == NodeAt(s[p].node)
           rest == [Front(s) EXCEPT ![p].state = outcome.state]
<1>1. /\ Derivation(T, s) /\ n >= 1 /\ ClosedComplete(s, n) /\ Preorder(s)
      /\ \A i \in 1 .. n : InOrder(s, i)
      /\ \A i \in 1 .. m : Tried(s, i)
  BY DEF Rejecting, Tree
<1>2. CountsBack(node, s[p].state, outcome.state)
  BY RejectedIs
<1>3. /\ outcome.state \in Nat /\ p \in 1 .. m /\ Derivation(T, rest)
  BY <1>1, <1>2, DerivationShrinks
<1>4. Shrunk(T, s, rest, p, outcome.state)
  BY <1>1, <1>3, Shrinks DEF Derivation
<1>5. /\ n \in Nat /\ n >= 2 /\ s \in Seq(Frames(T))
      /\ \A i \in 1 .. n : s[i].parent \in Nat /\ s[i].parent < i
  <2>1. p \in 1 .. Len(s) - 1 /\ Len(s) >= 1 /\ Derivation(T, s)
    BY <1>1, <1>3
  <2> HIDE DEF rest, node
  <2>2. s \in Seq(Frames(T)) /\ \A i \in 1 .. n : s[i].parent \in Nat /\ s[i].parent < i
    BY <2>1, ParentsBelow DEF Derivation
  <2> QED
    BY <2>1, <2>2
<1> HIDE DEF rest, n
<1>6. /\ Len(rest) = m /\ rest[p].state = outcome.state
      /\ \A i \in 1 .. m : /\ rest[i].node = s[i].node /\ rest[i].parent = s[i].parent
                           /\ i # p => rest[i] = s[i]
      /\ \A i : Kids(rest, i) = Kids(s, i) \ {n}
  BY <1>4 DEF Shrunk, n
<1>7. /\ m \in Nat /\ m >= 1 /\ m + 1 = n /\ \A i \in 1 .. m : i \in 1 .. n
  BY <1>5
<1>8. ASSUME NEW i \in 1 .. m, i # p
      PROVE  /\ InOrder(rest, i) /\ Tried(rest, i)
             /\ Complete(s, i) => Complete(rest, i)
  <2>1. n \notin Kids(s, i) /\ rest[i] = s[i]
    BY <1>6, <1>8 DEF Kids, n
  <2>2. Kids(rest, i) = Kids(s, i)
    BY <1>6, <2>1
  <2>3. \A j \in 1 .. n : s[j].parent = i => j \in 1 .. m
    <3>1. \A j \in 1 .. n : j = n \/ j \in 1 .. m
      BY <1>7
    <3> QED
      BY <1>8, <3>1 DEF n
  <2>4. Same(s, rest, i)
    BY <1>6, <2>1, <2>2, <2>3 DEF Same, n
  <2>5. InOrder(rest, i)
    BY <1>1, <1>7, <2>1, <2>4, InOrderStill
  <2>6. Tried(s, i)
    BY <1>1
  <2> QED
    BY <2>1, <2>2, <2>5, <2>6 DEF Tried, Complete
<1>9. InOrder(rest, p)
  BY <1>1, <1>2, <1>3, <1>4, <1>7, InOrderShrinks DEF n
<1>10. Preorder(rest)
  <2> SUFFICES ASSUME NEW j \in 2 .. m, NEW k \in rest[j].parent + 1 .. j - 1
               PROVE  rest[k].parent >= rest[j].parent
    BY <1>6 DEF Preorder, Below
  <2>1. rest[j].parent = s[j].parent /\ s[j].parent \in Nat /\ j \in 2 .. Len(s)
    BY <1>5, <1>6, <1>7 DEF n
  <2>2. k \in s[j].parent + 1 .. j - 1 /\ k \in 1 .. m
    BY <1>7, <2>1
  <2>3. s[k].parent >= s[j].parent
    BY <1>1, <2>1, <2>2 DEF Preorder, Below
  <2> QED
    BY <1>6, <2>1, <2>2, <2>3
<1>11. Tree(rest)
  BY <1>6, <1>8, <1>9, <1>10 DEF Tree
<1>12. ASSUME NEW i \in 1 .. m
       PROVE  (i <= p /\ Below(s, i, p)) \/ (i # p /\ Complete(s, i))
  <2>1. CASE i = p
    BY <1>3, <1>7, <2>1 DEF Below
  <2>2. CASE i # p /\ Below(s, i, n)
    <3>1. n \in i + 1 .. n /\ n \in 1 .. n
      BY <1>7
    <3>2. p >= i
      BY <2>2, <3>1 DEF Below, n
    <3>3. \A k \in i + 1 .. p : k \in i + 1 .. n
      BY <1>3, <1>7, <3>2
    <3> QED
      BY <1>3, <2>2, <3>2, <3>3 DEF Below
  <2>3. CASE i # p /\ ~Below(s, i, n)
    BY <1>1, <1>7, <2>3 DEF ClosedComplete, n
  <2> QED
    BY <2>1, <2>2, <2>3
<1>13. ASSUME NEW i \in 1 .. m, i <= p, Below(s, i, p)
       PROVE  Below(rest, i, p) /\ Below(rest, i, m)
  <2>1. Below(s, p, m)
    BY <1>1, <1>5, <1>7 DEF Preorder, n
  <2>2. ASSUME NEW k \in i + 1 .. m
        PROVE  rest[k].parent >= i
    <3>1. k \in 1 .. m /\ rest[k].parent = s[k].parent /\ s[k].parent \in Nat
      BY <1>5, <1>6, <1>7
    <3>2. CASE k <= p
      BY <1>3, <1>7, <1>13, <3>1, <3>2 DEF Below
    <3>3. CASE k > p
      <4>1. s[k].parent >= p
        BY <1>3, <1>7, <2>1, <3>1, <3>3 DEF Below
      <4> QED
        BY <1>3, <1>7, <1>13, <3>1, <4>1
    <3> QED
      BY <1>3, <1>7, <3>1, <3>2, <3>3
  <2>3. \A k \in i + 1 .. p : k \in i + 1 .. m
    BY <1>3, <1>7
  <2> QED
    BY <2>2, <2>3 DEF Below
<1>14. ClosedComplete(rest, m) /\ ClosedComplete(rest, p)
  BY <1>6, <1>7, <1>8, <1>12, <1>13 DEF ClosedComplete
<1>15. Below(rest, p, Len(rest))
  <2>1. Below(s, p, p) /\ p <= p
    BY <1>3, <1>7 DEF Below
  <2>2. Below(rest, p, m)
    BY <1>3, <1>13, <2>1
  <2> QED
    BY <1>6, <2>2
<1>16. Tried(rest, p) \/ (p = m /\ ~outcome.goesOn)
  <2>1. NodeAt(rest[p].node) = node
    BY <1>3, <1>6
  <2>2. CASE node.type \notin {"REF", "OR"}
    BY <2>1, <2>2 DEF Tried
  <2>3. CASE node.type \in {"REF", "OR"}
    <3>1. n \in Kids(s, p)
      BY <1>5 DEF Kids, n
    <3>2. \E j : Kids(s, p) = {j}
      <4>1. node.type = "OR" => Chosen(s, p)
        BY <1>1, <1>3, <1>7 DEF Derivation, Counted, n
      <4>2. node.type = "REF" => Kids(s, p) = {} \/ \E j : Kids(s, p) = {j}
        BY <1>1, <1>3, <1>7 DEF InOrder, Entered
      <4> QED
        BY <2>3, <3>1, <4>1, <4>2 DEF Chosen
    <3>3. Kids(s, p) = {n}
      BY <3>1, <3>2
    <3>4. p = m
      BY <1>1, <3>3, OnlyChild DEF n
    <3>5. outcome.goesOn => node.type # "REF"
                            /\ (node.type = "OR" => outcome.state < Len(node.children))
      BY RejectedGoesOn
    <3>6. outcome.goesOn => Tried(rest, p)
      BY <1>6, <2>1, <3>5 DEF Tried
    <3> QED
      BY <3>4, <3>6
  <2> QED
    BY <2>2, <2>3
<1>17. \A i \in 1 .. m - 1 : Tried(rest, i)
  <2>1. \A i \in 1 .. m - 1 : i \in 1 .. m /\ i # m
    BY <1>7
  <2> QED
    BY <1>8, <1>16, <2>1
<1>18. Rejecting(T, rest)
  BY <1>3, <1>6, <1>7, <1>11, <1>14, <1>17 DEF Rejecting
<1>19. ASSUME outcome.goesOn
       PROVE  Partial(T, rest, p)
  <2>1. \A i \in 1 .. m : Tried(rest, i)
    BY <1>8, <1>16, <1>19
  <2> QED
    BY <1>3, <1>6, <1>11, <1>14, <1>15, <2>1 DEF Partial
<1> QED
  BY <1>18, <1>19 DEF rest

-----------------------------------------------------------------------------

\* A leaf on the stack matches at its place.
Matched(i) ==
  IsLeaf(FrameNode(i)) => Matches(FrameNode(i), stack[i].token, stack[i].offset)

\* All leaves do, but for one the parser has yet to look at or to pop.
LeavesMatch ==
  /\ \A i \in 1 .. Len(stack) - 1 : Matched(i)
  /\ pc \in {"descend", "done"} => \A k \in {Len(stack)} : k >= 1 => Matched(k)

\* Each frame begins at the token at which the one before it ends.
TokensRow ==
  /\ \A i \in 1 .. Len(stack) - 1 : stack[i + 1].token = EndOfFrame(i)[1]
  /\ pc = "descend" => \A k \in {Len(stack)} : token = EndOfFrame(k)[1]
  /\ pc = "reject" => token = stack[Len(stack)].token
  /\ pc = "done" =>
       (success <=> \A k \in {Len(stack)} : k >= 1 /\ EndOfFrame(k)[1] = NULL)

\* The first frame is that of the scheme at the first token.
Rooted ==
  Len(stack) >= 1 => stack[1].node = <<Root>> /\ stack[1].token = 1 /\ stack[1].offset = 0

(***************************************************************************)
(* The stack is a part of a derivation, read from left to right: what lies *)
(* beside the path from the first frame to the one the parser looks at is  *)
(* complete.                                                               *)
(***************************************************************************)
DerivesSoFar ==
  /\ pc = "match" => /\ Partial(Len(tokens), stack, Len(stack))
                     /\ stack[Len(stack)].state = 0
  /\ pc = "descend" => Partial(Len(tokens), stack, current)
  /\ pc = "reject" => Rejecting(Len(tokens), stack)
  /\ pc = "done" /\ Len(stack) >= 1 => Whole(Len(tokens), stack)

DInv == DerivesSoFar /\ LeavesMatch /\ TokensRow /\ Rooted

(* A state a frame has already is set without effect. *)
LEMMA StateIsSet ==
  ASSUME NEW T, NEW s \in Seq(Frames(T)), NEW c \in 1 .. Len(s), s[c].state = 0
  PROVE  [s EXCEPT ![c].state = 0] = s
<1> DEFINE F == Frames(T)
           s2 == [s EXCEPT ![c].state = 0]
<1>1. s[c] \in F /\ DOMAIN s = 1 .. Len(s) /\ s = [i \in DOMAIN s |-> s[i]]
  OBVIOUS
<1>2. [s[c] EXCEPT !.state = 0] = s[c]
  BY <1>1 DEF Frames
<1>3. s2 = [i \in DOMAIN s |-> IF i = c THEN [s[c] EXCEPT !.state = 0] ELSE s[i]]
  OBVIOUS
<1> HIDE DEF s2
<1>4. s2 = [i \in DOMAIN s |-> s[i]]
  BY <1>2, <1>3
<1>5. s2 = s
  BY <1>1, <1>4
<1> QED
  BY <1>5 DEF s2

(* The first frame of a text is a part of a derivation. *)
LEMMA PartialBegins ==
  ASSUME NEW T \in Nat \ {0}
  PROVE  /\ Partial(T, FirstFrames, 1) /\ Len(FirstFrames) = 1
         /\ FirstFrames[1].state = 0 /\ FirstFrames[1].node = <<Root>>
         /\ FirstFrames[1].token = 1 /\ FirstFrames[1].offset = 0
<1> DEFINE s == FirstFrames
           node == NodeAt(s[1].node)
<1>1. Derivation(T, s) /\ Len(s) = 1
  BY FirstFrame
<1>2. /\ s[1].node = <<Root>> /\ s[1].state = 0 /\ s[1].parent = 0
      /\ s[1].token = 1 /\ s[1].offset = 0
  BY DEF FirstFrames, Frame, NULL
<1>3. node \in Nodes
  BY <1>1, ParentsBelow
<1>4. node.children \in Seq(Nodes) /\ (node.type = "OR" => node.children # <<>>)
  BY <1>3, SchemeAssumption
<1> HIDE DEF s
<1>5. Kids(s, 1) = {}
  BY <1>1, <1>2 DEF Kids
<1>6. InOrder(s, 1) /\ Tried(s, 1)
  <2> HIDE DEF node
  <2>1. 0 <= Len(node.children) /\ (node.type = "OR" => 0 < Len(node.children))
    BY <1>4
  <2> QED
    BY <1>2, <1>5, <2>1 DEF InOrder, Entered, Tried, node
<1>7. Below(s, 1, 1) /\ Preorder(s) /\ \A i \in 1 .. 1 : i = 1
  BY <1>1 DEF Below, Preorder
<1>8. Partial(T, s, 1)
  BY <1>1, <1>6, <1>7 DEF Partial, Tree, ClosedComplete
<1> QED
  BY <1>1, <1>2, <1>8 DEF s

(* Frames that stay where they are match as they did and end where they ended. *)
LEMMA PlacesStay ==
  ASSUME NEW n \in Nat, Len(stack) \in Nat, n <= Len(stack), Stays(n), LeavesMatch, TokensRow,
         Rooted
  PROVE  /\ \A i \in 1 .. n - 1 : Matched(i)' /\ stack'[i + 1].token = EndOfFrame(i)[1]'
         /\ \A i \in 1 .. n : Matched(i) => Matched(i)'
         /\ n >= 1 => stack'[1].node = <<Root>> /\ stack'[1].token = 1 /\ stack'[1].offset = 0
<1>1. ASSUME NEW i \in 1 .. n, Matched(i)
      PROVE  Matched(i)'
  <2>1. FrameNode(i)' = FrameNode(i)
    BY DEF Stays, FrameNode
  <2>2. /\ stack'[i].token = stack[i].token /\ stack'[i].offset = stack[i].offset
        /\ tokens' = tokens /\ source' = source
    BY DEF Stays
  <2> QED
    BY <1>1, <2>1, <2>2 DEF Matched, Matches, TokenType, HasText, Rest, TextAt
<1>2. ASSUME NEW i \in 1 .. n - 1
      PROVE  Matched(i)' /\ stack'[i + 1].token = EndOfFrame(i)[1]'
  <2>1. i \in 1 .. Len(stack) - 1 /\ i \in 1 .. n /\ i + 1 \in 1 .. n
    OBVIOUS
  <2>2. Matched(i) /\ stack[i + 1].token = EndOfFrame(i)[1]
    BY <2>1 DEF LeavesMatch, TokensRow
  <2>3. EndOfFrame(i)' = EndOfFrame(i)
    BY <2>1, EndsStay
  <2>4. stack'[i + 1].token = stack[i + 1].token
    BY <2>1 DEF Stays
  <2> QED
    BY <1>1, <2>1, <2>2, <2>3, <2>4
<1>3. n >= 1 => stack'[1].node = <<Root>> /\ stack'[1].token = 1 /\ stack'[1].offset = 0
  BY DEF Stays, Rooted
<1> QED
  BY <1>1, <1>2, <1>3

(* The node at the top is entered, or the leaf there matches. *)
LEMMA MatchDerives ==
  ASSUME IInv, DInv, Match
  PROVE  DInv'
<1> DEFINE T == Len(tokens)
           top == Len(stack)
<1>1. pc = "match" /\ pc' = "descend" /\ current' = top /\ UNCHANGED <<source, tokens>>
  BY DEF Match
<1>2. /\ top >= 1 /\ top \in Nat /\ top \in 1 .. top /\ stack \in Seq(Frames(T))
      /\ Partial(T, stack, top) /\ stack[top].state = 0
  BY <1>1 DEF IInv, Derivation, DInv, DerivesSoFar
<1>3. stack' = stack
  <2>1. [stack EXCEPT ![top].state = 0] = stack
    BY <1>2, StateIsSet
  <2>2. stack' = stack \/ stack' = [stack EXCEPT ![top].state = 0]
    BY DEF Match
  <2> QED
    BY <2>1, <2>2
<1>4. Stays(top)
  BY <1>1, <1>3 DEF Stays
<1>5. /\ \A i \in 1 .. top - 1 : Matched(i)' /\ stack'[i + 1].token = EndOfFrame(i)[1]'
      /\ \A i \in 1 .. top : Matched(i) => Matched(i)'
      /\ stack'[1].node = <<Root>> /\ stack'[1].token = 1 /\ stack'[1].offset = 0
  BY <1>2, <1>4, PlacesStay DEF DInv
<1>6. ASSUME NEW k \in {top}
      PROVE  Matched(k)' /\ token' = EndOfFrame(k)[1]'
  <2>1. EndOfFrame(k)' = EndOfFrame(k)
    BY <1>2, <1>4, EndsStay
  <2>2. CASE IsLeaf(FrameNode(top))
    <3>1. /\ token' = After(FrameNode(top), stack[top].token, stack[top].offset)[1]
          /\ Matches(FrameNode(top), stack[top].token, stack[top].offset)
      BY <2>2 DEF Match
    <3> QED
      BY <1>2, <1>5, <2>1, <2>2, <3>1 DEF EndOfFrame, Matched
  <2>3. CASE ~IsLeaf(FrameNode(top))
    <3>1. token' = stack[top].token
      BY <2>3 DEF Match
    <3> QED
      BY <1>2, <1>5, <2>1, <2>3, <3>1 DEF EndOfFrame, Matched
  <2> QED
    BY <2>2, <2>3
<1>7. DerivesSoFar'
  BY <1>1, <1>2, <1>3 DEF DerivesSoFar
<1>8. LeavesMatch'
  BY <1>3, <1>5, <1>6 DEF LeavesMatch
<1>9. TokensRow'
  BY <1>1, <1>3, <1>5, <1>6 DEF TokensRow
<1>10. Rooted'
  BY <1>5 DEF Rooted
<1> QED
  BY <1>7, <1>8, <1>9, <1>10 DEF DInv

(* A leaf that does not match is to be popped. *)
LEMMA MismatchDerives ==
  ASSUME IInv, DInv, Mismatch
  PROVE  DInv'
<1> DEFINE T == Len(tokens)
           top == Len(stack)
<1>1. /\ pc = "match" /\ pc' = "reject" /\ UNCHANGED <<source, tokens, stack>>
      /\ token' = stack[top].token
  BY DEF Mismatch
<1>2. top >= 1 /\ top \in Nat /\ Partial(T, stack, top)
  BY <1>1 DEF IInv, Derivation, DInv, DerivesSoFar
<1>3. Stays(top)
  BY <1>1 DEF Stays
<1>4. /\ \A i \in 1 .. top - 1 : Matched(i)' /\ stack'[i + 1].token = EndOfFrame(i)[1]'
      /\ stack'[1].node = <<Root>> /\ stack'[1].token = 1 /\ stack'[1].offset = 0
  BY <1>2, <1>3, PlacesStay DEF DInv
<1>5. Rejecting(T, stack)
  <2>1. \A i \in 1 .. top - 1 : i \in 1 .. top
    BY <1>2
  <2> QED
    BY <1>2, <2>1 DEF Partial, Rejecting
<1>6. DerivesSoFar'
  BY <1>1, <1>5 DEF DerivesSoFar
<1>7. LeavesMatch'
  BY <1>1, <1>4 DEF LeavesMatch
<1>8. TokensRow'
  BY <1>1, <1>4 DEF TokensRow
<1>9. Rooted'
  BY <1>4 DEF Rooted
<1> QED
  BY <1>6, <1>7, <1>8, <1>9 DEF DInv

(* The top is popped, down to a frame that has another way to go. *)
LEMMA RejectDerives ==
  ASSUME IInv, DInv, Reject
  PROVE  DInv'
<1> DEFINE T == Len(tokens)
           top == Len(stack)
           m == top - 1
           parent == stack[top].parent
           outcome == Rejected(FrameNode(parent), stack[parent].state)
<1>1. /\ pc = "reject" /\ current = top /\ GoesOn(parent)
      /\ UNCHANGED <<source, tokens, offset>> /\ stack' = Remaining(parent)
  BY RejectIs
<1>2. /\ Len(stack') = m /\ parent \in 0 .. m
      /\ \A i \in 1 .. m : /\ stack'[i].node = stack[i].node
                           /\ stack'[i].token = stack[i].token
                           /\ stack'[i].offset = stack[i].offset
  BY <1>1, RejectLeaves
<1>3. /\ top >= 1 /\ top \in Nat /\ m \in Nat /\ m <= top /\ Rejecting(T, stack)
      /\ token = stack[top].token
  BY <1>1 DEF IInv, Derivation, DInv, DerivesSoFar, TokensRow
<1>4. Stays(m)
  BY <1>1, <1>2 DEF Stays
<1>5. /\ \A i \in 1 .. m - 1 : Matched(i)' /\ stack'[i + 1].token = EndOfFrame(i)[1]'
      /\ \A i \in 1 .. m : Matched(i) => Matched(i)'
      /\ m >= 1 => stack'[1].node = <<Root>> /\ stack'[1].token = 1 /\ stack'[1].offset = 0
  BY <1>3, <1>4, PlacesStay DEF DInv
<1>6. parent # 0 => /\ Rejecting(T, stack')
                    /\ outcome.goesOn => Partial(T, stack', parent)
  <2> SUFFICES ASSUME parent # 0
               PROVE  /\ Rejecting(T, stack')
                      /\ outcome.goesOn => Partial(T, stack', parent)
    OBVIOUS
  <2>1. stack' = [Front(stack) EXCEPT ![parent].state = outcome.state]
    BY <1>1 DEF Remaining, NULL
  <2>2. outcome = Rejected(NodeAt(stack[parent].node), stack[parent].state)
    BY DEF FrameNode
  <2> HIDE DEF outcome
  <2> QED
    BY <1>3, <2>1, <2>2, RejectingShrinks
<1>7. parent = 0 => top = 1
  <2>1. FrameIs(top)
    <3>1. top \in 1 .. top
      BY <1>3
    <3> QED
      BY <3>1, FramesAre
  <2> QED
    BY <2>1 DEF FrameIs
<1>8. CASE stack' = <<>> /\ pc' = "done" /\ success' = (token = NULL)
  <2>1. m = 0 /\ top = 1 /\ Len(stack') = 0
    BY <1>2, <1>3, <1>8
  <2>2. token = 1
    <3>1. stack[1].token = 1
      BY <2>1 DEF DInv, Rooted
    <3> QED
      BY <1>3, <2>1, <3>1
  <2>3. ~ success'
    <3>1. token # NULL
      BY <2>2 DEF NULL
    <3> QED
      BY <1>8, <3>1
  <2>4. DerivesSoFar' /\ Rooted'
    BY <1>2, <1>8, <2>1, <2>3 DEF DerivesSoFar, Rooted
  <2>5. LeavesMatch' /\ TokensRow'
    BY <1>2, <1>8, <2>1, <2>3 DEF LeavesMatch, TokensRow
  <2> QED
    BY <2>4, <2>5 DEF DInv
<1>9. ASSUME m >= 1, pc' \in {"descend", "reject"},
             pc' = "descend" => Partial(T, stack', current') /\ token' = token,
             pc' = "reject" => Rejecting(T, stack') /\ token' = stack'[m].token
      PROVE  DInv'
  <2>1. DerivesSoFar'
    BY <1>1, <1>9 DEF DerivesSoFar
  <2>2. ASSUME NEW k \in {m}
        PROVE  Matched(k)' /\ token = EndOfFrame(k)[1]'
    <3>1. k \in 1 .. m /\ k \in 1 .. top - 1 /\ k + 1 = top
      BY <1>3, <1>9
    <3>2. Matched(k) /\ token = EndOfFrame(k)[1]
      BY <1>3, <3>1 DEF DInv, LeavesMatch, TokensRow
    <3>3. EndOfFrame(k)' = EndOfFrame(k)
      BY <1>4, <3>1, EndsStay
    <3> QED
      BY <1>5, <3>1, <3>2, <3>3
  <2>3. LeavesMatch'
    BY <1>2, <1>5, <2>2 DEF LeavesMatch
  <2>4. TokensRow'
    BY <1>2, <1>5, <1>9, <2>2 DEF TokensRow
  <2>5. Rooted'
    BY <1>5, <1>9 DEF Rooted
  <2> QED
    BY <2>1, <2>3, <2>4, <2>5 DEF DInv
<1>10. CASE parent # NULL /\ outcome.goesOn /\ pc' = "descend" /\ current' = parent
            /\ token' = token
  <2>1. m >= 1 /\ Partial(T, stack', parent)
    BY <1>2, <1>3, <1>6, <1>10 DEF NULL
  <2> QED
    BY <1>9, <1>10, <2>1
<1>11. CASE stack' # <<>> /\ pc' = pc /\ token' = Last(stack').token
  <2>1. m >= 1
    <3>1. Derivation(T, stack')
      BY <1>1, RejectLeaves
    <3>2. stack' \in Seq(Frames(T))
      BY <3>1 DEF Derivation
    <3> QED
      BY <1>2, <1>3, <1>11, <3>2
  <2>2. parent # 0
    BY <1>7, <2>1
  <2>3. token' = stack'[m].token
    BY <1>2, <1>11 DEF Last
  <2> QED
    BY <1>1, <1>6, <1>9, <1>11, <2>1, <2>2, <2>3
<1> QED
  BY <1>1, <1>8, <1>10, <1>11 DEF GoesOn

(* The frame enters its next child, or is complete. *)
LEMMA DescendDerives ==
  ASSUME IInv, DInv, Descend
  PROVE  DInv'
<1> DEFINE T == Len(tokens)
           n == Len(stack)
           c == current
           p == stack[c].parent
           outcome == NextChild(FrameNode(c), stack[c].state)
           marked == [stack EXCEPT ![c].state = outcome.state]
           child == Frame(ChildPath(stack[c].node, outcome.child), c, token, offset)
<1>1. pc = "descend" /\ UNCHANGED <<source, tokens, token, offset>>
  BY DEF Descend
<1>2. /\ c \in 1 .. n /\ n \in Nat /\ n >= 1 /\ n \in 1 .. n /\ stack \in Seq(Frames(T))
      /\ Partial(T, stack, c) /\ token \in 0 .. T /\ offset \in Nat
  BY <1>1 DEF IInv, Derivation, DInv, DerivesSoFar
<1>3. FrameIs(c)
  BY <1>2, FramesAre
<1>4. /\ MayEnter(NodeAt(stack[c].node), stack[c].state, outcome)
      /\ EntersNext(NodeAt(stack[c].node), stack[c].state, outcome)
  BY <1>3, NextChildIs, NextInOrder DEF FrameIs, FrameNode
<1>5. Restated(T, stack, marked, c, outcome.state)
  BY <1>2, <1>4, Restates DEF MayEnter
<1>6. \/ outcome.child # 0 /\ stack' = Append(marked, child) /\ pc' = "match"
      \/ /\ outcome.child = 0 /\ stack' = marked /\ current' = p
         /\ IF p = NULL THEN pc' = "done" /\ success' = (token = NULL)
            ELSE pc' = "descend"
  BY <1>1 DEF Descend, Return
<1>7. child.token = token /\ child.state = 0
  BY DEF Frame
<1>8. ASSUME NEW k \in {n}
      PROVE  Matched(k) /\ token = EndOfFrame(k)[1]
  BY <1>1, <1>2 DEF DInv, LeavesMatch, TokensRow
<1>9. outcome.child # 0 => Partial(T, Append(marked, child), n + 1)
  BY <1>2, <1>4, PartialGrows
<1>10. outcome.child = 0 => IF p = 0 THEN Whole(T, marked) ELSE Partial(T, marked, p)
  BY <1>2, <1>4, PartialLeft
<1> HIDE DEF outcome, child
<1>11. /\ marked \in Seq(Frames(T)) /\ Len(marked) = n
       /\ \A i \in 1 .. n : /\ marked[i].node = stack[i].node /\ marked[i].token = stack[i].token
                            /\ marked[i].offset = stack[i].offset
  BY <1>5 DEF Restated
<1> HIDE DEF marked
<1>12. CASE outcome.child # 0 /\ stack' = Append(marked, child) /\ pc' = "match"
  <2>1. /\ Len(stack') = n + 1 /\ stack'[n + 1] = child
        /\ \A i \in 1 .. n : stack'[i] = marked[i]
    BY <1>2, <1>11, <1>12
  <2>2. Stays(n)
    BY <1>1, <1>11, <2>1 DEF Stays
  <2>3. /\ \A i \in 1 .. n - 1 : Matched(i)' /\ stack'[i + 1].token = EndOfFrame(i)[1]'
        /\ \A i \in 1 .. n : Matched(i) => Matched(i)'
        /\ stack'[1].node = <<Root>> /\ stack'[1].token = 1 /\ stack'[1].offset = 0
    BY <1>2, <2>2, PlacesStay DEF DInv
  <2>4. ASSUME NEW i \in 1 .. n
        PROVE  Matched(i)' /\ stack'[i + 1].token = EndOfFrame(i)[1]'
    <3>1. CASE i = n
      <4>1. EndOfFrame(i)' = EndOfFrame(i)
        BY <2>2, EndsStay
      <4>2. Matched(i) /\ token = EndOfFrame(i)[1]
        BY <1>8, <3>1
      <4> QED
        BY <1>7, <2>1, <2>3, <3>1, <4>1, <4>2
    <3>2. CASE i # n
      <4>1. i \in 1 .. n - 1
        BY <1>2, <3>2
      <4> QED
        BY <2>3, <4>1
    <3> QED
      BY <3>1, <3>2
  <2>5. Len(stack') - 1 = n
    BY <1>2, <2>1
  <2>6. DerivesSoFar'
    BY <1>1, <1>7, <1>9, <1>12, <2>1 DEF DerivesSoFar
  <2>7. LeavesMatch'
    BY <1>12, <2>4, <2>5 DEF LeavesMatch
  <2>8. TokensRow'
    BY <1>12, <2>4, <2>5 DEF TokensRow
  <2>9. Rooted'
    BY <2>3 DEF Rooted
  <2> QED
    BY <2>6, <2>7, <2>8, <2>9 DEF DInv
<1>13. CASE /\ outcome.child = 0 /\ stack' = marked /\ current' = p
            /\ IF p = NULL THEN pc' = "done" /\ success' = (token = NULL)
               ELSE pc' = "descend"
  <2>1. Stays(n) /\ Len(stack') = n
    BY <1>1, <1>11, <1>13 DEF Stays
  <2>2. /\ \A i \in 1 .. n - 1 : Matched(i)' /\ stack'[i + 1].token = EndOfFrame(i)[1]'
        /\ \A i \in 1 .. n : Matched(i) => Matched(i)'
        /\ stack'[1].node = <<Root>> /\ stack'[1].token = 1 /\ stack'[1].offset = 0
    BY <1>2, <2>1, PlacesStay DEF DInv
  <2>3. ASSUME NEW k \in {n}
        PROVE  Matched(k)' /\ token = EndOfFrame(k)[1]'
    <3>1. EndOfFrame(k)' = EndOfFrame(k)
      BY <1>2, <2>1, EndsStay
    <3> QED
      BY <1>2, <1>8, <2>2, <3>1
  <2>4. DerivesSoFar'
    BY <1>1, <1>10, <1>13 DEF DerivesSoFar, NULL
  <2>5. LeavesMatch'
    BY <2>1, <2>2, <2>3 DEF LeavesMatch
  <2>6. TokensRow'
    <3>1. pc' \in {"descend", "done"} /\ token' = token
      BY <1>1, <1>13
    <3>2. pc' = "done" =>
            (success' <=> \A k \in {n} : k >= 1 /\ EndOfFrame(k)[1]' = NULL)
      <4>1. pc' = "done" => (success' <=> token = NULL)
        BY <1>13
      <4>2. \A k \in {n} : k >= 1 /\ token = EndOfFrame(k)[1]'
        BY <1>2, <2>3
      <4> QED
        BY <4>1, <4>2
    <3>3. pc' = "descend" => \A k \in {n} : token' = EndOfFrame(k)[1]'
      BY <2>3, <3>1
    <3>4. pc' # "reject"
      BY <3>1
    <3> QED
      BY <2>1, <2>2, <3>2, <3>3, <3>4 DEF TokensRow
  <2>7. Rooted'
    BY <2>2 DEF Rooted
  <2> QED
    BY <2>4, <2>5, <2>6, <2>7 DEF DInv
<1> QED
  BY <1>6, <1>12, <1>13

(* A parser that begins on a text is at the beginning of a derivation. *)
LEMMA BeginDerives ==
  ASSUME NEW text \in Sources \cup Followers,
         tokens' = Lexer!Tokens(text), tokens' # <<>>, stack' = FirstFrames,
         pc' = "match"
  PROVE  DInv'
<1>1. tokens' \in Seq(TokenSet)
  BY TextsAssumption
<1>2. Len(tokens') \in Nat \ {0}
  BY <1>1
<1>3. /\ Partial(Len(tokens'), stack', 1) /\ Len(stack') = 1
      /\ stack'[1].state = 0 /\ stack'[1].node = <<Root>>
      /\ stack'[1].token = 1 /\ stack'[1].offset = 0
  BY <1>2, PartialBegins
<1>4. DerivesSoFar' /\ Rooted'
  BY <1>3 DEF DerivesSoFar, Rooted
<1>5. LeavesMatch' /\ TokensRow'
  BY <1>3 DEF LeavesMatch, TokensRow
<1> QED
  BY <1>4, <1>5 DEF DInv

(* The first text begins a derivation. *)
LEMMA InitDerives == Init => DInv
<1> SUFFICES ASSUME NEW text \in Sources, StartOn(text)
             PROVE  DInv
  BY DEF Init
<1>1. tokens \in Seq(TokenSet) /\ tokens # <<>> /\ stack = FirstFrames /\ pc = "match"
  BY TextsAssumption DEF StartOn
<1>2. Len(tokens) \in Nat \ {0}
  BY <1>1
<1>3. /\ Partial(Len(tokens), stack, 1) /\ Len(stack) = 1
      /\ stack[1].state = 0 /\ stack[1].node = <<Root>>
      /\ stack[1].token = 1 /\ stack[1].offset = 0
  BY <1>1, <1>2, PartialBegins
<1>4. DerivesSoFar /\ Rooted
  BY <1>1, <1>3 DEF DerivesSoFar, Rooted
<1>5. LeavesMatch /\ TokensRow
  BY <1>1, <1>3 DEF LeavesMatch, TokensRow
<1> QED
  BY <1>4, <1>5 DEF DInv

(* Every step of the parser goes on with the derivation. *)
LEMMA NextDerives ==
  IInv /\ DInv /\ [Next \/ \E text \in Followers : Restart(text)]_vars => DInv'
<1> SUFFICES ASSUME IInv, DInv, [Next \/ \E text \in Followers : Restart(text)]_vars
             PROVE  DInv'
  OBVIOUS
<1>1. CASE Match
  BY <1>1, MatchDerives
<1>2. CASE Mismatch
  BY <1>2, MismatchDerives
<1>3. CASE Reject
  BY <1>3, RejectDerives
<1>4. CASE Descend
  BY <1>4, DescendDerives
<1>5. ASSUME NEW text \in Followers, Restart(text)
      PROVE  DInv'
  BY <1>5, BeginDerives DEF Restart
<1>6. CASE UNCHANGED vars
  <2>1. UNCHANGED <<source, tokens, stack, pc, current, token, offset, success>>
    BY <1>6 DEF vars, position
  <2>2. DerivesSoFar' /\ Rooted'
    BY <2>1 DEF DInv, DerivesSoFar, Rooted
  <2>3. \A i : (Matched(i)' <=> Matched(i)) /\ EndOfFrame(i)' = EndOfFrame(i)
    BY <2>1 DEF Matched, Matches, TokenType, HasText, Rest, TextAt, EndOfFrame, FrameNode,
                After, NextToken
  <2>4. LeavesMatch'
    BY <2>1, <2>3 DEF DInv, LeavesMatch
  <2>5. TokensRow'
    BY <2>1, <2>3 DEF DInv, TokensRow
  <2> QED
    BY <2>2, <2>4, <2>5 DEF DInv
<1> QED
  BY <1>1, <1>2, <1>3, <1>4, <1>5, <1>6 DEF Next

\* Frame j of d is what frame i enters for child k of its node.
IsChild(d, i, j, k) == d[j].node = ChildPath(d[i].node, k)

\* The only child of frame i is one of these.
OneOf(d, i, numbers) ==
  \E j \in Kids(d, i), k \in numbers : Kids(d, i) = {j} /\ IsChild(d, i, j, k)

\* Frame i has the children its node demands, in their order.
HasChildren(d, i) ==
  LET node == NodeAt(d[i].node)
  IN  /\ IsLeaf(node) => Kids(d, i) = {}
      /\ node.type = "REF" => OneOf(d, i, {1})
      /\ node.type = "CONCAT" =>
           /\ Cardinality(Kids(d, i)) = Len(node.children)
           /\ \A j \in Kids(d, i) : IsChild(d, i, j, Cardinality(Kids(d, i) \cap 1 .. j))
      /\ node.type = "OR" => OneOf(d, i, 1 .. Len(node.children))
      /\ node.type = "OPTIONAL" => Kids(d, i) = {} \/ OneOf(d, i, 1 .. Len(node.children))
      /\ node.type = "REPEAT" => \A j \in Kids(d, i) : IsChild(d, i, j, 1)

\* Frame i derives what its node says, from the tokens or by its children.
Derives(d, i) ==
  LET node == NodeAt(d[i].node)
  IN  HasChildren(d, i) /\ (IsLeaf(node) => Matches(node, d[i].token, d[i].offset))

(***************************************************************************)
(* What is accepted is derived: the stack is a derivation by the scheme,   *)
(* read from left to right, from the root at the first token on; every     *)
(* frame begins at the token at which the one before it ends, and the last *)
(* one ends behind the last token.                                         *)
(***************************************************************************)
AcceptedIsDerived ==
  pc = "done" /\ success =>
    /\ stack # <<>> /\ Rooted /\ Preorder(stack)
    /\ \A i \in 1 .. Len(stack) : Derives(stack, i)
    /\ \A i \in 1 .. Len(stack) - 1 : stack[i + 1].token = EndOfFrame(i)[1]
    /\ EndOfFrame(Len(stack))[1] = NULL

(* A whole stack is a derivation of every frame. *)
LEMMA WholeDerives ==
  ASSUME IInv, Whole(Len(tokens), stack), NEW i \in 1 .. Len(stack), Matched(i)
  PROVE  Derives(stack, i)
<1> DEFINE node == FrameNode(i)
           kids == Kids(stack, i)
           size == Len(node.children)
<1>1. /\ DOMAIN stack = 1 .. Len(stack) /\ InOrder(stack, i) /\ Complete(stack, i)
      /\ Counted(stack, i) /\ stack[i].state \in Nat /\ node \in Nodes
  BY ParentsBelow DEF Whole, Tree, Derivation, FrameNode
<1>2. node = NodeAt(stack[i].node) /\ kids \subseteq 1 .. Len(stack)
  BY <1>1 DEF Kids, FrameNode
<1>3. IsLeaf(node) => kids = {} /\ Matches(node, stack[i].token, stack[i].offset)
  BY <1>1, <1>2 DEF InOrder, Entered, Matched
<1>4. node.type = "REF" => OneOf(stack, i, {1})
  <2> SUFFICES ASSUME node.type = "REF"
               PROVE  OneOf(stack, i, {1})
    OBVIOUS
  <2>1. kids # {}
    BY <1>1, <1>2 DEF Complete
  <2>2. \E j \in 1 .. Len(stack) : kids = {j} /\ stack[j].node = ChildPath(stack[i].node, 1)
    BY <1>1, <1>2, <2>1 DEF InOrder, Entered
  <2> QED
    BY <2>2 DEF OneOf, IsChild
<1>5. node.type = "CONCAT" =>
        /\ Cardinality(kids) = size
        /\ \A j \in kids : IsChild(stack, i, j, Cardinality(kids \cap 1 .. j))
  BY <1>1, <1>2 DEF InOrder, Entered, Complete, IsChild
<1>6. ASSUME kids # {}, node.type \in {"OR", "OPTIONAL"}
      PROVE  OneOf(stack, i, 1 .. size)
  <2>1. \E j : kids = {j}
    BY <1>1, <1>2, <1>6 DEF Counted, Chosen
  <2>2. \A j \in kids : \E k \in 1 .. size : stack[j].node = ChildPath(stack[i].node, k)
    BY <1>1, <1>2, <1>6 DEF InOrder, Entered
  <2> HIDE DEF size
  <2> QED
    BY <2>1, <2>2 DEF OneOf, IsChild
<1>7. node.type = "OR" => kids # {}
  BY <1>1, <1>2 DEF Complete
<1>8. node.type = "REPEAT" => \A j \in kids : IsChild(stack, i, j, 1)
  BY <1>1, <1>2 DEF InOrder, Entered, IsChild
<1>9. HasChildren(stack, i)
  BY <1>2, <1>3, <1>4, <1>5, <1>6, <1>7, <1>8 DEF HasChildren
<1> QED
  BY <1>2, <1>3, <1>9 DEF Derives

(***************************************************************************)
(* Whatever ketl_bnf_parse accepts, whichever alternatives it tried before *)
(* and whatever it took back, is derived by the scheme: no child is        *)
(* forgotten or entered twice, no leaf is left that does not match, and no *)
(* token is skipped, used twice or left over.                              *)
(***************************************************************************)
THEOREM AcceptsOnlyDerivations == Parsing => []AcceptedIsDerived
<1>1. ASSUME IInv, DInv, pc = "done", success
      PROVE  /\ stack # <<>> /\ Rooted /\ Preorder(stack)
             /\ \A i \in 1 .. Len(stack) : Derives(stack, i)
             /\ \A i \in 1 .. Len(stack) - 1 : stack[i + 1].token = EndOfFrame(i)[1]
             /\ EndOfFrame(Len(stack))[1] = NULL
  <2>0. Len(stack) >= 1
    BY <1>1 DEF DInv, TokensRow
  <2>1. Whole(Len(tokens), stack) /\ Rooted
    BY <1>1, <2>0 DEF DInv, DerivesSoFar
  <2>2. Len(stack) \in Nat /\ Len(stack) >= 1 /\ stack # <<>> /\ Preorder(stack)
    BY <2>1 DEF Whole, Tree, Derivation
  <2>3. ASSUME NEW i \in 1 .. Len(stack)
        PROVE  Derives(stack, i)
    <3>1. i \in 1 .. Len(stack) - 1 \/ i = Len(stack)
      BY <2>2
    <3>2. Matched(i)
      BY <1>1, <2>2, <3>1 DEF DInv, LeavesMatch
    <3> QED
      BY <1>1, <2>1, <3>2, WholeDerives
  <2>4. /\ \A i \in 1 .. Len(stack) - 1 : stack[i + 1].token = EndOfFrame(i)[1]
        /\ EndOfFrame(Len(stack))[1] = NULL
    BY <1>1 DEF DInv, TokensRow
  <2> QED
    BY <2>1, <2>2, <2>3, <2>4
<1>2. IInv /\ DInv => AcceptedIsDerived
  BY <1>1 DEF AcceptedIsDerived
<1> QED
  BY <1>2, InitDerives, NextDerives, ParserInvariant, PTL DEF Parsing

-----------------------------------------------------------------------------

\* The position behind frame i of a derivation, as EndOfFrame says it of the stack.
Ended(d, i) ==
  LET node == NodeAt(d[i].node)
  IN  IF IsLeaf(node) THEN After(node, d[i].token, d[i].offset) ELSE <<d[i].token, d[i].offset>>

\* A tree of frames, in which all children are there that the nodes demand.
Shape(T, d) ==
  /\ d \in Seq(Frames(T)) /\ Len(d) >= 1 /\ Preorder(d)
  /\ \A i \in 1 .. Len(d) : /\ d[i].parent < i /\ (d[i].parent = 0 <=> i = 1)
                            /\ HasChildren(d, i)

\* A derivation of some of the first tokens by the scheme.
Beginning(d) ==
  /\ Shape(Len(tokens), d)
  /\ d[1].node = <<Root>> /\ d[1].token = 1 /\ d[1].offset = 0
  /\ \A i \in 1 .. Len(d) : Derives(d, i)
  /\ \A i \in 1 .. Len(d) - 1 : <<d[i + 1].token, d[i + 1].offset>> = Ended(d, i)

\* The first k frames of both are the same nodes at the same places.
Agree(d, s, k) ==
  /\ k <= Len(d) /\ k <= Len(s)
  /\ \A i \in 1 .. k : /\ d[i].node = s[i].node /\ d[i].parent = s[i].parent
                       /\ d[i].token = s[i].token /\ d[i].offset = s[i].offset

\* The frame that the one behind frame k is a child of, 0 if there is none.
NextParent(d, k) == IF k < Len(d) THEN d[k + 1].parent ELSE 0

\* A node that has one of its children.
IsChoice(path) == NodeAt(path).type \in {"OR", "OPTIONAL"}

(***************************************************************************)
(* s is preferred to d at its frame k: where s has one more child of some  *)
(* node d has none, or one the node names later.                           *)
(***************************************************************************)
Later(d, s, k) ==
  LET q == s[k + 1].parent
  IN  /\ Agree(d, s, k)
      /\ \/ NextParent(d, k) < q
         \/ /\ NextParent(d, k) = q /\ IsChoice(s[q].node)
            /\ \E j, m \in Nat : j > m /\ IsChild(d, q, k + 1, j) /\ IsChild(s, q, k + 1, m)

Preferred(d, s) == \E k \in 1 .. Len(s) - 1 : Later(d, s, k)

(***************************************************************************)
(* d goes on where frame c of s looks for its next child, with a child     *)
(* that c has yet to try, or with one of a frame below c.                  *)
(***************************************************************************)
Ahead(d, s, c) ==
  LET n == Len(s)
      node == NodeAt(s[c].node)
  IN  /\ Agree(d, s, n) /\ NextParent(d, n) <= c
      /\ NextParent(d, n) = c =>
           /\ IsChoice(s[c].node) =>
                /\ s[c].state < Len(node.children)
                /\ \E j \in 1 .. Len(node.children) :
                     j > s[c].state /\ IsChild(d, c, n + 1, j)
           /\ node.type = "REPEAT" => s[c].state # 1

\* Every derivation of a beginning of the text is still to come.
Waits(d) ==
  /\ pc = "match" => Preferred(d, stack) \/ Agree(d, stack, Len(stack))
  /\ pc = "descend" => Preferred(d, stack) \/ Ahead(d, stack, current)
  /\ pc = "reject" => Preferred(d, stack)
  /\ pc = "done" => /\ stack # <<>>
                    /\ Preferred(d, stack) \/ (Agree(d, stack, Len(stack)) /\ Len(d) = Len(stack))

AllWait == \A d \in Seq(Frames(Len(tokens))) : Beginning(d) => Waits(d)

\* The state of a repetition lasts from the rejection of its child to its end.
RepeatsReset ==
  \A i \in 1 .. Len(stack) :
    FrameNode(i).type = "REPEAT" =>
      stack[i].state = 0 \/ (stack[i].state = 1 /\ pc = "descend" /\ i = current)

(***************************************************************************)
(* Behind ketl_bnf_parse, the stack is the first of the derivations of a   *)
(* beginning of the text, and empty if there is none; the text is accepted *)
(* if this one ends behind its last token.                                 *)
(***************************************************************************)
FirstFound ==
  pc = "done" =>
    IF stack = <<>> THEN ~success /\ \A d \in Seq(Frames(Len(tokens))) : ~Beginning(d)
    ELSE /\ Beginning(stack)
         /\ success <=> Ended(stack, Len(stack))[1] = NULL
         /\ \A d \in Seq(Frames(Len(tokens))) :
              Beginning(d) =>
                Preferred(d, stack) \/ (Agree(d, stack, Len(stack)) /\ Len(d) = Len(stack))

-----------------------------------------------------------------------------

(* Where the frames of a shape have their parents. *)
LEMMA ShapeIs ==
  ASSUME NEW T, NEW d, Shape(T, d)
  PROVE  /\ Len(d) \in Nat /\ Len(d) >= 1 /\ Preorder(d)
         /\ \A i \in 1 .. Len(d) :
              /\ d[i].parent \in Nat /\ d[i].parent < i /\ (d[i].parent = 0 <=> i = 1)
              /\ d[i].node \in Names /\ HasChildren(d, i)
<1>1. d \in Seq(Frames(T)) /\ Len(d) \in Nat
  BY DEF Shape
<1>2. \A i \in 1 .. Len(d) : d[i] \in Frames(T)
  BY <1>1
<1>3. \A i \in 1 .. Len(d) : d[i].parent \in Nat /\ d[i].node \in Names
  BY <1>2 DEF Frames
<1> QED
  BY <1>1, <1>3 DEF Shape

(* The next frame is a child of one that is there, unless there is no next one. *)
LEMMA NextParentIs ==
  ASSUME NEW T, NEW d, Shape(T, d), NEW k \in 1 .. Len(d)
  PROVE  /\ NextParent(d, k) \in 0 .. k /\ (NextParent(d, k) = 0 <=> k = Len(d))
         /\ NextParent(d, k) # 0 =>
              k + 1 \in 1 .. Len(d) /\ k + 1 \in Kids(d, NextParent(d, k))
<1>1. /\ Len(d) \in Nat
      /\ \A i \in 1 .. Len(d) :
           d[i].parent \in Nat /\ d[i].parent < i /\ (d[i].parent = 0 <=> i = 1)
  BY ShapeIs
<1>2. CASE k = Len(d)
  BY <1>1, <1>2 DEF NextParent
<1>3. CASE k < Len(d)
  <2>1. k + 1 \in 1 .. Len(d) /\ k + 1 # 1 /\ NextParent(d, k) = d[k + 1].parent
    BY <1>1, <1>3 DEF NextParent
  <2> QED
    BY <1>1, <1>3, <2>1 DEF Kids
<1> QED
  BY <1>1, <1>2, <1>3

(* A frame that the next one is not below has all its children already. *)
LEMMA KidsClosed ==
  ASSUME NEW T, NEW d, Shape(T, d), NEW k \in 1 .. Len(d), NEW q \in 1 .. k,
         NextParent(d, k) < q
  PROVE  Kids(d, q) \subseteq 1 .. k
<1> SUFFICES ASSUME NEW j \in 1 .. Len(d), d[j].parent = q, j > k
             PROVE  FALSE
  BY ShapeIs DEF Kids
<1>1. /\ Len(d) \in Nat /\ Preorder(d) /\ k + 1 \in 1 .. Len(d) /\ j \in 2 .. Len(d)
      /\ \A i \in 1 .. Len(d) : d[i].parent \in Nat
  BY ShapeIs
<1>2. NextParent(d, k) = d[k + 1].parent
  BY <1>1 DEF NextParent
<1>3. Below(d, q, j - 1)
  BY <1>1 DEF Preorder
<1>4. j # k + 1
  BY <1>1, <1>2
<1>5. k + 1 \in q + 1 .. j - 1
  BY <1>1, <1>4
<1>6. d[k + 1].parent >= q
  BY <1>3, <1>5 DEF Below
<1> QED
  BY <1>1, <1>2, <1>6

(* The next frame is below the frame where it is a child, and not above its parent. *)
LEMMA NextBelow ==
  ASSUME NEW T, NEW d, Shape(T, d), NEW k \in 1 .. Len(d), NEW c \in 1 .. k,
         NextParent(d, k) < c
  PROVE  NextParent(d, k) <= d[c].parent
<1>1. /\ Len(d) \in Nat /\ Preorder(d) /\ c \in 1 .. Len(d)
      /\ \A i \in 1 .. Len(d) : d[i].parent \in Nat
  BY ShapeIs
<1>2. CASE k = Len(d)
  BY <1>1, <1>2 DEF NextParent
<1>3. CASE k < Len(d)
  <2>1. k + 1 \in 2 .. Len(d) /\ k + 1 \in 1 .. Len(d) /\ NextParent(d, k) = d[k + 1].parent
    BY <1>1, <1>3 DEF NextParent
  <2>2. Below(d, d[k + 1].parent, k)
    BY <1>1, <2>1 DEF Preorder
  <2>3. c \in d[k + 1].parent + 1 .. k
    BY <1>1, <2>1
  <2> QED
    BY <2>1, <2>2, <2>3 DEF Below
<1> QED
  BY <1>1, <1>2, <1>3

(* Sequences that agree give a frame the same children. *)
LEMMA SameKids ==
  ASSUME NEW d, NEW s, NEW k \in Nat, Agree(d, s, k), Len(d) \in Nat, Len(s) \in Nat, NEW q
  PROVE  Kids(d, q) \cap 1 .. k = Kids(s, q) \cap 1 .. k
<1>1. \A j \in 1 .. k : j \in 1 .. Len(d) /\ j \in 1 .. Len(s) /\ d[j].parent = s[j].parent
  BY DEF Agree
<1> QED
  BY <1>1 DEF Kids

(* The name of a child of a choice tells its number. *)
LEMMA ChoiceNumbered ==
  ASSUME NEW path \in Names, IsChoice(path), NEW j \in Nat, NEW m \in Nat,
         ChildPath(path, j) = ChildPath(path, m)
  PROVE  j = m
<1>1. Append(path, j) = Append(path, m)
  BY DEF ChildPath, IsChoice
<1>2. path \in Seq(Steps) /\ Len(path) \in Nat /\ j \in Steps /\ m \in Steps
  BY DEF Names, Steps
<1>3. Append(path, j)[Len(path) + 1] = j /\ Append(path, m)[Len(path) + 1] = m
  BY <1>2
<1> QED
  BY <1>1, <1>3

(* A reference and a choice have one child only. *)
LEMMA OneChild ==
  ASSUME NEW d, NEW i, HasChildren(d, i),
         NodeAt(d[i].node).type \in {"REF", "OR", "OPTIONAL"},
         NEW x \in Kids(d, i), NEW y \in Kids(d, i)
  PROVE  x = y
BY DEF HasChildren, OneOf

(* The child of a choice is one that its node has. *)
LEMMA ChoiceChild ==
  ASSUME NEW d, NEW i, HasChildren(d, i), IsChoice(d[i].node), NEW x \in Kids(d, i)
  PROVE  \E k \in 1 .. Len(NodeAt(d[i].node).children) : IsChild(d, i, x, k)
BY DEF HasChildren, OneOf, IsChoice

(* A step behind which s is preferred to d is not one that d takes as s does. *)
LEMMA LaterDiffers ==
  ASSUME NEW T, NEW d, NEW s, Shape(T, d), Shape(T, s), NEW k \in 1 .. Len(s) - 1,
         Later(d, s, k)
  PROVE  /\ ~Agree(d, s, k + 1)
         /\ ~(k < Len(d) /\ Later(s, d, k))
<1> DEFINE q == s[k + 1].parent
<1>1. /\ Len(s) \in Nat /\ Len(d) \in Nat /\ k \in Nat /\ k + 1 \in 1 .. Len(s) /\ k + 1 # 1
      /\ k + 1 \in 1 .. k + 1
  BY ShapeIs
<1>2. q \in 1 .. k /\ q \in 1 .. Len(s)
  BY <1>1, ShapeIs
<1>3. s[q].node \in Names /\ d[q].node = s[q].node
  <2>1. Agree(d, s, k)
    BY DEF Later
  <2> QED
    BY <1>2, <2>1, ShapeIs DEF Agree
<1>4. ASSUME k < Len(d), d[k + 1].parent = q, IsChoice(s[q].node),
             NEW j \in Nat, NEW m \in Nat, IsChild(d, q, k + 1, j), IsChild(d, q, k + 1, m)
      PROVE  j = m
  BY <1>3, <1>4, ChoiceNumbered DEF IsChild
<1>5. ASSUME IsChoice(s[q].node),
             NEW j \in Nat, NEW m \in Nat, IsChild(s, q, k + 1, j), IsChild(s, q, k + 1, m)
      PROVE  j = m
  BY <1>3, <1>5, ChoiceNumbered DEF IsChild
<1>6. ASSUME Agree(d, s, k + 1)
      PROVE  FALSE
  <2>1. /\ k < Len(d) /\ d[k + 1].parent = q /\ d[k + 1].node = s[k + 1].node
    BY <1>1, <1>6 DEF Agree
  <2>2. NextParent(d, k) = q
    BY <2>1 DEF NextParent
  <2>3. /\ IsChoice(s[q].node)
        /\ \E j, m \in Nat : j > m /\ IsChild(d, q, k + 1, j) /\ IsChild(s, q, k + 1, m)
    BY <1>2, <2>2 DEF Later
  <2>4. PICK j \in Nat, m \in Nat : j > m /\ IsChild(d, q, k + 1, j) /\ IsChild(s, q, k + 1, m)
    BY <2>3
  <2>5. IsChild(d, q, k + 1, m)
    BY <1>3, <2>1, <2>4 DEF IsChild
  <2>6. j = m
    BY <1>4, <2>1, <2>3, <2>4, <2>5
  <2> QED
    BY <2>4, <2>6
<1>7. ASSUME k < Len(d), Later(s, d, k)
      PROVE  FALSE
  <2>1. k + 1 \in 1 .. Len(d)
    BY <1>1, <1>7
  <2>2. NextParent(d, k) = d[k + 1].parent /\ NextParent(s, k) = q /\ d[k + 1].parent \in Nat
    BY <1>1, <1>7, <2>1, ShapeIs DEF NextParent
  <2>3. NextParent(d, k) <= q /\ q <= d[k + 1].parent
    BY <1>2, <2>2, <1>7 DEF Later
  <2>4. d[k + 1].parent = q
    BY <1>2, <2>2, <2>3
  <2>5. /\ IsChoice(s[q].node)
        /\ \E j, m \in Nat : j > m /\ IsChild(d, q, k + 1, j) /\ IsChild(s, q, k + 1, m)
    BY <1>2, <2>2, <2>4 DEF Later
  <2>6. \E j, m \in Nat : j > m /\ IsChild(s, q, k + 1, j) /\ IsChild(d, q, k + 1, m)
    BY <1>2, <1>7, <2>2, <2>4 DEF Later
  <2>7. PICK j \in Nat, m \in Nat : j > m /\ IsChild(d, q, k + 1, j) /\ IsChild(s, q, k + 1, m)
    BY <2>5
  <2>8. PICK j2 \in Nat, m2 \in Nat :
          j2 > m2 /\ IsChild(s, q, k + 1, j2) /\ IsChild(d, q, k + 1, m2)
    BY <2>6
  <2>9. j = m2 /\ m = j2
    BY <1>4, <1>5, <1>7, <2>4, <2>5, <2>7, <2>8
  <2> QED
    BY <2>7, <2>8, <2>9
<1> QED
  BY <1>6, <1>7

(* Of two derivations one at most is preferred to the other, and none to itself. *)
LEMMA PreferenceIsStrict ==
  ASSUME NEW T, NEW d, NEW s, Shape(T, d), Shape(T, s), Preferred(d, s), Preferred(s, d)
  PROVE  FALSE
<1>1. Len(s) \in Nat /\ Len(d) \in Nat
  BY ShapeIs
<1>2. PICK k \in 1 .. Len(s) - 1 : Later(d, s, k)
  BY DEF Preferred
<1>3. PICK l \in 1 .. Len(d) - 1 : Later(s, d, l)
  BY DEF Preferred
<1>4. k \in Nat /\ l \in Nat /\ Agree(d, s, k) /\ Agree(s, d, l)
  BY <1>1, <1>2, <1>3 DEF Later
<1>5. CASE k < l
  <2>1. /\ k + 1 <= Len(d) /\ k + 1 <= Len(s) /\ \A i \in 1 .. k + 1 : i \in 1 .. l
    BY <1>1, <1>2, <1>3, <1>4, <1>5 DEF Agree
  <2>2. Agree(d, s, k + 1)
    BY <1>4, <2>1 DEF Agree
  <2> QED
    BY <1>2, <2>2, LaterDiffers
<1>6. CASE l < k
  <2>1. /\ l + 1 <= Len(d) /\ l + 1 <= Len(s) /\ \A i \in 1 .. l + 1 : i \in 1 .. k
    BY <1>1, <1>2, <1>3, <1>4, <1>6 DEF Agree
  <2>2. Agree(s, d, l + 1)
    BY <1>4, <2>1 DEF Agree
  <2> QED
    BY <1>3, <2>2, LaterDiffers
<1>7. CASE k = l
  <2>1. k < Len(d) /\ Later(s, d, k)
    BY <1>1, <1>3, <1>4, <1>7
  <2> QED
    BY <1>2, <2>1, LaterDiffers
<1> QED
  BY <1>4, <1>5, <1>6, <1>7

-----------------------------------------------------------------------------

\* When nextChild leaves a choice and a repetition.
TakesTurn(node, state, outcome) ==
  /\ IsLeaf(node) => outcome.child = 0
  /\ node.type \in {"OR", "OPTIONAL"} =>
       (outcome.child = 0 => state >= Len(node.children))
  /\ node.type = "REPEAT" =>
       IF outcome.child = 0 THEN state = 1 /\ outcome.state = 0
       ELSE state # 1 /\ outcome.state = state

(* A choice is left behind its last child, a repetition behind the child that failed. *)
LEMMA NextTurn ==
  ASSUME NEW node \in Nodes, NEW state \in Nat
  PROVE  TakesTurn(node, state, NextChild(node, state))
<1> DEFINE size == Len(node.children)
<1>0. size \in Nat
  <2>1. node.children \in Seq(Nodes)
    BY SchemeAssumption
  <2> QED
    BY <2>1
<1> HIDE DEF size
<1> USE DEF Enter, Leave, IsLeaf
<1>1. CASE node.type \in {"OR", "OPTIONAL"}
  BY <1>0, <1>1 DEF NextChild, TakesTurn, size
<1>2. CASE node.type = "REPEAT"
  BY <1>2 DEF NextChild, NextOfRepeat, TakesTurn
<1>3. CASE node.type \in {"REF", "CONCAT"}
  BY <1>3 DEF TakesTurn
<1>4. CASE node.type \notin {"REF", "CONCAT", "OR", "OPTIONAL", "REPEAT"}
  BY <1>4 DEF NextChild, TakesTurn
<1> QED
  BY <1>1, <1>2, <1>3, <1>4

\* A derivation is ahead of frame c of the stack s, which looks for its next child.
Facing(T, d, s, c, outcome) ==
  /\ Shape(T, d) /\ Derivation(T, s) /\ Tree(s) /\ Tried(s, c) /\ c \in 1 .. Len(s)
  /\ Ahead(d, s, c)
  /\ LET node == NodeAt(s[c].node)
         state == s[c].state
     IN  /\ MayEnter(node, state, outcome) /\ EntersNext(node, state, outcome)
         /\ TakesTurn(node, state, outcome)

(* Facts about both that the lemmas below need. *)
LEMMA FacingIs ==
  ASSUME NEW T, NEW d, NEW s, NEW c, NEW outcome, Facing(T, d, s, c, outcome)
  PROVE  LET n == Len(s)
             node == NodeAt(s[c].node)
         IN  /\ n \in Nat /\ n >= 1 /\ c \in 1 .. n /\ c \in 1 .. Len(d)
             /\ Len(d) \in Nat /\ n \in 1 .. Len(d)
             /\ Agree(d, s, n) /\ d[c].node = s[c].node /\ d[c].parent = s[c].parent
             /\ node \in Nodes /\ s[c].state \in Nat /\ Len(node.children) \in Nat
             /\ HasChildren(d, c) /\ InOrder(s, c) /\ Tried(s, c) /\ Counted(s, c)
             /\ NextParent(d, n) \in 0 .. n
             /\ NextParent(d, n) = c => n + 1 \in Kids(d, c)
             /\ Kids(d, c) \cap 1 .. n = Kids(s, c)
             /\ IsFiniteSet(Kids(s, c)) /\ n + 1 \notin Kids(s, c)
             /\ node.type \in {"ID", "NUMBER", "STRING", "CONSTANT",
                               "REF", "CONCAT", "OR", "OPTIONAL", "REPEAT"}
<1> DEFINE n == Len(s)
           node == NodeAt(s[c].node)
<1>1. /\ Shape(T, d) /\ Derivation(T, s) /\ Tree(s) /\ Tried(s, c) /\ c \in 1 .. n
      /\ Ahead(d, s, c)
  BY DEF Facing
<1>2. /\ n \in Nat /\ n >= 1 /\ node \in Nodes /\ s[c].state \in Nat /\ Counted(s, c)
      /\ InOrder(s, c)
  BY <1>1, ParentsBelow DEF Tree, Derivation
<1>3. Agree(d, s, n) /\ Len(d) \in Nat
  BY <1>1, ShapeIs DEF Ahead
<1>4. c \in 1 .. Len(d) /\ n \in 1 .. Len(d) /\ d[c].node = s[c].node /\ d[c].parent = s[c].parent
  BY <1>1, <1>2, <1>3 DEF Agree
<1>5. HasChildren(d, c)
  BY <1>1, <1>4, ShapeIs
<1>6. NextParent(d, n) \in 0 .. n /\ (NextParent(d, n) = c => n + 1 \in Kids(d, c))
  BY <1>1, <1>4, NextParentIs
<1>7. /\ Kids(d, c) \cap 1 .. n = Kids(s, c)
      /\ IsFiniteSet(Kids(s, c)) /\ n + 1 \notin Kids(s, c)
  <2>1. Kids(d, c) \cap 1 .. n = Kids(s, c) \cap 1 .. n
    BY <1>2, <1>3, SameKids
  <2>2. IsFiniteSet(Kids(s, c)) /\ Kids(s, c) \subseteq 1 .. n /\ n + 1 \notin 1 .. n
    BY <1>2, KidsFinite
  <2> QED
    BY <2>1, <2>2
<1>8. /\ node.type \in {"ID", "NUMBER", "STRING", "CONSTANT",
                        "REF", "CONCAT", "OR", "OPTIONAL", "REPEAT"}
      /\ Len(node.children) \in Nat
  <2>1. node.children \in Seq(Nodes)
    BY <1>2, SchemeAssumption
  <2> HIDE DEF node
  <2> QED
    BY <1>2, <2>1, SchemeAssumption
<1> QED
  BY <1>1, <1>2, <1>3, <1>4, <1>5, <1>6, <1>7, <1>8

(* Where the derivation has a child of frame c next, it is the one that is entered or later. *)
LEMMA FacesChild ==
  ASSUME NEW T, NEW d, NEW s, NEW c, NEW outcome, Facing(T, d, s, c, outcome),
         outcome.child # 0, NextParent(d, Len(s)) = c
  PROVE  \/ IsChild(d, c, Len(s) + 1, outcome.child)
         \/ /\ IsChoice(s[c].node)
            /\ \E j \in Nat : j > outcome.child /\ IsChild(d, c, Len(s) + 1, j)
<1> DEFINE n == Len(s)
           node == NodeAt(s[c].node)
           kids == Kids(s, c)
<1>1. /\ n \in Nat /\ n >= 1 /\ d[c].node = s[c].node /\ s[c].state \in Nat
      /\ HasChildren(d, c) /\ Counted(s, c)
      /\ n + 1 \in Kids(d, c) /\ Kids(d, c) \cap 1 .. n = kids
      /\ IsFiniteSet(kids) /\ n + 1 \notin kids
      /\ node.type \in {"ID", "NUMBER", "STRING", "CONSTANT",
                        "REF", "CONCAT", "OR", "OPTIONAL", "REPEAT"}
  BY FacingIs
<1>2. /\ MayEnter(node, s[c].state, outcome) /\ EntersNext(node, s[c].state, outcome)
      /\ TakesTurn(node, s[c].state, outcome)
  BY DEF Facing
<1>3. CASE node.type = "REF"
  <2>1. outcome.child = 1
    BY <1>2, <1>3 DEF EntersNext
  <2>2. OneOf(d, c, {1})
    BY <1>1, <1>3 DEF HasChildren
  <2>3. IsChild(d, c, n + 1, 1)
    BY <1>1, <2>2 DEF OneOf
  <2> QED
    BY <2>1, <2>3
<1>4. CASE node.type = "CONCAT"
  <2>1. outcome.child = s[c].state + 1 /\ s[c].state = Cardinality(kids)
    BY <1>1, <1>2, <1>4 DEF EntersNext, Counted
  <2>2. IsChild(d, c, n + 1, Cardinality(Kids(d, c) \cap 1 .. n + 1))
    BY <1>1, <1>4 DEF HasChildren
  <2>3. Kids(d, c) \cap 1 .. n + 1 = kids \cup {n + 1}
    <3>1. 1 .. n + 1 = (1 .. n) \cup {n + 1}
      BY <1>1
    <3> QED
      BY <1>1, <3>1
  <2>4. Cardinality(kids \cup {n + 1}) = Cardinality(kids) + 1
    BY <1>1, FS_AddElement
  <2> QED
    BY <2>1, <2>2, <2>3, <2>4
<1>5. CASE node.type \in {"OR", "OPTIONAL"}
  <2>1. outcome.child = s[c].state + 1
    BY <1>2, <1>5 DEF MayEnter
  <2>2. IsChoice(s[c].node) /\ Ahead(d, s, c)
    BY <1>5 DEF IsChoice, Facing
  <2>3. \E j \in 1 .. Len(node.children) : j > s[c].state /\ IsChild(d, c, n + 1, j)
    BY <2>2 DEF Ahead
  <2>4. PICK j \in 1 .. Len(node.children) : j > s[c].state /\ IsChild(d, c, n + 1, j)
    BY <2>3
  <2>5. j = outcome.child \/ j > outcome.child
    BY <1>1, <2>1, <2>4
  <2> QED
    BY <2>2, <2>4, <2>5
<1>6. CASE node.type = "REPEAT"
  <2>1. outcome.child = 1
    BY <1>2, <1>6 DEF EntersNext
  <2>2. IsChild(d, c, n + 1, 1)
    BY <1>1, <1>6 DEF HasChildren
  <2> QED
    BY <2>1, <2>2
<1>7. CASE node.type \in {"ID", "NUMBER", "STRING", "CONSTANT"}
  BY <1>2, <1>7 DEF TakesTurn, IsLeaf
<1> QED
  BY <1>1, <1>3, <1>4, <1>5, <1>6, <1>7

\* s2 has the frames of s, but for their states, and one for child number k of frame c.
Entering(s, s2, c, k, t, off) ==
  /\ Len(s2) = Len(s) + 1
  /\ \A i \in 1 .. Len(s) : /\ s2[i].node = s[i].node /\ s2[i].parent = s[i].parent
                            /\ s2[i].token = s[i].token /\ s2[i].offset = s[i].offset
  /\ s2[Len(s) + 1].node = ChildPath(s[c].node, k) /\ s2[Len(s) + 1].parent = c
  /\ s2[Len(s) + 1].token = t /\ s2[Len(s) + 1].offset = off

(* The child is entered: the derivation has it too, or goes on later. *)
LEMMA FacingEnters ==
  ASSUME NEW T, NEW d, NEW s, NEW c, NEW outcome, Facing(T, d, s, c, outcome),
         outcome.child # 0, NEW t, NEW off, NEW s2, Entering(s, s2, c, outcome.child, t, off),
         Len(s) < Len(d) => d[Len(s) + 1].token = t /\ d[Len(s) + 1].offset = off
  PROVE  Preferred(d, s2) \/ Agree(d, s2, Len(s2))
<1> DEFINE n == Len(s)
<1>1. /\ n \in Nat /\ n >= 1 /\ c \in 1 .. n /\ Len(d) \in Nat /\ n \in 1 .. Len(d)
      /\ Agree(d, s, n) /\ d[c].node = s[c].node
      /\ NextParent(d, n) \in 0 .. n /\ (NextParent(d, n) = c => n + 1 \in Kids(d, c))
  BY FacingIs
<1>2. NextParent(d, n) <= c /\ outcome.child \in Nat
  BY DEF Facing, Ahead, MayEnter
<1>3. /\ Len(s2) = n + 1 /\ n \in 1 .. Len(s2) - 1 /\ s2[n + 1].parent = c
      /\ s2[n + 1].node = ChildPath(s[c].node, outcome.child) /\ s2[c].node = s[c].node
      /\ s2[n + 1].token = t /\ s2[n + 1].offset = off
  BY <1>1 DEF Entering
<1>4. Agree(d, s2, n)
  BY <1>1, <1>3 DEF Agree, Entering
<1>5. CASE NextParent(d, n) < c
  BY <1>3, <1>4, <1>5 DEF Later, Preferred
<1>6. CASE NextParent(d, n) = c
  <2>1. n + 1 \in 1 .. Len(d) /\ d[n + 1].parent = c
    BY <1>1, <1>6 DEF Kids
  <2>2. n < Len(d)
    BY <1>1, <2>1
  <2>3. CASE IsChild(d, c, n + 1, outcome.child)
    <3>1. /\ d[n + 1].node = s2[n + 1].node /\ d[n + 1].parent = s2[n + 1].parent
          /\ d[n + 1].token = s2[n + 1].token /\ d[n + 1].offset = s2[n + 1].offset
      BY <1>1, <1>3, <2>1, <2>2, <2>3 DEF IsChild
    <3>2. \A i \in 1 .. n + 1 : i \in 1 .. n \/ i = n + 1
      BY <1>1
    <3> QED
      BY <1>1, <1>3, <1>4, <2>2, <3>1, <3>2 DEF Agree
  <2>4. CASE IsChoice(s[c].node) /\ \E j \in Nat : j > outcome.child /\ IsChild(d, c, n + 1, j)
    <3>1. IsChild(s2, c, n + 1, outcome.child) /\ IsChoice(s2[c].node)
      BY <1>3, <2>4 DEF IsChild
    <3>2. \E j, m \in Nat : j > m /\ IsChild(d, c, n + 1, j) /\ IsChild(s2, c, n + 1, m)
      BY <1>2, <2>4, <3>1
    <3>3. Later(d, s2, n)
      BY <1>3, <1>4, <1>6, <3>1, <3>2 DEF Later
    <3> QED
      BY <1>3, <3>3 DEF Preferred
  <2> QED
    BY <1>6, <2>3, <2>4, FacesChild
<1> QED
  BY <1>1, <1>2, <1>5, <1>6

(* A frame is left only where the derivation has no further child of it either. *)
LEMMA FacingLeaves ==
  ASSUME NEW T, NEW d, NEW s, NEW c, NEW outcome, Facing(T, d, s, c, outcome),
         outcome.child = 0
  PROVE  NextParent(d, Len(s)) < c
<1> DEFINE n == Len(s)
           node == NodeAt(s[c].node)
           kids == Kids(s, c)
           size == Len(node.children)
<1>1. /\ n \in Nat /\ n >= 1 /\ d[c].node = s[c].node /\ s[c].state \in Nat /\ size \in Nat
      /\ HasChildren(d, c) /\ Counted(s, c) /\ Tried(s, c) /\ c \in 1 .. n
      /\ Kids(d, c) \cap 1 .. n = kids /\ NextParent(d, n) \in 0 .. n
      /\ IsFiniteSet(kids) /\ n + 1 \notin kids
      /\ node.type \in {"ID", "NUMBER", "STRING", "CONSTANT",
                        "REF", "CONCAT", "OR", "OPTIONAL", "REPEAT"}
      /\ NextParent(d, n) = c => n + 1 \in Kids(d, c)
  BY FacingIs
<1>2. /\ EntersNext(node, s[c].state, outcome) /\ TakesTurn(node, s[c].state, outcome)
      /\ Ahead(d, s, c) /\ NextParent(d, n) <= c
  BY DEF Facing, Ahead
<1> SUFFICES ASSUME NextParent(d, n) = c
             PROVE  FALSE
  BY <1>1, <1>2
<1>3. n + 1 \in Kids(d, c)
  BY <1>1
<1>4. CASE node.type = "REF"
  <2>1. kids # {}
    BY <1>1, <1>2, <1>4 DEF EntersNext, Tried
  <2>2. PICK x \in kids : x \in Kids(d, c)
    BY <1>1, <2>1
  <2>3. x = n + 1
    BY <1>1, <1>3, <1>4, <2>2, OneChild
  <2> QED
    BY <1>1, <2>2, <2>3
<1>5. CASE node.type = "CONCAT"
  <2>1. Cardinality(kids) >= size
    BY <1>1, <1>2, <1>5 DEF EntersNext, Counted
  <2>2. Cardinality(Kids(d, c)) = size
    BY <1>1, <1>5 DEF HasChildren
  <2>3. Kids(d, c) \in SUBSET (1 .. Len(d)) /\ Len(d) \in Nat
    BY ShapeIs DEF Facing, Kids
  <2>4. IsFiniteSet(Kids(d, c))
    BY <2>3, KidsFinite
  <2>5. kids \cup {n + 1} \subseteq Kids(d, c)
    BY <1>1, <1>3
  <2>6. Cardinality(kids \cup {n + 1}) = Cardinality(kids) + 1
    BY <1>1, FS_AddElement
  <2>7. Cardinality(kids \cup {n + 1}) <= Cardinality(Kids(d, c))
    BY <2>4, <2>5, FS_Subset
  <2>8. Cardinality(kids) \in Nat
    BY <1>1, FS_CardinalityType
  <2> QED
    BY <1>1, <2>1, <2>2, <2>6, <2>7, <2>8
<1>6. CASE node.type \in {"OR", "OPTIONAL"}
  <2>1. s[c].state < size
    BY <1>2, <1>6 DEF Ahead, IsChoice
  <2>2. s[c].state >= size
    BY <1>2, <1>6 DEF TakesTurn
  <2> QED
    BY <1>1, <2>1, <2>2
<1>7. CASE node.type = "REPEAT"
  BY <1>2, <1>7 DEF Ahead, TakesTurn
<1>8. CASE node.type \in {"ID", "NUMBER", "STRING", "CONSTANT"}
  BY <1>1, <1>3, <1>8 DEF HasChildren, IsLeaf
<1> QED
  BY <1>1, <1>4, <1>5, <1>6, <1>7, <1>8

(* Agreement is transitive. *)
LEMMA AgreesOn ==
  ASSUME NEW d, NEW s, NEW s2, NEW k, Agree(d, s, k), Agree(s, s2, k)
  PROVE  Agree(d, s2, k)
BY DEF Agree

\* s2 has the frames of s, whose frame c is left for its parent p.
Leaving(s, s2, c, p) ==
  /\ p = s[c].parent /\ Len(s2) = Len(s) /\ Agree(s, s2, Len(s))
  /\ p # 0 /\ NodeAt(s[p].node).type = "REPEAT" => s2[p].state # 1

(* The frame is left: the derivation is ahead of its parent, or at its end. *)
LEMMA FacesParent ==
  ASSUME NEW T, NEW d, NEW s, NEW c, NEW outcome, Facing(T, d, s, c, outcome),
         outcome.child = 0, NEW p, NEW s2, Leaving(s, s2, c, p)
  PROVE  IF p = 0 THEN Agree(d, s2, Len(s2)) /\ Len(d) = Len(s2) ELSE Ahead(d, s2, p)
<1> DEFINE n == Len(s)
           r == NextParent(d, n)
<1>1. /\ n \in Nat /\ n >= 1 /\ c \in 1 .. n /\ Len(d) \in Nat /\ n \in 1 .. Len(d)
      /\ Agree(d, s, n) /\ d[c].parent = p
      /\ r \in 0 .. n
  BY FacingIs DEF Leaving
<1>2. r < c
  BY FacingLeaves
<1>3. Shape(T, d) /\ Derivation(T, s)
  BY DEF Facing
<1>4. r <= p
  BY <1>1, <1>2, <1>3, NextBelow
<1>5. Agree(d, s2, n) /\ Len(s2) = n
  <2>1. Agree(s, s2, n) /\ Len(s2) = n
    BY DEF Leaving
  <2> QED
    BY <1>1, <2>1, AgreesOn
<1>6. CASE p = 0
  <2>1. r = 0
    BY <1>1, <1>4, <1>6
  <2>2. n = Len(d)
    BY <1>1, <1>3, <2>1, NextParentIs
  <2> QED
    BY <1>5, <1>6, <2>2
<1>7. CASE p # 0
  <2>1. p \in 1 .. n /\ p \in 1 .. Len(d) /\ p < c
    BY <1>1, <1>3, <1>7, ParentsBelow DEF Leaving
  <2>2. s2[p].node = s[p].node /\ d[p].node = s[p].node
    BY <1>1, <2>1 DEF Agree, Leaving
  <2>3. ASSUME r = p
        PROVE  ~IsChoice(s[p].node)
    <3> SUFFICES ASSUME IsChoice(s[p].node)
                 PROVE  FALSE
      OBVIOUS
    <3>1. n + 1 \in Kids(d, p)
      BY <1>1, <1>3, <1>7, <2>3, NextParentIs
    <3>2. c \in Kids(d, p)
      BY <1>1 DEF Kids
    <3>3. HasChildren(d, p) /\ NodeAt(d[p].node).type \in {"REF", "OR", "OPTIONAL"}
      BY <1>3, <2>1, <2>2, ShapeIs DEF IsChoice
    <3>4. c = n + 1
      BY <3>1, <3>2, <3>3, OneChild
    <3> QED
      BY <1>1, <3>4
  <2>4. r = p /\ NodeAt(s2[p].node).type = "REPEAT" => s2[p].state # 1
    BY <1>7, <2>2 DEF Leaving
  <2>5. Ahead(d, s2, p)
    BY <1>4, <1>5, <2>2, <2>3, <2>4 DEF Ahead
  <2> QED
    BY <1>7, <2>5
<1> QED
  BY <1>6, <1>7

\* What is known of the parent p of the top n of a stack that is preferred to d there.
Popping(d, s, n, p) ==
  /\ n \in Nat /\ p \in 1 .. n - 1 /\ d[p].node = s[p].node /\ s[p].node \in Names
  /\ Agree(d, s, n - 1) /\ n - 1 \in 1 .. Len(d)
  /\ HasChildren(d, p) /\ InOrder(s, p) /\ Counted(s, p) /\ n \in Kids(s, p)
  /\ NodeAt(s[p].node) \in Nodes /\ s[p].state \in Nat
  /\ Len(NodeAt(s[p].node).children) \in Nat
  /\ IsFiniteSet(Kids(s, p))
  /\ NextParent(d, n - 1) \in 0 .. n - 1
  /\ NextParent(d, n - 1) = p => n \in Kids(d, p) /\ IsChoice(s[p].node)
  /\ NextParent(d, n - 1) < p \/ NextParent(d, n - 1) = p
  /\ NextParent(d, n - 1) < p => Kids(d, p) = Kids(s, p) \ {n}
  /\ NodeAt(s[p].node).type \in {"ID", "NUMBER", "STRING", "CONSTANT",
                                 "REF", "CONCAT", "OR", "OPTIONAL", "REPEAT"}

(* Facts about a derivation that the top of a stack is preferred to. *)
LEMMA PoppedIs ==
  ASSUME NEW T, NEW d, Shape(T, d), NEW s, Rejecting(T, s), NEW n, n = Len(s), n >= 2,
         Later(d, s, n - 1), NEW p, p = s[n].parent
  PROVE  Popping(d, s, n, p)
<1> DEFINE node == NodeAt(s[p].node)
<1>1. Derivation(T, s) /\ Tree(s)
  BY DEF Rejecting
<1>2. n \in Nat /\ n - 1 \in Nat /\ n \in 1 .. n /\ n # 1 /\ (n - 1) + 1 = n
  BY <1>1, ParentsBelow
<1>3. p \in 1 .. n - 1 /\ p \in 1 .. n
  BY <1>1, <1>2, ParentsBelow
<1>4. Agree(d, s, n - 1) /\ Len(d) \in Nat
  BY ShapeIs DEF Later
<1>5. n - 1 \in 1 .. Len(d) /\ d[p].node = s[p].node /\ p \in 1 .. Len(d)
  BY <1>2, <1>3, <1>4 DEF Agree
<1>6. HasChildren(d, p)
  BY <1>5, ShapeIs
<1>7. /\ InOrder(s, p) /\ Counted(s, p) /\ s[p].node \in Names
      /\ node \in Nodes /\ s[p].state \in Nat
  BY <1>1, <1>3, ParentsBelow DEF Tree, Derivation
<1>8. n \in Kids(s, p)
  BY <1>2 DEF Kids
<1>9. /\ node.type \in {"ID", "NUMBER", "STRING", "CONSTANT",
                        "REF", "CONCAT", "OR", "OPTIONAL", "REPEAT"}
      /\ Len(node.children) \in Nat
  <2>1. node.children \in Seq(Nodes)
    BY <1>7, SchemeAssumption
  <2> HIDE DEF node
  <2> QED
    BY <1>7, <2>1, SchemeAssumption
<1>10. IsFiniteSet(Kids(s, p)) /\ Kids(s, p) \subseteq 1 .. n
  BY <1>2, KidsFinite
<1>11. /\ NextParent(d, n - 1) \in 0 .. n - 1
       /\ NextParent(d, n - 1) # 0 => n \in Kids(d, NextParent(d, n - 1))
  BY <1>2, <1>5, NextParentIs
<1>12. \/ NextParent(d, n - 1) < p
       \/ NextParent(d, n - 1) = p /\ IsChoice(s[p].node)
  BY <1>2 DEF Later
<1>13. ASSUME NextParent(d, n - 1) < p
       PROVE  Kids(d, p) = Kids(s, p) \ {n}
  <2>1. Kids(d, p) \subseteq 1 .. n - 1
    BY <1>3, <1>5, <1>13, KidsClosed
  <2>2. Kids(d, p) \cap 1 .. n - 1 = Kids(s, p) \cap 1 .. n - 1
    BY <1>2, <1>4, SameKids
  <2>3. 1 .. n = (1 .. n - 1) \cup {n} /\ n \notin 1 .. n - 1
    BY <1>2
  <2> QED
    BY <1>10, <2>1, <2>2, <2>3
<1>14. NextParent(d, n - 1) = p => n \in Kids(d, p) /\ IsChoice(s[p].node)
  BY <1>3, <1>11, <1>12
<1> QED
  BY <1>2, <1>3, <1>4, <1>5, <1>6, <1>7, <1>8, <1>9, <1>10, <1>11, <1>12, <1>13, <1>14
     DEF Popping

\* What childRejected answers for a choice, a repetition and the others.
TakesBack(node, state, outcome) ==
  LET size == Len(node.children)
  IN  /\ node.type \in {"OR", "OPTIONAL"} => outcome.state = state - (size - 1)
      /\ node.type = "OR" => (outcome.goesOn <=> outcome.state < size)
      /\ node.type = "OPTIONAL" => (outcome.goesOn <=> outcome.state <= size)
      /\ node.type = "REPEAT" => outcome.goesOn /\ outcome.state = 1
      /\ node.type \notin {"OR", "OPTIONAL", "REPEAT"} => ~outcome.goesOn

(* childRejected goes on where another child, or none, is still to be tried. *)
LEMMA RejectedTakesBack ==
  ASSUME NEW node, NEW state
  PROVE  TakesBack(node, state, Rejected(node, state))
<1> USE DEF Outcome
<1>1. CASE node.type = "CONCAT"
  BY <1>1 DEF Rejected, RejectedConcat, TakesBack
<1>2. CASE node.type = "OR"
  BY <1>2 DEF Rejected, RejectedOr, TakesBack
<1>3. CASE node.type = "OPTIONAL"
  BY <1>3 DEF Rejected, TakesBack
<1>4. CASE node.type = "REPEAT"
  BY <1>4 DEF Rejected, TakesBack
<1>5. CASE node.type \notin {"CONCAT", "OR", "OPTIONAL", "REPEAT"}
  BY <1>5 DEF Rejected, TakesBack
<1> QED
  BY <1>1, <1>2, <1>3, <1>4, <1>5

\* The parent p of a popped frame n goes on, with what d has there if it has a child of p.
GoesOnWith(d, s, n, p, outcome) ==
  LET size == Len(NodeAt(s[p].node).children)
  IN  /\ outcome.goesOn
      /\ NextParent(d, n - 1) = p =>
           /\ outcome.state < size /\ IsChoice(s[p].node)
           /\ \E j \in 1 .. size : j > outcome.state /\ IsChild(d, p, n, j)

(* The popped child of a choice tells its number, which its state becomes. *)
LEMMA PoppedChoice ==
  ASSUME NEW d, NEW s, NEW n, NEW p, Popping(d, s, n, p), NEW node, node = NodeAt(s[p].node),
         node.type \in {"OR", "OPTIONAL"}, NEW outcome,
         TakesBack(node, s[p].state, outcome)
  PROVE  /\ outcome.state \in 1 .. Len(node.children) /\ outcome.state \in Nat
         /\ s[n].node = ChildPath(s[p].node, outcome.state) /\ Kids(s, p) = {n}
<1> DEFINE size == Len(node.children)
           path == s[p].node
           state == s[p].state
<1>1. size \in Nat /\ state \in Nat /\ path \in Names /\ n \in Kids(s, p) /\ IsChoice(path)
  BY DEF Popping, IsChoice
<1>2. InOrder(s, p) /\ Counted(s, p)
  BY DEF Popping
<1>3. /\ state >= size /\ Kids(s, p) = {n}
      /\ s[n].node = ChildPath(path, state - size + 1)
  BY <1>1, <1>2 DEF Counted, Chosen
<1>4. \E k \in 1 .. size : s[n].node = ChildPath(path, k)
  BY <1>1, <1>2 DEF InOrder, Entered
<1>5. outcome.state = state - (size - 1)
  BY DEF TakesBack
<1> HIDE DEF size, path, state
<1>6. outcome.state = state - size + 1 /\ outcome.state \in Nat
  BY <1>1, <1>3, <1>5
<1>7. PICK k \in 1 .. size : s[n].node = ChildPath(path, k)
  BY <1>4
<1>8. k \in Nat
  BY <1>1
<1>9. ChildPath(path, k) = ChildPath(path, outcome.state)
  BY <1>3, <1>6, <1>7
<1>10. k = outcome.state
  BY <1>1, <1>6, <1>8, <1>9, ChoiceNumbered
<1>11. outcome.state \in 1 .. size
  BY <1>10
<1> QED
  BY <1>3, <1>6, <1>11 DEF size, path

(* What a choice goes on with where the derivation has another child of it. *)
LEMMA ChoiceGoesOn ==
  ASSUME NEW d, NEW s, NEW n, NEW p, Popping(d, s, n, p), Later(d, s, n - 1), p = s[n].parent,
         NEW node, node = NodeAt(s[p].node), node.type \in {"OR", "OPTIONAL"},
         NextParent(d, n - 1) = p,
         NEW m \in Nat, s[n].node = ChildPath(s[p].node, m)
  PROVE  /\ m < Len(node.children)
         /\ \E j \in 1 .. Len(node.children) : j > m /\ IsChild(d, p, n, j)
<1> DEFINE size == Len(node.children)
           path == s[p].node
<1>1. /\ n \in Nat /\ size \in Nat /\ path \in Names /\ d[p].node = path
      /\ n \in Kids(d, p) /\ HasChildren(d, p)
  BY DEF Popping
<1>2. IsChoice(path)
  BY DEF IsChoice
<1>3. (n - 1) + 1 = n
  BY <1>1
<1>4. \E k \in 1 .. size : IsChild(d, p, n, k)
  <2>1. IsChoice(d[p].node)
    BY <1>1, <1>2
  <2>2. \E k \in 1 .. Len(NodeAt(d[p].node).children) : IsChild(d, p, n, k)
    BY <1>1, <2>1, ChoiceChild
  <2> QED
    BY <1>1, <2>2
<1>5. \E j, i \in Nat : j > i /\ IsChild(d, p, n, j) /\ IsChild(s, p, n, i)
  <2> DEFINE r == NextParent(d, n - 1)
             q == s[(n - 1) + 1].parent
             Other == \E j, i \in Nat : /\ j > i
                                        /\ IsChild(d, q, (n - 1) + 1, j)
                                        /\ IsChild(s, q, (n - 1) + 1, i)
  <2>1. r < q \/ Other
    BY DEF Later
  <2>2. q = p /\ r = p /\ p \in Nat
    <3>1. p \in 1 .. n - 1
      BY DEF Popping
    <3> QED
      BY <1>1, <1>3, <3>1
  <2>3. Other => \E j, i \in Nat : j > i /\ IsChild(d, p, n, j) /\ IsChild(s, p, n, i)
    BY <1>3, <2>2
  <2> HIDE DEF r, q, Other
  <2> QED
    BY <2>1, <2>2, <2>3
<1> HIDE DEF size
<1>6. PICK j \in Nat, i \in Nat : j > i /\ IsChild(d, p, n, j) /\ IsChild(s, p, n, i)
  BY <1>5
<1>7. PICK k \in 1 .. size : IsChild(d, p, n, k)
  BY <1>4
<1>8. ChildPath(path, i) = ChildPath(path, m) /\ ChildPath(path, j) = ChildPath(path, k)
  BY <1>1, <1>6, <1>7 DEF IsChild
<1> HIDE DEF path
<1>9. k \in Nat
  BY <1>1
<1>10. i = m /\ j = k
  BY <1>1, <1>2, <1>6, <1>8, <1>9, ChoiceNumbered
<1>11. k > m /\ m < size
  BY <1>1, <1>6, <1>10
<1> QED
  BY <1>7, <1>11 DEF size

(***************************************************************************)
(* Where a derivation parts from the stack at the frame that is popped,    *)
(* its parent goes on, and with what the derivation has there.             *)
(***************************************************************************)
LEMMA PoppedChild ==
  ASSUME NEW T, NEW d, Shape(T, d), NEW s, Rejecting(T, s), NEW n, n = Len(s), n >= 2,
         Later(d, s, n - 1), NEW p, p = s[n].parent, NEW outcome,
         TakesBack(NodeAt(s[p].node), s[p].state, outcome)
  PROVE  GoesOnWith(d, s, n, p, outcome)
<1> DEFINE node == NodeAt(s[p].node)
           size == Len(node.children)
           kids == Kids(s, p)
           r == NextParent(d, n - 1)
<1>1. Popping(d, s, n, p)
  BY PoppedIs
<1>2. node.type \in {"ID", "NUMBER", "STRING", "CONSTANT",
                     "REF", "CONCAT", "OR", "OPTIONAL", "REPEAT"}
  BY <1>1 DEF Popping
<1>3. /\ HasChildren(d, p) /\ InOrder(s, p) /\ Counted(s, p) /\ n \in kids
      /\ d[p].node = s[p].node
  BY <1>1 DEF Popping
<1>4. /\ r < p \/ r = p
      /\ r < p => Kids(d, p) = kids \ {n} /\ r # p
      /\ r = p => IsChoice(s[p].node)
  BY <1>1 DEF Popping
<1>5. CASE node.type = "REF"
  <2>1. Kids(d, p) = kids \ {n}
    BY <1>4, <1>5 DEF IsChoice
  <2>2. kids = {n}
    BY <1>3, <1>5 DEF InOrder, Entered
  <2>3. Kids(d, p) = {}
    BY <2>1, <2>2
  <2> QED
    BY <1>3, <1>5, <2>3 DEF HasChildren, OneOf
<1>6. CASE node.type = "CONCAT"
  <2>1. Kids(d, p) = kids \ {n}
    BY <1>4, <1>6 DEF IsChoice
  <2>2. Cardinality(kids) <= size
    BY <1>3, <1>6 DEF InOrder, Entered, Counted
  <2>3. Cardinality(kids \ {n}) = size
    BY <1>3, <1>6, <2>1 DEF HasChildren
  <2>4. IsFiniteSet(kids) /\ size \in Nat
    BY <1>1 DEF Popping
  <2> HIDE DEF kids, size
  <2>5. Cardinality(kids) \in Nat /\ Cardinality(kids \ {n}) = Cardinality(kids) - 1
    BY <1>3, <2>4, FS_RemoveElement, FS_CardinalityType
  <2> QED
    BY <2>2, <2>3, <2>4, <2>5
<1>7. CASE node.type \in {"OR", "OPTIONAL"}
  <2>1. /\ outcome.state \in 1 .. size /\ outcome.state \in Nat
        /\ s[n].node = ChildPath(s[p].node, outcome.state) /\ kids = {n}
    BY <1>1, <1>7, PoppedChoice
  <2>2. size \in Nat /\ IsChoice(s[p].node)
    BY <1>1, <1>7 DEF Popping, IsChoice
  <2>3. outcome.state <= size
    <3> HIDE DEF size
    <3> QED
      BY <2>1
  <2>4. /\ node.type = "OR" => (outcome.goesOn <=> outcome.state < size)
        /\ node.type = "OPTIONAL" => (outcome.goesOn <=> outcome.state <= size)
    BY DEF TakesBack
  <2>5. CASE r = p
    <3>1. /\ outcome.state < size
          /\ \E j \in 1 .. size : j > outcome.state /\ IsChild(d, p, n, j)
      BY <1>1, <1>7, <2>1, <2>5, ChoiceGoesOn
    <3>2. outcome.goesOn
      BY <1>7, <2>3, <2>4, <3>1
    <3> QED
      BY <2>2, <3>1, <3>2 DEF GoesOnWith
  <2>6. CASE r # p
    <3>1. Kids(d, p) = {}
      BY <1>4, <2>1, <2>6
    <3>2. node.type # "OR"
      BY <1>3, <3>1 DEF HasChildren, OneOf
    <3>3. outcome.goesOn
      BY <1>7, <2>3, <2>4, <3>2
    <3> QED
      BY <2>6, <3>3 DEF GoesOnWith
  <2> QED
    BY <2>5, <2>6
<1>8. CASE node.type = "REPEAT"
  <2>1. outcome.goesOn
    BY <1>8 DEF TakesBack
  <2>2. r # p
    BY <1>4, <1>8 DEF IsChoice
  <2> QED
    BY <2>1, <2>2 DEF GoesOnWith
<1>9. CASE node.type \in {"ID", "NUMBER", "STRING", "CONSTANT"}
  BY <1>3, <1>9 DEF InOrder, Entered, IsLeaf
<1> QED
  BY <1>2, <1>5, <1>6, <1>7, <1>8, <1>9

(* What the top was preferred to is left to the frames below, or to its parent's next child. *)
LEMMA PreferredPopped ==
  ASSUME NEW T, NEW d, Shape(T, d), NEW s, Rejecting(T, s), Preferred(d, s),
         NEW p, p = s[Len(s)].parent, NEW outcome,
         TakesBack(NodeAt(s[p].node), s[p].state, outcome),
         NEW rest, Len(rest) = Len(s) - 1, Agree(s, rest, Len(s) - 1),
         p # 0 => rest[p].state = outcome.state
  PROVE  /\ Len(s) >= 2
         /\ Preferred(d, rest) \/ (outcome.goesOn /\ Ahead(d, rest, p))
<1> DEFINE n == Len(s)
<1>1. n \in Nat
  BY ParentsBelow DEF Rejecting
<1>2. PICK k \in 1 .. n - 1 : Later(d, s, k)
  BY DEF Preferred
<1>3. n >= 2 /\ k \in Nat
  BY <1>1, <1>2
<1>4. CASE k < n - 1
  <2>1. k \in 1 .. Len(rest) - 1 /\ k + 1 \in 1 .. n - 1
    BY <1>1, <1>2, <1>4
  <2>2. rest[k + 1].node = s[k + 1].node /\ rest[k + 1].parent = s[k + 1].parent
    BY <2>1 DEF Agree
  <2>3. Agree(d, s, k) /\ Len(d) \in Nat
    BY <1>2, ShapeIs DEF Later
  <2>4. Agree(d, rest, k)
    <3>1. \A i \in 1 .. k : i \in 1 .. n - 1
      BY <1>1, <1>2
    <3> QED
      BY <1>1, <1>4, <2>3, <3>1 DEF Agree
  <2>5. s[k + 1].parent \in 0 .. k
    <3>1. k + 1 \in 1 .. n
      BY <1>1, <2>1
    <3> QED
      BY <1>1, <1>3, <3>1, ParentsBelow DEF Rejecting
  <2>6. NextParent(d, k) = s[k + 1].parent /\ IsChoice(s[s[k + 1].parent].node) =>
          rest[s[k + 1].parent].node = s[s[k + 1].parent].node
    <3>1. SUFFICES ASSUME NextParent(d, k) = s[k + 1].parent
                   PROVE  rest[s[k + 1].parent].node = s[s[k + 1].parent].node
      OBVIOUS
    <3>2. s[k + 1].parent # 0
      <4>1. k + 1 \in 1 .. n /\ k + 1 # 1
        BY <1>1, <1>3, <2>1
      <4> QED
        BY <4>1, <1>2, ParentsBelow DEF Rejecting
    <3>3. s[k + 1].parent \in 1 .. n - 1
      BY <1>1, <1>4, <1>3, <2>5, <3>2
    <3> QED
      BY <3>3 DEF Agree
  <2>7. Later(d, rest, k)
    BY <1>2, <2>2, <2>4, <2>6 DEF Later, IsChild
  <2> QED
    BY <1>3, <2>1, <2>7 DEF Preferred
<1>5. CASE k = n - 1
  <2>1. /\ p \in 1 .. n - 1 /\ Agree(d, s, n - 1)
        /\ NextParent(d, n - 1) < p \/ NextParent(d, n - 1) = p
        /\ NextParent(d, n - 1) \in 0 .. n - 1
    <3>1. Popping(d, s, n, p)
      BY <1>2, <1>3, <1>5, PoppedIs
    <3> QED
      BY <3>1 DEF Popping
  <2>2. GoesOnWith(d, s, n, p, outcome)
    BY <1>2, <1>3, <1>5, PoppedChild
  <2>3. Agree(d, rest, n - 1)
    BY <2>1, AgreesOn
  <2>4. rest[p].node = s[p].node /\ rest[p].state = outcome.state
    <3>1. p \in 1 .. n - 1 /\ p # 0
      BY <1>1, <2>1
    <3>2. \A i \in 1 .. n - 1 : rest[i].node = s[i].node
      BY DEF Agree
    <3> QED
      BY <3>1, <3>2
  <2>5. NextParent(d, n - 1) <= p
    BY <1>1, <2>1
  <2>6. NextParent(d, n - 1) = p => NodeAt(rest[p].node).type # "REPEAT"
    BY <2>2, <2>4 DEF GoesOnWith, IsChoice
  <2>7. Len(rest) = n - 1 /\ (n - 1) + 1 = n
    BY <1>1
  <2>8. Ahead(d, rest, p)
    BY <2>2, <2>3, <2>4, <2>5, <2>6, <2>7 DEF Ahead, GoesOnWith
  <2> QED
    BY <1>3, <2>2, <2>8 DEF GoesOnWith
<1> QED
  BY <1>1, <1>2, <1>4, <1>5

-----------------------------------------------------------------------------

(* A frame that has not tried a child yet has everything ahead of it. *)
LEMMA FreshIsAhead ==
  ASSUME NEW T, NEW d, Shape(T, d), NEW s, NEW n \in Nat \ {0}, n = Len(s), Agree(d, s, n),
         s[n].state = 0, NodeAt(s[n].node) \in Nodes
  PROVE  Ahead(d, s, n)
<1>1. Len(d) \in Nat /\ n \in 1 .. Len(d) /\ d[n].node = s[n].node
  BY ShapeIs DEF Agree
<1>2. NextParent(d, n) \in 0 .. n /\ (NextParent(d, n) # 0 => n + 1 \in Kids(d, NextParent(d, n)))
  BY <1>1, NextParentIs
<1>3. ASSUME NextParent(d, n) = n, IsChoice(s[n].node)
      PROVE  /\ 0 < Len(NodeAt(s[n].node).children)
             /\ \E j \in 1 .. Len(NodeAt(s[n].node).children) : j > 0 /\ IsChild(d, n, n + 1, j)
  <2> DEFINE size == Len(NodeAt(s[n].node).children)
  <2>1. n + 1 \in Kids(d, n) /\ HasChildren(d, n) /\ IsChoice(d[n].node)
    BY <1>1, <1>2, <1>3, ShapeIs
  <2>2. PICK k \in 1 .. size : IsChild(d, n, n + 1, k)
    BY <1>1, <2>1, ChoiceChild
  <2>3. NodeAt(s[n].node).children \in Seq(Nodes)
    BY SchemeAssumption
  <2>4. size \in Nat
    BY <2>3
  <2> HIDE DEF size
  <2>5. k > 0 /\ 0 < size
    BY <2>4
  <2> QED
    BY <2>2, <2>5 DEF size
<1> QED
  BY <1>2, <1>3 DEF Ahead

(* What s is preferred to, a stack with the frames of s is preferred to. *)
LEMMA PreferredStays ==
  ASSUME NEW T, NEW d, NEW s, Derivation(T, s), Preferred(d, s), NEW s2, Len(s2) \in Nat,
         Agree(s, s2, Len(s))
  PROVE  Preferred(d, s2)
<1> DEFINE n == Len(s)
<1>1. n \in Nat /\ n <= Len(s2)
  BY ParentsBelow DEF Agree
<1>2. PICK k \in 1 .. n - 1 : Later(d, s, k)
  BY DEF Preferred
<1>3. k \in 1 .. Len(s2) - 1 /\ k + 1 \in 1 .. n /\ k + 1 # 1
  BY <1>1, <1>2
<1>4. s[k + 1].parent \in 1 .. n
  BY <1>1, <1>3, ParentsBelow
<1>5. /\ s2[k + 1].node = s[k + 1].node /\ s2[k + 1].parent = s[k + 1].parent
      /\ s2[s[k + 1].parent].node = s[s[k + 1].parent].node
  BY <1>3, <1>4 DEF Agree
<1>6. Agree(d, s2, k)
  <2>1. Agree(d, s, k) /\ \A i \in 1 .. k : i \in 1 .. n
    BY <1>1, <1>2 DEF Later
  <2> QED
    BY <1>1, <1>3, <2>1 DEF Agree
<1>7. Later(d, s2, k)
  BY <1>2, <1>5, <1>6 DEF Later, IsChild
<1> QED
  BY <1>3, <1>7 DEF Preferred

(* What a beginning is depends on the source and its tokens alone. *)
LEMMA BeginningStays ==
  ASSUME UNCHANGED <<source, tokens>>, NEW d
  PROVE  Beginning(d)' <=> Beginning(d)
<1>1. \A i : Ended(d, i)' = Ended(d, i)
  BY DEF Ended, After, NextToken, Rest
<1>2. \A i : Derives(d, i)' <=> Derives(d, i)
  BY DEF Derives, Matches, TokenType, HasText, Rest, TextAt
<1> QED
  BY <1>1, <1>2 DEF Beginning

(* The node at the top is entered, or the leaf there matches. *)
LEMMA MatchWaits ==
  ASSUME IInv, DInv, AllWait, Match
  PROVE  AllWait'
<1> DEFINE T == Len(tokens)
           top == Len(stack)
<1>1. pc = "match" /\ pc' = "descend" /\ current' = top /\ UNCHANGED <<source, tokens>>
  BY DEF Match
<1>2. /\ top \in Nat \ {0} /\ top \in 1 .. top /\ stack \in Seq(Frames(T))
      /\ stack[top].state = 0 /\ NodeAt(stack[top].node) \in Nodes
  BY <1>1 DEF IInv, Derivation, DInv, DerivesSoFar
<1>3. stack' = stack
  <2>1. [stack EXCEPT ![top].state = 0] = stack
    BY <1>2, StateIsSet
  <2>2. stack' = stack \/ stack' = [stack EXCEPT ![top].state = 0]
    BY DEF Match
  <2> QED
    BY <2>1, <2>2
<1>4. ASSUME NEW d \in Seq(Frames(T)), Beginning(d)
      PROVE  Preferred(d, stack) \/ Ahead(d, stack, top)
  <2>1. Shape(T, d)
    BY <1>4 DEF Beginning
  <2>2. Preferred(d, stack) \/ Agree(d, stack, top)
    BY <1>1, <1>4 DEF AllWait, Waits
  <2> QED
    BY <1>2, <2>1, <2>2, FreshIsAhead
<1>5. ASSUME NEW d \in Seq(Frames(T)), Beginning(d)'
      PROVE  Waits(d)'
  <2>1. Beginning(d)
    BY <1>1, <1>5, BeginningStays
  <2> QED
    BY <1>1, <1>3, <1>4, <2>1 DEF Waits
<1> QED
  BY <1>1, <1>5 DEF AllWait

(* Where a leaf does not match, no derivation agrees with the whole stack. *)
LEMMA MismatchWaits ==
  ASSUME IInv, AllWait, Mismatch
  PROVE  AllWait'
<1> DEFINE T == Len(tokens)
           top == Len(stack)
<1>1. /\ pc = "match" /\ pc' = "reject" /\ UNCHANGED <<source, tokens, stack>>
      /\ IsLeaf(FrameNode(top))
      /\ ~Matches(FrameNode(top), stack[top].token, stack[top].offset)
  BY DEF Mismatch
<1>2. top \in Nat \ {0} /\ top \in 1 .. top
  BY <1>1 DEF IInv, Derivation
<1>3. ASSUME NEW d \in Seq(Frames(T)), Beginning(d)
      PROVE  Preferred(d, stack)
  <2>1. Shape(T, d) /\ \A i \in 1 .. Len(d) : Derives(d, i)
    BY <1>3 DEF Beginning
  <2>2. Preferred(d, stack) \/ Agree(d, stack, top)
    BY <1>1, <1>3 DEF AllWait, Waits
  <2>3. ASSUME Agree(d, stack, top)
        PROVE  FALSE
    <3>1. /\ top \in 1 .. Len(d) /\ d[top].node = stack[top].node
          /\ d[top].token = stack[top].token /\ d[top].offset = stack[top].offset
      BY <1>2, <2>1, <2>3, ShapeIs DEF Agree
    <3>2. Derives(d, top)
      BY <2>1, <3>1
    <3> QED
      BY <1>1, <3>1, <3>2 DEF Derives, FrameNode
  <2> QED
    BY <2>2, <2>3
<1>4. ASSUME NEW d \in Seq(Frames(T)), Beginning(d)'
      PROVE  Waits(d)'
  <2>1. Beginning(d)
    BY <1>1, <1>4, BeginningStays
  <2> QED
    BY <1>1, <1>3, <2>1 DEF Waits
<1> QED
  BY <1>1, <1>4 DEF AllWait

\* One turn of the loop over pop pops frame n, a child of frame "parent".
Retreats(n, parent) ==
  /\ n \in Nat \ {0} /\ Len(stack') = n - 1 /\ Agree(stack, stack', n - 1)
  /\ parent \in 0 .. n - 1
  /\ parent # 0 =>
       stack'[parent].state = Rejected(FrameNode(parent), stack[parent].state).state
  /\ \A i \in 1 .. n - 1 : i # parent => stack'[i] = stack[i]

(* What one turn of the loop over pop does to the frames that are left. *)
LEMMA RejectStays ==
  ASSUME IInv, Reject, NEW n, n = Len(stack), NEW parent, parent = stack[n].parent
  PROVE  Retreats(n, parent)
<1> DEFINE T == Len(tokens)
           state == Rejected(FrameNode(parent), stack[parent].state).state
<1>1. pc = "reject" /\ stack' = Remaining(parent)
  BY RejectIs
<1>2. n \in Nat \ {0} /\ Derivation(T, stack) /\ stack \in Seq(Frames(T)) /\ n \in 1 .. n
  BY <1>1 DEF IInv, Derivation
<1>3. parent \in 0 .. n - 1 /\ Len(stack') = n - 1
  BY <1>1, RejectLeaves
<1>4. CASE parent = 0
  <2>1. n = 1
    BY <1>2, <1>4, ParentsBelow
  <2>2. \A i \in 1 .. n - 1 : FALSE
    BY <2>1
  <2> QED
    BY <1>2, <1>3, <1>4, <2>1, <2>2 DEF Agree, Retreats
<1>5. CASE parent # 0
  <2>1. stack' = [Front(stack) EXCEPT ![parent].state = state]
    BY <1>1, <1>5 DEF Remaining, NULL
  <2>2. CountsBack(NodeAt(stack[parent].node), stack[parent].state, state)
    BY RejectedIs DEF FrameNode
  <2> HIDE DEF state
  <2>3. state \in Nat /\ parent \in 1 .. Len(stack) - 1
    <3>1. Len(stack) >= 1 /\ parent = stack[Len(stack)].parent
      BY <1>2
    <3> QED
      BY <1>2, <1>5, <2>2, <3>1, DerivationShrinks
  <2>4. Shrunk(T, stack, stack', parent, state)
    <3>1. Len(stack) >= 1
      BY <1>2
    <3>2. Shrunk(T, stack, [Front(stack) EXCEPT ![parent].state = state], parent, state)
      BY <1>2, <2>3, <3>1, Shrinks
    <3> QED
      BY <2>1, <3>2
  <2>5. /\ stack'[parent].state = state
        /\ \A i \in 1 .. n - 1 :
             /\ stack'[i].node = stack[i].node /\ stack'[i].parent = stack[i].parent
             /\ stack'[i].token = stack[i].token /\ stack'[i].offset = stack[i].offset
             /\ i # parent => stack'[i] = stack[i]
    BY <2>4 DEF Shrunk
  <2>6. Agree(stack, stack', n - 1)
    BY <1>2, <1>3, <2>5 DEF Agree
  <2> QED
    BY <1>2, <1>3, <2>5, <2>6 DEF state, Retreats
<1> QED
  BY <1>4, <1>5

(* The top is popped: no derivation is lost with it. *)
LEMMA RejectWaits ==
  ASSUME IInv, DInv, AllWait, Reject
  PROVE  AllWait'
<1> DEFINE T == Len(tokens)
           n == Len(stack)
           parent == stack[n].parent
           outcome == Rejected(FrameNode(parent), stack[parent].state)
<1>1. /\ pc = "reject" /\ GoesOn(parent) /\ UNCHANGED <<source, tokens>>
  BY RejectIs
<1>2. /\ n \in Nat \ {0} /\ Len(stack') = n - 1 /\ Agree(stack, stack', n - 1)
      /\ parent \in 0 .. n - 1 /\ (parent # 0 => stack'[parent].state = outcome.state)
  <2>1. Retreats(n, parent)
    BY RejectStays
  <2> QED
    BY <2>1 DEF Retreats
<1>3. Rejecting(T, stack)
  BY <1>1 DEF DInv, DerivesSoFar
<1>4. TakesBack(NodeAt(stack[parent].node), stack[parent].state, outcome)
  BY RejectedTakesBack DEF FrameNode
<1>5. /\ pc' = "descend" => current' = parent
      /\ pc' = "reject" => parent = 0 \/ ~outcome.goesOn
      /\ pc' = "done" => stack' = <<>>
      /\ pc' \in {"descend", "reject", "done"}
  BY <1>1 DEF GoesOn, NULL
<1> HIDE DEF outcome
<1>6. ASSUME NEW d \in Seq(Frames(T)), Beginning(d)
      PROVE  n >= 2 /\ (Preferred(d, stack') \/ (outcome.goesOn /\ Ahead(d, stack', parent)))
  <2>1. Shape(T, d) /\ Preferred(d, stack)
    BY <1>1, <1>6 DEF Beginning, AllWait, Waits
  <2> QED
    BY <1>2, <1>3, <1>4, <2>1, PreferredPopped
<1>7. ASSUME NEW d \in Seq(Frames(T)), Beginning(d)'
      PROVE  Waits(d)'
  <2>1. Beginning(d)
    BY <1>1, <1>7, BeginningStays
  <2>2. n >= 2 /\ (Preferred(d, stack') \/ (outcome.goesOn /\ Ahead(d, stack', parent)))
    BY <1>6, <2>1
  <2>3. parent # 0
    <3>1. n \in 1 .. n /\ n # 1
      BY <1>2, <2>2
    <3> QED
      BY <1>3, <3>1, ParentsBelow DEF Rejecting
  <2>4. pc' # "done"
    <3>1. Len(stack') # 0
      BY <1>2, <2>2
    <3> QED
      BY <1>5, <3>1
  <2> QED
    BY <1>5, <2>2, <2>3, <2>4 DEF Waits
<1> QED
  BY <1>1, <1>7 DEF AllWait

\* What one turn of the loop over nextChild does to the stack.
Turns(c, outcome) ==
  LET n == Len(stack)
      p == stack[c].parent
  IN  /\ n \in Nat \ {0} /\ c \in 1 .. n /\ Agree(stack, stack', n)
      /\ stack'[c].state = outcome.state
      /\ \A i \in 1 .. n : i # c => stack'[i] = stack[i]
      /\ IF outcome.child = 0
         THEN Len(stack') = n /\ current' = p /\ pc' = IF p = 0 THEN "done" ELSE "descend"
         ELSE /\ Entering(stack, stack', c, outcome.child, token, offset)
              /\ Len(stack') = n + 1 /\ stack'[n + 1].state = 0 /\ pc' = "match"

(* One turn of the loop over nextChild, with its ways to go on in one formula. *)
LEMMA DescendIs ==
  ASSUME IInv, Descend, NEW c, c = current,
         NEW outcome, outcome = NextChild(FrameNode(c), stack[c].state)
  PROVE  pc = "descend" /\ UNCHANGED <<source, tokens>> /\ Turns(c, outcome)
<1> DEFINE T == Len(tokens)
           n == Len(stack)
           p == stack[c].parent
           marked == [stack EXCEPT ![c].state = outcome.state]
           child == Frame(ChildPath(stack[c].node, outcome.child), c, token, offset)
<1>1. pc = "descend" /\ UNCHANGED <<source, tokens>>
  BY DEF Descend
<1>2. /\ c \in 1 .. n /\ n \in Nat /\ n \in Nat \ {0} /\ stack \in Seq(Frames(T))
  BY <1>1 DEF IInv, Derivation
<1>3. FrameIs(c)
  BY <1>2, FramesAre
<1>4. MayEnter(NodeAt(stack[c].node), stack[c].state, outcome)
  BY <1>3, NextChildIs DEF FrameIs, FrameNode
<1>5. Restated(T, stack, marked, c, outcome.state)
  BY <1>2, <1>4, Restates DEF MayEnter
<1>6. \/ outcome.child # 0 /\ stack' = Append(marked, child) /\ pc' = "match"
      \/ /\ outcome.child = 0 /\ stack' = marked /\ current' = p
         /\ pc' = IF p = 0 THEN "done" ELSE "descend"
  BY <1>1 DEF Descend, Return, NULL
<1>7. /\ child.token = token /\ child.offset = offset /\ child.state = 0 /\ child.parent = c
      /\ child.node = ChildPath(stack[c].node, outcome.child)
  BY DEF Frame
<1> HIDE DEF child
<1>8. /\ marked \in Seq(Frames(T)) /\ Len(marked) = n /\ marked[c].state = outcome.state
      /\ \A i \in 1 .. n : /\ marked[i].node = stack[i].node /\ marked[i].parent = stack[i].parent
                           /\ marked[i].token = stack[i].token /\ marked[i].offset = stack[i].offset
                           /\ i # c => marked[i] = stack[i]
  BY <1>5 DEF Restated
<1> HIDE DEF marked
<1>9. CASE outcome.child # 0 /\ stack' = Append(marked, child) /\ pc' = "match"
  <2>1. /\ Len(stack') = n + 1 /\ stack'[n + 1] = child
        /\ \A i \in 1 .. n : stack'[i] = marked[i]
    <3>1. n \in Nat /\ marked \in Seq(Frames(T)) /\ Len(marked) = n
      BY <1>2, <1>8
    <3> HIDE DEF n
    <3> QED
      BY <1>9, <3>1
  <2>2. Agree(stack, stack', n)
    <3>1. n <= Len(stack')
      BY <1>2, <2>1
    <3>2. \A i \in 1 .. n :
            /\ stack'[i].node = stack[i].node /\ stack'[i].parent = stack[i].parent
            /\ stack'[i].token = stack[i].token /\ stack'[i].offset = stack[i].offset
      BY <1>8, <2>1
    <3> QED
      BY <1>2, <3>1, <3>2 DEF Agree
  <2>3. Entering(stack, stack', c, outcome.child, token, offset)
    BY <1>7, <1>8, <2>1 DEF Entering
  <2>4. stack'[c].state = outcome.state /\ \A i \in 1 .. n : i # c => stack'[i] = stack[i]
    BY <1>2, <1>8, <2>1
  <2> QED
    BY <1>1, <1>2, <1>7, <1>9, <2>1, <2>2, <2>3, <2>4 DEF Turns
<1>10. CASE /\ outcome.child = 0 /\ stack' = marked /\ current' = p
            /\ pc' = IF p = 0 THEN "done" ELSE "descend"
  <2>1. Agree(stack, stack', n)
    BY <1>2, <1>8, <1>10 DEF Agree
  <2> QED
    BY <1>1, <1>2, <1>8, <1>10, <2>1 DEF Turns
<1> QED
  BY <1>6, <1>9, <1>10

(* The frame enters its next child, or is left: the derivations are still ahead. *)
LEMMA DescendWaits ==
  ASSUME IInv, DInv, Row, RepeatsReset, AllWait, Descend
  PROVE  AllWait'
<1> DEFINE T == Len(tokens)
           n == Len(stack)
           c == current
           p == stack[c].parent
           outcome == NextChild(FrameNode(c), stack[c].state)
<1>1. pc = "descend" /\ UNCHANGED <<source, tokens>> /\ Turns(c, outcome)
  BY DescendIs
<1>2. /\ n \in Nat \ {0} /\ c \in 1 .. n /\ Partial(T, stack, c) /\ Derivation(T, stack)
  BY <1>1 DEF Turns, DInv, DerivesSoFar, IInv
<1>3. /\ MayEnter(NodeAt(stack[c].node), stack[c].state, outcome)
      /\ EntersNext(NodeAt(stack[c].node), stack[c].state, outcome)
      /\ TakesTurn(NodeAt(stack[c].node), stack[c].state, outcome)
  <2>1. FrameIs(c)
    BY <1>2, FramesAre
  <2> QED
    BY <2>1, NextChildIs, NextInOrder, NextTurn DEF FrameIs, FrameNode
<1>4. \A k \in {n} : <<token, offset>> = EndOfFrame(k)
  BY <1>1 DEF Row
<1> HIDE DEF outcome
<1>5. ASSUME NEW d \in Seq(Frames(T)), Beginning(d)
      PROVE  \/ Preferred(d, stack')
             \/ /\ pc' = "match" => Agree(d, stack', Len(stack'))
                /\ pc' = "descend" => Ahead(d, stack', current')
                /\ pc' = "done" => Agree(d, stack', Len(stack')) /\ Len(d) = Len(stack')
  <2>1. Shape(T, d)
    BY <1>5 DEF Beginning
  <2>2. Preferred(d, stack) \/ Ahead(d, stack, c)
    BY <1>1, <1>5 DEF AllWait, Waits
  <2>3. CASE Preferred(d, stack)
    <3>1. Agree(stack, stack', n) /\ Len(stack') \in Nat
      BY <1>1, <1>2 DEF Turns
    <3> QED
      BY <1>2, <2>3, <3>1, PreferredStays
  <2>4. CASE Ahead(d, stack, c)
    <3>1. Facing(T, d, stack, c, outcome)
      BY <1>2, <1>3, <2>1, <2>4 DEF Facing, Partial
    <3>2. CASE outcome.child # 0
      <4>1. Entering(stack, stack', c, outcome.child, token, offset) /\ pc' = "match"
        BY <1>1, <3>2 DEF Turns
      <4>2. n < Len(d) => d[n + 1].token = token /\ d[n + 1].offset = offset
        <5> SUFFICES ASSUME n < Len(d)
                     PROVE  d[n + 1].token = token /\ d[n + 1].offset = offset
          OBVIOUS
        <5>1. Len(d) \in Nat /\ n \in 1 .. Len(d) - 1 /\ n \in 1 .. n
          BY <1>2, <2>1, ShapeIs
        <5>2. <<d[n + 1].token, d[n + 1].offset>> = Ended(d, n)
          BY <1>5, <5>1 DEF Beginning
        <5>3. d[n].node = stack[n].node /\ d[n].token = stack[n].token
              /\ d[n].offset = stack[n].offset
          BY <2>4, <5>1 DEF Ahead, Agree
        <5>4. Ended(d, n) = EndOfFrame(n)
          BY <5>3 DEF Ended, EndOfFrame, FrameNode
        <5>5. <<token, offset>> = EndOfFrame(n)
          BY <1>4
        <5> QED
          BY <5>2, <5>4, <5>5
      <4>3. Preferred(d, stack') \/ Agree(d, stack', Len(stack'))
        BY <3>1, <3>2, <4>1, <4>2, FacingEnters
      <4> QED
        BY <4>1, <4>3
    <3>3. CASE outcome.child = 0
      <4>1. /\ Len(stack') = n /\ current' = p /\ Agree(stack, stack', n)
            /\ pc' = IF p = 0 THEN "done" ELSE "descend"
            /\ \A i \in 1 .. n : i # c => stack'[i] = stack[i]
        BY <1>1, <3>3 DEF Turns
      <4>2. p # 0 /\ NodeAt(stack[p].node).type = "REPEAT" => stack'[p].state # 1
        <5> SUFFICES ASSUME p # 0, NodeAt(stack[p].node).type = "REPEAT"
                     PROVE  stack'[p].state # 1
          OBVIOUS
        <5>1. p \in 1 .. n /\ p # c
          BY <1>2, ParentsBelow
        <5>2. stack[p].state = 0 /\ stack'[p] = stack[p]
          BY <4>1, <5>1 DEF RepeatsReset, FrameNode
        <5> QED
          BY <5>2
      <4>3. Leaving(stack, stack', c, p)
        BY <4>1, <4>2 DEF Leaving
      <4>4. IF p = 0 THEN Agree(d, stack', Len(stack')) /\ Len(d) = Len(stack')
            ELSE Ahead(d, stack', p)
        BY <3>1, <3>3, <4>3, FacesParent
      <4> QED
        BY <4>1, <4>4
    <3> QED
      BY <3>2, <3>3
  <2> QED
    BY <2>2, <2>3, <2>4
<1>6. pc' \in {"match", "descend", "done"} /\ stack' # <<>>
  <2>1. Len(stack') # 0
    BY <1>1, <1>2 DEF Turns
  <2> QED
    BY <1>1, <2>1 DEF Turns
<1>7. ASSUME NEW d \in Seq(Frames(T)), Beginning(d)'
      PROVE  Waits(d)'
  <2>1. Beginning(d)
    BY <1>1, <1>7, BeginningStays
  <2> QED
    BY <1>5, <1>6, <2>1 DEF Waits
<1> QED
  BY <1>1, <1>7 DEF AllWait

(* Every derivation begins with the first frame. *)
LEMMA BeginWaits ==
  ASSUME NEW d, NEW T, Shape(T, d), d[1].node = <<Root>>, d[1].token = 1, d[1].offset = 0
  PROVE  Agree(d, FirstFrames, Len(FirstFrames))
<1>1. Len(FirstFrames) = 1 /\ FirstFrames[1] = Frame(<<Root>>, NULL, 1, 0)
  BY DEF FirstFrames
<1>2. /\ FirstFrames[1].node = <<Root>> /\ FirstFrames[1].parent = 0
      /\ FirstFrames[1].token = 1 /\ FirstFrames[1].offset = 0
  BY <1>1 DEF Frame, NULL
<1>3. Len(d) \in Nat /\ Len(d) >= 1 /\ d[1].parent = 0
  BY ShapeIs
<1>4. \A i \in 1 .. 1 : i = 1
  OBVIOUS
<1> QED
  BY <1>1, <1>2, <1>3, <1>4 DEF Agree

(* The step keeps the states of the repetitions. *)
LEMMA NextResets ==
  IInv /\ RepeatsReset /\ [Next \/ \E text \in Followers : Restart(text)]_vars => RepeatsReset'
<1> SUFFICES ASSUME IInv, RepeatsReset, [Next \/ \E text \in Followers : Restart(text)]_vars
             PROVE  RepeatsReset'
  OBVIOUS
<1> USE DEF RepeatsReset, FrameNode
<1>1. CASE Match
  <2> DEFINE T == Len(tokens)
             top == Len(stack)
  <2>1. pc = "match" /\ (stack' = stack \/ stack' = [stack EXCEPT ![top].state = 0])
    BY <1>1 DEF Match
  <2>2. top \in 1 .. top /\ stack \in Seq(Frames(T))
    BY <2>1 DEF IInv, Derivation
  <2>3. CASE stack' = stack
    BY <2>1, <2>3
  <2>4. CASE stack' = [stack EXCEPT ![top].state = 0]
    <3>1. Restated(T, stack, stack', top, 0)
      BY <2>2, <2>4, Restates
    <3>2. /\ Len(stack') = top /\ stack'[top].state = 0
          /\ \A i \in 1 .. top : /\ stack'[i].node = stack[i].node
                                 /\ i # top => stack'[i] = stack[i]
      BY <3>1 DEF Restated
    <3> QED
      BY <2>1, <3>2
  <2> QED
    BY <2>1, <2>3, <2>4
<1>2. CASE Mismatch
  <2>1. pc = "match" /\ stack' = stack
    BY <1>2 DEF Mismatch
  <2> QED
    BY <2>1
<1>3. CASE Reject
  <2> DEFINE n == Len(stack)
             parent == stack[n].parent
             outcome == Rejected(FrameNode(parent), stack[parent].state)
  <2>1. pc = "reject" /\ GoesOn(parent)
    BY <1>3, RejectIs
  <2>2. /\ n \in Nat \ {0} /\ Len(stack') = n - 1 /\ Agree(stack, stack', n - 1)
        /\ parent \in 0 .. n - 1 /\ (parent # 0 => stack'[parent].state = outcome.state)
        /\ \A i \in 1 .. n - 1 : i # parent => stack'[i] = stack[i]
    <3>1. Retreats(n, parent)
      BY <1>3, RejectStays
    <3> QED
      BY <3>1 DEF Retreats
  <2>3. TakesBack(NodeAt(stack[parent].node), stack[parent].state, outcome)
    BY RejectedTakesBack
  <2>4. \/ stack' = <<>>
        \/ parent # 0 /\ outcome.goesOn /\ pc' = "descend" /\ current' = parent
        \/ parent = 0 \/ ~outcome.goesOn
    BY <2>1 DEF GoesOn, NULL
  <2> HIDE DEF outcome
  <2>5. ASSUME NEW i \in 1 .. n - 1, NodeAt(stack'[i].node).type = "REPEAT", stack' # <<>>
        PROVE  stack'[i].state = 0 \/ (stack'[i].state = 1 /\ pc' = "descend" /\ i = current')
    <3>1. i \in 1 .. n /\ stack'[i].node = stack[i].node
      BY <2>2, <2>5 DEF Agree
    <3>2. CASE i # parent
      BY <2>1, <2>2, <2>5, <3>1, <3>2
    <3>3. CASE i = parent
      <4>1. NodeAt(stack[parent].node).type = "REPEAT" /\ parent # 0
        BY <2>2, <2>5, <3>1, <3>3
      <4>2. outcome.goesOn /\ outcome.state = 1
        BY <2>3, <4>1 DEF TakesBack
      <4>3. stack'[i].state = 1
        BY <2>2, <3>3, <4>1, <4>2
      <4> QED
        BY <2>4, <2>5, <3>3, <4>1, <4>2, <4>3
    <3> QED
      BY <3>2, <3>3
  <2>6. stack' = <<>> => Len(stack') = 0
    OBVIOUS
  <2> QED
    BY <2>2, <2>5, <2>6
<1>4. CASE Descend
  <2> DEFINE n == Len(stack)
             c == current
             outcome == NextChild(FrameNode(c), stack[c].state)
  <2>1. pc = "descend" /\ Turns(c, outcome)
    BY <1>4, DescendIs
  <2>2. /\ n \in Nat \ {0} /\ c \in 1 .. n /\ stack'[c].state = outcome.state
        /\ Agree(stack, stack', n) /\ \A i \in 1 .. n : i # c => stack'[i] = stack[i]
        /\ Len(stack') = n \/ (Len(stack') = n + 1 /\ stack'[n + 1].state = 0)
    BY <2>1 DEF Turns
  <2>3. TakesTurn(NodeAt(stack[c].node), stack[c].state, outcome)
    <3>1. FrameIs(c)
      BY <2>2, FramesAre
    <3> QED
      BY <3>1, NextTurn DEF FrameIs
  <2> HIDE DEF outcome
  <2>4. ASSUME NEW i \in 1 .. n, NodeAt(stack'[i].node).type = "REPEAT"
        PROVE  stack'[i].state = 0
    <3>1. stack'[i].node = stack[i].node
      BY <2>2 DEF Agree
    <3>2. CASE i # c
      BY <2>2, <2>4, <3>1, <3>2
    <3>3. CASE i = c
      <4>1. stack[c].state \in {0, 1}
        BY <2>2, <2>4, <3>1, <3>3
      <4> QED
        BY <2>2, <2>3, <2>4, <3>1, <3>3, <4>1 DEF TakesTurn
    <3> QED
      BY <3>2, <3>3
  <2>5. \A i \in 1 .. n + 1 : i \in 1 .. n \/ i = n + 1
    BY <2>2
  <2> QED
    BY <2>2, <2>4, <2>5
<1>5. ASSUME NEW text \in Followers, Restart(text)
      PROVE  RepeatsReset'
  <2>1. stack' = FirstFrames
    BY <1>5 DEF Restart
  <2>2. Len(stack') = 1 /\ stack'[1].state = 0
    BY <2>1 DEF FirstFrames, Frame
  <2>3. \A i \in 1 .. 1 : i = 1
    OBVIOUS
  <2> QED
    BY <2>2, <2>3
<1>6. CASE UNCHANGED vars
  BY <1>6 DEF vars, position
<1> QED
  BY <1>1, <1>2, <1>3, <1>4, <1>5, <1>6 DEF Next

\* The derivations of a text whose symbols are separated wait.
SeparatedWait == SymbolsSeparated => AllWait

(* Every step of the parser leaves the derivations waiting. *)
LEMMA NextWaits ==
  /\ IInv /\ DInv /\ SeparatedRow /\ RepeatsReset /\ SeparatedWait
  /\ [Next \/ \E text \in Followers : Restart(text)]_vars
  => SeparatedWait'
<1> SUFFICES ASSUME IInv, DInv, SeparatedRow, RepeatsReset, SeparatedWait,
                    [Next \/ \E text \in Followers : Restart(text)]_vars
             PROVE  SeparatedWait'
  OBVIOUS
<1>1. CASE \E text \in Followers : Restart(text)
  <2>1. stack' = FirstFrames /\ pc' = "match"
    BY <1>1 DEF Restart
  <2>2. ASSUME NEW d, Beginning(d)'
        PROVE  Waits(d)'
    <3>1. Agree(d, stack', Len(stack'))
      BY <2>1, <2>2, BeginWaits DEF Beginning
    <3> QED
      BY <2>1, <3>1 DEF Waits
  <2> QED
    BY <2>2 DEF SeparatedWait, AllWait
<1>2. CASE [Next]_vars
  <2>1. UNCHANGED <<source, tokens>>
    BY <1>2 DEF Next, Match, Mismatch, Reject, Descend, vars
  <2>2. SUFFICES ASSUME SymbolsSeparated, Row, AllWait
                 PROVE  AllWait'
    BY <2>1, SeparatedStays DEF SeparatedRow, SeparatedWait
  <2>3. CASE Match
    BY <2>2, <2>3, MatchWaits
  <2>4. CASE Mismatch
    BY <2>2, <2>4, MismatchWaits
  <2>5. CASE Reject
    BY <2>2, <2>5, RejectWaits
  <2>6. CASE Descend
    BY <2>2, <2>6, DescendWaits
  <2>7. CASE UNCHANGED vars
    <3>1. UNCHANGED <<source, tokens, stack, pc, current>>
      BY <2>7 DEF vars, position
    <3>2. ASSUME NEW d, Beginning(d)', Beginning(d) => Waits(d)
          PROVE  Waits(d)'
      <4>1. Beginning(d)
        BY <3>1, <3>2, BeginningStays
      <4> QED
        BY <3>1, <3>2, <4>1 DEF Waits
    <3> QED
      BY <2>2, <3>1, <3>2 DEF AllWait
  <2> QED
    BY <1>2, <2>3, <2>4, <2>5, <2>6, <2>7 DEF Next
<1> QED
  BY <1>1, <1>2

(* A stack the parser leaves at the root is a derivation. *)
LEMMA DoneBegins ==
  ASSUME IInv, DInv, Row, pc = "done", stack # <<>>
  PROVE  /\ Beginning(stack) /\ (success <=> Ended(stack, Len(stack))[1] = NULL)
<1> DEFINE n == Len(stack)
           T == Len(tokens)
<1>1. stack \in Seq(Frames(T)) /\ Derivation(T, stack)
  BY DEF IInv, Derivation
<1>2. n \in Nat /\ n >= 1
  BY <1>1
<1>3. Whole(T, stack) /\ Preorder(stack)
  BY <1>2 DEF DInv, DerivesSoFar, Whole, Tree
<1>4. \A i : Ended(stack, i) = EndOfFrame(i)
  BY DEF Ended, EndOfFrame, FrameNode
<1>5. ASSUME NEW i \in 1 .. n
      PROVE  Derives(stack, i) /\ HasChildren(stack, i)
  <2>1. i \in 1 .. n - 1 \/ i = n
    BY <1>2
  <2>2. Matched(i)
    BY <1>2, <2>1 DEF DInv, LeavesMatch
  <2>3. Derives(stack, i)
    BY <1>3, <2>2, WholeDerives
  <2> QED
    BY <2>3 DEF Derives
<1>6. Shape(T, stack)
  BY <1>1, <1>2, <1>3, <1>5 DEF Shape, Derivation
<1>7. stack[1].node = <<Root>> /\ stack[1].token = 1 /\ stack[1].offset = 0
  BY <1>2 DEF DInv, Rooted
<1>8. \A i \in 1 .. n - 1 : <<stack[i + 1].token, stack[i + 1].offset>> = Ended(stack, i)
  BY <1>4 DEF Row
<1>9. Beginning(stack)
  BY <1>5, <1>6, <1>7, <1>8 DEF Beginning
<1>10. success <=> EndOfFrame(n)[1] = NULL
  <2>1. success <=> \A k \in {n} : k >= 1 /\ EndOfFrame(k)[1] = NULL
    BY DEF DInv, TokensRow
  <2> QED
    BY <1>2, <2>1
<1> QED
  BY <1>4, <1>9, <1>10

(***************************************************************************)
(* When ketl_bnf_parse is done, a text no beginning of which is derivable  *)
(* has left an empty stack and failed.  Otherwise the stack is the first   *)
(* derivation of a beginning of the text, in the order in which options    *)
(* and repetitions take what they can and alternatives are tried as they   *)
(* are written, and the text is accepted if and only if that derivation    *)
(* takes all of it: nothing the parser takes back on the way is lost.      *)
(***************************************************************************)
THEOREM FirstDerivation == Parsing => [](SymbolsSeparated => FirstFound)
<1>1. Init => RepeatsReset /\ SeparatedWait
  <2> SUFFICES ASSUME Init
               PROVE  RepeatsReset /\ AllWait
    BY DEF SeparatedWait
  <2>1. stack = FirstFrames /\ pc = "match"
    BY DEF Init, StartOn
  <2>2. RepeatsReset
    <3>1. Len(stack) = 1 /\ stack[1].state = 0
      BY <2>1 DEF FirstFrames, Frame
    <3>2. \A i \in 1 .. 1 : i = 1
      OBVIOUS
    <3> QED
      BY <3>1, <3>2 DEF RepeatsReset
  <2>3. ASSUME NEW d, Beginning(d)
        PROVE  Waits(d)
    <3>1. Agree(d, stack, Len(stack))
      BY <2>1, <2>3, BeginWaits DEF Beginning
    <3> QED
      BY <2>1, <3>1 DEF Waits
  <2> QED
    BY <2>2, <2>3 DEF AllWait
<1>2. IInv /\ DInv /\ SeparatedRow /\ SeparatedWait => (SymbolsSeparated => FirstFound)
  <2> SUFFICES ASSUME IInv, DInv, Row, AllWait, pc = "done"
               PROVE  FirstFound
    BY DEF SeparatedRow, SeparatedWait, FirstFound
  <2>1. CASE stack = <<>>
    <3>1. \A d \in Seq(Frames(Len(tokens))) : ~Beginning(d)
      BY <2>1 DEF AllWait, Waits
    <3>2. ~success
      <4>1. success => \A k \in {Len(stack)} : k >= 1
        BY DEF DInv, TokensRow
      <4>2. Len(stack) = 0
        BY <2>1
      <4> QED
        BY <4>1, <4>2
    <3> QED
      BY <2>1, <3>1, <3>2 DEF FirstFound
  <2>2. CASE stack # <<>>
    <3>1. Beginning(stack) /\ (success <=> Ended(stack, Len(stack))[1] = NULL)
      BY <2>2, DoneBegins
    <3>2. \A d \in Seq(Frames(Len(tokens))) :
            Beginning(d) =>
              Preferred(d, stack) \/ (Agree(d, stack, Len(stack)) /\ Len(d) = Len(stack))
      BY DEF AllWait, Waits
    <3> QED
      BY <2>2, <3>1, <3>2 DEF FirstFound
  <2> QED
    BY <2>1, <2>2
<1>3. Init => SeparatedRow
  <2> SUFFICES ASSUME Init
               PROVE  Row
    BY DEF SeparatedRow
  <2>1. stack = FirstFrames /\ pc = "match" /\ offset = 0
    BY DEF Init, StartOn
  <2> QED
    BY <2>1, OneFrame DEF Row
<1> QED
  BY <1>1, <1>2, <1>3, ParserInvariant, InitDerives, NextDerives, NextJoins, NextResets,
     NextWaits, PTL DEF Parsing

=============================================================================
