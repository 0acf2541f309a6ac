--------------------------- MODULE LexicalScopes ---------------------------
(***************************************************************************)
(* What scopes promise to whoever reads a source: a name stands for its    *)
(* innermost definition that is visible, else for the external variable of *)
(* that name; a scope has one definition of a name at most; and where a    *)
(* scope ends, everything is as it was before.  An if is a scope, which    *)
(* its branches share.                                                     *)
(***************************************************************************)
EXTENDS Naturals, Sequences

CONSTANTS Names, Definitions

VARIABLES
  scopes,     \* the scopes that are open, from the parameters to the innermost
  externals,  \* the external variables, by name
  used        \* what the names in the last statement were taken for

vars == <<scopes, externals, used>>

EmptyScope == <<>>

\* A scope has the names it defines, each with its definition.
IsScope(scope) == DOMAIN scope \subseteq Names /\ \A name \in DOMAIN scope : scope[name] \in Definitions

Init == scopes = <<>> /\ externals = EmptyScope /\ used = {}

Visible == DOMAIN externals \cup UNION {DOMAIN scopes[i] : i \in DOMAIN scopes}

\* The definition a name stands for.
Resolve(name) ==
  LET having == {i \in DOMAIN scopes : name \in DOMAIN scopes[i]}
  IN  IF having = {} THEN externals[name]
      ELSE LET inner == CHOOSE i \in having : \A j \in having : j <= i IN scopes[inner][name]

Bindings == {<<name, Resolve(name)>> : name \in Visible}

\* A scope in which a name has a definition, and the others those they had.
Extends(new, old, name) ==
  /\ IsScope(new)
  /\ DOMAIN new = DOMAIN old \cup {name}
  /\ \A other \in DOMAIN old \ {name} : new[other] = old[other]

\* A statement takes names for what they stand for.
Use == used' \subseteq Bindings

DefineExternal ==
  /\ scopes = <<>>
  /\ \E name \in Names : Extends(externals', externals, name)
  /\ UNCHANGED <<scopes, used>>

\* A function with parameters.
Open ==
  /\ scopes = <<>>
  /\ Len(scopes') = 2 /\ IsScope(scopes'[1]) /\ scopes'[2] = EmptyScope
  /\ used' = {}
  /\ UNCHANGED externals

\* Its end, or that of the attempt to build it.
Close == scopes # <<>> /\ scopes' = <<>> /\ used' = {} /\ UNCHANGED externals

\* The end of a source whose own definitions are external variables from then on.
Export ==
  /\ Len(scopes) = 2 /\ scopes' = <<>> /\ used' = {}
  /\ IsScope(externals')
  /\ DOMAIN externals' = DOMAIN externals \cup DOMAIN scopes[2]
  /\ \A name \in DOMAIN externals \ DOMAIN scopes[2] : externals'[name] = externals[name]

Enter == scopes # <<>> /\ Use /\ scopes' = Append(scopes, EmptyScope) /\ UNCHANGED externals

Leave ==
  /\ Len(scopes) > 2
  /\ scopes' = SubSeq(scopes, 1, Len(scopes) - 1)
  /\ used' = {}
  /\ UNCHANGED externals

\* The name does not stand for the definition within the statement yet.
Define ==
  /\ scopes # <<>>
  /\ Len(scopes') = Len(scopes)
  /\ \E name \in Names \ DOMAIN scopes[Len(scopes)] :
       Extends(scopes'[Len(scopes)], scopes[Len(scopes)], name)
  /\ \A i \in 1 .. Len(scopes) - 1 : scopes'[i] = scopes[i]
  /\ Use
  /\ UNCHANGED externals

Evaluate == scopes # <<>> /\ Use /\ UNCHANGED <<scopes, externals>>

Next == DefineExternal \/ Open \/ Close \/ Export \/ Enter \/ Leave \/ Define \/ Evaluate

Spec == Init /\ [][Next]_vars

=============================================================================
