----------------------------- MODULE Dictionary -----------------------------
(***************************************************************************)
(* What a map from keys to objects promises its clients: an object keeps   *)
(* its address as long as its key is in the map, whatever else is added or *)
(* removed; an iteration visits every key exactly once even when it        *)
(* removes some of them; and a new key is refused only by a full map.      *)
(***************************************************************************)
EXTENDS Naturals, FiniteSets

CONSTANTS Key, Limit

VARIABLES
  where,    \* the address of the object of each key in the map
  visit,    \* the keys an iteration has yet to leave, the current one included
  at,       \* the set that holds the key the iteration stands on, if any
  refused,  \* a key has been refused since the map was cleared
  answer    \* what the last call returned

vars == <<where, visit, at, refused, answer>>

Address == Nat \ {0}

\* The address of a key, 0 if it has none.
Lookup(k) == IF k \in DOMAIN where THEN where[k] ELSE 0

Answer(k, address, new) == [key |-> k, address |-> address, new |-> new]

Init ==
  /\ where = <<>>
  /\ visit = {}
  /\ at = {}
  /\ refused = FALSE
  /\ \E k \in Key : answer = Answer(k, 0, FALSE)

Get(k) ==
  /\ answer' = Answer(k, Lookup(k), FALSE)
  /\ UNCHANGED <<where, visit, at, refused>>

Find(k) ==
  /\ k \in DOMAIN where
  /\ answer' = Answer(k, where[k], FALSE)
  /\ UNCHANGED <<where, visit, at, refused>>

Create(k) ==
  /\ k \notin DOMAIN where
  /\ visit = {}
  /\ answer'.address \in Address \ {where[j] : j \in DOMAIN where}
  /\ answer' = Answer(k, answer'.address, TRUE)
  /\ where' = [j \in DOMAIN where \cup {k} |->
                 IF j = k THEN answer'.address ELSE where[j]]
  /\ UNCHANGED <<visit, at, refused>>

\* A map that was full once may refuse keys until it is cleared.
Refuse(k) ==
  /\ k \notin DOMAIN where
  /\ refused \/ Cardinality(DOMAIN where) = Limit
  /\ refused' = TRUE
  /\ answer' = Answer(k, 0, FALSE)
  /\ UNCHANGED <<where, visit, at>>

Clear ==
  /\ visit = {}
  /\ where' = <<>>
  /\ refused' = FALSE
  /\ UNCHANGED <<visit, at, answer>>

\* The iteration stands on one of the keys it has yet to leave.
StandOn(keys) ==
  /\ visit' = keys
  /\ IF keys = {} THEN at' = {} ELSE \E k \in keys : at' = {k}

Iterate == StandOn(DOMAIN where) /\ UNCHANGED <<where, refused, answer>>

Current ==
  /\ \E k \in at : answer' = Answer(k, where[k], FALSE)
  /\ UNCHANGED <<where, visit, at, refused>>

Advance ==
  /\ at # {}
  /\ StandOn(visit \ at)
  /\ UNCHANGED <<where, refused, answer>>

Remove ==
  /\ at # {}
  /\ StandOn(visit \ at)
  /\ where' = [k \in DOMAIN where \ at |-> where[k]]
  /\ UNCHANGED <<refused, answer>>

Next ==
  \/ \E k \in Key : Get(k) \/ Find(k) \/ Create(k) \/ Refuse(k)
  \/ Clear
  \/ Iterate \/ Current \/ Advance \/ Remove

Spec == Init /\ [][Next]_vars

=============================================================================
