--------------------------- MODULE AtomicStrings ---------------------------
(***************************************************************************)
(* The table of names (atomic_strings.c): every text is copied once, and   *)
(* the address of the copy stands for the name from then on, as the key of *)
(* the maps of variables and types.  Chains of buckets under an array of   *)
(* prime size, relinked when the table holds more texts than the array has *)
(* slots.                                                                  *)
(***************************************************************************)
EXTENDS Integers, FiniteSets, SequencesExt

CONSTANTS
  StringCapacities,  \* ketl_prime_capacities
  HashOf             \* ketl_hash_string of the texts of clients: 0 if too long

VARIABLE
  strings  \* "strings" of the state

ASSUME StringsAssumption ==
  /\ StringCapacities \in Seq(Nat \ {0}) /\ StringCapacities # <<>>
  /\ \A i, j \in DOMAIN StringCapacities : i < j => StringCapacities[i] < StringCapacities[j]
  /\ \A text \in DOMAIN HashOf : HashOf[text] \in Nat

-----------------------------------------------------------------------------

\* NULL, which a map takes for a key like any other.
NoKey == 0

Slots(capacity) == [i \in 0 .. capacity - 1 |-> <<>>]

\* "texts" are the copies in "stringPool", and a key is the number of its copy;
\* "buckets" has the chain of keys of every slot.
EmptyStrings ==
  [capacityIndex |-> 1, size |-> 0, buckets |-> Slots(StringCapacities[1]), texts |-> <<>>]

StringCapacity(table) == StringCapacities[table.capacityIndex]

\* A bucket becomes the first of its chain.
PutInFront(buckets, hash, key) ==
  [buckets EXCEPT ![hash % Cardinality(DOMAIN buckets)] = <<key>> \o @]

\* The bucket of a key is that of a text.
Matches(table, key, text) ==
  HashOf[table.texts[key]] = HashOf[text] /\ table.texts[key] = text

\* The key the walk over the chain of a text's slot finds, or NULL.
FindText(table, text) ==
  LET chain == table.buckets[HashOf[text] % StringCapacity(table)]
      place == SelectInSeq(chain, LAMBDA key : Matches(table, key, text))
  IN  IF place = 0 THEN NoKey ELSE chain[place]

\* Mutant of Relinked: only the first bucket of a chain finds its new slot.
RelinkedFirst(buckets, texts, chain) ==
  IF chain = <<>> THEN buckets
  ELSE [buckets EXCEPT ![HashOf[texts[chain[1]]] % Cardinality(DOMAIN buckets)] = chain \o @]

\* A chain is taken apart from its front, and each bucket gets its slot in "buckets".
Relinked(buckets, texts, chain) ==
  LET behind[n \in 0 .. Len(chain)] ==
        IF n = 0 THEN buckets
        ELSE PutInFront(behind[n - 1], HashOf[texts[chain[n]]], chain[n])
  IN  behind[Len(chain)]

\* The chains are linked under the larger array, one after the other.
Regrown(table) ==
  LET capacity == StringCapacities[table.capacityIndex + 1]
      behind[n \in 0 .. StringCapacity(table)] ==
        IF n = 0 THEN Slots(capacity)
        ELSE Relinked(behind[n - 1], table.texts, table.buckets[n - 1])
  IN  [table EXCEPT !.capacityIndex = @ + 1, !.buckets = behind[StringCapacity(table)]]

\* A copy of a new text, with its bucket.
Copied(table, text) ==
  LET key == Len(table.texts) + 1 IN
    [table EXCEPT !.texts = Append(@, text), !.buckets = PutInFront(@, HashOf[text], key)]

(***************************************************************************)
(* ketl_atomic_strings_get: the table afterwards, and the key.  A text too *)
(* long to have a hash gets none, and neither does one that no array has   *)
(* room for, which is counted all the same.  No client asks for "".        *)
(***************************************************************************)
GetKey(table, text) ==
  LET known == FindText(table, text)
      counted == [table EXCEPT !.size = @ + 1]
      full == counted.size > StringCapacity(table)
      Result(after, key) == [strings |-> after, key |-> key]
  IN  IF HashOf[text] = 0 THEN Result(table, NoKey)
      ELSE IF known # NoKey THEN Result(table, known)
      ELSE IF full /\ table.capacityIndex = Len(StringCapacities) THEN Result(counted, NoKey)
      ELSE Result(Copied(IF full THEN Regrown(counted) ELSE counted, text), Len(table.texts) + 1)

\* The table after a sequence of texts was asked for.
Interned(table, texts) ==
  LET behind[n \in 0 .. Len(texts)] ==
        IF n = 0 THEN table ELSE GetKey(behind[n - 1], texts[n]).strings
  IN  behind[Len(texts)]

\* The key of a text that was asked for before.
KeyOf(table, text) == GetKey(table, text).key

(***************************************************************************)
(* What happens to the table, whoever asks: texts of clients are asked for *)
(* in rows, since a step of the builder asks for all names of a statement. *)
(***************************************************************************)
Interning ==
  /\ \E texts \in Seq(DOMAIN HashOf) : strings = Interned(EmptyStrings, texts)
  /\ [][\E texts \in Seq(DOMAIN HashOf) : strings' = Interned(strings, texts)]_strings

-----------------------------------------------------------------------------

(***************************************************************************)
(* A name has one address: every text of the table is found, under the     *)
(* same key as when it was first asked for, however the table grew, and    *)
(* whatever names collide with it.                                         *)
(***************************************************************************)
NamesAreCanonical ==
  \A key \in DOMAIN strings.texts : FindText(strings, strings.texts[key]) = key

=============================================================================
