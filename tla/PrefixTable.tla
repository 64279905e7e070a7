----------------------------- MODULE PrefixTable -----------------------------
(***************************************************************************)
(* What the key tree promises: a table from keys to entries that answers   *)
(* with the entry of the longest prefix of the key it is asked for.        *)
(***************************************************************************)
EXTENDS Integers, Sequences

CONSTANTS
  Key,   \* sequences of digits, -1 in the place of what is none
  Data,  \* what an entry may hold
  Min    \* the least lengths an entry may ask of a key

VARIABLES
  table,  \* the entries, by key
  answer  \* the last answer, << >> at first

vars == <<table, answer>>

Entry == [data : Data, min : Min]

Init ==
  /\ table = [k \in {} |-> << >>]
  /\ answer = << >>

Add(k, e) ==
  /\ table' = [j \in DOMAIN table \cup {k} |-> IF j = k THEN e ELSE table[j]]
  /\ UNCHANGED answer

Drop(k) ==
  /\ k \in DOMAIN table
  /\ table' = [j \in DOMAIN table \ {k} |-> table[j]]
  /\ UNCHANGED answer

Beginning(k, n) == SubSeq(k, 1, n)

(* The lengths of the prefixes of k with an entry; the empty one has none. *)
Matches(k) == {n \in 1..Len(k) : Beginning(k, n) \in DOMAIN table}

Answer(k) ==
  IF Matches(k) = {} THEN <<"not found">>
  ELSE LET n == CHOOSE n \in Matches(k) : \A m \in Matches(k) : m <= n
           e == table[Beginning(k, n)]
       IN IF e.min > 0 /\ Len(k) < e.min THEN <<"min digits", e.min>> ELSE <<"data", e.data>>

(* A key with something else than digits may be refused, or answered.      *)
Get(k) ==
  /\ \/ answer' = Answer(k)
     \/ \E i \in DOMAIN k : k[i] = -1 /\ answer' = <<"invalid digit">>
  /\ UNCHANGED table

Next ==
  \E k \in Key : Get(k) \/ Drop(k) \/ \E e \in Entry : Add(k, e)

Spec == Init /\ [][Next]_vars
=============================================================================
