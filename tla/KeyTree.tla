------------------------------ MODULE KeyTree --------------------------------
(***************************************************************************)
(* The tree of keys (STL/KeyTree.go), 16 children to a node.  A node is    *)
(* the path that leads to it from the root, which is << >>.  The tree has  *)
(* no lock: calls follow one another, one iteration of a loop at a time.   *)
(***************************************************************************)
EXTENDS Integers, Sequences

CONSTANTS
  Key,          \* sequences of bytes
  Data, Nil,    \* what a node may hold, Nil for nothing
  Min,          \* the values of minDigits
  MaxKeyDepth,  \* 15
  MaxAdds       \* calls of AddNode (a bound)

ASSUME KeyAssumption ==
  /\ Key \subseteq Seq(0..255)
  /\ Min \subseteq Int /\ Nil \notin Data
  /\ MaxKeyDepth \in Nat /\ MaxAdds \in Nat

VARIABLES
  node,    \* the nodes: path |-> [data, min]
  call,    \* what is being done, "none", "add" or "get"
  seg,     \* its key
  new,     \* the contents of the node to be added
  iter,    \* the node it is at
  best,    \* the last node with data that GetNode passed, the root if none
  adds,
  answer   \* GetNode's last answer

args == <<seg, new>>
vars == <<node, call, args, iter, best, adds, answer>>

Root == << >>
Empty == [data |-> Nil, min |-> 0]
idx == Len(iter) + 1  \* the byte to look at next

SlotKey(b) ==
  CASE b \in 48..57 -> b - 48
    [] b \in 97..102 -> b - 97 + 10
    [] b \in 65..70 -> b - 65 + 10
    [] OTHER -> -1

Child == Append(iter, SlotKey(seg[idx]))
AtDigit == idx <= Len(seg) /\ SlotKey(seg[idx]) \in 0..15
AtOther == idx <= Len(seg) /\ SlotKey(seg[idx]) \notin 0..15

Init ==
  /\ node = [p \in {Root} |-> Empty]
  /\ call = "none"
  /\ seg = << >>
  /\ new = Empty
  /\ iter = Root
  /\ best = Root
  /\ adds = 0
  /\ answer = << >>

Call(what, key, entry) ==
  /\ call = "none"
  /\ call' = what
  /\ seg' = key
  /\ new' = entry
  /\ iter' = Root
  /\ best' = Root
  /\ UNCHANGED <<node, answer>>

Return ==
  /\ call' = "none"
  /\ seg' = << >>
  /\ new' = Empty
  /\ iter' = Root
  /\ best' = Root
  /\ UNCHANGED adds

-----------------------------------------------------------------------------
(* A key that is too long is refused before anything is done.              *)
AddNode(min, key, data) ==
  /\ adds < MaxAdds
  /\ Len(key) <= MaxKeyDepth
  /\ Call("add", key, [data |-> data, min |-> min])
  /\ adds' = adds + 1

With(p, e) == [q \in DOMAIN node \cup {p} |-> IF q = p THEN e ELSE node[q]]

AddOnlyLast == \* mutant: makes no node on the way
  /\ call = "add" /\ AtDigit
  /\ iter' = Child
  /\ UNCHANGED <<node, call, args, best, adds, answer>>

AddGoesDown ==
  /\ call = "add" /\ AtDigit
  /\ node' = IF Child \in DOMAIN node THEN node ELSE With(Child, Empty)
  /\ iter' = Child
  /\ UNCHANGED <<call, args, best, adds, answer>>

AddFails ==
  /\ call = "add" /\ AtOther
  /\ Return
  /\ UNCHANGED <<node, answer>>

AddEnds ==
  /\ call = "add" /\ idx > Len(seg)
  /\ node' = With(iter, new)
  /\ Return
  /\ UNCHANGED answer

-----------------------------------------------------------------------------
GetNode(key) == Call("get", key, Empty) /\ UNCHANGED adds

GetTakesEvery == \* mutant: takes a node without data for a match
  /\ call = "get" /\ AtDigit /\ Child \in DOMAIN node
  /\ iter' = Child
  /\ best' = Child
  /\ UNCHANGED <<node, call, args, adds, answer>>

GetGoesDown ==
  /\ call = "get" /\ AtDigit /\ Child \in DOMAIN node
  /\ iter' = Child
  /\ best' = IF node[Child].data # Nil THEN Child ELSE best
  /\ UNCHANGED <<node, call, args, adds, answer>>

GetFails ==
  /\ call = "get" /\ AtOther
  /\ answer' = <<"invalid digit">>
  /\ Return
  /\ UNCHANGED node

(* The walk is over at the end of the key or of the tree.                  *)
GetEnds ==
  /\ call = "get"
  /\ idx > Len(seg) \/ (AtDigit /\ Child \notin DOMAIN node)
  /\ answer' = IF best = Root THEN <<"not found">>
               ELSE IF node[best].min > 0 /\ Len(seg) < node[best].min
               THEN <<"min digits", node[best].min>>
               ELSE <<"data", node[best].data>>
  /\ Return
  /\ UNCHANGED node

-----------------------------------------------------------------------------
Next ==
  \/ \E key \in Key :
       \/ GetNode(key)
       \/ \E min \in Min, data \in Data \cup {Nil} : AddNode(min, key, data)
  \/ AddGoesDown \/ AddFails \/ AddEnds
  \/ GetGoesDown \/ GetFails \/ GetEnds

Spec == Init /\ [][Next]_vars

-----------------------------------------------------------------------------
Path == Seq(0..15)

TypeOK ==
  /\ DOMAIN node \subseteq Path
  /\ \A p \in DOMAIN node : node[p] \in [data : Data \cup {Nil}, min : Min \cup {0}]
  /\ call \in {"none", "add", "get"}
  /\ seg \in Key \cup {<< >>}
  /\ new \in [data : Data \cup {Nil}, min : Min \cup {0}]
  /\ iter \in Path /\ best \in Path
  /\ adds \in 0..MaxAdds
  /\ answer \in {<< >>, <<"not found">>, <<"invalid digit">>}
                \cup {"data"} \X Data \cup {"min digits"} \X Min

(* Every node hangs on another one, and none is deeper than it may be, also*)
(* after calls that failed half-way.                                       *)
TreeIsWhole ==
  /\ Root \in DOMAIN node
  /\ \A p \in DOMAIN node \ {Root} : Len(p) <= MaxKeyDepth /\ SubSeq(p, 1, Len(p) - 1) \in DOMAIN node

(* The tree implements a table that is searched for the longest prefix;    *)
(* the nodes a failed AddNode leaves behind are no entries of it.          *)
Digits(key) == [i \in DOMAIN key |-> SlotKey(key[i])]
Entries == {p \in DOMAIN node \ {Root} : node[p].data # Nil}
Table == INSTANCE PrefixTable WITH
  Key <- {Digits(key) : key \in Key},
  table <- [p \in Entries |-> node[p]]
LongestPrefix == Table!Spec
=============================================================================
