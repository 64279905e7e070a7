---------------------------- MODULE KeyTreeProofs ----------------------------
(***************************************************************************)
(* The key tree for any keys, data, least lengths and depth: no node is    *)
(* without its parent, and the tree implements the table of PrefixTable.   *)
(***************************************************************************)
EXTENDS KeyTree, SequenceTheorems, WellFoundedInduction, TLAPS

Prefix(key, n) == SubSeq(Digits(key), 1, n)

(* A node with data has the least length of an AddNode.                    *)
FilledInv ==
  /\ \A p \in DOMAIN node : node[p].data # Nil => node[p].min \in Min
  /\ call = "add" => new.min \in Min

(* A walk is at the node of the part of the key that is behind it.         *)
WalkInv ==
  /\ call # "none" =>
       /\ seg \in Key
       /\ Len(iter) <= Len(seg) /\ iter = Prefix(seg, Len(iter))
       /\ iter \in DOMAIN node
  /\ call = "add" => Len(seg) <= MaxKeyDepth

(* GetNode has passed no entry deeper than the best one.                   *)
BestInv ==
  call = "get" =>
    /\ best = Root \/ (best \in Entries /\ best = Prefix(seg, Len(best)))
    /\ Len(best) <= Len(iter)
    /\ \A n \in 1..Len(iter) : Prefix(seg, n) \in Entries => n <= Len(best)

(* The table: the nodes with data.                                         *)
EntriesOf(nodes) == [p \in {q \in DOMAIN nodes \ {Root} : nodes[q].data # Nil} |-> nodes[p]]

IInv == TypeOK /\ TreeIsWhole /\ FilledInv /\ WalkInv /\ BestInv

-----------------------------------------------------------------------------
(* Sequences and their beginnings.                                         *)
LEMMA Front ==
  ASSUME NEW S, NEW s \in Seq(S), NEW x \in S
  PROVE SubSeq(Append(s, x), 1, Len(Append(s, x)) - 1) = s
<1> DEFINE t == Append(s, x)
           u == SubSeq(t, 1, Len(t) - 1)
<1>1. /\ t \in Seq(S) /\ Len(t) = Len(s) + 1
      /\ \A i \in 1..Len(s) : t[i] = s[i]
  BY AppendProperties
<1>2. Len(s) \in Nat
  OBVIOUS
<1> HIDE DEF t
<1>3. /\ u \in Seq(S) /\ Len(u) = Len(s)
      /\ \A i \in 1..Len(s) : u[i] = t[i]
  <2>1. \A i \in 1..Len(t) - 1 : t[i] \in S
    BY <1>1, <1>2
  <2>2. /\ SubSeq(t, 1, Len(t) - 1) \in Seq(S)
        /\ Len(SubSeq(t, 1, Len(t) - 1)) =
             IF 1 <= Len(t) - 1 THEN Len(t) - 1 - 1 + 1 ELSE 0
        /\ \A i \in 1..Len(t) - 1 - 1 + 1 : SubSeq(t, 1, Len(t) - 1)[i] = t[1 + i - 1]
    BY <1>1, <1>2, <2>1, SubSeqProperties
  <2> QED
    BY <1>1, <1>2, <2>2
<1> HIDE DEF u
<1>4. u = s
  BY <1>1, <1>3, SeqEqual
<1> QED
  BY <1>4 DEF t, u

LEMMA SlotRange ==
  ASSUME NEW b \in 0..255
  PROVE SlotKey(b) \in -1..15
BY DEF SlotKey

LEMMA KeyBytes ==
  ASSUME NEW key \in Key \cup {<< >>}
  PROVE /\ key \in Seq(0..255) /\ Len(key) \in Nat /\ DOMAIN key = 1..Len(key)
        /\ \A i \in 1..Len(key) : key[i] \in 0..255
<1> DEFINE B == 0..255
<1>1. key \in Seq(B)
  <2>1. << >> \in Seq(B)
    BY EmptySeq
  <2> QED
    BY <2>1, KeyAssumption
<1> HIDE DEF B
<1>2. Len(key) \in Nat /\ DOMAIN key = 1..Len(key)
  BY <1>1, LenProperties
<1>3. \A i \in 1..Len(key) : key[i] \in B
  BY <1>1, ElementOfSeq
<1> QED
  BY <1>1, <1>2, <1>3 DEF B

LEMMA DigitsType ==
  ASSUME NEW key \in Key
  PROVE /\ Digits(key) \in Seq(-1..15) /\ Len(Digits(key)) = Len(key)
        /\ \A i \in 1..Len(key) : Digits(key)[i] = SlotKey(key[i])
<1>1. Len(key) \in Nat /\ DOMAIN key = 1..Len(key)
      /\ \A i \in 1..Len(key) : SlotKey(key[i]) \in -1..15
  BY KeyBytes, SlotRange
<1>2. Digits(key) = [i \in 1..Len(key) |-> SlotKey(key[i])]
  BY <1>1 DEF Digits
<1> QED
  BY <1>1, <1>2

LEMMA PrefixType ==
  ASSUME NEW key \in Key, NEW n \in 0..Len(key)
  PROVE Prefix(key, n) \in Seq(-1..15) /\ Len(Prefix(key, n)) = n
<1>1. /\ Digits(key) \in Seq(-1..15) /\ Len(Digits(key)) = Len(key)
      /\ Len(key) \in Nat
  BY DigitsType, KeyBytes
<1>2. \A i \in 1..n : Digits(key)[i] \in -1..15
  BY <1>1
<1>3. /\ SubSeq(Digits(key), 1, n) \in Seq(-1..15)
      /\ Len(SubSeq(Digits(key), 1, n)) = IF 1 <= n THEN n - 1 + 1 ELSE 0
  BY <1>1, <1>2, SubSeqProperties
<1> QED
  BY <1>1, <1>3 DEF Prefix

LEMMA PrefixNone ==
  ASSUME NEW key \in Key
  PROVE Prefix(key, 0) = Root
<1>1. 0 \in 0..Len(key)
  BY KeyBytes
<1>2. Prefix(key, 0) \in Seq(-1..15) /\ Len(Prefix(key, 0)) = 0
  BY <1>1, PrefixType
<1> QED
  BY <1>2 DEF Root

LEMMA PrefixAll ==
  ASSUME NEW key \in Key
  PROVE Prefix(key, Len(key)) = Digits(key)
<1>1. Digits(key) \in Seq(-1..15) /\ Len(Digits(key)) = Len(key)
  BY DigitsType
<1> QED
  BY <1>1, SubSeqFull DEF Prefix

LEMMA PrefixNext ==
  ASSUME NEW key \in Key, NEW n \in 1..Len(key)
  PROVE Prefix(key, n) = Append(Prefix(key, n - 1), SlotKey(key[n]))
<1> DEFINE d == Digits(key)
<1>1. /\ d \in Seq(-1..15) /\ Len(d) = Len(key) /\ d[n] = SlotKey(key[n])
      /\ Len(key) \in Nat
  BY DigitsType, KeyBytes
<1>2. n - 1 \in 0..Len(key) /\ Prefix(key, n - 1) \in Seq(-1..15)
  BY <1>1, PrefixType
<1>3. SlotKey(key[n]) \in -1..15
  BY KeyBytes, SlotRange
<1> HIDE DEF d
<1>4. SubSeq(d, 1, n) = SubSeq(d, 1, n - 1) \o <<d[n]>>
  <2>1. 1 \in 1..Len(d) /\ n \in 1..Len(d)
    BY <1>1
  <2> QED
    BY <1>1, <2>1, SubSeqRecursiveSecond
<1>5. Prefix(key, n) = Prefix(key, n - 1) \o <<SlotKey(key[n])>>
  BY <1>1, <1>4 DEF Prefix, d
<1>6. Append(Prefix(key, n - 1), SlotKey(key[n])) = Prefix(key, n - 1) \o <<SlotKey(key[n])>>
  BY <1>2, <1>3, AppendIsConcat
<1> QED
  BY <1>5, <1>6

(* The parent of the node of a beginning is the node of the one before it. *)
LEMMA PrefixParent ==
  ASSUME NEW key \in Key, NEW n \in 1..Len(key)
  PROVE SubSeq(Prefix(key, n), 1, Len(Prefix(key, n)) - 1) = Prefix(key, n - 1)
<1>1. n - 1 \in 0..Len(key) /\ Prefix(key, n - 1) \in Seq(-1..15)
  BY PrefixType, KeyBytes
<1>2. SlotKey(key[n]) \in -1..15
  BY KeyBytes, SlotRange
<1>3. Prefix(key, n) = Append(Prefix(key, n - 1), SlotKey(key[n]))
  BY PrefixNext
<1> QED
  BY <1>1, <1>2, <1>3, Front

LEMMA First == ASSUME NEW T, T \subseteq Nat, T # {} PROVE \E x \in T : \A y \in T : x <= y
<1> DEFINE R == {p \in Nat \X Nat : p[1] < p[2]}
<1>1. IsWellFoundedOn(R, Nat)
  BY NatLessThanWellFounded DEF OpToRel, IsWellFoundedOn
<1>2. PICK x \in T : \A y \in T : ~ (<<y, x>> \in R)
  BY <1>1, WFMin
<1>3. ASSUME NEW y \in T PROVE x <= y
  <2>1. <<y, x>> \in Nat \X Nat /\ ~ (<<y, x>> \in R)
    BY <1>2
  <2>2. ~ (y < x)
    BY <2>1
  <2> QED
    BY <2>2
<1> QED
  BY <1>3

(* Where a beginning of the key has no node, no longer one has.            *)
LEMMA NothingBeyond ==
  ASSUME TreeIsWhole, NEW key \in Key, NEW m \in 1..Len(key),
         Prefix(key, m) \notin DOMAIN node,
         NEW n \in m..Len(key)
  PROVE Prefix(key, n) \notin DOMAIN node
<1> DEFINE T == {k \in m..Len(key) : Prefix(key, k) \in DOMAIN node}
<1>0. Len(key) \in Nat
  BY KeyBytes
<1> SUFFICES ASSUME Prefix(key, n) \in DOMAIN node PROVE FALSE
  OBVIOUS
<1>1. PICK x \in T : \A y \in T : x <= y
  <2>1. T \subseteq Nat /\ n \in T
    BY <1>0
  <2> HIDE DEF T
  <2> QED
    BY <2>1, First
<1>2. x \in m..Len(key) /\ x # m /\ Prefix(key, x) \in DOMAIN node
  OBVIOUS
<1>3. x \in 1..Len(key) /\ x \in 0..Len(key)
  BY <1>0, <1>2
<1>4. Prefix(key, x) # Root
  <2>1. Len(Prefix(key, x)) = x
    BY <1>3, PrefixType
  <2> QED
    BY <1>3, <2>1 DEF Root
<1>5. Prefix(key, x - 1) \in DOMAIN node
  <2>1. SubSeq(Prefix(key, x), 1, Len(Prefix(key, x)) - 1) \in DOMAIN node
    BY <1>2, <1>4 DEF TreeIsWhole
  <2> QED
    BY <1>3, <2>1, PrefixParent
<1>6. x - 1 \in T
  BY <1>0, <1>2, <1>5
<1> QED
  BY <1>0, <1>1, <1>2, <1>6

-----------------------------------------------------------------------------
(* Steps of the walks.                                                     *)
NodeType == [data : Data \cup {Nil}, min : Min \cup {0}]

LEMMA EmptyType == Empty \in NodeType /\ Empty.data = Nil
BY DEF Empty, NodeType

(* At a digit the child is the node of the next beginning.                 *)
LEMMA AtChild ==
  ASSUME TypeOK, WalkInv, call # "none", AtDigit
  PROVE /\ seg \in Key /\ Len(seg) \in Nat /\ Len(iter) \in 0..Len(seg)
        /\ idx \in 1..Len(seg) /\ iter \in Path /\ iter \in DOMAIN node
        /\ Child \in Path /\ Len(Child) = Len(iter) + 1 /\ Child # Root
        /\ SubSeq(Child, 1, Len(Child) - 1) = iter
        /\ Child = Prefix(seg, Len(iter) + 1)
<1>1. /\ seg \in Key /\ iter \in Path /\ Len(iter) <= Len(seg)
      /\ iter = Prefix(seg, Len(iter)) /\ iter \in DOMAIN node
  BY DEF WalkInv, TypeOK
<1>2. Len(iter) \in Nat /\ Len(seg) \in Nat
  BY <1>1, KeyBytes DEF Path
<1>3. idx \in 1..Len(seg) /\ SlotKey(seg[idx]) \in 0..15 /\ idx = Len(iter) + 1
  BY <1>2 DEF AtDigit, idx
<1>4. /\ Child \in Path /\ Len(Child) = Len(iter) + 1 /\ Child # << >>
      /\ SubSeq(Child, 1, Len(Child) - 1) = iter
  <2> DEFINE x == SlotKey(seg[idx])
             D == 0..15
  <2>1. iter \in Seq(D) /\ x \in D /\ Child = Append(iter, x)
    BY <1>1, <1>3 DEF Path, Child
  <2> HIDE DEF x, D
  <2>2. /\ Child \in Seq(D) /\ Len(Child) = Len(iter) + 1 /\ Child # << >>
    BY <2>1, AppendProperties
  <2>3. SubSeq(Child, 1, Len(Child) - 1) = iter
    BY <2>1, Front
  <2> QED
    BY <2>2, <2>3 DEF Path, D
<1>5. Child = Prefix(seg, Len(iter) + 1)
  <2>1. Prefix(seg, idx) = Append(Prefix(seg, idx - 1), SlotKey(seg[idx]))
    BY <1>1, <1>3, PrefixNext
  <2>2. idx - 1 = Len(iter)
    BY <1>2, <1>3
  <2>3. Prefix(seg, idx - 1) = iter
    BY <1>1, <2>2
  <2> QED
    BY <1>3, <2>1, <2>3 DEF Child
<1> QED
  BY <1>1, <1>2, <1>3, <1>4, <1>5 DEF Root

(* When nothing is being done, all about it is at its start.               *)
LEMMA Returned ==
  ASSUME TypeOK, Return
  PROVE /\ call' = "none" /\ adds' = adds
        /\ seg' \in Key \cup {<< >>} /\ new' \in NodeType
        /\ iter' \in Path /\ best' \in Path
        /\ WalkInv' /\ BestInv' /\ (call' = "add" => new'.min \in Min)
<1>1. << >> \in Path
  BY DEF Path
<1> QED
  BY <1>1, EmptyType DEF Return, WalkInv, BestInv, Root

LEMMA InductiveInit == Init => IInv
<1> SUFFICES ASSUME Init PROVE IInv
  OBVIOUS
<1>1. DOMAIN node = {Root} /\ node[Root] = Empty
  BY DEF Init
<1>2. Root \in Path
  BY DEF Path, Root
<1>3. TypeOK
  BY <1>1, <1>2, EmptyType, KeyAssumption DEF Init, TypeOK, NodeType
<1>4. TreeIsWhole
  BY <1>1 DEF TreeIsWhole
<1>5. FilledInv /\ WalkInv /\ BestInv
  BY <1>1, EmptyType DEF Init, FilledInv, WalkInv, BestInv
<1> QED
  BY <1>3, <1>4, <1>5 DEF IInv

LEMMA CallStep ==
  ASSUME IInv, NEW what \in {"add", "get"}, NEW key \in Key,
         NEW entry \in NodeType, Call(what, key, entry),
         what = "add" => Len(key) <= MaxKeyDepth /\ entry.min \in Min,
         adds' \in 0..MaxAdds
  PROVE IInv'
<1>1. /\ call' = what /\ seg' = key /\ new' = entry /\ iter' = Root /\ best' = Root
      /\ UNCHANGED <<node, answer>>
  BY DEF Call
<1>2. Root \in Path /\ Root \in DOMAIN node /\ Len(Root) = 0
  BY DEF Path, Root, IInv, TreeIsWhole
<1>3. TypeOK'
  BY <1>1, <1>2 DEF IInv, TypeOK, NodeType
<1>4. TreeIsWhole' /\ FilledInv'
  BY <1>1 DEF IInv, TreeIsWhole, FilledInv
<1>5. WalkInv'
  BY <1>1, <1>2, PrefixNone, KeyBytes DEF WalkInv
<1>6. BestInv'
  BY <1>1, <1>2 DEF BestInv
<1> QED
  BY <1>3, <1>4, <1>5, <1>6 DEF IInv

LEMMA AddGoesDownStep ==
  ASSUME IInv, AddGoesDown
  PROVE IInv' /\ UNCHANGED answer /\ EntriesOf(node') = EntriesOf(node)
<1>1. /\ call = "add" /\ AtDigit /\ iter' = Child
      /\ UNCHANGED <<call, args, best, adds, answer>>
      /\ Child \in DOMAIN node => node' = node
      /\ Child \notin DOMAIN node => node' = With(Child, Empty)
  BY DEF AddGoesDown
<1>2. seg' = seg /\ new' = new
  BY <1>1 DEF args
<1>3. /\ seg \in Key /\ Len(seg) \in Nat /\ Len(iter) \in 0..Len(seg)
      /\ idx \in 1..Len(seg) /\ iter \in Path /\ iter \in DOMAIN node
      /\ Child \in Path /\ Len(Child) = Len(iter) + 1 /\ Child # Root
      /\ SubSeq(Child, 1, Len(Child) - 1) = iter
      /\ Child = Prefix(seg, Len(iter) + 1)
  BY <1>1, AtChild DEF IInv
<1>4. idx = Len(iter) + 1
  BY DEF idx
<1>5. /\ DOMAIN node' = DOMAIN node \cup {Child}
      /\ \A p \in DOMAIN node : node'[p] = node[p]
      /\ Child \notin DOMAIN node => node'[Child] = Empty
  <2>1. CASE Child \in DOMAIN node
    BY <1>1, <2>1
  <2>2. CASE Child \notin DOMAIN node
    <3>1. node' = With(Child, Empty)
      BY <1>1, <2>2
    <3> DEFINE c == Child
               f == node'
    <3>2. f = With(c, Empty)
      BY <3>1
    <3> HIDE DEF c, f
    <3>3. /\ DOMAIN f = DOMAIN node \cup {c}
          /\ f[c] = Empty
          /\ \A q \in DOMAIN node : q # c => f[q] = node[q]
      BY <3>2 DEF With
    <3> QED
      BY <2>2, <3>3 DEF c, f
  <2> QED
    BY <2>1, <2>2
<1>6. TypeOK'
  <2>1. ASSUME NEW p \in DOMAIN node' PROVE node'[p] \in NodeType
    BY <1>5, EmptyType DEF IInv, TypeOK, NodeType
  <2>2. DOMAIN node' \subseteq Path
    BY <1>3, <1>5 DEF IInv, TypeOK
  <2> QED
    BY <1>1, <1>2, <1>3, <2>1, <2>2 DEF IInv, TypeOK, NodeType
<1>7. TreeIsWhole'
  <2>1. Root \in DOMAIN node'
    BY <1>5 DEF IInv, TreeIsWhole
  <2>2. Len(Child) <= MaxKeyDepth
    <3>1. Len(seg) <= MaxKeyDepth /\ MaxKeyDepth \in Nat
      BY <1>1, KeyAssumption DEF IInv, WalkInv
    <3> QED
      BY <1>3, <1>4, <3>1
  <2>3. ASSUME NEW p \in DOMAIN node' \ {Root}
        PROVE Len(p) <= MaxKeyDepth /\ SubSeq(p, 1, Len(p) - 1) \in DOMAIN node'
    <3>1. CASE p \in DOMAIN node
      BY <1>5, <2>3, <3>1 DEF IInv, TreeIsWhole
    <3>2. CASE p = Child
      BY <1>3, <1>5, <2>2, <3>2
    <3> QED
      BY <1>5, <3>1, <3>2
  <2> QED
    BY <2>1, <2>3 DEF TreeIsWhole
<1>8. FilledInv'
  BY <1>1, <1>2, <1>5, EmptyType DEF IInv, FilledInv
<1>9. WalkInv'
  <2>1. Len(Child) <= Len(seg)
    BY <1>3, <1>4
  <2>2. Child = Prefix(seg, Len(Child))
    BY <1>3
  <2>3. Child \in DOMAIN node'
    BY <1>5
  <2> QED
    BY <1>1, <1>2, <2>1, <2>2, <2>3 DEF IInv, WalkInv
<1>10. BestInv'
  BY <1>1 DEF BestInv
<1>11. EntriesOf(node') = EntriesOf(node)
  <2> DEFINE E(nodes) == {q \in DOMAIN nodes \ {Root} : nodes[q].data # Nil}
  <2>1. E(node') = E(node)
    BY <1>5, EmptyType
  <2>2. \A p \in E(node) : node'[p] = node[p]
    BY <1>5
  <2>3. EntriesOf(node') = [p \in E(node) |-> node'[p]]
    BY <2>1 DEF EntriesOf
  <2> QED
    BY <2>2, <2>3 DEF EntriesOf
<1> QED
  BY <1>1, <1>5, <1>6, <1>7, <1>8, <1>9, <1>10, <1>11 DEF IInv

LEMMA AddEndsStep ==
  ASSUME IInv, AddEnds
  PROVE /\ IInv' /\ UNCHANGED answer
        /\ seg \in Key /\ iter = Digits(seg) /\ iter \in DOMAIN node
        /\ DOMAIN node' = DOMAIN node /\ node'[iter] = new
        /\ \A p \in DOMAIN node : p # iter => node'[p] = node[p]
<1>1. /\ call = "add" /\ idx > Len(seg) /\ node' = With(iter, new) /\ Return
      /\ UNCHANGED answer
  BY DEF AddEnds
<1>2. /\ seg \in Key /\ Len(iter) <= Len(seg) /\ iter = Prefix(seg, Len(iter))
      /\ iter \in DOMAIN node /\ new.min \in Min /\ new \in NodeType /\ iter \in Path
  BY <1>1 DEF IInv, WalkInv, FilledInv, TypeOK, NodeType
<1>3. iter = Digits(seg)
  <2>1. Len(iter) \in Nat /\ Len(seg) \in Nat
    BY <1>2, KeyBytes DEF Path
  <2>2. Len(iter) = Len(seg)
    BY <1>1, <1>2, <2>1 DEF idx
  <2> QED
    BY <1>2, <2>2, PrefixAll
<1>4. /\ DOMAIN node' = DOMAIN node /\ node'[iter] = new
      /\ \A p \in DOMAIN node : p # iter => node'[p] = node[p]
  <2> DEFINE f == node'
  <2>1. f = With(iter, new)
    BY <1>1
  <2> HIDE DEF f
  <2>2. /\ DOMAIN f = DOMAIN node \cup {iter}
        /\ f[iter] = new
        /\ \A q \in DOMAIN node : q # iter => f[q] = node[q]
    BY <2>1 DEF With
  <2> QED
    BY <1>2, <2>2 DEF f
<1>5. /\ call' = "none" /\ adds' = adds
      /\ seg' \in Key \cup {<< >>} /\ new' \in NodeType
      /\ iter' \in Path /\ best' \in Path
      /\ WalkInv' /\ BestInv'
  BY <1>1, Returned DEF IInv
<1>6. TypeOK'
  <2>1. ASSUME NEW p \in DOMAIN node' PROVE node'[p] \in NodeType
    BY <1>2, <1>4 DEF IInv, TypeOK, NodeType
  <2> QED
    BY <1>1, <1>4, <1>5, <2>1 DEF IInv, TypeOK, NodeType
<1>7. TreeIsWhole'
  BY <1>4 DEF IInv, TreeIsWhole
<1>8. FilledInv'
  BY <1>2, <1>4, <1>5 DEF IInv, FilledInv
<1> QED
  BY <1>1, <1>2, <1>3, <1>4, <1>5, <1>6, <1>7, <1>8 DEF IInv

LEMMA FailsStep ==
  ASSUME IInv, Return, UNCHANGED node,
         answer' = answer \/ answer' = <<"invalid digit">>
  PROVE IInv'
<1>1. /\ call' = "none" /\ adds' = adds
      /\ seg' \in Key \cup {<< >>} /\ new' \in NodeType
      /\ iter' \in Path /\ best' \in Path
      /\ WalkInv' /\ BestInv'
  BY Returned DEF IInv
<1>2. TypeOK'
  <2>1. answer' \in {<< >>, <<"not found">>, <<"invalid digit">>}
                    \cup {"data"} \X Data \cup {"min digits"} \X Min
    BY DEF IInv, TypeOK
  <2> QED
    BY <1>1, <2>1 DEF IInv, TypeOK, NodeType
<1>3. TreeIsWhole' /\ FilledInv'
  BY <1>1 DEF IInv, TreeIsWhole, FilledInv
<1> QED
  BY <1>1, <1>2, <1>3 DEF IInv

LEMMA GetGoesDownStep ==
  ASSUME IInv, GetGoesDown
  PROVE IInv' /\ UNCHANGED <<node, answer>>
<1>1. /\ call = "get" /\ AtDigit /\ Child \in DOMAIN node /\ iter' = Child
      /\ best' = IF node[Child].data # Nil THEN Child ELSE best
      /\ UNCHANGED <<node, call, adds, answer>> /\ seg' = seg /\ new' = new
  BY DEF GetGoesDown, args
<1>2. /\ seg \in Key /\ Len(seg) \in Nat /\ Len(iter) \in 0..Len(seg)
      /\ idx \in 1..Len(seg) /\ iter \in Path
      /\ Child \in Path /\ Len(Child) = Len(iter) + 1 /\ Child # Root
      /\ Child = Prefix(seg, Len(iter) + 1)
  BY <1>1, AtChild DEF IInv
<1>3. best' \in Path /\ Entries' = Entries
  BY <1>1, <1>2 DEF IInv, TypeOK, Entries
<1>4. TypeOK'
  BY <1>1, <1>2, <1>3 DEF IInv, TypeOK
<1>5. TreeIsWhole' /\ FilledInv'
  BY <1>1 DEF IInv, TreeIsWhole, FilledInv
<1>6. WalkInv'
  <2>1. Len(Child) <= Len(seg) /\ Child = Prefix(seg, Len(Child))
    BY <1>2 DEF idx
  <2> QED
    BY <1>1, <2>1 DEF IInv, WalkInv
<1>7. BestInv'
  <2>1. /\ best = Root \/ (best \in Entries /\ best = Prefix(seg, Len(best)))
        /\ Len(best) <= Len(iter) /\ Len(best) \in Nat
        /\ \A n \in 1..Len(iter) : Prefix(seg, n) \in Entries => n <= Len(best)
    <3>1. best \in Path
      BY DEF IInv, TypeOK
    <3>2. Len(best) \in Nat
      BY <3>1 DEF Path
    <3> QED
      BY <1>1, <3>2 DEF IInv, BestInv
  <2>2. CASE node[Child].data # Nil
    <3>1. best' = Child /\ Child \in Entries
      BY <1>1, <1>2, <2>2 DEF Entries
    <3>2. Child = Prefix(seg, Len(Child))
      BY <1>2
    <3>3. Len(Child) <= Len(Child)
      BY <1>2
    <3>4. \A n \in 1..Len(Child) : n <= Len(Child)
      BY <1>2
    <3> QED
      BY <1>1, <1>3, <3>1, <3>2, <3>3, <3>4 DEF BestInv
  <2>3. CASE node[Child].data = Nil
    <3>1. best' = best /\ Child \notin Entries
      BY <1>1, <2>3 DEF Entries
    <3>2. Len(best) <= Len(Child)
      BY <1>2, <2>1
    <3>3. ASSUME NEW n \in 1..Len(Child), Prefix(seg, n) \in Entries
          PROVE n <= Len(best)
      <4>1. n # Len(iter) + 1
        BY <1>2, <3>1, <3>3
      <4>2. n \in 1..Len(iter)
        BY <1>2, <4>1
      <4> QED
        BY <2>1, <3>3, <4>2
    <3> QED
      BY <1>1, <1>3, <2>1, <3>1, <3>2, <3>3 DEF BestInv
  <2> QED
    BY <2>2, <2>3
<1> QED
  BY <1>1, <1>4, <1>5, <1>6, <1>7 DEF IInv

(* At the end of the walk the best node is that of the longest beginning   *)
(* of the key that has an entry.                                           *)
LEMMA BestIsLongest ==
  ASSUME IInv, call = "get",
         (idx > Len(seg)) \/ (AtDigit /\ Child \notin DOMAIN node)
  PROVE /\ seg \in Key /\ Len(seg) \in Nat
        /\ best = Root \/ (best \in Entries /\ Len(best) \in 1..Len(seg)
                             /\ best = Prefix(seg, Len(best)))
        /\ Len(best) \in Nat
        /\ \A k \in 1..Len(seg) : Prefix(seg, k) \in Entries => k <= Len(best)
<1>1. /\ seg \in Key /\ Len(iter) <= Len(seg)
      /\ best = Root \/ (best \in Entries /\ best = Prefix(seg, Len(best)))
      /\ Len(best) <= Len(iter)
      /\ \A k \in 1..Len(iter) : Prefix(seg, k) \in Entries => k <= Len(best)
  BY DEF IInv, WalkInv, BestInv
<1>2. Len(seg) \in Nat /\ Len(iter) \in Nat /\ best \in Path
  <2>1. iter \in Path /\ best \in Path
    BY DEF IInv, TypeOK
  <2>2. Len(iter) \in Nat
    BY <2>1 DEF Path
  <2> QED
    BY <1>1, <2>1, <2>2, KeyBytes
<1>3. Len(best) \in Nat /\ (best # Root => Len(best) # 0)
  BY <1>2 DEF Path, Root
<1>4. ASSUME NEW k \in 1..Len(seg), Prefix(seg, k) \in Entries
      PROVE k <= Len(best)
  <2>1. CASE k <= Len(iter)
    BY <1>1, <1>2, <1>4, <2>1
  <2>2. CASE k > Len(iter)
    <3>1. AtDigit /\ Child \notin DOMAIN node
      BY <1>2, <2>2 DEF idx
    <3> DEFINE m == Len(iter) + 1
    <3>2. m \in 1..Len(seg) /\ k \in m..Len(seg)
      BY <1>2, <2>2
    <3>3. Prefix(seg, m) \notin DOMAIN node
      BY <3>1, AtChild DEF IInv
    <3> HIDE DEF m
    <3>4. Prefix(seg, k) \notin DOMAIN node
      BY <1>1, <3>2, <3>3, NothingBeyond DEF IInv
    <3> QED
      BY <1>4, <3>4 DEF Entries
  <2> QED
    BY <1>2, <2>1, <2>2
<1>5. best # Root => Len(best) \in 1..Len(seg)
  BY <1>1, <1>2, <1>3
<1> QED
  BY <1>1, <1>2, <1>3, <1>4, <1>5

LEMMA AnswerOfBest ==
  ASSUME IInv, call = "get",
         (idx > Len(seg)) \/ (AtDigit /\ Child \notin DOMAIN node)
  PROVE Table!Answer(Digits(seg)) =
          IF best = Root THEN <<"not found">>
          ELSE IF node[best].min > 0 /\ Len(seg) < node[best].min
          THEN <<"min digits", node[best].min>>
          ELSE <<"data", node[best].data>>
<1> DEFINE d == Digits(seg)
           M == Table!Matches(d)
           t == [p \in Entries |-> node[p]]
<1>1. /\ seg \in Key /\ Len(seg) \in Nat
      /\ best = Root \/ (best \in Entries /\ Len(best) \in 1..Len(seg)
                           /\ best = Prefix(seg, Len(best)))
      /\ Len(best) \in Nat
      /\ \A k \in 1..Len(seg) : Prefix(seg, k) \in Entries => k <= Len(best)
  BY BestIsLongest
<1>2. Len(d) = Len(seg)
  BY <1>1, DigitsType
<1>3. M = {k \in 1..Len(seg) : Prefix(seg, k) \in Entries}
  BY <1>2 DEF Table!Matches, Table!Beginning, Prefix
<1>4. Table!Answer(d) =
        IF M = {} THEN <<"not found">>
        ELSE LET n == CHOOSE n \in M : \A m \in M : m <= n
                 e == t[SubSeq(d, 1, n)]
             IN IF e.min > 0 /\ Len(d) < e.min
                THEN <<"min digits", e.min>> ELSE <<"data", e.data>>
  BY DEF Table!Answer, Table!Beginning
<1> HIDE DEF M
<1>5. CASE best = Root
  <2>1. Len(best) = 0
    BY <1>5 DEF Root
  <2>2. M = {}
    BY <1>1, <1>3, <2>1
  <2> QED
    BY <1>4, <1>5, <2>2
<1>6. CASE best # Root
  <2>1. Len(best) \in M /\ M \subseteq Nat /\ \A m \in M : m <= Len(best)
    BY <1>1, <1>3, <1>6
  <2>2. (CHOOSE n \in M : \A m \in M : m <= n) = Len(best)
    <3> DEFINE x == CHOOSE n \in M : \A m \in M : m <= n
    <3>1. \E n \in M : \A m \in M : m <= n
      BY <2>1
    <3>2. x \in M /\ \A m \in M : m <= x
      BY <3>1, Zenon
    <3> HIDE DEF x
    <3>3. x = Len(best)
      BY <1>1, <2>1, <3>2
    <3> QED
      BY <3>3 DEF x
  <2>3. M # {}
    BY <2>1
  <2>4. t[SubSeq(d, 1, Len(best))] = node[best]
    <3>1. SubSeq(d, 1, Len(best)) = best /\ best \in Entries
      BY <1>1, <1>6 DEF Prefix
    <3> QED
      BY <3>1
  <2> HIDE DEF t, d
  <2>5. Table!Answer(d) = IF node[best].min > 0 /\ Len(seg) < node[best].min
                          THEN <<"min digits", node[best].min>>
                          ELSE <<"data", node[best].data>>
    BY <1>2, <1>4, <2>2, <2>3, <2>4
  <2> QED
    BY <1>6, <2>5 DEF d
<1> QED
  BY <1>5, <1>6

LEMMA GetEndsStep ==
  ASSUME IInv, GetEnds
  PROVE /\ IInv' /\ UNCHANGED node
        /\ seg \in Key /\ answer' = Table!Answer(Digits(seg))
<1>1. /\ call = "get" /\ Return /\ UNCHANGED node
      /\ (idx > Len(seg)) \/ (AtDigit /\ Child \notin DOMAIN node)
      /\ answer' = IF best = Root THEN <<"not found">>
                   ELSE IF node[best].min > 0 /\ Len(seg) < node[best].min
                   THEN <<"min digits", node[best].min>>
                   ELSE <<"data", node[best].data>>
  BY DEF GetEnds
<1>2. answer' = Table!Answer(Digits(seg)) /\ seg \in Key
  BY <1>1, AnswerOfBest, BestIsLongest
<1>3. /\ call' = "none" /\ adds' = adds
      /\ seg' \in Key \cup {<< >>} /\ new' \in NodeType
      /\ iter' \in Path /\ best' \in Path
      /\ WalkInv' /\ BestInv'
  BY <1>1, Returned DEF IInv
<1>4. answer' \in {<< >>, <<"not found">>, <<"invalid digit">>}
                  \cup {"data"} \X Data \cup {"min digits"} \X Min
  <2>1. best = Root \/ best \in Entries
    BY <1>1, BestIsLongest
  <2>2. CASE best = Root
    BY <1>1, <2>2
  <2>3. CASE best # Root
    <3>1. /\ best \in DOMAIN node /\ node[best].data # Nil
      BY <2>1, <2>3 DEF Entries
    <3>2. node[best] \in NodeType /\ node[best].min \in Min
      BY <3>1 DEF IInv, TypeOK, FilledInv, NodeType
    <3>3. node[best].data \in Data
      BY <3>1, <3>2 DEF NodeType
    <3> QED
      BY <1>1, <2>3, <3>2, <3>3
  <2> QED
    BY <2>2, <2>3
<1>5. TypeOK'
  BY <1>1, <1>3, <1>4 DEF IInv, TypeOK, NodeType
<1>6. TreeIsWhole' /\ FilledInv'
  BY <1>1, <1>3 DEF IInv, TreeIsWhole, FilledInv
<1> QED
  BY <1>1, <1>2, <1>3, <1>5, <1>6 DEF IInv

-----------------------------------------------------------------------------
LEMMA InductiveStep == IInv /\ [Next]_vars => IInv'
<1> SUFFICES ASSUME IInv, [Next]_vars PROVE IInv'
  OBVIOUS
<1>1. ASSUME NEW key \in Key, GetNode(key) PROVE IInv'
  <2>1. Call("get", key, Empty) /\ adds' = adds
    BY <1>1 DEF GetNode
  <2>2. adds' \in 0..MaxAdds
    BY <2>1 DEF IInv, TypeOK
  <2> QED
    BY <2>1, <2>2, EmptyType, CallStep
<1>2. ASSUME NEW key \in Key, NEW min \in Min, NEW data \in Data \cup {Nil},
             AddNode(min, key, data)
      PROVE IInv'
  <2> DEFINE e == [data |-> data, min |-> min]
  <2>1. Call("add", key, e) /\ Len(key) <= MaxKeyDepth
        /\ adds < MaxAdds /\ adds' = adds + 1
    BY <1>2 DEF AddNode
  <2>2. adds' \in 0..MaxAdds
    <3>1. adds \in 0..MaxAdds
      BY DEF IInv, TypeOK
    <3> QED
      BY <2>1, <3>1, KeyAssumption
  <2>3. e \in NodeType /\ e.min \in Min
    BY DEF NodeType
  <2> HIDE DEF e
  <2> QED
    BY <2>1, <2>2, <2>3, CallStep
<1>3. CASE AddGoesDown
  BY <1>3, AddGoesDownStep
<1>4. CASE AddFails
  BY <1>4, FailsStep DEF AddFails
<1>5. CASE AddEnds
  BY <1>5, AddEndsStep
<1>6. CASE GetGoesDown
  BY <1>6, GetGoesDownStep
<1>7. CASE GetFails
  BY <1>7, FailsStep DEF GetFails
<1>8. CASE GetEnds
  BY <1>8, GetEndsStep
<1>9. CASE UNCHANGED vars
  BY <1>9 DEF vars, args, IInv, TypeOK, TreeIsWhole, FilledInv, WalkInv, BestInv, Entries
<1> QED
  BY <1>1, <1>2, <1>3, <1>4, <1>5, <1>6, <1>7, <1>8, <1>9 DEF Next

LEMMA Invariance == Spec => []IInv
<1>1. Init => IInv
  BY InductiveInit
<1>2. IInv /\ [Next]_vars => IInv'
  BY InductiveStep
<1> QED
  BY <1>1, <1>2, PTL DEF Spec

(* The variables of the tree and of the calls keep their types.            *)
THEOREM TypeCorrect == Spec => []TypeOK
<1>1. IInv => TypeOK
  BY DEF IInv
<1> QED
  BY <1>1, Invariance, PTL

(* Every node of the tree hangs on its parent and none is too deep,        *)
(* whatever calls of AddNode fail half-way.                                *)
THEOREM WholeTree == Spec => []TreeIsWhole
<1>1. IInv => TreeIsWhole
  BY DEF IInv
<1> QED
  BY <1>1, Invariance, PTL

-----------------------------------------------------------------------------
(* The refinement.                                                         *)
LEMMA TableOfNodes ==
  /\ [p \in Entries |-> node[p]] = EntriesOf(node)
  /\ [p \in Entries |-> node[p]]' = EntriesOf(node')
BY DEF Entries, EntriesOf

LEMMA SameTable == UNCHANGED <<node, answer>> => UNCHANGED Table!vars
BY TableOfNodes DEF Table!vars

LEMMA InitRefined == Init => Table!Init
<1> SUFFICES ASSUME Init PROVE Table!Init
  OBVIOUS
<1>1. Entries = {}
  BY DEF Init, Entries
<1> QED
  BY <1>1 DEF Init, Table!Init

LEMMA GetIsAStep ==
  ASSUME NEW key \in Key, Table!Get(Digits(key))
  PROVE Table!Next
BY DEF Table!Next

LEMMA DropIsAStep ==
  ASSUME NEW key \in Key, Table!Drop(Digits(key))
  PROVE Table!Next
BY DEF Table!Next

LEMMA AddIsAStep ==
  ASSUME NEW key \in Key, NEW e \in Table!Entry, Table!Add(Digits(key), e)
  PROVE Table!Next
BY DEF Table!Next

LEMMA GoingDownAddsNothing == IInv /\ AddGoesDown => UNCHANGED Table!vars
BY AddGoesDownStep, TableOfNodes DEF Table!vars

(* The end of an AddNode sets an entry or, without data, drops it.         *)
LEMMA SetRefined == IInv /\ AddEnds /\ iter # Root /\ new.data # Nil => Table!Next
<1> SUFFICES ASSUME IInv, AddEnds, iter # Root, new.data # Nil PROVE Table!Next
  OBVIOUS
<1>1. /\ seg \in Key /\ iter = Digits(seg) /\ iter \in DOMAIN node
      /\ DOMAIN node' = DOMAIN node /\ node'[iter] = new
      /\ \A p \in DOMAIN node : p # iter => node'[p] = node[p]
      /\ UNCHANGED answer
  BY AddEndsStep
<1> DEFINE t == EntriesOf(node)
           u == EntriesOf(node')
<1>2. DOMAIN u = DOMAIN t \cup {iter}
  BY <1>1 DEF EntriesOf
<1>3. u = [j \in DOMAIN t \cup {iter} |-> IF j = iter THEN new ELSE t[j]]
  BY <1>1, <1>2 DEF EntriesOf
<1>4. new \in Table!Entry
  BY DEF AddEnds, IInv, TypeOK, FilledInv, Table!Entry
<1>5. PICK key \in Key, e \in Table!Entry : key = seg /\ e = new
  BY <1>1, <1>4
<1>6. Table!Add(Digits(key), e)
  BY <1>1, <1>3, <1>5, TableOfNodes DEF Table!Add
<1> QED
  BY <1>6, AddIsAStep

LEMMA DropRefined ==
  IInv /\ AddEnds /\ iter \in Entries /\ new.data = Nil => Table!Next
<1> SUFFICES ASSUME IInv, AddEnds, iter \in Entries, new.data = Nil PROVE Table!Next
  OBVIOUS
<1>1. /\ seg \in Key /\ iter = Digits(seg) /\ iter \in DOMAIN node
      /\ DOMAIN node' = DOMAIN node /\ node'[iter] = new
      /\ \A p \in DOMAIN node : p # iter => node'[p] = node[p]
      /\ UNCHANGED answer
  BY AddEndsStep
<1> DEFINE t == EntriesOf(node)
           u == EntriesOf(node')
<1>2. DOMAIN u = DOMAIN t \ {iter}
  BY <1>1 DEF EntriesOf
<1>3. u = [j \in DOMAIN t \ {iter} |-> t[j]] /\ iter \in DOMAIN t
  BY <1>1, <1>2 DEF EntriesOf, Entries
<1>4. PICK key \in Key : key = seg
  BY <1>1
<1>5. Table!Drop(Digits(key))
  BY <1>1, <1>3, <1>4, TableOfNodes DEF Table!Drop
<1> QED
  BY <1>5, DropIsAStep

LEMMA NothingAdded ==
  IInv /\ AddEnds /\ (iter = Root \/ (iter \notin Entries /\ new.data = Nil))
    => UNCHANGED Table!vars
<1> SUFFICES ASSUME IInv, AddEnds, iter = Root \/ (iter \notin Entries /\ new.data = Nil)
             PROVE UNCHANGED Table!vars
  OBVIOUS
<1>1. /\ iter \in DOMAIN node
      /\ DOMAIN node' = DOMAIN node /\ node'[iter] = new
      /\ \A p \in DOMAIN node : p # iter => node'[p] = node[p]
      /\ UNCHANGED answer
  BY AddEndsStep
<1>2. DOMAIN EntriesOf(node') = DOMAIN EntriesOf(node)
  BY <1>1 DEF EntriesOf, Entries
<1>3. EntriesOf(node') = EntriesOf(node)
  BY <1>1, <1>2 DEF EntriesOf, Entries
<1> QED
  BY <1>1, <1>3, TableOfNodes DEF Table!vars

LEMMA AddRefined == IInv /\ AddEnds => [Table!Next]_Table!vars
BY SetRefined, DropRefined, NothingAdded

(* What is refused has a byte that is no digit.                            *)
LEMMA RefusalRefined == IInv /\ GetFails => Table!Next
<1> SUFFICES ASSUME IInv, GetFails PROVE Table!Next
  OBVIOUS
<1>1. /\ call = "get" /\ idx <= Len(seg) /\ SlotKey(seg[idx]) \notin 0..15
      /\ answer' = <<"invalid digit">> /\ UNCHANGED node
  BY DEF GetFails, AtOther
<1>2. seg \in Key /\ iter \in Path
  BY <1>1 DEF IInv, WalkInv, TypeOK
<1>3. Len(iter) \in Nat /\ Len(seg) \in Nat
  BY <1>2, KeyBytes DEF Path
<1>4. idx \in 1..Len(seg)
  <2>1. idx = Len(iter) + 1
    BY DEF idx
  <2>2. idx <= Len(seg)
    BY <1>1
  <2> HIDE DEF idx
  <2> QED
    BY <1>3, <2>1, <2>2
<1> DEFINE k == Digits(seg)
<1>5. SlotKey(seg[idx]) = -1
  <2>1. SlotKey(seg[idx]) \in -1..15
    BY <1>2, <1>4, KeyBytes, SlotRange
  <2>2. SlotKey(seg[idx]) \notin 0..15
    BY <1>1
  <2> DEFINE x == SlotKey(seg[idx])
  <2> HIDE DEF x
  <2>3. x = -1
    BY <2>1, <2>2 DEF x
  <2> QED
    BY <2>3 DEF x
<1>6. DOMAIN k = 1..Len(seg) /\ k[idx] = -1
  BY <1>2, <1>3, <1>4, <1>5, DigitsType
<1>7. Table!Get(k)
  BY <1>1, <1>4, <1>6, TableOfNodes DEF Table!Get
<1> QED
  BY <1>2, <1>7, GetIsAStep

LEMMA AnswerRefined == IInv /\ GetEnds => Table!Next
<1> SUFFICES ASSUME IInv, GetEnds PROVE Table!Next
  OBVIOUS
<1>1. UNCHANGED node /\ seg \in Key /\ answer' = Table!Answer(Digits(seg))
  BY GetEndsStep
<1>2. Table!Get(Digits(seg))
  BY <1>1, TableOfNodes DEF Table!Get
<1> QED
  BY <1>1, <1>2, GetIsAStep

LEMMA StepRefined == IInv /\ [Next]_vars => [Table!Next]_Table!vars
<1> SUFFICES ASSUME IInv, [Next]_vars PROVE [Table!Next]_Table!vars
  OBVIOUS
<1>1. ASSUME NEW key \in Key, GetNode(key) PROVE UNCHANGED Table!vars
  BY <1>1, SameTable DEF GetNode, Call
<1>2. ASSUME NEW key \in Key, NEW min \in Min, NEW data \in Data \cup {Nil},
             AddNode(min, key, data)
      PROVE UNCHANGED Table!vars
  BY <1>2, SameTable DEF AddNode, Call
<1>3. CASE AddGoesDown
  BY <1>3, GoingDownAddsNothing
<1>4. CASE AddFails
  BY <1>4, SameTable DEF AddFails
<1>5. CASE AddEnds
  BY <1>5, AddRefined
<1>6. CASE GetGoesDown
  BY <1>6, SameTable DEF GetGoesDown
<1>7. CASE GetFails
  BY <1>7, RefusalRefined
<1>8. CASE GetEnds
  BY <1>8, AnswerRefined
<1>9. CASE UNCHANGED vars
  BY <1>9, SameTable DEF vars
<1> QED
  BY <1>1, <1>2, <1>3, <1>4, <1>5, <1>6, <1>7, <1>8, <1>9 DEF Next

(* AddNode and GetNode, an iteration at a time, implement a table that is  *)
(* searched for the longest prefix: a failed AddNode changes no entry, and *)
(* GetNode answers with the deepest entry on the way of its key.           *)
THEOREM Refinement == Spec => LongestPrefix
<1>1. Init => Table!Init
  BY InitRefined
<1>2. IInv /\ [Next]_vars => [Table!Next]_Table!vars
  BY StepRefined
<1> QED
  BY <1>1, <1>2, Invariance, PTL DEF Spec, LongestPrefix, Table!Spec
=============================================================================
