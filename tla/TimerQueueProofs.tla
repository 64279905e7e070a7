-------------------------- MODULE TimerQueueProofs ---------------------------
(***************************************************************************)
(* What TimerQueue guarantees for any number of timers, any deadlines and  *)
(* any setting of the clock.                                               *)
(***************************************************************************)
EXTENDS TimerQueue, SequenceTheorems, WellFoundedInduction, TLAPS

Size == Len(pq)
Items == {pq[i] : i \in 1..Size}
Placed == \A i \in 1..Size : index[pq[i]] = i

LEMMA TwoExchanged ==
  ASSUME NEW S, NEW q \in Seq(S), NEW i \in 1..Len(q), NEW j \in 1..Len(q)
  PROVE  /\ MovedTo(q, i, j) \in Seq(S)
         /\ Len(MovedTo(q, i, j)) = Len(q)
         /\ \A s \in 1..Len(q) : MovedTo(q, i, j)[s] =
              IF s = i THEN q[j] ELSE IF s = j THEN q[i] ELSE q[s]
<1> DEFINE half == [q EXCEPT ![i] = q[j]]
           whole == [half EXCEPT ![j] = q[i]]
<1>1. q[i] \in S /\ q[j] \in S
  BY ElementOfSeq
<1>2. /\ half \in Seq(S) /\ Len(half) = Len(q)
      /\ \A s \in 1..Len(q) : half[s] = IF s = i THEN q[j] ELSE q[s]
  BY <1>1, ExceptSeq
<1> HIDE DEF half
<1>3. /\ whole \in Seq(S) /\ Len(whole) = Len(q)
      /\ \A s \in 1..Len(q) : whole[s] = IF s = j THEN q[i] ELSE half[s]
  BY <1>1, <1>2, ExceptSeq
<1>4. MovedTo(q, i, j) = whole
  BY DEF MovedTo, half
<1> HIDE DEF whole
<1> QED
  BY <1>2, <1>3, <1>4

(* Swap leaves the same items in the heap, each with its place.            *)
LEMMA SwapKeeps ==
  ASSUME pq \in Seq(Key), index \in [Key -> Int], Placed,
         NEW i \in 1..Size, NEW j \in 1..Size, Swap(i, j)
  PROVE  /\ pq' \in Seq(Key) /\ Size' = Size
         /\ \A s \in 1..Size : pq'[s] = IF s = i THEN pq[j] ELSE IF s = j THEN pq[i] ELSE pq[s]
         /\ index' \in [Key -> Int]
         /\ Placed'
         /\ Items' = Items
<1>1. /\ pq' \in Seq(Key) /\ Size' = Size
      /\ \A s \in 1..Size : pq'[s] = IF s = i THEN pq[j] ELSE IF s = j THEN pq[i] ELSE pq[s]
  <2>1. pq' = MovedTo(pq, i, j)
    BY DEF Swap
  <2>2. i \in 1..Len(pq) /\ j \in 1..Len(pq)
    BY DEF Size
  <2>3. /\ MovedTo(pq, i, j) \in Seq(Key)
        /\ Len(MovedTo(pq, i, j)) = Len(pq)
        /\ \A s \in 1..Len(pq) : MovedTo(pq, i, j)[s] =
             IF s = i THEN pq[j] ELSE IF s = j THEN pq[i] ELSE pq[s]
    BY <2>2, TwoExchanged
  <2> QED
    BY <2>1, <2>3 DEF Size
<1>2. \A s \in 1..Size : pq[s] \in Key
  BY ElementOfSeq DEF Size
<1>3. \A s \in 1..Size, t \in 1..Size : pq[s] = pq[t] => s = t
  BY DEF Placed
<1> DEFINE half == [index EXCEPT ![pq[i]] = j]
<1>4. half \in [Key -> Int] /\ \A k \in Key : half[k] = IF k = pq[i] THEN j ELSE index[k]
  BY <1>2
<1>5. index' = [half EXCEPT ![pq[j]] = i]
  BY DEF Swap
<1> HIDE DEF half
<1>6. index' \in [Key -> Int]
      /\ \A k \in Key : index'[k] = IF k = pq[j] THEN i ELSE half[k]
  BY <1>2, <1>4, <1>5
<1>7. ASSUME NEW s \in 1..Size PROVE index'[pq'[s]] = s
  <2>1. CASE s = i
    BY <1>1, <1>2, <1>6, <2>1
  <2>2. CASE s # i /\ s = j
    <3>1. pq'[s] = pq[i] /\ pq[i] # pq[j]
      BY <1>1, <1>3, <2>2
    <3> QED
      BY <1>2, <1>4, <1>6, <2>2, <3>1
  <2>3. CASE s # i /\ s # j
    <3>1. pq'[s] = pq[s] /\ pq[s] # pq[i] /\ pq[s] # pq[j]
      BY <1>1, <1>3, <2>3
    <3> QED
      BY <1>2, <1>4, <1>6, <2>3, <3>1 DEF Placed
  <2> QED
    BY <2>1, <2>2, <2>3
<1>8. Items' = Items
  <2>1. ASSUME NEW s \in 1..Size PROVE pq'[s] \in Items /\ pq[s] \in Items'
    <3>1. pq[s] = pq'[IF s = i THEN j ELSE IF s = j THEN i ELSE s]
      BY <1>1
    <3> QED
      BY <1>1, <3>1 DEF Items
  <2> QED
    BY <1>1, <2>1 DEF Items
<1> QED
  BY <1>1, <1>6, <1>7, <1>8 DEF Placed

-----------------------------------------------------------------------------
(* Who holds the lock works on a place of the heap; what is about to be    *)
(* taken off it is at its end.                                             *)
Types ==
  /\ now \in Time /\ setBack \in BOOLEAN
  /\ pq \in Seq(Key)
  /\ dt \subseteq Key
  /\ priority \in [Key -> Int]
  /\ index \in [Key -> Int]
  /\ pushing \in [Caller -> SUBSET (Key \X Deadline)]
  /\ answer \in {<< >>} \cup {"pop", "remove"} \X Key

Work ==
  \/ op = Unlocked
  \/ \E what \in {"push", "fix", "pop", "remove"}, i \in 1..Size : op = Working(what, i)

Removed == IF op.do = "remove" THEN {pq[Size]} ELSE {}

Places ==
  /\ Placed
  /\ \A k \in Key : k \in dt <=> k \in Items /\ k \notin Removed

(* At most the place a is out of order, and but for it the items below it  *)
(* are in order with the one above it.                                     *)
Near(v, a, m) ==
  \A i \in 2..m :
    /\ i # a /\ i \div 2 # a => v[i \div 2] <= v[i]
    /\ i \div 2 = a /\ a >= 2 => v[a \div 2] <= v[i]

Values == [i \in 1..Size |-> priority[pq[i]]]
HeapInv == Near(Values, op.at, Sifted)

IInv == Types /\ Work /\ Places /\ HeapInv

-----------------------------------------------------------------------------
(* What container/heap relies on: an item that rises or sinks leaves only  *)
(* itself out of order.                                                    *)
Exchanged(v, w, i, j) ==
  \A s \in DOMAIN v : w[s] = IF s = i THEN v[j] ELSE IF s = j THEN v[i] ELSE v[s]

LEMMA Half == \A i \in Int : i >= 2 => i \div 2 \in 1..i - 1
OBVIOUS

LEMMA RiseKeepsOrder ==
  ASSUME NEW n \in Nat, NEW m \in 0..n, NEW v \in [1..n -> Int], NEW w \in [1..n -> Int],
         NEW a \in 2..m, Near(v, a, m), v[a] < v[a \div 2], Exchanged(v, w, a, a \div 2)
  PROVE  Near(w, a \div 2, m)
<1> DEFINE j == a \div 2
<1>1. j \in 1..m /\ j < a
  OBVIOUS
<1> SUFFICES ASSUME NEW i \in 2..m
             PROVE  /\ i # j /\ i \div 2 # j => w[i \div 2] <= w[i]
                    /\ i \div 2 = j /\ j >= 2 => w[j \div 2] <= w[i]
  BY DEF Near
<1>2. i \div 2 \in 1..m /\ i \div 2 < i
  OBVIOUS
<1>3. CASE i # j /\ i \div 2 # j
  <2>1. i # a
    BY <1>3
  <2>2. w[i] = v[i]
    BY <1>3, <2>1 DEF Exchanged
  <2>3. CASE i \div 2 = a
    <3>1. w[i \div 2] = v[j]
      BY <1>1, <1>2, <2>3 DEF Exchanged
    <3> QED
      BY <2>2, <2>3, <3>1 DEF Near
  <2>4. CASE i \div 2 # a
    <3>1. w[i \div 2] = v[i \div 2]
      BY <1>2, <1>3, <2>4 DEF Exchanged
    <3> QED
      BY <1>3, <2>1, <2>2, <2>4, <3>1 DEF Near
  <2> QED
    BY <1>3, <2>3, <2>4
<1>4. CASE i \div 2 = j /\ j >= 2
  <2>1. j \div 2 \in 1..m /\ j \div 2 # j /\ j \div 2 # a /\ i # j
    BY <1>1, <1>4
  <2>2. w[j \div 2] = v[j \div 2]
    BY <2>1 DEF Exchanged
  <2>3. v[j \div 2] <= v[j]
    <3>1. j \in 2..m /\ j # a /\ j \div 2 # a
      BY <1>1, <1>4, <2>1
    <3> QED
      BY <3>1 DEF Near
  <2>4. CASE i = a
    BY <1>1, <2>2, <2>3, <2>4 DEF Exchanged
  <2>5. CASE i # a
    <3>1. w[i] = v[i]
      BY <2>1, <2>5 DEF Exchanged
    <3>2. v[j] <= v[i]
      BY <1>1, <1>4, <2>5 DEF Near
    <3>3. v[i] \in Int /\ v[j] \in Int /\ v[j \div 2] \in Int
      BY <1>1, <2>1
    <3> QED
      BY <1>4, <2>2, <2>3, <3>1, <3>2, <3>3
  <2> QED
    BY <2>4, <2>5
<1> QED
  BY <1>3, <1>4

LEMMA SinkKeepsOrder ==
  ASSUME NEW n \in Nat, NEW m \in 0..n, NEW v \in [1..n -> Int], NEW w \in [1..n -> Int],
         NEW a \in 1..n, NEW j \in 2..m, j \div 2 = a, Near(v, a, m), v[j] < v[a],
         \A s \in 2..m : s \div 2 = a => v[j] <= v[s],
         Exchanged(v, w, a, j)
  PROVE  Near(w, j, m)
<1>1. a < j /\ a \in 1..m
  OBVIOUS
<1> SUFFICES ASSUME NEW i \in 2..m
             PROVE  /\ i # j /\ i \div 2 # j => w[i \div 2] <= w[i]
                    /\ i \div 2 = j /\ j >= 2 => w[j \div 2] <= w[i]
  BY DEF Near
<1>2. i \div 2 \in 1..m /\ i \div 2 < i
  OBVIOUS
<1>3. w[a] = v[j] /\ w[j] = v[a]
  BY <1>1 DEF Exchanged
<1>4. CASE i # j /\ i \div 2 # j
  <2>1. CASE i = a
    <3>1. w[i \div 2] = v[i \div 2]
      BY <1>2, <1>4, <2>1 DEF Exchanged
    <3>2. v[a \div 2] <= v[j]
      BY <2>1 DEF Near
    <3> QED
      BY <1>3, <2>1, <3>1, <3>2
  <2>2. CASE i # a /\ i \div 2 = a
    <3>1. w[i] = v[i]
      BY <1>4, <2>2 DEF Exchanged
    <3> QED
      BY <1>3, <2>2, <3>1
  <2>3. CASE i # a /\ i \div 2 # a
    <3>1. w[i] = v[i] /\ w[i \div 2] = v[i \div 2]
      BY <1>2, <1>4, <2>3 DEF Exchanged
    <3> QED
      BY <1>4, <2>3, <3>1 DEF Near
  <2> QED
    BY <1>4, <2>1, <2>2, <2>3
<1>5. CASE i \div 2 = j
  <2>1. i # a /\ i # j /\ i \div 2 # a
    BY <1>1, <1>2, <1>5
  <2>2. w[i] = v[i]
    BY <2>1 DEF Exchanged
  <2>3. v[j] <= v[i]
    BY <1>5, <2>1 DEF Near
  <2> QED
    BY <1>3, <1>5, <2>2, <2>3
<1> QED
  BY <1>4, <1>5

-----------------------------------------------------------------------------
(* The steps that sift.                                                    *)
LEMMA OpIs ==
  ASSUME Work, Types
  PROVE  /\ Size \in Nat /\ Sifted \in Int /\ Sifted <= Size
         /\ ~Locked => op.do = "none" /\ op.at = 0 /\ Sifted = Size
         /\ Locked => /\ op.do \in {"push", "fix", "pop", "remove"}
                      /\ op.at \in 1..Size
                      /\ Sifted = IF op.do \in {"pop", "remove"} THEN Size - 1 ELSE Size
                      /\ op = Working(op.do, op.at)
<1>1. Size \in Nat
  BY DEF Types, Size
<1>2. CASE op = Unlocked
  BY <1>1, <1>2 DEF Unlocked, Locked, Sifted, Size
<1>3. ASSUME NEW what \in {"push", "fix", "pop", "remove"}, NEW i \in 1..Size,
             op = Working(what, i)
      PROVE  /\ op.do = what /\ op.at = i /\ op # Unlocked
             /\ Sifted = IF what \in {"pop", "remove"} THEN Size - 1 ELSE Size
  <2>1. op.do = what /\ op.at = i
    BY <1>3 DEF Working
  <2>2. Unlocked.do = "none"
    BY DEF Unlocked
  <2> QED
    BY <2>1, <2>2 DEF Sifted, Size
<1> QED
  BY <1>1, <1>2, <1>3 DEF Work, Locked

LEMMA SiftIs ==
  ASSUME IInv, Sift
  PROVE  \E j \in 1..Sifted :
           /\ \/ j = op.at \div 2 /\ op.at \in 2..Sifted /\ Less(op.at, j)
              \/ Below(op.at, j) /\ Less(j, op.at)
           /\ Swap(op.at, j) /\ op' = Working(op.do, j)
           /\ UNCHANGED <<now, setBack, pushing, dt, priority, answer>>
           /\ op.do \in {"pop", "remove"} => op.at # Size /\ j # Size
<1>1. Locked
  BY DEF Sift
<1> DEFINE a == op.at
<1>2. /\ Size \in Nat /\ a \in 1..Size
      /\ op.do \in {"push", "fix", "pop", "remove"}
      /\ Sifted = IF op.do \in {"pop", "remove"} THEN Size - 1 ELSE Size
      /\ op = Working(op.do, op.at)
  BY <1>1, OpIs DEF IInv
<1>3. PICK j \in 1..Sifted :
        /\ SwapTo(j)
        /\ \/ j = a \div 2 /\ a \in 2..Sifted /\ Less(a, j)
           \/ Below(a, j) /\ Less(j, a)
  <2>1. CASE Rises /\ SwapTo(a \div 2)
    <3>1. a \in 2..Sifted /\ Less(a, a \div 2)
      BY <2>1 DEF Rises
    <3>2. a \div 2 \in 1..Sifted
      BY <1>2, <3>1
    <3> QED
      BY <2>1, <3>1, <3>2
  <2>2. CASE \E j \in DOMAIN pq : SinksTo(j) /\ SwapTo(j)
    <3>1. PICK j \in DOMAIN pq : SinksTo(j) /\ SwapTo(j)
      BY <2>2
    <3>2. j \in 1..Sifted
      BY <1>2, <3>1 DEF SinksTo, Below
    <3> QED
      BY <3>1, <3>2 DEF SinksTo
  <2> QED
    BY <2>1, <2>2 DEF Sift
<1>4. op' = Working(op.do, j)
  BY <1>2, <1>3 DEF SwapTo, Working
<1>5. op.do \in {"pop", "remove"} => a # Size /\ j # Size
  BY <1>2, <1>3 DEF Below
<1> QED
  BY <1>3, <1>4, <1>5 DEF SwapTo

LEMMA SiftKeeps ==
  ASSUME IInv, Sift
  PROVE  /\ IInv'
         /\ op'.do = op.do /\ Items' = Items /\ UNCHANGED <<priority, answer>>
         /\ op.do \in {"pop", "remove"} => pq'[Size'] = pq[Size]
<1> DEFINE a == op.at
<1>1. PICK j \in 1..Sifted :
        /\ \/ j = a \div 2 /\ a \in 2..Sifted /\ Less(a, j)
           \/ Below(a, j) /\ Less(j, a)
        /\ Swap(a, j) /\ op' = Working(op.do, j)
        /\ UNCHANGED <<now, setBack, pushing, dt, priority, answer>>
        /\ op.do \in {"pop", "remove"} => a # Size /\ j # Size
  BY SiftIs
<1>2. /\ Size \in Nat /\ a \in 1..Size
      /\ op.do \in {"push", "fix", "pop", "remove"}
      /\ Sifted = IF op.do \in {"pop", "remove"} THEN Size - 1 ELSE Size
      /\ op = Working(op.do, op.at)
  BY OpIs DEF IInv, Sift
<1>4. UNCHANGED <<now, setBack, pushing, dt, priority, answer>>
  BY <1>1
<1>5. j \in 1..Size
  BY <1>1, <1>2
<1>6. /\ pq' \in Seq(Key) /\ Size' = Size
      /\ \A s \in 1..Size : pq'[s] = IF s = a THEN pq[j] ELSE IF s = j THEN pq[a] ELSE pq[s]
      /\ index' \in [Key -> Int]
      /\ Placed'
      /\ Items' = Items
  BY <1>1, <1>2, <1>5, SwapKeeps DEF IInv, Types, Places
<1>7. op' = Working(op.do, j) /\ op'.do = op.do /\ op'.at = j
  BY <1>1 DEF Working
<1>8. Types'
  BY <1>4, <1>6 DEF IInv, Types
<1>9. Work'
  BY <1>2, <1>5, <1>6, <1>7 DEF Work
<1>3. op.do \in {"pop", "remove"} => pq'[Size'] = pq[Size]
  <2>1. Size \in 1..Size
    BY <1>2
  <2> QED
    BY <1>1, <1>6, <2>1
<1>10. Removed' = Removed
  BY <1>3, <1>7 DEF Removed
<1>11. Places'
  BY <1>4, <1>6, <1>10 DEF IInv, Places
<1>12. HeapInv'
  <2>1. Sifted' = Sifted
    BY <1>2, <1>6, <1>7 DEF Sifted, Size
  <2> DEFINE v == Values
             w == Values'
  <2>2. \A s \in 1..Size : pq[s] \in Key /\ priority[pq[s]] \in Int
    BY ElementOfSeq DEF IInv, Types, Size
  <2>3. v \in [1..Size -> Int] /\ \A s \in 1..Size : v[s] = priority[pq[s]]
    BY <2>2 DEF Values
  <2>4. \A s \in 1..Size : w[s] = priority[pq'[s]]
    BY <1>4, <1>6 DEF Values
  <2>5. w = [s \in 1..Size |-> priority[pq'[s]]]
    BY <1>4, <1>6 DEF Values
  <2>6. \A s \in 1..Size : pq'[s] \in Key
    BY <1>6, <2>2, <1>2, <1>5
  <2>7. w \in [1..Size -> Int]
    BY <2>5, <2>6 DEF IInv, Types
  <2>8. Exchanged(v, w, a, j)
    <3>1. DOMAIN v = 1..Size
      BY <2>3
    <3>2. ASSUME NEW s \in 1..Size
          PROVE  w[s] = IF s = a THEN v[j] ELSE IF s = j THEN v[a] ELSE v[s]
      <4>1. pq'[s] = IF s = a THEN pq[j] ELSE IF s = j THEN pq[a] ELSE pq[s]
        BY <1>6
      <4> HIDE DEF v, w, a
      <4> QED
        BY <1>2, <1>5, <2>3, <2>4, <4>1
    <3> HIDE DEF v, w, a
    <3> QED
      BY <3>1, <3>2 DEF Exchanged
  <2>9. Near(v, a, Sifted)
    BY DEF IInv, HeapInv
  <2>10. Sifted \in 0..Size
    BY <1>2
  <2>11. \A s \in 1..Size, t \in 1..Size : Less(s, t) <=> v[s] < v[t]
    BY <2>3 DEF Less
  <2> HIDE DEF v, w, a
  <2>12. CASE j = a \div 2 /\ a \in 2..Sifted /\ Less(a, j)
    <3>1. v[a] < v[a \div 2]
      BY <1>2, <1>5, <2>11, <2>12
    <3>2. Near(w, j, Sifted)
      BY <1>2, <2>3, <2>7, <2>8, <2>9, <2>10, <2>12, <3>1, RiseKeepsOrder
    <3> QED
      BY <1>7, <2>1, <3>2 DEF HeapInv, w
  <2>13. CASE Below(a, j) /\ Less(j, a)
    <3>1. j \in 2..Sifted /\ j \div 2 = a /\ v[j] < v[a]
      BY <1>2, <1>5, <2>11, <2>13 DEF Below
    <3>2. ASSUME NEW s \in 2..Sifted, s \div 2 = a PROVE v[j] <= v[s]
      <4>1. s \in {2 * a, 2 * a + 1} /\ s \in 1..Size
        BY <1>2, <3>2
      <4>2. ~Less(s, j)
        BY <2>13, <3>2, <4>1 DEF Below
      <4> QED
        BY <1>5, <2>3, <2>11, <4>1, <4>2
    <3>3. Near(w, j, Sifted)
      BY <1>2, <2>3, <2>7, <2>8, <2>9, <2>10, <3>1, <3>2, SinkKeepsOrder
    <3> QED
      BY <1>7, <2>1, <3>3 DEF HeapInv, w
  <2> QED
    BY <1>1, <2>12, <2>13 DEF a
<1> QED
  BY <1>3, <1>4, <1>6, <1>7, <1>8, <1>9, <1>11, <1>12 DEF IInv

-----------------------------------------------------------------------------
(* The steps that begin to sift.                                           *)
LEMMA ValuesAre ==
  ASSUME Types
  PROVE  /\ Size \in Nat /\ Values \in [1..Size -> Int]
         /\ \A s \in 1..Size : pq[s] \in Key /\ Values[s] = priority[pq[s]]
<1>1. \A s \in 1..Size : pq[s] \in Key
  BY ElementOfSeq DEF Types, Size
<1> QED
  BY <1>1 DEF Types, Size, Values

(* A heap in order stays nearly in order when one place changes.           *)
LEMMA OneChanged ==
  ASSUME NEW n \in Nat, NEW m \in 0..n, NEW v \in [1..n -> Int], NEW w \in [1..n -> Int],
         NEW a \in 1..n, Near(v, 0, n), \A s \in 1..m : s # a => w[s] = v[s]
  PROVE  Near(w, a, m)
<1> SUFFICES ASSUME NEW i \in 2..m
             PROVE  /\ i # a /\ i \div 2 # a => w[i \div 2] <= w[i]
                    /\ i \div 2 = a /\ a >= 2 => w[a \div 2] <= w[i]
  BY DEF Near
<1>1. i \in 2..n /\ i \div 2 \in 1..m /\ i \div 2 < i
  OBVIOUS
<1>2. v[i \div 2] <= v[i]
  BY <1>1 DEF Near
<1>3. ASSUME i \div 2 = a, a >= 2 PROVE w[a \div 2] <= w[i]
  <2>1. a \in 2..n /\ a \div 2 \in 1..m /\ a \div 2 # a /\ a # 0 /\ a \div 2 # 0
    BY <1>1, <1>3
  <2>2. v[a \div 2] <= v[a]
    BY <2>1 DEF Near
  <2>3. w[i] = v[i] /\ w[a \div 2] = v[a \div 2]
    BY <1>1, <1>3, <2>1
  <2>4. v[i] \in Int /\ v[a] \in Int /\ v[a \div 2] \in Int
    BY <1>1, <2>1
  <2> QED
    BY <1>2, <1>3, <2>2, <2>3, <2>4
<1> QED
  BY <1>1, <1>2, <1>3

LEMMA Idle ==
  ASSUME IInv, ~Locked
  PROVE  /\ op.do = "none" /\ Removed = {} /\ Near(Values, 0, Size)
         /\ \A k \in Key : k \in dt <=> k \in Items
<1>1. op.do = "none" /\ op.at = 0 /\ Sifted = Size
  BY OpIs DEF IInv
<1> QED
  BY <1>1 DEF IInv, HeapInv, Places, Removed

LEMMA PushKeeps ==
  ASSUME IInv, NEW c \in Caller, NEW k \in Key, NEW p \in Deadline, Push(c, k, p)
  PROVE  IInv'
<1>1. ~Locked /\ <<k, p>> \in pushing[c] /\ UNCHANGED <<now, setBack>>
      /\ pushing' = [pushing EXCEPT ![c] = {}]
  BY DEF Push
<1>2. pushing' \in [Caller -> SUBSET (Key \X Deadline)]
  BY <1>1 DEF IInv, Types
<1>3. CASE UNCHANGED heap
  BY <1>1, <1>2, <1>3 DEF heap, IInv, Types, Work, Places, Placed, HeapInv, Values, Sifted, Size,
                          Items, Removed
<1>4. CASE /\ k \notin dt
           /\ dt' = dt \cup {k}
           /\ priority' = [priority EXCEPT ![k] = p]
           /\ PushItem(k)
           /\ op' = Working("push", Len(pq) + 1)
           /\ UNCHANGED answer
  <2>1. Size \in Nat /\ Values \in [1..Size -> Int]
        /\ \A s \in 1..Size : pq[s] \in Key /\ Values[s] = priority[pq[s]]
    BY ValuesAre DEF IInv
  <2>2. k \notin Items
    BY <1>1, <1>4, Idle
  <2>3. /\ pq' \in Seq(Key) /\ Size' = Size + 1
        /\ \A s \in 1..Size : pq'[s] = pq[s] /\ pq[s] # k
        /\ pq'[Size + 1] = k
    BY <1>4, <2>2 DEF PushItem, Size, IInv, Types, Items
  <2>4. p \in Int
    BY TimeAssumption DEF Deadline, MaxTimer, Time
  <2>5. priority' \in [Key -> Int] /\ priority'[k] = p
        /\ \A j \in Key : j # k => priority'[j] = priority[j]
    BY <1>4, <2>4 DEF IInv, Types
  <2>6. index' \in [Key -> Int] /\ index'[k] = Size + 1
        /\ \A j \in Key : j # k => index'[j] = index[j]
    BY <1>4, <2>1 DEF PushItem, IInv, Types, Size
  <2>7. Types'
    BY <1>1, <1>2, <1>4, <2>3, <2>5, <2>6 DEF IInv, Types
  <2>8. Work'
    BY <1>4, <2>1, <2>3 DEF Work, Size
  <2>9. Placed'
    BY <2>1, <2>3, <2>6 DEF Placed, IInv, Places
  <2>10. Items' = Items \cup {k}
    BY <2>1, <2>3 DEF Items
  <2>11. op'.do = "push" /\ op'.at = Size + 1
    BY <1>4 DEF Working, Size
  <2>12. Removed' = {}
    BY <2>11 DEF Removed
  <2>13. Places'
    BY <1>1, <1>4, <2>9, <2>10, <2>12, Idle DEF Places
  <2>14. Sifted' = Size + 1
    BY <2>3, <2>11 DEF Sifted, Size
  <2>15. /\ Values' \in [1..Size + 1 -> Int]
         /\ \A s \in 1..Size : Values'[s] = Values[s]
    <3>1. Values' = [s \in 1..Size + 1 |-> priority'[pq'[s]]]
      BY <2>3 DEF Values
    <3>2. \A s \in 1..Size + 1 : pq'[s] \in Key
      BY <2>1, <2>3
    <3>3. \A s \in 1..Size + 1 : priority'[pq'[s]] \in Int
      BY <2>5, <3>2
    <3>4. \A s \in 1..Size : priority'[pq'[s]] = priority[pq[s]]
      BY <2>1, <2>3, <2>5
    <3>5. \A s \in 1..Size : s \in 1..Size + 1
      BY <2>1
    <3> QED
      BY <2>1, <3>1, <3>3, <3>4, <3>5
  <2>16. Near(Values', Size + 1, Size + 1)
    <3>1. Near(Values, 0, Size)
      BY <1>1, Idle
    <3>2. ASSUME NEW i \in 2..Size + 1
          PROVE  /\ i # Size + 1 /\ i \div 2 # Size + 1 => Values'[i \div 2] <= Values'[i]
                 /\ ~(i \div 2 = Size + 1)
      <4>1. i \div 2 \in 1..Size
        BY <2>1
      <4>2. ASSUME i # Size + 1 PROVE Values[i \div 2] <= Values[i] /\ i \in 2..Size
        BY <2>1, <3>1, <4>1, <4>2 DEF Near
      <4> QED
        BY <2>1, <2>15, <4>1, <4>2
    <3> QED
      BY <3>2 DEF Near
  <2> QED
    BY <2>7, <2>8, <2>11, <2>13, <2>14, <2>16 DEF IInv, HeapInv
<1> QED
  BY <1>3, <1>4 DEF Push

LEMMA UpdateKeeps ==
  ASSUME IInv, NEW k \in Key, NEW p \in Priority, Update(k, p)
  PROVE  IInv'
<1>1. /\ ~Locked /\ k \in dt
      /\ priority' = [priority EXCEPT ![k] = ValidMaxTimer(p)]
      /\ op' = Working("fix", index[k])
      /\ UNCHANGED <<now, setBack, pushing, pq, dt, index, answer>>
  BY DEF Update
<1>2. Size \in Nat /\ Values \in [1..Size -> Int]
      /\ \A s \in 1..Size : pq[s] \in Key /\ Values[s] = priority[pq[s]]
  BY ValuesAre DEF IInv
<1>3. PICK a \in 1..Size : pq[a] = k /\ index[k] = a
  BY <1>1, Idle DEF Items, IInv, Places, Placed
<1>4. ValidMaxTimer(p) \in Int
  BY TimeAssumption DEF ValidMaxTimer, MaxTimer, IInv, Types, Time
<1>5. priority' \in [Key -> Int] /\ \A j \in Key : j # k => priority'[j] = priority[j]
  BY <1>1, <1>4 DEF IInv, Types
<1>6. op'.do = "fix" /\ op'.at = a /\ op' = Working("fix", a)
  BY <1>1, <1>3 DEF Working
<1>7. Types'
  BY <1>1, <1>5 DEF IInv, Types
<1>8. Work'
  BY <1>1, <1>6 DEF Work, Size
<1>9. Places'
  <2>1. Items' = Items /\ Placed' /\ Removed' = {}
    BY <1>1, <1>6 DEF Items, Size, Placed, IInv, Places, Removed
  <2> QED
    BY <1>1, <2>1, Idle DEF Places
<1>10. HeapInv'
  <2>1. Sifted' = Size
    BY <1>1, <1>6 DEF Sifted, Size
  <2>2. Values' = [s \in 1..Size |-> priority'[pq[s]]]
    BY <1>1 DEF Values, Size
  <2>3. \A s \in 1..Size : s # a => pq[s] # k
    BY <1>3 DEF IInv, Places, Placed
  <2>4. Values' \in [1..Size -> Int] /\ \A s \in 1..Size : s # a => Values'[s] = Values[s]
    BY <1>2, <1>5, <2>2, <2>3
  <2>5. Near(Values, 0, Size)
    BY <1>1, Idle
  <2>6. Near(Values', a, Size)
    <3> DEFINE v == Values
               w == Values'
    <3>1. v \in [1..Size -> Int] /\ w \in [1..Size -> Int] /\ Size \in 0..Size
          /\ Near(v, 0, Size) /\ \A s \in 1..Size : s # a => w[s] = v[s]
      BY <1>2, <2>4, <2>5
    <3> HIDE DEF v, w
    <3>2. Near(w, a, Size)
      BY <1>2, <3>1, OneChanged
    <3> QED
      BY <3>2 DEF w
  <2> QED
    BY <1>6, <2>1, <2>6 DEF HeapInv
<1> QED
  BY <1>7, <1>8, <1>9, <1>10 DEF IInv

(* Pop and Remove begin alike: the item to be taken trades places with the *)
(* last one.                                                               *)
LEMMA TakingKeeps ==
  ASSUME IInv, ~Locked, NEW a \in 1..Size, NEW what \in {"pop", "remove"},
         Swap(a, Size), op' = Working(what, a),
         UNCHANGED <<now, setBack, pushing, priority, answer>>,
         dt' = dt \ (IF what = "remove" THEN {pq[a]} ELSE {})
  PROVE  IInv'
<1>1. Size \in Nat /\ Values \in [1..Size -> Int]
      /\ \A s \in 1..Size : pq[s] \in Key /\ Values[s] = priority[pq[s]]
  BY ValuesAre DEF IInv
<1>2. Size \in 1..Size
  BY <1>1
<1>3. /\ pq' \in Seq(Key) /\ Size' = Size
      /\ \A s \in 1..Size : pq'[s] = IF s = a THEN pq[Size] ELSE IF s = Size THEN pq[a] ELSE pq[s]
      /\ index' \in [Key -> Int]
      /\ Placed'
      /\ Items' = Items
  BY <1>2, SwapKeeps DEF IInv, Types, Places
<1>4. op'.do = what /\ op'.at = a
  BY DEF Working
<1>5. Types'
  BY <1>3 DEF IInv, Types
<1>6. Work'
  BY <1>3 DEF Work
<1>7. pq'[Size] = pq[a]
  BY <1>2, <1>3
<1>8. Removed' = IF what = "remove" THEN {pq[a]} ELSE {}
  BY <1>3, <1>4, <1>7 DEF Removed
<1>9. Places'
  BY <1>3, <1>8, Idle DEF Places
<1>10. Sifted' = Size - 1
  BY <1>3, <1>4 DEF Sifted, Size
<1>11. Values' = [s \in 1..Size |-> priority[pq'[s]]]
  BY <1>3 DEF Values
<1>12. \A s \in 1..Size : pq'[s] \in Key /\ priority[pq'[s]] \in Int
  BY <1>1, <1>2, <1>3 DEF IInv, Types
<1>13. Values' \in [1..Size -> Int] /\ \A s \in 1..Size - 1 : s # a => Values'[s] = Values[s]
  <2>1. Values' \in [1..Size -> Int]
    BY <1>11, <1>12
  <2>2. ASSUME NEW s \in 1..Size - 1, s # a PROVE Values'[s] = Values[s]
    <3>1. s \in 1..Size /\ s # Size
      BY <1>1
    <3>2. pq'[s] = pq[s]
      BY <1>3, <2>2, <3>1
    <3> QED
      BY <1>1, <1>11, <3>1, <3>2
  <2> QED
    BY <2>1, <2>2
<1>14. Near(Values, 0, Size)
  BY Idle
<1>15. Near(Values', a, Size - 1)
  <2>1. Size - 1 \in 0..Size
    BY <1>1, <1>2
  <2> QED
    BY <1>1, <1>13, <1>14, <2>1, OneChanged
<1>16. HeapInv'
  BY <1>4, <1>10, <1>15 DEF HeapInv
<1> QED
  BY <1>5, <1>6, <1>9, <1>16 DEF IInv

LEMMA PopKeeps == ASSUME IInv, NEW max \in Priority, Pop(max) PROVE IInv'
<1>1. 1 \in 1..Size
  BY DEF Pop, IInv, Types, Size
<1> QED
  BY <1>1, TakingKeeps DEF Pop, Size

LEMMA RemoveKeeps == ASSUME IInv, NEW k \in Key, Remove(k) PROVE IInv'
<1>1. ~Locked /\ k \in dt
  BY DEF Remove
<1>2. PICK a \in 1..Size : pq[a] = k /\ index[k] = a
  BY <1>1, Idle DEF Items, IInv, Places, Placed
<1> QED
  BY <1>1, <1>2, TakingKeeps DEF Remove, Size

-----------------------------------------------------------------------------
(* The end of sifting: nothing is out of order any more.                   *)
LEMMA SettledInOrder ==
  ASSUME IInv, Settled PROVE Near(Values, 0, Sifted)
<1> DEFINE a == op.at
           v == Values
<1>1. Size \in Nat /\ v \in [1..Size -> Int]
      /\ \A s \in 1..Size : v[s] = priority[pq[s]]
  BY ValuesAre DEF IInv
<1>2. a \in 1..Size /\ Sifted \in 0..Size /\ DOMAIN pq = 1..Size
  BY OpIs DEF Settled, IInv, Types, Size
<1>3. Near(v, a, Sifted)
  BY DEF IInv, HeapInv
<1>4. \A s \in 1..Size, t \in 1..Size : Less(s, t) <=> v[s] < v[t]
  BY <1>1 DEF Less
<1>5. a \in 2..Sifted => ~Less(a, a \div 2)
  BY DEF Settled, Rises
<1>6. \A j \in 1..Size : ~(Below(a, j) /\ Less(j, a))
  BY <1>2 DEF Settled, SinksTo
<1> HIDE DEF a, v
<1>7. a \in 2..Sifted => v[a \div 2] <= v[a]
  <2>1. a \in 2..Sifted => a \div 2 \in 1..Size
    BY <1>1, <1>2
  <2> QED
    BY <1>1, <1>2, <1>4, <1>5, <2>1
<1>8. ASSUME NEW s \in 2..Sifted, s \div 2 = a PROVE v[a] <= v[s]
  <2> SUFFICES ASSUME v[s] < v[a] PROVE FALSE
    BY <1>1, <1>2
  <2>1. s \in {2 * a, 2 * a + 1} /\ 2 * a <= Sifted /\ 2 * a \in 1..Size
    BY <1>1, <1>2, <1>8
  <2>2. CASE 2 * a + 1 <= Sifted /\ v[2 * a + 1] < v[2 * a]
    <3>1. 2 * a + 1 \in 1..Size
      BY <1>1, <1>2, <2>2
    <3>2. Below(a, 2 * a + 1)
      <4>1. Less(2 * a + 1, 2 * a)
        BY <1>4, <2>1, <2>2, <3>1
      <4>2. ~Less(2 * a, 2 * a + 1) /\ ~Less(2 * a + 1, 2 * a + 1)
        BY <1>1, <1>4, <2>1, <2>2, <3>1
      <4> QED
        BY <2>2, <4>1, <4>2 DEF Below
    <3>3. v[2 * a + 1] < v[a]
      <4>1. v[2 * a] \in Int /\ v[2 * a + 1] \in Int /\ v[a] \in Int
        BY <1>1, <1>2, <2>1, <3>1
      <4>2. v[s] = v[2 * a] \/ v[s] = v[2 * a + 1]
        BY <2>1
      <4> QED
        BY <2>2, <4>1, <4>2
    <3> QED
      BY <1>2, <1>4, <1>6, <3>1, <3>2, <3>3
  <2>3. CASE ~(2 * a + 1 <= Sifted /\ v[2 * a + 1] < v[2 * a])
    <3>1. ASSUME NEW t \in {2 * a, 2 * a + 1}, t <= Sifted PROVE ~Less(t, 2 * a)
      BY <1>1, <1>2, <1>4, <2>1, <2>3, <3>1
    <3>2. Below(a, 2 * a)
      BY <1>2, <2>1, <3>1 DEF Below
    <3>3. v[2 * a] < v[a]
      <4>1. CASE s = 2 * a
        BY <4>1
      <4>2. CASE s = 2 * a + 1
        <5>1. v[2 * a] <= v[s]
          BY <1>1, <1>2, <2>1, <2>3, <4>2
        <5>2. v[2 * a] \in Int /\ v[s] \in Int /\ v[a] \in Int
          BY <1>1, <1>2, <2>1, <1>8
        <5> QED
          BY <5>1, <5>2
      <4> QED
        BY <2>1, <4>1, <4>2
    <3> QED
      BY <1>2, <1>4, <1>6, <2>1, <3>2, <3>3
  <2> QED
    BY <2>2, <2>3
<1>9. ASSUME NEW i \in 2..Sifted PROVE v[i \div 2] <= v[i]
  BY <1>3, <1>7, <1>8 DEF Near
<1>10. ASSUME NEW i \in 2..Sifted PROVE i \div 2 # 0
  OBVIOUS
<1>11. Near(v, 0, Sifted)
  BY <1>9, <1>10 DEF Near
<1> QED
  BY <1>11 DEF v

LEMMA SortedKeeps == ASSUME IInv, Sorted PROVE IInv'
<1>1. /\ Settled /\ op.do \in {"push", "fix"} /\ op' = Unlocked
      /\ UNCHANGED <<now, setBack, pushing, pq, dt, priority, index, answer>>
  BY DEF Sorted
<1>2. Sifted = Size /\ Sifted' = Size /\ op'.do = "none" /\ op'.at = 0
  BY <1>1 DEF Sifted, Size, Unlocked
<1>3. Types' /\ Work'
  BY <1>1 DEF IInv, Types, Work
<1>4. Places'
  BY <1>1, <1>2 DEF IInv, Places, Placed, Items, Removed, Size
<1>5. HeapInv'
  BY <1>1, <1>2, SettledInOrder DEF HeapInv, Values, Size
<1> QED
  BY <1>3, <1>4, <1>5 DEF IInv

LEMMA TakenKeeps == ASSUME IInv, Taken PROVE IInv'
<1> DEFINE last == pq[Size]
<1>1. /\ Settled /\ op.do \in {"pop", "remove"} /\ op' = Unlocked
      /\ pq' = SubSeq(pq, 1, Size - 1)
      /\ index' = [index EXCEPT ![last] = -1]
      /\ dt' = dt \ (IF op.do = "pop" THEN {last} ELSE {})
      /\ answer' = <<op.do, last>>
      /\ UNCHANGED <<now, setBack, pushing, priority>>
  BY DEF Taken, PopItem, Size
<1>2. Size \in Nat /\ Size >= 1 /\ Size \in 1..Size /\ Sifted = Size - 1
  BY <1>1, OpIs DEF Settled, IInv
<1>3. Values \in [1..Size -> Int]
      /\ \A s \in 1..Size : pq[s] \in Key /\ Values[s] = priority[pq[s]]
  BY ValuesAre DEF IInv
<1>4. /\ pq' \in Seq(Key) /\ Size' = Size - 1
      /\ \A s \in 1..Size - 1 : pq'[s] = pq[s]
  <2>1. \A s \in 1..Size - 1 : pq[s] \in Key
    BY <1>2, <1>3
  <2>2. /\ SubSeq(pq, 1, Size - 1) \in Seq(Key)
        /\ Len(SubSeq(pq, 1, Size - 1)) = IF 1 <= Size - 1 THEN Size - 1 - 1 + 1 ELSE 0
        /\ \A s \in 1..Size - 1 - 1 + 1 : SubSeq(pq, 1, Size - 1)[s] = pq[1 + s - 1]
    BY <1>2, <2>1, SubSeqProperties
  <2> QED
    BY <1>1, <1>2, <2>2 DEF Size
<1>5. last \in Key /\ \A s \in 1..Size - 1 : s \in 1..Size /\ pq[s] # last
  BY <1>2, <1>3 DEF IInv, Places, Placed
<1>6. index' \in [Key -> Int] /\ \A k \in Key : k # last => index'[k] = index[k]
  BY <1>1, <1>5 DEF IInv, Types
<1>7. answer' \in {"pop", "remove"} \X Key
  BY <1>1, <1>5
<1>8. Types'
  BY <1>1, <1>4, <1>6, <1>7 DEF IInv, Types
<1>9. Work'
  BY <1>1 DEF Work
<1>10. Placed'
  BY <1>3, <1>4, <1>5, <1>6 DEF IInv, Places, Placed
<1>11. Items' = Items \ {last}
  <2>1. ASSUME NEW s \in 1..Size, pq[s] # last PROVE s \in 1..Size - 1
    BY <1>2, <2>1
  <2> QED
    BY <1>4, <1>5, <2>1 DEF Items
<1>12. op'.do = "none" /\ op'.at = 0
  BY <1>1 DEF Unlocked
<1>13. Removed' = {} /\ Removed = IF op.do = "remove" THEN {last} ELSE {}
  BY <1>12 DEF Removed
<1>14. Places'
  BY <1>1, <1>10, <1>11, <1>13 DEF IInv, Places
<1>15. Sifted' = Size - 1
  BY <1>4, <1>12 DEF Sifted, Size
<1>16. \A s \in 1..Size - 1 : Values'[s] = Values[s]
  <2>1. Values' = [s \in 1..Size - 1 |-> priority[pq'[s]]]
    BY <1>1, <1>4 DEF Values
  <2> QED
    BY <1>3, <1>4, <1>5, <2>1
<1>17. Near(Values, 0, Size - 1)
  BY <1>1, <1>2, SettledInOrder
<1>18. Near(Values', 0, Size - 1)
  <2>1. ASSUME NEW i \in 2..Size - 1
        PROVE  i \div 2 \in 1..Size - 1 /\ i \div 2 # 0 /\ i # 0
    BY <1>2
  <2> QED
    BY <1>16, <1>17, <2>1 DEF Near
<1> QED
  BY <1>8, <1>9, <1>12, <1>14, <1>15, <1>18 DEF IInv, HeapInv

-----------------------------------------------------------------------------
LEMMA Deadlines == Deadline \subseteq Int /\ MaxTimer \in Nat
<1>1. MaxTimer \in Nat
  BY TimeAssumption DEF MaxTimer
<1>2. ASSUME NEW t \in Time PROVE t + MaxTimer \in Int
  BY <1>1, TimeAssumption DEF Time
<1>3. ASSUME NEW d \in Deadline PROVE d \in Int
  BY <1>2, TimeAssumption DEF Deadline
<1> QED
  BY <1>1, <1>3

(* The other steps leave the heap alone.                                   *)
LEMMA ClockKeeps == ASSUME IInv, Tick \/ SetBack PROVE IInv'
<1>1. now' \in Time /\ setBack' \in BOOLEAN
  <2>1. CASE Tick
    BY <2>1 DEF Tick, IInv, Types
  <2>2. CASE SetBack
    <3>1. now' \in 0..now - 1 /\ setBack' = TRUE /\ now \in 0..EndOfTime
      BY <2>2 DEF SetBack, IInv, Types, Time
    <3>2. now' \in Time
      BY <3>1, TimeAssumption DEF Time
    <3> QED
      BY <3>1, <3>2
  <2> QED
    BY <2>1, <2>2
<1>2. UNCHANGED <<pushing, pq, dt, priority, index, op, answer>>
  BY DEF Tick, SetBack, heap
<1> QED
  BY <1>1, <1>2 DEF IInv, Types, Work, Places, Placed, HeapInv, Values, Sifted, Size, Items, Removed

LEMMA PushBeginsKeeps ==
  ASSUME IInv, NEW c \in Caller, NEW k \in Key, NEW p \in Priority, PushBegins(c, k, p)
  PROVE  IInv'
<1>1. ValidMaxTimer(p) \in Deadline
  <2>1. now \in Time /\ MaxTimer \in Int
    BY TimeAssumption DEF IInv, Types, MaxTimer
  <2> QED
    BY <2>1 DEF ValidMaxTimer, Deadline
<1>2. pushing' \in [Caller -> SUBSET (Key \X Deadline)]
  BY <1>1 DEF PushBegins, IInv, Types
<1>3. UNCHANGED <<now, setBack, pq, dt, priority, index, op, answer>>
  BY DEF PushBegins, heap
<1> QED
  BY <1>2, <1>3 DEF IInv, Types, Work, Places, Placed, HeapInv, Values, Sifted, Size, Items, Removed

LEMMA InductiveInit == Init => IInv
<1> SUFFICES ASSUME Init PROVE IInv
  OBVIOUS
<1>1. pq = << >> /\ dt = {} /\ op = Unlocked /\ Size = 0
  BY DEF Init, Size
<1>2. Types
  <2>1. now \in Time /\ setBack \in BOOLEAN /\ pq \in Seq(Key) /\ dt \subseteq Key
    <3>1. << >> \in Seq(Key)
      OBVIOUS
    <3>2. pq = << >> /\ now \in Time /\ setBack = FALSE /\ dt = {}
      BY DEF Init
    <3> QED
      BY <3>1, <3>2, Zenon
  <2>2. priority \in [Key -> Int] /\ index \in [Key -> Int]
    BY DEF Init
  <2>3. pushing \in [Caller -> SUBSET (Key \X Deadline)]
    BY DEF Init
  <2>4. answer \in {<< >>} \cup {"pop", "remove"} \X Key
    BY DEF Init
  <2> QED
    BY <2>1, <2>2, <2>3, <2>4 DEF Types
<1>3. Work
  BY <1>1 DEF Work
<1>4. Places
  <2>1. op.do = "none" /\ Items = {}
    BY <1>1 DEF Unlocked, Items
  <2> QED
    BY <1>1, <2>1 DEF Places, Placed, Removed
<1>5. HeapInv
  <2>1. Sifted = 0
    BY <1>1 DEF Sifted, Unlocked, Size
  <2> QED
    BY <2>1 DEF HeapInv, Near
<1> QED
  BY <1>2, <1>3, <1>4, <1>5 DEF IInv

LEMMA InductiveStep == IInv /\ [Next]_vars => IInv'
<1> SUFFICES ASSUME IInv, [Next]_vars PROVE IInv'
  OBVIOUS
<1>1. CASE UNCHANGED vars
  BY <1>1 DEF vars, heap, IInv, Types, Work, Places, Placed, HeapInv, Values, Sifted, Size, Items,
              Removed
<1>2. CASE Next
  BY <1>2, ClockKeeps, SiftKeeps, SortedKeeps, TakenKeeps, PushBeginsKeeps, PushKeeps, RemoveKeeps,
     UpdateKeeps, PopKeeps DEF Next
<1> QED
  BY <1>1, <1>2

LEMMA Invariance == Spec => []IInv
BY InductiveInit, InductiveStep, PTL DEF Spec

-----------------------------------------------------------------------------
(* What follows from the invariant.                                        *)
THEOREM TypeCorrect == Spec => []TypeOK
<1>1. IInv => TypeOK
  <2> SUFFICES ASSUME IInv PROVE TypeOK
    OBVIOUS
  <2>1. op \in [do : {"none", "push", "fix", "pop", "remove"}, at : 0..Len(pq)]
    <3>1. Size \in Nat
      BY DEF IInv, Types, Size
    <3>2. CASE op = Unlocked
      BY <3>1, <3>2 DEF Unlocked, Size
    <3>3. CASE op # Unlocked
      BY <3>1, <3>3 DEF IInv, Work, Working, Size
    <3> QED
      BY <3>2, <3>3
  <2> QED
    BY <2>1 DEF IInv, Types, TypeOK
<1> QED
  BY <1>1, Invariance, PTL

(* Update and Remove find the item they are asked for: its Index is where  *)
(* it is in the heap, after any sequence of swaps.                         *)
THEOREM IndicesArePlaces == Spec => []IndexIsPlace
<1>1. IInv => IndexIsPlace
  <2> SUFFICES ASSUME IInv PROVE IndexIsPlace
    OBVIOUS
  <2>1. DOMAIN pq = 1..Size /\ Size \in Nat
    BY DEF IInv, Types, Size
  <2>2. \A s \in 1..Size : pq[s] \in Key
    BY ValuesAre DEF IInv
  <2>3. Taking = Removed
    <3>1. op.do = "remove" => Size \in 1..Size
      BY <2>1, OpIs DEF IInv
    <3> QED
      BY <2>1, <3>1 DEF Taking, Removed, Size
  <2>4. {pq[i] : i \in DOMAIN pq} = Items
    BY <2>1 DEF Items
  <2>5. Items \subseteq Key /\ dt \subseteq Key
    BY <2>2 DEF Items, IInv, Types
  <2>6. dt = Items \ Removed
    BY <2>5 DEF IInv, Places
  <2> QED
    BY <2>1, <2>3, <2>4, <2>6 DEF IndexIsPlace, IInv, Places, Placed
<1> QED
  BY <1>1, Invariance, PTL

(* Between two calls the heap is in order, however it was changed.         *)
THEOREM AlwaysAHeap == Spec => []HeapOrdered
<1>1. IInv => HeapOrdered
  <2> SUFFICES ASSUME IInv, ~Locked, NEW i \in 2..Len(pq) PROVE ~Less(i, i \div 2)
    BY DEF HeapOrdered
  <2>1. Near(Values, 0, Size)
    BY Idle
  <2>2. i \in 2..Size /\ i \div 2 \in 1..Size /\ i # 0 /\ i \div 2 # 0
    BY DEF Size, IInv, Types
  <2>3. Values[i \div 2] <= Values[i]
    BY <2>1, <2>2 DEF Near
  <2> QED
    BY <2>2, <2>3, ValuesAre DEF IInv, Less
<1> QED
  BY <1>1, Invariance, PTL

(* As long as the clock is not set back, no timer is further away than the *)
(* longest one, also when its deadline was cut off before the lock was     *)
(* taken.                                                                  *)
THEOREM NoneTooFar == Spec => []WithinReach
<1>1. Init => WithinReach
  BY DEF Init, WithinReach
<1>2. IInv /\ WithinReach /\ [Next]_vars => WithinReach'
  <2> SUFFICES ASSUME IInv, WithinReach, [Next]_vars, ~setBack' PROVE WithinReach'
    BY DEF WithinReach
  <2>1. MaxTimer \in Int /\ now \in Int
    BY TimeAssumption DEF MaxTimer, IInv, Types, Time
  <2>2. \A k \in Key : priority[k] \in Int
    BY DEF IInv, Types
  <2>3. dt \subseteq Key /\ MaxTimer \in Nat /\ setBack \in BOOLEAN
    BY TimeAssumption DEF MaxTimer, IInv, Types
  <2>4. CASE ~setBack
    <3>1. CASE Tick
      <4>1. now' = now + 1 /\ UNCHANGED <<pushing, dt, priority>>
        BY <3>1 DEF Tick, heap
      <4>2. ASSUME NEW c \in Caller, NEW w \in pushing[c] PROVE w[2] \in Int
        <5>1. w \in Key \X Deadline
          BY DEF IInv, Types
        <5> QED
          BY <5>1, Deadlines
      <4> QED
        BY <2>1, <2>2, <2>3, <2>4, <4>1, <4>2 DEF WithinReach
    <3>2. CASE SetBack
      BY <3>2 DEF SetBack
    <3>3. CASE Sift \/ Sorted
      BY <2>4, <3>3 DEF Sift, SwapTo, Sorted, WithinReach
    <3>4. CASE Taken
      BY <2>4, <3>4 DEF Taken, WithinReach
    <3>5. ASSUME NEW c \in Caller, NEW k \in Key, NEW p \in Priority, PushBegins(c, k, p)
          PROVE  WithinReach'
      <4>1. p \in Int
        BY TimeAssumption
      <4>2. ValidMaxTimer(p) <= now + MaxTimer
        BY <2>1, <4>1 DEF ValidMaxTimer
      <4>3. pushing' = [pushing EXCEPT ![c] = {<<k, ValidMaxTimer(p)>>}]
            /\ UNCHANGED <<now, dt, priority>>
        BY <3>5 DEF PushBegins, heap
      <4>4. pushing'[c] = {<<k, ValidMaxTimer(p)>>}
            /\ \A d \in Caller : d # c => pushing'[d] = pushing[d]
        BY <4>3 DEF IInv, Types
      <4> QED
        BY <2>4, <4>2, <4>3, <4>4 DEF WithinReach
    <3>6. ASSUME NEW c \in Caller, NEW k \in Key, NEW p \in Deadline, Push(c, k, p)
          PROVE  WithinReach'
      <4>1. <<k, p>> \in pushing[c] /\ pushing' = [pushing EXCEPT ![c] = {}] /\ UNCHANGED now
        BY <3>6 DEF Push
      <4>2. p <= now + MaxTimer
        BY <2>4, <4>1 DEF WithinReach
      <4>3. \A d \in Caller : \A w \in pushing'[d] : w \in pushing[d]
        BY <4>1 DEF IInv, Types
      <4>4. \A j \in dt' : (j \in dt /\ priority'[j] = priority[j]) \/ priority'[j] = p
        BY <2>3, <3>6 DEF Push, heap, IInv, Types
      <4> QED
        BY <2>4, <4>1, <4>2, <4>3, <4>4 DEF WithinReach
    <3>7. ASSUME NEW k \in Key, NEW p \in Priority, Update(k, p) PROVE WithinReach'
      <4>1. p \in Int
        BY TimeAssumption
      <4>2. ValidMaxTimer(p) <= now + MaxTimer
        BY <2>1, <4>1 DEF ValidMaxTimer
      <4>3. priority' = [priority EXCEPT ![k] = ValidMaxTimer(p)] /\ UNCHANGED <<now, pushing, dt>>
        BY <3>7 DEF Update
      <4>4. priority'[k] = ValidMaxTimer(p) /\ \A j \in Key : j # k => priority'[j] = priority[j]
        BY <4>3 DEF IInv, Types
      <4> QED
        BY <2>3, <2>4, <4>2, <4>3, <4>4 DEF WithinReach
    <3>8. ASSUME NEW k \in Key, Remove(k) PROVE WithinReach'
      BY <2>4, <3>8 DEF Remove, WithinReach
    <3>9. ASSUME NEW max \in Priority, Pop(max) PROVE WithinReach'
      BY <2>4, <3>9 DEF Pop, WithinReach
    <3>10. CASE UNCHANGED vars
      BY <2>4, <3>10 DEF vars, heap, WithinReach
    <3> QED
      BY <3>1, <3>2, <3>3, <3>4, <3>5, <3>6, <3>7, <3>8, <3>9, <3>10 DEF Next
  <2>5. CASE setBack
    <3>1. setBack'
      BY <2>5 DEF Next, vars, heap, Tick, SetBack, Sift, SwapTo, Sorted, Taken, PushBegins, Push,
                  Update, Remove, Pop
    <3> QED
      BY <3>1
  <2> QED
    BY <2>3, <2>4, <2>5
<1> QED
  BY <1>1, <1>2, Invariance, PTL DEF Spec

-----------------------------------------------------------------------------
(* The root of a heap is its least item.  Otherwise consider the first one *)
(* that is less: the one above it would be less, too.                      *)
LEMMA First == ASSUME NEW T, T \subseteq Nat, T # {} PROVE \E x \in T : \A y \in T : x <= y
<1> DEFINE R == {p \in Nat \X Nat : p[1] < p[2]}
<1>1. IsWellFoundedOn(R, Nat)
  BY NatLessThanWellFounded DEF OpToRel, IsWellFoundedOn
<1>2. PICK x \in T : \A y \in T : ~ (<<y, x>> \in R)
  BY <1>1, WFMin
<1>3. ASSUME NEW y \in T PROVE x <= y
  <2>1. <<y, x>> \in Nat \X Nat /\ ~ (<<y, x>> \in R)
    BY <1>2
  <2>2. ~ (y < x)
    BY <2>1
  <2> QED
    BY <2>2
<1> QED
  BY <1>3

LEMMA RootIsLeast ==
  ASSUME NEW n \in Nat, NEW v \in [1..n -> Int], Near(v, 0, n), n >= 1
  PROVE  \A s \in 1..n : v[1] <= v[s]
<1> DEFINE T == {s \in 1..n : v[s] < v[1]}
<1> SUFFICES ASSUME T # {} PROVE FALSE
  OBVIOUS
<1>1. PICK x \in T : \A y \in T : x <= y
  <2>1. T \subseteq Nat
    OBVIOUS
  <2> HIDE DEF T
  <2> QED
    BY <2>1, First
<1>2. x \in 2..n /\ v[x] < v[1]
  OBVIOUS
<1>3. x \div 2 \in 1..n /\ x \div 2 < x /\ x \div 2 # 0 /\ x # 0
  BY <1>2
<1>4. v[x \div 2] <= v[x]
  BY <1>2, <1>3 DEF Near
<1>5. v[x \div 2] < v[1]
  BY <1>2, <1>3, <1>4
<1> QED
  BY <1>1, <1>3, <1>5

(* What Pop is about to take is the least of all.                          *)
PopInv == op.do = "pop" => \A k \in Items : priority[pq[Size]] <= priority[k]

-----------------------------------------------------------------------------
(* The refinement: pending are the timers of the heap's items.             *)
Timed == [k \in Items |-> priority[k]]

LEMMA TimersAre == ASSUME Types PROVE Timed = [k \in {pq[i] : i \in DOMAIN pq} |-> priority[k]]
BY DEF Types, Timed, Items, Size

LEMMA TimersBecome ==
  ASSUME Types' PROVE Timed' = [k \in {pq'[i] : i \in DOMAIN pq'} |-> priority'[k]]
<1>1. DOMAIN pq' = 1..Size'
  BY DEF Types, Size
<1>2. Items' = {pq'[i] : i \in DOMAIN pq'}
  BY <1>1 DEF Items
<1> QED
  BY <1>2 DEF Timed

LEMMA PopInvKept == ASSUME IInv, PopInv, [Next]_vars PROVE PopInv'
<1>1. CASE Sift
  BY <1>1, SiftKeeps DEF PopInv
<1>2. ASSUME NEW max \in Priority, Pop(max) PROVE PopInv'
  <2>1. 1 \in 1..Size /\ Size \in 1..Size
    BY <1>2 DEF Pop, IInv, Types, Size
  <2>2. Size' = Size /\ pq'[Size] = pq[1] /\ Items' = Items /\ UNCHANGED priority
    BY <1>2, <2>1, SwapKeeps DEF Pop, IInv, Types, Places, Size
  <2>3. \A s \in 1..Size : Values[1] <= Values[s]
    <3>1. Near(Values, 0, Size)
      BY <1>2, Idle DEF Pop
    <3>2. Size \in Nat /\ Size >= 1 /\ Values \in [1..Size -> Int]
      BY <2>1, ValuesAre DEF IInv
    <3> QED
      BY <3>1, <3>2, RootIsLeast
  <2>4. \A s \in 1..Size : priority[pq[1]] <= priority[pq[s]]
    BY <2>1, <2>3, ValuesAre DEF IInv
  <2> QED
    BY <2>2, <2>4 DEF PopInv, Items
<1>3. CASE Sorted \/ Taken
  BY <1>3 DEF Sorted, Taken, PopInv, Unlocked
<1>4. ASSUME NEW k \in Key, NEW p \in Priority, Update(k, p) PROVE PopInv'
  BY <1>4 DEF Update, Working, PopInv
<1>5. ASSUME NEW k \in Key, Remove(k) PROVE PopInv'
  BY <1>5 DEF Remove, Working, PopInv
<1>6. CASE UNCHANGED <<pq, priority, op>>
  BY <1>6 DEF PopInv, Items, Size
<1>7. CASE Tick \/ SetBack \/ UNCHANGED vars
  BY <1>6, <1>7 DEF Tick, SetBack, vars, heap
<1>8. ASSUME NEW c \in Caller, NEW k \in Key, NEW p \in Priority, PushBegins(c, k, p)
      PROVE  PopInv'
  BY <1>6, <1>8 DEF PushBegins, heap
<1>9. ASSUME NEW c \in Caller, NEW k \in Key, NEW p \in Deadline, Push(c, k, p)
      PROVE  PopInv'
  <2>1. CASE UNCHANGED heap
    BY <1>6, <2>1 DEF heap
  <2>2. CASE op' = Working("push", Len(pq) + 1)
    BY <2>2 DEF Working, PopInv
  <2> QED
    BY <1>9, <2>1, <2>2 DEF Push
<1> QED
  BY <1>1, <1>2, <1>3, <1>4, <1>5, <1>7, <1>8, <1>9 DEF Next

(* What each step does to the timers.                                      *)
LEMMA SetTimer ==
  ASSUME IInv, IInv', NEW k \in Key, NEW p, k \notin Items, Items' = Items \cup {k},
         priority' = [priority EXCEPT ![k] = p], UNCHANGED answer
  PROVE  Promise!Set(k, p)
<1>1. Timed = [j \in {pq[i] : i \in DOMAIN pq} |-> priority[j]]
  BY TimersAre DEF IInv
<1>2. Timed' = [j \in {pq'[i] : i \in DOMAIN pq'} |-> priority'[j]]
  BY TimersBecome DEF IInv
<1>3. DOMAIN Timed = Items
  BY DEF Timed
<1>4. Items \subseteq Key
  BY ValuesAre DEF IInv, Items
<1>5. Timed' = [j \in Items \cup {k} |-> IF j = k THEN p ELSE Timed[j]]
  <2>1. \A j \in Key : priority'[j] = IF j = k THEN p ELSE priority[j]
    BY DEF IInv, Types
  <2> QED
    BY <1>4, <2>1 DEF Timed
<1> HIDE DEF Timed
<1> QED
  BY <1>1, <1>2, <1>3, <1>5 DEF Promise!Set, Promise!Pending

LEMMA ResetTimer ==
  ASSUME IInv, IInv', NEW k \in Key, NEW p, k \in Items, Items' = Items,
         priority' = [priority EXCEPT ![k] = p], UNCHANGED answer
  PROVE  Promise!Reset(k, p)
<1>1. Timed = [j \in {pq[i] : i \in DOMAIN pq} |-> priority[j]]
  BY TimersAre DEF IInv
<1>2. Timed' = [j \in {pq'[i] : i \in DOMAIN pq'} |-> priority'[j]]
  BY TimersBecome DEF IInv
<1>3. DOMAIN Timed = Items
  BY DEF Timed
<1>4. Items \subseteq Key
  BY ValuesAre DEF IInv, Items
<1>5. Timed' = [Timed EXCEPT ![k] = p]
  <2>1. \A j \in Key : priority'[j] = IF j = k THEN p ELSE priority[j]
    BY DEF IInv, Types
  <2> QED
    BY <1>4, <2>1 DEF Timed
<1> HIDE DEF Timed
<1> QED
  BY <1>1, <1>2, <1>3, <1>5 DEF Promise!Reset, Promise!Pending

LEMMA TakeTimer ==
  ASSUME IInv, IInv', NEW k \in Items, Items' = Items \ {k}, UNCHANGED priority
  PROVE  /\ answer' = <<"remove", k>> => Promise!Cancel(k)
         /\ answer' = <<"pop", k>> /\ (\A j \in Items : priority[k] <= priority[j]) => Promise!Fire(k)
<1>1. Timed = [j \in {pq[i] : i \in DOMAIN pq} |-> priority[j]]
  BY TimersAre DEF IInv
<1>2. Timed' = [j \in {pq'[i] : i \in DOMAIN pq'} |-> priority'[j]]
  BY TimersBecome DEF IInv
<1>3. DOMAIN Timed = Items /\ \A j \in Items : Timed[j] = priority[j]
  BY DEF Timed
<1>4. Timed' = [j \in Items \ {k} |-> Timed[j]]
  BY DEF Timed
<1> HIDE DEF Timed
<1> QED
  BY <1>1, <1>2, <1>3, <1>4 DEF Promise!Cancel, Promise!Fire, Promise!Without, Promise!Pending

LEMMA NoTimer ==
  ASSUME IInv, IInv', Items' = Items, \A k \in Items : priority'[k] = priority[k], UNCHANGED answer
  PROVE  UNCHANGED Promise!vars
<1>1. Timed = [j \in {pq[i] : i \in DOMAIN pq} |-> priority[j]]
  BY TimersAre DEF IInv
<1>2. Timed' = [j \in {pq'[i] : i \in DOMAIN pq'} |-> priority'[j]]
  BY TimersBecome DEF IInv
<1>3. Timed' = Timed
  BY DEF Timed
<1> HIDE DEF Timed
<1> QED
  BY <1>1, <1>2, <1>3 DEF Promise!vars

LEMMA PushSets ==
  ASSUME IInv, IInv', NEW c \in Caller, NEW k \in Key, NEW p \in Deadline, Push(c, k, p)
  PROVE  Promise!Set(k, p) \/ UNCHANGED Promise!vars
<1>1. CASE UNCHANGED heap
  BY <1>1, NoTimer DEF heap, Items, Size
<1>2. CASE k \notin dt /\ ~UNCHANGED heap
  <2>1. /\ ~Locked /\ dt' = dt \cup {k}
        /\ priority' = [priority EXCEPT ![k] = p] /\ UNCHANGED answer
        /\ op' = Working("push", Len(pq) + 1)
    BY <1>2 DEF Push
  <2>2. Items \subseteq Key /\ dt \subseteq Key
    BY ValuesAre DEF IInv, Items, Types
  <2>3. Items = dt
    BY <2>1, <2>2, Idle
  <2>4. Removed' = {}
    BY <2>1 DEF Removed, Working
  <2>5. Items' \subseteq Key
    <3>1. \A s \in 1..Size' : pq'[s] \in Key
      BY ElementOfSeq DEF IInv, Types, Size
    <3> QED
      BY <3>1 DEF Items
  <2>6. Items' = dt'
    BY <2>1, <2>2, <2>4, <2>5 DEF IInv, Places
  <2> QED
    BY <1>2, <2>1, <2>3, <2>6, SetTimer
<1> QED
  BY <1>1, <1>2 DEF Push

LEMMA TakenTakes ==
  ASSUME IInv, IInv', PopInv, Taken
  PROVE  \E k \in Key : Promise!Fire(k) \/ Promise!Cancel(k)
<1> DEFINE last == pq[Size]
<1>1. /\ op.do \in {"pop", "remove"}
      /\ dt' = dt \ (IF op.do = "pop" THEN {last} ELSE {})
      /\ answer' = <<op.do, last>> /\ op' = Unlocked /\ UNCHANGED priority
  BY DEF Taken, Size
<1>2. Size \in 1..Size
  BY OpIs DEF Taken, Settled, IInv
<1>3. last \in Items /\ last \in Key
  BY <1>2, ValuesAre DEF IInv, Items
<1>4. Items \subseteq Key
  BY ValuesAre DEF IInv, Items
<1>5. Items' \subseteq Key
  <2>1. \A s \in 1..Size' : pq'[s] \in Key
    BY ElementOfSeq DEF IInv, Types, Size
  <2> QED
    BY <2>1 DEF Items
<1>6. Items' = Items \ {last}
  <2>1. Removed = (IF op.do = "remove" THEN {last} ELSE {}) /\ Removed' = {}
    BY <1>1 DEF Removed, Unlocked
  <2>2. \A k \in Key : k \in dt <=> k \in Items /\ k \notin Removed
    BY DEF IInv, Places
  <2>3. \A k \in Key : k \in dt' <=> k \in Items'
    BY <2>1 DEF IInv, Places
  <2> HIDE DEF last
  <2> QED
    BY <1>1, <1>4, <1>5, <2>1, <2>2, <2>3
<1>7. CASE op.do = "pop"
  <2>1. \A j \in Items : priority[last] <= priority[j]
    BY <1>7 DEF PopInv
  <2> HIDE DEF last
  <2> QED
    BY <1>1, <1>3, <1>6, <1>7, <2>1, TakeTimer
<1>8. CASE op.do = "remove"
  <2> HIDE DEF last
  <2> QED
    BY <1>1, <1>3, <1>6, <1>8, TakeTimer
<1> QED
  BY <1>1, <1>7, <1>8

(* The queue, whose steps are swaps of two places, implements the timers   *)
(* of module Timers: at most one per key, none lost, the earliest fires.   *)
THEOREM KeepsPromise == Spec => TimersKept
<1>1. Init => Promise!Init /\ PopInv
  <2> SUFFICES ASSUME Init PROVE Promise!Init /\ PopInv
    OBVIOUS
  <2>1. pq = << >> /\ answer = << >> /\ op.do = "none"
    BY DEF Init, Unlocked
  <2>2. {pq[i] : i \in DOMAIN pq} = {}
    BY <2>1
  <2>3. [k \in {pq[i] : i \in DOMAIN pq} |-> priority[k]] = [k \in {} |-> 0]
    BY <2>2
  <2> QED
    BY <2>1, <2>3 DEF Promise!Init, PopInv
<1>2. IInv /\ PopInv /\ [Next]_vars => PopInv'
  BY PopInvKept
<1>3. IInv /\ IInv' /\ PopInv /\ [Next]_vars => [Promise!Next]_(Promise!vars)
  <2> SUFFICES ASSUME IInv, IInv', PopInv, [Next]_vars PROVE [Promise!Next]_(Promise!vars)
    OBVIOUS
  <2>1. CASE Tick \/ SetBack \/ UNCHANGED vars
    <3>1. UNCHANGED <<pq, priority, answer>>
      BY <2>1 DEF Tick, SetBack, vars, heap
    <3> QED
      BY <3>1, NoTimer DEF Items, Size
  <2>2. CASE Sift
    <3>1. Items' = Items /\ UNCHANGED <<priority, answer>>
      BY <2>2, SiftKeeps
    <3> QED
      BY <3>1, NoTimer
  <2>3. CASE Sorted
    <3>1. UNCHANGED <<pq, priority, answer>>
      BY <2>3 DEF Sorted
    <3> QED
      BY <3>1, NoTimer DEF Items, Size
  <2>4. CASE Taken
    BY <2>4, TakenTakes DEF Promise!Next
  <2>5. ASSUME NEW c \in Caller, NEW k \in Key, NEW p \in Priority, PushBegins(c, k, p)
        PROVE  UNCHANGED Promise!vars
    <3>1. UNCHANGED <<pq, priority, answer>>
      BY <2>5 DEF PushBegins, heap
    <3> QED
      BY <3>1, NoTimer DEF Items, Size
  <2>6. ASSUME NEW c \in Caller, NEW k \in Key, NEW p \in Deadline, Push(c, k, p)
        PROVE  [Promise!Next]_(Promise!vars)
    BY <2>6, PushSets DEF Promise!Next
  <2>7. ASSUME NEW k \in Key, Remove(k) PROVE UNCHANGED Promise!vars
    <3>1. index[k] \in 1..Size /\ Size \in 1..Size
      <4>1. ~Locked /\ k \in dt
        BY <2>7 DEF Remove
      <4>2. k \in Items
        BY <4>1, Idle
      <4>3. PICK i \in 1..Size : pq[i] = k
        BY <4>2 DEF Items
      <4>4. index[k] = i /\ Size \in Nat
        BY <4>3, OpIs DEF IInv, Places, Placed
      <4> QED
        BY <4>4
    <3>2. Items' = Items /\ UNCHANGED <<priority, answer>>
      BY <2>7, <3>1, SwapKeeps DEF Remove, IInv, Types, Places, Size
    <3> QED
      BY <3>2, NoTimer
  <2>8. ASSUME NEW k \in Key, NEW p \in Priority, Update(k, p) PROVE Promise!Next
    <3>1. ValidMaxTimer(p) \in Deadline
      BY DEF IInv, Types, ValidMaxTimer, Deadline
    <3>2. PICK d \in Deadline : d = ValidMaxTimer(p)
      BY <3>1
    <3>3. k \in Items /\ Items' = Items /\ UNCHANGED answer
          /\ priority' = [priority EXCEPT ![k] = d]
      BY <2>8, <3>2, Idle DEF Update, Items, Size
    <3>4. Promise!Reset(k, d)
      BY <3>3, ResetTimer
    <3> QED
      BY <3>4 DEF Promise!Next
  <2>9. ASSUME NEW max \in Priority, Pop(max) PROVE UNCHANGED Promise!vars
    <3>1. 1 \in 1..Size /\ Size \in 1..Size
      BY <2>9 DEF Pop, IInv, Types, Size
    <3>2. Items' = Items /\ UNCHANGED <<priority, answer>>
      BY <2>9, <3>1, SwapKeeps DEF Pop, IInv, Types, Places, Size
    <3> QED
      BY <3>2, NoTimer
  <2> QED
    BY <2>1, <2>2, <2>3, <2>4, <2>5, <2>6, <2>7, <2>8, <2>9 DEF Next
<1> QED
  BY <1>1, <1>2, <1>3, Invariance, PTL DEF Spec, TimersKept, Promise!Spec
=============================================================================
