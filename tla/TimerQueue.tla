----------------------------- MODULE TimerQueue ------------------------------
(***************************************************************************)
(* The timer queue (STL/PriorityQueueEx.go): a binary heap of items and a  *)
(* map from key to item, under one lock.  The heap is container/heap's; it *)
(* moves items by calling Swap, which keeps each item's Index in step, and *)
(* Update and Remove find an item's place by its Index.  An item is its    *)
(* key: at most one is in use per key.  Places count from 1.               *)
(***************************************************************************)
EXTENDS Integers, Sequences

CONSTANTS
  Key,        \* what kg makes of the timers' ids
  Caller,     \* goroutines that call Push
  Priority,   \* the deadlines asked for, seconds
  Asked,      \* the maxTimer asked for in Init
  LeastMax,   \* 60, lhsValueOfMaxTimerInSecond
  EndOfTime   \* the last second of the clock (a bound)

MaxTimer == IF Asked < LeastMax THEN LeastMax ELSE Asked
Time == 0..EndOfTime
Deadline == Priority \cup {t + MaxTimer : t \in Time}

ASSUME TimeAssumption ==
  /\ Priority \subseteq Int
  /\ Asked \in Int /\ LeastMax \in Nat /\ EndOfTime \in Nat

VARIABLES
  now,      \* time.Now().Unix()
  setBack,  \* whether the clock was ever set back
  pq,       \* the heap, the keys of its items
  dt,       \* the keys in the map
  priority, \* each item's Priority
  index,    \* each item's Index, -1 outside of the heap
  pushing,  \* for each caller the pushes with their deadline that wait for the lock
  op,       \* what the holder of the lock is doing, and with which place of the heap
  answer    \* the item taken last, by "pop" or by "remove"

heap == <<pq, dt, priority, index, op, answer>>
vars == <<now, setBack, pushing, heap>>

Unlocked == [do |-> "none", at |-> 0]
Locked == op # Unlocked
Working(what, i) == [do |-> what, at |-> i]

Init ==
  /\ now \in Time
  /\ setBack = FALSE
  /\ pq = << >>
  /\ dt = {}
  /\ priority = [k \in Key |-> 0]
  /\ index = [k \in Key |-> -1]
  /\ pushing = [c \in Caller |-> {}]
  /\ op = Unlocked
  /\ answer = << >>

-----------------------------------------------------------------------------
(* The clock, which may be set.                                            *)
Tick ==
  /\ now + 1 \in Time
  /\ now' = now + 1
  /\ UNCHANGED <<setBack, pushing, heap>>

SetBack ==
  /\ now' \in 0..now - 1
  /\ setBack' = TRUE
  /\ UNCHANGED <<pushing, heap>>

ValidAsAsked(p) == p \* mutant: no deadline is too far away

ValidMaxTimer(p) == IF p > now + MaxTimer THEN now + MaxTimer ELSE p

InvalidTimerNode(k) == priority[k] > now + MaxTimer

-----------------------------------------------------------------------------
(* The interface that container/heap calls.                                *)
MoreUrgentLast(i, j) == priority[pq[i]] > priority[pq[j]] \* mutant: the other way round

Less(i, j) == priority[pq[i]] < priority[pq[j]]

MovedTo(q, i, j) == [q EXCEPT ![i] = q[j], ![j] = q[i]]

SwapOneIndex(i, j) == \* mutant: only one of the two learns its place
  /\ pq' = MovedTo(pq, i, j)
  /\ index' = [index EXCEPT ![pq[i]] = j]

Swap(i, j) ==
  /\ pq' = MovedTo(pq, i, j)
  /\ index' = [index EXCEPT ![pq[i]] = j, ![pq[j]] = i]

PushItem(k) ==
  /\ pq' = Append(pq, k)
  /\ index' = [index EXCEPT ![k] = Len(pq) + 1]

PopItem ==
  /\ pq' = SubSeq(pq, 1, Len(pq) - 1)
  /\ index' = [index EXCEPT ![pq[Len(pq)]] = -1]

(* container/heap lets an item that is out of order rise or sink, among    *)
(* the first Sifted: the last one is about to be taken off.                *)
Sifted == IF op.do \in {"pop", "remove"} THEN Len(pq) - 1 ELSE Len(pq)

Rises == op.at \in 2..Sifted /\ Less(op.at, op.at \div 2)

Below(i, j) ==
  /\ j \in {2 * i, 2 * i + 1}
  /\ j <= Sifted
  /\ \A s \in {2 * i, 2 * i + 1} : s <= Sifted => ~Less(s, j)
  /\ j = 2 * i + 1 => Less(j, 2 * i)

SinksTo(j) == Below(op.at, j) /\ Less(j, op.at)

SwapTo(j) ==
  /\ Swap(op.at, j)
  /\ op' = [op EXCEPT !.at = j]
  /\ UNCHANGED <<now, setBack, pushing, dt, priority, answer>>

Sift ==
  /\ Locked
  /\ \/ Rises /\ SwapTo(op.at \div 2)
     \/ \E j \in DOMAIN pq : SinksTo(j) /\ SwapTo(j)

Settled == Locked /\ ~Rises /\ \A j \in DOMAIN pq : ~SinksTo(j)

-----------------------------------------------------------------------------
(* The longest timer is looked up before the lock is taken.                *)
PushBegins(c, k, p) ==
  /\ pushing[c] = {}
  /\ pushing' = [pushing EXCEPT ![c] = {<<k, ValidMaxTimer(p)>>}]
  /\ UNCHANGED <<now, setBack, heap>>

Push(c, k, p) ==
  /\ ~Locked
  /\ <<k, p>> \in pushing[c]
  /\ pushing' = [pushing EXCEPT ![c] = {}]
  /\ \/ k \in dt /\ UNCHANGED heap
     \/ /\ k \notin dt
        /\ dt' = dt \cup {k}
        /\ priority' = [priority EXCEPT ![k] = p]
        /\ PushItem(k)
        /\ op' = Working("push", Len(pq) + 1)
        /\ UNCHANGED answer
  /\ UNCHANGED <<now, setBack>>

UpdateInPlace(k, p) == \* mutant: without Fix
  /\ ~Locked
  /\ k \in dt
  /\ priority' = [priority EXCEPT ![k] = ValidMaxTimer(p)]
  /\ UNCHANGED <<now, setBack, pushing, pq, dt, index, answer, op>>

Update(k, p) ==
  /\ ~Locked
  /\ k \in dt
  /\ priority' = [priority EXCEPT ![k] = ValidMaxTimer(p)]
  /\ op' = Working("fix", index[k])
  /\ UNCHANGED <<now, setBack, pushing, pq, dt, index, answer>>

(* Pop and Remove swap the item they take to the end of the heap, and let  *)
(* the one that comes in its place find its own.  By IndexIsPlace Pop of an*)
(* empty heap finds an empty map, and Remove no item outside of the heap.  *)
Pop(max) ==
  /\ ~Locked
  /\ pq # << >>
  /\ priority[pq[1]] < max \/ InvalidTimerNode(pq[1])
  /\ Swap(1, Len(pq))
  /\ op' = Working("pop", 1)
  /\ UNCHANGED <<now, setBack, pushing, dt, priority, answer>>

Remove(k) ==
  /\ ~Locked
  /\ k \in dt
  /\ index[k] >= 0
  /\ dt' = dt \ {k}
  /\ Swap(index[k], Len(pq))
  /\ op' = Working("remove", index[k])
  /\ UNCHANGED <<now, setBack, pushing, priority, answer>>

Sorted ==
  /\ Settled
  /\ op.do \in {"push", "fix"}
  /\ op' = Unlocked
  /\ UNCHANGED <<now, setBack, pushing, pq, dt, priority, index, answer>>

Taken ==
  /\ Settled
  /\ op.do \in {"pop", "remove"}
  /\ PopItem
  /\ dt' = dt \ (IF op.do = "pop" THEN {pq[Len(pq)]} ELSE {})
  /\ answer' = <<op.do, pq[Len(pq)]>>
  /\ op' = Unlocked
  /\ UNCHANGED <<now, setBack, pushing, priority>>

-----------------------------------------------------------------------------
Next ==
  \/ Tick \/ SetBack
  \/ Sift \/ Sorted \/ Taken
  \/ \E c \in Caller, k \in Key :
       \/ \E p \in Priority : PushBegins(c, k, p)
       \/ \E p \in Deadline : Push(c, k, p)
  \/ \E k \in Key : Remove(k) \/ \E p \in Priority : Update(k, p)
  \/ \E max \in Priority : Pop(max)

Spec == Init /\ [][Next]_vars

-----------------------------------------------------------------------------
TypeOK ==
  /\ now \in Time /\ setBack \in BOOLEAN
  /\ pq \in Seq(Key)
  /\ dt \subseteq Key
  /\ priority \in [Key -> Int]
  /\ index \in [Key -> Int]
  /\ pushing \in [Caller -> SUBSET (Key \X Deadline)]
  /\ op \in [do : {"none", "push", "fix", "pop", "remove"}, at : 0..Len(pq)]
  /\ answer \in {<< >>} \cup {"pop", "remove"} \X Key

Taking == {pq[i] : i \in {j \in DOMAIN pq : op.do = "remove" /\ j = Len(pq)}}

(* Whatever was pushed, updated, popped and removed, an item's Index is    *)
(* its place, and the map has the items of the heap.                       *)
IndexIsPlace ==
  /\ \A i \in DOMAIN pq : index[pq[i]] = i
  /\ dt = {pq[i] : i \in DOMAIN pq} \ Taking

(* Whoever takes the lock finds a heap.                                    *)
HeapOrdered == ~Locked => \A i \in 2..Len(pq) : ~Less(i, i \div 2)

(* A timer is further away than the longest one, and thus popped at once,  *)
(* only when the clock was set back after it was set.                      *)
WithinReach ==
  ~setBack => /\ \A k \in dt : priority[k] <= now + MaxTimer
              /\ \A c \in Caller : \A w \in pushing[c] : w[2] <= now + MaxTimer

(* Lock, map and heap together implement the timers of module Timers.      *)
Promise == INSTANCE Timers WITH
  timers <- [k \in {pq[i] : i \in DOMAIN pq} |-> priority[k]]
TimersKept == Promise!Spec
=============================================================================
