---------------------------- MODULE LookupProofs -----------------------------
(***************************************************************************)
(* What the lookup client guarantees for any nodes, replies, senders and   *)
(* bounds, and the load balancer, the counter of which it shares, for any  *)
(* number of types and nodes.                                              *)
(***************************************************************************)
EXTENDS LookupClient, RoundRobin, Integers, FiniteSetTheorems, TLAPS

(* A request in progress goes round its list from start.                   *)
Elements(l) == {l[i] : i \in DOMAIN l}
TriedBefore(l, s, k) == {l[((s + j) % Len(l)) + 1] : j \in 0..k-1}
Cycling(l, s, k, T) ==
  /\ s \in 0..Len(l)-1 /\ k \in 0..Len(l)-1
  /\ T = TriedBefore(l, s, k)

RequestInv ==
  \A c \in Caller :
    /\ pc[c] \in {"listed", "trying"} => list[c] # << >>
    /\ pc[c] = "listed" => tried[c] = {}
    /\ pc[c] = "trying" => Cycling(list[c], start[c], next[c], tried[c])
    /\ pc[c] = "failed" => tried[c] = Elements(list[c])

(* Loop and ExitFn make requests about own nodes that exist; a refresh has *)
(* a reply to work on.                                                     *)
OwnInv ==
  /\ loopPc \in {"register", "drop"} /\ pc[Loop] # "idle" => own[Loop] \in OwnNode
  /\ exitPc = "drop" /\ pc[ExitFn] # "idle" => own[ExitFn] \in OwnNode
  /\ pc[Loop] # "idle" => loopPc \in {"fetch", "register", "drop"}
  /\ pc[ExitFn] # "idle" => exitPc = "drop"
  /\ loopPc = "refresh" => fresh \in Table

DropInv ==
  /\ dropped # {} => loopPc \in {"drop", "stopped"}
  /\ DropIsFinal

IInv == TypeOK /\ RequestInv /\ OwnInv /\ DropInv

-----------------------------------------------------------------------------
(* Division with remainder by a variable divisor.                          *)
LEMMA QuotientInteger ==
  ASSUME NEW k \in Nat, NEW n \in Nat \ {0}
  PROVE k \div n \in Int
OBVIOUS

LEMMA RemainderRange ==
  ASSUME NEW k \in Nat, NEW n \in Nat \ {0}
  PROVE k % n \in 0..n-1
OBVIOUS

LEMMA Division ==
  ASSUME NEW k \in Int, NEW n \in Int, n > 0
  PROVE k = n * (k \div n) + (k % n)
BY Z3

LEMMA RemainderUnique ==
  ASSUME NEW q \in Int, NEW n \in Nat \ {0}, NEW r \in 0..n-1
  PROVE (n * q + r) % n = r
OBVIOUS

(* A number below the divisor is its own remainder.                        *)
LEMMA SmallRemainder ==
  ASSUME NEW n \in Nat \ {0}, NEW r \in 0..n-1
  PROVE r % n = r
OBVIOUS

(* Counting on by one goes round.                                          *)
LEMMA RemainderSuccessor ==
  ASSUME NEW k \in Nat, NEW n \in Nat \ {0}
  PROVE (k + 1) % n = IF k % n = n - 1 THEN 0 ELSE (k % n) + 1
<1> DEFINE q == k \div n
           r == k % n
<1>1. q \in Int /\ r \in 0..n-1
  BY QuotientInteger
<1>2. k = n * q + r
  BY Division
<1>3. CASE r = n - 1
  <2>1. n * (q + 1) = n * q + n
    BY <1>1
  <2>2. k + 1 = n * (q + 1) + 0
    BY <1>1, <1>2, <1>3, <2>1
  <2>3. q + 1 \in Int /\ 0 \in 0..n-1
    BY <1>1
  <2> HIDE DEF q, r
  <2>4. (n * (q + 1) + 0) % n = 0
    BY <2>3, RemainderUnique
  <2> QED
    BY <2>2, <2>4, <1>3 DEF r
<1>4. CASE r # n - 1
  <2>1. r + 1 \in 0..n-1
    BY <1>1, <1>4
  <2>2. k + 1 = n * q + (r + 1)
    BY <1>1, <1>2
  <2> HIDE DEF q, r
  <2>3. (n * q + (r + 1)) % n = r + 1
    BY <1>1, <2>1, RemainderUnique
  <2> QED
    BY <2>2, <2>3, <1>4 DEF r
<1> QED
  BY <1>3, <1>4

(* Listings of a set of uids are sequences of them.                        *)
LEMMA ListingType ==
  ASSUME NEW S \in SUBSET Uid, NEW l \in Listings(S)
  PROVE l \in Seq(Uid) /\ Elements(l) = S
<1>1. IsFiniteSet(S)
  BY UidAssumption, FS_Subset
<1>2. Cardinality(S) \in Nat
  BY <1>1, FS_CardinalityType
<1>3. l \in [1..Cardinality(S) -> S] /\ \A u \in S : \E i \in DOMAIN l : l[i] = u
  BY DEF Listings
<1> QED
  BY <1>2, <1>3 DEF Elements

(* n steps from any start go round the whole list.                         *)
LEMMA FullCircle ==
  ASSUME NEW l \in Seq(Uid), l # << >>, NEW s \in 0..Len(l)-1
  PROVE TriedBefore(l, s, Len(l)) = Elements(l)
<1> DEFINE n == Len(l)
<1>1. n \in Nat \ {0} /\ DOMAIN l = 1..n
  OBVIOUS
<1>2. ASSUME NEW j \in 0..n-1 PROVE l[((s + j) % n) + 1] \in Elements(l)
  <2>0. s + j \in Nat
    BY <1>1
  <2>1. (s + j) % n \in 0..n-1
    BY <1>1, <2>0, RemainderRange
  <2>2. ((s + j) % n) + 1 \in DOMAIN l
    BY <1>1, <2>1
  <2> QED
    BY <2>2 DEF Elements
<1>3. ASSUME NEW i \in 1..n PROVE \E j \in 0..n-1 : l[((s + j) % n) + 1] = l[i]
  <2> DEFINE j == IF i - 1 >= s THEN i - 1 - s ELSE i - 1 - s + n
             q == IF i - 1 >= s THEN 0 ELSE 1
  <2>1. j \in 0..n-1 /\ q \in Int /\ i - 1 \in 0..n-1
    BY <1>1
  <2>2. s + j = n * q + (i - 1)
    BY <1>1
  <2>3. (n * q + (i - 1)) % n = i - 1
    BY <1>1, <2>1, RemainderUnique
  <2> HIDE DEF j, q
  <2>4. ((s + j) % n) + 1 = i
    BY <1>1, <2>2, <2>3
  <2> QED
    BY <2>1, <2>4
<1> QED
  BY <1>1, <1>2, <1>3 DEF TriedBefore, Elements

(* One more node is tried.                                                 *)
LEMMA OneMore ==
  ASSUME NEW l, NEW s, NEW k \in Nat
  PROVE TriedBefore(l, s, k + 1) = TriedBefore(l, s, k) \cup {l[((s + k) % Len(l)) + 1]}
BY DEF TriedBefore

(* The node tried is one of the list.                                      *)
LEMMA TargetListed ==
  ASSUME NEW l \in Seq(Uid), l # << >>, NEW s \in Nat, NEW k \in Nat
  PROVE l[((s + k) % Len(l)) + 1] \in Uid
<1>1. Len(l) \in Nat \ {0} /\ s + k \in Nat
  OBVIOUS
<1>2. (s + k) % Len(l) \in 0..Len(l)-1
  BY <1>1, RemainderRange
<1> QED
  BY <1>2

LEMMA FilledTable ==
  ASSUME NEW n \in Table
  PROVE FillLookupNodes(n) \in Table
BY UidAssumption DEF FillLookupNodes, Table

LEMMA ErasedTable ==
  ASSUME NEW n \in Table, NEW U
  PROVE Erase(n, U) \in Table
BY DEF Erase, Table

LEMMA ListedTable ==
  ASSUME NEW reply \in Replies
  PROVE Listed(reply) \in Table
BY DEF Listed, Table

LEMMA CounterType ==
  ASSUME NEW k \in Nat, NEW n \in Nat
  PROVE NextIndex(k, n) \in Nat /\ CounterAfter(k, n) \in Nat
<1>1. CASE n = 0
  BY <1>1 DEF NextIndex, CounterAfter
<1>2. CASE n # 0
  <2>1. k % n \in 0..n-1 /\ (k + 1) % n \in 0..n-1
    BY <1>2, RemainderRange
  <2> QED
    BY <1>2, <2>1 DEF NextIndex, CounterAfter
<1> QED
  BY <1>1, <1>2

LEMMA InductiveInit == Init => IInv
<1> SUFFICES ASSUME Init PROVE IInv
  OBVIOUS
<1>1. nodes \in Table
  <2>1. EmptyTable \in Table
    BY DEF EmptyTable, Table
  <2> QED
    BY <2>1, FilledTable DEF Init
<1>2. TypeOK
  <2>1. counter \in [Type -> Nat] /\ start \in [Caller -> Nat] /\ next \in [Caller -> Nat]
    BY DEF Init
  <2>2. kind \in [Caller -> Type]
    BY UidAssumption DEF Init
  <2>3. list \in [Caller -> Seq(Uid)]
    <3>1. list = [c \in Caller |-> << >>]
      BY DEF Init
    <3>2. << >> \in Seq(Uid)
      OBVIOUS
    <3> QED
      BY <3>1, <3>2
  <2>4. own \in [{Loop, ExitFn} -> 1..Own+1]
    <3>1. own = [c \in {Loop, ExitFn} |-> 1]
      BY DEF Init
    <3>2. 1 \in 1..Own+1
      BY SizeAssumption
    <3> QED
      BY <3>1, <3>2
  <2>5. pc \in [Caller -> {"idle", "listed", "trying", "ok", "failed"}]
    <3>1. pc = [c \in Caller |-> "idle"]
      BY DEF Init
    <3> QED
      BY <3>1
  <2>6. tried \in [Caller -> SUBSET Uid]
    BY DEF Init
  <2>7. /\ loopPc = "add exit function" /\ heartbeat = FALSE /\ fresh = NoReply /\ toAdd = {}
        /\ added = FALSE /\ exitPc = "none" /\ exiting = FALSE /\ world \in Replies
        /\ registered = {} /\ late = {} /\ dropped = {}
    BY DEF Init
  <2>8. /\ updates \in 0..QueueSize /\ notices \in Nat
        /\ changes \in 0..MaxChanges /\ requests \in 0..MaxRequests
    <3>1. updates = 0 /\ notices = 0 /\ changes = 0 /\ requests = 0
      BY DEF Init
    <3> QED
      BY <3>1, SizeAssumption
  <2> QED
    BY <1>1, <2>1, <2>2, <2>3, <2>4, <2>5, <2>6, <2>7, <2>8 DEF TypeOK
<1>3. RequestInv
  <2>1. \A c \in Caller : pc[c] = "idle"
    BY DEF Init
  <2> QED
    BY <2>1 DEF RequestInv
<1>4. OwnInv
  <2>1. pc[Loop] = "idle" /\ pc[ExitFn] = "idle" /\ loopPc = "add exit function"
    BY DEF Init, Caller
  <2> QED
    BY <2>1 DEF OwnInv
<1>5. DropInv
  BY DEF Init, DropInv, DropIsFinal
<1> QED
  BY <1>2, <1>3, <1>4, <1>5 DEF IInv

-----------------------------------------------------------------------------
(* The steps every request makes, and what they do to the invariant's      *)
(* part about requests.                                                    *)
LEMMA BeginRequest ==
  ASSUME IInv, NEW c \in Caller, NEW t \in Type, NEW only, Begin(c, t, only)
  PROVE /\ nodes' \in Table
        /\ counter' \in [Type -> Nat]
        /\ pc' \in [Caller -> {"idle", "listed", "trying", "ok", "failed"}]
        /\ kind' \in [Caller -> Type]
        /\ list' \in [Caller -> Seq(Uid)]
        /\ start' \in [Caller -> Nat] /\ next' \in [Caller -> Nat]
        /\ tried' \in [Caller -> SUBSET Uid]
        /\ own' = own
        /\ RequestInv'
        /\ \A d \in Caller \ {c} : pc'[d] = pc[d]
<1>1. PICK l \in SortWithFilter(nodes, [exclude |-> {}, include |-> only], OnlyThe(t)) :
        /\ list' = [list EXCEPT ![c] = l]
        /\ pc' = [pc EXCEPT ![c] = IF l = << >> THEN "failed" ELSE "listed"]
        /\ nodes' = IF l = << >> /\ c \notin Sender THEN FillLookupNodes(nodes) ELSE nodes
  BY DEF Begin
<1>2. l \in Seq(Uid)
  <2>1. Passing(nodes, [exclude |-> {}, include |-> only], OnlyThe(t)) \in SUBSET Uid
    BY DEF Passing, Present
  <2> QED
    BY <1>1, <2>1, ListingType DEF SortWithFilter
<1>3. nodes' \in Table
  BY <1>1, FilledTable DEF IInv, TypeOK
<1>4. tried' = [tried EXCEPT ![c] = {}] /\ kind' = [kind EXCEPT ![c] = t]
      /\ UNCHANGED <<counter, start, next, own>>
  BY DEF Begin
<1>5. RequestInv'
  <2> SUFFICES ASSUME NEW d \in Caller
               PROVE /\ pc'[d] \in {"listed", "trying"} => list'[d] # << >>
                     /\ pc'[d] = "listed" => tried'[d] = {}
                     /\ pc'[d] = "trying" => Cycling(list'[d], start'[d], next'[d], tried'[d])
                     /\ pc'[d] = "failed" => tried'[d] = Elements(list'[d])
    BY DEF RequestInv
  <2>1. CASE d = c
    <3>1. Elements(<< >>) = {}
      BY DEF Elements
    <3> QED
      BY <1>1, <1>4, <2>1, <3>1 DEF IInv, TypeOK
  <2>2. CASE d # c
    BY <1>1, <1>4, <2>2 DEF IInv, TypeOK, RequestInv
  <2> QED
    BY <2>1, <2>2
<1> QED
  BY <1>1, <1>2, <1>3, <1>4, <1>5 DEF IInv, TypeOK

LEMMA IndexRequest ==
  ASSUME IInv, NEW c \in Caller, GetNextIndex(c)
  PROVE TypeOK' /\ RequestInv' /\ \A d \in Caller : pc'[d] # "idle" => pc[d] # "idle"
<1> DEFINE l == list[c]
           n == Len(l)
           k == counter[kind[c]]
<1>1. /\ l \in Seq(Uid) /\ l # << >> /\ n \in Nat \ {0} /\ tried[c] = {}
      /\ k \in Nat /\ kind[c] \in Type /\ pc[c] = "listed"
  <2>1. pc[c] = "listed" /\ tried[c] = {} /\ l # << >>
    BY DEF GetNextIndex, IInv, RequestInv
  <2>2. l \in Seq(Uid) /\ kind[c] \in Type /\ k \in Nat
    BY DEF IInv, TypeOK
  <2> QED
    BY <2>1, <2>2
<1>2. NextIndex(k, n) \in Nat /\ CounterAfter(k, n) \in Nat
  BY <1>1, CounterType
<1>3. NextIndex(k, n) \in 0..n-1
  <2>1. k % n \in 0..n-1
    BY <1>1, RemainderRange
  <2> QED
    BY <1>1, <2>1 DEF NextIndex
<1>4. /\ start' = [start EXCEPT ![c] = NextIndex(k, n)]
      /\ counter' = [counter EXCEPT ![kind[c]] = CounterAfter(k, n)]
      /\ next' = [next EXCEPT ![c] = 0]
      /\ pc' = [pc EXCEPT ![c] = "trying"]
      /\ UNCHANGED <<nodes, kind, list, tried, own, loopVars, exitPc, exiting, updates,
                     server, requests>>
  BY DEF GetNextIndex
<1> HIDE DEF l, n, k
<1>5. TypeOK'
  BY <1>1, <1>2, <1>4 DEF IInv, TypeOK, loopVars, server
<1>6. Cycling(l, NextIndex(k, n), 0, {})
  BY <1>1, <1>3 DEF Cycling, TriedBefore, n
<1>7. RequestInv'
  <2> SUFFICES ASSUME NEW d \in Caller
               PROVE /\ pc'[d] \in {"listed", "trying"} => list'[d] # << >>
                     /\ pc'[d] = "listed" => tried'[d] = {}
                     /\ pc'[d] = "trying" => Cycling(list'[d], start'[d], next'[d], tried'[d])
                     /\ pc'[d] = "failed" => tried'[d] = Elements(list'[d])
    BY DEF RequestInv
  <2>1. CASE d = c
    BY <1>1, <1>4, <1>6, <2>1 DEF IInv, TypeOK, l
  <2>2. CASE d # c
    BY <1>4, <2>2 DEF IInv, TypeOK, RequestInv
  <2> QED
    BY <2>1, <2>2
<1> QED
  BY <1>1, <1>4, <1>5, <1>7 DEF IInv, TypeOK

(* The answer may register or deregister an own node.                      *)
LEMMA CarriedOutType ==
  ASSUME IInv, NEW c \in Caller, pc[c] # "idle"
  PROVE /\ CarriedOut(c) \subseteq OwnNode
        /\ Registers(c) \/ (c = Loop /\ Deregisters(c)) => own[c] \in OwnNode
BY CallerAssumption
DEF IInv, TypeOK, OwnInv, CarriedOut, Registers, Deregisters

(* No heartbeat follows the drop.                                          *)
LEMMA CarriedOutDrop ==
  ASSUME IInv, NEW c \in Caller
  PROVE dropped \cap CarriedOut(c) \subseteq late
BY CallerAssumption
DEF IInv, DropInv, DropIsFinal, CarriedOut, Registers

LEMMA AnsweredRequest ==
  ASSUME IInv, NEW c \in Caller, Answered(c)
  PROVE IInv'
<1>1. /\ pc[c] = "trying"
      /\ list[c] \in Seq(Uid) /\ list[c] # << >> /\ start[c] \in Nat /\ next[c] \in Nat
  BY DEF Answered, IInv, TypeOK, RequestInv
<1>2. Target(c) \in Uid
  BY <1>1, TargetListed DEF Target
<1>3. /\ pc' = [pc EXCEPT ![c] = "ok"]
      /\ tried' = [tried EXCEPT ![c] = tried[c] \cup {Target(c)}]
      /\ registered' = CarriedOut(c)
      /\ dropped' = IF c = Loop /\ Deregisters(c) THEN dropped \cup {own[c]} ELSE dropped
      /\ Fetches(c) => fresh' \in {Listed(world), NoReply}
      /\ ~Fetches(c) => fresh' = fresh
      /\ UNCHANGED <<nodes, counter, kind, list, start, next, own, loopPc, heartbeat, toAdd,
                     added, exitPc, exiting, updates, world, notices, late, changes, requests>>
  BY DEF Answered
<1>4. TypeOK'
  <2>1. fresh' \in Table \cup {NoReply}
    BY <1>3, ListedTable DEF IInv, TypeOK
  <2>2. registered' \subseteq OwnNode /\ dropped' \subseteq OwnNode
    BY <1>1, <1>3, CarriedOutType DEF IInv, TypeOK
  <2> QED
    BY <1>2, <1>3, <2>1, <2>2 DEF IInv, TypeOK
<1>5. RequestInv'
  BY <1>1, <1>3 DEF IInv, TypeOK, RequestInv
<1>6. OwnInv'
  <2>1. loopPc = "refresh" => ~Fetches(c)
    BY DEF Fetches
  <2> QED
    BY <1>1, <1>3, <2>1 DEF IInv, TypeOK, OwnInv, Caller
<1>7. DropInv'
  <2>1. dropped' # {} => loopPc' \in {"drop", "stopped"}
    BY <1>3, CallerAssumption DEF IInv, DropInv, Deregisters
  <2>2. dropped' \cap registered' \subseteq late'
    <3>1. CASE c = Loop /\ Deregisters(c)
      <4>1. registered' = registered \ {own[c]}
        BY <1>3, <3>1, CallerAssumption DEF CarriedOut, Registers, Deregisters
      <4> QED
        BY <1>3, <3>1, <4>1 DEF IInv, DropInv, DropIsFinal
    <3>2. CASE ~(c = Loop /\ Deregisters(c))
      BY <1>3, <3>2, CarriedOutDrop
    <3> QED
      BY <3>1, <3>2
  <2> QED
    BY <2>1, <2>2 DEF DropInv, DropIsFinal
<1> QED
  BY <1>4, <1>5, <1>6, <1>7 DEF IInv

LEMMA FailedRequest ==
  ASSUME IInv, NEW c \in Caller, Failed(c)
  PROVE IInv'
<1> DEFINE l == list[c]
           k == next[c]
           last == k = Len(l) - 1
<1>1. /\ pc[c] = "trying"
      /\ l \in Seq(Uid) /\ l # << >> /\ start[c] \in 0..Len(l)-1 /\ k \in 0..Len(l)-1
      /\ tried[c] = TriedBefore(l, start[c], k)
  <2>1. pc[c] = "trying" /\ Cycling(l, start[c], k, tried[c]) /\ l # << >>
    BY DEF Failed, IInv, RequestInv
  <2> QED
    BY <2>1 DEF IInv, TypeOK, Cycling
<1>2. Target(c) \in Uid /\ Target(c) = l[((start[c] + k) % Len(l)) + 1]
  BY <1>1, TargetListed DEF Target
<1>3. /\ pc' = [pc EXCEPT ![c] = IF last THEN "failed" ELSE "trying"]
      /\ tried' = [tried EXCEPT ![c] = tried[c] \cup {Target(c)}]
      /\ next' = [next EXCEPT ![c] = k + 1]
      /\ nodes' = IF Target(c) \in Static \/ last THEN nodes ELSE Erase(nodes, {Target(c)})
      /\ registered' \in {registered, CarriedOut(c)}
      /\ late' = IF Registers(c) THEN late \cup {own[c]} ELSE late
      /\ UNCHANGED <<counter, kind, list, start, own, loopVars, exitPc, exiting, updates,
                     world, notices, dropped, changes, requests>>
  BY DEF Failed
<1>4. tried'[c] = TriedBefore(l, start[c], k + 1) /\ k + 1 \in Nat
  <2>1. k \in Nat
    BY <1>1
  <2>2. tried'[c] = TriedBefore(l, start[c], k) \cup {l[((start[c] + k) % Len(l)) + 1]}
    BY <1>1, <1>2, <1>3 DEF IInv, TypeOK
  <2>3. TriedBefore(l, start[c], k + 1)
          = TriedBefore(l, start[c], k) \cup {l[((start[c] + k) % Len(l)) + 1]}
    BY <2>1, OneMore
  <2> QED
    BY <2>1, <2>2, <2>3
<1>5. TypeOK'
  <2>1. nodes' \in Table
    BY <1>3, ErasedTable DEF IInv, TypeOK
  <2>2. registered' \subseteq OwnNode /\ late' \subseteq OwnNode
    BY <1>1, <1>3, CarriedOutType DEF IInv, TypeOK
  <2> QED
    BY <1>2, <1>3, <1>4, <2>1, <2>2 DEF IInv, TypeOK, loopVars
<1>6. RequestInv'
  <2> SUFFICES ASSUME NEW d \in Caller
               PROVE /\ pc'[d] \in {"listed", "trying"} => list'[d] # << >>
                     /\ pc'[d] = "listed" => tried'[d] = {}
                     /\ pc'[d] = "trying" => Cycling(list'[d], start'[d], next'[d], tried'[d])
                     /\ pc'[d] = "failed" => tried'[d] = Elements(list'[d])
    BY DEF RequestInv
  <2>1. CASE d # c
    BY <1>3, <2>1 DEF IInv, TypeOK, RequestInv
  <2>2. CASE d = c /\ last
    <3>1. k + 1 = Len(l)
      BY <1>1, <2>2
    <3>2. tried'[c] = Elements(l)
      BY <1>1, <1>4, <3>1, FullCircle
    <3> QED
      BY <1>3, <2>2, <3>2 DEF IInv, TypeOK
  <2>3. CASE d = c /\ ~last
    <3>1. k + 1 \in 0..Len(l)-1
      BY <1>1, <2>3
    <3>2. Cycling(l, start[c], k + 1, tried'[c])
      BY <1>1, <1>4, <3>1 DEF Cycling
    <3> QED
      BY <1>1, <1>3, <2>3, <3>2 DEF IInv, TypeOK
  <2> QED
    BY <2>1, <2>2, <2>3
<1>7. OwnInv'
  BY <1>1, <1>3 DEF IInv, TypeOK, OwnInv, Caller, loopVars
<1>8. DropInv'
  BY <1>3, CarriedOutDrop DEF IInv, DropInv, DropIsFinal, loopVars
<1> QED
  BY <1>5, <1>6, <1>7, <1>8 DEF IInv

LEMMA TakenRequest ==
  ASSUME IInv, NEW c \in Caller, Taken(c)
  PROVE /\ pc' \in [Caller -> {"idle", "listed", "trying", "ok", "failed"}]
        /\ list' \in [Caller -> Seq(Uid)]
        /\ start' \in [Caller -> Nat] /\ next' \in [Caller -> Nat]
        /\ tried' \in [Caller -> SUBSET Uid]
        /\ UNCHANGED <<nodes, counter, kind>>
        /\ RequestInv'
        /\ pc[c] # "idle" /\ pc'[c] = "idle"
        /\ \A d \in Caller \ {c} : pc'[d] = pc[d]
<1>1. << >> \in Seq(Uid)
  OBVIOUS
<1>2. /\ pc[c] # "idle"
      /\ pc' = [pc EXCEPT ![c] = "idle"]
      /\ list' = [list EXCEPT ![c] = << >>]
      /\ start' = [start EXCEPT ![c] = 0]
      /\ next' = [next EXCEPT ![c] = 0]
      /\ tried' = [tried EXCEPT ![c] = {}]
      /\ UNCHANGED <<nodes, counter, kind>>
  BY DEF Taken, Over
<1>3. RequestInv'
  BY <1>2 DEF IInv, TypeOK, RequestInv
<1> QED
  BY <1>1, <1>2, <1>3 DEF IInv, TypeOK

-----------------------------------------------------------------------------
(* What is left unchanged by the steps that make no request.               *)
LEMMA SameRequests ==
  ASSUME IInv, UNCHANGED <<pc, list, start, next, tried>>
  PROVE RequestInv'
BY DEF IInv, RequestInv

(* An own index past the last own node ends the loop over them.            *)
LEMMA OwnRange ==
  ASSUME IInv, NEW c \in {Loop, ExitFn}
  PROVE /\ own[c] \in 1..Own+1
        /\ own[c] <= Own => own[c] \in OwnNode
        /\ own[c] > Own => own[c] \notin OwnNode
<1>1. Own \in Nat
  BY SizeAssumption
<1>2. own[c] \in 1..Own+1
  BY DEF IInv, TypeOK
<1> QED
  BY <1>1, <1>2 DEF OwnNode

(* The loop's steps between its requests.                                  *)
LEMMA LoopControl ==
  ASSUME IInv, AddExitFn \/ Timer \/ NodeUpdate \/ Done \/ RegisterEnds \/ DropEnds
  PROVE IInv'
<1>1. UNCHANGED <<nodes, counter, pc, kind, list, start, next, tried, fresh, toAdd,
                  exitPc, exiting, server, requests>>
  BY DEF AddExitFn, Timer, NodeUpdate, Done, RegisterEnds, DropEnds, request
<1>2. RequestInv'
  BY <1>1, SameRequests
<1>3. pc[Loop] = "idle"
  BY OwnRange DEF IInv, OwnInv, AddExitFn, Timer, NodeUpdate, Done, RegisterEnds, DropEnds
<1>4. /\ own' \in [{Loop, ExitFn} -> 1..Own+1] /\ own'[ExitFn] = own[ExitFn]
      /\ loopPc' \in {"select", "fetch", "drop", "stopped"}
      /\ heartbeat' \in BOOLEAN /\ added' \in BOOLEAN /\ updates' \in 0..QueueSize
      /\ loopPc \in {"drop", "stopped"} => loopPc' \in {"drop", "stopped"}
  <2>1. 1 \in 1..Own+1
    BY SizeAssumption
  <2>2. own \in [{Loop, ExitFn} -> 1..Own+1] /\ heartbeat \in BOOLEAN /\ added \in BOOLEAN
    BY DEF IInv, TypeOK
  <2>3. own' \in [{Loop, ExitFn} -> 1..Own+1] /\ own'[ExitFn] = own[ExitFn]
    <3>1. own' = own \/ own' = [own EXCEPT ![Loop] = 1]
      BY DEF AddExitFn, Timer, NodeUpdate, Done, RegisterEnds, DropEnds, request
    <3> QED
      BY <2>1, <2>2, <3>1, CallerAssumption
  <2>4. updates' \in 0..QueueSize
    <3>1. updates' = updates \/ (updates > 0 /\ updates' = updates - 1)
      BY DEF AddExitFn, Timer, NodeUpdate, Done, RegisterEnds, DropEnds
    <3>2. updates \in 0..QueueSize /\ QueueSize \in Nat
      BY SizeAssumption DEF IInv, TypeOK
    <3> QED
      BY <3>1, <3>2
  <2>5. /\ loopPc' \in {"select", "fetch", "drop", "stopped"}
        /\ loopPc \in {"drop", "stopped"} => loopPc' \in {"drop", "stopped"}
        /\ heartbeat' \in BOOLEAN /\ added' \in BOOLEAN
    BY <2>2 DEF AddExitFn, Timer, NodeUpdate, Done, RegisterEnds, DropEnds
  <2> QED
    BY <2>3, <2>4, <2>5
<1>5. TypeOK'
  BY <1>1, <1>4 DEF IInv, TypeOK, server
<1>6. OwnInv'
  BY <1>1, <1>3, <1>4 DEF IInv, OwnInv
<1>7. DropInv'
  BY <1>1, <1>4 DEF IInv, DropInv, DropIsFinal, server
<1> QED
  BY <1>2, <1>5, <1>6, <1>7 DEF IInv

(* The beginning of a request, of any caller.                              *)
LEMMA Beginning ==
  ASSUME IInv, BeginOfLoop \/ BeginOfExitFn
               \/ \E c \in Sender, t \in Sent, only \in {{}} \cup {{u} : u \in Uid} :
                    Send(c, t, only)
  PROVE IInv'
<1>1. PICK c \in Caller, t \in Type, only \in {{}} \cup {{u} : u \in Uid} :
        /\ Begin(c, t, only)
        /\ c = Loop => BeginOfLoop
        /\ c = ExitFn => BeginOfExitFn
  BY CallerAssumption, SentAssumption, UidAssumption DEF BeginOfLoop, BeginOfExitFn, Send, Caller
<1>2. /\ UNCHANGED <<loopVars, exitPc, exiting, updates, server>>
      /\ requests' \in 0..MaxRequests
  <2>1. requests \in 0..MaxRequests /\ MaxRequests \in Nat
    BY SizeAssumption DEF IInv, TypeOK
  <2>2. requests' = requests \/ (requests < MaxRequests /\ requests' = requests + 1)
    BY DEF BeginOfLoop, BeginOfExitFn, Send
  <2>3. UNCHANGED <<loopVars, exitPc, exiting, updates, server>>
    BY DEF BeginOfLoop, BeginOfExitFn, Send
  <2> QED
    BY <2>1, <2>2, <2>3
<1>3. /\ nodes' \in Table
      /\ counter' \in [Type -> Nat]
      /\ pc' \in [Caller -> {"idle", "listed", "trying", "ok", "failed"}]
      /\ kind' \in [Caller -> Type]
      /\ list' \in [Caller -> Seq(Uid)]
      /\ start' \in [Caller -> Nat] /\ next' \in [Caller -> Nat]
      /\ tried' \in [Caller -> SUBSET Uid]
      /\ own' = own
      /\ RequestInv'
      /\ \A d \in Caller \ {c} : pc'[d] = pc[d]
  BY <1>1, BeginRequest
<1>4. TypeOK'
  BY <1>2, <1>3 DEF IInv, TypeOK, loopVars, server
<1>5. OwnInv'
  <2>1. c = Loop => /\ loopPc \in {"fetch", "register", "drop"}
                    /\ loopPc \in {"register", "drop"} => own[Loop] \in OwnNode
    BY <1>1, OwnRange DEF BeginOfLoop
  <2>2. c = ExitFn => exitPc = "drop" /\ own[ExitFn] \in OwnNode
    BY <1>1, OwnRange DEF BeginOfExitFn
  <2>3. Loop \in Caller /\ ExitFn \in Caller
    BY DEF Caller
  <2> QED
    BY <1>2, <1>3, <2>1, <2>2, <2>3 DEF IInv, OwnInv, loopVars
<1>6. DropInv'
  BY <1>2 DEF IInv, DropInv, DropIsFinal, loopVars, server
<1> QED
  BY <1>3, <1>4, <1>5, <1>6 DEF IInv

(* The end of a request, of any caller.                                    *)
LEMMA Ending ==
  ASSUME IInv, FetchFails \/ Fetched \/ OwnNodeSent \/ ExitFnSent
               \/ \E c \in Sender : SenderDone(c)
  PROVE IInv'
<1>1. PICK c \in Caller :
        /\ Taken(c)
        /\ c = Loop => FetchFails \/ Fetched \/ OwnNodeSent
        /\ c = ExitFn => ExitFnSent
        /\ c \in Sender => UNCHANGED <<own, loopVars>>
  BY CallerAssumption DEF FetchFails, Fetched, OwnNodeSent, ExitFnSent, SenderDone, Caller
<1>2. /\ pc' \in [Caller -> {"idle", "listed", "trying", "ok", "failed"}]
      /\ list' \in [Caller -> Seq(Uid)]
      /\ start' \in [Caller -> Nat] /\ next' \in [Caller -> Nat]
      /\ tried' \in [Caller -> SUBSET Uid]
      /\ UNCHANGED <<nodes, counter, kind>>
      /\ RequestInv'
      /\ pc[c] # "idle" /\ pc'[c] = "idle"
      /\ \A d \in Caller \ {c} : pc'[d] = pc[d]
  BY <1>1, TakenRequest
<1>3. UNCHANGED <<heartbeat, added, exitPc, exiting, updates, server, requests>>
  BY DEF FetchFails, Fetched, OwnNodeSent, ExitFnSent, SenderDone, loopVars
<1>4. CASE c = Loop
  <2>1. CASE FetchFails
    <3>1. /\ loopPc' \in {"select", "register"} /\ loopPc = "fetch"
          /\ own' = [own EXCEPT ![Loop] = 1] /\ fresh' = NoReply /\ toAdd' = toAdd
      BY <2>1 DEF FetchFails, AfterRefresh
    <3>2. own' \in [{Loop, ExitFn} -> 1..Own+1] /\ own'[ExitFn] = own[ExitFn]
      BY <3>1, SizeAssumption, CallerAssumption DEF IInv, TypeOK
    <3>3. TypeOK'
      BY <1>2, <1>3, <3>1, <3>2 DEF IInv, TypeOK, server
    <3>4. OwnInv'
      BY <1>2, <1>3, <1>4, <3>1, <3>2, CallerAssumption DEF IInv, OwnInv, Caller
    <3>5. DropInv'
      BY <1>3, <3>1 DEF IInv, DropInv, DropIsFinal, server
    <3> QED
      BY <1>2, <3>3, <3>4, <3>5 DEF IInv
  <2>2. CASE Fetched
    <3>1. /\ loopPc' = "refresh" /\ loopPc = "fetch" /\ fresh # NoReply
          /\ own' = own /\ fresh' = fresh /\ toAdd' = Present(fresh)
      BY <2>2 DEF Fetched
    <3>2. TypeOK'
      BY <1>2, <1>3, <3>1 DEF IInv, TypeOK, server, Present
    <3>3. OwnInv'
      BY <1>2, <1>3, <1>4, <3>1, CallerAssumption DEF IInv, TypeOK, OwnInv, Caller
    <3>4. DropInv'
      BY <1>3, <3>1 DEF IInv, DropInv, DropIsFinal, server
    <3> QED
      BY <1>2, <3>2, <3>3, <3>4 DEF IInv
  <2>3. CASE OwnNodeSent
    <3>1. /\ UNCHANGED <<loopPc, fresh, toAdd>> /\ loopPc \in {"register", "drop"}
          /\ own' = [own EXCEPT ![Loop] = own[Loop] + 1]
      BY <2>3 DEF OwnNodeSent, loopVars
    <3>2. own[Loop] \in OwnNode
      BY <1>2, <1>4, <3>1 DEF IInv, OwnInv
    <3>3. own' \in [{Loop, ExitFn} -> 1..Own+1] /\ own'[ExitFn] = own[ExitFn]
      <4>1. own[Loop] + 1 \in 1..Own+1
        BY <3>2, SizeAssumption DEF OwnNode
      <4> QED
        BY <3>1, <4>1, CallerAssumption DEF IInv, TypeOK
    <3>4. TypeOK'
      BY <1>2, <1>3, <3>1, <3>3 DEF IInv, TypeOK, server
    <3>5. OwnInv'
      BY <1>2, <1>3, <1>4, <3>1, <3>3, CallerAssumption DEF IInv, OwnInv, Caller
    <3>6. DropInv'
      BY <1>3, <3>1 DEF IInv, DropInv, DropIsFinal, server
    <3> QED
      BY <1>2, <3>4, <3>5, <3>6 DEF IInv
  <2> QED
    BY <1>1, <1>4, <2>1, <2>2, <2>3
<1>5. CASE c = ExitFn
  <2>1. /\ UNCHANGED loopVars /\ exitPc = "drop"
        /\ own' = [own EXCEPT ![ExitFn] = own[ExitFn] + 1]
    BY <1>1, <1>5 DEF ExitFnSent
  <2>2. own[ExitFn] \in OwnNode
    BY <1>2, <1>5, <2>1 DEF IInv, OwnInv
  <2>3. own' \in [{Loop, ExitFn} -> 1..Own+1] /\ own'[Loop] = own[Loop]
    <3>1. own[ExitFn] + 1 \in 1..Own+1
      BY <2>2, SizeAssumption DEF OwnNode
    <3> QED
      BY <2>1, <3>1, CallerAssumption DEF IInv, TypeOK
  <2>4. TypeOK'
    BY <1>2, <1>3, <2>1, <2>3 DEF IInv, TypeOK, loopVars, server
  <2>5. OwnInv'
    BY <1>2, <1>3, <1>5, <2>1, <2>3, CallerAssumption DEF IInv, OwnInv, Caller, loopVars
  <2>6. DropInv'
    BY <1>3, <2>1 DEF IInv, DropInv, DropIsFinal, loopVars, server
  <2> QED
    BY <1>2, <2>4, <2>5, <2>6 DEF IInv
<1>6. CASE c \in Sender
  <2>1. UNCHANGED <<own, loopVars>>
    BY <1>1, <1>6
  <2>2. TypeOK'
    BY <1>2, <1>3, <2>1 DEF IInv, TypeOK, loopVars, server
  <2>3. OwnInv'
    BY <1>2, <1>3, <1>6, <2>1, CallerAssumption DEF IInv, OwnInv, Caller, loopVars
  <2>4. DropInv'
    BY <1>3, <2>1 DEF IInv, DropInv, DropIsFinal, loopVars, server
  <2> QED
    BY <1>2, <2>2, <2>3, <2>4 DEF IInv
<1> QED
  BY <1>4, <1>5, <1>6 DEF Caller

(* The refresh of the table.                                               *)
LEMMA Refreshing ==
  ASSUME IInv, (\E u \in Uid : AddNode(u)) \/ EraseExpired
  PROVE IInv'
<1>1. loopPc = "refresh" /\ fresh \in Table /\ pc[Loop] = "idle"
  BY DEF AddNode, EraseExpired, IInv, TypeOK, OwnInv
<1>2. UNCHANGED <<counter, pc, kind, list, start, next, tried, heartbeat, added, exitPc,
                  exiting, updates, server, requests>>
  BY DEF AddNode, EraseExpired, request
<1>3. RequestInv'
  BY <1>2, SameRequests
<1>4. CASE \E u \in Uid : AddNode(u)
  <2>1. PICK u \in Uid : AddNode(u)
    BY <1>4
  <2>2. /\ nodes' = Add(nodes, u, fresh[u]) /\ toAdd' = toAdd \ {u}
        /\ UNCHANGED <<own, loopPc, fresh>>
    BY <2>1 DEF AddNode, request
  <2>3. nodes' \in Table
    BY <1>1, <2>2 DEF Add, Table, IInv, TypeOK
  <2>4. TypeOK'
    BY <1>2, <2>2, <2>3 DEF IInv, TypeOK, server
  <2>5. OwnInv' /\ DropInv'
    BY <1>2, <2>2 DEF IInv, OwnInv, DropInv, DropIsFinal, server
  <2> QED
    BY <1>3, <2>4, <2>5 DEF IInv
<1>5. CASE EraseExpired
  <2>1. /\ nodes' \in Table /\ toAdd' = toAdd /\ fresh' = NoReply
        /\ loopPc' \in {"select", "register"}
        /\ own' = [own EXCEPT ![Loop] = 1]
    BY <1>5, ErasedTable DEF EraseExpired, AfterRefresh, IInv, TypeOK
  <2>2. own' \in [{Loop, ExitFn} -> 1..Own+1] /\ own'[ExitFn] = own[ExitFn]
    <3>1. 1 \in 1..Own+1
      BY SizeAssumption
    <3>2. own \in [{Loop, ExitFn} -> 1..Own+1]
      BY DEF IInv, TypeOK
    <3> QED
      BY <2>1, <3>1, <3>2, CallerAssumption
  <2>3. TypeOK'
    BY <1>2, <2>1, <2>2 DEF IInv, TypeOK, server
  <2>4. OwnInv'
    BY <1>1, <1>2, <2>1, <2>2 DEF IInv, OwnInv
  <2>5. DropInv'
    BY <1>1, <1>2, <2>1 DEF IInv, DropInv, DropIsFinal, server
  <2> QED
    BY <1>3, <2>3, <2>4, <2>5 DEF IInv
<1> QED
  BY <1>4, <1>5

(* The exit function's other steps and those of the exit handler.          *)
LEMMA Exiting ==
  ASSUME IInv, RunExitFn \/ ExitFnEnds \/ SetExitFlag
  PROVE IInv'
<1>1. /\ UNCHANGED <<nodes, counter, request, loopVars, updates, requests>>
      /\ UNCHANGED <<world, notices, registered, late, dropped>>
      /\ changes' = changes \/ (changes < MaxChanges /\ changes' = changes + 1)
  BY DEF RunExitFn, ExitFnEnds, SetExitFlag, server
<1>2. exitPc' \in {"none", "drop", "done"} /\ exiting' \in BOOLEAN
  BY DEF RunExitFn, ExitFnEnds, SetExitFlag, IInv, TypeOK
<1>3. /\ pc[ExitFn] # "idle" => exitPc' = "drop"
      /\ exitPc' = "drop" /\ pc[ExitFn] # "idle" => exitPc = "drop"
  <2>1. CASE RunExitFn
    BY <2>1 DEF RunExitFn, IInv, OwnInv
  <2>2. CASE ExitFnEnds
    <3>1. own[ExitFn] \notin OwnNode
      BY <2>2, OwnRange DEF ExitFnEnds
    <3> QED
      BY <2>2, <3>1 DEF ExitFnEnds, IInv, OwnInv
  <2>3. CASE SetExitFlag
    BY <2>3 DEF SetExitFlag, IInv, OwnInv
  <2> QED
    BY <2>1, <2>2, <2>3
<1>4. RequestInv'
  BY <1>1, SameRequests DEF request
<1>5. TypeOK'
  <2>1. changes \in 0..MaxChanges /\ MaxChanges \in Nat
    BY SizeAssumption DEF IInv, TypeOK
  <2>2. changes' = changes \/ (changes < MaxChanges /\ changes' = changes + 1)
    BY <1>1
  <2>3. changes' \in 0..MaxChanges
    BY <2>1, <2>2
  <2> QED
    BY <1>1, <1>2, <2>3 DEF IInv, TypeOK, request, loopVars
<1>6. OwnInv' /\ DropInv'
  BY <1>1, <1>3 DEF IInv, OwnInv, DropInv, DropIsFinal, request, loopVars
<1> QED
  BY <1>4, <1>5, <1>6 DEF IInv

(* The steps of the naming servers: a late register request registers only *)
(* what is in late.                                                        *)
LEMMA Serving ==
  ASSUME IInv, ServerStep
  PROVE IInv'
<1>1. UNCHANGED <<nodes, counter, request, loopVars, exitPc, exiting, late, dropped, requests>>
  BY DEF ServerStep, Change, RpcNodeUpdated, LoseNotice, Forget, RegisterLate
<1>2. /\ updates' \in 0..QueueSize /\ world' \in Replies /\ notices' \in Nat
      /\ changes' \in 0..MaxChanges
  <2>1. /\ updates \in 0..QueueSize /\ notices \in Nat /\ changes \in 0..MaxChanges
        /\ world \in Replies /\ QueueSize \in Nat /\ MaxChanges \in Nat
    BY SizeAssumption DEF IInv, TypeOK
  <2>2. /\ updates' = updates \/ (updates < QueueSize /\ updates' = updates + 1)
        /\ \/ notices' \in {notices, notices + 1}
           \/ notices > 0 /\ notices' = notices - 1
        /\ changes' = changes \/ (changes < MaxChanges /\ changes' = changes + 1)
    BY DEF ServerStep, Change, RpcNodeUpdated, LoseNotice, Forget, RegisterLate
  <2>3. world' = world \/ world' \in Replies
    BY DEF ServerStep, Change, RpcNodeUpdated, LoseNotice, Forget, RegisterLate
  <2> QED
    BY <2>1, <2>2, <2>3
<1>3. registered' \subseteq OwnNode /\ registered' \subseteq registered \cup late
  BY DEF ServerStep, Change, RpcNodeUpdated, LoseNotice, Forget, RegisterLate, IInv, TypeOK
<1>4. RequestInv'
  BY <1>1, SameRequests DEF request
<1>5. TypeOK'
  BY <1>1, <1>2, <1>3 DEF IInv, TypeOK, request, loopVars
<1>6. OwnInv' /\ DropInv'
  BY <1>1, <1>3 DEF IInv, OwnInv, DropInv, DropIsFinal, request, loopVars
<1> QED
  BY <1>4, <1>5, <1>6 DEF IInv

LEMMA InductiveStep == IInv /\ [Next]_vars => IInv'
<1> SUFFICES ASSUME IInv, [Next]_vars PROVE IInv'
  OBVIOUS
<1>1. CASE \E c \in Caller : GetNextIndex(c)
  <2>1. PICK c \in Caller : GetNextIndex(c)
    BY <1>1
  <2>2. TypeOK' /\ RequestInv' /\ \A d \in Caller : pc'[d] # "idle" => pc[d] # "idle"
    BY <2>1, IndexRequest
  <2>3. OwnInv' /\ DropInv'
    BY <2>1, <2>2
    DEF GetNextIndex, IInv, OwnInv, DropInv, DropIsFinal, Caller, loopVars, server
  <2> QED
    BY <2>2, <2>3 DEF IInv
<1>2. CASE \E c \in Caller : Answered(c) \/ Failed(c)
  BY <1>2, AnsweredRequest, FailedRequest
<1>3. CASE AddExitFn \/ Timer \/ NodeUpdate \/ Done \/ RegisterEnds \/ DropEnds
  BY <1>3, LoopControl
<1>4. CASE BeginOfLoop \/ BeginOfExitFn
           \/ \E c \in Sender, t \in Sent, only \in {{}} \cup {{u} : u \in Uid} :
                Send(c, t, only)
  BY <1>4, Beginning
<1>5. CASE FetchFails \/ Fetched \/ OwnNodeSent \/ ExitFnSent
           \/ \E c \in Sender : SenderDone(c)
  BY <1>5, Ending
<1>6. CASE (\E u \in Uid : AddNode(u)) \/ EraseExpired
  BY <1>6, Refreshing
<1>7. CASE RunExitFn \/ ExitFnEnds \/ SetExitFlag
  BY <1>7, Exiting
<1>8. CASE ServerStep
  BY <1>8, Serving
<1>9. CASE Stopped \/ UNCHANGED vars
  <2>1. UNCHANGED vars
    BY <1>9 DEF Stopped
  <2>2. RequestInv'
    BY <2>1, SameRequests DEF vars, request
  <2>3. TypeOK'
    BY <2>1 DEF vars, request, loopVars, server, IInv, TypeOK
  <2>4. OwnInv' /\ DropInv'
    BY <2>1 DEF vars, request, loopVars, server, IInv, OwnInv, DropInv, DropIsFinal
  <2> QED
    BY <2>2, <2>3, <2>4 DEF IInv
<1> HIDE DEF IInv
<1> QED
  BY <1>1, <1>2, <1>3, <1>4, <1>5, <1>6, <1>7, <1>8, <1>9
  DEF Next, LoopStep, ExitFnStep, SenderStep, RequestStep, Caller

-----------------------------------------------------------------------------
(* The naming servers in the table, while only the loop asks for them.     *)
NamingServers == {u \in Uid : TypeOf[u] = LookupType}
LastInTurn(l, s) == l[((s + (Len(l) - 1)) % Len(l)) + 1]
Distinct(l) == \A i, j \in DOMAIN l : i # j => l[i] # l[j]

NamingAssumed == RepliesNameOne /\ LookupType \notin Sent /\ Static # {}

(* Senders ask for other nodes; replies, and what is left of one to be     *)
(* added, hold a naming server.                                            *)
SenderInv == \A c \in Sender : \A i \in DOMAIN list[c] : TypeOf[list[c][i]] \in Sent
ReplyInv ==
  /\ fresh # NoReply => Present(fresh) \cap NamingServers # {}
  /\ loopPc = "refresh" => toAdd \subseteq Present(fresh)

(* All naming servers the loop is about to try are in the table; of those  *)
(* it is trying the last in turn, the only one it does not erase; and of   *)
(* those it is adding the ones it has added.                               *)
LoopInv ==
  ~exiting =>
    /\ exitPc = "none"
    /\ Present(nodes) \cap NamingServers # {}
    /\ pc[Loop] \in {"listed", "trying"} => Distinct(list[Loop])
    /\ pc[Loop] = "listed" => Elements(list[Loop]) \subseteq Present(nodes) \cap NamingServers
    /\ pc[Loop] = "trying" =>
         LastInTurn(list[Loop], start[Loop]) \in Present(nodes) \cap NamingServers
    /\ loopPc = "refresh" =>
         \A u \in (Present(fresh) \cap NamingServers) \ toAdd : nodes[u] = fresh[u]

LeftInv == SenderInv /\ ReplyInv /\ LoopInv

(* The target is the last in turn only at the last attempt.                *)
LEMMA LastOnlyAtTheEnd ==
  ASSUME NEW l \in Seq(Uid), l # << >>, Distinct(l),
         NEW s \in 0..Len(l)-1, NEW k \in 0..Len(l)-1, k # Len(l) - 1
  PROVE l[((s + k) % Len(l)) + 1] # LastInTurn(l, s)
<1> DEFINE n == Len(l)
           a == IF s + k < n THEN s + k ELSE s + k - n
           q == IF s + k < n THEN 0 ELSE 1
           b == IF s = 0 THEN n - 1 ELSE s - 1
           r == IF s = 0 THEN 0 ELSE 1
<1>1. n \in Nat \ {0} /\ DOMAIN l = 1..n
  OBVIOUS
<1>2. /\ a \in 0..n-1 /\ q \in Int /\ s + k = n * q + a
      /\ b \in 0..n-1 /\ r \in Int /\ s + (n - 1) = n * r + b
      /\ a # b
  <2>1. s \in 0..n-1 /\ k \in 0..n-1 /\ k # n - 1
    OBVIOUS
  <2> HIDE DEF n
  <2>2. a \in 0..n-1 /\ q \in Int /\ s + k = n * q + a
    BY <1>1, <2>1
  <2>3. b \in 0..n-1 /\ r \in Int /\ s + (n - 1) = n * r + b
    BY <1>1, <2>1
  <2>4. CASE s = 0
    BY <1>1, <2>1, <2>4
  <2>5. CASE s # 0 /\ s + k < n
    BY <1>1, <2>1, <2>5
  <2>6. CASE s # 0 /\ ~(s + k < n)
    BY <1>1, <2>1, <2>6
  <2> QED
    BY <2>2, <2>3, <2>4, <2>5, <2>6
<1> HIDE DEF n, a, b, q, r
<1>4. (n * q + a) % n = a /\ (n * r + b) % n = b
  BY <1>1, <1>2, RemainderUnique
<1>5. l[((s + k) % n) + 1] = l[a + 1] /\ LastInTurn(l, s) = l[b + 1]
  BY <1>2, <1>4 DEF LastInTurn, n
<1>6. a + 1 \in DOMAIN l /\ b + 1 \in DOMAIN l /\ a + 1 # b + 1
  BY <1>1, <1>2
<1> QED
  BY <1>5, <1>6 DEF Distinct, n

LEMMA LastInTurnListed ==
  ASSUME NEW l \in Seq(Uid), l # << >>, NEW s \in Nat
  PROVE LastInTurn(l, s) \in Elements(l)
<1>1. Len(l) \in Nat \ {0} /\ s + (Len(l) - 1) \in Nat /\ DOMAIN l = 1..Len(l)
  OBVIOUS
<1>2. (s + (Len(l) - 1)) % Len(l) \in 0..Len(l)-1
  BY <1>1, RemainderRange
<1>3. ((s + (Len(l) - 1)) % Len(l)) + 1 \in DOMAIN l
  BY <1>1, <1>2
<1> QED
  BY <1>3 DEF LastInTurn, Elements

(* What a request's list holds.                                            *)
LEMMA Begun ==
  ASSUME IInv, NEW c \in Caller, NEW t \in Type, NEW only, Begin(c, t, only)
  PROVE \E l \in Seq(Uid) :
          /\ Distinct(l) /\ Elements(l) \subseteq Present(nodes)
          /\ \A u \in Elements(l) : TypeOf[u] = t
          /\ list' = [list EXCEPT ![c] = l]
          /\ pc' = [pc EXCEPT ![c] = IF l = << >> THEN "failed" ELSE "listed"]
          /\ nodes' = IF l = << >> /\ c \notin Sender THEN FillLookupNodes(nodes) ELSE nodes
          /\ start' = start
<1> DEFINE S == Passing(nodes, [exclude |-> {}, include |-> only], OnlyThe(t))
<1>1. PICK l \in Listings(S) :
        /\ list' = [list EXCEPT ![c] = l]
        /\ pc' = [pc EXCEPT ![c] = IF l = << >> THEN "failed" ELSE "listed"]
        /\ nodes' = IF l = << >> /\ c \notin Sender THEN FillLookupNodes(nodes) ELSE nodes
        /\ start' = start
  BY DEF Begin, SortWithFilter
<1>2. S \subseteq Present(nodes) /\ S \in SUBSET Uid
  BY DEF Passing, Present
<1>3. \A u \in S : TypeOf[u] = t
  BY DEF Passing, Kill, OnlyThe
<1> HIDE DEF S
<1>4. l \in Seq(Uid) /\ Elements(l) = S
  BY <1>2, ListingType
<1>5. Distinct(l)
  <2>1. /\ l \in [1..Cardinality(S) -> S]
        /\ \A i, j \in DOMAIN l : i < j => l[i] < l[j]
    BY DEF Listings
  <2>2. Cardinality(S) \in Nat
    BY <1>2, UidAssumption, FS_Subset, FS_CardinalityType
  <2> SUFFICES ASSUME NEW i \in DOMAIN l, NEW j \in DOMAIN l, i # j PROVE l[i] # l[j]
    BY DEF Distinct
  <2>3. i \in Nat /\ j \in Nat /\ l[i] \in Nat /\ l[j] \in Nat
    <3>1. l[i] \in S /\ l[j] \in S /\ DOMAIN l = 1..Cardinality(S)
      BY <2>1
    <3>2. S \subseteq Nat
      BY <1>2, UidAssumption
    <3>3. i \in Nat /\ j \in Nat
      BY <2>2, <3>1
    <3> QED
      BY <3>1, <3>2, <3>3
  <2>4. l[i] < l[j] \/ l[j] < l[i]
    BY <2>1, <2>3
  <2> QED
    BY <2>3, <2>4
<1> QED
  BY <1>1, <1>2, <1>3, <1>4, <1>5

(* The steps that keep the naming servers in the table, the loop's list    *)
(* and its refresh as they are.                                            *)
LEMMA NothingErased ==
  ASSUME LoopInv,
         ~exiting' => ~exiting /\ exitPc' = exitPc,
         \A u \in NamingServers : nodes'[u] = nodes[u],
         pc'[Loop] \in {"listed", "trying"} =>
           /\ pc'[Loop] = pc[Loop]
           /\ list'[Loop] = list[Loop] /\ start'[Loop] = start[Loop],
         loopPc' = "refresh" =>
           \/ loopPc = "refresh" /\ fresh' = fresh /\ toAdd' = toAdd
           \/ toAdd' = Present(fresh')
  PROVE LoopInv'
<1> SUFFICES ASSUME ~exiting' PROVE LoopInv'
  BY DEF LoopInv
<1>1. /\ exitPc = "none"
      /\ Present(nodes) \cap NamingServers # {}
      /\ pc[Loop] \in {"listed", "trying"} => Distinct(list[Loop])
      /\ pc[Loop] = "listed" => Elements(list[Loop]) \subseteq Present(nodes) \cap NamingServers
      /\ pc[Loop] = "trying" =>
           LastInTurn(list[Loop], start[Loop]) \in Present(nodes) \cap NamingServers
      /\ loopPc = "refresh" =>
           \A u \in (Present(fresh) \cap NamingServers) \ toAdd : nodes[u] = fresh[u]
  BY DEF LoopInv
<1>2. Present(nodes') \cap NamingServers = Present(nodes) \cap NamingServers
  BY DEF Present, NamingServers
<1>3. loopPc' = "refresh" =>
        \A u \in (Present(fresh') \cap NamingServers) \ toAdd' : nodes'[u] = fresh'[u]
  BY <1>1
<1>4. pc'[Loop] \in {"listed", "trying"} => Distinct(list'[Loop])
  BY <1>1
<1>5. pc'[Loop] = "listed" => Elements(list'[Loop]) \subseteq Present(nodes') \cap NamingServers
  BY <1>1, <1>2
<1>6. pc'[Loop] = "trying" =>
        LastInTurn(list'[Loop], start'[Loop]) \in Present(nodes') \cap NamingServers
  BY <1>1, <1>2
<1> QED
  BY <1>1, <1>2, <1>3, <1>4, <1>5, <1>6 DEF LoopInv

LEMMA LeftInit == Init /\ NamingAssumed => LeftInv
<1> SUFFICES ASSUME Init, NamingAssumed PROVE LeftInv
  OBVIOUS
<1>1. \A c \in Caller : list[c] = << >> /\ pc[c] = "idle"
  BY DEF Init
<1>2. SenderInv
  BY <1>1 DEF SenderInv, Caller
<1>3. ReplyInv
  BY DEF Init, ReplyInv
<1>4. Present(nodes) \cap NamingServers # {}
  <2>1. PICK u \in Static : TRUE
    BY DEF NamingAssumed
  <2>2. u \in Uid /\ TypeOf[u] = LookupType /\ nodes[u] = NotServed /\ NotServed # Absent
    BY UidAssumption DEF Init, FillLookupNodes
  <2> QED
    BY <2>2 DEF Present, NamingServers
<1>5. LoopInv
  BY <1>1, <1>4 DEF Init, LoopInv, Caller
<1> QED
  BY <1>2, <1>3, <1>5 DEF LeftInv

LEMMA LeftIndex ==
  ASSUME IInv, LeftInv, NEW c \in Caller, GetNextIndex(c)
  PROVE LeftInv'
<1>1. /\ pc[c] = "listed" /\ pc' = [pc EXCEPT ![c] = "trying"]
      /\ start' = [start EXCEPT ![c] = NextIndex(counter[kind[c]], Len(list[c]))]
      /\ UNCHANGED <<nodes, list, loopVars, exitPc, exiting>>
  BY DEF GetNextIndex
<1>2. SenderInv' /\ ReplyInv'
  BY <1>1 DEF LeftInv, SenderInv, ReplyInv, loopVars
<1>3. CASE c = Loop
  <2> SUFFICES ASSUME ~exiting' PROVE LoopInv'
    BY <1>2 DEF LeftInv, LoopInv
  <2>1. list[c] \in Seq(Uid) /\ list[c] # << >> /\ start'[c] \in Nat
    <3>1. TypeOK'
      BY IndexRequest
    <3> QED
      BY <1>1, <3>1 DEF IInv, TypeOK, RequestInv
  <2>2. LastInTurn(list[c], start'[c]) \in Elements(list[c])
    BY <2>1, LastInTurnListed
  <2>3. pc'[Loop] = "trying"
    BY <1>1, <1>3 DEF IInv, TypeOK
  <2> QED
    BY <1>1, <1>3, <2>2, <2>3 DEF LeftInv, LoopInv, loopVars
<1>4. CASE c # Loop
  <2>1. pc'[Loop] = pc[Loop] /\ start'[Loop] = start[Loop]
    BY <1>1, <1>4 DEF IInv, TypeOK, Caller
  <2>2. LoopInv'
    BY <1>1, <2>1, NothingErased DEF LeftInv, loopVars
  <2> QED
    BY <1>2, <2>2 DEF LeftInv
<1> QED
  BY <1>3, <1>4

LEMMA LeftAnswered ==
  ASSUME IInv, NamingAssumed, LeftInv, NEW c \in Caller, Answered(c)
  PROVE LeftInv'
<1>1. /\ pc' = [pc EXCEPT ![c] = "ok"]
      /\ Fetches(c) => fresh' \in {Listed(world), NoReply}
      /\ ~Fetches(c) => fresh' = fresh
      /\ UNCHANGED <<nodes, list, start, loopPc, toAdd, exitPc, exiting>>
  BY DEF Answered
<1>2. Present(Listed(world)) \cap NamingServers # {}
  <2>1. PICK u \in Uid : TypeOf[u] = LookupType /\ world[u] \in Served
    BY DEF IInv, TypeOK, NamingAssumed, RepliesNameOne
  <2>2. Listed(world)[u] # Absent
    BY <2>1, UidAssumption DEF Listed
  <2> QED
    BY <2>1, <2>2 DEF Present, NamingServers
<1>3. loopPc' = "refresh" => fresh' = fresh
  BY <1>1 DEF Fetches
<1>4. ReplyInv'
  BY <1>1, <1>2, <1>3 DEF LeftInv, ReplyInv
<1>5. SenderInv'
  BY <1>1 DEF LeftInv, SenderInv
<1>6. pc'[Loop] \in {"listed", "trying"} => pc'[Loop] = pc[Loop]
  BY <1>1 DEF IInv, TypeOK, Caller
<1>7. LoopInv'
  BY <1>1, <1>3, <1>6, NothingErased DEF LeftInv
<1> QED
  BY <1>4, <1>5, <1>7 DEF LeftInv

(* A sender erases another node, the loop none that is the last in turn.   *)
LEMMA LeftFailed ==
  ASSUME IInv, NamingAssumed, LeftInv, NEW c \in Caller, Failed(c)
  PROVE LeftInv'
<1> DEFINE l == list[c]
           k == next[c]
           last == k = Len(l) - 1
<1>1. /\ pc[c] = "trying" /\ l # << >> /\ l \in Seq(Uid)
      /\ start[c] \in 0..Len(l)-1 /\ k \in 0..Len(l)-1
  <2>1. pc[c] = "trying" /\ Cycling(l, start[c], k, tried[c]) /\ l # << >>
    BY DEF Failed, IInv, RequestInv
  <2> QED
    BY <2>1 DEF IInv, TypeOK, Cycling
<1>2. /\ pc' = [pc EXCEPT ![c] = IF last THEN "failed" ELSE "trying"]
      /\ nodes' = IF Target(c) \in Static \/ last THEN nodes ELSE Erase(nodes, {Target(c)})
      /\ UNCHANGED <<list, start, loopVars, exitPc, exiting>>
  BY DEF Failed
<1>3. Target(c) = l[((start[c] + k) % Len(l)) + 1] /\ Target(c) \in Elements(l)
  <2>1. Len(l) \in Nat \ {0} /\ start[c] + k \in Nat /\ DOMAIN l = 1..Len(l)
    BY <1>1
  <2>2. (start[c] + k) % Len(l) \in 0..Len(l)-1
    BY <2>1, RemainderRange
  <2>3. ((start[c] + k) % Len(l)) + 1 \in DOMAIN l
    BY <2>1, <2>2
  <2> QED
    BY <2>3 DEF Target, Elements
<1>4. \A u \in Uid : u # Target(c) => nodes'[u] = nodes[u]
  BY <1>2 DEF Erase
<1>5. SenderInv' /\ ReplyInv'
  BY <1>2 DEF LeftInv, SenderInv, ReplyInv, loopVars
<1> SUFFICES ASSUME ~exiting PROVE LoopInv'
  BY <1>2, <1>5 DEF LeftInv, LoopInv
<1> HIDE DEF l, k
<1>6. CASE c \in Sender
  <2>1. TypeOf[Target(c)] \in Sent
    BY <1>3, <1>6 DEF LeftInv, SenderInv, Elements, l
  <2>2. \A u \in NamingServers : nodes'[u] = nodes[u]
    BY <1>4, <2>1 DEF NamingServers, NamingAssumed
  <2>3. pc'[Loop] = pc[Loop]
    BY <1>2, <1>6, CallerAssumption DEF IInv, TypeOK, Caller
  <2> QED
    BY <1>2, <2>2, <2>3, NothingErased DEF LeftInv, loopVars
<1>7. CASE c = ExitFn
  BY <1>1, <1>7 DEF IInv, OwnInv, LeftInv, LoopInv
<1>8. CASE c = Loop
  <2>1. loopPc' # "refresh"
    BY <1>1, <1>2, <1>8 DEF IInv, OwnInv, loopVars
  <2>2. pc'[Loop] = IF last THEN "failed" ELSE "trying"
    BY <1>2, <1>8 DEF IInv, TypeOK
  <2>3. /\ exitPc = "none" /\ Present(nodes) \cap NamingServers # {}
        /\ Distinct(l) /\ LastInTurn(l, start[c]) \in Present(nodes) \cap NamingServers
    BY <1>1, <1>8 DEF LeftInv, LoopInv, l
  <2>4. CASE last
    <3>1. nodes' = nodes /\ pc'[Loop] = "failed"
      BY <1>2, <2>2, <2>4
    <3> QED
      BY <1>2, <2>1, <2>3, <3>1 DEF LoopInv
  <2>5. CASE ~last
    <3>1. Target(c) # LastInTurn(l, start[c])
      BY <1>1, <1>3, <2>3, <2>5, LastOnlyAtTheEnd
    <3>2. LastInTurn(l, start[c]) \in Present(nodes') \cap NamingServers
      BY <1>4, <2>3, <3>1 DEF Present
    <3>3. /\ pc'[Loop] = "trying" /\ list'[Loop] = l /\ start'[Loop] = start[c]
          /\ exitPc' = "none"
      BY <1>2, <1>8, <2>2, <2>3, <2>5 DEF l
    <3>4. Present(nodes') \cap NamingServers # {}
      BY <3>2
    <3> QED
      BY <2>1, <2>3, <3>2, <3>3, <3>4 DEF LoopInv
  <2> QED
    BY <2>4, <2>5
<1> QED
  BY <1>6, <1>7, <1>8 DEF Caller

LEMMA LeftBegun ==
  ASSUME IInv, NamingAssumed, LeftInv,
         BeginOfLoop \/ BeginOfExitFn
         \/ \E c \in Sender, t \in Sent, only \in {{}} \cup {{u} : u \in Uid} : Send(c, t, only)
  PROVE LeftInv'
<1>1. PICK c \in Caller, t \in Type, only \in {{}} \cup {{u} : u \in Uid} :
        /\ Begin(c, t, only)
        /\ c = Loop => BeginOfLoop /\ t = LookupType
        /\ c = ExitFn => BeginOfExitFn
        /\ c \in Sender => t \in Sent
  BY CallerAssumption, SentAssumption, UidAssumption DEF BeginOfLoop, BeginOfExitFn, Send, Caller
<1>2. UNCHANGED <<loopVars, exitPc, exiting>>
  BY DEF BeginOfLoop, BeginOfExitFn, Send
<1>3. PICK l \in Seq(Uid) :
        /\ Distinct(l) /\ Elements(l) \subseteq Present(nodes)
        /\ \A u \in Elements(l) : TypeOf[u] = t
        /\ list' = [list EXCEPT ![c] = l]
        /\ pc' = [pc EXCEPT ![c] = IF l = << >> THEN "failed" ELSE "listed"]
        /\ nodes' = IF l = << >> /\ c \notin Sender THEN FillLookupNodes(nodes) ELSE nodes
        /\ start' = start
  BY <1>1, Begun
<1>4. list' = [d \in Caller |-> IF d = c THEN l ELSE list[d]]
      /\ pc'[c] = (IF l = << >> THEN "failed" ELSE "listed")
      /\ \A d \in Caller : d # c => pc'[d] = pc[d]
  BY <1>3 DEF IInv, TypeOK
<1>5. SenderInv'
  BY <1>1, <1>3, <1>4 DEF LeftInv, SenderInv, Elements, Caller
<1>6. ReplyInv'
  BY <1>2 DEF LeftInv, ReplyInv, loopVars
<1> SUFFICES ASSUME ~exiting PROVE LoopInv'
  BY <1>2, <1>5, <1>6 DEF LeftInv, LoopInv
<1>7. CASE c \in Sender
  <2>1. pc'[Loop] = pc[Loop] /\ list'[Loop] = list[Loop] /\ nodes' = nodes
    BY <1>3, <1>4, <1>7, CallerAssumption DEF Caller
  <2> QED
    BY <1>2, <1>3, <2>1, NothingErased DEF LeftInv, loopVars
<1>8. CASE c = ExitFn
  BY <1>1, <1>8 DEF BeginOfExitFn, LeftInv, LoopInv
<1>9. CASE c = Loop
  <2>1. loopPc' # "refresh" /\ t = LookupType /\ exitPc' = "none" /\ Loop \notin Sender
    BY <1>1, <1>2, <1>9, CallerAssumption DEF BeginOfLoop, LeftInv, LoopInv, loopVars
  <2>2. list'[Loop] = l
    BY <1>4, <1>9
  <2>3. CASE l = << >>
    <3>1. nodes' = FillLookupNodes(nodes) /\ pc'[Loop] = "failed"
      BY <1>3, <1>4, <1>9, <2>1, <2>3
    <3>2. PICK u \in Static : TRUE
      BY DEF NamingAssumed
    <3>3. u \in Uid /\ TypeOf[u] = LookupType /\ nodes'[u] = NotServed /\ NotServed # Absent
      BY <3>1, UidAssumption DEF FillLookupNodes
    <3>4. u \in Present(nodes') \cap NamingServers
      BY <3>3 DEF Present, NamingServers
    <3> QED
      BY <2>1, <3>1, <3>4 DEF LoopInv
  <2>4. CASE l # << >>
    <3>1. nodes' = nodes /\ pc'[Loop] = "listed"
      BY <1>3, <1>4, <1>9, <2>4
    <3>2. Elements(l) \subseteq Present(nodes) \cap NamingServers
      BY <1>3, <2>1 DEF Present, NamingServers
    <3>3. Present(nodes) \cap NamingServers # {}
      BY DEF LeftInv, LoopInv
    <3> QED
      BY <1>3, <2>1, <2>2, <3>1, <3>2, <3>3 DEF LoopInv
  <2> QED
    BY <2>3, <2>4
<1> QED
  BY <1>7, <1>8, <1>9 DEF Caller

LEMMA LeftEnded ==
  ASSUME IInv, LeftInv,
         FetchFails \/ Fetched \/ OwnNodeSent \/ ExitFnSent \/ \E c \in Sender : SenderDone(c)
  PROVE LeftInv'
<1>1. PICK c \in Caller : Taken(c)
  BY DEF FetchFails, Fetched, OwnNodeSent, ExitFnSent, SenderDone, Caller
<1>2. /\ pc' = [pc EXCEPT ![c] = "idle"] /\ list' = [list EXCEPT ![c] = << >>]
      /\ start' = [start EXCEPT ![c] = 0] /\ nodes' = nodes
  BY <1>1 DEF Taken
<1>3. /\ UNCHANGED <<exitPc, exiting>> /\ fresh' \in {fresh, NoReply}
      /\ loopPc' = "refresh" => /\ fresh' = fresh
                                /\ \/ loopPc = "refresh" /\ toAdd' = toAdd
                                   \/ toAdd' = Present(fresh)
  BY DEF FetchFails, Fetched, OwnNodeSent, ExitFnSent, SenderDone, AfterRefresh, loopVars
<1>4. SenderInv'
  <2>1. \A d \in Caller : list'[d] \in {list[d], << >>}
    BY <1>2 DEF IInv, TypeOK
  <2> QED
    BY <2>1 DEF LeftInv, SenderInv, Caller
<1>5. ReplyInv'
  <2>1. fresh' # NoReply => Present(fresh') \cap NamingServers # {}
    BY <1>3 DEF LeftInv, ReplyInv
  <2>2. loopPc' = "refresh" => toAdd' \subseteq Present(fresh')
    <3> SUFFICES ASSUME loopPc' = "refresh" PROVE toAdd' \subseteq Present(fresh')
      OBVIOUS
    <3>1. Present(fresh') = Present(fresh)
      BY <1>3
    <3> QED
      BY <1>3, <3>1 DEF LeftInv, ReplyInv
  <2> QED
    BY <2>1, <2>2 DEF ReplyInv
<1>6. pc'[Loop] \in {"listed", "trying"} =>
        /\ pc'[Loop] = pc[Loop]
        /\ list'[Loop] = list[Loop] /\ start'[Loop] = start[Loop]
  BY <1>2 DEF IInv, TypeOK, Caller
<1>7. LoopInv'
  <2>1. loopPc' = "refresh" =>
          \/ loopPc = "refresh" /\ fresh' = fresh /\ toAdd' = toAdd
          \/ toAdd' = Present(fresh')
    BY <1>3
  <2>2. ~exiting' => ~exiting /\ exitPc' = exitPc
    BY <1>3
  <2>3. \A u \in NamingServers : nodes'[u] = nodes[u]
    BY <1>2
  <2> QED
    BY <1>6, <2>1, <2>2, <2>3, NothingErased DEF LeftInv
<1> QED
  BY <1>4, <1>5, <1>7 DEF LeftInv

(* What the reply names is added before what it does not is erased.        *)
LEMMA LeftRefreshed ==
  ASSUME IInv, NamingAssumed, LeftInv, (\E u \in Uid : AddNode(u)) \/ EraseExpired
  PROVE LeftInv'
<1>1. /\ loopPc = "refresh" /\ fresh \in Table /\ fresh # NoReply /\ pc[Loop] = "idle"
      /\ UNCHANGED <<pc, list, start, exitPc, exiting>>
  BY ReplyAssumption DEF AddNode, EraseExpired, IInv, OwnInv, request
<1>2. SenderInv'
  BY <1>1 DEF LeftInv, SenderInv
<1>3. /\ Present(fresh) \cap NamingServers # {} /\ toAdd \subseteq Present(fresh)
      /\ nodes \in Table
  BY <1>1 DEF LeftInv, ReplyInv, IInv, TypeOK
<1>4. CASE \E u \in Uid : AddNode(u)
  <2>1. PICK u \in Uid : AddNode(u)
    BY <1>4
  <2>2. /\ u \in toAdd /\ nodes' = [nodes EXCEPT ![u] = fresh[u]] /\ toAdd' = toAdd \ {u}
        /\ UNCHANGED <<loopPc, fresh>>
    BY <2>1 DEF AddNode, Add
  <2>3. ReplyInv'
    BY <2>2 DEF LeftInv, ReplyInv
  <2>4. LoopInv'
    <3> SUFFICES ASSUME ~exiting PROVE LoopInv'
      BY <1>1 DEF LoopInv
    <3>1. /\ exitPc = "none" /\ Present(nodes) \cap NamingServers # {}
          /\ \A v \in (Present(fresh) \cap NamingServers) \ toAdd : nodes[v] = fresh[v]
      BY <1>1 DEF LeftInv, LoopInv
    <3>2. nodes'[u] = fresh[u] /\ fresh[u] # Absent
          /\ \A v \in Uid : v # u => nodes'[v] = nodes[v]
      BY <1>3, <2>2 DEF Table, Present
    <3>3. Present(nodes) \subseteq Present(nodes')
      BY <3>2 DEF Present
    <3>4. \A v \in (Present(fresh) \cap NamingServers) \ toAdd' : nodes'[v] = fresh[v]
      BY <2>2, <3>1, <3>2 DEF Present
    <3> QED
      BY <1>1, <2>2, <3>1, <3>3, <3>4 DEF LoopInv
  <2> QED
    BY <1>2, <2>3, <2>4 DEF LeftInv
<1>5. CASE EraseExpired
  <2>1. /\ toAdd = {} /\ fresh' = NoReply /\ loopPc' # "refresh"
        /\ nodes' = Erase(nodes, {u \in Present(nodes) : ~Equal(fresh, u, nodes[u])})
    BY <1>5 DEF EraseExpired, AfterRefresh
  <2>2. ReplyInv'
    BY <2>1 DEF ReplyInv
  <2>3. LoopInv'
    <3> SUFFICES ASSUME ~exiting PROVE LoopInv'
      BY <1>1 DEF LoopInv
    <3>1. PICK u \in Present(fresh) \cap NamingServers : nodes[u] = fresh[u]
      BY <1>1, <1>3, <2>1 DEF LeftInv, LoopInv
    <3>2. u \in Uid /\ nodes[u] # Absent /\ Equal(fresh, u, nodes[u])
      BY <3>1 DEF Present, Equal
    <3>3. nodes'[u] = nodes[u]
      BY <2>1, <3>2 DEF Erase
    <3>4. u \in Present(nodes') \cap NamingServers
      BY <3>1, <3>2, <3>3 DEF Present
    <3> QED
      BY <1>1, <2>1, <3>4 DEF LeftInv, LoopInv
  <2> QED
    BY <1>2, <2>2, <2>3 DEF LeftInv
<1> QED
  BY <1>4, <1>5

(* The steps in which neither the table nor a request changes.             *)
LEMMA LeftElsewhere ==
  ASSUME IInv, LeftInv,
         \/ AddExitFn \/ Timer \/ NodeUpdate \/ Done \/ RegisterEnds \/ DropEnds
         \/ RunExitFn \/ ExitFnEnds \/ SetExitFlag \/ ServerStep \/ UNCHANGED vars
  PROVE LeftInv'
<1>1. /\ UNCHANGED <<nodes, pc, list, start, fresh, toAdd>>
      /\ loopPc' = "refresh" => loopPc = "refresh"
  BY DEF AddExitFn, Timer, NodeUpdate, Done, RegisterEnds, DropEnds, RunExitFn, ExitFnEnds,
         SetExitFlag, ServerStep, Change, RpcNodeUpdated, LoseNotice, Forget, RegisterLate,
         vars, request, loopVars
<1>2. ~exiting' => ~exiting /\ exitPc' = exitPc
  <2>1. CASE RunExitFn \/ SetExitFlag
    BY <2>1 DEF RunExitFn, SetExitFlag
  <2>2. CASE ExitFnEnds
    BY <2>2 DEF ExitFnEnds, LeftInv, LoopInv
  <2>3. CASE AddExitFn \/ Timer \/ NodeUpdate \/ Done \/ RegisterEnds \/ DropEnds
    BY <2>3 DEF AddExitFn, Timer, NodeUpdate, Done, RegisterEnds, DropEnds
  <2>4. CASE ServerStep \/ UNCHANGED vars
    BY <2>4 DEF ServerStep, Change, RpcNodeUpdated, LoseNotice, Forget, RegisterLate, vars
  <2> QED
    BY <2>1, <2>2, <2>3, <2>4
<1>3. SenderInv' /\ ReplyInv'
  BY <1>1 DEF LeftInv, SenderInv, ReplyInv
<1>4. LoopInv'
  BY <1>1, <1>2, NothingErased DEF LeftInv
<1> QED
  BY <1>3, <1>4 DEF LeftInv

LEMMA LeftStep == IInv /\ NamingAssumed /\ LeftInv /\ [Next]_vars => LeftInv'
<1> SUFFICES ASSUME IInv, NamingAssumed, LeftInv, [Next]_vars PROVE LeftInv'
  OBVIOUS
<1>1. CASE \E c \in Caller : RequestStep(c)
  BY <1>1, LeftIndex, LeftAnswered, LeftFailed DEF RequestStep
<1>2. CASE BeginOfLoop \/ BeginOfExitFn
           \/ \E c \in Sender, t \in Sent, only \in {{}} \cup {{u} : u \in Uid} :
                Send(c, t, only)
  BY <1>2, LeftBegun
<1>3. CASE FetchFails \/ Fetched \/ OwnNodeSent \/ ExitFnSent
           \/ \E c \in Sender : SenderDone(c)
  BY <1>3, LeftEnded
<1>4. CASE (\E u \in Uid : AddNode(u)) \/ EraseExpired
  BY <1>4, LeftRefreshed
<1>5. CASE AddExitFn \/ Timer \/ NodeUpdate \/ Done \/ RegisterEnds \/ DropEnds
  BY <1>5, LeftElsewhere
<1>6. CASE RunExitFn \/ ExitFnEnds \/ SetExitFlag \/ ServerStep
  BY <1>6, LeftElsewhere
<1>7. CASE Stopped \/ UNCHANGED vars
  BY <1>7, LeftElsewhere DEF Stopped
<1> HIDE DEF IInv, LeftInv, NamingAssumed
<1> QED
  BY <1>1, <1>2, <1>3, <1>4, <1>5, <1>6, <1>7
  DEF Next, LoopStep, ExitFnStep, SenderStep, Caller

-----------------------------------------------------------------------------
(* A node that every reply lists alike is in the table alike.              *)
StableUid == Stable \cap Uid
StableInv ==
  \A u \in StableUid :
    /\ nodes[u] \in {Absent, world[u]}
    /\ fresh # NoReply => fresh[u] = world[u]

StaysPut == \A u \in StableUid : u \in Present(nodes) => u \in Present(nodes')

LEMMA StableValue ==
  ASSUME NEW u \in StableUid
  PROVE /\ u \in Uid /\ u \in AlwaysUp /\ u \notin Static
        /\ \A reply, other \in Replies : reply[u] = other[u] /\ reply[u] \in Served
BY UidAssumption DEF StableUid, Stable

LEMMA StableInit == Init => StableInv
<1> SUFFICES ASSUME Init, NEW u \in StableUid PROVE nodes[u] = Absent
  BY DEF Init, StableInv
<1>1. u \in Uid /\ u \notin Static
  BY StableValue
<1> QED
  BY <1>1 DEF Init, FillLookupNodes, EmptyTable

(* What each kind of step does to such a node.                             *)
LEMMA StableKept ==
  ASSUME IInv, StableInv,
         \A u \in StableUid : nodes'[u] \in {nodes[u], world[u]},
         world' = world \/ world' \in Replies,
         \A u \in StableUid : fresh' # NoReply => fresh'[u] = world[u]
  PROVE StableInv' /\ StaysPut
<1> SUFFICES ASSUME NEW u \in StableUid
             PROVE /\ nodes'[u] \in {Absent, world'[u]}
                   /\ fresh' # NoReply => fresh'[u] = world'[u]
                   /\ u \in Present(nodes) => u \in Present(nodes')
  BY DEF StableInv, StaysPut
<1>1. world \in Replies
  BY DEF IInv, TypeOK
<1>2. world'[u] = world[u] /\ world[u] \in Served /\ u \in Uid
  BY <1>1, StableValue
<1>3. world[u] # Absent
  BY <1>2, UidAssumption
<1> QED
  BY <1>2, <1>3 DEF StableInv, Present

LEMMA StableRequest ==
  ASSUME IInv, StableInv, NEW c \in Caller, RequestStep(c)
  PROVE StableInv' /\ StaysPut
<1>1. world \in Replies /\ world' = world
  BY DEF IInv, TypeOK, RequestStep, GetNextIndex, Answered, Failed, server
<1>2. ASSUME NEW u \in StableUid PROVE nodes'[u] = nodes[u]
  <2>1. u \in Uid /\ u \in AlwaysUp
    BY StableValue
  <2>2. CASE Failed(c)
    BY <2>1, <2>2 DEF Failed, Erase
  <2>3. CASE GetNextIndex(c) \/ Answered(c)
    BY <2>3 DEF GetNextIndex, Answered
  <2> QED
    BY <2>2, <2>3 DEF RequestStep
<1>3. ASSUME NEW u \in StableUid, fresh' # NoReply PROVE fresh'[u] = world[u]
  <2>1. u \in Uid /\ world[u] \in Served
    BY <1>1, StableValue
  <2>2. fresh' \in {fresh, Listed(world), NoReply}
    BY DEF RequestStep, GetNextIndex, Answered, Failed, loopVars
  <2>3. Listed(world)[u] = world[u]
    BY <2>1 DEF Listed
  <2> QED
    BY <1>3, <2>2, <2>3 DEF StableInv
<1> QED
  BY <1>1, <1>2, <1>3, StableKept

LEMMA StableBegun ==
  ASSUME IInv, StableInv, NEW c \in Caller, NEW t \in Type, NEW only, Begin(c, t, only),
         UNCHANGED <<world, fresh>>
  PROVE StableInv' /\ StaysPut
<1>1. ASSUME NEW u \in StableUid PROVE nodes'[u] = nodes[u]
  <2>1. u \in Uid /\ u \notin Static
    BY StableValue
  <2>2. nodes' = nodes \/ nodes' = FillLookupNodes(nodes)
    BY DEF Begin
  <2> QED
    BY <2>1, <2>2 DEF FillLookupNodes
<1>2. \A u \in StableUid : fresh' # NoReply => fresh'[u] = world[u]
  BY DEF StableInv
<1> QED
  BY <1>1, <1>2, StableKept

LEMMA StableRefreshed ==
  ASSUME IInv, StableInv, (\E u \in Uid : AddNode(u)) \/ EraseExpired
  PROVE StableInv' /\ StaysPut
<1>1. loopPc = "refresh" /\ fresh # NoReply /\ nodes \in Table
      /\ world' = world /\ fresh' \in {fresh, NoReply} /\ world \in Replies
  BY ReplyAssumption DEF AddNode, EraseExpired, IInv, TypeOK, OwnInv, server
<1>2. ASSUME NEW u \in StableUid PROVE nodes'[u] \in {nodes[u], world[u]}
  <2>1. u \in Uid /\ fresh[u] = world[u] /\ nodes[u] \in {Absent, world[u]}
    BY <1>1, StableValue DEF StableInv
  <2>2. CASE \E v \in Uid : AddNode(v)
    <3>1. PICK v \in Uid : nodes' = [nodes EXCEPT ![v] = fresh[v]]
      BY <2>2 DEF AddNode, Add
    <3> QED
      BY <1>1, <2>1, <3>1 DEF Table
  <2>3. CASE EraseExpired
    <3>1. nodes' = Erase(nodes, {v \in Present(nodes) : ~Equal(fresh, v, nodes[v])})
      BY <2>3 DEF EraseExpired
    <3>2. u \in Present(nodes) => Equal(fresh, u, nodes[u])
      BY <2>1 DEF Present, Equal
    <3> QED
      BY <2>1, <3>1, <3>2 DEF Erase
  <2> QED
    BY <2>2, <2>3
<1>3. \A u \in StableUid : fresh' # NoReply => fresh'[u] = world[u]
  BY <1>1 DEF StableInv
<1> QED
  BY <1>1, <1>2, <1>3, StableKept

LEMMA StableElsewhere ==
  ASSUME IInv, StableInv, nodes' = nodes, world' = world \/ world' \in Replies,
         fresh' \in {fresh, NoReply}
  PROVE StableInv' /\ StaysPut
<1>1. \A u \in StableUid : fresh' # NoReply => fresh'[u] = world[u]
  BY DEF StableInv
<1> QED
  BY <1>1, StableKept

LEMMA StableStep == IInv /\ StableInv /\ [Next]_vars => StableInv' /\ StaysPut
<1> SUFFICES ASSUME IInv, StableInv, [Next]_vars PROVE StableInv' /\ StaysPut
  OBVIOUS
<1>1. CASE \E c \in Caller : RequestStep(c)
  BY <1>1, StableRequest
<1>2. CASE BeginOfLoop \/ BeginOfExitFn
           \/ \E c \in Sender, t \in Sent, only \in {{}} \cup {{u} : u \in Uid} :
                Send(c, t, only)
  <2>1. PICK c \in Caller, t \in Type, only \in {{}} \cup {{u} : u \in Uid} : Begin(c, t, only)
    BY <1>2, SentAssumption, UidAssumption DEF BeginOfLoop, BeginOfExitFn, Send, Caller
  <2>2. UNCHANGED <<world, fresh>>
    BY <1>2 DEF BeginOfLoop, BeginOfExitFn, Send, loopVars, server
  <2> QED
    BY <2>1, <2>2, StableBegun
<1>3. CASE FetchFails \/ Fetched \/ OwnNodeSent \/ ExitFnSent
           \/ \E c \in Sender : SenderDone(c)
  <2>1. /\ nodes' = nodes /\ world' = world
        /\ fresh' \in {fresh, NoReply}
    BY <1>3
    DEF FetchFails, Fetched, OwnNodeSent, ExitFnSent, SenderDone, Taken, loopVars, server
  <2> QED
    BY <2>1, StableElsewhere
<1>4. CASE (\E u \in Uid : AddNode(u)) \/ EraseExpired
  BY <1>4, StableRefreshed
<1>5. CASE AddExitFn \/ Timer \/ NodeUpdate \/ Done \/ RegisterEnds \/ DropEnds
  <2>1. UNCHANGED <<nodes, world, fresh>>
    BY <1>5 DEF AddExitFn, Timer, NodeUpdate, Done, RegisterEnds, DropEnds, server
  <2> QED
    BY <2>1, StableElsewhere
<1>6. CASE RunExitFn \/ ExitFnEnds \/ SetExitFlag \/ ServerStep
  <2>1. UNCHANGED <<nodes, fresh>> /\ (world' = world \/ world' \in Replies)
    BY <1>6 DEF RunExitFn, ExitFnEnds, SetExitFlag, ServerStep, Change, RpcNodeUpdated,
                LoseNotice, Forget, RegisterLate, loopVars, server
  <2> QED
    BY <2>1, StableElsewhere
<1>7. CASE Stopped \/ UNCHANGED vars
  <2>1. UNCHANGED <<nodes, world, fresh>>
    BY <1>7 DEF Stopped, vars, loopVars, server
  <2> QED
    BY <2>1, StableElsewhere
<1> HIDE DEF IInv, StableInv
<1> QED
  BY <1>1, <1>2, <1>3, <1>4, <1>5, <1>6, <1>7
  DEF Next, LoopStep, ExitFnStep, SenderStep, Caller

-----------------------------------------------------------------------------
(* Requests, own nodes and the drop, at every stage of each goroutine.     *)
THEOREM Invariance == Spec => []IInv
<1> QED
  BY InductiveInit, InductiveStep, PTL DEF Spec

(* The client's state stays what it is declared to be; with it the queue   *)
(* of notifications is bounded by its capacity.                            *)
THEOREM TypeCorrect == Spec => []TypeOK
<1>1. IInv => TypeOK
  BY DEF IInv
<1> QED
  BY <1>1, Invariance, PTL

(* sendTargetNode gives up only when it went round the whole list, for any *)
(* number of nodes, whatever the load balancer says and other callers do.  *)
THEOREM FailsOnlyAfterAll == Spec => []AllTried
<1>1. IInv => AllTried
  BY DEF IInv, RequestInv, AllTried, Elements
<1> QED
  BY <1>1, Invariance, PTL

(* What the loop deregistered it never registers again.                    *)
THEOREM DropStays == Spec => []DropIsFinal
<1>1. IInv => DropIsFinal
  BY DEF IInv, DropInv
<1> QED
  BY <1>1, Invariance, PTL

(* While only the loop asks for naming servers, replies name one and the   *)
(* command line gives one, the table always holds one: the loop never      *)
(* erases the last on its list, and a refresh adds before it erases.       *)
THEOREM OneIsLeft == Spec => []NamingServerLeft
<1>1. Init => (NamingAssumed => LeftInv)
  BY LeftInit
<1>2. IInv /\ (NamingAssumed => LeftInv) /\ [Next]_vars => (NamingAssumed => LeftInv)'
  BY LeftStep DEF NamingAssumed, RepliesNameOne
<1>3. (NamingAssumed => LeftInv) => NamingServerLeft
  BY DEF NamingAssumed, LeftInv, LoopInv, NamingServerLeft, NamingServers, Present
<1> QED
  BY <1>1, <1>2, <1>3, Invariance, PTL DEF Spec

(* Neither a refresh nor the failures of other nodes take a node away that *)
(* always answers and that every reply lists alike.                        *)
THEOREM StableStay == Spec => StableNodesStay
<1>1. Init => StableInv
  BY StableInit
<1>2. IInv /\ StableInv /\ [Next]_vars => StableInv'
  BY StableStep
<1>3. IInv /\ StableInv /\ [Next]_vars => [StaysPut]_nodes
  BY StableStep
<1>4. StaysPut <=> \A u \in Stable : u \in Present(nodes) => u \in Present(nodes')
  BY DEF StaysPut, StableUid, Present
<1> QED
  BY <1>1, <1>2, <1>3, <1>4, Invariance, PTL DEF Spec, StableNodesStay

-----------------------------------------------------------------------------
(* The load balancer by itself (RoundRobin).                               *)

(* The index the next request gets if its list has the length of the last, *)
(* and whether i had its turn since f.                                     *)
Upcoming(t) == NextIndex(counter[t], length[t])
Passed(f, c, i) == IF f <= c THEN f <= i /\ i < c ELSE f <= i \/ i < c

(* Going round from first, exactly the indices passed are one ahead.       *)
Turns(n, f, c, s) ==
  \A i \in 0..n-1 : s[i] = s[c] + (IF Passed(f, c, i) THEN 1 ELSE 0)
TakesTurns(t) ==
  /\ first[t] < length[t]
  /\ Turns(length[t], first[t], Upcoming(t), starts[t])

TurnsInv ==
  /\ TurnsTypeOK
  /\ \A t \in ServiceType : length[t] > 0 => TakesTurns(t)

(* The next index is the successor, 0 after the last.                      *)
LEMMA Successor ==
  ASSUME NEW k \in Nat, NEW n \in Nat \ {0}
  PROVE /\ NextIndex(k, n) \in 0..n-1
        /\ CounterAfter(k, n) \in 0..n-1
        /\ NextIndex(CounterAfter(k, n), n) =
             IF NextIndex(k, n) = n - 1 THEN 0 ELSE NextIndex(k, n) + 1
<1>1. k % n \in 0..n-1 /\ (k + 1) % n \in 0..n-1
  BY RemainderRange
<1>2. ((k + 1) % n) % n = (k + 1) % n
  BY <1>1, SmallRemainder
<1>3. (k + 1) % n = IF k % n = n - 1 THEN 0 ELSE (k % n) + 1
  BY RemainderSuccessor
<1> QED
  BY <1>1, <1>2, <1>3 DEF NextIndex, CounterAfter

(* Index c gets its turn, and d is next: who is ahead of whom afterwards.  *)
LEMMA OneTurn ==
  ASSUME NEW n \in Nat \ {0}, NEW s \in [0..n-1 -> Nat],
         NEW f \in 0..n-1, NEW c \in 0..n-1, NEW d \in 0..n-1,
         NEW z, \A j \in 0..n-1 : z[j] = s[j] + (IF j = c THEN 1 ELSE 0),
         d = IF c = n - 1 THEN 0 ELSE c + 1,
         Turns(n, f, c, s)
  PROVE Turns(n, f, d, z)
<1> SUFFICES ASSUME NEW i \in 0..n-1 PROVE z[i] = z[d] + (IF Passed(f, d, i) THEN 1 ELSE 0)
  BY DEF Turns
<1>1. /\ s[i] = s[c] + (IF Passed(f, c, i) THEN 1 ELSE 0)
      /\ s[d] = s[c] + (IF Passed(f, c, d) THEN 1 ELSE 0)
  BY DEF Turns
<1>2. s[i] \in Nat /\ s[c] \in Nat /\ s[d] \in Nat
  OBVIOUS
<1>3. z[i] = s[i] + (IF i = c THEN 1 ELSE 0) /\ z[d] = s[d] + (IF d = c THEN 1 ELSE 0)
  OBVIOUS
<1> QED
  BY <1>1, <1>2, <1>3 DEF Passed

LEMMA TurnsBegin == TurnsInit => TurnsInv
<1> SUFFICES ASSUME TurnsInit PROVE TurnsInv
  OBVIOUS
<1>1. \A t \in ServiceType : length[t] = 0 /\ starts[t] \in [0..length[t]-1 -> 0..MaxStarts]
  BY BoundAssumption DEF TurnsInit, Zeros
<1>2. TurnsTypeOK
  BY <1>1, BoundAssumption DEF TurnsInit, TurnsTypeOK
<1> QED
  BY <1>1, <1>2 DEF TurnsInv

(* Copying a list and changing it leave the counters alone.                *)
LEMMA ListStep ==
  ASSUME TurnsInv,
         \/ \E r \in Requester, t \in ServiceType :
              SendServiceHttpRequest(r, t) \/ SendServiceHttpRequestToUid(r, t)
         \/ \E t \in ServiceType, n \in 0..MaxNodes : Resize(t, n)
  PROVE TurnsInv'
<1> DEFINE InRange == /\ size' \in [ServiceType -> 0..MaxNodes]
                      /\ copy' \in [Requester -> Copies \cup {NoCopy}]
<1>1. UNCHANGED <<counter, length, first, starts>>
  BY DEF SendServiceHttpRequest, SendServiceHttpRequestToUid, Copy, Resize
<1>2. InRange
  <2>1. ASSUME NEW r \in Requester, NEW t \in ServiceType, NEW n \in 1..MaxNodes, Copy(r, t, n)
        PROVE InRange
    BY <2>1 DEF Copy, Copies, TurnsInv, TurnsTypeOK
  <2>2. ASSUME NEW r \in Requester, NEW t \in ServiceType,
               SendServiceHttpRequest(r, t) \/ SendServiceHttpRequestToUid(r, t)
        PROVE InRange
    <3>1. size[t] \in 0..MaxNodes /\ 1 \in 1..MaxNodes
      BY BoundAssumption DEF TurnsInv, TurnsTypeOK
    <3>2. \E n \in 1..MaxNodes : Copy(r, t, n)
      BY <2>2, <3>1, BoundAssumption DEF SendServiceHttpRequest, SendServiceHttpRequestToUid, Copy
    <3> QED
      BY <2>1, <3>2
  <2>3. ASSUME NEW t \in ServiceType, NEW n \in 0..MaxNodes, Resize(t, n)
        PROVE InRange
    BY <2>3 DEF Resize, TurnsInv, TurnsTypeOK
  <2> QED
    BY <2>2, <2>3
<1> QED
  BY <1>1, <1>2 DEF TurnsInv, TurnsTypeOK, TakesTurns, Upcoming

(* A request gives its index the turn: the next one in the round that goes *)
(* on, or the first of a new round.                                        *)
LEMMA TurnStep ==
  ASSUME TurnsInv, NEW r \in Requester, TakeTurn(r)
  PROVE TurnsInv'
<1> DEFINE t == copy[r].type
           len == copy[r].length
           given == NextIndex(counter[t], len)
           upcoming == NextIndex(CounterAfter(counter[t], len), len)
           began == IF len = length[t] THEN first[t] ELSE given
           before == IF len = length[t] THEN starts[t] ELSE Zeros(len)
           after == [before EXCEPT ![given] = @ + 1]
<1>1. /\ t \in ServiceType /\ len \in Nat \ {0} /\ len <= MaxNodes
      /\ counter[t] \in Nat /\ length[t] \in Nat
  <2>1. copy[r] \in Copies
    BY DEF TakeTurn, TurnsInv, TurnsTypeOK
  <2>2. t \in ServiceType /\ len \in 1..MaxNodes
    BY <2>1 DEF Copies
  <2> QED
    BY <2>2, BoundAssumption DEF TurnsInv, TurnsTypeOK
<1>2. /\ counter' = [counter EXCEPT ![t] = CounterAfter(counter[t], len)]
      /\ copy' = [copy EXCEPT ![r] = NoCopy]
      /\ length' = [length EXCEPT ![t] = len]
      /\ first' = [first EXCEPT ![t] = began]
      /\ starts' = [starts EXCEPT ![t] = after]
      /\ before[given] < MaxStarts /\ size' = size
  BY DEF TakeTurn
<1> HIDE DEF t, len
<1>3. /\ given \in 0..len-1 /\ upcoming \in 0..len-1
      /\ CounterAfter(counter[t], len) \in 0..len-1
      /\ upcoming = IF given = len - 1 THEN 0 ELSE given + 1
  <2>1. CounterAfter(counter[t], len) \in Nat
    BY <1>1, Successor
  <2> QED
    BY <1>1, <2>1, Successor
<1> HIDE DEF given, upcoming
<1>4. before \in [0..len-1 -> 0..MaxStarts] /\ before \in [0..len-1 -> Nat]
  <2>1. CASE len = length[t]
    BY <1>1, <2>1, BoundAssumption DEF TurnsInv, TurnsTypeOK
  <2>2. CASE len # length[t]
    <3>1. before = [i \in 0..len-1 |-> 0]
      BY <2>2 DEF Zeros
    <3> QED
      BY <3>1, BoundAssumption
  <2> QED
    BY <2>1, <2>2
<1>5. began \in 0..len-1 /\ Turns(len, began, given, before)
  <2>1. CASE len = length[t]
    <3>1. TakesTurns(t) /\ first[t] \in Nat
      BY <1>1, <2>1, BoundAssumption DEF TurnsInv, TurnsTypeOK
    <3> QED
      BY <1>1, <2>1, <3>1 DEF TakesTurns, Upcoming, given
  <2>2. CASE len # length[t]
    <3>1. began = given /\ \A i \in 0..len-1 : before[i] = 0 /\ ~Passed(began, given, i)
      BY <1>1, <1>3, <2>2 DEF Zeros, Passed
    <3> QED
      BY <1>1, <1>3, <3>1 DEF Turns
  <2> QED
    BY <2>1, <2>2
<1> HIDE DEF before, began
<1>6. Turns(len, began, upcoming, after)
  <2>1. \A j \in 0..len-1 : after[j] = before[j] + (IF j = given THEN 1 ELSE 0)
    BY <1>3, <1>4
  <2> HIDE DEF after
  <2>2. len \in Nat \ {0} /\ before \in [0..len-1 -> Nat] /\ began \in 0..len-1 /\ given \in 0..len-1 /\ upcoming \in 0..len-1
    BY <1>1, <1>3, <1>4, <1>5
  <2>3. upcoming = IF given = len - 1 THEN 0 ELSE given + 1
    BY <1>3
  <2>4. Turns(len, began, given, before)
    BY <1>5
  <2> QED
    BY <2>1, <2>2, <2>3, <2>4, OneTurn
<1>7. after \in [0..len-1 -> 0..MaxStarts]
  <2>1. before[given] + 1 \in 0..MaxStarts
    BY <1>2, <1>3, <1>4, BoundAssumption
  <2> QED
    BY <1>4, <2>1
<1> HIDE DEF after
<1>8. ASSUME NEW u \in ServiceType
      PROVE /\ counter'[u] = IF u = t THEN CounterAfter(counter[t], len) ELSE counter[u]
            /\ length'[u] = IF u = t THEN len ELSE length[u]
            /\ first'[u] = IF u = t THEN began ELSE first[u]
            /\ starts'[u] = IF u = t THEN after ELSE starts[u]
  BY <1>2 DEF TurnsInv, TurnsTypeOK
<1>9. TurnsTypeOK'
  <2>1. /\ CounterAfter(counter[t], len) \in 0..MaxNodes-1 /\ began \in 0..MaxNodes-1
        /\ len \in 0..MaxNodes
    BY <1>1, <1>3, <1>5, BoundAssumption
  <2>2. /\ counter' \in [ServiceType -> 0..MaxNodes-1]
        /\ length' \in [ServiceType -> 0..MaxNodes]
        /\ first' \in [ServiceType -> 0..MaxNodes-1]
        /\ copy' \in [Requester -> Copies \cup {NoCopy}]
        /\ DOMAIN starts' = ServiceType
    BY <1>2, <2>1 DEF TurnsInv, TurnsTypeOK
  <2>3. \A u \in ServiceType : starts'[u] \in [0..length'[u]-1 -> 0..MaxStarts]
    BY <1>7, <1>8 DEF TurnsInv, TurnsTypeOK
  <2> QED
    BY <1>2, <2>2, <2>3 DEF TurnsInv, TurnsTypeOK
<1>10. ASSUME NEW u \in ServiceType, length'[u] > 0 PROVE TakesTurns(u)'
  <2>1. CASE u = t
    <3>1. Upcoming(u)' = upcoming
      BY <1>8, <2>1 DEF Upcoming, upcoming
    <3>2. first'[u] < length'[u]
      BY <1>1, <1>5, <1>8, <2>1
    <3>3. Turns(length'[u], first'[u], Upcoming(u)', starts'[u])
      BY <1>6, <1>8, <2>1, <3>1
    <3> QED
      BY <3>2, <3>3 DEF TakesTurns
  <2>2. CASE u # t
    <3>1. /\ counter'[u] = counter[u] /\ length'[u] = length[u]
          /\ first'[u] = first[u] /\ starts'[u] = starts[u]
      BY <1>8, <2>2
    <3>2. TakesTurns(u)
      BY <1>10, <3>1 DEF TurnsInv
    <3> QED
      BY <3>1, <3>2 DEF TakesTurns, Upcoming
  <2> QED
    BY <2>1, <2>2
<1> QED
  BY <1>9, <1>10 DEF TurnsInv

LEMMA TurnsGoOn == TurnsInv /\ [TurnsNext]_turnVars => TurnsInv'
<1> SUFFICES ASSUME TurnsInv, [TurnsNext]_turnVars PROVE TurnsInv'
  OBVIOUS
<1>1. CASE UNCHANGED turnVars
  BY <1>1 DEF TurnsInv, TurnsTypeOK, TakesTurns, Upcoming, turnVars
<1> QED
  BY <1>1, ListStep, TurnStep DEF TurnsNext

(* Every state satisfies it.                                               *)
THEOREM TurnsAlways == TurnsSpec => []TurnsInv
BY TurnsBegin, TurnsGoOn, PTL DEF TurnsSpec

(* Requests take strict turns over the places of their list, for any       *)
(* number of nodes, types and goroutines and any history of the lists: a   *)
(* list of another length, stale or of one uid, only starts a new round.   *)
THEOREM RoundRobin == TurnsSpec => []StrictTurns
<1>1. TurnsInv => StrictTurns
  <2> SUFFICES ASSUME TurnsInv, NEW t \in ServiceType PROVE Balance(t)
    BY DEF StrictTurns
  <2>0. length[t] \in Nat
    BY BoundAssumption DEF TurnsInv, TurnsTypeOK
  <2>1. CASE length[t] = 0
    BY <2>1 DEF Balance
  <2>2. CASE length[t] # 0
    <3>1. Upcoming(t) \in 0..length[t]-1
      <4>1. counter[t] \in Nat
        BY BoundAssumption DEF TurnsInv, TurnsTypeOK
      <4> QED
        BY <2>0, <2>2, <4>1, Successor DEF Upcoming
    <3>2. starts[t][Upcoming(t)] \in Nat
      BY <3>1, BoundAssumption DEF TurnsInv, TurnsTypeOK
    <3>3. ASSUME NEW i \in 0..length[t]-1
          PROVE starts[t][i] \in {starts[t][Upcoming(t)], starts[t][Upcoming(t)] + 1}
      BY <2>0, <2>2, <3>2 DEF TurnsInv, TakesTurns, Turns
    <3> QED
      BY <3>2, <3>3 DEF Balance
  <2> QED
    BY <2>1, <2>2
<1> QED
  BY <1>1, TurnsAlways, PTL

(* Every variable of the load balancer and its requests stays in range; no *)
(* counter reaches the length of the longest list there can be.            *)
THEOREM TurnsTypeCorrect == TurnsSpec => []TurnsTypeOK
<1>1. TurnsInv => TurnsTypeOK
  BY DEF TurnsInv
<1> QED
  BY <1>1, TurnsAlways, PTL
=============================================================================
