----------------------------- MODULE RoundRobin ------------------------------
(***************************************************************************)
(* The load balancer shared by all requests of a process: one counter per  *)
(* service type, asked for the first node to try by requests that may go   *)
(* to any node of a type (SendServiceHttpRequest) and by requests for one  *)
(* node (SendServiceHttpRequestToUid, whose list has length 1).  The list  *)
(* of a type grows and shrinks with the topology, and a request asks with  *)
(* the length of the copy it has taken, which may be out of date by then.  *)
(***************************************************************************)
EXTENDS ServiceLoadBalancer

CONSTANTS
  ServiceType, \* service node types
  Requester,   \* goroutines that send requests
  NoCopy,      \* the state of one that has no request under way
  MaxNodes,    \* how long a list can be (a bound)
  MaxStarts    \* how often a node is counted as first choice (a bound)

ASSUME BoundAssumption == MaxNodes \in Nat \ {0} /\ MaxStarts \in Nat \ {0}

Copies == [type : ServiceType, length : 1..MaxNodes]
ASSUME CopyAssumption == NoCopy \notin Copies

VARIABLES
  size,       \* the number of nodes of each type
  copy,       \* of each requester's list: the type and the length
  length,     \* with which length the counter of a type was asked last
  first,      \* the index given first since the last one with another length
  starts      \* how often each index was given since then

turnVars == <<counter, size, copy, length, first, starts>>

Zeros(n) == [i \in 0..n-1 |-> 0]

TurnsInit ==
  /\ counter = [t \in ServiceType |-> 0]
  /\ size \in [ServiceType -> 0..MaxNodes]
  /\ copy = [r \in Requester |-> NoCopy]
  /\ length = [t \in ServiceType |-> 0]
  /\ first = [t \in ServiceType |-> 0]
  /\ starts = [t \in ServiceType |-> Zeros(0)]

(* The lists are copied; without a node there is no request.               *)
Copy(r, t, n) ==
  /\ copy[r] = NoCopy
  /\ size[t] > 0
  /\ copy' = [copy EXCEPT ![r] = [type |-> t, length |-> n]]
  /\ UNCHANGED <<counter, size, length, first, starts>>

SendServiceHttpRequest(r, t) == Copy(r, t, size[t])

SendServiceHttpRequestToUid(r, t) == Copy(r, t, 1)

(* getNextIndex, with the length of the copy.                              *)
TakeTurnSharedCounter(r) == \* mutant: one counter for all types
  LET t == copy[r].type
      n == copy[r].length
      i == NextIndex(counter[t], n)
      same == n = length[t]
      before == IF same THEN starts[t] ELSE Zeros(n)
  IN
  /\ copy[r] # NoCopy
  /\ before[i] < MaxStarts
  /\ counter' = [u \in ServiceType |-> CounterAfter(counter[t], n)]
  /\ copy' = [copy EXCEPT ![r] = NoCopy]
  /\ length' = [length EXCEPT ![t] = n]
  /\ first' = [first EXCEPT ![t] = IF same THEN @ ELSE i]
  /\ starts' = [starts EXCEPT ![t] = [before EXCEPT ![i] = @ + 1]]
  /\ UNCHANGED size

TakeTurn(r) ==
  LET t == copy[r].type
      n == copy[r].length
      i == NextIndex(counter[t], n)
      same == n = length[t]
      before == IF same THEN starts[t] ELSE Zeros(n)
  IN
  /\ copy[r] # NoCopy
  /\ before[i] < MaxStarts
  /\ counter' = [counter EXCEPT ![t] = CounterAfter(@, n)]
  /\ copy' = [copy EXCEPT ![r] = NoCopy]
  /\ length' = [length EXCEPT ![t] = n]
  /\ first' = [first EXCEPT ![t] = IF same THEN @ ELSE i]
  /\ starts' = [starts EXCEPT ![t] = [before EXCEPT ![i] = @ + 1]]
  /\ UNCHANGED size

Resize(t, n) ==
  /\ size' = [size EXCEPT ![t] = n]
  /\ UNCHANGED <<counter, copy, length, first, starts>>

TurnsNext ==
  \/ \E r \in Requester :
       \/ \E t \in ServiceType :
            SendServiceHttpRequest(r, t) \/ SendServiceHttpRequestToUid(r, t)
       \/ TakeTurn(r)
  \/ \E t \in ServiceType : \E n \in 0..MaxNodes : Resize(t, n)

TurnsSpec == TurnsInit /\ [][TurnsNext]_turnVars

-----------------------------------------------------------------------------
TurnsTypeOK ==
  /\ counter \in [ServiceType -> 0..MaxNodes-1]
  /\ size \in [ServiceType -> 0..MaxNodes]
  /\ copy \in [Requester -> Copies \cup {NoCopy}]
  /\ length \in [ServiceType -> 0..MaxNodes]
  /\ first \in [ServiceType -> 0..MaxNodes-1]
  /\ DOMAIN starts = ServiceType
  /\ \A t \in ServiceType : starts[t] \in [0..length[t]-1 -> 0..MaxStarts]

(* Requests to one type take turns whatever requests to other types come   *)
(* between, until one comes with a list of another length (the nodes have  *)
(* changed, it has copied its list before they did, or it is for one uid); *)
(* from there they take turns again: no place on the list is the first     *)
(* choice twice before every other was once.                               *)
Balance(t) == \A i, j \in 0..length[t]-1 : starts[t][i] <= starts[t][j] + 1
StrictTurns == \A t \in ServiceType : Balance(t)
=============================================================================
