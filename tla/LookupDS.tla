------------------------------ MODULE LookupDS -------------------------------
(***************************************************************************)
(* The table of registered nodes (Lookup/LookupDS/LookupDS.go), as         *)
(* operators on its value: each method takes the table's lock once, so     *)
(* each is one step of whoever calls it.  A uid is of one type for ever    *)
(* (an application's uid starts with its type), and api-root, scheme and   *)
(* create-time follow the uid, so that of a RegisterNode only the uid of   *)
(* the naming server that serves it is kept.                               *)
(***************************************************************************)
EXTENDS Naturals, FiniteSets

CONSTANTS
  Uid,        \* node uids: numbers, for the order of the strings
  Type,       \* service node types
  LookupType, \* the type of the naming servers
  TypeOf,     \* [Uid -> Type]
  Static,     \* the uids given to the naming servers of the command line
  Served,     \* served-Lookup-uid values
  NotServed,  \* its empty value, that of a static node
  Absent      \* no such uid in the table

ASSUME UidAssumption ==
  /\ Uid \subseteq Nat /\ IsFiniteSet(Uid)
  /\ TypeOf \in [Uid -> Type] /\ LookupType \in Type
  /\ Static \subseteq {u \in Uid : TypeOf[u] = LookupType}
  /\ NotServed \in Served /\ Absent \notin Served

Table == [Uid -> Served \cup {Absent}]
EmptyTable == [u \in Uid |-> Absent]
Present(nodes) == {u \in Uid : nodes[u] # Absent}

-----------------------------------------------------------------------------
(* NodeQueryFilter: if anything is excluded, what is included is ignored.  *)
Kill(filter, x) ==
  IF filter.exclude # {} THEN x \in filter.exclude
  ELSE filter.include # {} /\ x \notin filter.include

OnlyThe(x) == [exclude |-> {}, include |-> {x}]

(* The sequences that list the set S of uids in increasing order: one.     *)
Listings(S) ==
  {l \in [1..Cardinality(S) -> S] :
     /\ \A i, j \in DOMAIN l : i < j => l[i] < l[j]
     /\ \A u \in S : \E i \in DOMAIN l : l[i] = u}

(* MapRegisterNode.SortWithFilter returns a copy of the nodes that pass    *)
(* both filters, sorted by uid.                                            *)
Passing(nodes, uidFilter, typeFilter) ==
  {u \in Present(nodes) : ~Kill(uidFilter, u) /\ ~Kill(typeFilter, TypeOf[u])}

SortWithFilter(nodes, uidFilter, typeFilter) ==
  Listings(Passing(nodes, uidFilter, typeFilter))

-----------------------------------------------------------------------------
Add(nodes, u, served) == [nodes EXCEPT ![u] = served]

Erase(nodes, U) == [u \in Uid |-> IF u \in U THEN Absent ELSE nodes[u]]

(* MapRegisterNode.Equal: the node is in the table, served by the same     *)
(* naming server.                                                          *)
Equal(nodes, u, served) == nodes[u] # Absent /\ nodes[u] = served

FillLookupNodes(nodes) ==
  [u \in Uid |-> IF u \in Static THEN NotServed ELSE nodes[u]]
=============================================================================
