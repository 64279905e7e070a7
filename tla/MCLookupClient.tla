--------------------------- MODULE MCLookupClient ----------------------------
(* One static naming server (1), a dynamic one (2), two service nodes (3   *)
(* and 4); naming servers that list themselves, or nobody of their kind.   *)
EXTENDS LookupClient, TLC

CONSTANTS lookup, service, ns, other, s1

FourUids == 1..4
OneStatic == {1}
TwoTypes == {lookup, service}
Kinds == [u \in FourUids |-> IF u <= 2 THEN lookup ELSE service]
ServedBy == {NotServed, ns, other}

Lists(f) == [u \in FourUids |-> IF u \in DOMAIN f THEN f[u] ELSE Absent]
WithLookup == {Lists(2 :> ns @@ 3 :> ns @@ 4 :> other), Lists(2 :> ns @@ 3 :> ns @@ 4 :> Invalid)}
WithoutLookup == {Lists(3 :> ns @@ 4 :> ns), Lists(3 :> ns @@ 4 :> Invalid)}

OneSender == {s1}
OnlyService == {service}
Reliable == {2}

(* For the run of the liveness properties: naming servers 1 (static), 2    *)
(* (answers every request) and 3 (may fail), service nodes 4 and 5.        *)
FiveUids == 1..5
FiveKinds == [u \in FiveUids |-> IF u <= 3 THEN lookup ELSE service]
FiveReplies == {[u \in FiveUids |-> <<Absent, ns, ns, ns, v>>[u]] : v \in {ns, Absent}}
Naming == {1, 2}
NoServer == {}
=============================================================================
