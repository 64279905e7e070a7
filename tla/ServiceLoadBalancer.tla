------------------------- MODULE ServiceLoadBalancer -------------------------
(***************************************************************************)
(* getNextIndex of the load balancer (Lookup/Lookup.go): the counter kept  *)
(* for a service type, 0 for a type never asked for, as an operator on its *)
(* value.  The mutex makes each call one step.                             *)
(***************************************************************************)
EXTENDS Naturals

VARIABLE counter  \* ServiceLoadBalancer.counter: a number for each service type

(* The index returned for a list of n nodes, and the counter left behind.  *)
NextIndex(current, n) == IF n <= 0 THEN 0 ELSE current % n

CounterAfter(current, n) == IF n <= 0 THEN current ELSE (current + 1) % n
=============================================================================
