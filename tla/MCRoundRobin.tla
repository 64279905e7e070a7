---------------------------- MODULE MCRoundRobin -----------------------------
(* Two service types with lists of up to three nodes, two goroutines that  *)
(* send requests.                                                          *)
EXTENDS RoundRobin, TLC

CONSTANTS lookup, service, r1, r2
TwoTypes == {lookup, service}
TwoRequesters == {r1, r2}
Alike == Permutations(TwoRequesters) \cup Permutations(TwoTypes)
=============================================================================
