---------------------------- MODULE MCPerfProfile -----------------------------
(* Two addresses to start a server on.                                     *)
EXTENDS PerfProfile
CONSTANTS a1, a2
TwoAddresses == {a1, a2}
=============================================================================
