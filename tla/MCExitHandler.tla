---------------------------- MODULE MCExitHandler ----------------------------
(* Small instances of ExitHandler: two exit functions, up to three callers *)
(* of Exit, the program's own timeouts.                                    *)
EXTENDS ExitHandler, TLC

CONSTANTS TERM, c1, c2, c3, h1, h2

OneSignal == {TERM}
ThreeCallers == {c1, c2, c3}
TwoHandlers == {h1, h2}
=============================================================================
