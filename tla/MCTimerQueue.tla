---------------------------- MODULE MCTimerQueue -----------------------------
(* Four timers: the heap has two levels below its root's.                  *)
EXTENDS TimerQueue, TLC
CONSTANTS k1, k2, k3, k4, c1
FourKeys == {k1, k2, k3, k4}
OneCaller == {c1}
Soon == {0, 1, 9}
AnyKey == Permutations(FourKeys)
=============================================================================
