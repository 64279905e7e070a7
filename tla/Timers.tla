------------------------------- MODULE Timers --------------------------------
(***************************************************************************)
(* What the timer queue promises those who share it: at most one timer per *)
(* key, no timer lost, the earliest fires first, and a removal takes the   *)
(* timer it names.                                                         *)
(***************************************************************************)
EXTENDS Integers

CONSTANTS
  Key,      \* what names a timer
  Deadline  \* the times it may be set to, integers

VARIABLES
  timers,  \* the pending timers: their deadlines, by key
  answer   \* what was taken last and how, << >> at first

vars == <<timers, answer>>

Pending == DOMAIN timers

Init ==
  /\ timers = [k \in {} |-> 0]
  /\ answer = << >>

Without(k) == [j \in Pending \ {k} |-> timers[j]]

Set(k, d) ==
  /\ k \notin Pending
  /\ timers' = [j \in Pending \cup {k} |-> IF j = k THEN d ELSE timers[j]]
  /\ UNCHANGED answer

Reset(k, d) ==
  /\ k \in Pending
  /\ timers' = [timers EXCEPT ![k] = d]
  /\ UNCHANGED answer

Fire(k) ==
  /\ k \in Pending
  /\ \A j \in Pending : timers[k] <= timers[j]
  /\ timers' = Without(k)
  /\ answer' = <<"pop", k>>

Cancel(k) ==
  /\ k \in Pending
  /\ timers' = Without(k)
  /\ answer' = <<"remove", k>>

Next ==
  \E k \in Key :
    \/ Fire(k) \/ Cancel(k)
    \/ \E d \in Deadline : Set(k, d) \/ Reset(k, d)

Spec == Init /\ [][Next]_vars
=============================================================================
