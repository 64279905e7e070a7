------------------------------ MODULE Shutdown ------------------------------
(***************************************************************************)
(* What graceful shutdown promises the application that embeds it: exit    *)
(* functions run only after the application was told to drain, one after   *)
(* the other in the order they were registered and never again; the cause  *)
(* of the shutdown never changes; and a shutdown that began comes to an    *)
(* end, whatever the exit functions do.                                    *)
(***************************************************************************)
EXTENDS Naturals, Sequences

CONSTANTS
  Signal,    \* what can cause a shutdown
  Handler    \* the functions an application registers

VARIABLES
  phase,     \* "running", "draining" (the application context is done), "stopped"
  cause,     \* the signal being acted on, "none" while running
  registered,\* the exit functions, in the order of registration
  completed  \* how many of them have returned

vars == <<phase, cause, registered, completed>>

Init ==
  /\ phase = "running"
  /\ cause = "none"
  /\ registered = << >>
  /\ completed = 0

Register(h) ==
  /\ phase # "stopped"
  /\ registered' = Append(registered, h)
  /\ UNCHANGED <<phase, cause, completed>>

Begin(s) ==
  /\ phase = "running"
  /\ phase' = "draining"
  /\ cause' = s
  /\ UNCHANGED <<registered, completed>>

CompleteNext ==
  /\ phase = "draining"
  /\ completed < Len(registered)
  /\ completed' = completed + 1
  /\ UNCHANGED <<phase, cause, registered>>

Stop ==
  /\ phase # "stopped"
  /\ phase' = "stopped"
  /\ UNCHANGED <<cause, registered, completed>>

Next ==
  \/ \E h \in Handler : Register(h)
  \/ \E s \in Signal : Begin(s)
  \/ CompleteNext
  \/ Stop

Safety == Init /\ [][Next]_vars

(* A shutdown under way must stop the process. *)
Spec == Safety /\ WF_vars(phase = "draining" /\ Stop)
=============================================================================
