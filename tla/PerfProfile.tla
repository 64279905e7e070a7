----------------------------- MODULE PerfProfile ------------------------------
(***************************************************************************)
(* The profiling server (Utility/Perf/PerfProfile.go).  Every successful   *)
(* StartPerfProfile leaves two goroutines behind, one that serves and one  *)
(* that stops the server after 12 hours.  Both end in a call of stop,      *)
(* which acts on the server of that moment, whichever it is.               *)
(***************************************************************************)
EXTENDS Naturals

CONSTANTS
  Addr,      \* addresses to listen on
  Lifetime,  \* 12 hours
  MaxStarts  \* servers started (a bound)

ASSUME LifetimeAssumption == Lifetime \in Nat \ {0} /\ MaxStarts \in Nat

Server == 1..MaxStarts
None == 0  \* a nil server

VARIABLES
  server,  \* t.server, by its id
  made,    \* servers made so far
  addr,    \* the address of each
  serve,   \* where each one's serving goroutine is
  closed,  \* http.Server.Close was called
  timer,   \* where each one's timing goroutine is
  age      \* hours since its start, counted up to Lifetime

vars == <<server, made, addr, serve, closed, timer, age>>

Init ==
  /\ server = None
  /\ made = 0
  /\ addr \in [Server -> Addr]
  /\ serve = [s \in Server |-> "none"]
  /\ closed = [s \in Server |-> FALSE]
  /\ timer = [s \in Server |-> "none"]
  /\ age = [s \in Server |-> 0]

Listening(s) == serve[s] = "listening" /\ ~closed[s]

-----------------------------------------------------------------------------
(* start holds the lock; starting twice is refused.                        *)
StartSameId == \* mutant: the id is made once, not for each server
  LET s == made + 1 IN
  /\ server = None
  /\ made < MaxStarts
  /\ server' = s
  /\ serve' = [serve EXCEPT ![s] = "starting"]
  /\ timer' = [timer EXCEPT ![s] = "waiting"]
  /\ UNCHANGED <<made, addr, closed, age>>

StartPerfProfile ==
  LET s == made + 1 IN
  /\ server = None
  /\ made < MaxStarts
  /\ server' = s
  /\ made' = s
  /\ serve' = [serve EXCEPT ![s] = "starting"]
  /\ timer' = [timer EXCEPT ![s] = "waiting"]
  /\ UNCHANGED <<addr, closed, age>>

(* stop(true) closes the server first; if that fails it is kept.           *)
StopWithoutClose == \* mutant: only forgets the server
  /\ server' = None
  /\ UNCHANGED closed

Stop ==
  \/ server = None /\ UNCHANGED <<server, closed>>
  \/ /\ server # None
     /\ closed' = [closed EXCEPT ![server] = TRUE]
     /\ server' \in {None, server}

StopPerfProfile ==
  /\ Stop
  /\ UNCHANGED <<made, addr, serve, timer, age>>

-----------------------------------------------------------------------------
(* The serving goroutine.  ListenAndServe fails when Close came first,     *)
(* when the address is taken, by one of these servers or by someone else.  *)
Listen(s) ==
  /\ serve[s] = "starting"
  /\ \/ /\ ~closed[s]
        /\ \A r \in Server : Listening(r) => addr[r] # addr[s]
        /\ serve' = [serve EXCEPT ![s] = "listening"]
     \/ serve' = [serve EXCEPT ![s] = "returned"]
  /\ UNCHANGED <<server, made, addr, closed, timer, age>>

ListenReturns(s) ==
  /\ serve[s] = "listening"
  /\ closed[s]
  /\ serve' = [serve EXCEPT ![s] = "returned"]
  /\ UNCHANGED <<server, made, addr, closed, timer, age>>

Forget(s) ==
  /\ serve[s] = "returned"
  /\ server' = None
  /\ serve' = [serve EXCEPT ![s] = "done"]
  /\ UNCHANGED <<made, addr, closed, timer, age>>

(* The timing goroutine looks every second whether there is a server.      *)
TimeUpOnly(s) == \* mutant: it ends only when the server is gone
  /\ timer[s] = "waiting"
  /\ server = None
  /\ timer' = [timer EXCEPT ![s] = "stopping"]
  /\ UNCHANGED <<server, made, addr, serve, closed, age>>

TimeUp(s) ==
  /\ timer[s] = "waiting"
  /\ server = None \/ age[s] >= Lifetime
  /\ timer' = [timer EXCEPT ![s] = "stopping"]
  /\ UNCHANGED <<server, made, addr, serve, closed, age>>

TimerStops(s) ==
  /\ timer[s] = "stopping"
  /\ Stop
  /\ timer' = [timer EXCEPT ![s] = "done"]
  /\ UNCHANGED <<made, addr, serve, age>>

Hour ==
  /\ age' = [s \in Server |-> IF timer[s] = "waiting" /\ age[s] < Lifetime
                              THEN age[s] + 1 ELSE age[s]]
  /\ UNCHANGED <<server, made, addr, serve, closed, timer>>

-----------------------------------------------------------------------------
ServeStep(s) == Listen(s) \/ ListenReturns(s) \/ Forget(s)
TimerStep(s) == TimeUp(s) \/ TimerStops(s)

Next ==
  \/ StartPerfProfile \/ StopPerfProfile \/ Hour
  \/ \E s \in Server : ServeStep(s) \/ TimerStep(s)

(* The goroutines go on, and so does time.                                 *)
Spec ==
  /\ Init /\ [][Next]_vars
  /\ WF_vars(Hour)
  /\ \A s \in Server : WF_vars(ServeStep(s)) /\ WF_vars(TimerStep(s))

-----------------------------------------------------------------------------
TypeOK ==
  /\ made \in 0..MaxStarts
  /\ server \in 1..made \cup {None}
  /\ addr \in [Server -> Addr]
  /\ serve \in [Server -> {"none", "starting", "listening", "returned", "done"}]
  /\ closed \in [Server -> BOOLEAN]
  /\ timer \in [Server -> {"none", "waiting", "stopping", "done"}]
  /\ age \in [Server -> 0..Lifetime]

(* A server that listens can be stopped, unless the serving goroutine of   *)
(* an earlier one, ending late, made the variable forget it.               *)
LostOnlyToEarlier ==
  \A s \in Server :
    Listening(s) /\ server # s => \E r \in 1..s - 1 : serve[r] = "done"

(* The first server is closed after its lifetime, if it is not followed by *)
(* another one.                                                            *)
FirstIsClosed == serve[1] = "listening" ~> closed[1] \/ made > 1
=============================================================================
