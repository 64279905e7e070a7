----------------------------- MODULE Application -----------------------------
(***************************************************************************)
(* A whole application (AppBoot.go): the exit handler of module ExitHandler*)
(* and the HTTP service of module EventService, composed with the loop of  *)
(* the naming client (Lookup/Lookup.go:86-137), of which only the requests *)
(* that list this node with the naming servers are kept here.              *)
(***************************************************************************)
EXTENDS Integers, Sequences

CONSTANTS
  OsSignal, MinGrace, ExecTimeout,
  Post, EventOf, OwnHooks, BuiltIn, QueueSize

CONSTANT Drop  \* the exit function that deregisters this node

ASSUME SignalAssumption == {"none", "alive", "forced"} \cap OsSignal = {}
ASSUME TimerAssumption ==
  MinGrace \in Nat /\ ExecTimeout \in Nat /\ MinGrace <= ExecTimeout

VARIABLES
  sigs, exitProcessing, mainPc, sig, status, ctxDone, elapsed, handler, execPc, ran,
  callPc, slept, exit,
  listening, hooks, post, request, notices,
  boot,     \* what is left to do of AppInit
  loop,     \* where the naming client's loop is
  listed,   \* the naming servers list this node
  dropped   \* requests to deregister were made

Exit == INSTANCE ExitHandler WITH
  Caller <- {}, ForceExit <- 5, Handler <- {Drop}
Service == INSTANCE EventService

ASSUME HookAssumption ==
  /\ OwnHooks \in [Service!Event -> Seq(Service!Hook)]
  /\ \A e \in DOMAIN BuiltIn : BuiltIn[e] \in Service!Hook
  /\ QueueSize \in Nat

processVars == <<sigs, exitProcessing, mainPc, sig, status, ctxDone, elapsed, handler,
                 execPc, ran, callPc, slept>>
exitVars == <<processVars, exit>>
service == <<listening, hooks, post, request, notices>>
naming == <<loop, listed, dropped>>
vars == <<exitVars, service, boot, naming>>

ServiceFirst == <<"service", "hooks", "loop">> \* mutant: the hooks are registered last
AppInit == <<"hooks", "service", "loop">>

Init ==
  /\ Exit!Init /\ Service!Init
  /\ boot = AppInit
  /\ loop = "none"
  /\ listed = FALSE
  /\ dropped = FALSE

Boots(step) == boot # << >> /\ Head(boot) = step /\ boot' = Tail(boot)

RegisterHooks ==
  /\ Boots("hooks")
  /\ Service!RegisterHooks
  /\ UNCHANGED <<exitVars, naming>>

(* StartHttpApi leaves it to a goroutine to listen; if it cannot, the      *)
(* process ends there and then.                                            *)
StartHttpApi == Boots("service") /\ UNCHANGED <<exitVars, service, naming>>

ServiceStarted == \A i \in DOMAIN boot : boot[i] # "service"

Listen ==
  /\ ServiceStarted /\ ~listening
  /\ listening' = TRUE
  /\ UNCHANGED <<exitVars, hooks, post, request, notices, boot, naming>>

CannotListen ==
  /\ ServiceStarted /\ ~listening
  /\ exit' = "forced"
  /\ UNCHANGED <<processVars, service, boot, naming>>

LoopOnly == \* mutant: only the loop deregisters this node
  /\ Boots("loop")
  /\ loop' = "select"
  /\ UNCHANGED <<exitVars, service, listed, dropped>>

CreateClientUpdateHook ==
  /\ Boots("loop")
  /\ loop' = "add exit function"
  /\ UNCHANGED <<exitVars, service, listed, dropped>>

Boot == RegisterHooks \/ StartHttpApi \/ CreateClientUpdateHook

-----------------------------------------------------------------------------
(* The loop.  A select that finds the context done does not wait for the   *)
(* timer any more.                                                         *)
Selects == IF ctxDone THEN "select at the end" ELSE "select"
Selecting == loop \in {"select", "select at the end"}

AddExitFn ==
  /\ loop = "add exit function"
  /\ Exit!Add(Drop)
  /\ loop' = Selects
  /\ UNCHANGED <<service, boot, listed, dropped>>

Timer ==
  /\ loop = "select"
  /\ loop' = "register"
  /\ UNCHANGED <<exitVars, service, boot, listed, dropped>>

RegisterAgain ==
  /\ loop = "register"
  /\ listed' \in {TRUE, listed}
  /\ loop' = Selects
  /\ UNCHANGED <<exitVars, service, boot, dropped>>

NoticeLeft == \* mutant: the notification stays in the queue
  /\ Selecting /\ notices > 0
  /\ loop' = "fetch"
  /\ UNCHANGED <<exitVars, service, boot, listed, dropped>>

NodeUpdate ==
  /\ Selecting /\ notices > 0
  /\ notices' = notices - 1
  /\ loop' = "fetch"
  /\ UNCHANGED <<exitVars, listening, hooks, post, request, boot, listed, dropped>>

Fetched ==
  /\ loop = "fetch"
  /\ loop' = Selects
  /\ UNCHANGED <<exitVars, service, boot, listed, dropped>>

Done ==
  /\ Selecting /\ ctxDone
  /\ loop' = "drop"
  /\ UNCHANGED <<exitVars, service, boot, listed, dropped>>

Deregister == dropped' = TRUE /\ listed' \in {FALSE, listed}

LoopDrops ==
  /\ loop = "drop"
  /\ Deregister
  /\ loop' = "stopped"
  /\ UNCHANGED <<exitVars, service, boot>>

Loop == AddExitFn \/ Timer \/ RegisterAgain \/ NodeUpdate \/ Fetched \/ Done \/ LoopDrops

-----------------------------------------------------------------------------
(* Of the exit functions only the one of the naming client is here.  It may*)
(* take its time, as any that an application adds before it may.           *)
ExitFnReturns ==
  /\ Exit!HandlerReturns
  /\ Deregister
  /\ UNCHANGED <<service, boot, loop>>

Main == Exit!Main /\ UNCHANGED <<service, boot, naming>>
Tick == Exit!Tick /\ UNCHANGED <<service, boot, naming>>
(* Main receives one signal only: those after it are left out (a bound).   *)
OtherExitStep ==
  /\ \/ exitProcessing = 0 /\ \E s \in OsSignal : Exit!Deliver(s)
     \/ Exit!ExecuteBegin \/ Exit!ExecuteEnd
  /\ UNCHANGED <<service, boot, naming>>

SendEvent(p) == Service!Client(p) /\ UNCHANGED <<exitVars, boot, naming>>
OthersNotify == Service!OthersNotify /\ UNCHANGED <<exitVars, boot, naming>>
HandleRequest(r) == Service!Handle(r) /\ UNCHANGED <<exitVars, boot, naming>>

Step ==
  \/ Boot \/ Listen \/ CannotListen
  \/ Loop
  \/ ExitFnReturns \/ Main \/ Tick \/ OtherExitStep
  \/ \E p \in Post : SendEvent(p)
  \/ OthersNotify
  \/ \E r \in Service!Request : HandleRequest(r)

Next == (Exit!Alive /\ Step) \/ (~Exit!Alive /\ UNCHANGED vars)

(* Goroutines that can go on do; nothing is assumed of exit functions.  The*)
(* loop's select takes each of its cases in the end, and those who wait for*)
(* room in the queue are served in their order.                            *)
Spec ==
  /\ Init /\ [][Next]_vars
  /\ WF_vars(Exit!Alive /\ Main) /\ WF_vars(Exit!Alive /\ Tick)
  /\ WF_vars(Exit!Alive /\ Boot) /\ WF_vars(Exit!Alive /\ Loop)
  /\ SF_vars(Exit!Alive /\ NodeUpdate)
  /\ \A r \in Service!Request : SF_vars(Exit!Alive /\ HandleRequest(r))

-----------------------------------------------------------------------------
TypeOK ==
  /\ Exit!TypeOK /\ Service!TypeOK
  /\ boot \in Seq({"service", "hooks", "loop"})
  /\ loop \in {"none", "add exit function", "select", "select at the end", "register",
               "fetch", "drop", "stopped"}
  /\ listed \in BOOLEAN /\ dropped \in BOOLEAN

EventOnce == Service!EventOnce
OkMeansHandled == Service!OkMeansHandled
KnownEventsHandled == Service!KnownEventsHandled

(* An application that ends on a signal while it is listed has asked to be *)
(* taken off the list, unless the two seconds of its exit functions ran    *)
(* out: the loop lists it only after it added the exit function.           *)
DroppedOnExit ==
  exit \in OsSignal /\ listed => dropped \/ elapsed >= ExecTimeout

(* No event is let in once the application was told to drain, not even     *)
(* after Execute, late, has overwritten the final status.                  *)
ClosedWhenDraining ==
  [][\A r \in Service!Request :
       request'[r].at = "admitted" => request[r].at = "admitted" \/ ~ctxDone]_request

(* An event that was let in is answered, although its hook may wait for    *)
(* room in the queue and the loop that empties it stops at the end: then   *)
(* the process ends.                                                       *)
AdmittedAnswered ==
  \A r \in Service!Request :
    request[r].at = "admitted" ~> request[r].at = "answered" \/ ~Exit!Alive
=============================================================================
