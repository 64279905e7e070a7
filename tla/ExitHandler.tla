----------------------------- MODULE ExitHandler -----------------------------
(***************************************************************************)
(* Graceful shutdown of a process (ExitHandler/ExitHandler.go).  Four      *)
(* kinds of goroutines meet here: callers of Exit, callers of Add, the one *)
(* goroutine that sigCallback starts ("main" below), and the goroutine     *)
(* that runs Execute.  Time passes in seconds, only while a timer is       *)
(* running; an expired timer may be noticed arbitrarily late.  Writing the *)
(* log and dumping the stack have no state here.                           *)
(***************************************************************************)
EXTENDS Integers, Sequences

CONSTANTS
  OsSignal,    \* SIGTERM, SIGINT
  Caller,      \* goroutines that may call Exit; each also names the signal it sends
  Handler,     \* functions that may be passed to Add, each once (a bound)
  MinGrace,    \* 1 second, ExitHandler.go:168
  ExecTimeout, \* 2 seconds, ExitHandler.go:162
  ForceExit    \* 5 seconds, ExitHandler.go:135

Signal == OsSignal \cup Caller

ASSUME SignalAssumption == {"none", "alive", "forced"} \cap Signal = {}
ASSUME TimerAssumption ==
  /\ MinGrace \in Nat /\ ExecTimeout \in Nat /\ ForceExit \in Nat
  /\ MinGrace <= ExecTimeout

VARIABLES
  sigs,           \* the channel of capacity 1
  exitProcessing, \* 0 or 1
  mainPc,         \* where main is
  sig,            \* the signal main received, "none" before
  status,         \* ExitProcHandler.Status
  ctxDone,        \* AppContext is cancelled
  elapsed,        \* seconds since main's `start`, counted up to ExecTimeout
  handler,        \* ExitProcHandler.handler
  execPc,         \* where Execute is
  ran,            \* how many exit functions have returned
  callPc,         \* where each caller of Exit is
  slept,          \* seconds each has slept in Exit, counted up to ForceExit
  exit            \* "alive", the signal whose code ended the process, or "forced" (-1)

mainVars == <<exitProcessing, mainPc, sig, ctxDone>>
callVars == <<callPc, slept>>
vars == <<sigs, mainVars, status, elapsed, handler, execPc, ran, callVars, exit>>

(* SystemStatus, an iota enumeration: the order of the values is the order *)
(* in which a shutdown is meant to go through them.                        *)
SystemInRunning == 0
SystemExiting == 1
SystemAtExitFunc == 2
SystemOutExitFunc == 3
SystemExited == 4

Init ==
  /\ sigs = << >>
  /\ exitProcessing = 0
  /\ mainPc = "receive"
  /\ sig = "none"
  /\ status = SystemInRunning
  /\ ctxDone = FALSE
  /\ elapsed = 0
  /\ handler = << >>
  /\ execPc = "none"
  /\ ran = 0
  /\ callPc = [c \in Caller |-> "idle"]
  /\ slept = [c \in Caller |-> 0]
  /\ exit = "alive"

-----------------------------------------------------------------------------
(* os/signal delivers without blocking: a signal that finds the channel    *)
(* full is dropped, which changes nothing.                                 *)
Deliver(s) ==
  /\ Len(sigs) < 1
  /\ sigs' = Append(sigs, s)
  /\ UNCHANGED <<mainVars, status, elapsed, handler, execPc, ran, callVars, exit>>

(* Exit sends on the same channel, and waits while it is full.             *)
Call(c) ==
  /\ callPc[c] = "idle"
  /\ callPc' = [callPc EXCEPT ![c] = "sending"]
  /\ UNCHANGED <<sigs, mainVars, status, elapsed, handler, execPc, ran, slept, exit>>

Send(c) ==
  /\ callPc[c] = "sending"
  /\ Len(sigs) < 1
  /\ sigs' = Append(sigs, c)
  /\ callPc' = [callPc EXCEPT ![c] = "sleeping"]
  /\ UNCHANGED <<mainVars, status, elapsed, handler, execPc, ran, slept, exit>>

(* Having slept its five seconds, a caller of Exit ends the process itself.*)
ForceOut(c) ==
  /\ callPc[c] = "sleeping"
  /\ slept[c] >= ForceExit
  /\ exit' = "forced"
  /\ UNCHANGED <<sigs, mainVars, status, elapsed, handler, execPc, ran, callVars>>

-----------------------------------------------------------------------------
(* Main receives one signal in its life, so its CompareAndSwap cannot find *)
(* exitProcessing set and the "already in progress" return is never taken; *)
(* exitExecutor was created by sigNotify before main started.              *)
ReceiveAgain == \* mutant: main loops, and drops what it receives later
  /\ sigs # << >>
  /\ sigs' = Tail(sigs)
  /\ exitProcessing' = 1
  /\ IF exitProcessing = 0 THEN sig' = Head(sigs) /\ mainPc' = "setFlag"
                           ELSE UNCHANGED <<sig, mainPc>>
  /\ UNCHANGED <<status, ctxDone, elapsed, handler, execPc, ran, callVars, exit>>

Receive ==
  /\ mainPc = "receive"
  /\ sigs # << >>
  /\ exitProcessing = 0
  /\ exitProcessing' = 1
  /\ sig' = Head(sigs)
  /\ sigs' = Tail(sigs)
  /\ mainPc' = "setFlag"
  /\ UNCHANGED <<status, ctxDone, elapsed, handler, execPc, ran, callVars, exit>>

(* SetExitFlag changes the status and then cancels the context.            *)
SetExitFlag ==
  /\ mainPc = "setFlag"
  /\ status' = SystemExiting
  /\ mainPc' = "cancel"
  /\ UNCHANGED <<sigs, exitProcessing, sig, ctxDone, elapsed, handler, execPc, ran,
                 callVars, exit>>

SpawnOnly == \* mutant: the context is not cancelled
  /\ mainPc = "cancel"
  /\ execPc' = "lock"
  /\ elapsed' = 0
  /\ mainPc' = "select"
  /\ UNCHANGED <<sigs, exitProcessing, sig, ctxDone, status, handler, ran, callVars, exit>>

CancelAndSpawn ==
  /\ mainPc = "cancel"
  /\ ctxDone' = TRUE
  /\ execPc' = "lock"
  /\ elapsed' = 0
  /\ mainPc' = "select"
  /\ UNCHANGED <<sigs, exitProcessing, sig, status, handler, ran, callVars, exit>>

GiveUpAtOnce == \* mutant: the timer of two seconds has already fired
  /\ mainPc = "select"
  /\ mainPc' = "finish"
  /\ UNCHANGED <<sigs, exitProcessing, sig, status, ctxDone, elapsed, handler, execPc,
                 ran, callVars, exit>>

NeverGiveUp == \* mutant: a select without the timer's case
  /\ mainPc = "select" /\ execPc = "send"
  /\ mainPc' = "finish"
  /\ UNCHANGED <<sigs, exitProcessing, sig, status, ctxDone, elapsed, handler, execPc,
                 ran, callVars, exit>>

TimedOut ==
  /\ mainPc = "select"
  /\ elapsed >= ExecTimeout
  /\ mainPc' = "finish"
  /\ UNCHANGED <<sigs, exitProcessing, sig, status, ctxDone, elapsed, handler, execPc,
                 ran, callVars, exit>>

(* op is unbuffered: main receives exactly when Execute sends, after which *)
(* Execute's deferred Unlock runs.                                         *)
ReceiveOp ==
  /\ mainPc = "select"
  /\ execPc = "send"
  /\ execPc' = "done"
  /\ mainPc' = "grace"
  /\ UNCHANGED <<sigs, exitProcessing, sig, status, ctxDone, elapsed, handler, ran,
                 callVars, exit>>

NoGrace == \* mutant: the sleep that fills up the second is missing
  /\ mainPc = "grace"
  /\ mainPc' = "finish"
  /\ UNCHANGED <<sigs, exitProcessing, sig, status, ctxDone, elapsed, handler, execPc,
                 ran, callVars, exit>>

Grace ==
  /\ mainPc = "grace"
  /\ elapsed >= MinGrace
  /\ mainPc' = "finish"
  /\ UNCHANGED <<sigs, exitProcessing, sig, status, ctxDone, elapsed, handler, execPc,
                 ran, callVars, exit>>

SetExited ==
  /\ mainPc = "finish"
  /\ status' = SystemExited
  /\ mainPc' = "exit"
  /\ UNCHANGED <<sigs, exitProcessing, sig, ctxDone, elapsed, handler, execPc, ran,
                 callVars, exit>>

OsExit ==
  /\ mainPc = "exit"
  /\ exit' = sig
  /\ UNCHANGED <<sigs, mainVars, status, elapsed, handler, execPc, ran, callVars>>

-----------------------------------------------------------------------------
(* Execute holds the lock from its first step until main has received op;  *)
(* if main stops listening it holds it for good.                           *)
UnlockedEarly == execPc = "running" \* mutant: Unlock before the send on op

Locked == execPc \in {"running", "send"}

Add(h) ==
  /\ ~Locked
  /\ \A i \in DOMAIN handler : handler[i] # h
  /\ handler' = Append(handler, h)
  /\ UNCHANGED <<sigs, mainVars, status, elapsed, execPc, ran, callVars, exit>>

ExecuteBegin ==
  /\ execPc = "lock"
  /\ status' = SystemAtExitFunc
  /\ execPc' = "running"
  /\ UNCHANGED <<sigs, mainVars, elapsed, handler, ran, callVars, exit>>

(* An exit function is application code: it may never return.              *)
HandlerReturns ==
  /\ execPc = "running"
  /\ ran < Len(handler)
  /\ ran' = ran + 1
  /\ UNCHANGED <<sigs, mainVars, status, elapsed, handler, execPc, callVars, exit>>

ExecuteEnd ==
  /\ execPc = "running"
  /\ ran = Len(handler)
  /\ status' = SystemOutExitFunc
  /\ execPc' = "send"
  /\ UNCHANGED <<sigs, mainVars, elapsed, handler, ran, callVars, exit>>

-----------------------------------------------------------------------------
TimerRuns == mainPc \in {"select", "grace"} /\ elapsed < ExecTimeout
Sleeps(c) == callPc[c] = "sleeping" /\ slept[c] < ForceExit

Tick ==
  /\ TimerRuns \/ \E c \in Caller : Sleeps(c)
  /\ elapsed' = IF TimerRuns THEN elapsed + 1 ELSE elapsed
  /\ slept' = [c \in Caller |-> IF Sleeps(c) THEN slept[c] + 1 ELSE slept[c]]
  /\ UNCHANGED <<sigs, mainVars, status, handler, execPc, ran, callPc, exit>>

Main ==
  \/ Receive \/ SetExitFlag \/ CancelAndSpawn \/ TimedOut \/ ReceiveOp \/ Grace
  \/ SetExited \/ OsExit

Execute == ExecuteBegin \/ HandlerReturns \/ ExecuteEnd

Step ==
  \/ \E s \in OsSignal : Deliver(s)
  \/ \E c \in Caller : Call(c) \/ Send(c) \/ ForceOut(c)
  \/ \E h \in Handler : Add(h)
  \/ Main
  \/ Execute
  \/ Tick

(* os.Exit ends every goroutine at once.                                   *)
Alive == exit = "alive"
Ended == ~Alive /\ UNCHANGED vars
Next == (Alive /\ Step) \/ Ended

(* Main and the clock are never held up for ever, and neither is a caller  *)
(* of Exit whose send can proceed.  Nothing is assumed of Execute.         *)
Spec ==
  /\ Init /\ [][Next]_vars
  /\ WF_vars(Alive /\ Main)
  /\ WF_vars(Alive /\ Tick)
  /\ \A c \in Caller : WF_vars(Alive /\ Send(c))

-----------------------------------------------------------------------------
TypeOK ==
  /\ sigs \in Seq(Signal) /\ Len(sigs) <= 1
  /\ exitProcessing \in {0, 1}
  /\ mainPc \in {"receive", "setFlag", "cancel", "select", "grace", "finish", "exit"}
  /\ sig \in Signal \cup {"none"}
  /\ status \in SystemInRunning..SystemExited
  /\ ctxDone \in BOOLEAN
  /\ elapsed \in 0..ExecTimeout
  /\ handler \in Seq(Handler)
  /\ execPc \in {"none", "lock", "running", "send", "done"}
  /\ ran \in Nat
  /\ callPc \in [Caller -> {"idle", "sending", "sleeping"}]
  /\ slept \in [Caller -> 0..ForceExit]
  /\ exit \in Signal \cup {"alive", "forced"}

(* When Execute reports, every function registered by then has returned:   *)
(* the lock it holds keeps Add from slipping one in behind the loop.       *)
NoneSkipped == execPc = "send" => ran = Len(handler)

(* A process that ends by the signal it received told the application to   *)
(* drain at least MinGrace seconds before, and either let every exit       *)
(* function it started with return or gave them ExecTimeout seconds.       *)
OrderlyExit ==
  exit \in Signal =>
    /\ exit = sig /\ ctxDone /\ elapsed >= MinGrace
    /\ execPc # "done" => elapsed >= ExecTimeout

(* At most two callers of Exit ever get to the five-second fallback: the   *)
(* one whose signal main took and the one whose signal fills the channel.  *)
(* All others wait in their send until the process ends.                   *)
CallersAccountedFor ==
  \A c \in Caller : callPc[c] = "sleeping" => sig = c \/ sigs = <<c>>

(* The status only ever goes backwards when main gave up on Execute, which *)
(* may then overwrite SystemExited with its own progress.                  *)
StatusGoesForward ==
  [][status' < status => elapsed >= ExecTimeout /\ execPc # "done"]_status

(* Once a signal is pending or a caller entered Exit, the process ends,    *)
(* even if an exit function never returns.                                 *)
ShutdownEnds ==
  (sigs # << >> \/ \E c \in Caller : callPc[c] # "idle") ~> ~Alive

(* Graceful shutdown keeps the promise of module Shutdown.                 *)
Promise == INSTANCE Shutdown WITH
  phase <- IF ~Alive THEN "stopped" ELSE IF ctxDone THEN "draining" ELSE "running",
  cause <- IF ctxDone THEN sig ELSE "none",
  registered <- handler,
  completed <- ran
PromiseKept == Promise!Spec
=============================================================================
