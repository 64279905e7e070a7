-------------------------- MODULE ExitHandlerProofs --------------------------
(***************************************************************************)
(* What ExitHandler guarantees for any number of callers and exit          *)
(* functions and for any timeouts that satisfy TimerAssumption.            *)
(***************************************************************************)
EXTENDS ExitHandler, TLAPS

(* Where main is decides what it has done so far.                          *)
MainProgress ==
  /\ mainPc = "receive" <=> sig = "none"
  /\ ctxDone <=> mainPc \in {"select", "grace", "finish", "exit"}
  /\ execPc # "none" => ctxDone
  /\ mainPc \in {"receive", "setFlag"} => status = SystemInRunning
  /\ mainPc = "cancel" => status = SystemExiting
  /\ status = SystemExited => mainPc = "exit"

(* Main and Execute meet on op, or main waits until ExecTimeout.           *)
Rendezvous ==
  /\ execPc = "done" => mainPc \in {"grace", "finish", "exit"}
  /\ mainPc = "grace" => execPc = "done"
  /\ mainPc \in {"finish", "exit"} =>
       elapsed >= MinGrace /\ (execPc # "done" => elapsed >= ExecTimeout)
  /\ exit \in Signal => mainPc = "exit" /\ exit = sig

(* Execute's own progress; main may have set SystemExited behind its back. *)
ExecuteProgress ==
  /\ ran <= Len(handler)
  /\ execPc = "send" => ran = Len(handler)
  /\ execPc = "lock" => status \in {SystemExiting, SystemExited}
  /\ execPc = "running" => status \in {SystemAtExitFunc, SystemExited}

IInv == TypeOK /\ MainProgress /\ Rendezvous /\ ExecuteProgress /\ CallersAccountedFor

-----------------------------------------------------------------------------
(* The inductive invariant: holds initially, kept by every step.           *)
LEMMA InductiveInit == Init => IInv
<1> SUFFICES ASSUME Init PROVE IInv
  OBVIOUS
<1> USE SignalAssumption, TimerAssumption
    DEF Init, SystemInRunning, SystemExiting, SystemAtExitFunc, SystemExited
<1>1. TypeOK
  <2>1. sigs \in Seq(Signal) /\ Len(sigs) <= 1 /\ handler \in Seq(Handler)
    OBVIOUS
  <2>2. callPc \in [Caller -> {"idle", "sending", "sleeping"}]
    OBVIOUS
  <2>3. slept \in [Caller -> 0..ForceExit]
    OBVIOUS
  <2>4. mainPc = "receive" /\ sig = "none" /\ execPc = "none" /\ exit = "alive"
    OBVIOUS
  <2>5. exitProcessing = 0 /\ status = 0 /\ elapsed \in 0..ExecTimeout /\ ran = 0
    OBVIOUS
  <2>6. ctxDone \in BOOLEAN
    OBVIOUS
  <2> HIDE DEF Init
  <2> QED
    BY <2>1, <2>2, <2>3, <2>4, <2>5, <2>6 DEF TypeOK
<1>2. MainProgress /\ ExecuteProgress
  BY DEF MainProgress, ExecuteProgress
<1>3. Rendezvous
  BY DEF Rendezvous, Signal
<1>4. CallersAccountedFor
  BY DEF CallersAccountedFor
<1> QED
  BY <1>1, <1>2, <1>3, <1>4 DEF IInv

LEMMA InductiveStep == IInv /\ [Next]_vars => IInv'
<1> SUFFICES ASSUME IInv, [Next]_vars PROVE IInv'
  OBVIOUS
<1> USE SignalAssumption, TimerAssumption
    DEF IInv, TypeOK, MainProgress, Rendezvous, ExecuteProgress, CallersAccountedFor,
        SystemInRunning, SystemExiting, SystemAtExitFunc, SystemOutExitFunc, SystemExited,
        mainVars, callVars, Signal
<1>1. ASSUME NEW s \in OsSignal, Deliver(s) PROVE IInv'
  BY <1>1 DEF Deliver
<1>2. ASSUME NEW c \in Caller, Call(c) PROVE IInv'
  BY <1>2 DEF Call
<1>3. ASSUME NEW c \in Caller, Send(c) PROVE IInv'
  <2>1. TypeOK'
    BY <1>3 DEF Send
  <2>2. MainProgress' /\ Rendezvous' /\ ExecuteProgress'
    BY <1>3 DEF Send
  <2>3. sigs = << >>
    BY <1>3 DEF Send
  <2>4. sigs' = <<c>>
    BY <1>3, <2>3 DEF Send
  <2>5. ASSUME NEW d \in Caller, callPc'[d] = "sleeping" PROVE sig' = d \/ sigs' = <<d>>
    <3>1. CASE d = c
      BY <2>4, <3>1
    <3>2. CASE d # c
      <4>1. callPc[d] = "sleeping"
        BY <1>3, <2>5, <3>2 DEF Send
      <4>2. sigs # <<d>>
        BY <2>3
      <4> QED
        BY <1>3, <4>1, <4>2 DEF Send
    <3> QED
      BY <3>1, <3>2
  <2> QED
    BY <2>1, <2>2, <2>5
<1>4. ASSUME NEW c \in Caller, ForceOut(c) PROVE IInv'
  BY <1>4 DEF ForceOut
<1>5. ASSUME NEW h \in Handler, Add(h) PROVE IInv'
  BY <1>5 DEF Add, Locked
<1>6. CASE Receive
  BY <1>6 DEF Receive
<1>7. CASE SetExitFlag
  BY <1>7 DEF SetExitFlag
<1>8. CASE CancelAndSpawn
  BY <1>8 DEF CancelAndSpawn
<1>9. CASE TimedOut
  BY <1>9 DEF TimedOut
<1>10. CASE ReceiveOp
  BY <1>10 DEF ReceiveOp
<1>11. CASE Grace
  BY <1>11 DEF Grace
<1>12. CASE SetExited
  BY <1>12 DEF SetExited
<1>13. CASE OsExit
  BY <1>13 DEF OsExit
<1>14. CASE ExecuteBegin
  BY <1>14 DEF ExecuteBegin
<1>15. CASE HandlerReturns
  BY <1>15 DEF HandlerReturns
<1>16. CASE ExecuteEnd
  BY <1>16 DEF ExecuteEnd
<1>17. CASE Tick
  BY <1>17 DEF Tick, TimerRuns, Sleeps
<1>18. CASE UNCHANGED vars
  BY <1>18 DEF vars
<1> HIDE DEF IInv
<1> QED
  BY <1>1, <1>2, <1>3, <1>4, <1>5, <1>6, <1>7, <1>8, <1>9, <1>10, <1>11, <1>12, <1>13, <1>14, <1>15, <1>16, <1>17, <1>18
  DEF Next, Step, Main, Execute, Ended

(* Every state satisfies it.                                               *)
THEOREM Invariance == Spec => []IInv
BY InductiveInit, InductiveStep, PTL DEF Spec

-----------------------------------------------------------------------------
(* The ranges of all variables.                                            *)
THEOREM TypeCorrect == Spec => []TypeOK
<1>1. IInv => TypeOK
  BY DEF IInv
<1> QED
  BY <1>1, Invariance, PTL

(* When Execute reports to main, every exit function has returned.         *)
THEOREM NoHandlerSkipped == Spec => []NoneSkipped
<1>1. IInv => NoneSkipped
  BY DEF IInv, ExecuteProgress, NoneSkipped
<1> QED
  BY <1>1, Invariance, PTL

(* A process that ends by its signal had drained, for MinGrace at least    *)
(* and until its exit functions returned or used up ExecTimeout.           *)
THEOREM OrderlyExits == Spec => []OrderlyExit
<1>1. IInv => OrderlyExit
  BY DEF IInv, MainProgress, Rendezvous, OrderlyExit
<1> QED
  BY <1>1, Invariance, PTL

(* However many goroutines call Exit, two at most leave their send.        *)
THEOREM FewCallersSleep == Spec => []CallersAccountedFor
<1>1. IInv => CallersAccountedFor
  BY DEF IInv
<1> QED
  BY <1>1, Invariance, PTL

(* The status goes backwards only after main has given up on Execute.      *)
THEOREM StatusOrder == Spec => StatusGoesForward
<1> DEFINE Forward == status' < status => elapsed >= ExecTimeout /\ execPc # "done"
<1>1. IInv /\ [Next]_vars => [Forward]_status
  <2> SUFFICES ASSUME IInv, [Next]_vars, status' < status PROVE Forward
    BY DEF Forward
  <2> USE DEF IInv, TypeOK, SystemInRunning, SystemExiting, SystemAtExitFunc,
              SystemOutExitFunc, SystemExited
  <2>1. CASE Main
    BY <2>1 DEF Main, Receive, SetExitFlag, CancelAndSpawn, TimedOut, ReceiveOp, Grace,
                SetExited, OsExit, MainProgress
  <2>2. CASE Execute
    BY <2>2 DEF Execute, ExecuteBegin, HandlerReturns, ExecuteEnd, MainProgress,
                ExecuteProgress, Rendezvous
  <2>3. CASE UNCHANGED status
    BY <2>3
  <2> HIDE DEF IInv, TypeOK
  <2> QED
    BY <2>1, <2>2, <2>3 DEF Next, Step, Ended, vars, Deliver, Call, Send, ForceOut, Add,
                            Tick
<1> QED
  BY <1>1, Invariance, PTL DEF Spec, StatusGoesForward

-----------------------------------------------------------------------------
(* The safety part of the promise made in module Shutdown: the exit        *)
(* functions run in order, once each, only while draining, and the cause   *)
(* of the shutdown stays what it was.                                      *)
THEOREM KeepsPromise == Spec => Promise!Safety
<1>1. Init => Promise!Init
  BY DEF Init, Promise!Init, Alive
<1>2. IInv /\ [Next]_vars => [Promise!Next]_Promise!vars
  <2> SUFFICES ASSUME IInv, [Next]_vars PROVE [Promise!Next]_Promise!vars
    OBVIOUS
  <2> USE DEF Alive, Promise!vars
  <2>1. ASSUME NEW h \in Handler, Alive, Add(h) PROVE Promise!Register(h)
    BY <2>1 DEF Add, Promise!Register, mainVars, callVars
  <2>2. CASE Alive /\ CancelAndSpawn
    <3>1. sig \in Signal /\ ~ctxDone
      BY <2>2 DEF CancelAndSpawn, IInv, TypeOK, MainProgress
    <3>2. Promise!Begin(sig)
      BY <2>2, <3>1 DEF CancelAndSpawn, Promise!Begin, callVars
    <3> QED
      BY <3>1, <3>2 DEF Promise!Next
  <2>3. CASE Alive /\ HandlerReturns
    BY <2>3 DEF HandlerReturns, Promise!CompleteNext, Promise!Next, mainVars, callVars,
                IInv, MainProgress
  <2>4. ASSUME Alive, OsExit \/ \E c \in Caller : ForceOut(c) PROVE Promise!Stop
    BY <2>4, SignalAssumption DEF OsExit, ForceOut, Promise!Stop, mainVars, callVars,
                                  IInv, TypeOK, MainProgress
  <2>5. CASE Receive
    BY <2>5 DEF Receive, IInv, MainProgress, callVars
  <2>6. CASE \/ SetExitFlag \/ TimedOut \/ ReceiveOp \/ Grace \/ SetExited
             \/ ExecuteBegin \/ ExecuteEnd \/ Tick
             \/ (\E s \in OsSignal : Deliver(s)) \/ (\E c \in Caller : Call(c) \/ Send(c))
             \/ UNCHANGED vars
    BY <2>6 DEF SetExitFlag, TimedOut, ReceiveOp, Grace, SetExited, ExecuteBegin, ExecuteEnd,
                Tick, Deliver, Call, Send, vars, mainVars, callVars
  <2> QED
    BY <2>1, <2>2, <2>3, <2>4, <2>5, <2>6
    DEF Next, Step, Main, Execute, Ended, Promise!Next
<1> QED
  BY <1>1, <1>2, Invariance, PTL DEF Spec, Promise!Safety
=============================================================================
