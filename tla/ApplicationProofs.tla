------------------------- MODULE ApplicationProofs ---------------------------
(***************************************************************************)
(* What an application guarantees for any events, hooks, senders and       *)
(* timeouts.  The exit handler's part in it is that of ExitHandlerProofs.  *)
(***************************************************************************)
EXTENDS Application, TLAPS

ExitProofs == INSTANCE ExitHandlerProofs WITH
  Caller <- {}, ForceExit <- 5, Handler <- {Drop}

-----------------------------------------------------------------------------
(* The exit handler takes no step here that it does not take alone.        *)
LEMMA SameExitHandler ==
  /\ Exit!vars = ExitProofs!vars
  /\ Exit!Next <=> ExitProofs!Next
  /\ Exit!Init <=> ExitProofs!Init
  /\ Exit!TypeOK <=> ExitProofs!TypeOK
<1> USE DEF Exit!mainVars, ExitProofs!mainVars, Exit!callVars, ExitProofs!callVars,
            Exit!vars, ExitProofs!vars, Exit!Signal, ExitProofs!Signal,
            Exit!SystemInRunning, ExitProofs!SystemInRunning,
            Exit!SystemExiting, ExitProofs!SystemExiting,
            Exit!SystemAtExitFunc, ExitProofs!SystemAtExitFunc,
            Exit!SystemOutExitFunc, ExitProofs!SystemOutExitFunc,
            Exit!SystemExited, ExitProofs!SystemExited
<1>1. /\ Exit!Receive <=> ExitProofs!Receive
      /\ Exit!SetExitFlag <=> ExitProofs!SetExitFlag
      /\ Exit!CancelAndSpawn <=> ExitProofs!CancelAndSpawn
      /\ Exit!TimedOut <=> ExitProofs!TimedOut
  BY DEF Exit!Receive, ExitProofs!Receive, Exit!SetExitFlag, ExitProofs!SetExitFlag,
         Exit!CancelAndSpawn, ExitProofs!CancelAndSpawn, Exit!TimedOut, ExitProofs!TimedOut
<1>2. /\ Exit!ReceiveOp <=> ExitProofs!ReceiveOp
      /\ Exit!Grace <=> ExitProofs!Grace
      /\ Exit!SetExited <=> ExitProofs!SetExited
      /\ Exit!OsExit <=> ExitProofs!OsExit
  BY DEF Exit!ReceiveOp, ExitProofs!ReceiveOp, Exit!Grace, ExitProofs!Grace,
         Exit!SetExited, ExitProofs!SetExited, Exit!OsExit, ExitProofs!OsExit
<1>3. Exit!Main <=> ExitProofs!Main
  BY <1>1, <1>2 DEF Exit!Main, ExitProofs!Main
<1>4. Exit!Execute <=> ExitProofs!Execute
  BY DEF Exit!Execute, ExitProofs!Execute, Exit!ExecuteBegin, ExitProofs!ExecuteBegin,
         Exit!HandlerReturns, ExitProofs!HandlerReturns, Exit!ExecuteEnd, ExitProofs!ExecuteEnd
<1>5. Exit!Tick <=> ExitProofs!Tick
  BY DEF Exit!Tick, ExitProofs!Tick, Exit!TimerRuns, ExitProofs!TimerRuns,
         Exit!Sleeps, ExitProofs!Sleeps
<1>6. ASSUME NEW s PROVE Exit!Deliver(s) <=> ExitProofs!Deliver(s)
  BY DEF Exit!Deliver, ExitProofs!Deliver
<1>7. ASSUME NEW h PROVE Exit!Add(h) <=> ExitProofs!Add(h)
  BY DEF Exit!Add, ExitProofs!Add, Exit!Locked, ExitProofs!Locked
<1>8. Exit!Step <=> ExitProofs!Step
  BY <1>3, <1>4, <1>5, <1>6, <1>7 DEF Exit!Step, ExitProofs!Step
<1>9. Exit!Next <=> ExitProofs!Next
  BY <1>8 DEF Exit!Next, ExitProofs!Next, Exit!Alive, ExitProofs!Alive, Exit!Ended,
              ExitProofs!Ended
<1>10. Exit!Init <=> ExitProofs!Init
  BY DEF Exit!Init, ExitProofs!Init
<1>11. Exit!TypeOK <=> ExitProofs!TypeOK
  BY DEF Exit!TypeOK, ExitProofs!TypeOK
<1>12. Exit!vars = ExitProofs!vars
  OBVIOUS
<1> HIDE DEF Exit!vars, ExitProofs!vars
<1> QED
  BY <1>9, <1>10, <1>11, <1>12

(* Of the steps of the application only CannotListen, which ends it, is    *)
(* none of the exit handler's.                                             *)
LEMMA ExitHandlerSteps == [Next]_vars => [Exit!Next]_(Exit!vars) \/ CannotListen
<1> SUFFICES ASSUME [Next]_vars, ~CannotListen PROVE [Exit!Next]_(Exit!vars)
  OBVIOUS
<1>1. ASSUME UNCHANGED exitVars PROVE UNCHANGED Exit!vars
  BY <1>1 DEF exitVars, processVars, Exit!vars, Exit!mainVars, Exit!callVars
<1>2. CASE UNCHANGED vars
  BY <1>1, <1>2 DEF vars
<1>3. CASE Exit!Alive /\ Step
  <2>1. CASE Boot \/ Listen
    BY <1>1, <2>1 DEF Boot, RegisterHooks, StartHttpApi, CreateClientUpdateHook, Listen
  <2>2. CASE AddExitFn
    BY <1>3, <2>2 DEF AddExitFn, Exit!Next, Exit!Step
  <2>3. CASE Timer \/ RegisterAgain \/ NodeUpdate \/ Fetched \/ Done \/ LoopDrops
    BY <1>1, <2>3 DEF Timer, RegisterAgain, NodeUpdate, Fetched, Done, LoopDrops
  <2>4. CASE ExitFnReturns
    BY <1>3, <2>4 DEF ExitFnReturns, Exit!Next, Exit!Step, Exit!Execute
  <2>5. CASE Main \/ Tick
    BY <1>3, <2>5 DEF Main, Tick, Exit!Next, Exit!Step
  <2>6. CASE OtherExitStep
    BY <1>3, <2>6 DEF OtherExitStep, Exit!Next, Exit!Step, Exit!Execute
  <2>7. CASE OthersNotify \/ (\E p \in Post : SendEvent(p))
               \/ (\E r \in Service!Request : HandleRequest(r))
    BY <1>1, <2>7 DEF OthersNotify, SendEvent, HandleRequest
  <2> QED
    BY <1>3, <2>1, <2>2, <2>3, <2>4, <2>5, <2>6, <2>7 DEF Step, Loop
<1> QED
  BY <1>2, <1>3 DEF Next

(* The exit handler's invariant is one of the application.                 *)
LEMMA ExitHandlerInit == Init => ExitProofs!IInv
<1>1. {"none", "alive", "forced"} \cap ExitProofs!Signal = {}
  BY SignalAssumption DEF ExitProofs!Signal
<1>2. MinGrace \in Nat /\ ExecTimeout \in Nat /\ 5 \in Nat /\ MinGrace <= ExecTimeout
  BY TimerAssumption
<1>3. ExitProofs!Init => ExitProofs!IInv
  BY <1>1, <1>2, ExitProofs!InductiveInit DEF ExitProofs!InductiveInit
<1> QED
  BY <1>3, SameExitHandler DEF Init

LEMMA ExitHandlerKept == ExitProofs!IInv /\ [Next]_vars => ExitProofs!IInv'
<1> SUFFICES ASSUME ExitProofs!IInv, [Next]_vars PROVE ExitProofs!IInv'
  OBVIOUS
<1>1. {"none", "alive", "forced"} \cap ExitProofs!Signal = {}
  BY SignalAssumption DEF ExitProofs!Signal
<1>2. MinGrace \in Nat /\ ExecTimeout \in Nat /\ 5 \in Nat /\ MinGrace <= ExecTimeout
  BY TimerAssumption
<1>3. [ExitProofs!Next]_(ExitProofs!vars) => ExitProofs!IInv'
  BY <1>1, <1>2, ExitProofs!InductiveStep DEF ExitProofs!InductiveStep
<1>4. CASE [Exit!Next]_(Exit!vars)
  <2>1. CASE Exit!Next
    BY <1>3, <2>1, SameExitHandler
  <2>2. CASE UNCHANGED Exit!vars
    BY <1>3, <2>2 DEF Exit!vars, ExitProofs!vars, Exit!mainVars, ExitProofs!mainVars,
                      Exit!callVars, ExitProofs!callVars
  <2> QED
    BY <1>4, <2>1, <2>2
<1>5. CASE CannotListen
  BY <1>1, <1>5 DEF CannotListen, processVars, ExitProofs!IInv, ExitProofs!TypeOK,
       ExitProofs!MainProgress, ExitProofs!Rendezvous, ExitProofs!ExecuteProgress,
       ExitProofs!CallersAccountedFor
<1> QED
  BY <1>4, <1>5, ExitHandlerSteps

-----------------------------------------------------------------------------
(* The gate: from before the context is cancelled on, the status is not    *)
(* that of a running system.                                               *)
GateInv == mainPc = "cancel" \/ ctxDone => status # 0

LEMMA GateKept == GateInv /\ [Next]_vars => GateInv'
<1> SUFFICES ASSUME GateInv, [Next]_vars PROVE GateInv'
  OBVIOUS
<1> USE DEF GateInv
<1>1. CASE [Exit!Next]_(Exit!vars)
  <2> USE DEF Exit!SystemExiting, Exit!SystemAtExitFunc, Exit!SystemOutExitFunc,
              Exit!SystemExited, Exit!mainVars
  <2>1. CASE Exit!Main
    BY <2>1 DEF Exit!Main, Exit!Receive, Exit!SetExitFlag, Exit!CancelAndSpawn, Exit!TimedOut,
                Exit!ReceiveOp, Exit!Grace, Exit!SetExited, Exit!OsExit
  <2>2. CASE Exit!Execute
    BY <2>2 DEF Exit!Execute, Exit!ExecuteBegin, Exit!HandlerReturns, Exit!ExecuteEnd
  <2>3. CASE UNCHANGED <<mainPc, ctxDone, status>>
    BY <2>3
  <2> QED
    BY <1>1, <2>1, <2>2, <2>3
    DEF Exit!Next, Exit!Step, Exit!Ended, Exit!vars, Exit!Deliver, Exit!Add,
        Exit!Tick
<1>2. CASE CannotListen
  BY <1>2 DEF CannotListen, processVars
<1> QED
  BY <1>1, <1>2, ExitHandlerSteps


-----------------------------------------------------------------------------
(* The start: what is left of AppInit says which hooks there are, whether  *)
(* the service can listen, and whether the loop runs.                      *)
AllHooks ==
  [e \in Service!Event |->
     OwnHooks[e] \o IF e \in DOMAIN BuiltIn THEN <<BuiltIn[e]>> ELSE << >>]

BootInv ==
  /\ boot \in {<<"hooks", "service", "loop">>, <<"service", "loop">>, <<"loop">>, << >>}
  /\ hooks = IF boot = <<"hooks", "service", "loop">> THEN OwnHooks ELSE AllHooks
  /\ listening \in BOOLEAN
  /\ listening => boot \in {<<"loop">>, << >>}
  /\ loop = "none" <=> boot # << >>

LEMMA HookTypes == OwnHooks \in [Service!Event -> Seq(Service!Hook)]
                   /\ AllHooks \in [Service!Event -> Seq(Service!Hook)]
<1>1. ASSUME NEW e \in Service!Event PROVE AllHooks[e] \in Seq(Service!Hook)
  <2>1. OwnHooks[e] \in Seq(Service!Hook)
    BY HookAssumption
  <2>2. CASE e \in DOMAIN BuiltIn
    <3>1. BuiltIn[e] \in Service!Hook
      BY <2>2, HookAssumption
    <3>2. <<BuiltIn[e]>> \in Seq(Service!Hook)
      BY <3>1
    <3>3. OwnHooks[e] \o <<BuiltIn[e]>> \in Seq(Service!Hook)
      BY <2>1, <3>2
    <3> QED
      BY <2>2, <3>3 DEF AllHooks
  <2>3. CASE e \notin DOMAIN BuiltIn
    BY <2>1, <2>3 DEF AllHooks
  <2> QED
    BY <2>2, <2>3
<1> QED
  BY <1>1, HookAssumption DEF AllHooks

LEMMA BootStep ==
  ASSUME BootInv, [Next]_vars PROVE BootInv'
<1> USE DEF BootInv
<1>1. CASE RegisterHooks
  <2>1. boot = <<"hooks", "service", "loop">> /\ boot' = <<"service", "loop">>
    <3>1. boot # << >> /\ Head(boot) = "hooks" /\ boot' = Tail(boot)
      BY <1>1 DEF RegisterHooks, Boots
    <3>2. boot = <<"hooks", "service", "loop">>
      BY <3>1
    <3> QED
      BY <3>1, <3>2
  <2>2. hooks' = AllHooks
    BY <1>1, <2>1 DEF RegisterHooks, Service!RegisterHooks, AllHooks
  <2> QED
    BY <1>1, <2>1, <2>2 DEF RegisterHooks, Service!RegisterHooks, naming
<1>2. CASE StartHttpApi
  <2>1. boot = <<"service", "loop">> /\ boot' = <<"loop">>
    <3>1. boot # << >> /\ Head(boot) = "service" /\ boot' = Tail(boot)
      BY <1>2 DEF StartHttpApi, Boots
    <3>2. boot = <<"service", "loop">>
      BY <3>1
    <3> QED
      BY <3>1, <3>2
  <2> QED
    BY <1>2, <2>1 DEF StartHttpApi, service, naming
<1>3. CASE CreateClientUpdateHook
  <2>1. boot = <<"loop">> /\ boot' = << >>
    <3>1. boot # << >> /\ Head(boot) = "loop" /\ boot' = Tail(boot)
      BY <1>3 DEF CreateClientUpdateHook, Boots
    <3>2. boot = <<"loop">>
      BY <3>1
    <3> QED
      BY <3>1, <3>2
  <2> QED
    BY <1>3, <2>1 DEF CreateClientUpdateHook, service
<1>4. CASE Listen
  <2>1. boot \in {<<"loop">>, << >>}
    BY <1>4 DEF Listen, ServiceStarted
  <2> QED
    BY <1>4, <2>1 DEF Listen, naming
<1>5. CASE Loop
  <2>1. loop # "none" /\ loop' # "none" /\ UNCHANGED <<boot, hooks, listening>>
    BY <1>5 DEF Loop, AddExitFn, Timer, RegisterAgain, NodeUpdate, Fetched, Done, LoopDrops,
                service, Selects, Selecting
  <2> QED
    BY <2>1
<1>6. CASE UNCHANGED <<boot, loop, hooks, listening>>
  BY <1>6
<1>7. CASE ExitFnReturns \/ Main \/ Tick \/ OtherExitStep \/ CannotListen \/ UNCHANGED vars
  BY <1>6, <1>7 DEF ExitFnReturns, Main, Tick, OtherExitStep, CannotListen, service, naming, vars
<1>8. ASSUME NEW p \in Post, SendEvent(p) PROVE BootInv'
  BY <1>6, <1>8 DEF SendEvent, naming, Service!Client, Service!CannotConnect, Service!Send,
                    Service!SendLost, Service!Answered, Service!Fails
<1>9. CASE OthersNotify
  BY <1>6, <1>9 DEF OthersNotify, Service!OthersNotify, naming
<1>10. ASSUME NEW r \in Service!Request, HandleRequest(r) PROVE BootInv'
  BY <1>6, <1>10 DEF HandleRequest, naming, Service!Handle, Service!Lock, Service!Admit,
                     Service!BadRequest, Service!TakeHooks, Service!RunHook, Service!AnswerEvent
<1> HIDE DEF BootInv
<1> QED
  BY <1>1, <1>2, <1>3, <1>4, <1>5, <1>7, <1>8, <1>9, <1>10 DEF Next, Step, Boot

-----------------------------------------------------------------------------
(* The requests: how far the handler of each has come with its event's n   *)
(* hooks, and that none is there before the service listens.               *)
Stage == {"none", "arrived", "admitted", "hooks", "answered"}
Code == {0, 200, 400, 423}
RequestType == [at : Stage, empty : BOOLEAN,
                code : Code, left : Seq(Service!Hook), ran : Nat]

Progress(q, n) ==
  /\ q.at \in {"none", "arrived", "admitted"} => q.ran = 0 /\ q.left = << >> /\ q.code = 0
  /\ q.at = "hooks" => ~q.empty /\ q.code = 0 /\ q.ran + Len(q.left) = n
  /\ q.at = "answered" =>
       /\ q.left = << >> /\ q.code # 0
       /\ q.code = 200 => ~q.empty /\ q.ran = n
       /\ q.code # 200 => q.ran = 0

HooksOf(r) == hooks[EventOf[r[1]]]

RequestInv ==
  /\ request \in [Service!Request -> RequestType]
  /\ \A r \in Service!Request :
       request[r].at # "none" => listening /\ Progress(request[r], Len(HooksOf(r)))
  /\ \A r \in Service!Request : request[r].at = "none" => Progress(request[r], 0)

LEMMA AtChanges ==
  ASSUME NEW x \in RequestType, NEW a \in Stage PROVE [x EXCEPT !.at = a] \in RequestType
BY DEF RequestType

LEMMA LeftChanges ==
  ASSUME NEW x \in RequestType, NEW l \in Seq(Service!Hook)
  PROVE  [x EXCEPT !.left = l] \in RequestType
BY DEF RequestType

LEMMA AtAndLeftChange ==
  ASSUME NEW x \in RequestType, NEW a \in Stage, NEW l \in Seq(Service!Hook)
  PROVE  [x EXCEPT !.at = a, !.left = l] \in RequestType
<1> DEFINE y == [x EXCEPT !.at = a]
<1>1. y \in RequestType
  BY AtChanges
<1> HIDE DEF y
<1>2. [y EXCEPT !.left = l] \in RequestType
  BY <1>1, LeftChanges
<1> QED
  BY <1>2 DEF y

LEMMA AnswerChanges ==
  ASSUME NEW x \in RequestType, NEW c \in Code, NEW l \in Seq(Service!Hook)
  PROVE  [x EXCEPT !.at = "answered", !.code = c, !.left = l] \in RequestType
<1> DEFINE y == [x EXCEPT !.at = "answered"]
           z == [y EXCEPT !.code = c]
<1>1. y \in RequestType
  BY AtChanges DEF Stage
<1> HIDE DEF y
<1>2. z \in RequestType
  BY <1>1 DEF RequestType
<1> HIDE DEF z
<1>3. [z EXCEPT !.left = l] \in RequestType
  BY <1>2, LeftChanges
<1> QED
  BY <1>3 DEF y, z

LEMMA HookChanges ==
  ASSUME NEW x \in RequestType, NEW l \in Seq(Service!Hook), NEW m \in Nat
  PROVE  [x EXCEPT !.left = l, !.ran = m] \in RequestType
<1> DEFINE y == [x EXCEPT !.left = l]
<1>1. y \in RequestType
  BY LeftChanges
<1> HIDE DEF y
<1>2. [y EXCEPT !.ran = m] \in RequestType
  BY <1>1 DEF RequestType
<1> QED
  BY <1>2 DEF y

(* A handler's step changes the request it is for and keeps its progress.  *)
Handled(r, q) ==
  /\ request' = [request EXCEPT ![r] = q]
  /\ UNCHANGED <<listening, hooks, post>>
  /\ request[r].at \notin {"none", "answered"} /\ q.at # "none"
  /\ q.empty = request[r].empty
  /\ q.at = "admitted" => status = 0
  /\ Progress(q, Len(HooksOf(r)))

LEMMA HandlerStep ==
  ASSUME RequestInv, BootInv, NEW r \in Service!Request, Service!Handle(r)
  PROVE  \E q \in RequestType : Handled(r, q)
<1> DEFINE n == Len(HooksOf(r))
<1>1. request[r] \in RequestType
  BY DEF RequestInv
<1>2. HooksOf(r) \in Seq(Service!Hook) /\ n \in Nat
  <2>1. r[1] \in Post /\ EventOf[r[1]] \in Service!Event
    BY DEF Service!Request, Service!Event
  <2> QED
    BY <2>1, HookTypes DEF BootInv, HooksOf
<1>3. request[r].at # "none" => Progress(request[r], n)
  BY DEF RequestInv
<1>4. << >> \in Seq(Service!Hook)
  OBVIOUS
<1>5. request[r].at \in Stage /\ request[r].left \in Seq(Service!Hook) /\ request[r].ran \in Nat
  BY <1>1 DEF RequestType
<1> HIDE DEF n
<1>6. ASSUME NEW code \in {200, 400, 423}, request[r].at \notin {"none", "answered"},
             UNCHANGED <<listening, hooks, post>>,
             request' = [request EXCEPT ![r] = Service!Finished(r, code)],
             code = 200 => request[r].at = "hooks" /\ request[r].left = << >>,
             code # 200 => request[r].at \in {"arrived", "admitted"}
      PROVE  \E q \in RequestType : Handled(r, q)
  <2> DEFINE q == Service!Finished(r, code)
  <2>2. q \in RequestType
    <3>1. code \in Code
      BY DEF Code
    <3> DEFINE l == << >>
               x == request[r]
    <3>2. x \in RequestType /\ l \in Seq(Service!Hook)
      BY <1>1
    <3> HIDE DEF l, x
    <3>3. [x EXCEPT !.at = "answered", !.code = code, !.left = l] \in RequestType
      BY <3>1, <3>2, AnswerChanges
    <3> QED
      BY <3>3 DEF Service!Finished, l, x
  <2>3. /\ q.at = "answered" /\ q.code = code /\ q.left = << >>
        /\ q.ran = request[r].ran /\ q.empty = request[r].empty
    BY <1>1 DEF Service!Finished, RequestType
  <2> HIDE DEF q
  <2>4. Progress(q, n)
    BY <1>2, <1>3, <1>5, <1>6, <2>3 DEF Progress
  <2>5. Handled(r, q)
    BY <1>6, <2>3, <2>4 DEF Handled, n, q
  <2> QED
    BY <2>2, <2>5
<1>7. CASE Service!Lock(r) \/ Service!BadRequest(r)
  BY <1>6, <1>7 DEF Service!Lock, Service!BadRequest, Service!Becomes
<1>8. CASE Service!AnswerEvent(r)
  BY <1>6, <1>8 DEF Service!AnswerEvent, Service!Becomes
<1>9. CASE Service!Admit(r)
  <2> DEFINE q == [request[r] EXCEPT !.at = "admitted"]
  <2>1. q \in RequestType
    BY <1>1, AtChanges DEF Stage
  <2>2. /\ q.at = "admitted" /\ q.code = request[r].code /\ q.left = request[r].left
        /\ q.ran = request[r].ran /\ q.empty = request[r].empty
    BY <1>1 DEF RequestType
  <2>3. request' = [request EXCEPT ![r] = q] /\ UNCHANGED <<listening, hooks, post>>
        /\ request[r].at = "arrived" /\ status = 0
    BY <1>9 DEF Service!Admit, Service!Becomes
  <2> HIDE DEF q
  <2>4. Progress(q, n)
    BY <1>3, <2>2, <2>3 DEF Progress
  <2>5. Handled(r, q)
    BY <2>2, <2>3, <2>4 DEF Handled, n
  <2> QED
    BY <2>1, <2>5
<1>10. CASE Service!TakeHooks(r)
  <2> DEFINE q == [request[r] EXCEPT !.at = "hooks", !.left = HooksOf(r)]
  <2>2. q \in RequestType
    BY <1>1, <1>2, AtAndLeftChange DEF Stage
  <2>3. /\ q.at = "hooks" /\ q.code = request[r].code /\ q.left = HooksOf(r)
        /\ q.ran = request[r].ran /\ q.empty = request[r].empty
    BY <1>1 DEF RequestType
  <2>4. request' = [request EXCEPT ![r] = q] /\ UNCHANGED <<listening, hooks, post>>
        /\ request[r].at = "admitted" /\ ~request[r].empty
    BY <1>10 DEF Service!TakeHooks, Service!Becomes, HooksOf
  <2> HIDE DEF q
  <2>5. Progress(q, n)
    BY <1>2, <1>3, <2>3, <2>4 DEF Progress, n
  <2>6. Handled(r, q)
    BY <2>3, <2>4, <2>5 DEF Handled, n
  <2> QED
    BY <2>2, <2>6
<1>11. CASE Service!RunHook(r)
  <2> DEFINE q == [request[r] EXCEPT !.left = Tail(@), !.ran = @ + 1]
             left == request[r].left
  <2>1. request' = [request EXCEPT ![r] = q] /\ UNCHANGED <<listening, hooks, post>>
        /\ left # << >>
    BY <1>11 DEF Service!RunHook, Service!Becomes
  <2>2. request[r].at = "hooks"
    BY <1>3, <1>5, <2>1 DEF Progress, Stage, RequestInv
  <2>3. Tail(left) \in Seq(Service!Hook) /\ Len(Tail(left)) = Len(left) - 1 /\ Len(left) \in Nat
    BY <1>5, <2>1
  <2>4. request[r].ran + 1 \in Nat
    BY <1>5
  <2>5. q \in RequestType
    BY <1>1, <2>3, <2>4, HookChanges
  <2>6. /\ q.at = "hooks" /\ q.code = request[r].code /\ q.left = Tail(left)
        /\ q.ran = request[r].ran + 1 /\ q.empty = request[r].empty
    BY <1>1, <2>2 DEF RequestType
  <2> HIDE DEF q
  <2>7. Progress(q, n)
    BY <1>2, <1>3, <1>5, <2>2, <2>3, <2>6 DEF Progress
  <2>8. Handled(r, q)
    BY <2>1, <2>2, <2>6, <2>7 DEF Handled, n
  <2> QED
    BY <2>5, <2>8
<1> QED
  BY <1>7, <1>8, <1>9, <1>10, <1>11 DEF Service!Handle

LEMMA RequestReplaced ==
  ASSUME RequestInv, NEW r \in Service!Request, NEW q \in RequestType,
         request' = [request EXCEPT ![r] = q], UNCHANGED <<listening, hooks>>,
         q.at # "none", listening, Progress(q, Len(HooksOf(r)))
  PROVE  RequestInv'
<1>1. request' \in [Service!Request -> RequestType]
  BY DEF RequestInv
<1>2. ASSUME NEW s \in Service!Request, s # r PROVE request'[s] = request[s]
  BY <1>2 DEF RequestInv
<1>3. request'[r] = q
  BY DEF RequestInv
<1>4. \A s \in Service!Request : HooksOf(s)' = HooksOf(s)
  BY DEF HooksOf
<1>5. ASSUME NEW s \in Service!Request, request'[s].at # "none"
      PROVE  listening' /\ Progress(request'[s], Len(HooksOf(s)'))
  BY <1>2, <1>3, <1>4, <1>5 DEF RequestInv
<1>6. ASSUME NEW s \in Service!Request, request'[s].at = "none"
      PROVE  Progress(request'[s], 0)
  BY <1>2, <1>3, <1>6 DEF RequestInv
<1> QED
  BY <1>1, <1>5, <1>6 DEF RequestInv

LEMMA RequestSame ==
  ASSUME RequestInv, UNCHANGED <<request, hooks>>, listening => listening'
  PROVE  RequestInv'
BY DEF RequestInv, HooksOf

LEMMA Arrival == \A e \in BOOLEAN :
  LET q == [Service!NoRequest EXCEPT !.at = "arrived", !.empty = e] IN
  /\ q \in RequestType /\ q.at = "arrived" /\ q.empty = e
  /\ \A n : Progress(q, n)
<1> TAKE e \in BOOLEAN
<1> DEFINE y == [Service!NoRequest EXCEPT !.at = "arrived"]
           q == [y EXCEPT !.empty = e]
<1>1. Service!NoRequest \in RequestType
  BY DEF Service!NoRequest, RequestType, Stage, Code
<1>2. y \in RequestType
  BY <1>1, AtChanges DEF Stage
<1>3. y.at = "arrived" /\ y.code = 0 /\ y.left = << >> /\ y.ran = 0
  BY DEF Service!NoRequest
<1> HIDE DEF y
<1>4. q \in RequestType
  BY <1>2 DEF RequestType
<1>5. q.at = "arrived" /\ q.empty = e /\ q.code = 0 /\ q.left = << >> /\ q.ran = 0
  BY <1>2, <1>3 DEF RequestType
<1> HIDE DEF q
<1>6. ASSUME NEW n PROVE Progress(q, n)
  BY <1>5 DEF Progress
<1>7. [Service!NoRequest EXCEPT !.at = "arrived", !.empty = e] = q
  BY DEF q, y
<1> QED
  BY <1>4, <1>5, <1>6, <1>7

-----------------------------------------------------------------------------
(* The clients: that the reader is drained once an attempt was made, that  *)
(* the second attempt follows the first, and what the answer tells.        *)
PostType == [at : {"ready", "sent", "ok", "refused", "failed"}, try : Service!Attempt,
             drained : BOOLEAN]

AttemptsOf(p) ==
  /\ post[p].try = 1 => request[<<p, 2>>].at = "none"
  /\ ~post[p].drained => request[<<p, 1>>].at = "none" /\ request[<<p, 2>>].at = "none"
  /\ request[<<p, 1>>].at # "none" =>
       request[<<p, 2>>].at = "none" \/ request[<<p, 2>>].empty
  /\ post[p].at = "ok" =>
       LET q == request[<<p, post[p].try>>] IN q.at = "answered" /\ q.code = 200

PostInv ==
  /\ post \in [Post -> PostType]
  /\ \A p \in Post : AttemptsOf(p)

(* A client's step, other than sending, only changes its own record.       *)
ClientOnly(p) ==
  \E x \in PostType :
    /\ post' = [post EXCEPT ![p] = x]
    /\ UNCHANGED <<listening, hooks, request>>
    /\ x.try = 1 => post[p].try = 1
    /\ ~x.drained => ~post[p].drained
    /\ x.at = "ok" => LET q == request[<<p, x.try>>] IN q.at = "answered" /\ q.code = 200

LEMMA RetriedClient ==
  ASSUME PostInv, NEW p \in Post, post' = [post EXCEPT ![p] = Service!Retried(p)],
         UNCHANGED <<listening, hooks, request>>
  PROVE  ClientOnly(p)
<1> DEFINE y == post[p]
           x == Service!Retried(p)
<1>1. y \in PostType
  BY DEF PostInv
<1>2. CASE y.try = 1
  <2> DEFINE z == [y EXCEPT !.at = "ready"]
  <2>1. z \in PostType /\ z.at = "ready" /\ z.drained = y.drained
    BY <1>1 DEF PostType
  <2> HIDE DEF z
  <2> DEFINE v == [z EXCEPT !.try = 2]
  <2>2. v \in PostType /\ v.at = "ready" /\ v.try = 2 /\ v.drained = y.drained
    BY <2>1 DEF PostType, Service!Attempt
  <2>3. x = v
    BY <1>2 DEF Service!Retried, z
  <2> HIDE DEF v
  <2>4. v.at # "ok" /\ post' = [post EXCEPT ![p] = v]
    BY <2>2, <2>3
  <2> QED
    BY <1>2, <2>2, <2>4 DEF ClientOnly
<1>3. CASE y.try # 1
  <2> DEFINE z == [y EXCEPT !.at = "failed"]
  <2>1. z \in PostType /\ z.at = "failed" /\ z.try = y.try /\ z.drained = y.drained
    BY <1>1 DEF PostType
  <2>2. x = z
    BY <1>3 DEF Service!Retried
  <2> QED
    BY <2>1, <2>2 DEF ClientOnly
<1> QED
  BY <1>2, <1>3

(* Sending drains the reader; if it arrives, its request starts anew.      *)
SentStep(p) ==
  \E x \in PostType :
    /\ post[p].at = "ready"
    /\ post' = [post EXCEPT ![p] = x]
    /\ x.try = post[p].try /\ x.drained /\ x.at = "sent"

LEMMA SentClient ==
  ASSUME PostInv, NEW p \in Post, Service!Sent(p, TRUE) PROVE SentStep(p)
<1> DEFINE y == post[p]
           z == [y EXCEPT !.at = "sent"]
           x == [z EXCEPT !.drained = TRUE]
<1>1. y \in PostType
  BY DEF PostInv
<1>2. z \in PostType /\ z.at = "sent" /\ z.try = y.try
  BY <1>1 DEF PostType
<1>3. post' = [post EXCEPT ![p] = x] /\ y.at = "ready"
  BY DEF Service!Sent
<1> HIDE DEF z
<1>4. x \in PostType /\ x.at = "sent" /\ x.try = y.try /\ x.drained
  BY <1>2 DEF PostType
<1> QED
  BY <1>3, <1>4 DEF SentStep

LEMMA ClientStep ==
  ASSUME PostInv, NEW p \in Post, Service!Client(p)
  PROVE  \/ ClientOnly(p)
         \/ SentStep(p) /\ UNCHANGED <<listening, hooks, request>>
         \/ SentStep(p) /\ listening /\ Service!Arrives(p) /\ UNCHANGED <<listening, hooks>>
<1>1. CASE Service!CannotConnect(p) \/ Service!Fails(p)
  BY <1>1, RetriedClient DEF Service!CannotConnect, Service!Fails
<1>2. CASE Service!Answered(p)
  <2> DEFINE y == post[p]
             a == IF request[Service!Sending(p)].code = 200 THEN "ok" ELSE "refused"
             x == [y EXCEPT !.at = a]
  <2>1. y \in PostType /\ a \in {"ok", "refused"}
    BY DEF PostInv
  <2>2. post' = [post EXCEPT ![p] = x] /\ UNCHANGED <<listening, hooks, request>>
        /\ request[<<p, y.try>>].at = "answered"
    BY <1>2 DEF Service!Answered, Service!Sending
  <2>3. a = "ok" => request[<<p, y.try>>].code = 200
    BY DEF Service!Sending
  <2> HIDE DEF a
  <2>4. x \in PostType /\ x.at = a /\ x.try = y.try /\ x.drained = y.drained
    BY <2>1 DEF PostType
  <2> HIDE DEF x
  <2>5. x.at = "ok" => LET q == request[<<p, x.try>>] IN q.at = "answered" /\ q.code = 200
    BY <2>2, <2>3, <2>4
  <2>6. x.try = 1 => post[p].try = 1
    BY <2>4
  <2>7. ~x.drained => ~post[p].drained
    BY <2>4
  <2>8. x \in PostType
    BY <2>4
  <2>9. ClientOnly(p)
    BY <2>2, <2>5, <2>6, <2>7, <2>8 DEF ClientOnly
  <2> QED
    BY <2>9
<1>3. CASE Service!Send(p) \/ Service!SendLost(p)
  BY <1>3, SentClient DEF Service!Send, Service!SendLost
<1> QED
  BY <1>1, <1>2, <1>3 DEF Service!Client

(* Every other step leaves the clients and the requests alone.             *)
Elsewhere == UNCHANGED <<post, request>> /\ (UNCHANGED listening \/ listening')

LEMMA StepsElsewhere ==
  [Next]_vars =>
    \/ Elsewhere /\ UNCHANGED hooks
    \/ RegisterHooks
    \/ \E p \in Post : Service!Client(p)
    \/ \E r \in Service!Request : Service!Handle(r)
<1> SUFFICES ASSUME [Next]_vars,
                    ~ \E p \in Post : Service!Client(p),
                    ~ \E r \in Service!Request : Service!Handle(r),
                    ~ RegisterHooks
             PROVE  Elsewhere /\ UNCHANGED hooks
  OBVIOUS
<1> USE DEF Elsewhere
<1>1. CASE StartHttpApi \/ CreateClientUpdateHook \/ Listen \/ CannotListen
  BY <1>1 DEF StartHttpApi, CreateClientUpdateHook, Listen, CannotListen, service
<1>2. CASE Loop
  BY <1>2 DEF Loop, AddExitFn, Timer, RegisterAgain, NodeUpdate, Fetched, Done, LoopDrops, service
<1>3. CASE ExitFnReturns \/ Main \/ Tick \/ OtherExitStep
  BY <1>3 DEF ExitFnReturns, Main, Tick, OtherExitStep, service
<1>4. CASE OthersNotify
  BY <1>4 DEF OthersNotify, Service!OthersNotify
<1>5. CASE UNCHANGED vars
  BY <1>5 DEF vars, service
<1> QED
  BY <1>1, <1>2, <1>3, <1>4, <1>5 DEF Next, Step, Boot, SendEvent, HandleRequest

(* The hooks are all there before the first request.                       *)
LEMMA HooksFirst ==
  ASSUME BootInv, RequestInv, RegisterHooks
  PROVE  /\ ~listening /\ UNCHANGED <<listening, post, request>>
         /\ \A r \in Service!Request : request[r].at = "none"
<1>1. boot # << >> /\ Head(boot) = "hooks"
  BY DEF RegisterHooks, Boots
<1>2. boot \notin {<<"loop">>, << >>}
  BY <1>1
<1>3. ~listening
  BY <1>2 DEF BootInv
<1> QED
  BY <1>3 DEF RequestInv, RegisterHooks, Service!RegisterHooks

LEMMA RequestKept == ASSUME BootInv, RequestInv, PostInv, [Next]_vars PROVE RequestInv'
<1>1. CASE Elsewhere /\ UNCHANGED hooks
  BY <1>1, RequestSame DEF Elsewhere
<1>2. CASE RegisterHooks
  BY <1>2, HooksFirst DEF RequestInv
<1>3. ASSUME NEW p \in Post, Service!Client(p) PROVE RequestInv'
  <2>1. CASE UNCHANGED <<listening, hooks, request>>
    BY <2>1, RequestSame
  <2>2. CASE listening /\ Service!Arrives(p) /\ UNCHANGED <<listening, hooks>>
    <3> DEFINE r == Service!Sending(p)
               q == [Service!NoRequest EXCEPT !.at = "arrived", !.empty = post[p].drained]
    <3>1. r \in Service!Request /\ post[p].drained \in BOOLEAN
      BY DEF PostInv, PostType, Service!Sending, Service!Request
    <3>2. q \in RequestType /\ q.at = "arrived" /\ \A n : Progress(q, n)
      BY <3>1, Arrival
    <3>3. request' = [request EXCEPT ![r] = q]
      BY <2>2 DEF Service!Arrives
    <3> HIDE DEF r, q
    <3> QED
      BY <2>2, <3>1, <3>2, <3>3, RequestReplaced
  <2> QED
    BY <1>3, <2>1, <2>2, ClientStep DEF ClientOnly
<1>4. ASSUME NEW r \in Service!Request, Service!Handle(r) PROVE RequestInv'
  <2>1. PICK q \in RequestType : Handled(r, q)
    BY <1>4, HandlerStep
  <2>2. listening
    BY <2>1 DEF Handled, RequestInv
  <2> QED
    BY <2>1, <2>2, RequestReplaced DEF Handled
<1> QED
  BY <1>1, <1>2, <1>3, <1>4, StepsElsewhere

LEMMA PostReplaced ==
  ASSUME PostInv, NEW p \in Post, NEW x \in PostType, post' = [post EXCEPT ![p] = x],
         \A s \in Post : s # p =>
            request'[<<s, 1>>] = request[<<s, 1>>] /\ request'[<<s, 2>>] = request[<<s, 2>>],
         post'[p] = x => AttemptsOf(p)'
  PROVE  PostInv'
<1>1. post' \in [Post -> PostType] /\ post'[p] = x
      /\ \A s \in Post : s # p => post'[s] = post[s]
  BY DEF PostInv
<1>2. ASSUME NEW s \in Post, s # p PROVE AttemptsOf(s)'
  <2>1. AttemptsOf(s) /\ post'[s] = post[s] /\ post[s].try \in {1, 2}
    BY <1>1, <1>2 DEF PostInv, PostType, Service!Attempt
  <2> QED
    BY <1>2, <2>1 DEF AttemptsOf
<1> QED
  BY <1>1, <1>2 DEF PostInv

LEMMA PostKept == ASSUME BootInv, RequestInv, PostInv, [Next]_vars PROVE PostInv'
<1>1. CASE UNCHANGED <<post, request>>
  BY <1>1 DEF PostInv, AttemptsOf
<1>2. ASSUME NEW p \in Post, ClientOnly(p) PROVE PostInv'
  <2>1. PICK x \in PostType :
          /\ post' = [post EXCEPT ![p] = x]
          /\ UNCHANGED request
          /\ x.try = 1 => post[p].try = 1
          /\ ~x.drained => ~post[p].drained
          /\ x.at = "ok" => LET q == request[<<p, x.try>>] IN q.at = "answered" /\ q.code = 200
    BY <1>2 DEF ClientOnly
  <2>2. post'[p] = x => AttemptsOf(p)'
    BY <2>1 DEF PostInv, AttemptsOf
  <2> QED
    BY <2>1, <2>2, PostReplaced
<1>3. ASSUME NEW p \in Post, SentStep(p), UNCHANGED request PROVE PostInv'
  <2>1. PICK x \in PostType :
          /\ post' = [post EXCEPT ![p] = x]
          /\ x.try = post[p].try /\ x.drained /\ x.at = "sent"
    BY <1>3 DEF SentStep
  <2>2. post'[p] = x => AttemptsOf(p)'
    BY <1>3, <2>1 DEF PostInv, AttemptsOf
  <2> QED
    BY <1>3, <2>1, <2>2, PostReplaced
<1>4. ASSUME NEW p \in Post, SentStep(p), Service!Arrives(p) PROVE PostInv'
  <2>1. PICK x \in PostType :
          /\ post' = [post EXCEPT ![p] = x]
          /\ x.try = post[p].try /\ x.drained /\ x.at = "sent"
    BY <1>4 DEF SentStep
  <2> DEFINE r == Service!Sending(p)
             q == [Service!NoRequest EXCEPT !.at = "arrived", !.empty = post[p].drained]
  <2>3. r \in Service!Request /\ r = <<p, post[p].try>> /\ post[p].drained \in BOOLEAN
        /\ post[p].try \in {1, 2}
    BY DEF PostInv, PostType, Service!Sending, Service!Request, Service!Attempt
  <2>4. q.at = "arrived" /\ q.empty = post[p].drained
    BY <2>3, Arrival
  <2>5. request' = [request EXCEPT ![r] = q]
    BY <1>4 DEF Service!Arrives
  <2> HIDE DEF r, q
  <2>6. request'[r] = q /\ \A s \in Service!Request : s # r => request'[s] = request[s]
    BY <2>3, <2>5 DEF RequestInv
  <2>7. \A s \in Post : s # p =>
          request'[<<s, 1>>] = request[<<s, 1>>] /\ request'[<<s, 2>>] = request[<<s, 2>>]
    BY <2>3, <2>6 DEF Service!Request, Service!Attempt
  <2>8. CASE post[p].try = 1
    <3>1. request'[<<p, 1>>] = q /\ request'[<<p, 2>>] = request[<<p, 2>>]
      BY <2>3, <2>6, <2>8 DEF Service!Request, Service!Attempt
    <3>2. post'[p] = x => AttemptsOf(p)'
      BY <2>1, <2>4, <2>8, <3>1 DEF PostInv, AttemptsOf
    <3> QED
      BY <2>1, <2>7, <3>2, PostReplaced
  <2>9. CASE post[p].try = 2
    <3>1. request'[<<p, 2>>] = q /\ request'[<<p, 1>>] = request[<<p, 1>>]
      BY <2>3, <2>6, <2>9 DEF Service!Request, Service!Attempt
    <3>2. request[<<p, 1>>].at # "none" => q.empty
      BY <2>4 DEF PostInv, AttemptsOf
    <3>3. post'[p] = x => AttemptsOf(p)'
      BY <2>1, <2>4, <2>9, <3>1, <3>2 DEF AttemptsOf
    <3> QED
      BY <2>1, <2>7, <3>3, PostReplaced
  <2> QED
    BY <2>3, <2>8, <2>9
<1>5. ASSUME NEW r \in Service!Request, Service!Handle(r) PROVE PostInv'
  <2>1. PICK q \in RequestType : Handled(r, q)
    BY <1>5, HandlerStep
  <2>2. request'[r] = q /\ \A s \in Service!Request : s # r => request'[s] = request[s]
    BY <2>1 DEF Handled, RequestInv
  <2>3. ASSUME NEW s \in Service!Request
        PROVE  /\ request[s].at = "none" <=> request'[s].at = "none"
               /\ request'[s].empty = request[s].empty
               /\ request[s].at = "answered" => request'[s] = request[s]
    BY <2>1, <2>2 DEF Handled
  <2>4. ASSUME NEW p \in Post, NEW a \in {1, 2} PROVE <<p, a>> \in Service!Request
    BY DEF Service!Request, Service!Attempt
  <2>5. \A p \in Post : post[p].try \in {1, 2}
    BY DEF PostInv, PostType, Service!Attempt
  <2>6. ASSUME NEW p \in Post PROVE AttemptsOf(p)'
    <3>1. AttemptsOf(p) /\ UNCHANGED post
      BY <2>1 DEF PostInv, Handled
    <3> QED
      BY <2>3, <2>4, <2>5, <3>1 DEF AttemptsOf
  <2> QED
    BY <2>1, <2>6 DEF PostInv, Handled
<1> QED
  BY <1>1, <1>2, <1>3, <1>4, <1>5, StepsElsewhere, HooksFirst, ClientStep DEF Elsewhere

-----------------------------------------------------------------------------
(* The queue of notifications.                                             *)
NoticesInv == notices \in 0..QueueSize

LEMMA NoticesKept == ASSUME NoticesInv, [Next]_vars PROVE NoticesInv'
<1> USE HookAssumption DEF NoticesInv
<1>1. ASSUME NEW p \in Post, Service!Client(p) PROVE NoticesInv'
  BY <1>1 DEF Service!Client, Service!CannotConnect, Service!Send, Service!SendLost,
              Service!Answered, Service!Fails
<1>2. ASSUME NEW r \in Service!Request, Service!Handle(r) PROVE NoticesInv'
  <2>1. CASE Service!RunHook(r)
    BY <2>1 DEF Service!RunHook
  <2>2. CASE ~Service!RunHook(r)
    BY <1>2, <2>2 DEF Service!Handle, Service!Lock, Service!Admit, Service!BadRequest,
                      Service!TakeHooks, Service!AnswerEvent
  <2> QED
    BY <2>1, <2>2
<1>3. CASE OthersNotify
  BY <1>3 DEF OthersNotify, Service!OthersNotify
<1>4. CASE NodeUpdate
  BY <1>4 DEF NodeUpdate
<1>5. CASE RegisterHooks \/ StartHttpApi \/ CreateClientUpdateHook \/ Listen \/ CannotListen
  BY <1>5 DEF RegisterHooks, Service!RegisterHooks, StartHttpApi, CreateClientUpdateHook, Listen,
              CannotListen, service
<1>6. CASE AddExitFn \/ Timer \/ RegisterAgain \/ Fetched \/ Done \/ LoopDrops
  BY <1>6 DEF AddExitFn, Timer, RegisterAgain, Fetched, Done, LoopDrops, service
<1>7. CASE ExitFnReturns \/ Main \/ Tick \/ OtherExitStep \/ UNCHANGED vars
  BY <1>7 DEF ExitFnReturns, Main, Tick, OtherExitStep, vars, service
<1> QED
  BY <1>1, <1>2, <1>3, <1>4, <1>5, <1>6, <1>7
  DEF Next, Step, Boot, Loop, SendEvent, HandleRequest

-----------------------------------------------------------------------------
(* The naming client: it registers this node only when its exit function   *)
(* is there.  If Execute has found none, it does not register any more.    *)
LoopStage == {"none", "add exit function", "select", "select at the end", "register",
              "fetch", "drop", "stopped"}
Before == {"none", "add exit function"}

NamingInv ==
  /\ loop \in LoopStage /\ listed \in BOOLEAN /\ dropped \in BOOLEAN
  /\ loop \in Before => handler = << >> /\ listed = FALSE
  /\ loop \notin Before => handler = <<Drop>>
  /\ ran > 0 => dropped = TRUE
  /\ execPc \in {"send", "done"} /\ ran = 0 =>
       listed = FALSE /\ loop \notin {"select", "register"}

LEMMA OneFunction == ASSUME NEW d PROVE Append(<< >>, d) = <<d>> /\ << >> # <<d>>
OBVIOUS

LEMMA OneInAll == ASSUME NEW d, NEW h, 0 = Len(h) PROVE h # <<d>>
OBVIOUS

LEMMA NamingKept == ASSUME ExitProofs!IInv, BootInv, NamingInv, [Next]_vars PROVE NamingInv'
<1> DEFINE exits == <<handler, execPc, ran>>
<1>1. /\ ran \in Nat
      /\ execPc \in {"send", "done"} => ctxDone
      /\ ctxDone \in BOOLEAN
      /\ execPc \in {"none", "lock", "running", "send", "done"}
  BY DEF ExitProofs!IInv, ExitProofs!TypeOK, ExitProofs!MainProgress
<1> USE DEF NamingInv, LoopStage, Before
<1>2. CASE UNCHANGED <<exits, naming>>
  BY <1>2 DEF naming
<1>3. CASE RegisterHooks \/ StartHttpApi \/ Listen \/ CannotListen
  BY <1>2, <1>3 DEF RegisterHooks, StartHttpApi, Listen, CannotListen, exitVars, processVars
<1>4. CASE CreateClientUpdateHook
  <2>1. boot # << >> /\ loop' = "add exit function" /\ UNCHANGED <<exits, listed, dropped>>
    BY <1>4 DEF CreateClientUpdateHook, Boots, exitVars, processVars
  <2>2. loop = "none"
    BY <2>1 DEF BootInv
  <2> QED
    BY <2>1, <2>2
<1>5. CASE AddExitFn
  <2>1. handler = << >> /\ listed = FALSE /\ handler' = Append(handler, Drop)
        /\ UNCHANGED <<execPc, ran, listed, dropped>>
    BY <1>5 DEF AddExitFn, Exit!Add
  <2>2. handler' = <<Drop>>
    BY <2>1, OneFunction, Zenon
  <2>3. loop' = IF ctxDone THEN "select at the end" ELSE "select"
    BY <1>5 DEF AddExitFn, Selects
  <2> QED
    BY <1>1, <2>1, <2>2, <2>3
<1>6. CASE Timer
  BY <1>1, <1>6 DEF Timer, exitVars, processVars
<1>7. CASE RegisterAgain
  BY <1>1, <1>7 DEF RegisterAgain, Selects, exitVars, processVars
<1>8. CASE NodeUpdate \/ Fetched \/ Done
  BY <1>1, <1>8 DEF NodeUpdate, Fetched, Done, Selects, Selecting, exitVars, processVars
<1>9. CASE LoopDrops
  BY <1>9 DEF LoopDrops, Deregister, exitVars, processVars
<1>10. CASE ExitFnReturns
  BY <1>1, <1>10 DEF ExitFnReturns, Deregister, Exit!HandlerReturns
<1>11. CASE Main
  BY <1>1, <1>11 DEF Main, naming, Exit!Main, Exit!Receive, Exit!SetExitFlag, Exit!CancelAndSpawn,
       Exit!TimedOut, Exit!ReceiveOp, Exit!Grace, Exit!SetExited, Exit!OsExit, Exit!mainVars
<1>12. CASE Tick
  BY <1>2, <1>12 DEF Tick, naming, Exit!Tick
<1>13. CASE OtherExitStep
  <2>1. CASE \E s \in OsSignal : Exit!Deliver(s)
    BY <1>2, <1>13, <2>1 DEF OtherExitStep, Exit!Deliver
  <2>2. CASE Exit!ExecuteBegin
    BY <1>13, <2>2 DEF OtherExitStep, naming, Exit!ExecuteBegin
  <2>3. CASE Exit!ExecuteEnd
    <3>1. execPc' = "send" /\ ran = Len(handler) /\ UNCHANGED <<handler, ran, naming>>
      BY <1>13, <2>3 DEF OtherExitStep, Exit!ExecuteEnd
    <3>3. ran = 0 => handler # <<Drop>>
      BY <3>1, OneInAll, Zenon
    <3>4. ran = 0 => loop \in Before
      BY <3>3, Zenon
    <3> QED
      BY <3>1, <3>4 DEF naming
  <2> QED
    BY <1>13, <2>1, <2>2, <2>3 DEF OtherExitStep
<1>14. CASE OthersNotify \/ (\E p \in Post : SendEvent(p))
            \/ (\E r \in Service!Request : HandleRequest(r)) \/ UNCHANGED vars
  BY <1>2, <1>14 DEF OthersNotify, SendEvent, HandleRequest, vars, exitVars, processVars
<1> QED
  BY <1>3, <1>4, <1>5, <1>6, <1>7, <1>8, <1>9, <1>10, <1>11, <1>12, <1>13, <1>14
  DEF Next, Step, Boot, Loop

-----------------------------------------------------------------------------
(* All of it together.                                                     *)
IInv ==
  /\ ExitProofs!IInv
  /\ GateInv /\ BootInv /\ RequestInv /\ PostInv /\ NoticesInv /\ NamingInv

LEMMA InductiveInit == Init => IInv
<1> SUFFICES ASSUME Init PROVE IInv
  OBVIOUS
<1>1. ExitProofs!IInv
  BY ExitHandlerInit
<1>2. GateInv
  BY DEF Init, Exit!Init, GateInv
<1>3. BootInv
  BY DEF Init, Service!Init, BootInv, AppInit
<1>4. Service!NoRequest \in RequestType
  BY DEF Service!NoRequest, RequestType, Stage, Code
<1>5. request = [r \in Service!Request |-> Service!NoRequest]
  BY DEF Init, Service!Init
<1>6. RequestInv
  BY <1>4, <1>5 DEF RequestInv, Service!NoRequest, Progress
<1>7. \A p \in Post, a \in {1, 2} : request[<<p, a>>].at = "none"
  BY <1>5 DEF Service!Request, Service!Attempt, Service!NoRequest
<1>8. [at |-> "ready", try |-> 1, drained |-> FALSE] \in PostType
  BY DEF PostType, Service!Attempt
<1>9. PostInv
  BY <1>7, <1>8 DEF Init, Service!Init, PostInv, AttemptsOf
<1>10. NoticesInv
  BY HookAssumption DEF Init, Service!Init, NoticesInv
<1>11. NamingInv
  <2>1. loop = "none" /\ listed = FALSE /\ dropped = FALSE /\ handler = << >> /\ ran = 0
        /\ execPc = "none"
    BY DEF Init, Exit!Init
  <2>2. loop \in LoopStage /\ loop \in Before
    BY <2>1 DEF LoopStage, Before
  <2>3. ~(execPc \in {"send", "done"}) /\ ~(ran > 0)
    BY <2>1
  <2> QED
    BY <2>1, <2>2, <2>3, Zenon DEF NamingInv
<1> QED
  BY <1>1, <1>2, <1>3, <1>6, <1>9, <1>10, <1>11 DEF IInv

LEMMA InductiveStep == IInv /\ [Next]_vars => IInv'
BY ExitHandlerKept, GateKept, BootStep, RequestKept, PostKept, NoticesKept, NamingKept DEF IInv

LEMMA Invariance == Spec => []IInv
BY InductiveInit, InductiveStep, PTL DEF Spec

-----------------------------------------------------------------------------
(* What follows from the invariant.                                        *)
THEOREM TypeCorrect == Spec => []TypeOK
<1>1. IInv => TypeOK
  <2> SUFFICES ASSUME IInv PROVE TypeOK
    OBVIOUS
  <2>1. Exit!TypeOK
    BY SameExitHandler DEF IInv, ExitProofs!IInv
  <2>2. hooks \in [Service!Event -> Seq(Service!Hook)] /\ listening \in BOOLEAN
    BY HookTypes DEF IInv, BootInv
  <2>3. notices \in 0..QueueSize
    BY DEF IInv, NoticesInv
  <2>4. Service!TypeOK
    BY <2>2, <2>3 DEF IInv, PostInv, PostType, RequestInv, RequestType, Stage, Code,
                      Service!TypeOK
  <2>5. boot \in Seq({"service", "hooks", "loop"})
    <3> DEFINE S == Seq({"service", "hooks", "loop"})
    <3>1. <<"hooks", "service", "loop">> \in S /\ <<"service", "loop">> \in S
      OBVIOUS
    <3>2. <<"loop">> \in S /\ << >> \in S
      OBVIOUS
    <3> HIDE DEF S
    <3>3. boot \in S
      BY <3>1, <3>2, Zenon DEF IInv, BootInv
    <3> QED
      BY <3>3 DEF S
  <2> QED
    BY <2>1, <2>4, <2>5 DEF IInv, NamingInv, LoopStage, TypeOK
<1> QED
  BY <1>1, Invariance, PTL

(* An event that is posted twice, because the first attempt's answer did   *)
(* not come in time, runs its hooks once: the second has an empty body.    *)
THEOREM EventsOnce == Spec => []EventOnce
<1>1. IInv => EventOnce
  <2> SUFFICES ASSUME IInv, NEW p \in Post
               PROVE  request[<<p, 1>>].ran + request[<<p, 2>>].ran <= Len(hooks[EventOf[p]])
    BY DEF EventOnce, Service!EventOnce
  <2> DEFINE first == request[<<p, 1>>]
             second == request[<<p, 2>>]
             n == Len(hooks[EventOf[p]])
  <2>1. <<p, 1>> \in Service!Request /\ <<p, 2>> \in Service!Request
    BY DEF Service!Request, Service!Attempt
  <2>2. n \in Nat
    BY HookTypes DEF IInv, BootInv, Service!Event
  <2>3. ASSUME NEW r \in Service!Request, r[1] = p
        PROVE  LET q == request[r] IN
               /\ q.at \in Stage /\ q.ran \in Nat /\ Len(q.left) \in Nat
               /\ Progress(q, n) \/ (Progress(q, 0) /\ q.at = "none")
    BY <2>3 DEF IInv, RequestInv, RequestType, HooksOf
  <2>4. /\ first.at \in Stage /\ first.ran \in Nat /\ Len(first.left) \in Nat
        /\ Progress(first, n) \/ (Progress(first, 0) /\ first.at = "none")
    BY <2>1, <2>3
  <2>5. /\ second.at \in Stage /\ second.ran \in Nat /\ Len(second.left) \in Nat
        /\ Progress(second, n) \/ (Progress(second, 0) /\ second.at = "none")
    BY <2>1, <2>3
  <2>6. first.at # "none" => second.at = "none" \/ second.empty
    BY DEF IInv, PostInv, AttemptsOf
  <2> HIDE DEF n, first, second
  <2>7. first.ran <= n /\ second.ran <= n
    BY <2>2, <2>4, <2>5 DEF Progress, Stage
  <2>8. first.at = "none" => first.ran = 0
    BY <2>4 DEF Progress
  <2>9. second.at = "none" \/ second.empty => second.ran = 0
    BY <2>5 DEF Progress, Stage
  <2>10. first.ran + second.ran <= n
    BY <2>2, <2>4, <2>5, <2>6, <2>7, <2>8, <2>9
  <2> QED
    BY <2>10 DEF first, second, n
<1> QED
  BY <1>1, Invariance, PTL

(* A client that is answered with 200 knows that all hooks have run.       *)
THEOREM AnsweredIsHandled == Spec => []OkMeansHandled
<1>1. IInv => OkMeansHandled
  <2> SUFFICES ASSUME IInv, NEW p \in Post, post[p].at = "ok"
               PROVE  request[Service!Sending(p)].ran = Len(hooks[EventOf[p]])
    BY DEF OkMeansHandled, Service!OkMeansHandled
  <2> DEFINE r == <<p, post[p].try>>
  <2>1. r \in Service!Request /\ r[1] = p
    BY DEF IInv, PostInv, PostType, Service!Request
  <2>2. request[r].at = "answered" /\ request[r].code = 200
    BY DEF IInv, PostInv, AttemptsOf
  <2>3. Progress(request[r], Len(HooksOf(r)))
    BY <2>1, <2>2 DEF IInv, RequestInv
  <2> QED
    BY <2>1, <2>2, <2>3 DEF Progress, HooksOf, Service!Sending
<1> QED
  BY <1>1, Invariance, PTL

(* The service listens after the hooks were registered: no event that has  *)
(* a built-in hook is answered with 200 without it.                        *)
THEOREM NoEventTooEarly == Spec => []KnownEventsHandled
<1>1. IInv => KnownEventsHandled
  <2> SUFFICES ASSUME IInv, NEW r \in Service!Request,
                      EventOf[r[1]] \in DOMAIN BuiltIn, request[r].code = 200
               PROVE  request[r].ran > Len(OwnHooks[EventOf[r[1]]])
    BY DEF KnownEventsHandled, Service!KnownEventsHandled
  <2> DEFINE e == EventOf[r[1]]
             own == OwnHooks[e]
  <2>1. e \in Service!Event
    BY DEF Service!Request, Service!Event
  <2>2. own \in Seq(Service!Hook) /\ BuiltIn[e] \in Service!Hook
    BY <2>1, HookAssumption
  <2>3. request[r].at = "answered" /\ listening /\ request[r].ran = Len(hooks[e])
    <3>1. request[r].at \in Stage
      BY DEF IInv, RequestInv, RequestType
    <3>2. request[r].at # "none" => listening /\ Progress(request[r], Len(hooks[e]))
      BY DEF IInv, RequestInv, HooksOf
    <3>3. request[r].at = "none" => Progress(request[r], 0)
      BY DEF IInv, RequestInv
    <3> QED
      BY <3>1, <3>2, <3>3 DEF Progress, Stage
  <2>4. hooks = AllHooks
    <3>1. boot \in {<<"loop">>, << >>}
      BY <2>3 DEF IInv, BootInv
    <3>2. <<"loop">> # <<"hooks", "service", "loop">> /\ << >> # <<"hooks", "service", "loop">>
      OBVIOUS
    <3>3. boot # <<"hooks", "service", "loop">>
      BY <3>1, <3>2, Zenon
    <3> QED
      BY <3>3 DEF IInv, BootInv
  <2>5. hooks[e] = own \o <<BuiltIn[e]>>
    BY <2>1, <2>4 DEF AllHooks
  <2> HIDE DEF own, e
  <2>6. Len(own \o <<BuiltIn[e]>>) = Len(own) + 1 /\ Len(own) \in Nat
    <3>1. <<BuiltIn[e]>> \in Seq(Service!Hook) /\ Len(<<BuiltIn[e]>>) = 1
      BY <2>2
    <3> QED
      BY <2>2, <3>1
  <2> QED
    BY <2>3, <2>5, <2>6 DEF own, e
<1> QED
  BY <1>1, Invariance, PTL

(* At the end either Execute has run the exit function, if there was one,  *)
(* or main has waited for it as long as it is ready to.                    *)
THEOREM DeregistersOnExit == Spec => []DroppedOnExit
<1>1. IInv => DroppedOnExit
  <2> SUFFICES ASSUME IInv, exit \in OsSignal, listed PROVE dropped \/ elapsed >= ExecTimeout
    BY DEF DroppedOnExit
  <2>1. exit \in ExitProofs!Signal
    BY DEF ExitProofs!Signal
  <2>2. mainPc = "exit" /\ (execPc # "done" => elapsed >= ExecTimeout)
    BY <2>1 DEF IInv, ExitProofs!IInv, ExitProofs!Rendezvous
  <2>3. CASE execPc = "done"
    <3>1. listed # FALSE
      OBVIOUS
    <3>2. ran # 0 /\ ran \in Nat
      BY <2>3, <3>1 DEF IInv, NamingInv, ExitProofs!IInv, ExitProofs!TypeOK
    <3>3. dropped = TRUE
      BY <3>2 DEF IInv, NamingInv
    <3> QED
      BY <3>3
  <2> QED
    BY <2>2, <2>3
<1> QED
  BY <1>1, Invariance, PTL

(* The status is changed before the context is cancelled, and is never     *)
(* changed back: the gate stays shut.                                      *)
THEOREM GateStaysShut == Spec => ClosedWhenDraining
<1> DEFINE Shut ==
      \A r \in Service!Request :
         request'[r].at = "admitted" => request[r].at = "admitted" \/ ~ctxDone
<1>1. IInv /\ [Next]_vars => [Shut]_request
  <2> SUFFICES ASSUME IInv, [Next]_vars, request' # request PROVE Shut
    OBVIOUS
  <2>1. CASE RegisterHooks
    BY <2>1, HooksFirst DEF IInv
  <2>2. ASSUME NEW p \in Post, Service!Client(p) PROVE Shut
    <3>1. Service!Arrives(p)
      BY <2>2, ClientStep DEF IInv, ClientOnly
    <3> DEFINE r == Service!Sending(p)
               q == [Service!NoRequest EXCEPT !.at = "arrived", !.empty = post[p].drained]
    <3>2. r \in Service!Request /\ post[p].drained \in BOOLEAN
      BY DEF IInv, PostInv, PostType, Service!Sending, Service!Request
    <3>3. q.at = "arrived"
      BY <3>2, Arrival
    <3>4. request' = [request EXCEPT ![r] = q]
      BY <3>1 DEF Service!Arrives
    <3> HIDE DEF r, q
    <3> QED
      BY <3>2, <3>3, <3>4 DEF IInv, RequestInv
  <2>3. ASSUME NEW r \in Service!Request, Service!Handle(r) PROVE Shut
    <3>1. PICK q \in RequestType : Handled(r, q)
      BY <2>3, HandlerStep DEF IInv
    <3>2. request'[r] = q /\ \A s \in Service!Request : s # r => request'[s] = request[s]
      BY <3>1 DEF Handled, IInv, RequestInv
    <3>3. q.at = "admitted" => ~ctxDone
      BY <3>1 DEF Handled, IInv, GateInv
    <3> QED
      BY <3>2, <3>3
  <2> QED
    BY <2>1, <2>2, <2>3, StepsElsewhere DEF Elsewhere
<1> QED
  BY <1>1, Invariance, PTL DEF Spec, ClosedWhenDraining

=============================================================================
