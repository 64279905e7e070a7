---------------------------- MODULE LookupClient -----------------------------
(***************************************************************************)
(* The client of the naming service (Lookup/Lookup.go).  Three kinds of    *)
(* goroutines share the table of nodes and the load balancer's counters:   *)
(* the loop that CreateClientUpdateHook starts, which refreshes the table  *)
(* and registers the application's own nodes every second; the exit        *)
(* function it adds to the exit handler; and the application's senders.    *)
(* The naming servers, which list the nodes, keep the registrations and    *)
(* notify of changes, are modelled from the requests sent to them.         *)
(*                                                                         *)
(* A request to a node is one step, at the moment its outcome is known;    *)
(* a request without an answer may have been carried out all the same, and *)
(* a register request may be carried out even later.                       *)
(***************************************************************************)
EXTENDS LookupDS, ServiceLoadBalancer, Sequences

CONSTANTS
  Loop, ExitFn,  \* the loop's goroutine, the one that runs the exit function
  Sender,        \* goroutines that send requests to other services
  Sent,          \* the types of nodes they send to
  Own,           \* the number of nodes the application registers
  QueueSize,     \* capacity of RpcNodeUpdate (1024)
  Invalid,       \* how a reply lists a node without uid, type or api-root
  Replies,       \* what the naming servers may come to list
  AlwaysUp,      \* nodes that answer every request
  Vague,         \* naming servers that may answer a fetch with NoReply
  NoReply,       \* an answer that lists no nodes or cannot be decoded
  MaxChanges,    \* changes of the naming servers' mind, the exit included (a bound)
  MaxRequests    \* how many requests the senders make (a bound)

Caller == {Loop, ExitFn} \cup Sender
OwnNode == 1..Own

ASSUME CallerAssumption == Loop # ExitFn /\ {Loop, ExitFn} \cap Sender = {}
ASSUME ReplyAssumption ==
  /\ Replies \subseteq [Uid -> Served \cup {Absent, Invalid}]
  /\ Invalid \notin Served \cup {Absent}
  /\ NoReply \notin Table
  /\ \A reply \in Replies : \A u \in Static : reply[u] \in {Absent, Invalid}
ASSUME SentAssumption == Sent \subseteq Type
ASSUME SizeAssumption ==
  Own \in Nat /\ QueueSize \in Nat /\ MaxChanges \in Nat /\ MaxRequests \in Nat

VARIABLES
  nodes,       \* RegisterNodes.Nodes
  pc,          \* where each caller is in its request
  kind,        \* the type of node it is for
  list,        \* targetList
  start, next, \* startIdx and i
  tried,       \* the nodes tried (for the properties)
  own,         \* the index of the exitDrop and register loops, of Loop and of ExitFn
  loopPc,      \* where the loop is
  heartbeat,   \* whether it was woken by the timer
  fresh,       \* the nodes of the last reply, as currentNodeMap will hold them
  toAdd,       \* those not yet added to the table
  added,       \* exitDrop is in the exit handler's chain
  exitPc,      \* where the exit function is
  exiting,     \* AppContext is done
  updates,     \* len(RpcNodeUpdate)
  world,       \* what the naming servers list
  notices,     \* notifications on their way or waiting to be queued
  registered,  \* own nodes the naming servers hold registered
  late,        \* own nodes with a register request that got no answer
  dropped,     \* own nodes whose deregister request to Loop was answered
  changes, requests

request == <<pc, kind, list, start, next, tried, own>>
loopVars == <<loopPc, heartbeat, fresh, toAdd, added>>
server == <<world, notices, registered, late, dropped, changes>>
vars == <<nodes, counter, request, loopVars, exitPc, exiting, updates, server, requests>>

Init ==
  /\ nodes = FillLookupNodes(EmptyTable)
  /\ counter = [t \in Type |-> 0]
  /\ pc = [c \in Caller |-> "idle"]
  /\ kind = [c \in Caller |-> LookupType]
  /\ list = [c \in Caller |-> << >>]
  /\ start = [c \in Caller |-> 0]
  /\ next = [c \in Caller |-> 0]
  /\ tried = [c \in Caller |-> {}]
  /\ own = [c \in {Loop, ExitFn} |-> 1]
  /\ loopPc = "add exit function"
  /\ heartbeat = FALSE
  /\ fresh = NoReply
  /\ toAdd = {}
  /\ added = FALSE
  /\ exitPc = "none"
  /\ exiting = FALSE
  /\ updates = 0
  /\ world \in Replies
  /\ notices = 0
  /\ registered = {}
  /\ late = {}
  /\ dropped = {}
  /\ changes = 0
  /\ requests = 0

-----------------------------------------------------------------------------
(* A request, of any caller.                                               *)

(* The nodes of type t, of one uid if only is not {}, are copied.  Without *)
(* any there is no request; sendLookupHttpRequest then fills in the static *)
(* nodes, after it has taken its copy.                                     *)
Begin(c, t, only) ==
  /\ pc[c] = "idle"
  /\ \E l \in SortWithFilter(nodes, [exclude |-> {}, include |-> only], OnlyThe(t)) :
       /\ list' = [list EXCEPT ![c] = l]
       /\ pc' = [pc EXCEPT ![c] = IF l = << >> THEN "failed" ELSE "listed"]
       /\ nodes' = IF l = << >> /\ c \notin Sender THEN FillLookupNodes(nodes) ELSE nodes
  /\ kind' = [kind EXCEPT ![c] = t]
  /\ tried' = [tried EXCEPT ![c] = {}]
  /\ UNCHANGED <<counter, start, next, own>>

GetNextIndex(c) ==
  LET n == Len(list[c]) IN
  /\ pc[c] = "listed"
  /\ start' = [start EXCEPT ![c] = NextIndex(counter[kind[c]], n)]
  /\ counter' = [counter EXCEPT ![kind[c]] = CounterAfter(@, n)]
  /\ next' = [next EXCEPT ![c] = 0]
  /\ pc' = [pc EXCEPT ![c] = "trying"]
  /\ UNCHANGED <<nodes, kind, list, tried, own, loopVars, exitPc, exiting, updates,
                 server, requests>>

TargetNotWrapped(c) == \* mutant: stays at the end of the list
  LET idx == start[c] + next[c] IN
  list[c][(IF idx < Len(list[c]) THEN idx ELSE Len(list[c]) - 1) + 1]

Target(c) == list[c][((start[c] + next[c]) % Len(list[c])) + 1]

(* What the request of Loop or ExitFn to a naming server is about.         *)
Registers(c) == c = Loop /\ loopPc = "register"
Deregisters(c) == (c = Loop /\ loopPc = "drop") \/ (c = ExitFn /\ exitPc = "drop")
Fetches(c) == c = Loop /\ loopPc = "fetch"

CarriedOut(c) ==
  IF Registers(c) THEN registered \cup {own[c]}
  ELSE IF Deregisters(c) THEN registered \ {own[c]}
  ELSE registered

Listed(reply) == [u \in Uid |-> IF reply[u] \in Served THEN reply[u] ELSE Absent]

Answered(c) ==
  /\ pc[c] = "trying"
  /\ pc' = [pc EXCEPT ![c] = "ok"]
  /\ tried' = [tried EXCEPT ![c] = @ \cup {Target(c)}]
  /\ registered' = CarriedOut(c)
  /\ dropped' = IF c = Loop /\ Deregisters(c) THEN dropped \cup {own[c]} ELSE dropped
  /\ IF Fetches(c)
     THEN \/ fresh' = Listed(world)
          \/ Target(c) \in Vague /\ fresh' = NoReply
     ELSE UNCHANGED fresh
  /\ UNCHANGED <<nodes, counter, kind, list, start, next, own, loopPc, heartbeat, toAdd,
                 added, exitPc, exiting, updates, world, notices, late, changes, requests>>

(* No answer after a retry, or a status other than 200: the node is erased *)
(* from the table, whatever has become of it there, and the next one on    *)
(* the list is tried.                                                      *)
FailedErasingAll(c) == \* mutant: a static node is erased, the last one too
  /\ pc[c] = "trying"
  /\ Target(c) \notin AlwaysUp
  /\ tried' = [tried EXCEPT ![c] = @ \cup {Target(c)}]
  /\ next' = [next EXCEPT ![c] = @ + 1]
  /\ pc' = [pc EXCEPT ![c] = IF next[c] < Len(list[c]) - 1 THEN "trying" ELSE "failed"]
  /\ nodes' = Erase(nodes, {Target(c)})
  /\ registered' \in {registered, CarriedOut(c)}
  /\ late' = IF Registers(c) THEN late \cup {own[c]} ELSE late
  /\ UNCHANGED <<counter, kind, list, start, own, loopVars, exitPc, exiting, updates,
                 world, notices, dropped, changes, requests>>

Failed(c) ==
  LET last == next[c] = Len(list[c]) - 1 IN
  /\ pc[c] = "trying"
  /\ Target(c) \notin AlwaysUp
  /\ tried' = [tried EXCEPT ![c] = @ \cup {Target(c)}]
  /\ next' = [next EXCEPT ![c] = @ + 1]
  /\ pc' = [pc EXCEPT ![c] = IF last THEN "failed" ELSE "trying"]
  /\ nodes' = IF Target(c) \in Static \/ last THEN nodes ELSE Erase(nodes, {Target(c)})
  /\ registered' \in {registered, CarriedOut(c)}
  /\ late' = IF Registers(c) THEN late \cup {own[c]} ELSE late
  /\ UNCHANGED <<counter, kind, list, start, own, loopVars, exitPc, exiting, updates,
                 world, notices, dropped, changes, requests>>

Over(c) == pc[c] \in {"ok", "failed"}

(* The caller has its result; the request's variables go out of scope.     *)
Taken(c) ==
  /\ Over(c)
  /\ pc' = [pc EXCEPT ![c] = "idle"]
  /\ list' = [list EXCEPT ![c] = << >>]
  /\ start' = [start EXCEPT ![c] = 0]
  /\ next' = [next EXCEPT ![c] = 0]
  /\ tried' = [tried EXCEPT ![c] = {}]
  /\ UNCHANGED <<nodes, counter, kind>>

-----------------------------------------------------------------------------
(* The loop.                                                               *)
AddExitFn ==
  /\ loopPc = "add exit function"
  /\ added' = TRUE
  /\ loopPc' = "select"
  /\ UNCHANGED <<nodes, counter, request, heartbeat, fresh, toAdd, exitPc, exiting, updates,
                 server, requests>>

(* The timer is made anew in every round: this is a round of one second    *)
(* without a notification.                                                 *)
Timer ==
  /\ loopPc = "select"
  /\ heartbeat' = TRUE
  /\ loopPc' = "fetch"
  /\ UNCHANGED <<nodes, counter, request, fresh, toAdd, added, exitPc, exiting, updates,
                 server, requests>>

NodeUpdate ==
  /\ loopPc = "select"
  /\ updates > 0
  /\ updates' = updates - 1
  /\ heartbeat' = FALSE
  /\ loopPc' = "fetch"
  /\ UNCHANGED <<nodes, counter, request, fresh, toAdd, added, exitPc, exiting, server,
                 requests>>

Done ==
  /\ loopPc = "select"
  /\ exiting
  /\ loopPc' = "drop"
  /\ own' = [own EXCEPT ![Loop] = 1]
  /\ UNCHANGED <<nodes, counter, pc, kind, list, start, next, tried, heartbeat, fresh,
                 toAdd, added, exitPc, exiting, updates, server, requests>>

BeginOfLoop ==
  /\ \/ loopPc = "fetch"
     \/ loopPc \in {"register", "drop"} /\ own[Loop] <= Own
  /\ Begin(Loop, LookupType, {})
  /\ UNCHANGED <<loopVars, exitPc, exiting, updates, server, requests>>

AfterRefreshInverted == \* mutant: it is a notification that registers
  IF heartbeat THEN "select" ELSE "register"

AfterRefresh == IF heartbeat THEN "register" ELSE "select"

FetchFails ==
  /\ loopPc = "fetch"
  /\ Taken(Loop)
  /\ pc[Loop] = "failed" \/ fresh = NoReply
  /\ loopPc' = AfterRefresh
  /\ own' = [own EXCEPT ![Loop] = 1]
  /\ fresh' = NoReply
  /\ UNCHANGED <<heartbeat, toAdd, added, exitPc, exiting, updates, server, requests>>

FetchedAnew == \* mutant: the table is built anew from the reply
  /\ loopPc = "fetch"
  /\ Over(Loop)
  /\ pc[Loop] = "ok" /\ fresh # NoReply
  /\ pc' = [pc EXCEPT ![Loop] = "idle"]
  /\ list' = [list EXCEPT ![Loop] = << >>]
  /\ tried' = [tried EXCEPT ![Loop] = {}]
  /\ nodes' = EmptyTable
  /\ toAdd' = Present(fresh)
  /\ loopPc' = "refresh"
  /\ start' = [start EXCEPT ![Loop] = 0]
  /\ next' = [next EXCEPT ![Loop] = 0]
  /\ UNCHANGED <<counter, kind, own, heartbeat, fresh, added, exitPc, exiting,
                 updates, server, requests>>

Fetched ==
  /\ loopPc = "fetch"
  /\ Taken(Loop)
  /\ pc[Loop] = "ok" /\ fresh # NoReply
  /\ toAdd' = Present(fresh)
  /\ loopPc' = "refresh"
  /\ UNCHANGED <<own, heartbeat, fresh, added, exitPc, exiting, updates, server, requests>>

(* The nodes of the reply are added in any order, each under the lock.     *)
AddNode(u) ==
  /\ loopPc = "refresh"
  /\ u \in toAdd
  /\ nodes' = Add(nodes, u, fresh[u])
  /\ toAdd' = toAdd \ {u}
  /\ UNCHANGED <<counter, request, loopPc, heartbeat, fresh, added, exitPc, exiting,
                 updates, server, requests>>

EraseExpiredNever == \* mutant: what the reply no longer lists stays
  /\ loopPc = "refresh"
  /\ toAdd = {}
  /\ loopPc' = AfterRefresh
  /\ own' = [own EXCEPT ![Loop] = 1]
  /\ fresh' = NoReply
  /\ UNCHANGED <<nodes, counter, pc, kind, list, start, next, tried, heartbeat, toAdd,
                 added, exitPc, exiting, updates, server, requests>>

EraseExpired ==
  /\ loopPc = "refresh"
  /\ toAdd = {}
  /\ nodes' = Erase(nodes, {u \in Present(nodes) : ~Equal(fresh, u, nodes[u])})
  /\ loopPc' = AfterRefresh
  /\ own' = [own EXCEPT ![Loop] = 1]
  /\ fresh' = NoReply
  /\ UNCHANGED <<counter, pc, kind, list, start, next, tried, heartbeat, toAdd, added,
                 exitPc, exiting, updates, server, requests>>

(* Whether a register or deregister request succeeded makes no difference. *)
OwnNodeSent ==
  /\ loopPc \in {"register", "drop"}
  /\ Taken(Loop)
  /\ own' = [own EXCEPT ![Loop] = @ + 1]
  /\ UNCHANGED <<loopVars, exitPc, exiting, updates, server, requests>>

RegisterEnds ==
  /\ loopPc = "register"
  /\ own[Loop] > Own
  /\ loopPc' = "select"
  /\ UNCHANGED <<nodes, counter, request, heartbeat, fresh, toAdd, added, exitPc, exiting,
                 updates, server, requests>>

DropEndsTheRound == \* mutant: the loop goes on after the drop
  /\ loopPc = "drop"
  /\ own[Loop] > Own
  /\ loopPc' = "select"
  /\ UNCHANGED <<nodes, counter, request, heartbeat, fresh, toAdd, added, exitPc, exiting,
                 updates, server, requests>>

DropEnds ==
  /\ loopPc = "drop"
  /\ own[Loop] > Own
  /\ loopPc' = "stopped"
  /\ UNCHANGED <<nodes, counter, request, heartbeat, fresh, toAdd, added, exitPc, exiting,
                 updates, server, requests>>

-----------------------------------------------------------------------------
(* The exit function runs once, if it was added before the exit handler    *)
(* took its list.                                                          *)
RunExitFn ==
  /\ exiting /\ exitPc = "none"
  /\ exitPc' = IF added THEN "drop" ELSE "done"
  /\ UNCHANGED <<nodes, counter, request, loopVars, exiting, updates, server, requests>>

BeginOfExitFn ==
  /\ exitPc = "drop"
  /\ own[ExitFn] <= Own
  /\ Begin(ExitFn, LookupType, {})
  /\ UNCHANGED <<loopVars, exitPc, exiting, updates, server, requests>>

ExitFnSent ==
  /\ exitPc = "drop"
  /\ Taken(ExitFn)
  /\ own' = [own EXCEPT ![ExitFn] = @ + 1]
  /\ UNCHANGED <<loopVars, exitPc, exiting, updates, server, requests>>

ExitFnEnds ==
  /\ exitPc = "drop"
  /\ own[ExitFn] > Own
  /\ exitPc' = "done"
  /\ UNCHANGED <<nodes, counter, request, loopVars, exiting, updates, server, requests>>

-----------------------------------------------------------------------------
(* SendServiceHttpRequest (only = {}) and SendServiceHttpRequestToUid.     *)
Send(c, t, only) ==
  /\ requests < MaxRequests
  /\ Begin(c, t, only)
  /\ requests' = requests + 1
  /\ UNCHANGED <<loopVars, exitPc, exiting, updates, server>>

SenderDone(c) ==
  /\ Taken(c)
  /\ UNCHANGED <<own, loopVars, exitPc, exiting, updates, server, requests>>

-----------------------------------------------------------------------------
(* The naming servers, and the notification of a change: its handler waits *)
(* while the queue is full.  Notifications may be lost on their way.       *)
Change ==
  /\ changes < MaxChanges
  /\ world' \in Replies \ {world}
  /\ notices' = notices + 1
  /\ changes' = changes + 1
  /\ UNCHANGED <<nodes, counter, request, loopVars, exitPc, exiting, updates, registered,
                 late, dropped, requests>>

RpcNodeUpdated ==
  /\ notices > 0
  /\ updates < QueueSize
  /\ updates' = updates + 1
  /\ notices' = notices - 1
  /\ UNCHANGED <<nodes, counter, request, loopVars, exitPc, exiting, world, registered,
                 late, dropped, changes, requests>>

LoseNotice ==
  /\ notices > 0
  /\ notices' = notices - 1
  /\ UNCHANGED <<nodes, counter, request, loopVars, exitPc, exiting, updates, world,
                 registered, late, dropped, changes, requests>>

Forget(k) ==
  /\ k \in registered
  /\ changes < MaxChanges
  /\ registered' = registered \ {k}
  /\ changes' = changes + 1
  /\ UNCHANGED <<nodes, counter, request, loopVars, exitPc, exiting, updates, world,
                 notices, late, dropped, requests>>

RegisterLate(k) ==
  /\ k \in late
  /\ registered' = registered \cup {k}
  /\ UNCHANGED <<nodes, counter, request, loopVars, exitPc, exiting, updates, world,
                 notices, late, dropped, changes, requests>>

(* SetExitFlag of the exit handler; it counts as a change, for the bound.  *)
SetExitFlag ==
  /\ ~exiting
  /\ changes < MaxChanges
  /\ exiting' = TRUE
  /\ changes' = changes + 1
  /\ UNCHANGED <<nodes, counter, request, loopVars, exitPc, updates, world, notices,
                 registered, late, dropped, requests>>

-----------------------------------------------------------------------------
RequestStep(c) == GetNextIndex(c) \/ Answered(c) \/ Failed(c)

LoopStep ==
  \/ AddExitFn \/ Timer \/ NodeUpdate \/ Done
  \/ BeginOfLoop \/ RequestStep(Loop)
  \/ FetchFails \/ Fetched \/ (\E u \in Uid : AddNode(u)) \/ EraseExpired
  \/ OwnNodeSent \/ RegisterEnds \/ DropEnds

ExitFnStep == RunExitFn \/ BeginOfExitFn \/ RequestStep(ExitFn) \/ ExitFnSent \/ ExitFnEnds

SenderStep(c) == RequestStep(c) \/ SenderDone(c)

ServerStep ==
  \/ Change \/ RpcNodeUpdated \/ LoseNotice
  \/ \E k \in OwnNode : Forget(k) \/ RegisterLate(k)

(* The loop and the exit function are done: the process is about to end.   *)
Stopped ==
  /\ loopPc = "stopped" /\ exitPc = "done"
  /\ \A c \in Sender : pc[c] = "idle"
  /\ UNCHANGED vars

Next ==
  \/ LoopStep
  \/ ExitFnStep
  \/ \E c \in Sender : \/ SenderStep(c)
                       \/ \E t \in Sent : \E only \in {{}} \cup {{u} : u \in Uid} : Send(c, t, only)
  \/ ServerStep
  \/ SetExitFlag
  \/ Stopped

Spec == Init /\ [][Next]_vars

(* Requests come to an end (HttpClient gives https requests ten seconds,   *)
(* twice), so every goroutine goes on; of the ready cases of a select any  *)
(* may be taken, but Done, once ready, not passed over for ever.  Nothing  *)
(* is assumed of Timer while there are notifications.                      *)
FairSpec ==
  /\ Spec
  /\ WF_vars(LoopStep)
  /\ SF_vars(Done)
  /\ WF_vars(ExitFnStep)
  /\ \A c \in Sender : WF_vars(SenderStep(c))

-----------------------------------------------------------------------------
TypeOK ==
  /\ nodes \in Table
  /\ counter \in [Type -> Nat]
  /\ pc \in [Caller -> {"idle", "listed", "trying", "ok", "failed"}]
  /\ kind \in [Caller -> Type]
  /\ list \in [Caller -> Seq(Uid)]
  /\ start \in [Caller -> Nat] /\ next \in [Caller -> Nat]
  /\ tried \in [Caller -> SUBSET Uid]
  /\ own \in [{Loop, ExitFn} -> 1..Own+1]
  /\ loopPc \in {"add exit function", "select", "fetch", "refresh", "register", "drop",
                 "stopped"}
  /\ heartbeat \in BOOLEAN
  /\ fresh \in Table \cup {NoReply}
  /\ toAdd \subseteq Uid
  /\ added \in BOOLEAN
  /\ exitPc \in {"none", "drop", "done"}
  /\ exiting \in BOOLEAN
  /\ updates \in 0..QueueSize
  /\ world \in Replies
  /\ notices \in Nat
  /\ registered \subseteq OwnNode /\ late \subseteq OwnNode /\ dropped \subseteq OwnNode
  /\ changes \in 0..MaxChanges /\ requests \in 0..MaxRequests

(* A request that found nodes fails only after each of them was tried,     *)
(* whichever was tried first.                                              *)
AllTried ==
  \A c \in Caller :
    pc[c] = "failed" => tried[c] = {list[c][i] : i \in DOMAIN list[c]}

(* Once a naming server has answered the loop's deregister request, the    *)
(* node is registered again only by a register request that was sent       *)
(* before and never answered: no heartbeat undoes the drop.                *)
DropIsFinal == dropped \cap registered \subseteq late

(* A node that answers whenever it is asked, and that every reply lists    *)
(* with the same naming server, never leaves the table once it is in it,   *)
(* neither during a refresh nor because other nodes fail.                  *)
Stable ==
  {u \in AlwaysUp \ Static :
     \E s \in Served : \A reply \in Replies : reply[u] = s}
StableNodesStay ==
  [][\A u \in Stable : u \in Present(nodes) => u \in Present(nodes')]_nodes

(* While only the loop sends requests to the naming servers, the table     *)
(* always holds one: neither a refresh nor a naming server that does not   *)
(* answer takes away the last.  (When exiting, the exit function and the   *)
(* loop may each erase one that the other relies on.)                      *)
RepliesNameOne ==
  \A reply \in Replies : \E u \in Uid : TypeOf[u] = LookupType /\ reply[u] \in Served
NamingServerLeft ==
  RepliesNameOne /\ LookupType \notin Sent /\ Static # {} =>
    exiting \/ \E u \in Present(nodes) : TypeOf[u] = LookupType

(* The message at Lookup.go:200, "cant not find any Lookup node using      *)
(* static Lookup fill": a request for the naming servers that finds none   *)
(* is sent to the static ones.                                             *)
StaticFallback ==
  \A c \in Caller \ Sender : pc[c] = "failed" /\ list[c] = << >> => Static \subseteq tried[c]

(* A node the naming servers do not hold registered, because the loop just *)
(* began or because they forgot it, is registered by a heartbeat.          *)
StaysRegistered ==
  \A k \in OwnNode : k \notin registered ~> exiting \/ k \in registered

(* The table comes to mirror what the naming servers list, though senders  *)
(* and failing naming servers have nodes erased, and replies and           *)
(* notifications are lost.                                                 *)
Mirrored == \A u \in Uid : nodes[u] = Listed(world)[u]
TableConverges == []<>(exiting \/ Mirrored)

(* The loop sees the end of the application and stops.                     *)
LoopStops == exiting ~> loopPc = "stopped"
=============================================================================
