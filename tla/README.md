# appcommon: a TLA+ model

`appcommon` is the library a family of Go services is built from: graceful
shutdown, the client of a naming service with its load balancing, an HTTP
service, a buffered and rotated log, and some utilities. What it gets wrong, if
anything, it gets wrong in the way its goroutines meet: the shutdown that races
with the registration heartbeat, the flush that races with the rotation, the
profiling server that is stopped by the timer of an earlier one. This directory
models these parts, checks them with TLC on small instances, and proves what
matters most for every instance with TLAPS.

To check a run: `tlc -config MCLogWriter.cfg MCLogWriter`. To check the proofs:
`tlapm ExitHandlerProofs.tla`.

## 1. The system

### Components

| component | source | state | operations |
|---|---|---|---|
| exit handler | `ExitHandler/ExitHandler.go` | status, context, list of exit functions under a lock, signal channel of capacity 1, `exitProcessing` | `Exit`, `Add`, `Execute`, `SetExitFlag`, the goroutine `sigCallback` |
| service load balancer | `Lookup/Lookup.go:27-48` | a counter per service type | `getNextIndex` |
| naming client | `Lookup/Lookup.go` | the node table, the queue of notifications | the refresh and registration loop, `exitDrop`, the senders, `RpcNodeUpdated`, HTTP callbacks |
| node table | `Lookup/LookupDS/LookupDS.go` | map from uid to node, under a lock | `Add`, `Erase`, `Equal`, `Sort`, `SortWithFilter`, `FillLookupNodes` |
| event hooks | `Lookup/LookupHook/LookupHook.go` | map from event to functions | `RegisterHook`, `EventRequest` |
| log writer | `Log/LogImpl.go:1-219` | buffer, file handle, `flushForce`, two channels | `Write`, `autoFlush`, rotation, `ForceFlush`, `CloseOutput` |
| log archive | `Log/LogImpl.go:221-331` | the log directory | `moveOldLogFiles`, `cleanOldLogFiles` |
| HTTP service | `ApiService/*.go` | path map, the `running` gate | the mux, `StartHttpApi` |
| HTTP clients | `HttpClient/**` | none | post, with one retry; 10 seconds for HTTPS, no limit for HTTP |
| pprof server | `Utility/Perf/PerfProfile.go` | the server, under a lock not always taken | `start`, `stop`, `check` |
| stack dump | `Utility/Stack/AppStack.go` | the time of the last dump | `DumpAppStack` |
| timer queue | `STL/PriorityQueueEx.go` | heap, the index kept in each item, map by key, under a lock | `Push`, `Update`, `Pop`, `Remove` |
| key tree | `STL/KeyTree.go` | a 16-ary tree, without a lock | `AddNode`, `GetNode` |
| Redis cluster | `RedisCluster/**` | the client handle | `ClusterInit`, `Init` |
| UUID, arguments, JSON, constants, log levels, protocol types | the remaining files | none worth a model | |
| bootstrap | `AppBoot.go` | none | `AppInit` wires all of the above, in an order that matters |

### How they interact

* `AppBoot.AppInit` registers hooks, starts the HTTP service, and then the
  naming client's loop. A notification arrives as an HTTP event, runs the hook
  and is queued by `RpcNodeUpdated`; the loop takes it and refreshes the table.
* The loop and the application's senders share the node table and the load
  balancer. A sender that gets no answer from a node erases it from the table
  which the loop is refreshing.
* The loop gives `exitDrop` to the exit handler, and runs it itself when the
  application context is done: every application deregisters twice, from two
  goroutines, while a heartbeat may still be under way.
* The exit handler cancels the context, runs the exit functions with a timeout,
  closes the log output, dumps the stack and ends the process.
* The log writer and the archive share a directory and an idea of file names.

### What is hard, and what must hold

* **Shutdown.** Exit functions that hang, callers of `Exit` that pile up, a
  timeout that races with the functions it waits for. It must always end, must
  give the application its time to drain, and skip no function it reports done.
* **Naming client.** Concurrent refresh and erasure; lost requests, replies and
  notifications; registration against deregistration. The table must converge,
  must never be left without a naming server, and must keep the nodes that
  answer; a forgotten node must be registered again; a drop must be final;
  failover must try every node it has; load must be spread in turns.
* **Log.** One buffer, two writers, two goroutines that close the file. No line
  may be lost, doubled or reordered; no file may leak; the log must follow the
  date. The archive must not remove what is recent, though the day changes during a pass.
* **pprof server.** One variable, and two goroutines per server that outlive it.
* **Events.** A peer posts an event, tries again when it hears nothing, and never
  learns whether the first attempt arrived. No hook may run twice, no answer may
  come before the hooks have run, no event before its hook is registered, none
  after the application began to drain; and a hook that waits for room in the
  queue of notifications must not wait for good.
* **Timer queue.** `Update` and `Remove` trust the index in the item, which the
  heap's swaps must keep right through any sequence of calls; the deadline is cut
  off before the lock is taken, and the clock may be set back.
* **Key tree.** An addition that fails half-way leaves nodes behind, and a look-up
  that walks over them must not take them for entries.

`PROJECT.json` lists these hazards one by one, at their lines.

## 2. The modules

| module | models | state and actions |
|---|---|---|
| `Shutdown` | what graceful shutdown promises, abstractly | phase, cause, the functions registered and completed |
| `ExitHandler` | `ExitHandler.go` | `mainPc`, `execPc` and `callPc` say where `sigCallback`, `Execute` and each caller of `Exit` are; one action per channel operation, lock, timer or status change |
| `ServiceLoadBalancer` | `getNextIndex` | the counter of each service type; two operators: the index handed out, the counter left behind |
| `RoundRobin` | the load balancer under a history of requests and list changes; extends `ServiceLoadBalancer` | for each requester the length of the copy it has taken: `SendServiceHttpRequest` (any node) and `SendServiceHttpRequestToUid` (one node) copy, `TakeTurn` asks for the index, later; `Resize` |
| `LookupDS` | the node table's methods | operators on its value, as each takes the lock once |
| `LookupClient` | the naming client; extends `ServiceLoadBalancer` and `LookupDS` | the stages of a request (copy the list, take the index, try, answer or fail) for each of its callers; the loop; the exit function; the naming servers |
| `LineLog` | what the log writer promises, abstractly | the lines that wait, the files, the console, the lines lost or left unwritten; lines leave in blocks, of which a failed write leaves out the end |
| `LogWriter` | the log writer | `Write` in the two forms; `autoFlush` as `flPc`; a write in two steps, handle read and then used, of which the second may fail part-way; `Close` in two; the rotation as `rotPc` |
| `LogArchive` | the archive's two passes | one action per directory entry; the clock runs in between |
| `PerfProfile` | the pprof server | for each server its serving and its timing goroutine |
| `EventService` | an event on its way: the client with its retry, the mux and its gate, the event callback, the hooks | `post`: where each call of `PostHx` is; `request`: where the handler of each attempt is; `hooks`; `notices`, the length of the naming client's queue |
| `Application` | a whole application: `ExitHandler` and `EventService` by `INSTANCE`, `AppInit` as what is left of it (`boot`), the naming client's loop reduced to its select and its register and deregister requests | every step of the two instances, the start, the loop, and the exit function that deregisters |
| `Timers` | what the timer queue promises, abstractly | a deadline for each pending timer |
| `TimerQueue` | `PriorityQueueEx.go` with the `container/heap` it uses | heap, index, map; `Push` in two steps, as it limits the deadline before it takes the lock; every swap a step of its own while the lock is held |
| `PrefixTable` | what the key tree promises, abstractly | a table of entries, answered by longest prefix |
| `KeyTree` | `KeyTree.go` | a node is the path that leads to it; each iteration of the two loops is a step |

`Application` is where the parts meet: the gate of `EventService` reads the status
`ExitHandler` keeps, the hook fills the queue the loop empties, the loop adds the
exit function that `Execute` runs.

`MCx` instantiates `x` for TLC; `xProofs` holds its theorems, and `LookupProofs`
those of `RoundRobin` and `LookupClient`, which count with the same counter. Definitions marked
"mutant" are broken variants of the definition that follows them: used in its
place, each makes the property it is listed with in `PROJECT.json` fail.

What the modules abstract from:

* Steps are atomic where the code holds a lock or touches no shared state, and
  split where it does: `writeFile` reads the handle and writes later, `Close`
  closes and then clears the variable, main receives, sets a status, cancels the
  context, each in a step of its own.
* Time passes in seconds (hours for the pprof server) only where a timer is
  running, and a timer that expired may be noticed late.
* A node is its uid and the naming server that serves it; its type follows from
  the uid. A request to a node is one step, when its outcome is known. A request
  that fails may have been carried out, a register request even later.
* A request of the naming client's loop copies the list and, when it is empty, fills
  in all static nodes in one step (`Begin`); the code takes the lock for each of
  them (`LookupDS.go:189-198`), so a sender might see a part of them.
* A log line is its number, a log file its day. Opening a file and writing to one
  fail when the bound on failures allows it, as do the archive's calls. The result
  of a write is ignored (`LogImpl.go:154`): the lines after those that were
  written are `unwritten`, and a line that was cut counts as one of them. A
  directory that cannot be listed to its end is taken for as much as was read, and
  `RemoveAll` may fail with some of the files gone. A directory of the archive is
  a set of days: that `os.Rename` (270) replaces a file of the same name, which is
  there when the application has logged to that day's file again, is not seen.
* A pprof server that listens does so until it is closed: that `ListenAndServe` may
  fail of itself later (`PerfProfile.go:55-57`) is left out. In `Application` the
  service may fail to listen, which ends the process; that it may fail later, which
  ends it as well (`AppService.go:68-71`), is left out.
* An event is a name, its body empty or not: a body that a broken connection cut
  off is no JSON either, and is refused like an empty one. Requests of others than
  the posts followed appear as `OthersNotify`, which fills the queue.
* In `Application` the lookups and replies of the naming client are left out
  (`LookupClient` has them): a register or deregister request is one step that may
  or may not change the naming servers' list.
* `TimerQueue` has one item per key, as the map allows no more in use; that an
  item is returned as a pointer and may be looked at without the lock is left out,
  as are `Get`, `Exist` and `Len`, which only read, and a second `Init`.
* In `KeyTree` an entry whose data is nil is no entry, and neither is one for the
  empty key: the code takes the root, at which the search starts, for "nothing
  found". A key with a character that is no digit may be answered or refused,
  depending on whether the walk gets that far, hence also on nodes that a failed
  addition has left; `PrefixTable` allows both, and nothing else depends on them.
* Printing, formatting, JSON and HTTP headers are left out.

## 3. The runs

Safety and liveness are checked in one run wherever the state space allows it.

| run | instance | shows |
|---|---|---|
| `exit` | 1 OS signal, 3 callers of `Exit`, 2 exit functions, timers of 1, 2 and 5 | `NoneSkipped`, `OrderlyExit`, `CallersAccountedFor`, `StatusGoesForward`, `ShutdownEnds`; `PromiseKept`: the refinement of `Shutdown`, with its liveness |
| `balance` | 2 types, 2 requesters, up to 3 nodes, counts up to 2 | `StrictTurns`: strict turns among requests with lists of one length, whatever happens to the other type; another length makes them start anew |
| `lookup` | 4 nodes: a static and a dynamic naming server, the latter always answering, 2 service nodes that may fail; 1 sender with 2 requests; 2 changes, the end of the application among them | `DropIsFinal`, `NamingServerLeft`, `AllTried`, `StableNodesStay` |
| `lookup_live` | 5 nodes: a static and a dynamic naming server that answer, a third that may fail, 2 service nodes that may fail; 1 sender with 1 request; 1 change, or the end of the application | `StaysRegistered`, `TableConverges`, `LoopStops` |
| `lookup_static` | naming servers that list none of their kind | `StaticFallback` fails: finding 1 |
| `log` | 2 lines and `autoFlush`'s own, buffer of 2, queue of 1, 1 midnight, 1 failure to open or to write, 1 forced flush after the initial one | `EachLineOnce`, `InOrder`, `NoFileLeaked`, `LinesLeaveBuffer`, `FollowsTheDay`, `CloseStops`; `PromiseKept`: the refinement of `LineLog` |
| `archive` | 4 days, today and the 2 before it and tomorrow; 1 day kept; 1 failure | `FiledByDay`, `KeptLongEnough`, `TodayStays` |
| `archive_names` | the same, without failures | `OldFilesArchived` fails: finding 2 |
| `pprof` | 3 servers, 2 addresses, a lifetime of 1 | `LostOnlyToEarlier`, `FirstIsClosed` |
| `timers` | 4 timers, deadlines 0, 1 and far away, a longest timer of 1, a clock of 0 and 1 that may be set back, 1 caller of `Push` | `IndexIsPlace`, `HeapOrdered`, `WithinReach`; `TimersKept`: the refinement of `Timers` |
| `keys` | keys of up to 3 of the bytes `9`, `A`, `a`, `g`, 2 data, 2 additions | `TreeIsWhole`; `LongestPrefix`: the refinement of `PrefixTable` |
| `app` | 1 post of an event that notifies, with its 2 attempts; 1 OS signal; a queue of 1; no grace and a timeout of 1 | `EventOnce`, `OkMeansHandled`, `KnownEventsHandled`, `DroppedOnExit`, `ClosedWhenDraining`, `AdmittedAnswered` |

Every module with actions has a type invariant, and each is proved
(`Application`'s includes that of `EventService`); TLC also checks those of
`LogArchive` and `PerfProfile`, in `archive` and `pprof`. Deadlock is checked in all runs; where
the system stops, it does so by an explicit stuttering action (`Ended`, `Stopped`,
or the last disjunct of `Application`'s `Next`).

### Why the bounds are enough

* *exit*: three callers of `Exit` are one whose signal main takes, one whose
  signal fills the channel, and one that waits, and the OS signal can take the
  place of either. With two exit functions one can be added before and one
  during a shutdown. The proofs drop all of these bounds.
* *balance*: lists of one, two and three nodes, every change between them, and a
  requester whose copy is from before a change, beside one with a new copy. The
  theorem drops the bounds on lists, types and requesters.
* *lookup*: two service nodes that may both fail are what failover needs, two
  requests let it start at either. The static naming server is what the table
  begins with, the dynamic one what it is refreshed to. Replies list a node with
  another server or as invalid; one change separates the reply that is being
  worked on from the next, and the other ends the application. A queue of one is
  full at once.
* *lookup_live*: the sender's list has two nodes, so it erases the one it tries
  first when that fails, while the loop is refreshing; the third naming server
  fails requests to fetch, whose replies are lost with them, and is erased. The
  change may lose its notification, and may add or remove a node.
* *log*: two lines fill the buffer, the third finds it full. One midnight and one
  failure, to open the day's file or to write a part of a block, each meet every
  stage of a write, a flush and the end of the writer.
* *archive*: the days are kept, just kept, just too old, and not yet there; the one
  failure may be that of any call in a pass. The proofs drop these bounds.
* *pprof*: the third server is reached by what two earlier ones left behind.
* *timers*: with four items the heap has a place two levels below its root, an
  item with two below it, and one with one; an item that takes the place of a
  removed one may have to rise or to sink. Deadlines before, at and beyond the
  longest timer, and a clock that moves once in either direction. The proofs drop
  all of these bounds.
* *keys*: `a` and `A` are one digit and `g` is none; keys longer than the tree is
  deep are refused; two additions meet as prefix and extension, as twins, as
  replacement and as removal (nil data), with either failing half-way.
* *app*: one post is two handlers that run at the same time; the queue is full
  after one notification, whether its own or another's; hooks are the
  application's own and the built-in one. Grace and timeout matter by their order
  only. Main receives one signal. The proofs drop the bounds on posts, events,
  hooks, queue and timers.

### Fairness

* `ExitHandler`: main, the clock, and a caller of `Exit` whose send can proceed
  go on. Nothing is assumed of `Execute`, which runs application code. The send
  needs no strong fairness, as nobody but main receives, once.
* `LookupClient`: the goroutines go on because requests end: an HTTPS request
  times out after ten seconds and is made at most twice (`H2Client.go`). For
  HTTP nodes the code sets no limit, and the liveness properties do not apply.
  `Done` has strong fairness because Go's `select` chooses among ready cases at
  random. The timer has none while notifications come: it is made anew in every
  round (line 116), so a stream of them starves the heartbeat. The bounded number
  of changes makes them stop; `StaysRegistered` holds because of that only.
  `TableConverges` also needs naming servers that in the end answer a fetch with a
  list: two that answer every request are assumed in `lookup_live`, as a reply
  without the static one makes a refresh erase that.
* `LogWriter`: writers and both goroutines go on; taking the buffer is strongly
  fair because Go's mutex goes to whoever has waited for a millisecond, and
  taking the close request because `select` is random. The application owes
  nothing: it need not write, force or close.
* `PerfProfile`: goroutines go on and hours pass.
* `Application`: main, the clock, `AppInit` and the loop go on. Taking a
  notification is strongly fair, as `select` is random and the loop comes back to
  it; so is each handler, whose wait for room in the queue is served in the order
  of arrival. Nothing is assumed of exit functions, signals, peers or of the
  success of listening. `AdmittedAnswered` then holds although the loop stops: a
  handler that waits for it waits until the process ends, which it does.
* `LogArchive`, `TimerQueue`, `KeyTree`: their properties are all safety.

### Findings

1. `Lookup.go:200` says it falls back to the static nodes. The list was copied
   before they are filled in, so the request goes to nobody and only the next
   one finds them.
2. `Log_test.go:270-273` calls `app.20240105.log` a valid log file; the writer
   names its files `app_20240105.log` (`LogImpl.go:60`). The archiver finds no
   date in these, so nothing it should archive is ever moved or removed.

What needs no run to see:

* `SendServiceHttpRequestToUid` (`Lookup.go:230`) shares the balancer's counter and
  resets it to 0 with its list of one node (46), so other requests made in between
  start at the same node every time; so does a request with a list copied before
  the list changed, once. `StrictTurns` counts from the last such request.
* In the same way the loop's fetch and its register request take turns on one counter:
  with two naming servers and one own node, the fetches of all heartbeats start at the
  same server. If that one answers without nodes, which is no failure, no other is asked.
* A reply whose list is there but empty passes `Lookup.go:156`, and the refresh erases
  every node, the naming servers included; the next round fills in the static ones.
* `GetSort` (`LookupDS.go:96`) collects pointers to one loop variable (`go.mod` asks
  for Go 1.20): all elements are the node visited last. It has no caller.
* `PerfProfile.go:65` announces that a server is closed after 12 hours. The
  goroutines of an earlier server make the shared variable nil or stop the new
  server's timing, and the new one then listens for good. `LostOnlyToEarlier` and
  `FirstIsClosed` say that only this can keep a server open.
* `PerfProfServer.check` (line 80) tests its variable the wrong way round, and
  answers "running" when there is no server.
* `Execute`, when it is late, sets `SystemOutExitFunc` over the `SystemExited` main
  has set, which is the one exception `StatusGoesForward` allows.
* The second attempt of a post reads on from the reader the first one has drained
  (`H1Client.go:22`): it sends an empty body, which the callback refuses. That is
  why `EventOnce` holds, and why a retry delivers no event unless the first attempt
  failed before its body was read, when it could not connect.

## 4. The proofs

All are for every value of the constants that satisfies the named assumptions.

`ExitHandlerProofs` (assumes `SignalAssumption`: the signals are not the words
the model uses for other things; `TimerAssumption`: the grace of one second is no
longer than the timeout of two). The inductive invariant joins the type
invariant with what main has done at each of its stages (`MainProgress`), how main
and `Execute` meet (`Rendezvous`: main leaves its `select` either with `Execute`
done or with the time used up), how far `Execute` is (`ExecuteProgress`), and
`CallersAccountedFor`, which is inductive with them. `OrderlyExit` is not
inductive alone: that the time had passed is known at the exit only because it
was known at each stage between. From it follow `TypeOK`, `NoneSkipped`,
`OrderlyExit`, `CallersAccountedFor`, the action property `StatusGoesForward`, and
`KeepsPromise`: every step is a step of `Shutdown` or stutters.

`LookupProofs`, the load balancer (assumes `BoundAssumption`: lists and counts have
some bound; `CopyAssumption`: having no copy is not a copy). `TurnsTypeCorrect` is its type invariant. That no place on the list is
two ahead (`StrictTurns`) is not inductive; the invariant says which places are one
ahead: exactly those passed since the index given first with this length, going round
to the index the counter stands at. A request with another length begins a new round:
its own index is the first, whatever the counter was left at. `OneTurn` is the
arithmetic of one step; it rests on lemmas about `%`, which the provers do not find
by themselves for a divisor that is not a literal.

`LookupProofs`, the naming client (assumes what `LookupClient` and `LookupDS` assume).
`RequestInv` says that the nodes a request has tried are those at `start`, ...,
`start + next - 1`, modulo the length of its list; `FullCircle` that as many steps
as the list is long pass every element. Together they give `AllTried`. `DropInv`
says that the loop has an answer to a deregister request only when it never
registers again, which with `OwnInv` gives `DropIsFinal`.

`NamingServerLeft` needs the most. Its hypotheses (`NamingAssumed`) are those of the
property: there is a static naming server, every reply lists one, and no sender asks
for one. That one is left in the table is not inductive, as a failed request erases
the node it tried. `LoopInv` says why the last one survives: the list the loop has
copied is in the table and has no node twice; while it goes round, the last in turn
is in the table, as only the other attempts erase theirs (`LastOnlyAtTheEnd`); and
the refresh that follows an answer erases none of the nodes it has just added.
`SenderInv` keeps the senders out of this. `StableNodesStay` follows from
`StableInv`: a node that all replies list alike is in the table as they list it, or
not at all, so no refresh has a reason to take it out.

`LogWriterProofs` (assumes `GoroutineAssumption`: three goroutines, and none is
called "free"; `SizeAssumption`). `EachLineOnce` gives every line a place, which
each action changes for whole sequences of lines, or counts it as gone (`lost` to a
closed file, or `unwritten`); a failed write parts a block in two (`OnceParted`). `InOrder` needs `OrderInv`: unless
a forced flush overtakes lines that wait, what is written is older than what a writer
has in its hand, that than what is in the buffer, and who holds the mutex for a
direct write has nobody's lines before it. `ContentInv` adds that no file is written
which is of a later day than the handle opened last, without which the order across
midnight would be lost. `NoFileLeaked` needs to know who is between closing the
handle and clearing it, and that a rotation opens only where there is none
(`FileInv`).

`KeepsPromise` is the refinement of `LineLog`, with the buffer and the writers' hands
as the lines that wait. Accepting a line, forcing the flush while lines wait, midnight
and `CloseOutput` are steps of their own there; a write to the handle takes the block
in the writer's hand out of what waits, in turn since the other hand is empty
(`OneHand`) and the buffer younger (`HandInTurn`); everything else stutters, taking the
buffer included. What `LineLog` says of losses needs `CloseInv`: a handle is closed by
autoFlush, when `CloseOutput` was called, or by a rotation that found today's file
missing, and as the handle opened last is never of a later day than today, there is
none missing before the first midnight. This is about lines lost to closed files; a
write that fails may leave lines out on any day, of its own block and from its end.

`PerfProfileProofs` (assumes `LifetimeAssumption`). The variable names the server made
last or none (`LastInv`), so that what a serving goroutine makes it forget, when it
ends, is its own server or a later one. `LostOnlyToEarlier` is not inductive: a server
may be forgotten while it is about to listen. `LostInv` says it of every server that
listens or will and was not closed; `Stop` closes the one it takes out of the variable,
so only such a late goroutine can leave one open.

`LogArchiveProofs` (assumes `DayAssumption`). `FiledByDay` is inductive with the
types. For `KeptLongEnough` the invariant remembers that the limit was fixed when the
directories were listed, and that the clock has not gone back from there
(`CleaningInv`). `TodayStays` follows step by step.

`KeyTreeProofs` (assumes `KeyAssumption`). A walk stands at the node of a prefix of
its key (`WalkInv`), and the search remembers the deepest entry it has passed
(`BestInv`). That this is the longest prefix in the whole table needs `TreeIsWhole`:
where the walk finds no child there is none deeper, since the shallowest node that
is missing would be the parent of one that exists (`NothingBeyond`, by the least
counterexample). From these follows the refinement of `PrefixTable`: the call, every
step on the way and a failed addition stutter; the last step of an addition is
`Add`, or with nil data `Drop` or nothing; and an answer or a refusal is `Get`.

`ApplicationProofs` (assumes `SignalAssumption`, `TimerAssumption` and
`HookAssumption`: the hooks given are hooks). Its first conjunct is the invariant of
the exit handler, reused through an `INSTANCE` of `ExitHandlerProofs`: a step of
the application is one of the exit handler's or leaves it alone. To it come what
the parts owe each other: `GateInv` (the status has left "running" before the
context is cancelled, and a late `Execute` does not bring it back), `BootInv` (what
is left of `AppInit` says which hooks there are and whether the service can
listen), `RequestInv` (how many hooks a handler has run at each of its stages),
`PostInv` (a second attempt that arrives after the first is empty), `NoticesInv`,
and `NamingInv` (the loop registers only once its exit function is there). The
run's five safety properties follow; `DroppedOnExit` needs `NamingInv` together
with the exit handler's own account of when `Execute` is done.

`TimerQueueProofs` (assumes `TimeAssumption`). Whoever holds the lock works on one
place (`Work`); items and indices agree and the map has the heap's items (`Places`);
and the heap is in order but for that place, across which it is in order as well
(`Near`). `RiseKeepsOrder` and `SinkKeepsOrder` are the arithmetic of the two moves.
That the root is the least item, which a heap in order only says of neighbours, is
shown by its least counterexample. With `PopInv` it gives `KeepsPromise`: every
step of the queue is a step of `Timers` or stutters.

Only model-checked: all liveness, that of `Shutdown` included (it rests on fairness,
hence on ENABLED, which the prover does not support).

## 5. What is left out

* Of the HTTP callbacks of the naming client: ping, which only answers, and pprof,
  which only calls what `PerfProfile` models.
* That the process may end before the last flush is through: `LogWriter` is not
  composed with the rest, as nothing waits for it.
* Exit functions other than the naming client's are in `ExitHandler` only;
  `Application` lets the one it has take as long as any.
* The race detector's view of a data race: accesses without a lock
  (`flushForce`, `fileHandle`, `EventRequest`'s map, the pprof server's variable)
  are interleaved, but each is atomic.
* A second process that uses the same log files (`LogImpl.go:62` takes them for
  its own), and the refusal of a line when the 50 MB are reached by single bytes
  instead of lines.
* `BootInit` (`AppBoot.go:22-43`), which reads a configuration and calls other
  components' `Init`.
* Argument parsing, JSON, constants, message types, log levels: no state. UUID and
  the stack dump's throttle: arithmetic and a check before a store, read off the
  code and listed as hazards. The Redis packages: a constructor around a library.

## 6. Plan

Done: `ExitHandler` with its abstract specification and proofs; the load balancer;
the naming client; the log; the pprof server; the timer queue and the key tree with
what they promise; events, gate and hooks; the composed application.

Theorems: every safety property that holds in a run, and the four refinements (of
`Shutdown`, its safety; of `LineLog`, `PrefixTable` and `Timers`).

Next: an abstract specification of the naming client's table, as a view that follows
the servers' list.
