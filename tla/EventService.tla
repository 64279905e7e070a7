---------------------------- MODULE EventService -----------------------------
(***************************************************************************)
(* Events sent to this node over HTTP: the peer's client, which makes up to*)
(* two attempts (HttpClient), the mux with its gate (ApiService), the      *)
(* event callback (Lookup/Lookup.go:319-352) and the hooks it runs         *)
(* (Lookup/LookupHook).  Every attempt that reaches this node is handled by*)
(* a goroutine of its own, whether or not the client still waits for it.   *)
(***************************************************************************)
EXTENDS Integers, Sequences

CONSTANTS
  Post,       \* calls of PostHx that send an event, each once (a bound)
  EventOf,    \* the event each sends
  OwnHooks,   \* the hooks that the application has registered before, by event
  BuiltIn,    \* the hooks that AppInit registers, by event
  QueueSize   \* NodeLookupRefreshQueueSize

Attempt == {1, 2}
Request == Post \X Attempt
Event == {EventOf[p] : p \in Post}
Hook == {"notifies", "other"}

VARIABLES
  status,     \* ExitHandler's
  listening,  \* whether the HTTP service accepts connections
  hooks,      \* EventRequestHook.hookFunc
  post,       \* where each call of PostHx is, its attempt, and if its reader is drained
  request,    \* where the handler of each attempt is
  notices     \* len(RpcNodeUpdate)

service == <<listening, hooks, post, request, notices>>

NoRequest == [at |-> "none", empty |-> FALSE, code |-> 0, left |-> << >>, ran |-> 0]

Init ==
  /\ listening = FALSE
  /\ hooks = OwnHooks
  /\ post = [p \in Post |-> [at |-> "ready", try |-> 1, drained |-> FALSE]]
  /\ request = [r \in Request |-> NoRequest]
  /\ notices = 0

-----------------------------------------------------------------------------
(* The client.  An error leads to a second attempt, with the same reader:  *)
(* what the first one read of it is not sent again.  An answer, whatever   *)
(* its status code, is final.                                              *)
Sending(p) == <<p, post[p].try>>

Retried(p) == IF post[p].try = 1 THEN [post[p] EXCEPT !.at = "ready", !.try = 2]
              ELSE [post[p] EXCEPT !.at = "failed"]

CannotConnect(p) ==
  /\ post[p].at = "ready"
  /\ post' = [post EXCEPT ![p] = Retried(p)]
  /\ UNCHANGED <<listening, hooks, request, notices>>

Sent(p, drained) ==
  /\ post[p].at = "ready"
  /\ post' = [post EXCEPT ![p] = [@ EXCEPT !.at = "sent", !.drained = drained]]

Arrives(p) ==
  request' = [request EXCEPT ![Sending(p)] =
                [NoRequest EXCEPT !.at = "arrived", !.empty = post[p].drained]]

SendAnew(p) == \* mutant: each attempt has a reader of its own
  /\ Sent(p, FALSE)
  /\ listening /\ Arrives(p)
  /\ UNCHANGED <<listening, hooks, notices>>

Send(p) ==
  /\ Sent(p, TRUE)
  /\ listening /\ Arrives(p)
  /\ UNCHANGED <<listening, hooks, notices>>

SendLost(p) ==
  /\ Sent(p, TRUE)
  /\ UNCHANGED <<listening, hooks, request, notices>>

Answered(p) ==
  /\ post[p].at = "sent"
  /\ request[Sending(p)].at = "answered"
  /\ post' = [post EXCEPT ![p].at = IF request[Sending(p)].code = 200 THEN "ok" ELSE "refused"]
  /\ UNCHANGED <<listening, hooks, request, notices>>

(* The connection breaks, or ten seconds have passed.                      *)
Fails(p) ==
  /\ post[p].at = "sent"
  /\ post' = [post EXCEPT ![p] = Retried(p)]
  /\ UNCHANGED <<listening, hooks, request, notices>>

-----------------------------------------------------------------------------
(* The mux and the callback.                                               *)
Becomes(r, q) == request' = [request EXCEPT ![r] = q]
Finished(r, code) == [request[r] EXCEPT !.at = "answered", !.code = code, !.left = << >>]

Lock(r) ==
  /\ request[r].at = "arrived" /\ status # 0
  /\ Becomes(r, Finished(r, 423))
  /\ UNCHANGED <<listening, hooks, post, notices>>

AdmitUntilExited(r) == \* mutant: only the final status closes the gate
  /\ request[r].at = "arrived" /\ status # 4
  /\ Becomes(r, [request[r] EXCEPT !.at = "admitted"])
  /\ UNCHANGED <<listening, hooks, post, notices>>

Admit(r) ==
  /\ request[r].at = "arrived" /\ status = 0
  /\ Becomes(r, [request[r] EXCEPT !.at = "admitted"])
  /\ UNCHANGED <<listening, hooks, post, notices>>

(* An empty body is no JSON object.                                        *)
BadRequest(r) ==
  /\ request[r].at = "admitted" /\ request[r].empty
  /\ Becomes(r, Finished(r, 400))
  /\ UNCHANGED <<listening, hooks, post, notices>>

(* EventRequest takes the hooks of the event, without the lock.            *)
TakeHooks(r) ==
  LET fn == hooks[EventOf[r[1]]] IN
  /\ request[r].at = "admitted" /\ ~request[r].empty
  /\ Becomes(r, [request[r] EXCEPT !.at = "hooks", !.left = fn])
  /\ UNCHANGED <<listening, hooks, post, notices>>

(* The hook of nodeUpdatedNotify waits until it can queue a notification.  *)
RunHook(r) ==
  /\ request[r].left # << >>
  /\ Becomes(r, [request[r] EXCEPT !.left = Tail(@), !.ran = @ + 1])
  /\ IF Head(request[r].left) = "notifies"
     THEN notices < QueueSize /\ notices' = notices + 1
     ELSE UNCHANGED notices
  /\ UNCHANGED <<listening, hooks, post>>

(* So do the handlers of requests that are not among Post.                 *)
OthersNotify ==
  /\ listening /\ notices < QueueSize
  /\ notices' = notices + 1
  /\ UNCHANGED <<listening, hooks, post, request>>

AnswerAtOnce(r) == \* mutant: the hooks go on in the background
  /\ request[r].at = "hooks"
  /\ Becomes(r, [request[r] EXCEPT !.at = "answered", !.code = 200])
  /\ UNCHANGED <<listening, hooks, post, notices>>

AnswerEvent(r) ==
  /\ request[r].at = "hooks" /\ request[r].left = << >>
  /\ Becomes(r, Finished(r, 200))
  /\ UNCHANGED <<listening, hooks, post, notices>>

RegisterHooks ==
  /\ hooks' = [e \in Event |-> hooks[e] \o IF e \in DOMAIN BuiltIn THEN <<BuiltIn[e]>>
                                                               ELSE << >>]
  /\ UNCHANGED <<listening, post, request, notices>>

-----------------------------------------------------------------------------
Client(p) == CannotConnect(p) \/ Send(p) \/ SendLost(p) \/ Answered(p) \/ Fails(p)
Handle(r) == Lock(r) \/ Admit(r) \/ BadRequest(r) \/ TakeHooks(r) \/ RunHook(r) \/ AnswerEvent(r)

TypeOK ==
  /\ listening \in BOOLEAN
  /\ hooks \in [Event -> Seq(Hook)]
  /\ post \in [Post -> [at : {"ready", "sent", "ok", "refused", "failed"}, try : Attempt,
                        drained : BOOLEAN]]
  /\ request \in [Request -> [at : {"none", "arrived", "admitted", "hooks", "answered"},
                              empty : BOOLEAN, code : {0, 200, 400, 423},
                              left : Seq(Hook), ran : Nat]]
  /\ notices \in 0..QueueSize

(* Although it is retried, an event runs each of its hooks at most once.   *)
EventOnce ==
  \A p \in Post :
    request[<<p, 1>>].ran + request[<<p, 2>>].ran <= Len(hooks[EventOf[p]])

(* Who is answered with 200 knows that the hooks have run to their end.    *)
OkMeansHandled ==
  \A p \in Post :
    post[p].at = "ok" => request[Sending(p)].ran = Len(hooks[EventOf[p]])

(* No known event is lost because its hook was not yet there.              *)
KnownEventsHandled ==
  \A r \in Request :
    EventOf[r[1]] \in DOMAIN BuiltIn /\ request[r].code = 200 =>
      request[r].ran > Len(OwnHooks[EventOf[r[1]]])
=============================================================================
