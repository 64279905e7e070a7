-------------------------- MODULE PerfProfileProofs --------------------------
(* The profiling server for any number of starts, addresses and hours.     *)
EXTENDS PerfProfile, TLAPS

(* The variable names the server made last, or none; servers that are yet  *)
(* to be made serve nothing.                                               *)
LastInv ==
  /\ server \in {None, made}
  /\ \A s \in Server : s > made => serve[s] = "none"

(* A server that may still come to listen and was not closed is the one    *)
(* the variable names, unless an earlier one ended after its start.        *)
Open(s) == serve[s] \in {"starting", "listening"} /\ ~closed[s]
LostInv ==
  \A s \in Server : Open(s) /\ server # s => \E r \in 1..s - 1 : serve[r] = "done"

IInv == TypeOK /\ LastInv /\ LostInv

-----------------------------------------------------------------------------
LEMMA ServerNumbers ==
  /\ Server \subseteq Nat \ {0}
  /\ None \notin Server
  /\ \A s \in Server : 1..s - 1 \subseteq Server
BY LifetimeAssumption DEF Server, None

(* What ended has ended: who was lost before is lost to the same one.      *)
LEMMA StillLost ==
  ASSUME IInv, NEW s \in Server, Open(s), server # s,
         \A r \in Server : serve[r] = "done" => serve'[r] = "done"
  PROVE \E r \in 1..s - 1 : serve'[r] = "done"
<1>1. PICK r \in 1..s - 1 : serve[r] = "done"
  BY DEF IInv, LostInv
<1>2. r \in Server
  BY <1>1, ServerNumbers
<1> QED
  BY <1>1, <1>2

LEMMA InductiveInit == Init => IInv
<1> SUFFICES ASSUME Init PROVE IInv
  OBVIOUS
<1>1. TypeOK
  BY LifetimeAssumption DEF Init, TypeOK, None
<1>2. LastInv /\ LostInv
  BY DEF Init, LastInv, LostInv, Open
<1> QED
  BY <1>1, <1>2 DEF IInv

-----------------------------------------------------------------------------
LEMMA StartStep == IInv /\ StartPerfProfile => IInv'
<1> SUFFICES ASSUME IInv, StartPerfProfile PROVE IInv'
  OBVIOUS
<1> DEFINE n == made + 1
<1>1. /\ server = None /\ made < MaxStarts
      /\ server' = n /\ made' = n
      /\ serve' = [serve EXCEPT ![n] = "starting"]
      /\ timer' = [timer EXCEPT ![n] = "waiting"]
      /\ UNCHANGED <<addr, closed, age>>
  BY DEF StartPerfProfile
<1>2. made \in Nat /\ n \in Server /\ n \in 1..n /\ n \in 0..MaxStarts
  BY <1>1, LifetimeAssumption DEF IInv, TypeOK, Server
<1>3. \A s \in Server : serve'[s] = IF s = n THEN "starting" ELSE serve[s]
  BY <1>1 DEF IInv, TypeOK
<1>4. serve[n] = "none"
  BY <1>2 DEF IInv, LastInv
<1> HIDE DEF n
<1>5. TypeOK'
  BY <1>1, <1>2 DEF IInv, TypeOK
<1>6. LastInv'
  <2>1. ASSUME NEW s \in Server, s > n PROVE serve'[s] = "none"
    <3>1. s \in Nat /\ s > made /\ s # n
      BY <1>2, <2>1, ServerNumbers DEF n
    <3> QED
      BY <1>3, <3>1 DEF IInv, LastInv
  <2> QED
    BY <1>1, <2>1 DEF LastInv
<1>7. LostInv'
  <2> SUFFICES ASSUME NEW s \in Server, Open(s)', server' # s
               PROVE \E r \in 1..s - 1 : serve'[r] = "done"
    BY DEF LostInv
  <2>1. s # n
    BY <1>1
  <2>2. Open(s) /\ server # s
    BY <1>1, <1>3, <2>1, ServerNumbers DEF Open
  <2>3. \A r \in Server : serve[r] = "done" => serve'[r] = "done"
    BY <1>3, <1>4
  <2> QED
    BY <2>2, <2>3, StillLost
<1> QED
  BY <1>5, <1>6, <1>7 DEF IInv

(* Whoever stops: the server named is closed, or there was none.           *)
LEMMA StopStep ==
  ASSUME IInv, Stop, UNCHANGED <<made, addr, serve, age>>,
         timer' \in [Server -> {"none", "waiting", "stopping", "done"}]
  PROVE IInv'
<1>1. \/ UNCHANGED <<server, closed>>
      \/ /\ server \in Server
         /\ closed' = [closed EXCEPT ![server] = TRUE]
         /\ server' \in {None, server}
  <2>1. server # None => server \in Server
    BY LifetimeAssumption DEF IInv, TypeOK, Server
  <2> QED
    BY <2>1 DEF Stop
<1>2. /\ closed' \in [Server -> BOOLEAN]
      /\ \A s \in Server : closed[s] => closed'[s]
  BY <1>1 DEF IInv, TypeOK
<1>3. TypeOK'
  BY <1>1, <1>2 DEF IInv, TypeOK
<1>4. LastInv'
  BY <1>1 DEF IInv, LastInv
<1>5. LostInv'
  <2> SUFFICES ASSUME NEW s \in Server, Open(s)', server' # s
               PROVE \E r \in 1..s - 1 : serve'[r] = "done"
    BY DEF LostInv
  <2>1. Open(s)
    BY <1>2 DEF Open
  <2>2. server # s
    <3>1. CASE UNCHANGED <<server, closed>>
      BY <3>1
    <3>2. CASE server \in Server /\ closed' = [closed EXCEPT ![server] = TRUE]
      <4>1. closed'[server]
        BY <3>2 DEF IInv, TypeOK
      <4> QED
        BY <4>1 DEF Open
    <3> QED
      BY <1>1, <3>1, <3>2
  <2> QED
    BY <2>1, <2>2, StillLost
<1> QED
  BY <1>3, <1>4, <1>5 DEF IInv

(* The serving goroutine of r goes on without touching the variable.       *)
LEMMA ServingStep ==
  ASSUME IInv, NEW r \in Server,
         \/ serve[r] = "starting" /\ serve' = [serve EXCEPT ![r] = "listening"]
         \/ serve[r] \in {"starting", "listening"} /\ serve' = [serve EXCEPT ![r] = "returned"],
         UNCHANGED <<server, made, addr, closed, timer, age>>
  PROVE IInv'
<1>1. PICK x \in {"listening", "returned"} :
        /\ serve' = [serve EXCEPT ![r] = x]
        /\ serve[r] \in {"starting", "listening"}
  OBVIOUS
<1>2. \A s \in Server : serve'[s] = IF s = r THEN x ELSE serve[s]
  BY <1>1 DEF IInv, TypeOK
<1>3. TypeOK'
  BY <1>1 DEF IInv, TypeOK
<1>4. LastInv'
  BY <1>1, <1>2 DEF IInv, LastInv
<1>5. LostInv'
  <2> SUFFICES ASSUME NEW s \in Server, Open(s)', server' # s
               PROVE \E q \in 1..s - 1 : serve'[q] = "done"
    BY DEF LostInv
  <2>1. Open(s) /\ server # s
    BY <1>1, <1>2 DEF Open
  <2>2. \A q \in Server : serve[q] = "done" => serve'[q] = "done"
    BY <1>1, <1>2
  <2> QED
    BY <2>1, <2>2, StillLost
<1> QED
  BY <1>3, <1>4, <1>5 DEF IInv

(* What the variable forgets when r ends is r itself, or a later server,   *)
(* which is then lost to r.                                                *)
LEMMA ForgetStep ==
  ASSUME IInv, NEW r \in Server, Forget(r)
  PROVE IInv'
<1>1. /\ serve[r] = "returned" /\ server' = None
      /\ serve' = [serve EXCEPT ![r] = "done"]
      /\ UNCHANGED <<made, addr, closed, timer, age>>
  BY DEF Forget
<1>2. \A s \in Server : serve'[s] = IF s = r THEN "done" ELSE serve[s]
  BY <1>1 DEF IInv, TypeOK
<1>3. TypeOK'
  BY <1>1 DEF IInv, TypeOK
<1>4. LastInv'
  BY <1>1, <1>2 DEF IInv, LastInv
<1>5. r \in Nat /\ r <= made /\ made \in Nat
  BY <1>1, ServerNumbers DEF IInv, LastInv, TypeOK
<1>6. LostInv'
  <2> SUFFICES ASSUME NEW s \in Server, Open(s)'
               PROVE \E q \in 1..s - 1 : serve'[q] = "done"
    BY DEF LostInv
  <2>1. s # r /\ Open(s)
    BY <1>1, <1>2 DEF Open
  <2>2. CASE server # s
    <3>1. \A q \in Server : serve[q] = "done" => serve'[q] = "done"
      BY <1>2
    <3> QED
      BY <2>1, <2>2, <3>1, StillLost
  <2>3. CASE server = s
    <3>1. s = made
      BY <2>3, ServerNumbers DEF IInv, LastInv
    <3>2. r \in 1..s - 1
      BY <1>5, <2>1, <3>1, ServerNumbers
    <3> QED
      BY <1>2, <3>2
  <2> QED
    BY <2>2, <2>3
<1> QED
  BY <1>3, <1>4, <1>6 DEF IInv

-----------------------------------------------------------------------------
LEMMA InductiveStep == IInv /\ [Next]_vars => IInv'
<1> SUFFICES ASSUME IInv, [Next]_vars PROVE IInv'
  OBVIOUS
<1>1. CASE StartPerfProfile
  BY <1>1, StartStep
<1>2. CASE StopPerfProfile
  BY <1>2, StopStep DEF StopPerfProfile, IInv, TypeOK
<1>3. CASE Hour
  <2>1. age' \in [Server -> 0..Lifetime]
    BY <1>3, LifetimeAssumption DEF Hour, IInv, TypeOK
  <2> QED
    BY <1>3, <2>1 DEF Hour, IInv, TypeOK, LastInv, LostInv, Open
<1>4. ASSUME NEW s \in Server, Listen(s) \/ ListenReturns(s) PROVE IInv'
  BY <1>4, ServingStep DEF Listen, ListenReturns
<1>5. ASSUME NEW s \in Server, TimeUp(s) PROVE IInv'
  BY <1>5 DEF TimeUp, IInv, TypeOK, LastInv, LostInv, Open
<1>6. ASSUME NEW s \in Server, TimerStops(s) PROVE IInv'
  BY <1>6, StopStep DEF TimerStops, IInv, TypeOK
<1>7. CASE UNCHANGED vars
  BY <1>7 DEF vars, IInv, TypeOK, LastInv, LostInv, Open
<1> QED
  BY <1>1, <1>2, <1>3, <1>4, <1>5, <1>6, <1>7, ForgetStep DEF Next, ServeStep, TimerStep

(* Every state satisfies it.                                               *)
LEMMA Invariance == Spec => []IInv
BY InductiveInit, InductiveStep, PTL DEF Spec

(* The variable names a server that was made, or none.                     *)
THEOREM TypeCorrect == Spec => []TypeOK
<1>1. IInv => TypeOK
  BY DEF IInv
<1> QED
  BY <1>1, Invariance, PTL

(* Only the late end of an earlier server makes one that listens escape    *)
(* StopPerfProfile and its own timer, however starts and stops are mixed.  *)
THEOREM LostToEarlier == Spec => []LostOnlyToEarlier
<1>1. IInv => LostOnlyToEarlier
  BY DEF IInv, LostInv, Open, Listening, LostOnlyToEarlier
<1> QED
  BY <1>1, Invariance, PTL
=============================================================================
