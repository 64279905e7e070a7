------------------------------- MODULE LineLog -------------------------------
(***************************************************************************)
(* What the log writer promises: the lines it accepts go, in blocks, to    *)
(* the console or to the file of a day; what is written stays as it is     *)
(* written, each line once.  Lines go out in turn, unless some were        *)
(* overtaken, and a file is not written any more once a later one is.  A   *)
(* write that fails leaves out the end of its block.  No block is lost     *)
(* before the first midnight, unless the output is closed.                 *)
(***************************************************************************)
EXTENDS Naturals, Sequences, SequencesExt

CONSTANTS
  Line,  \* 1..n: lines are numbered as they are accepted
  Day    \* 0..n

VARIABLES
  last,      \* the line accepted last
  waiting,   \* the lines accepted and not yet written
  file,      \* each day's file
  console,
  lost,      \* to a file that was closed
  unwritten, \* by a write that failed
  overtaken, \* lines may be written out of turn
  day,       \* today
  closed     \* the output is to be closed

vars == <<last, waiting, file, console, lost, unwritten, overtaken, day, closed>>

Init ==
  /\ last = 0 /\ waiting = {}
  /\ file = [d \in Day |-> << >>] /\ console = << >>
  /\ lost = {} /\ unwritten = {}
  /\ overtaken = FALSE
  /\ day = 0
  /\ closed = FALSE

Accept ==
  /\ last + 1 \in Line
  /\ last' = last + 1
  /\ waiting' = waiting \cup {last + 1}
  /\ UNCHANGED <<file, console, lost, unwritten, overtaken, day, closed>>

(* The lines of a block leave the log together, in turn: each is the       *)
(* oldest of those that are left.                                          *)
Block == SetToAllKPermutations(waiting) \ {<< >>}

InTurn(b) ==
  \A i \in DOMAIN b : \A m \in waiting \ {b[j] : j \in 1..i - 1} : b[i] <= m

Take(b) ==
  /\ ~overtaken => InTurn(b)
  /\ waiting' = waiting \ ToSet(b)
  /\ UNCHANGED <<last, overtaken, day, closed>>

(* The first k lines of a block appear.                                    *)
First(b, k) == SubSeq(b, 1, k)
LeaveOut(b, k) == unwritten' = unwritten \cup {b[i] : i \in k+1..Len(b)}

Show(b, k) ==
  /\ Take(b)
  /\ console' = console \o First(b, k)
  /\ LeaveOut(b, k)
  /\ UNCHANGED <<file, lost>>

Write(b, k, d) ==
  /\ Take(b)
  /\ d <= day /\ \A e \in Day : e > d => file[e] = << >>
  /\ file' = [file EXCEPT ![d] = @ \o First(b, k)]
  /\ LeaveOut(b, k)
  /\ UNCHANGED <<console, lost>>

Lose(b) ==
  /\ Take(b)
  /\ day > 0 \/ closed
  /\ lost' = lost \cup ToSet(b)
  /\ UNCHANGED <<file, console, unwritten>>

Overtake ==
  /\ waiting # {}
  /\ overtaken' = TRUE
  /\ UNCHANGED <<last, waiting, file, console, lost, unwritten, day, closed>>

Midnight ==
  /\ day + 1 \in Day
  /\ day' = day + 1
  /\ UNCHANGED <<last, waiting, file, console, lost, unwritten, overtaken, closed>>

Close ==
  /\ closed' = TRUE
  /\ UNCHANGED <<last, waiting, file, console, lost, unwritten, overtaken, day>>

Next ==
  \/ Accept \/ Overtake \/ Midnight \/ Close
  \/ \E b \in Block : \/ Lose(b)
                      \/ \E k \in 0..Len(b) : Show(b, k) \/ \E d \in Day : Write(b, k, d)

Spec == Init /\ [][Next]_vars
=============================================================================
