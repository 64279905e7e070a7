------------------------------ MODULE LogWriter ------------------------------
(***************************************************************************)
(* The buffered log writer (Log/LogImpl.go:23-219), from the moment        *)
(* SetOutput made it the logger's output.  Four goroutines: the            *)
(* application's (one is enough: bufferMutex is held for a whole Write),   *)
(* autoFlush, the one that rotates the file once a second, and the one     *)
(* that ends the forced flush every five seconds.                          *)
(*                                                                         *)
(* A line is the number of its acceptance by Write.  fileHandle is read    *)
(* and written without a common lock, so that reading it, writing to it,   *)
(* closing it and setting it to nil are steps of their own.                *)
(***************************************************************************)
EXTENDS Naturals, Sequences, SequencesExt

CONSTANTS
  App, Flusher, Rotator, \* goroutines
  FlushSize,   \* WriteLogFileSize, in lines
  MaxBuffer,   \* MaxBufferedLogFileSize, in lines
  ChanSize,    \* capacity of chanFlush (512)
  MaxLines,    \* lines the application writes (a bound)
  MaxDay,      \* midnights (a bound)
  MaxFailures, \* failures to open the file or to write (a bound)
  MaxForces    \* calls of ForceFlush(true) after SetOutput's own (a bound)

ASSUME GoroutineAssumption ==
  /\ App # Flusher /\ App # Rotator /\ Flusher # Rotator
  /\ "free" \notin {App, Flusher, Rotator}
ASSUME SizeAssumption ==
  /\ FlushSize \in Nat \ {0} /\ MaxBuffer \in Nat /\ ChanSize \in Nat
  /\ MaxLines \in Nat /\ MaxDay \in Nat /\ MaxFailures \in Nat /\ MaxForces \in Nat

Writer == {App, Flusher}
Line == 1..MaxLines + 1  \* with autoFlush's own "close log writer"
Day == 0..MaxDay
NoFile == 0              \* a nil fileHandle

VARIABLES
  accepted,    \* lines accepted by Write
  buffer,
  mutex,       \* who holds bufferMutex during a direct write, or "free"
  flushForce,
  tokens,      \* len(chanFlush)
  closeSent,   \* CloseOutput was called
  flPc,        \* where autoFlush is
  stage,       \* where each writer is in writeFile
  hand,        \* the lines it is to write
  target,      \* the file handle it read
  fd,          \* the handles opened: the day in the file's name, open or closed
  fileHandle,  \* an index of fd, or NoFile
  logMutex,    \* who is between closing fileHandle and setting it to nil, or "free"
  rotPc,       \* where CheckLogFileRotation is
  rotDay,      \* the day in its fileName
  today,
  content,     \* each day's file
  stdout,
  lost,        \* lines written to a handle already closed
  unwritten,   \* lines that a failed write left out or cut
  overtaken,   \* flushing was forced while lines were waiting (for the properties)
  failures, forces

bufferVars == <<accepted, buffer, mutex, tokens>>
writeVars == <<stage, hand, target>>
fileVars == <<fd, fileHandle, logMutex>>
output == <<content, stdout, lost, unwritten>>
forceVars == <<flushForce, overtaken, forces>>
vars == <<bufferVars, closeSent, flPc, writeVars, fileVars, rotPc, rotDay, today,
          output, forceVars, failures>>

(* SetOutput has tried to open the file; its ForceFlush(true) is to come,  *)
(* and then autoFlush starts.                                              *)
Init ==
  /\ accepted = 0 /\ buffer = << >> /\ mutex = "free" /\ tokens = 0
  /\ closeSent = FALSE
  /\ flPc = "off"
  /\ stage = [w \in Writer |-> "idle"]
  /\ hand = [w \in Writer |-> << >>]
  /\ target = [w \in Writer |-> NoFile]
  /\ \/ fd = <<[day |-> 0, open |-> TRUE]>> /\ fileHandle = 1
     \/ fd = << >> /\ fileHandle = NoFile
  /\ logMutex = "free"
  /\ rotPc = "check" /\ rotDay = 0
  /\ today = 0
  /\ content = [d \in Day |-> << >>] /\ stdout = << >>
  /\ lost = {} /\ unwritten = {}
  /\ flushForce = FALSE /\ overtaken = FALSE /\ forces = 0
  /\ failures = 0

-----------------------------------------------------------------------------
(* Write, for w: either the line goes to the file before Write returns, or *)
(* to the buffer, asking for a flush when that is long.  A line that finds *)
(* the buffer full is refused, which changes nothing.                      *)
WriteDirect(w) ==
  /\ flushForce
  /\ mutex' = w
  /\ hand' = [hand EXCEPT ![w] = <<accepted + 1>>]
  /\ stage' = [stage EXCEPT ![w] = "file"]
  /\ UNCHANGED <<buffer, tokens, target>>

WriteAndFlush(w) == \* mutant: a writer that fills the buffer flushes it itself
  /\ ~flushForce
  /\ Len(buffer) < MaxBuffer
  /\ IF Len(buffer) + 1 >= FlushSize
     THEN /\ buffer' = << >>
          /\ hand' = [hand EXCEPT ![w] = Append(buffer, accepted + 1)]
          /\ stage' = [stage EXCEPT ![w] = "file"]
     ELSE /\ buffer' = Append(buffer, accepted + 1)
          /\ UNCHANGED <<hand, stage>>
  /\ UNCHANGED <<mutex, tokens, target>>

WriteBuffered(w) ==
  /\ ~flushForce
  /\ Len(buffer) < MaxBuffer
  /\ buffer' = Append(buffer, accepted + 1)
  /\ tokens' = IF Len(buffer') >= FlushSize /\ tokens < ChanSize THEN tokens + 1 ELSE tokens
  /\ UNCHANGED <<mutex, writeVars>>

Write(w) ==
  /\ mutex = "free"
  /\ stage[w] = "idle"
  /\ accepted' = accepted + 1
  /\ WriteDirect(w) \/ WriteBuffered(w)

AppWrites ==
  /\ accepted < MaxLines
  /\ Write(App)
  /\ UNCHANGED <<closeSent, flPc, fileVars, rotPc, rotDay, today, output, forceVars,
                 failures>>

(* writeFile: the handle is read, and then written to.                     *)
ReadHandle(w) ==
  /\ stage[w] = "file"
  /\ target' = [target EXCEPT ![w] = fileHandle]
  /\ stage' = [stage EXCEPT ![w] = "write"]
  /\ UNCHANGED <<bufferVars, closeSent, flPc, hand, fileVars, rotPc, rotDay, today,
                 output, forceVars, failures>>

(* The first k of the lines are written to where the handle leads.         *)
Puts(w, k) ==
  LET h == target[w]
      s == SubSeq(hand[w], 1, k) IN
  /\ \/ h = NoFile /\ stdout' = stdout \o s /\ UNCHANGED content
     \/ /\ h # NoFile /\ fd[h].open
        /\ content' = [content EXCEPT ![fd[h].day] = @ \o s]
        /\ UNCHANGED stdout
  /\ unwritten' = unwritten \cup {hand[w][i] : i \in k+1..Len(hand[w])}
  /\ UNCHANGED lost

(* The result of the write is ignored: when it fails, on a full disk or    *)
(* after a part of its lines, what it left out is gone.                    *)
WriteOut(w) ==
  LET h == target[w]
      n == Len(hand[w]) IN
  /\ stage[w] = "write"
  /\ stage' = [stage EXCEPT ![w] = "idle"]
  /\ hand' = [hand EXCEPT ![w] = << >>]
  /\ target' = [target EXCEPT ![w] = NoFile]
  /\ mutex' = IF mutex = w THEN "free" ELSE mutex
  /\ \/ Puts(w, n) /\ UNCHANGED failures
     \/ /\ failures < MaxFailures
        /\ failures' = failures + 1
        /\ \E k \in 0..n-1 : Puts(w, k)
     \/ /\ h # NoFile /\ ~fd[h].open
        /\ lost' = lost \cup ToSet(hand[w])
        /\ UNCHANGED <<content, stdout, unwritten, failures>>
  /\ UNCHANGED <<accepted, buffer, tokens, closeSent, flPc, fileVars, rotPc, rotDay,
                 today, forceVars>>

-----------------------------------------------------------------------------
(* autoFlush                                                               *)
Selects == flPc = "select" /\ stage[Flusher] = "idle"

TickWhenFull == \* mutant: the ticker's case is missing
  /\ Selects
  /\ Len(buffer) >= FlushSize
  /\ flPc' = "flush"
  /\ UNCHANGED <<bufferVars, closeSent, writeVars, fileVars, rotPc, rotDay, today,
                 output, forceVars, failures>>

Tick ==
  /\ Selects
  /\ flPc' = "flush"
  /\ UNCHANGED <<bufferVars, closeSent, writeVars, fileVars, rotPc, rotDay, today,
                 output, forceVars, failures>>

TakeToken ==
  /\ Selects
  /\ tokens > 0
  /\ tokens' = tokens - 1
  /\ flPc' = "flush"
  /\ UNCHANGED <<accepted, buffer, mutex, closeSent, writeVars, fileVars, rotPc, rotDay,
                 today, output, forceVars, failures>>

TakeCloseAfterToken == \* mutant: the close channel is looked at only after a token
  /\ Selects
  /\ closeSent /\ tokens > 0
  /\ flPc' = "say"
  /\ UNCHANGED <<bufferVars, closeSent, writeVars, fileVars, rotPc, rotDay, today,
                 output, forceVars, failures>>

TakeClose ==
  /\ Selects
  /\ closeSent
  /\ flPc' = "say"
  /\ UNCHANGED <<bufferVars, closeSent, writeVars, fileVars, rotPc, rotDay, today,
                 output, forceVars, failures>>

(* Its own line; when the buffer is full that line is refused.             *)
SayClosed ==
  /\ flPc = "say"
  /\ flPc' = "last flush"
  /\ \/ Write(Flusher)
     \/ /\ mutex = "free" /\ ~flushForce /\ Len(buffer) >= MaxBuffer
        /\ UNCHANGED <<bufferVars, writeVars>>
  /\ UNCHANGED <<closeSent, fileVars, rotPc, rotDay, today, output, forceVars, failures>>

GetBufferOnly == \* mutant: the buffer is not reset
  /\ flPc \in {"flush", "last flush"} /\ stage[Flusher] = "idle"
  /\ mutex = "free"
  /\ flPc' = IF flPc = "flush" THEN "select" ELSE "close"
  /\ hand' = [hand EXCEPT ![Flusher] = buffer]
  /\ stage' = [stage EXCEPT ![Flusher] = IF buffer = << >> THEN "idle" ELSE "file"]
  /\ UNCHANGED <<bufferVars, closeSent, target, fileVars, rotPc, rotDay, today,
                 output, forceVars, failures>>

GetBuffer ==
  /\ flPc \in {"flush", "last flush"} /\ stage[Flusher] = "idle"
  /\ mutex = "free"
  /\ flPc' = IF flPc = "flush" THEN "select" ELSE "close"
  /\ hand' = [hand EXCEPT ![Flusher] = buffer]
  /\ stage' = [stage EXCEPT ![Flusher] = IF buffer = << >> THEN "idle" ELSE "file"]
  /\ buffer' = << >>
  /\ UNCHANGED <<accepted, mutex, tokens, closeSent, target, fileVars, rotPc, rotDay,
                 today, output, forceVars, failures>>

-----------------------------------------------------------------------------
(* Close, of autoFlush and of CreateLogFile; each goes on once fileHandle  *)
(* is nil.                                                                 *)
Closes(g) ==
  \/ g = Flusher /\ flPc = "close" /\ stage[Flusher] = "idle"
  \/ g = Rotator /\ rotPc = "close"

GoesOn(g) ==
  IF g = Flusher THEN flPc' = "stopped" /\ UNCHANGED rotPc
                 ELSE rotPc' = "open" /\ UNCHANGED flPc

CloseNothing(g) ==
  /\ Closes(g)
  /\ logMutex = "free"
  /\ fileHandle = NoFile
  /\ GoesOn(g)
  /\ UNCHANGED <<bufferVars, closeSent, writeVars, fileVars, rotDay, today, output,
                 forceVars, failures>>

CloseHandle(g) ==
  /\ Closes(g)
  /\ logMutex = "free"
  /\ fileHandle # NoFile
  /\ fd' = [fd EXCEPT ![fileHandle].open = FALSE]
  /\ logMutex' = g
  /\ UNCHANGED <<bufferVars, closeSent, flPc, writeVars, fileHandle, rotPc, rotDay,
                 today, output, forceVars, failures>>

SetNil(g) ==
  /\ logMutex = g
  /\ fileHandle' = NoFile
  /\ logMutex' = "free"
  /\ GoesOn(g)
  /\ UNCHANGED <<bufferVars, closeSent, writeVars, fd, rotDay, today, output, forceVars,
                 failures>>

(* CheckLogFileRotation, once a second: a new file if there is none, or if *)
(* today's does not exist.                                                 *)
FileExists(d) == \E h \in DOMAIN fd : fd[h].day = d

RotateMissingOnly == \* mutant: a nil fileHandle is no reason to open the file
  /\ rotPc = "check"
  /\ ~FileExists(today)
  /\ rotDay' = today
  /\ rotPc' = "close"
  /\ UNCHANGED <<bufferVars, closeSent, flPc, writeVars, fileVars, today, output,
                 forceVars, failures>>

RotateOpening == \* mutant: CreateLogFile does not close the old file
  /\ rotPc = "check"
  /\ fileHandle = NoFile \/ ~FileExists(today)
  /\ rotDay' = today
  /\ rotPc' = "open"
  /\ UNCHANGED <<bufferVars, closeSent, flPc, writeVars, fileVars, today, output,
                 forceVars, failures>>

RotateAlways == \* mutant: a new file every second
  /\ rotPc = "check"
  /\ rotDay' = today
  /\ rotPc' = "close"
  /\ UNCHANGED <<bufferVars, closeSent, flPc, writeVars, fileVars, today, output,
                 forceVars, failures>>

Rotate ==
  /\ rotPc = "check"
  /\ fileHandle = NoFile \/ ~FileExists(today)
  /\ rotDay' = today
  /\ rotPc' = "close"
  /\ UNCHANGED <<bufferVars, closeSent, flPc, writeVars, fileVars, today, output,
                 forceVars, failures>>

Open ==
  /\ rotPc = "open"
  /\ rotPc' = "check"
  /\ \/ /\ fd' = Append(fd, [day |-> rotDay, open |-> TRUE])
        /\ fileHandle' = Len(fd) + 1
        /\ UNCHANGED failures
     \/ /\ failures < MaxFailures
        /\ failures' = failures + 1
        /\ UNCHANGED <<fd, fileHandle>>
  /\ UNCHANGED <<bufferVars, closeSent, flPc, writeVars, logMutex, rotDay, today, output,
                 forceVars>>

-----------------------------------------------------------------------------
(* ForceFlush(true): by SetOutput, which then starts autoFlush, and by the *)
(* application.  It takes no lock.                                         *)
ForceOn ==
  /\ flPc = "off" \/ forces < MaxForces
  /\ flushForce' = TRUE
  /\ overtaken' = (overtaken \/ buffer # << >> \/ hand[Flusher] # << >>)
  /\ forces' = IF flPc = "off" THEN forces ELSE forces + 1
  /\ flPc' = IF flPc = "off" THEN "select" ELSE flPc
  /\ UNCHANGED <<bufferVars, closeSent, writeVars, fileVars, rotPc, rotDay, today, output,
                 failures>>

ForceOff ==
  /\ flPc # "off"
  /\ flushForce' = FALSE
  /\ UNCHANGED <<bufferVars, closeSent, flPc, writeVars, fileVars, rotPc, rotDay, today,
                 output, overtaken, forces, failures>>

CloseOutput ==
  /\ flPc # "off" /\ ~closeSent
  /\ closeSent' = TRUE
  /\ UNCHANGED <<bufferVars, flPc, writeVars, fileVars, rotPc, rotDay, today, output,
                 forceVars, failures>>

Midnight ==
  /\ today < MaxDay
  /\ today' = today + 1
  /\ UNCHANGED <<bufferVars, closeSent, flPc, writeVars, fileVars, rotPc, rotDay, output,
                 forceVars, failures>>

-----------------------------------------------------------------------------
WriteStep(w) == ReadHandle(w) \/ WriteOut(w)
CloseStep(g) == CloseNothing(g) \/ CloseHandle(g) \/ SetNil(g)

FlusherStep ==
  \/ Tick \/ TakeToken \/ TakeClose \/ SayClosed \/ GetBuffer
  \/ WriteStep(Flusher) \/ CloseStep(Flusher)

RotatorStep == flPc # "off" /\ (Rotate \/ CloseStep(Rotator) \/ Open)

Next ==
  \/ AppWrites \/ WriteStep(App)
  \/ FlusherStep \/ RotatorStep
  \/ ForceOn \/ ForceOff \/ CloseOutput \/ Midnight

(* The goroutines go on; select takes no ready case for granted, but each  *)
(* in the end; a mutex is handed to who waits longest.                     *)
Spec ==
  /\ Init /\ [][Next]_vars
  /\ WF_vars(WriteStep(App))
  /\ WF_vars(FlusherStep) /\ SF_vars(GetBuffer) /\ SF_vars(TakeClose)
  /\ WF_vars(RotatorStep)
  /\ WF_vars(flPc = "off" /\ ForceOn)

-----------------------------------------------------------------------------
TypeOK ==
  /\ accepted \in 0..MaxLines + 1
  /\ buffer \in Seq(Line) /\ Len(buffer) <= MaxBuffer
  /\ mutex \in Writer \cup {"free"}
  /\ tokens \in 0..ChanSize
  /\ closeSent \in BOOLEAN
  /\ flPc \in {"off", "select", "flush", "say", "last flush", "close", "stopped"}
  /\ stage \in [Writer -> {"idle", "file", "write"}]
  /\ hand \in [Writer -> Seq(Line)]
  /\ target \in [Writer -> 0..Len(fd)]
  /\ fd \in Seq([day : Day, open : BOOLEAN])
  /\ fileHandle \in 0..Len(fd)
  /\ logMutex \in {"free", Flusher, Rotator}
  /\ rotPc \in {"check", "close", "open"}
  /\ rotDay \in Day /\ today \in Day
  /\ content \in [Day -> Seq(Line)] /\ stdout \in Seq(Line)
  /\ lost \subseteq Line /\ unwritten \subseteq Line
  /\ flushForce \in BOOLEAN /\ overtaken \in BOOLEAN /\ forces \in 0..MaxForces
  /\ failures \in 0..MaxFailures

(* Every line Write accepted is in exactly one place: waiting, in a        *)
(* writer's hand, in one of the files, on stdout, or gone, to a file       *)
(* closed under the writer or with a failed write.  None is written twice, *)
(* and none just vanishes.                                                 *)
Place == ({"buffer", "stdout"} \X {0}) \cup ({"hand"} \X Writer) \cup ({"file"} \X Day)
Kept ==
  [p \in Place |-> CASE p[1] = "buffer" -> buffer
                     [] p[1] = "hand"   -> hand[p[2]]
                     [] p[1] = "file"   -> content[p[2]]
                     [] p[1] = "stdout" -> stdout]
Gone == lost \cup unwritten
EachLineOnce ==
  /\ \A p \in Place : IsInjective(Kept[p])
  /\ \A p, q \in Place : p # q => ToSet(Kept[p]) \cap ToSet(Kept[q]) = {}
  /\ Gone \subseteq 1..accepted
  /\ UNION {ToSet(Kept[p]) : p \in Place} = (1..accepted) \ Gone

(* The lines appear in the order they were accepted, on stdout and in the  *)
(* files of one day after the other, through rotations, failures to open a *)
(* file and the end of the forced flush; only forcing it while lines wait  *)
(* lets others overtake them.                                              *)
Increasing(s) == \A i, j \in DOMAIN s : i < j => s[i] < s[j]
Before(S, T) == \A m \in S, n \in T : m < n
InOrder ==
  ~overtaken =>
    /\ Increasing(stdout)
    /\ \A d \in Day : Increasing(content[d])
    /\ \A d, e \in Day : d < e => Before(ToSet(content[d]), ToSet(content[e]))

(* No file is left open that fileHandle does not name, whoever closes and  *)
(* opens at the same time.                                                 *)
NoFileLeaked == \A h \in DOMAIN fd : fd[h].open => h = fileHandle

(* What becomes of a line is what module LineLog promises: it goes out     *)
(* once and in turn, to a file no later one was written after; a failed    *)
(* write leaves out the end of its own block and no more; and nothing is   *)
(* lost to a closed file before the first midnight unless CloseOutput was  *)
(* called.                                                                 *)
Waiting == ToSet(buffer) \cup UNION {ToSet(hand[w]) : w \in Writer}
Promise == INSTANCE LineLog WITH
  last <- accepted, waiting <- Waiting,
  file <- content, console <- stdout,
  day <- today, closed <- closeSent
PromiseKept == Promise!Spec

(* A line in the buffer is taken out of it, if autoFlush has not yet taken *)
(* the buffer for the last time.                                           *)
LinesLeaveBuffer ==
  \A i \in Line :
    (i \in ToSet(buffer) /\ flPc \notin {"close", "stopped"}) ~> i \notin ToSet(buffer)

(* The log goes to today's file in the end, though the date changes, the   *)
(* file cannot be opened at first, and autoFlush closes it.                *)
FollowsTheDay ==
  []<>(fileHandle # NoFile /\ fd[fileHandle].open /\ fd[fileHandle].day = today)

(* CloseOutput stops autoFlush in the end.                                 *)
CloseStops == closeSent ~> flPc = "stopped"
=============================================================================
