-------------------------- MODULE LogArchiveProofs ---------------------------
(* The archiver for any days, files, dates of a change of day and failures. *)
EXTENDS LogArchive, TLAPS

(* The day before which directories are removed is fixed when they are     *)
(* listed; the clock may only move on from there.                          *)
CleaningInv == pc = "clean" => cleanMax <= today - KeepLogDays

IInv == TypeOK /\ FiledByDay /\ CleaningInv

-----------------------------------------------------------------------------
LEMMA DayInteger == Day \subseteq Int
BY DayAssumption DEF Day

LEMMA FileFields ==
  ASSUME NEW f \in File
  PROVE f.day \in Day /\ f.sep \in {"_", "."}
BY DEF File

(* A file that is moved has a date of its own that is not today's.         *)
LEMMA MovedIsOld ==
  ASSUME NEW f \in File, CreateDate(f) \notin {NoDate, today}
  PROVE f.sep = "." /\ f.day # today
BY DEF CreateDate

(* An archive with one more file in one directory, and one with less.      *)
LEMMA Filed ==
  ASSUME NEW ar \in [Day -> SUBSET File], NEW f \in File,
         NEW br, br = [ar EXCEPT ![f.day] = @ \cup {f}]
  PROVE /\ br \in [Day -> SUBSET File]
        /\ \A d \in Day : br[d] = IF d = f.day THEN ar[d] \cup {f} ELSE ar[d]
<1>1. f.day \in Day
  BY FileFields
<1> QED
  BY <1>1

LEMMA Emptied ==
  ASSUME NEW ar \in [Day -> SUBSET File], NEW d \in Day, NEW left \in SUBSET ar[d],
         NEW br, br = [ar EXCEPT ![d] = left]
  PROVE /\ br \in [Day -> SUBSET File]
        /\ \A e \in Day : br[e] = IF e = d THEN left ELSE ar[e]
OBVIOUS

(* Failures are counted to their bound.                                    *)
LEMMA FailureType ==
  ASSUME TypeOK, failures' = failures \/ Fails
  PROVE failures' \in 0..MaxFailures
BY DayAssumption DEF TypeOK, Fails

LEMMA InductiveInit == Init => IInv
<1> SUFFICES ASSUME Init PROVE IInv
  OBVIOUS
<1>1. 0 \in Day
  BY DayAssumption DEF Day
<1>2. ASSUME NEW d \in Day
      PROVE archive[d] = IF d \in subDirs THEN {[sep |-> ".", day |-> d]} ELSE {}
  BY DEF Init
<1>3. ASSUME NEW d \in Day PROVE [sep |-> ".", day |-> d] \in File
  BY DEF File
<1>4. archive \in [Day -> SUBSET File]
  BY <1>3 DEF Init
<1>5. TypeOK
  BY <1>1, <1>2, <1>4, DayAssumption DEF Init, TypeOK
<1>6. ASSUME NEW d \in Day, NEW f \in archive[d] PROVE f.day = d
  <2>1. f = [sep |-> ".", day |-> d]
    BY <1>2, <1>6
  <2> QED
    BY <2>1
<1> QED
  BY <1>5, <1>6 DEF IInv, FiledByDay, CleaningInv, Init

-----------------------------------------------------------------------------
LEMMA MoveFileStep ==
  ASSUME IInv, NEW f \in File, MoveFile(f)
  PROVE IInv'
<1>1. /\ pc = "move" /\ f \in fileList
      /\ subDirs' = subDirs \cup {f.day}
      /\ logDir' = logDir \ {f}
      /\ archive' = [archive EXCEPT ![f.day] = @ \cup {f}]
      /\ fileList' = fileList \ {f}
      /\ UNCHANGED <<today, pc, dirList, cleanMax, passDay, failures>>
  BY DEF MoveFile
<1>2. f.day \in Day /\ archive \in [Day -> SUBSET File]
  BY FileFields DEF IInv, TypeOK
<1>3. /\ archive' \in [Day -> SUBSET File]
      /\ \A d \in Day : archive'[d] = IF d = f.day THEN archive[d] \cup {f} ELSE archive[d]
  BY <1>1, <1>2, Filed
<1>4. TypeOK'
  BY <1>1, <1>2, <1>3 DEF IInv, TypeOK
<1>5. FiledByDay'
  BY <1>3 DEF IInv, FiledByDay
<1> QED
  BY <1>1, <1>4, <1>5 DEF IInv, CleaningInv

LEMMA SkipFileStep ==
  ASSUME IInv, NEW f \in File, SkipFile(f)
  PROVE IInv'
<1>1. /\ pc = "move"
      /\ subDirs' = subDirs \/ subDirs' = subDirs \cup {f.day}
      /\ failures' = failures \/ Fails
      /\ fileList' = fileList \ {f}
      /\ UNCHANGED <<today, logDir, archive, pc, dirList, cleanMax, passDay>>
  BY DEF SkipFile
<1>2. f.day \in Day
  BY FileFields
<1>3. failures' \in 0..MaxFailures
  BY <1>1, FailureType DEF IInv
<1>4. TypeOK'
  BY <1>1, <1>2, <1>3 DEF IInv, TypeOK
<1> QED
  BY <1>1, <1>4 DEF IInv, CleaningInv, FiledByDay

(* RemoveDir takes files of its own directory only.                        *)
LEMMA RemovedFrom ==
  ASSUME IInv, NEW d \in Day, RemoveDir(d)
  PROVE /\ archive' \in [Day -> SUBSET File]
        /\ \A e \in Day : archive'[e] \subseteq archive[e]
        /\ \A e \in Day : e # d => archive'[e] = archive[e]
        /\ d \notin subDirs' => archive'[d] = {}
        /\ subDirs' = subDirs \ {d} \/ subDirs' = subDirs
<1>1. archive \in [Day -> SUBSET File]
  BY DEF IInv, TypeOK
<1>2. CASE archive' = [archive EXCEPT ![d] = {}] /\ subDirs' = subDirs \ {d}
  <2>1. /\ archive' \in [Day -> SUBSET File]
        /\ \A e \in Day : archive'[e] = IF e = d THEN {} ELSE archive[e]
    BY <1>1, <1>2, Emptied
  <2> QED
    BY <1>2, <2>1
<1>3. ASSUME NEW left \in SUBSET archive[d], archive' = [archive EXCEPT ![d] = left],
             subDirs' = subDirs
      PROVE  /\ archive' \in [Day -> SUBSET File]
             /\ \A e \in Day : archive'[e] = IF e = d THEN left ELSE archive[e]
  BY <1>1, <1>3, Emptied
<1>4. subDirs' = subDirs => d \in subDirs'
  BY DEF RemoveDir, IInv, TypeOK
<1> QED
  BY <1>2, <1>3, <1>4 DEF RemoveDir

LEMMA RemoveDirStep ==
  ASSUME IInv, NEW d \in Day, RemoveDir(d)
  PROVE IInv'
<1>1. /\ dirList' = dirList \ {d}
      /\ failures' = failures \/ Fails
      /\ UNCHANGED <<today, logDir, pc, fileList, cleanMax, passDay>>
  BY DEF RemoveDir
<1>2. /\ archive' \in [Day -> SUBSET File]
      /\ \A e \in Day : archive'[e] \subseteq archive[e]
      /\ \A e \in Day : e # d => archive'[e] = archive[e]
      /\ d \notin subDirs' => archive'[d] = {}
      /\ subDirs' = subDirs \ {d} \/ subDirs' = subDirs
  BY RemovedFrom
<1>3. failures' \in 0..MaxFailures
  BY <1>1, FailureType DEF IInv
<1>4. \A e \in Day \ subDirs' : archive'[e] = {}
  BY <1>2 DEF IInv, TypeOK
<1>5. TypeOK'
  BY <1>1, <1>2, <1>3, <1>4 DEF IInv, TypeOK
<1>6. FiledByDay'
  BY <1>2 DEF IInv, FiledByDay
<1> QED
  BY <1>1, <1>5, <1>6 DEF IInv, CleaningInv

LEMMA InductiveStep == IInv /\ [Next]_vars => IInv'
<1> SUFFICES ASSUME IInv, [Next]_vars PROVE IInv'
  OBVIOUS
<1>1. today \in Int /\ KeepLogDays \in Int
  BY DayAssumption, DayInteger DEF IInv, TypeOK
<1>2. CASE UNCHANGED vars
  BY <1>2 DEF vars, IInv, TypeOK, FiledByDay, CleaningInv
<1>3. CASE ReadLogDir
  <2>1. failures' \in 0..MaxFailures
    BY <1>3, FailureType DEF ReadLogDir, IInv
  <2> QED
    BY <1>3, <2>1 DEF ReadLogDir, IInv, TypeOK, FiledByDay, CleaningInv
<1>4. CASE ReadSubDirs
  <2>1. failures' \in 0..MaxFailures
    BY <1>4, FailureType DEF ReadSubDirs, IInv
  <2> QED
    BY <1>1, <1>4, <2>1 DEF ReadSubDirs, IInv, TypeOK, FiledByDay, CleaningInv
<1>5. ASSUME NEW d \in Day, KeepDir(d) PROVE IInv'
  BY <1>5 DEF KeepDir, IInv, TypeOK, FiledByDay, CleaningInv
<1>6. CASE Sleep
  BY <1>6 DEF Sleep, IInv, TypeOK, FiledByDay, CleaningInv
<1>7. CASE CreateLogFile
  <2>1. [sep |-> "_", day |-> today] \in File
    BY DEF IInv, TypeOK, File
  <2>2. TypeOK'
    BY <1>7, <2>1 DEF CreateLogFile, IInv, TypeOK
  <2> QED
    BY <1>7, <2>2 DEF CreateLogFile, IInv, FiledByDay, CleaningInv
<1>8. CASE Midnight
  <2>1. today' \in Day
    BY <1>8, DayAssumption DEF Midnight, IInv, TypeOK, Day
  <2>2. TypeOK'
    BY <1>8, <2>1 DEF Midnight, IInv, TypeOK
  <2>3. CleaningInv'
    <3>1. cleanMax \in Int
      BY DEF IInv, TypeOK
    <3> QED
      BY <1>1, <1>8, <3>1 DEF Midnight, IInv, CleaningInv
  <2> QED
    BY <1>8, <2>2, <2>3 DEF Midnight, IInv, FiledByDay
<1> QED
  BY <1>2, <1>3, <1>4, <1>5, <1>6, <1>7, <1>8, MoveFileStep, SkipFileStep, RemoveDirStep
     DEF Next, ArchiveStep

(* Every state satisfies it.                                               *)
LEMMA Invariance == Spec => []IInv
BY InductiveInit, InductiveStep, PTL DEF Spec

-----------------------------------------------------------------------------
(* Files are known, a pass works on files and directories that exist, and  *)
(* no file is in a day's place that is not a directory.                    *)
THEOREM TypeCorrect == Spec => []TypeOK
<1>1. IInv => TypeOK
  BY DEF IInv
<1> QED
  BY <1>1, Invariance, PTL

(* A file is archived in the directory of its own day only, whatever day   *)
(* it is when it is moved.                                                 *)
THEOREM OwnDirectory == Spec => []FiledByDay
<1>1. IInv => FiledByDay
  BY DEF IInv
<1> QED
  BY <1>1, Invariance, PTL

-----------------------------------------------------------------------------
(* Nothing but MoveFile and RemoveDir takes a file from where it is.       *)
LEMMA OthersKeepFiles ==
  ASSUME IInv, [Next]_vars,
         ~ \E f \in File : MoveFile(f),
         ~ \E d \in Day : RemoveDir(d)
  PROVE logDir \subseteq logDir' /\ archive' = archive
BY DEF Next, ArchiveStep, ReadLogDir, SkipFile, ReadSubDirs, KeepDir, Sleep,
       CreateLogFile, Midnight, vars

LEMMA KeepsLongEnough ==
  ASSUME IInv, [Next]_vars, NEW f \in Everywhere(logDir, archive),
         f.day >= today - KeepLogDays
  PROVE f \in Everywhere(logDir', archive')
<1>1. f \in logDir \/ \E d \in Day : f \in archive[d]
  BY DEF Everywhere
<1>2. ASSUME NEW g \in File, MoveFile(g) PROVE f \in Everywhere(logDir', archive')
  <2>1. /\ logDir' = logDir \ {g}
        /\ archive' = [archive EXCEPT ![g.day] = @ \cup {g}]
    BY <1>2 DEF MoveFile
  <2>2. archive \in [Day -> SUBSET File]
    BY DEF IInv, TypeOK
  <2>3. \A d \in Day : archive'[d] = IF d = g.day THEN archive[d] \cup {g} ELSE archive[d]
    BY <2>1, <2>2, Filed
  <2>4. g.day \in Day
    BY FileFields
  <2>5. f \in logDir' \/ \E d \in Day : f \in archive'[d]
    BY <1>1, <2>1, <2>3, <2>4
  <2> QED
    BY <2>5 DEF Everywhere
<1>3. ASSUME NEW d \in Day, RemoveDir(d) PROVE f \in Everywhere(logDir', archive')
  <2>1. pc = "clean" /\ d < cleanMax /\ logDir' = logDir
    BY <1>3 DEF RemoveDir
  <2>3. \A e \in Day : e # d => archive'[e] = archive[e]
    BY <1>3, RemovedFrom
  <2>4. f \notin archive[d]
    <3>1. d < today - KeepLogDays
      <4>1. d \in Int /\ today \in Int /\ KeepLogDays \in Int /\ cleanMax \in Int
        BY DayInteger, DayAssumption DEF IInv, TypeOK
      <4>2. cleanMax <= today - KeepLogDays
        BY <2>1 DEF IInv, CleaningInv
      <4> QED
        BY <2>1, <4>1, <4>2
    <3>2. d \in Int /\ today - KeepLogDays \in Int
      BY DayInteger, DayAssumption DEF IInv, TypeOK
    <3>3. f \in archive[d] => f.day = d
      BY DEF IInv, FiledByDay
    <3> QED
      BY <3>1, <3>2, <3>3
  <2>5. f \in logDir' \/ \E e \in Day : f \in archive'[e]
    BY <1>1, <2>1, <2>3, <2>4
  <2> QED
    BY <2>5 DEF Everywhere
<1>4. CASE ~ (\E g \in File : MoveFile(g)) /\ ~ (\E d \in Day : RemoveDir(d))
  <2>1. logDir \subseteq logDir' /\ archive' = archive
    BY <1>4, OthersKeepFiles
  <2> QED
    BY <1>1, <2>1 DEF Everywhere
<1> QED
  BY <1>2, <1>3, <1>4

LEMMA KeepsTodays ==
  ASSUME IInv, [Next]_vars, NEW f \in logDir, f.day = today
  PROVE f \in logDir'
<1>1. f \in File
  BY DEF IInv, TypeOK
<1>2. ASSUME NEW g \in File, MoveFile(g) PROVE f \in logDir'
  <2>1. logDir' = logDir \ {g} /\ CreateDate(g) \notin {NoDate, today}
    BY <1>2 DEF MoveFile
  <2>2. g # f
    BY <2>1, MovedIsOld
  <2> QED
    BY <2>1, <2>2
<1>3. ASSUME NEW d \in Day, RemoveDir(d) PROVE f \in logDir'
  BY <1>3 DEF RemoveDir
<1>4. CASE ~ (\E g \in File : MoveFile(g)) /\ ~ (\E d \in Day : RemoveDir(d))
  BY <1>4, OthersKeepFiles
<1> QED
  BY <1>2, <1>3, <1>4

(* No file that is not older than KeepLogDays is lost, though it may be    *)
(* moved, and though the day may change while a pass is under way.         *)
THEOREM Kept == Spec => KeptLongEnough
<1>1. IInv /\ [Next]_vars =>
        [\A f \in Everywhere(logDir, archive) :
           f.day >= today - KeepLogDays => f \in Everywhere(logDir', archive')]_vars
  BY KeepsLongEnough
<1> QED
  BY <1>1, Invariance, PTL DEF Spec, KeptLongEnough

(* Today's file is never moved from under the log writer.                  *)
THEOREM TodaysFileStays == Spec => TodayStays
<1>1. IInv /\ [Next]_vars => [\A f \in logDir : f.day = today => f \in logDir']_vars
  BY KeepsTodays
<1> QED
  BY <1>1, Invariance, PTL DEF Spec, TodayStays
=============================================================================
