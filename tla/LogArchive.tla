------------------------------ MODULE LogArchive ------------------------------
(***************************************************************************)
(* ArchiveLogFiles (Log/LogImpl.go:221-331): every ten seconds, log files  *)
(* of earlier days are moved to a directory per day, and the directories   *)
(* of days long past are removed.  The log writer makes a file a day in    *)
(* the same directory.  A file is its day and what stands before the date  *)
(* in its name: "_", as the writer names its files (LogImpl.go:60), or     *)
(* ".", as in the files Log_test.go calls valid.                           *)
(***************************************************************************)
EXTENDS Integers

CONSTANTS
  FirstDay, LastDay, \* days of files there may be (a bound); the clock starts at 0
  KeepLogDays,       \* keepLogDays (30)
  MaxFailures        \* calls of the file system that fail (a bound)

ASSUME DayAssumption ==
  /\ FirstDay \in Int /\ LastDay \in Nat /\ FirstDay <= 0
  /\ KeepLogDays \in Nat /\ MaxFailures \in Nat

Day == FirstDay..LastDay
File == [sep : {"_", "."}, day : Day]

VARIABLES
  today,
  logDir,    \* log files in the log directory
  subDirs,   \* days with a directory of their own
  archive,   \* the files in each of them
  pc,        \* where ArchiveLogFiles is
  fileList,  \* what Readdir returned and is still to be looked at: files
  dirList,   \* the same: days of directories
  cleanMax,  \* cleanMaxDate
  passDay,   \* the day the pass began (for the properties)
  failures

vars == <<today, logDir, subDirs, archive, pc, fileList, dirList, cleanMax, passDay,
          failures>>

(* An earlier process left files and archived others.                      *)
Init ==
  /\ today = 0
  /\ logDir \in SUBSET {f \in File : f.day <= 0}
  /\ subDirs \in SUBSET {d \in Day : d < 0}
  /\ archive = [d \in Day |-> IF d \in subDirs THEN {[sep |-> ".", day |-> d]} ELSE {}]
  /\ pc = "sleep"
  /\ fileList = {} /\ dirList = {}
  /\ cleanMax = 0 /\ passDay = 0
  /\ failures = 0

NoDate == LastDay + 1
CreateDate(f) == IF f.sep = "." THEN f.day ELSE NoDate  \* getLogFileCreateDate

-----------------------------------------------------------------------------
Fails == failures < MaxFailures /\ failures' = failures + 1

(* moveOldLogFiles.  A directory that cannot be opened or read to its end  *)
(* counts for as much of it as was read.                                   *)
ReadLogDir ==
  /\ pc = "sleep"
  /\ pc' = "move"
  /\ \/ fileList' = logDir /\ UNCHANGED failures
     \/ fileList' \in SUBSET logDir /\ Fails
  /\ passDay' = today
  /\ UNCHANGED <<today, logDir, subDirs, archive, dirList, cleanMax>>

SkipFile(f) ==
  /\ pc = "move" /\ f \in fileList
  /\ \/ CreateDate(f) \in {NoDate, today} /\ UNCHANGED <<subDirs, failures>>
     \/ /\ CreateDate(f) \notin {NoDate, today}
        /\ Fails
        /\ subDirs' \in {subDirs, subDirs \cup {f.day}}
  /\ fileList' = fileList \ {f}
  /\ UNCHANGED <<today, logDir, archive, pc, dirList, cleanMax, passDay>>

MoveAny(f) == \* mutant: today's files are moved like all others
  /\ pc = "move" /\ f \in fileList
  /\ CreateDate(f) # NoDate
  /\ subDirs' = subDirs \cup {f.day}
  /\ logDir' = logDir \ {f}
  /\ archive' = [archive EXCEPT ![f.day] = @ \cup {f}]
  /\ fileList' = fileList \ {f}
  /\ UNCHANGED <<today, pc, dirList, cleanMax, passDay, failures>>

MoveToToday(f) == \* mutant: to the directory of the day of the move
  /\ pc = "move" /\ f \in fileList
  /\ CreateDate(f) \notin {NoDate, today}
  /\ subDirs' = subDirs \cup {today}
  /\ logDir' = logDir \ {f}
  /\ archive' = [archive EXCEPT ![today] = @ \cup {f}]
  /\ fileList' = fileList \ {f}
  /\ UNCHANGED <<today, pc, dirList, cleanMax, passDay, failures>>

MoveFile(f) ==
  /\ pc = "move" /\ f \in fileList
  /\ CreateDate(f) \notin {NoDate, today}
  /\ subDirs' = subDirs \cup {f.day}
  /\ logDir' = logDir \ {f}
  /\ archive' = [archive EXCEPT ![f.day] = @ \cup {f}]
  /\ fileList' = fileList \ {f}
  /\ UNCHANGED <<today, pc, dirList, cleanMax, passDay, failures>>

(* cleanOldLogFiles                                                        *)
ReadSubDirs ==
  /\ pc = "move" /\ fileList = {}
  /\ pc' = "clean"
  /\ \/ dirList' = subDirs /\ UNCHANGED failures
     \/ dirList' \in SUBSET subDirs /\ Fails
  /\ cleanMax' = today - KeepLogDays
  /\ UNCHANGED <<today, logDir, subDirs, archive, fileList, passDay>>

RemoveDirOnly(d) == \* mutant: without the files in it
  /\ pc = "clean" /\ d \in dirList
  /\ d < cleanMax
  /\ dirList' = dirList \ {d}
  /\ subDirs' = subDirs \ {d}
  /\ UNCHANGED <<today, logDir, archive, pc, fileList, cleanMax, passDay, failures>>

RemoveFrom(d) == \* mutant: removes what is to be kept for its last day
  /\ pc = "clean" /\ d \in dirList
  /\ d <= cleanMax
  /\ dirList' = dirList \ {d}
  /\ subDirs' = subDirs \ {d}
  /\ archive' = [archive EXCEPT ![d] = {}]
  /\ UNCHANGED <<today, logDir, pc, fileList, cleanMax, passDay, failures>>

(* RemoveAll; when it fails, some of the files may be gone already.        *)
RemoveDir(d) ==
  /\ pc = "clean" /\ d \in dirList
  /\ d < cleanMax
  /\ dirList' = dirList \ {d}
  /\ \/ /\ subDirs' = subDirs \ {d}
        /\ archive' = [archive EXCEPT ![d] = {}]
        /\ UNCHANGED failures
     \/ /\ \E left \in SUBSET archive[d] : archive' = [archive EXCEPT ![d] = left]
        /\ Fails
        /\ UNCHANGED subDirs
  /\ UNCHANGED <<today, logDir, pc, fileList, cleanMax, passDay>>

KeepDir(d) ==
  /\ pc = "clean" /\ d \in dirList
  /\ d >= cleanMax
  /\ dirList' = dirList \ {d}
  /\ UNCHANGED <<today, logDir, subDirs, archive, pc, fileList, cleanMax, passDay, failures>>

Sleep ==
  /\ pc = "clean" /\ dirList = {}
  /\ pc' = "sleep"
  /\ UNCHANGED <<today, logDir, subDirs, archive, fileList, dirList, cleanMax, passDay,
                 failures>>

-----------------------------------------------------------------------------
(* The log writer makes today's file, if it is missing.                    *)
CreateLogFile ==
  /\ logDir' = logDir \cup {[sep |-> "_", day |-> today]}
  /\ UNCHANGED <<today, subDirs, archive, pc, fileList, dirList, cleanMax, passDay,
                 failures>>

Midnight ==
  /\ today < LastDay
  /\ today' = today + 1
  /\ UNCHANGED <<logDir, subDirs, archive, pc, fileList, dirList, cleanMax, passDay,
                 failures>>

ArchiveStep ==
  \/ ReadLogDir \/ (\E f \in File : SkipFile(f) \/ MoveFile(f))
  \/ ReadSubDirs \/ (\E d \in Day : RemoveDir(d) \/ KeepDir(d)) \/ Sleep

Next == ArchiveStep \/ CreateLogFile \/ Midnight

Spec == Init /\ [][Next]_vars /\ WF_vars(ArchiveStep)

-----------------------------------------------------------------------------
TypeOK ==
  /\ today \in Day /\ passDay \in Day
  /\ logDir \subseteq File /\ fileList \subseteq logDir
  /\ subDirs \subseteq Day /\ dirList \subseteq subDirs
  /\ archive \in [Day -> SUBSET File]
  /\ \A d \in Day \ subDirs : archive[d] = {}
  /\ pc \in {"sleep", "move", "clean"}
  /\ cleanMax \in Int
  /\ failures \in 0..MaxFailures

Everywhere(dir, ar) == dir \cup UNION {ar[d] : d \in Day}

(* No step of the archiver loses a file that is not older than KeepLogDays *)
(* on that day, though the date may change in the middle of a pass.        *)
KeptLongEnough ==
  [][\A f \in Everywhere(logDir, archive) :
       f.day >= today - KeepLogDays => f \in Everywhere(logDir', archive')]_vars

(* The file the writer writes to today stays where it writes.              *)
TodayStays ==
  [][\A f \in logDir : f.day = today => f \in logDir']_vars

(* Whatever is archived is in the directory of its own day, so that it is  *)
(* removed with the files of its age.                                      *)
FiledByDay == \A d \in Day : \A f \in archive[d] : f.day = d

(* Log_test.go:270-273, "ValidLogFile" with "app.20240105.log" for the 5th *)
(* of January: the files the archiver is to see the date of are log files; *)
(* after a pass without failures none of an earlier day is left behind.    *)
OldFilesArchived ==
  pc = "clean" /\ failures = 0 => \A f \in logDir : f.day >= passDay
=============================================================================
