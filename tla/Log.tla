---------------------------------- MODULE Log ----------------------------------
(***************************************************************************)
(* CLog (liblog/log.cc), under the threads of a process and over its       *)
(* starts: lines are written to a file; when it is full it is renamed to   *)
(* the next free number, an old file may be removed, and the file is       *)
(* opened again. The class declares a lock, _log_lock, and nothing takes   *)
(* it: the threads' calls are interleaved between any two steps here. What *)
(* becomes of a FILE that one thread closes while another one is inside of *)
(* fprintf or fclose is undefined; of that, only the end of the process is *)
(* modelled.                                                               *)
(*                                                                         *)
(* A line is a number. Sizes are counted in lines. A call that the level   *)
(* filters out (WRITE_LOG, line 14) or that finds no file (17) changes     *)
(* nothing.                                                                *)
(***************************************************************************)
EXTENDS Integers

CONSTANTS Writer,      \* the threads that log
          MaxLogSize,  \* _max_log_size, in lines
          MaxLogNum,   \* _max_log_num
          IntMax,      \* the largest int, in lines
          MaxLines     \* bound: how many lines are written

ASSUME LogAssumption == /\ MaxLogSize \in Nat \ {0}
                        /\ MaxLogNum \in Nat \ {0}
                        /\ IntMax \in Nat
                        /\ MaxLines \in Nat

VARIABLES files,    \* the disk: the lines of each file, by the file's name
          fp,       \* _fp: the name of its file, which a rename changes
          buffer,   \* the lines that stdio keeps for fp
          logSize,  \* _log_size
          logNum,   \* _log_num
          logIdx,   \* _log_file_idx
          logBuf,   \* _log_buf, one for all threads: the line in it
          place,    \* where a thread is in its call
          line,     \* the line that its call is for, until it is printed
          target,   \* the number in its sNewLogFileName
          lines,    \* how many lines were begun
          logged,   \* the lines whose fprintf succeeded
          removed,  \* the lines of the files that shift_files removed
          lost,     \* the lines that stdio did not get to the disk
          older     \* the numbered files that there were when the process began

counters == <<logSize, logNum, logIdx>>
disk == <<files, buffer, lost>>
logVars == <<disk, fp, counters, logBuf, place, line, target, lines, logged, removed, older>>

\* The names: the log itself, and its rotated files by number. _fp can also be
\* NULL, or a file that has no name any more.
Current == -1
Closed == -2
Unlinked == -3
Name == Nat \cup {Current}

Line == 1..MaxLines
Idle == [w \in Writer |-> "idle"]
Zero == [w \in Writer |-> 0]

LogInit ==
  /\ files = [n \in {Current} |-> {}]
  /\ fp = Current /\ buffer = {}
  /\ logSize = 0 /\ logNum = 0 /\ logIdx = 0
  /\ logBuf = 0
  /\ place = Idle /\ line = Zero /\ target = Zero
  /\ lines = 0
  /\ logged = {} /\ removed = {} /\ lost = {}
  /\ older = [n \in {} |-> {}]

Moves(w, p) == place' = [place EXCEPT ![w] = p]

-----------------------------------------------------------------------------
\* What is in the buffer goes to the file of fp, whatever its name is by now.
Flushed == IF fp \in DOMAIN files THEN [files EXCEPT ![fp] = @ \cup buffer] ELSE files

\* stdio writes its buffer when it is full.
Flush ==
  /\ buffer # {}
  /\ files' = Flushed /\ buffer' = {}
  /\ UNCHANGED <<fp, counters, logBuf, place, line, target, lines, logged, removed, lost, older>>

\* Mistake: the pointer is set to NULL, and the file is not closed.
CloseLeaks == fp' = Closed /\ UNCHANGED disk

\* close(): nobody looks whether fclose could write what was left.
Close ==
  /\ fp' = Closed /\ buffer' = {}
  /\ \/ files' = Flushed /\ UNCHANGED lost
     \/ lost' = lost \cup buffer /\ UNCHANGED files

\* fopen with "a" makes the file if it is not there. A file that another thread has
\* opened meanwhile is forgotten, with what is in its buffer.
Open ==
  /\ buffer' = {} /\ lost' = lost \cup buffer
  /\ \/ /\ fp' = Current
        /\ files' = IF Current \in DOMAIN files THEN files
                    ELSE [n \in DOMAIN files \cup {Current} |->
                            IF n = Current THEN {} ELSE files[n]]
     \/ fp' = Closed /\ UNCHANGED files

\* The process ends, wherever its threads are: by main's last part, which closes the
\* log, or killed, with what stdio keeps. Its memory matters no more.
Vanish ==
  /\ fp' = Closed /\ buffer' = {}
  /\ logSize' = 0 /\ logNum' = 0 /\ logIdx' = 0 /\ logBuf' = 0
  /\ place' = Idle /\ line' = Zero /\ target' = Zero
  /\ UNCHANGED <<lines, logged, removed, older>>

Exit == Vanish /\ files' = Flushed /\ UNCHANGED lost
Crash == Vanish /\ lost' = lost \cup buffer /\ UNCHANGED files

\* After its end a new process makes its CLog, which knows nothing of the files
\* there are.
Construct ==
  /\ fp = Closed /\ place = Idle
  /\ Open
  /\ logSize' = 0 /\ logNum' = 0 /\ logIdx' = 0 /\ logBuf' = 0
  /\ older' = [n \in DOMAIN files \cap Nat |-> files[n]]
  /\ UNCHANGED <<place, line, target, lines, logged, removed>>

-----------------------------------------------------------------------------
\* A call formats its line into the buffer.
Begin(w) ==
  /\ place[w] = "idle"
  /\ fp # Closed
  /\ lines < MaxLines
  /\ lines' = lines + 1
  /\ logBuf' = lines'
  /\ line' = [line EXCEPT ![w] = lines']
  /\ Moves(w, "print")
  /\ UNCHANGED <<disk, fp, counters, target, logged, removed, older>>

\* fprintf: it prints what the buffer has now; if it fails, the file is closed.
WriteLine(w) ==
  /\ place[w] = "print" /\ fp # Closed
  /\ \/ /\ buffer' = buffer \cup {logBuf}
        /\ logged' = logged \cup {line[w]}
        /\ Moves(w, "count")
        /\ UNCHANGED <<files, fp, lost>>
     \/ /\ Close
        /\ Moves(w, "idle")
        /\ UNCHANGED logged
  /\ line' = [line EXCEPT ![w] = 0]
  /\ UNCHANGED <<counters, logBuf, target, lines, removed, older>>

\* Between two of its steps another thread closed the file: fprintf(NULL).
PrintClosed(w) == place[w] = "print" /\ fp = Closed /\ Crash

Full(size) == size >= MaxLogSize

\* An int that no line sets back: once full, every line is followed by a rotation,
\* until it overflows.
Grown(size) == IF size = IntMax THEN -IntMax - 1 ELSE size + 1

\* The size grows; a rotation begins with close().
Count(w) ==
  /\ place[w] = "count"
  /\ logSize' = Grown(logSize)
  /\ IF Full(logSize') THEN Close /\ Moves(w, "probe")
                       ELSE Moves(w, "idle") /\ UNCHANGED <<disk, fp>>
  /\ UNCHANGED <<logNum, logIdx, logBuf, line, target, lines, logged, removed, older>>

-----------------------------------------------------------------------------
(* shift_files: the loop over the numbers *)

Probe(w) ==
  /\ place[w] = "probe"
  /\ target' = [target EXCEPT ![w] = logIdx]
  /\ Moves(w, "access")
  /\ UNCHANGED <<disk, fp, counters, logBuf, line, lines, logged, removed, older>>

\* Mistake: shift_files does not look whether the name is taken.
NeverTaken(n) == FALSE
Taken(n) == n \in DOMAIN files

Access(w) ==
  /\ place[w] = "access"
  /\ Moves(w, IF Taken(target[w]) THEN "number" ELSE "rename")
  /\ UNCHANGED <<disk, fp, counters, logBuf, line, target, lines, logged, removed, older>>

\* One more file is counted; with enough of them an old one goes.
Number(w) ==
  /\ place[w] = "number"
  /\ logNum' = logNum + 1
  /\ Moves(w, IF logNum' >= MaxLogNum THEN "remove" ELSE "next")
  /\ UNCHANGED <<disk, fp, logSize, logIdx, logBuf, line, target, lines, logged, removed, older>>

Oldest(idx) == idx - MaxLogNum

\* remove() may fail, for one because no file has a number below 0; the count is
\* lowered all the same.
Remove(w) ==
  LET n == Oldest(logIdx)
  IN /\ place[w] = "remove"
     /\ \/ /\ n \in Nat /\ n \in DOMAIN files
           /\ files' = [m \in DOMAIN files \ {n} |-> files[m]]
           /\ removed' = removed \cup files[n]
           /\ fp' = IF fp = n THEN Unlinked ELSE fp
        \/ UNCHANGED <<files, removed, fp>>
     /\ logNum' = logNum - 1
     /\ Moves(w, "next")
     /\ UNCHANGED <<buffer, lost, logSize, logIdx, logBuf, line, target, lines, logged, older>>

Step(w) ==
  /\ place[w] = "next"
  /\ logIdx' = logIdx + 1
  /\ Moves(w, "probe")
  /\ UNCHANGED <<disk, fp, logSize, logNum, logBuf, line, target, lines, logged, removed, older>>

\* rename() replaces a file of the new name, should there be one by now.
Renamed(n) ==
  [m \in (DOMAIN files \ {Current}) \cup {n} |-> IF m = n THEN files[Current] ELSE files[m]]

Rename(w) ==
  /\ place[w] = "rename"
  /\ \/ /\ Current \in DOMAIN files
        /\ files' = Renamed(target[w])
        /\ fp' = CASE fp = Current -> target[w]
                   [] fp = target[w] -> Unlinked
                   [] OTHER -> fp
        /\ Moves(w, "open")
     \/ \* it fails; the log stays closed
        /\ Moves(w, "idle")
        /\ UNCHANGED <<files, fp>>
  /\ UNCHANGED <<buffer, lost, counters, logBuf, line, target, lines, logged, removed, older>>

Reopen(w) ==
  /\ place[w] = "open"
  /\ Open
  /\ Moves(w, "idle")
  /\ UNCHANGED <<counters, logBuf, line, target, lines, logged, removed, older>>

LogNext ==
  \/ \E w \in Writer : \/ Begin(w) \/ WriteLine(w) \/ PrintClosed(w) \/ Count(w)
                       \/ Probe(w) \/ Access(w) \/ Number(w) \/ Remove(w) \/ Step(w)
                       \/ Rename(w) \/ Reopen(w)
  \/ Flush \/ Exit \/ Crash \/ Construct

LogSpec == LogInit /\ [][LogNext]_logVars

-----------------------------------------------------------------------------
\* The type invariant. Only an open file has lines in stdio's buffer.
LogTypeOK ==
  /\ DOMAIN files \subseteq Name /\ DOMAIN older \subseteq Nat
  /\ \A n \in DOMAIN files : files[n] \subseteq Line
  /\ fp \in Name \cup {Closed, Unlinked}
  /\ buffer \subseteq Line /\ (fp = Closed => buffer = {})
  /\ logSize \in (-IntMax - 1)..IntMax /\ logNum \in Int /\ logIdx \in Nat
  /\ logBuf \in 0..MaxLines /\ lines \in 0..MaxLines
  /\ place \in [Writer -> {"idle", "print", "count", "probe", "access", "number", "remove",
                           "next", "rename", "open"}]
  /\ target \in [Writer -> Nat]

\* A rotated file that an earlier process left keeps its lines until shift_files removes
\* it for its age: "if there is a file of that name already, the number grows" (log.h:11).
\* However the threads interleave, and wherever a process ends, no rename covers it.
OlderFilesKept ==
  \A n \in DOMAIN older :
    older[n] \subseteq removed \cup (IF n \in DOMAIN files THEN files[n] ELSE {})

Written == UNION {files[n] : n \in DOMAIN files}

\* What log.h:7 promises to several threads: every line that a call has written is in a
\* file or on its way to it, but for the files that were removed and what stdio lost.
LinesKept == logged \subseteq Written \cup buffer \cup removed \cup lost
=============================================================================
