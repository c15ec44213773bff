---------------------------- MODULE InstanceProofs ----------------------------
(***************************************************************************)
(* The program's pid file, for any connections, and the rotation of its    *)
(* log, for any threads, sizes and numbers of files.                       *)
(***************************************************************************)
EXTENDS Instance, Log, TLAPS

\* The places from the creation of the pid file to its removal.
Serving == {"signals", "setup", "arm", "wait", "accept", "add", "busy", "again", "clean",
            "delete"}

\* Outside of them a pid file is one that a killed process left.
PidInv ==
  /\ at \in Serving => pidFile
  /\ at \notin Serving /\ pidFile => killed

LEMMA PidInit == Init => PidInv
BY DEF Init, PidInv, Serving

\* Most of main's steps stay on their side of the border.
LEMMA PidStays ==
  ASSUME PidInv, UNCHANGED pid, at \in Serving <=> at' \in Serving
  PROVE  PidInv'
BY DEF PidInv, pid, Serving

LEMMA PidStep == PidInv /\ [Next]_vars => PidInv'
<1> SUFFICES ASSUME PidInv, [Next]_vars PROVE PidInv'
  OBVIOUS
<1> USE DEF Serving, Goto
<1>1. CASE UNCHANGED vars
  BY <1>1, PidStays DEF vars
<1>2. CASE Start \/ Daemonize
  BY <1>2, PidStays DEF Start, Daemonize
<1>3. CASE CheckPid
  BY <1>3, PidStays DEF CheckPid
<1>4. CASE CreatePid
  BY <1>4, PidStays DEF CreatePid, PidInv
<1>5. CASE SetSignalHandle \/ Setup \/ Arm
  BY <1>5, PidStays DEF SetSignalHandle, Setup, SetupFailed, Arm
<1>6. CASE EpollWait \/ EpollError \/ LoopEnds \/ AcceptAgain \/ AcceptError \/ InnerLoop \/ Clean
  BY <1>6, PidStays DEF EpollWait, EpollError, LoopEnds, AcceptAgain, AcceptError, InnerLoop, Clean
<1>7. CASE \E c \in Conn : Accept(c) \/ AddTask(c) \/ ResponseBusy(c)
  BY <1>7, PidStays DEF Accept, AddTask, ResponseBusy, AfterAccept
<1>8. CASE DeletePid
  BY <1>8 DEF DeletePid, PidInv
<1>9. CASE Free
  BY <1>9, PidStays DEF Free
<1>10. CASE End
  BY <1>10, PidStays DEF End, Gone
<1>11. CASE Kill
  BY <1>11 DEF Kill, Gone, PidInv
<1>12. CASE Operator
  BY <1>12 DEF Operator, PidInv
<1>13. CASE WorkerGreets \/ Greeted \/ ThreadLeaves \/ ThreadLeft
  BY <1>13, PidStays DEF WorkerGreets, Greeted, ThreadLeaves, ThreadLeft
<1>14. CASE (\E c \in Conn : Connect(c)) \/ Signal
  BY <1>14, PidStays DEF Connect, Signal
<1> QED
  BY <1>1, <1>2, <1>3, <1>4, <1>5, <1>6, <1>7, <1>8, <1>9, <1>10, <1>11, <1>12, <1>13,
     <1>14 DEF Next, MainStep

\* A program that serves has its pid file, and a file without a program was left
\* by one that was killed (main.cc:1070-1090, 1443-1460).
THEOREM InstancePidTellsRunning == Spec => []PidTellsRunning
<1>1. PidInv => PidTellsRunning
  BY DEF PidInv, PidTellsRunning, Serving
<1> QED
  BY PidInit, PidStep, <1>1, PTL DEF Spec

-----------------------------------------------------------------------------
(* Types *)

Places ==
  /\ at \in Place
  /\ conn \in [Conn -> {"none", "queued", "taken", "handed", "refused", "closed", "reset"}]

Flags ==
  /\ pidFile \in BOOLEAN /\ handled \in BOOLEAN /\ running \in BOOLEAN
  /\ listening \in BOOLEAN /\ edge \in BOOLEAN
  /\ greeting \in BOOLEAN /\ leaving \in BOOLEAN /\ killed \in BOOLEAN

\* The places where service has its socket.
Listens == {"arm", "wait", "accept", "add", "busy", "again", "clean"}

\* Where a connection is says where main is. There is only one that main has in hand.
Hands ==
  /\ \A c \in Conn : /\ conn[c] = "queued" => listening
                     /\ conn[c] = "taken" => at = "add"
                     /\ conn[c] = "refused" => at = "busy"
  /\ \A c, d \in Conn : conn[c] \in {"taken", "refused"} /\ conn[d] \in {"taken", "refused"}
                        => c = d
  /\ listening => at \in Listens

TypeInv == Places /\ Flags /\ Hands

\* Steps that leave the connections alone, with nothing in main's hands.
LEMMA HandsStay ==
  ASSUME Hands, UNCHANGED <<conn, listening>>, at \notin {"add", "busy"},
         at \in Listens => at' \in Listens
  PROVE  Hands'
BY DEF Hands

LEMMA PlacesStep == TypeInv /\ [Next]_vars => Places'
<1> SUFFICES ASSUME TypeInv, [Next]_vars PROVE Places'
  OBVIOUS
<1> USE DEF TypeInv, Places, Place, Goto, Reset
<1>1. CASE UNCHANGED <<at, conn>>
  BY <1>1
<1>2. CASE Start \/ Daemonize \/ CheckPid \/ CreatePid \/ SetSignalHandle
  BY <1>2 DEF Start, Daemonize, CheckPid, CreatePid, SetSignalHandle, sockets
<1>3. CASE Setup \/ Arm \/ EpollWait \/ EpollError \/ LoopEnds
  BY <1>3 DEF Setup, SetupFailed, Arm, EpollWait, EpollError, LoopEnds, sockets
<1>4. CASE \E c \in Conn : Accept(c) \/ AddTask(c) \/ ResponseBusy(c)
  BY <1>4 DEF Accept, AddTask, ResponseBusy, AfterAccept
<1>5. CASE AcceptAgain \/ AcceptError \/ InnerLoop
  BY <1>5 DEF AcceptAgain, AcceptError, InnerLoop, sockets
<1>6. CASE Clean
  BY <1>6 DEF Clean, CleanListen
<1>7. CASE DeletePid \/ Free
  BY <1>7 DEF DeletePid, Free, sockets
<1>8. CASE End \/ Kill
  BY <1>8 DEF End, Kill, Gone
<1>9. CASE \E c \in Conn : Connect(c)
  BY <1>9 DEF Connect
<1> QED
  BY <1>1, <1>2, <1>3, <1>4, <1>5, <1>6, <1>7, <1>8, <1>9
     DEF Next, MainStep, vars, WorkerGreets, Greeted, ThreadLeaves, ThreadLeft, Signal,
         Operator, sockets

LEMMA FlagsStep == TypeInv /\ [Next]_vars => Flags'
<1> SUFFICES ASSUME TypeInv, [Next]_vars PROVE Flags'
  OBVIOUS
<1> USE DEF TypeInv, Flags, workers, pid, sockets
<1>1. CASE UNCHANGED vars
  BY <1>1 DEF vars
<1>2. CASE Start \/ Daemonize \/ CheckPid \/ CreatePid \/ SetSignalHandle
  BY <1>2 DEF Start, Daemonize, CheckPid, CreatePid, SetSignalHandle
<1>3. CASE Setup \/ Arm \/ EpollWait \/ EpollError \/ LoopEnds
  BY <1>3 DEF Setup, Arm, EpollWait, EpollError, LoopEnds
<1>4. CASE \E c \in Conn : Accept(c) \/ AddTask(c) \/ ResponseBusy(c) \/ Connect(c)
  BY <1>4 DEF Accept, AddTask, ResponseBusy, Connect
<1>5. CASE AcceptAgain \/ AcceptError \/ InnerLoop
  BY <1>5 DEF AcceptAgain, AcceptError, InnerLoop
<1>6. CASE Clean \/ DeletePid \/ Free
  BY <1>6 DEF Clean, CleanListen, DeletePid, Free
<1>7. CASE End \/ Kill
  BY <1>7 DEF End, Kill, Gone
<1>8. CASE WorkerGreets \/ Greeted \/ ThreadLeaves \/ ThreadLeft \/ Signal \/ Operator
  BY <1>8 DEF WorkerGreets, Greeted, ThreadLeaves, ThreadLeft, Signal, Operator
<1> QED
  BY <1>1, <1>2, <1>3, <1>4, <1>5, <1>6, <1>7, <1>8 DEF Next, MainStep

LEMMA HandsStep == TypeInv /\ [Next]_vars => Hands'
<1> SUFFICES ASSUME TypeInv, [Next]_vars PROVE Hands'
  OBVIOUS
<1>0. Places /\ Hands
  BY DEF TypeInv
<1> USE DEF Goto, Listens, sockets
<1>1. CASE UNCHANGED <<at, conn, listening>>
  BY <1>0, <1>1 DEF Hands
<1>2. CASE Start \/ Daemonize \/ CheckPid \/ CreatePid \/ SetSignalHandle
  BY <1>0, <1>2, HandsStay DEF Start, Daemonize, CheckPid, CreatePid, SetSignalHandle
<1>3. CASE Setup
  BY <1>0, <1>3 DEF Setup, SetupFailed, Hands
<1>4. CASE Arm \/ EpollWait \/ EpollError \/ LoopEnds
  BY <1>0, <1>4, HandsStay DEF Arm, EpollWait, EpollError, LoopEnds
<1>5. ASSUME NEW c \in Conn, Accept(c) PROVE Hands'
  <2>1. /\ \A d \in Conn : conn[d] \notin {"taken", "refused"}
        /\ conn' \in {[conn EXCEPT ![c] = "taken"], [conn EXCEPT ![c] = "closed"]}
        /\ conn'[c] = "taken" => at' = "add"
        /\ at' \in Listens /\ UNCHANGED listening
    BY <1>0, <1>5 DEF Accept, AfterAccept, Hands, Places
  <2> QED
    BY <1>0, <2>1 DEF Hands, Places
<1>6. ASSUME NEW c \in Conn, AddTask(c) PROVE Hands'
  <2>1. /\ \A d \in Conn : d # c => conn[d] \notin {"taken", "refused"}
        /\ conn' \in {[conn EXCEPT ![c] = "handed"], [conn EXCEPT ![c] = "refused"]}
        /\ conn'[c] = "refused" => at' = "busy"
        /\ at' \in Listens /\ UNCHANGED listening
    BY <1>0, <1>6 DEF AddTask, AfterAccept, Hands, Places
  <2> QED
    BY <1>0, <2>1 DEF Hands, Places
<1>7. ASSUME NEW c \in Conn, ResponseBusy(c) PROVE Hands'
  <2>1. /\ \A d \in Conn : d # c => conn[d] \notin {"taken", "refused"}
        /\ conn' = [conn EXCEPT ![c] = "closed"]
        /\ at' \in Listens /\ UNCHANGED listening
    BY <1>0, <1>7 DEF ResponseBusy, AfterAccept, Hands
  <2> QED
    BY <1>0, <2>1 DEF Hands, Places
<1>8. CASE AcceptAgain \/ AcceptError \/ InnerLoop
  BY <1>0, <1>8, HandsStay DEF AcceptAgain, AcceptError, InnerLoop
<1>9. CASE Clean
  BY <1>0, <1>9 DEF Clean, CleanListen, Reset, Hands, Places
<1>10. CASE DeletePid \/ Free
  BY <1>0, <1>10, HandsStay DEF DeletePid, Free
<1>11. CASE End \/ Kill
  BY <1>0, <1>11 DEF End, Kill, Gone, Reset, Hands, Places
<1>12. CASE \E c \in Conn : Connect(c)
  BY <1>0, <1>12 DEF Connect, Hands, Places
<1> QED
  BY <1>1, <1>2, <1>3, <1>4, <1>5, <1>6, <1>7, <1>8, <1>9, <1>10, <1>11, <1>12
     DEF Next, MainStep, vars, WorkerGreets, Greeted, ThreadLeaves, ThreadLeft, Signal, Operator

\* The types of main's state, and that the connection in its hands and the socket of
\* service belong to where it is (main.cc:1235-1353).
THEOREM InstanceTypes == Spec => []InstTypeOK
<1>1. Init => TypeInv
  BY DEF Init, TypeInv, Places, Flags, Hands, Place
<1>2. TypeInv /\ [Next]_vars => TypeInv'
  BY PlacesStep, FlagsStep, HandsStep DEF TypeInv
<1>3. TypeInv => InstTypeOK
  BY DEF TypeInv, Places, Flags, Hands, Listens, InstTypeOK
<1> QED
  BY <1>1, <1>2, <1>3, PTL DEF Spec
-----------------------------------------------------------------------------
(* The log *)

LogTypes ==
  /\ LogTypeOK
  /\ \A w \in Writer : place[w] = "print" => logBuf \in Line

LEMMA FlushedTypes ==
  ASSUME LogTypes
  PROVE  DOMAIN Flushed = DOMAIN files /\ \A n \in DOMAIN files : Flushed[n] \subseteq Line
BY DEF LogTypes, LogTypeOK, Flushed

LEMMA CloseTypes ==
  ASSUME LogTypes, Close
  PROVE  /\ DOMAIN files' = DOMAIN files /\ \A n \in DOMAIN files' : files'[n] \subseteq Line
         /\ fp' = Closed /\ buffer' = {}
<1>1. CASE files' = Flushed
  BY <1>1, FlushedTypes DEF Close
<1>2. CASE UNCHANGED files
  BY <1>2 DEF Close, LogTypes, LogTypeOK
<1> QED
  BY <1>1, <1>2 DEF Close

LEMMA OpenTypes ==
  ASSUME LogTypes, Open
  PROVE  /\ DOMAIN files' \subseteq Name /\ \A n \in DOMAIN files' : files'[n] \subseteq Line
         /\ fp' \in {Current, Closed} /\ buffer' = {}
BY DEF Open, LogTypes, LogTypeOK, Name

LEMMA VanishTypes ==
  ASSUME LogTypes, Vanish, files' = Flushed \/ UNCHANGED files
  PROVE  LogTypes'
<1>1. DOMAIN files' = DOMAIN files /\ \A n \in DOMAIN files' : files'[n] \subseteq Line
  BY FlushedTypes DEF LogTypes, LogTypeOK
<1> QED
  BY <1>1, LogAssumption DEF Vanish, Idle, Zero, LogTypes, LogTypeOK

LEMMA WriterTypes ==
  ASSUME LogTypes, NEW w \in Writer,
         \/ Begin(w) \/ WriteLine(w) \/ Count(w)
         \/ Probe(w) \/ Access(w) \/ Number(w) \/ Remove(w) \/ Step(w)
         \/ Rename(w) \/ Reopen(w)
  PROVE  LogTypes'
<1> USE DEF Moves
<1>1. CASE Begin(w)
  BY <1>1, LogAssumption DEF Begin, disk, counters, Line, LogTypes, LogTypeOK
<1>2. CASE WriteLine(w)
  <2>1. CASE buffer' = buffer \cup {logBuf} /\ Moves(w, "count") /\ UNCHANGED <<files, fp, lost>>
    BY <1>2, <2>1 DEF WriteLine, counters, LogTypes, LogTypeOK
  <2>2. CASE Close /\ Moves(w, "idle")
    BY <1>2, <2>2, CloseTypes DEF WriteLine, counters, LogTypes, LogTypeOK
  <2> QED
    BY <1>2, <2>1, <2>2 DEF WriteLine
<1>3. CASE Count(w)
  <2>1. logSize' \in (-IntMax - 1)..IntMax
    BY <1>3, LogAssumption DEF Count, Grown, LogTypes, LogTypeOK
  <2>2. CASE Close /\ Moves(w, "probe")
    BY <1>3, <2>1, <2>2, CloseTypes DEF Count, LogTypes, LogTypeOK
  <2>3. CASE Moves(w, "idle") /\ UNCHANGED <<disk, fp>>
    BY <1>3, <2>1, <2>3 DEF Count, disk, LogTypes, LogTypeOK
  <2> QED
    BY <1>3, <2>2, <2>3 DEF Count
<1>4. CASE Probe(w) \/ Access(w) \/ Step(w)
  BY <1>4 DEF Probe, Access, Step, disk, counters, LogTypes, LogTypeOK
<1>5. CASE Number(w)
  BY <1>5 DEF Number, disk, LogTypes, LogTypeOK
<1>6. CASE Remove(w)
  <2>1. /\ DOMAIN files' \subseteq DOMAIN files /\ \A n \in DOMAIN files' : files'[n] = files[n]
        /\ fp' \in {fp, Unlinked} /\ (fp' = Closed => fp = Closed)
    BY <1>6 DEF Remove, Closed, Unlinked
  <2>2. logNum' \in Int /\ UNCHANGED <<buffer, logSize, logIdx, logBuf, lines, target, older>>
    BY <1>6 DEF Remove, LogTypes, LogTypeOK
  <2>3. place' = [place EXCEPT ![w] = "next"]
    BY <1>6 DEF Remove
  <2> QED
    BY <2>1, <2>2, <2>3 DEF LogTypes, LogTypeOK
<1>7. CASE Rename(w)
  <2>1. /\ DOMAIN files' \subseteq DOMAIN files \cup {target[w]}
        /\ \A n \in DOMAIN files' : files'[n] \subseteq Line
    BY <1>7 DEF Rename, Renamed, LogTypes, LogTypeOK
  <2>2. target[w] \in Nat /\ target[w] \in Name /\ target[w] # Closed
    BY DEF LogTypes, LogTypeOK, Name, Closed
  <2>3. fp' \in {fp, target[w], Unlinked} /\ (fp' = Closed => fp = Closed)
    BY <1>7, <2>2 DEF Rename, Closed, Unlinked
  <2>4. /\ UNCHANGED <<buffer, logSize, logNum, logIdx, logBuf, lines, target, older>>
        /\ place' \in {[place EXCEPT ![w] = "open"], [place EXCEPT ![w] = "idle"]}
    BY <1>7 DEF Rename, counters
  <2> QED
    BY <2>1, <2>2, <2>3, <2>4 DEF LogTypes, LogTypeOK
<1>8. CASE Reopen(w)
  BY <1>8, OpenTypes DEF Reopen, counters, Name, LogTypes, LogTypeOK
<1> QED
  BY <1>1, <1>2, <1>3, <1>4, <1>5, <1>6, <1>7, <1>8

LEMMA LogTypesStep == LogTypes /\ [LogNext]_logVars => LogTypes'
<1> SUFFICES ASSUME LogTypes, [LogNext]_logVars PROVE LogTypes'
  OBVIOUS
<1>1. CASE UNCHANGED logVars
  BY <1>1 DEF logVars, disk, counters, LogTypes, LogTypeOK
<1>2. CASE Exit \/ Crash
  BY <1>2, VanishTypes DEF Exit, Crash
<1>3. CASE \E w \in Writer : PrintClosed(w)
  BY <1>3, VanishTypes DEF PrintClosed, Crash
<1>4. CASE Flush
  <2>1. DOMAIN files' = DOMAIN files /\ \A n \in DOMAIN files' : files'[n] \subseteq Line
    BY <1>4, FlushedTypes DEF Flush
  <2> QED
    BY <1>4, <2>1 DEF Flush, counters, LogTypes, LogTypeOK
<1>5. CASE Construct
  <2>1. /\ DOMAIN files' \subseteq Name /\ \A n \in DOMAIN files' : files'[n] \subseteq Line
        /\ fp' \in Name \cup {Closed} /\ buffer' = {}
    BY <1>5, OpenTypes DEF Construct, Name
  <2>2. DOMAIN older' \subseteq Nat
    BY <1>5 DEF Construct
  <2>3. /\ logSize' = 0 /\ logNum' = 0 /\ logIdx' = 0 /\ logBuf' = 0
        /\ UNCHANGED <<place, target, lines>> /\ \A w \in Writer : place[w] = "idle"
    BY <1>5 DEF Construct, Idle
  <2>4. LogTypeOK'
    BY <2>1, <2>2, <2>3, LogAssumption DEF LogTypes, LogTypeOK
  <2> QED
    BY <2>3, <2>4 DEF LogTypes
<1> QED
  BY <1>1, <1>2, <1>3, <1>4, <1>5, WriterTypes DEF LogNext

LEMMA LogTypesInit == LogInit => LogTypes
BY LogAssumption DEF LogInit, LogTypes, LogTypeOK, Name, Idle, Zero

\* The types of CLog's variables, and that no line waits in the buffer of a file that is
\* closed, under any interleaving of the threads (log.cc:12-141).
THEOREM LogTypesHold == LogSpec => []LogTypeOK
<1>1. LogTypes => LogTypeOK
  BY DEF LogTypes
<1> QED
  BY LogTypesInit, LogTypesStep, <1>1, PTL DEF LogSpec

\* An older file is there, with its lines, or was removed for its age. A thread that is
\* about to rename found its number free: if an older file had it, that one was removed.
OlderInv ==
  /\ \A n \in DOMAIN older : \/ older[n] \subseteq removed
                             \/ n \in DOMAIN files /\ older[n] \subseteq files[n]
  /\ \A w \in Writer : place[w] = "rename" /\ target[w] \in DOMAIN older
                       => older[target[w]] \subseteq removed

\* It stays so when files only grow, and nobody comes to rename.
LEMMA OlderStays ==
  ASSUME OlderInv, UNCHANGED <<older, target>>, removed \subseteq removed',
         \A n \in DOMAIN files : \/ files[n] \subseteq removed'
                                 \/ n \in DOMAIN files' /\ files[n] \subseteq files'[n],
         \A w \in Writer : place'[w] = "rename" => place[w] = "rename"
  PROVE  OlderInv'
BY DEF OlderInv

LEMMA FlushedGrows ==
  \A n \in DOMAIN files : n \in DOMAIN Flushed /\ files[n] \subseteq Flushed[n]
BY DEF Flushed

LEMMA CloseGrows ==
  ASSUME Close
  PROVE  \A n \in DOMAIN files : n \in DOMAIN files' /\ files[n] \subseteq files'[n]
BY FlushedGrows DEF Close

LEMMA OpenGrows ==
  ASSUME Open
  PROVE  \A n \in DOMAIN files : n \in DOMAIN files' /\ files[n] \subseteq files'[n]
BY DEF Open

LEMMA VanishOlder ==
  ASSUME OlderInv, Vanish, files' = Flushed \/ UNCHANGED files
  PROVE  OlderInv'
<1>1. \A n \in DOMAIN files : n \in DOMAIN files' /\ files[n] \subseteq files'[n]
  BY FlushedGrows
<1>2. UNCHANGED <<older, removed>> /\ \A w \in Writer : place'[w] = "idle"
  BY DEF Vanish, Idle
<1> QED
  BY <1>1, <1>2 DEF OlderInv

LEMMA WriterOlder ==
  ASSUME LogTypes, OlderInv, NEW w \in Writer,
         \/ Begin(w) \/ WriteLine(w) \/ Count(w)
         \/ Probe(w) \/ Access(w) \/ Number(w) \/ Remove(w) \/ Step(w)
         \/ Rename(w) \/ Reopen(w)
  PROVE  OlderInv'
<1>0. place \in [Writer -> {place[v] : v \in Writer}]
  BY DEF LogTypes, LogTypeOK
<1> USE DEF Moves
<1>1. CASE Begin(w)
  BY <1>0, <1>1, OlderStays DEF Begin, disk
<1>2. CASE WriteLine(w)
  <2>1. \A n \in DOMAIN files : n \in DOMAIN files' /\ files[n] \subseteq files'[n]
    BY <1>2, CloseGrows DEF WriteLine
  <2>2. /\ UNCHANGED <<older, target, removed>>
        /\ \A v \in Writer : place'[v] = "rename" => place[v] = "rename"
    BY <1>0, <1>2 DEF WriteLine
  <2> QED
    BY <2>1, <2>2, OlderStays
<1>3. CASE Count(w)
  <2>1. \A n \in DOMAIN files : n \in DOMAIN files' /\ files[n] \subseteq files'[n]
    BY <1>3, CloseGrows DEF Count, disk
  <2>2. /\ UNCHANGED <<older, target, removed>>
        /\ \A v \in Writer : place'[v] = "rename" => place[v] = "rename"
    BY <1>0, <1>3 DEF Count
  <2> QED
    BY <2>1, <2>2, OlderStays
<1>4. CASE Probe(w)
  <2>1. UNCHANGED <<files, older, removed>>
    BY <1>4 DEF Probe, disk
  <2>2. \A v \in Writer : place'[v] = "rename" => place[v] = "rename" /\ target'[v] = target[v]
    BY <1>4 DEF Probe, LogTypes, LogTypeOK
  <2> QED
    BY <2>1, <2>2 DEF OlderInv
<1>5. CASE Access(w)
  <2>1. UNCHANGED <<files, older, removed, target>>
    BY <1>5 DEF Access, disk
  <2>2. \A v \in Writer : place'[v] = "rename"
                          => place[v] = "rename" \/ target[v] \notin DOMAIN files
    BY <1>0, <1>5 DEF Access, Taken
  <2> QED
    BY <2>1, <2>2 DEF OlderInv
<1>6. CASE Number(w) \/ Step(w)
  BY <1>0, <1>6, OlderStays DEF Number, Step, disk
<1>7. CASE Remove(w)
  <2>1. \A n \in DOMAIN files : \/ files[n] \subseteq removed'
                                \/ n \in DOMAIN files' /\ files[n] \subseteq files'[n]
    BY <1>7 DEF Remove
  <2>2. /\ UNCHANGED <<older, target>> /\ removed \subseteq removed'
        /\ \A v \in Writer : place'[v] = "rename" => place[v] = "rename"
    BY <1>0, <1>7 DEF Remove
  <2> QED
    BY <2>1, <2>2, OlderStays
<1>8. CASE Rename(w)
  <2>1. /\ place[w] = "rename" /\ UNCHANGED <<older, removed, target>>
        /\ \A v \in Writer : place'[v] = "rename" => place[v] = "rename"
    BY <1>0, <1>8 DEF Rename
  <2>2. \A n \in DOMAIN files : n \notin {Current, target[w]}
                                => n \in DOMAIN files' /\ files[n] = files'[n]
    BY <1>8 DEF Rename, Renamed
  <2>3. Current \notin DOMAIN older
    BY DEF LogTypes, LogTypeOK, Current
  <2> QED
    BY <2>1, <2>2, <2>3 DEF OlderInv
<1>9. CASE Reopen(w)
  <2>1. /\ UNCHANGED <<older, target, removed>>
        /\ \A v \in Writer : place'[v] = "rename" => place[v] = "rename"
    BY <1>0, <1>9 DEF Reopen
  <2> QED
    BY <1>9, <2>1, OpenGrows, OlderStays DEF Reopen
<1> QED
  BY <1>1, <1>2, <1>3, <1>4, <1>5, <1>6, <1>7, <1>8, <1>9

LEMMA OlderStep == LogTypes /\ OlderInv /\ [LogNext]_logVars => OlderInv'
<1> SUFFICES ASSUME LogTypes, OlderInv, [LogNext]_logVars PROVE OlderInv'
  OBVIOUS
<1>1. CASE UNCHANGED logVars
  BY <1>1 DEF logVars, disk, OlderInv
<1>2. CASE Exit \/ Crash
  BY <1>2, VanishOlder DEF Exit, Crash
<1>3. CASE \E w \in Writer : PrintClosed(w)
  BY <1>3, VanishOlder DEF PrintClosed, Crash
<1>4. CASE Flush
  BY <1>4, FlushedGrows, OlderStays DEF Flush
<1>5. CASE Construct
  <2>1. \A n \in DOMAIN files : n \in DOMAIN files' /\ files[n] \subseteq files'[n]
    BY <1>5, OpenGrows DEF Construct
  <2>2. /\ older' = [n \in DOMAIN files \cap Nat |-> files[n]]
        /\ \A w \in Writer : place'[w] = "idle"
    BY <1>5 DEF Construct, Idle
  <2> QED
    BY <2>1, <2>2 DEF OlderInv
<1> QED
  BY <1>1, <1>2, <1>3, <1>4, <1>5, WriterOlder DEF LogNext

\* Although nothing takes the lock of CLog, no interleaving of its threads, no failure and
\* no end of a process loses a rotated file of an earlier one but by remove() (log.cc:100-128).
THEOREM LogOlderFilesKept == LogSpec => []OlderFilesKept
<1>1. LogInit => OlderInv
  BY DEF LogInit, OlderInv, Idle
<1>2. OlderInv => OlderFilesKept
  BY DEF OlderInv, OlderFilesKept
<1> QED
  BY LogTypesInit, LogTypesStep, OlderStep, <1>1, <1>2, PTL DEF LogSpec
=============================================================================
