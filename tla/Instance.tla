------------------------------- MODULE Instance -------------------------------
(***************************************************************************)
(* The program from its start to its end: main, the pid file, the signal   *)
(* handlers, service with its edge-triggered accept loop, the shutdown;    *)
(* then the next start, which finds what this one left.                    *)
(*                                                                         *)
(* Of the workers there is what main can come to wait for: one that reads  *)
(* searchd's greeting, without a timeout, with g_sphinx_client_mutex       *)
(* locked, and one that leaves the pool, with the pool's mutex locked, and *)
(* waits for that mutex in the exit callback.                              *)
(*                                                                         *)
(* Starts follow each other: two at the same time are not modelled. What   *)
(* is logged is left out: a call of the log waits for nothing, and a       *)
(* process that ends in one is a Kill.                                     *)
(***************************************************************************)

CONSTANT Conn    \* the connections that clients make

VARIABLES at,         \* where main is; "down": there is no process
          pidFile,    \* whether the pid file is there
          handled,    \* whether the signal handlers are installed
          running,    \* g_running
          listening,  \* whether listenfd listens
          edge,       \* whether epoll has an event that was not fetched
          conn,       \* where a connection is
          greeting,   \* whether a worker reads a greeting: g_sphinx_client_mutex is locked
          leaving,    \* whether a thread leaves: the pool's mutex is locked
          killed      \* whether a process ended without main's last part, or could
                      \* not remove its pid file, since a pid file was last made

workers == <<greeting, leaving>>
pid == <<pidFile, killed>>
sockets == <<listening, edge, conn>>
vars == <<at, handled, running, workers, pid, sockets>>

\* main in its order: the log, daemonize, check_pid_file in its two parts,
\* SetSignalHandle, the pool and service (set up, g_running = true, the loops),
\* CLEAN, delet_pid_file, the deletes, the last lines.
Place == {"down", "daemon", "check", "create", "signals", "setup", "arm", "wait",
          "accept", "add", "busy", "again", "clean", "delete", "free", "end"}

Init ==
  /\ at = "down"
  /\ pidFile = FALSE /\ handled = FALSE /\ running = FALSE
  /\ listening = FALSE /\ edge = FALSE
  /\ conn = [c \in Conn |-> "none"]
  /\ greeting = FALSE /\ leaving = FALSE
  /\ killed = FALSE

Goto(p, q) == at = p /\ at' = q

-----------------------------------------------------------------------------
Start ==
  /\ Goto("down", "daemon")
  /\ UNCHANGED <<handled, running, workers, pid, sockets>>

\* If daemonize fails, main exits at once.
Daemonize ==
  /\ Goto("daemon", "check") \/ Goto("daemon", "end")
  /\ UNCHANGED <<handled, running, workers, pid, sockets>>

CheckPid ==
  /\ Goto("check", IF pidFile THEN "end" ELSE "create")
  /\ UNCHANGED <<handled, running, workers, pid, sockets>>

CreatePid ==
  /\ \/ Goto("create", "signals") /\ pidFile' = TRUE /\ killed' = FALSE
     \/ Goto("create", "end") /\ UNCHANGED pid
  /\ UNCHANGED <<handled, running, workers, sockets>>

SetSignalHandle ==
  /\ Goto("signals", "setup")
  /\ handled' = TRUE
  /\ UNCHANGED <<running, workers, pid, sockets>>

\* Mistake: a service that cannot start leaves the pid file.
SetupFailedKeepsPid == "free"
\* epoll_create, socket, bind or listen fails: service returns.
SetupFailed == "delete"

Setup ==
  /\ \/ Goto("setup", "arm") /\ listening' = TRUE
     \/ Goto("setup", SetupFailed) /\ UNCHANGED listening
  /\ UNCHANGED <<handled, running, edge, conn, workers, pid>>

\* g_running = true, whatever a signal did to it.
Arm ==
  /\ Goto("arm", "wait")
  /\ running' = TRUE
  /\ UNCHANGED <<handled, workers, pid, sockets>>

-----------------------------------------------------------------------------
\* Mistake: epoll_wait is called whatever a signal did to g_running.
AlwaysOn == TRUE
On == running

\* epoll_wait gives an event, and with it the edge is gone. Without one it
\* returns after a second, or when a signal comes, and nothing has changed.
EpollWait ==
  /\ Goto("wait", "accept")
  /\ On
  /\ edge
  /\ edge' = FALSE
  /\ UNCHANGED <<handled, running, listening, conn, workers, pid>>

\* The event is EPOLLERR or EPOLLHUP.
EpollError ==
  /\ Goto("wait", "clean")
  /\ On
  /\ UNCHANGED <<handled, running, workers, pid, sockets>>

LoopEnds ==
  /\ Goto("wait", "clean")
  /\ ~On
  /\ UNCHANGED <<handled, running, workers, pid, sockets>>

\* Mistake: one accept for each event.
AfterOne == "wait"
\* After an accept, the inner loop goes on.
AfterAccept == "again"

\* accept gives a connection; without memory for it, accept_conn_cb closes it.
Accept(c) ==
  /\ conn[c] = "queued"
  /\ \/ Goto("accept", "add") /\ conn' = [conn EXCEPT ![c] = "taken"]
     \/ Goto("accept", AfterAccept) /\ conn' = [conn EXCEPT ![c] = "closed"]
  /\ UNCHANGED <<handled, running, listening, edge, workers, pid>>

\* AddTask, once it has the pool's mutex: the pool takes the task, or is full.
AddTask(c) ==
  /\ conn[c] = "taken"
  /\ ~leaving
  /\ \/ Goto("add", AfterAccept) /\ conn' = [conn EXCEPT ![c] = "handed"]
     \/ Goto("add", "busy") /\ conn' = [conn EXCEPT ![c] = "refused"]
  /\ UNCHANGED <<handled, running, listening, edge, workers, pid>>

ResponseBusy(c) ==
  /\ conn[c] = "refused"
  /\ Goto("busy", AfterAccept)
  /\ conn' = [conn EXCEPT ![c] = "closed"]
  /\ UNCHANGED <<handled, running, listening, edge, workers, pid>>

\* EAGAIN: the queue is empty, and the next event will come with the next connection.
AcceptAgain ==
  /\ Goto("accept", "wait")
  /\ \A c \in Conn : conn[c] # "queued"
  /\ UNCHANGED <<handled, running, workers, pid, sockets>>

\* Any other error ends service, whoever's it is (EINTR retries: "again").
AcceptError ==
  /\ Goto("accept", "clean")
  /\ running' = FALSE
  /\ UNCHANGED <<handled, workers, pid, sockets>>

\* while (g_running) of the inner loop.
InnerLoop ==
  /\ Goto("again", IF running THEN "accept" ELSE "wait")
  /\ UNCHANGED <<handled, running, workers, pid, sockets>>

-----------------------------------------------------------------------------
\* What the system does with the connections of a socket that is closed, and of a
\* process that ends.
Reset(places) == [c \in Conn |-> IF conn[c] \in places THEN "reset" ELSE conn[c]]

\* Mistake: CLEAN closes epfd only.
CleanEpoll == UNCHANGED <<listening, conn>>
CleanListen == listening' = FALSE /\ conn' = Reset({"queued"})

Clean ==
  /\ Goto("clean", "delete")
  /\ CleanListen
  /\ edge' = FALSE
  /\ UNCHANGED <<handled, running, workers, pid>>

\* remove() may fail.
DeletePid ==
  /\ Goto("delete", "free")
  /\ \/ pidFile' = FALSE /\ UNCHANGED killed
     \/ killed' = TRUE /\ UNCHANGED pidFile
  /\ UNCHANGED <<handled, running, workers, sockets>>

\* close_all_sphinx_client, once it has g_sphinx_client_mutex; then the pool and the
\* statistics are deleted.
Free ==
  /\ Goto("free", "end")
  /\ ~greeting
  /\ UNCHANGED <<handled, running, workers, pid, sockets>>

\* The process is gone, and with it its workers.
Gone ==
  /\ at' = "down"
  /\ handled' = FALSE /\ running' = FALSE
  /\ listening' = FALSE /\ edge' = FALSE
  /\ conn' = Reset({"queued", "taken", "refused", "handed"})
  /\ greeting' = FALSE /\ leaving' = FALSE

\* gp_log->close() and return; or the exit after daemonize.
End == at = "end" /\ Gone /\ UNCHANGED pid

\* main's own next step.
MainStep ==
  \/ Daemonize \/ CheckPid \/ CreatePid \/ SetSignalHandle \/ Setup \/ Arm
  \/ EpollWait \/ LoopEnds
  \/ (\E c \in Conn : Accept(c) \/ AddTask(c) \/ ResponseBusy(c)) \/ AcceptAgain \/ InnerLoop
  \/ Clean \/ DeletePid \/ Free \/ End

-----------------------------------------------------------------------------
(* The workers *)

\* There are threads from the pool's constructor on, and main's deletes do not end them.
HasPool == at \in {"setup", "arm", "wait", "accept", "add", "busy", "again", "clean", "delete",
                   "free", "end"} /\ handled

\* get_sphinx_client makes a client, for a request of a connection that the pool has, and
\* waits for what searchd says first.
WorkerGreets ==
  /\ HasPool /\ ~greeting
  /\ \E c \in Conn : conn[c] = "handed"
  /\ greeting' = TRUE
  /\ UNCHANGED <<at, handled, running, leaving, pid, sockets>>

\* The greeting has come, or the connection to searchd has ended.
Greeted ==
  /\ greeting
  /\ greeting' = FALSE
  /\ UNCHANGED <<at, handled, running, leaving, pid, sockets>>

\* An idle thread takes the pool's mutex to leave.
ThreadLeaves ==
  /\ HasPool /\ ~leaving
  /\ leaving' = TRUE
  /\ UNCHANGED <<at, handled, running, greeting, pid, sockets>>

\* release_sphinx_client has had its mutex, and the thread lets go of the pool's.
ThreadLeft ==
  /\ leaving /\ ~greeting
  /\ leaving' = FALSE
  /\ UNCHANGED <<at, handled, running, greeting, pid, sockets>>

-----------------------------------------------------------------------------
\* A client connects: the queue of the socket has one more, and epoll an event.
Connect(c) ==
  /\ listening
  /\ conn[c] = "none"
  /\ conn' = [conn EXCEPT ![c] = "queued"]
  /\ edge' = TRUE
  /\ UNCHANGED <<at, handled, running, listening, workers, pid>>

\* SIGINT, SIGTERM or SIGQUIT with the handlers installed: ExecSafeExit.
Signal ==
  /\ handled
  /\ running' = FALSE
  /\ UNCHANGED <<at, handled, workers, pid, sockets>>

\* The same signal without them, SIGKILL, or a crash.
Kill ==
  /\ at # "down"
  /\ Gone
  /\ killed' = pidFile
  /\ UNCHANGED pidFile

\* Somebody removes the pid file that a killed process left.
Operator ==
  /\ at = "down"
  /\ pidFile
  /\ pidFile' = FALSE
  /\ UNCHANGED <<at, handled, running, killed, workers, sockets>>

Next ==
  \/ Start \/ MainStep
  \/ EpollError \/ AcceptError
  \/ WorkerGreets \/ Greeted \/ ThreadLeaves \/ ThreadLeft
  \/ \E c \in Conn : Connect(c)
  \/ Signal \/ Kill \/ Operator

Spec == Init /\ [][Next]_vars

\* main and a leaving thread run whenever they can. Nobody needs to connect, to send a
\* signal or to start the program; no call has to fail; searchd need not greet, and the
\* clients' mutex, when it is free again and again, may be somebody else's each time. Not
\* so the pool's in AddTask: only threads that leave hold it for long, and it is main
\* that makes threads, none while it waits.
FairSpec == /\ Spec
            /\ WF_vars(MainStep)
            /\ SF_vars(\E c \in Conn : AddTask(c))
            /\ WF_vars(ThreadLeft)

-----------------------------------------------------------------------------
\* The type invariant: a connection in main's hands is where main is, and service's
\* socket does not outlive it.
InstTypeOK ==
  /\ at \in Place
  /\ \A b \in {pidFile, handled, running, listening, edge, greeting, leaving, killed} : b \in BOOLEAN
  /\ conn \in [Conn -> {"none", "queued", "taken", "handed", "refused", "closed", "reset"}]
  /\ \A c \in Conn : /\ conn[c] = "queued" => listening
                     /\ conn[c] = "taken" => at = "add"
                     /\ conn[c] = "refused" => at = "busy"
  /\ listening => at \in {"arm", "wait", "accept", "add", "busy", "again", "clean"}

\* While the program has its signal handlers installed and is to serve, its pid
\* file is there. When no process is there, a pid file is left only by one that
\* was killed or could not remove it: whatever failed in between, and however
\* service came to its end, the next start is not refused.
PidTellsRunning ==
  /\ at \in {"signals", "setup", "arm", "wait", "accept", "add", "busy", "again", "clean", "delete"}
       => pidFile
  /\ at = "down" /\ pidFile => killed

\* main stands behind a worker that reads a greeting: at the clients' mutex, or at the
\* pool's, whose holder stands at the clients'.
Stands == greeting /\ (at = "free" \/ (at = "add" /\ leaving))

\* A signal that comes while service is in its loops ends the program, even if
\* connections keep coming, unless main stands behind a greeting, for ever or again and
\* again: nothing makes searchd send it.
StopsOnSignal ==
  (at \in {"wait", "accept", "add", "busy", "again", "clean", "delete", "free"} /\ ~running)
  ~> (at = "down" \/ Stands)

\* A connection does not stay in the queue of the socket: events come once only
\* (EPOLLET), so each has to be followed by accepts until the queue is empty, and
\* what is left at the end is reset. Only if main stands behind a greeting, for ever or
\* again and again, it may.
AllAccepted == \A c \in Conn : (conn[c] = "queued") ~> (conn[c] # "queued" \/ Stands)
=============================================================================
