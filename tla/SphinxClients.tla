----------------------------- MODULE SphinxClients -----------------------------
(***************************************************************************)
(* The sphinx clients of the workers (src/main.cc): one client per worker  *)
(* thread, found in g_sphinx_client_map under g_sphinx_client_mutex, made  *)
(* on the thread's first request, released after a failed query and by the *)
(* exit callback of the thread pool, and destroyed by main at shutdown.    *)
(*                                                                         *)
(* Composed with the thread pool: a worker uses clients while it is inside *)
(* Run (pc = "run"), and the pool calls release_sphinx_client with its own *)
(* mutex held when a thread leaves (pc = "exitcb").                        *)
(*                                                                         *)
(* main's shutdown is followed up to close_all_sphinx_client; what a worker*)
(* does between `delete gp_thread_pool' and the end of the process, on     *)
(* memory that is gone, is not modelled.                                   *)
(***************************************************************************)
EXTENDS ThreadPool

CONSTANTS Client,    \* addresses of sphinx_client structures
          NoClient   \* NULL

\* A thread holds one allocated client at most, so that these addresses suffice.
ASSUME ClientAssumption ==
  /\ IsFiniteSet(Client)
  /\ Cardinality(Client) >= Cardinality(Thread)
  /\ NoClient \notin Client

VARIABLES clientMutex,  \* who holds g_sphinx_client_mutex between two steps
          clientMap,    \* g_sphinx_client_map; NoClient: the thread has no entry
          heap,         \* of each address: free, being opened, or live
          at,           \* where a worker is with its client
          client,       \* the worker's local pointer
          mainAt        \* where main is: serving, or in its shutdown

clientVars == <<clientMutex, clientMap, heap, at, client, mainAt>>
allVars == <<vars, clientVars>>

At == {"none", "get", "connect", "greet", "query", "release", "destroy", "report", "last", "left"}

Mapped == {clientMap[t] : t \in Thread} \ {NoClient}

ClientsInit ==
  /\ Init
  /\ clientMutex = Nobody
  /\ clientMap = [t \in Thread |-> NoClient]
  /\ heap = [c \in Client |-> "free"]
  /\ at = [t \in Thread |-> "none"]
  /\ client = [t \in Thread |-> NoClient]
  /\ mainAt = "service"

Goto(t, place) == at' = [at EXCEPT ![t] = place]
Serving(t) == pc[t] = "run" /\ mainAt # "exited"

-------------------------------------------------------------------------------
(* get_sphinx_client and create_sphinx_client *)

\* A search or status request on the connection.
Request(t) ==
  /\ Serving(t)
  /\ at[t] = "none"
  /\ Goto(t, "get")
  /\ UNCHANGED <<vars, clientMutex, clientMap, heap, client, mainAt>>

\* Mistake: the result of find is used without comparing it with end().
GetUnchecked(t) ==
  /\ Serving(t) /\ at[t] = "get" /\ clientMutex = Nobody
  /\ client' = [client EXCEPT ![t] = clientMap[t]]
  /\ Goto(t, "query")
  /\ UNCHANGED <<vars, clientMutex, clientMap, heap, mainAt>>

GetKnown(t) ==
  /\ Serving(t)
  /\ at[t] = "get"
  /\ clientMutex = Nobody
  /\ clientMap[t] # NoClient
  /\ client' = [client EXCEPT ![t] = clientMap[t]]
  /\ Goto(t, "query")
  /\ UNCHANGED <<vars, clientMutex, clientMap, heap, mainAt>>

\* The mutex stays locked while sphinx_open talks to searchd.
StartOpen(t) ==
  /\ Serving(t)
  /\ at[t] = "get"
  /\ clientMutex = Nobody
  /\ clientMap[t] = NoClient
  /\ \E c \in Client : /\ heap[c] = "free"
                       /\ heap' = [heap EXCEPT ![c] = "opening"]
                       /\ client' = [client EXCEPT ![t] = c]
  /\ clientMutex' = t
  /\ Goto(t, "connect")
  /\ UNCHANGED <<vars, clientMap, mainAt>>

\* select() says the socket is writable; then net_read waits for the version
\* of searchd's protocol, without a timeout.
Connected(t) ==
  /\ Serving(t)
  /\ at[t] = "connect"
  /\ Goto(t, "greet")
  /\ UNCHANGED <<vars, clientMutex, clientMap, heap, client, mainAt>>

\* The client is entered in the map and the mutex released.
Opened(t) ==
  /\ Serving(t)
  /\ at[t] = "greet"
  /\ heap' = [heap EXCEPT ![client[t]] = "live"]
  /\ clientMap' = [clientMap EXCEPT ![t] = client[t]]
  /\ clientMutex' = Nobody
  /\ Goto(t, "query")
  /\ UNCHANGED <<vars, client, mainAt>>

\* Mistakes on this path: the client is not destroyed; the mutex is not unlocked.
OpenFailedLeak(t) ==
  /\ Serving(t) /\ at[t] \in {"connect", "greet"}
  /\ client' = [client EXCEPT ![t] = NoClient]
  /\ clientMutex' = Nobody
  /\ Goto(t, "last")
  /\ UNCHANGED <<vars, clientMap, heap, mainAt>>

OpenFailedLocked(t) ==
  /\ Serving(t) /\ at[t] \in {"connect", "greet"}
  /\ heap' = [heap EXCEPT ![client[t]] = "free"]
  /\ client' = [client EXCEPT ![t] = NoClient]
  /\ Goto(t, "last")
  /\ UNCHANGED <<vars, clientMutex, clientMap, mainAt>>

\* No connection: the client is destroyed, the request answered with an error
\* and the connection closed.
OpenFailed(t) ==
  /\ Serving(t)
  /\ at[t] \in {"connect", "greet"}
  /\ heap' = [heap EXCEPT ![client[t]] = "free"]
  /\ client' = [client EXCEPT ![t] = NoClient]
  /\ clientMutex' = Nobody
  /\ Goto(t, "last")
  /\ UNCHANGED <<vars, clientMap, mainAt>>

-------------------------------------------------------------------------------
(* search and deal_status_handler *)

\* The query, or the status command, succeeds; or the status command fails, and
\* its error text is read out of the client, which is kept.
Answered(t) ==
  /\ Serving(t)
  /\ at[t] = "query"
  /\ client' = [client EXCEPT ![t] = NoClient]
  /\ Goto(t, "none")
  /\ UNCHANGED <<vars, clientMutex, clientMap, heap, mainAt>>

\* A setting is rejected: the client is kept, the connection is closed.
SettingRejected(t) ==
  /\ Serving(t)
  /\ at[t] = "query"
  /\ Goto(t, "last")
  /\ UNCHANGED <<vars, clientMutex, clientMap, heap, client, mainAt>>

QueryFailed(t) ==
  /\ Serving(t)
  /\ at[t] = "query"
  /\ Goto(t, "release")
  /\ UNCHANGED <<vars, clientMutex, clientMap, heap, client, mainAt>>

\* The error text for the exception is read out of the client.
Report(t) ==
  /\ Serving(t)
  /\ at[t] = "report"
  /\ Goto(t, "last")
  /\ UNCHANGED <<vars, clientMutex, clientMap, heap, client, mainAt>>

-------------------------------------------------------------------------------
(* release_sphinx_client: after a failed query, and as the exit callback *)

Releasing(t) == \/ pc[t] = "run" /\ at[t] = "release"
                \/ pc[t] = "exitcb" /\ at[t] = "none"

AfterRelease(t) == IF pc[t] = "run" THEN "report" ELSE "left"

\* Mistake: the entry is found and not erased.
FindOnly(t) ==
  /\ mainAt # "exited" /\ Releasing(t) /\ clientMutex = Nobody
  /\ IF clientMap[t] = NoClient
       THEN Goto(t, AfterRelease(t)) /\ UNCHANGED client
       ELSE Goto(t, "destroy") /\ client' = [client EXCEPT ![t] = clientMap[t]]
  /\ UNCHANGED <<vars, clientMutex, clientMap, heap, mainAt>>

\* find and erase, under the mutex.
Erase(t) ==
  /\ mainAt # "exited"
  /\ Releasing(t)
  /\ clientMutex = Nobody
  /\ clientMap' = [clientMap EXCEPT ![t] = NoClient]
  /\ IF clientMap[t] = NoClient
       THEN Goto(t, AfterRelease(t)) /\ UNCHANGED client
       ELSE Goto(t, "destroy") /\ client' = [client EXCEPT ![t] = clientMap[t]]
  /\ UNCHANGED <<vars, clientMutex, heap, mainAt>>

\* sphinx_destroy, outside the mutex.
Destroy(t) ==
  /\ mainAt # "exited"
  /\ at[t] = "destroy"
  /\ heap' = [heap EXCEPT ![client[t]] = "free"]
  /\ Goto(t, AfterRelease(t))
  /\ UNCHANGED <<vars, clientMutex, clientMap, client, mainAt>>

-------------------------------------------------------------------------------
(* The thread pool, and main *)

\* Run returns when the connection is closed: by the client between two
\* requests, or by the worker after an error.
RunReturns(t) ==
  /\ mainAt # "exited"
  /\ at[t] \in {"none", "last"}
  /\ FinishTask(t)
  /\ client' = [client EXCEPT ![t] = NoClient]
  /\ Goto(t, "none")
  /\ UNCHANGED <<clientMutex, clientMap, heap, mainAt>>

\* Mistake: no exit callback is set.
LeftWithoutCallback(t) ==
  /\ mainAt # "exited" /\ at[t] = "none"
  /\ Left(t)
  /\ UNCHANGED clientVars

\* The pool goes on when the exit callback returned.
CallbackReturned(t) ==
  /\ mainAt # "exited"
  /\ at[t] = "left"
  /\ Left(t)
  /\ client' = [client EXCEPT ![t] = NoClient]
  /\ Goto(t, "none")
  /\ UNCHANGED <<clientMutex, clientMap, heap, mainAt>>

PoolStep(t) ==
  /\ mainAt # "exited"
  /\ \/ Wait(t) \/ Take(t) \/ WokenForNothing(t) \/ GoOn(t)
     \/ Renew(t) \/ DecideToLeave(t) \/ Leave(t)
  /\ UNCHANGED clientVars

PoolTime(t) == mainAt # "exited" /\ (Expire(t) \/ WakeUp(t)) /\ UNCHANGED clientVars

\* accept_conn_cb, called by main only.
Accept(k) == mainAt = "service" /\ (AddTask(k) \/ AddTaskRefused(k)) /\ UNCHANGED clientVars

\* A signal, or an error of accept, ends service().
StopService ==
  /\ mainAt = "service"
  /\ mainAt' = "closing"
  /\ UNCHANGED <<vars, clientMutex, clientMap, heap, at, client>>

\* close_all_sphinx_client destroys every client in the map and leaves the map
\* as it is.  The workers go on meanwhile.
CloseAll ==
  /\ mainAt = "closing"
  /\ clientMutex = Nobody
  /\ heap' = [c \in Client |-> IF c \in Mapped THEN "free" ELSE heap[c]]
  /\ mainAt' = "closed"
  /\ UNCHANGED <<vars, clientMutex, clientMap, at, client>>

MainExit ==
  /\ mainAt = "closed"
  /\ mainAt' = "exited"
  /\ UNCHANGED <<vars, clientMutex, clientMap, heap, at, client>>

\* The process is gone; not a deadlock.
Gone == mainAt = "exited" /\ UNCHANGED allVars

-------------------------------------------------------------------------------

\* What a worker does with its client, waiting for searchd aside.
ClientStep(t) == \/ GetKnown(t) \/ StartOpen(t)
                 \/ Answered(t) \/ SettingRejected(t) \/ QueryFailed(t) \/ Report(t)
                 \/ Erase(t) \/ Destroy(t)

ClientsNext ==
  \/ \E k \in Task : Accept(k)
  \/ \E t \in Thread : \/ PoolStep(t) \/ PoolTime(t) \/ CallbackReturned(t) \/ RunReturns(t)
                       \/ Request(t) \/ ClientStep(t)
                       \/ Connected(t) \/ Opened(t) \/ OpenFailed(t)
  \/ StopService \/ CloseAll \/ MainExit
  \/ Gone

ClientsSpec == ClientsInit /\ [][ClientsNext]_allVars

\* Threads run and select() has a timeout.  Nothing makes searchd send its
\* version or answer a query: net_read waits for it as long as it takes.
ClientsFairness ==
  \A t \in Thread :
    /\ WF_allVars(PoolStep(t) \/ CallbackReturned(t))
    /\ WF_allVars(GetKnown(t) \/ StartOpen(t))
    /\ WF_allVars(Erase(t) \/ Destroy(t) \/ Report(t))
    /\ WF_allVars(at[t] = "connect" /\ (Connected(t) \/ OpenFailed(t)))

FairClientsSpec == ClientsSpec /\ ClientsFairness
-------------------------------------------------------------------------------
(* Properties *)

\* The places at which a worker's pointer is used.
Holding == {"connect", "greet", "query", "release", "destroy", "report"}

\* The type invariant; a pointer that is used is not NULL.
ClientTypeOK ==
  /\ clientMutex \in Thread \cup {Nobody}
  /\ clientMap \in [Thread -> Client \cup {NoClient}]
  /\ heap \in [Client -> {"free", "opening", "live"}]
  /\ at \in [Thread -> At]
  /\ client \in [Thread -> Client \cup {NoClient}]
  /\ mainAt \in {"service", "closing", "closed", "exited"}
  /\ \A t \in Thread : at[t] \in Holding => client[t] # NoClient

BeforeCloseAll == mainAt \in {"service", "closing"}

\* Until main destroys the clients, a worker that queries through a client or
\* destroys it has a live one, which no other thread can find or has: although
\* it uses it without g_sphinx_client_mutex and addresses are used again.
OwnClient ==
  BeforeCloseAll =>
    \A t \in Thread :
      /\ clientMap[t] # NoClient => heap[clientMap[t]] = "live"
      /\ at[t] \in {"query", "release"} => client[t] = clientMap[t]
      /\ at[t] = "destroy" => heap[client[t]] = "live" /\ client[t] \notin Mapped
      /\ \A u \in Thread \ {t} :
           /\ clientMap[t] # NoClient => clientMap[t] # clientMap[u]
           /\ at[t] = "destroy" => ~(at[u] \in Holding \ {"report"} /\ client[u] = client[t])

\* Until then no client is lost: each one that is allocated is in the map of
\* its thread, or being opened by the holder of the mutex, or about to be
\* destroyed by the thread that took it out of the map.
NoLeak ==
  BeforeCloseAll =>
    \A c \in Client : heap[c] # "free" =>
      \/ c \in Mapped
      \/ \E t \in Thread : /\ client[t] = c
                           /\ \/ at[t] \in {"connect", "greet"} /\ clientMutex = t
                              \/ at[t] = "destroy"

\* The exit callback works: no entry of the map outlives its thread, so a new
\* thread that is given the same pthread_t starts without a client.
NoStaleEntry == \A t \in Thread : clientMap[t] # NoClient => pc[t] # "none"

\* The callback runs with the mutex of the pool locked and waits for the mutex
\* of the clients.  The pool stays locked for ever (AddTask, and with it accept,
\* blocked) only because some worker waits for searchd inside sphinx_open.
PoolUnlocked ==
  <>[](mutex # Nobody /\ mainAt # "exited") => <>[](\E t \in Thread : at[t] = "greet")
===============================================================================
