-------------------------- MODULE SphinxClientsProofs --------------------------
(***************************************************************************)
(* The clients of the workers, for any number of threads and addresses:    *)
(* who has which client, and that none is lost before main destroys them.  *)
(***************************************************************************)
EXTENDS SphinxClients, ThreadPoolProofs

\* Where a thread is with its client says where it is in the pool, whether it
\* has the mutex of the clients, and when it has no entry in the map.
Places ==
  \A t \in Thread :
    /\ at[t] \in {"get", "connect", "greet", "query", "release", "report", "last"} => pc[t] = "run"
    /\ at[t] = "left" => pc[t] = "exitcb"
    /\ at[t] = "destroy" => pc[t] \in {"run", "exitcb"}
    /\ at[t] \in {"connect", "greet"} <=> clientMutex = t
    /\ at[t] \in {"connect", "greet", "destroy", "report", "left"} => clientMap[t] = NoClient
    /\ clientMap[t] # NoClient => pc[t] # "none"

\* Until main destroys the clients: what is known of a client that is found in
\* the map, is being opened, or is about to be destroyed.
Owned ==
  BeforeCloseAll =>
    /\ \A t \in Thread :
         /\ clientMap[t] # NoClient => heap[clientMap[t]] = "live"
         /\ at[t] \in {"query", "release"} => client[t] = clientMap[t]
         /\ at[t] \in {"connect", "greet"} => heap[client[t]] = "opening"
         /\ at[t] = "destroy" => heap[client[t]] = "live"
    /\ \A t, u \in Thread :
         /\ t # u /\ clientMap[t] # NoClient => clientMap[t] # clientMap[u]
         /\ at[t] = "destroy" => client[t] # clientMap[u]
         /\ t # u /\ at[t] = "destroy" /\ at[u] = "destroy" => client[t] # client[u]
    /\ \A c \in Client : heap[c] # "free" =>
         \E t \in Thread : \/ clientMap[t] = c
                           \/ at[t] \in {"connect", "greet", "destroy"} /\ client[t] = c

ClientsInv == ClientTypeOK /\ Places /\ Owned

-------------------------------------------------------------------------------
LEMMA ClientsInitInv == ClientsInit => ClientsInv
<1> SUFFICES ASSUME ClientsInit PROVE ClientsInv
  OBVIOUS
<1> USE ClientAssumption, ThreadPoolAssumption DEF ClientsInit
<1>1. ClientTypeOK
  BY DEF ClientTypeOK, At, Holding
<1>2. Places
  BY DEF Places
<1>3. Owned
  BY DEF Owned
<1> QED
  BY <1>1, <1>2, <1>3 DEF ClientsInv

\* A step of the pool moves no thread out of Run or out of the exit callback, and
\* ends none; then nothing is disturbed.
PoolMoves ==
  \A t \in Thread : /\ pc[t] \in {"run", "exitcb"} => pc'[t] = pc[t]
                    /\ pc[t] # "none" => pc'[t] # "none"

LEMMA PoolMovesKeep ==
  ASSUME ClientsInv, PoolMoves, UNCHANGED clientVars
  PROVE  ClientsInv'
<1>1. ClientTypeOK'
  BY DEF ClientsInv, ClientTypeOK, clientVars
<1>2. Places'
  BY DEF ClientsInv, Places, clientVars, PoolMoves
<1>3. Owned'
  BY DEF ClientsInv, Owned, clientVars, BeforeCloseAll
<1> QED
  BY <1>1, <1>2, <1>3 DEF ClientsInv

LEMMA PoolStepMoves ==
  ASSUME TypeOK, NEW t \in Thread,
         \/ Wait(t) \/ Take(t) \/ WokenForNothing(t) \/ GoOn(t)
         \/ Renew(t) \/ DecideToLeave(t) \/ Leave(t) \/ Expire(t) \/ WakeUp(t)
  PROVE  PoolMoves
BY DEF TypeOK, PoolMoves, Wait, Take, WokenForNothing, GoOn, Renew, DecideToLeave, Leave,
       Expire, WakeUp

LEMMA AddTaskMoves ==
  ASSUME TypeOK, NEW k \in Task, AddTask(k) \/ AddTaskRefused(k)
  PROVE  PoolMoves
<1>1. CASE AddTaskRefused(k)
  BY <1>1 DEF AddTaskRefused, threadVars, PoolMoves
<1>2. CASE AddTask(k)
  <2>1. PICK c \in Created(NeedThreadNum(Len(taskList) + 1)), woken \in Signalled :
          pc' = [t \in Thread |-> IF t \in c.new THEN "top"
                                  ELSE IF t \in woken THEN "woken" ELSE pc[t]]
    BY <1>2 DEF AddTask
  <2>2. \A t \in c.new : pc[t] = "none"
    BY DEF Created, Absent
  <2>3. \A t \in woken : pc[t] = "wait"
    BY DEF Signalled, Waiting
  <2> QED
    BY <2>1, <2>2, <2>3 DEF PoolMoves
<1> QED
  BY <1>1, <1>2

-------------------------------------------------------------------------------
\* A thread's step with its client, the pool standing still.
LEMMA RequestKeeps ==
  ASSUME ClientsInv, NEW t \in Thread,
         Request(t) \/ Connected(t) \/ SettingRejected(t) \/ QueryFailed(t) \/ Report(t)
  PROVE  ClientsInv'
<1>0. UNCHANGED <<vars, clientMutex, clientMap, heap, client, mainAt>>
  BY DEF Request, Connected, SettingRejected, QueryFailed, Report
<1>1. PICK p \in At : at' = [at EXCEPT ![t] = p]
  BY DEF Request, Connected, SettingRejected, QueryFailed, Report, Goto, At
<1>2. ClientTypeOK'
  BY <1>0 DEF Request, Connected, SettingRejected, QueryFailed, Report, Goto, At,
              ClientsInv, ClientTypeOK, Holding
<1>3. Places'
  BY <1>0 DEF Request, Connected, SettingRejected, QueryFailed, Report, Goto, Serving,
              ClientsInv, ClientTypeOK, Places, vars, threadVars
<1>4. Owned'
  BY <1>0 DEF Request, Connected, SettingRejected, QueryFailed, Report, Goto,
              ClientsInv, ClientTypeOK, Owned, BeforeCloseAll
<1> QED
  BY <1>2, <1>3, <1>4 DEF ClientsInv

LEMMA GetKnownKeeps ==
  ASSUME ClientsInv, NEW t \in Thread, GetKnown(t)
  PROVE  ClientsInv'
<1>1. ClientTypeOK'
  BY DEF GetKnown, Goto, At, ClientsInv, ClientTypeOK, Holding
<1>2. Places'
  BY DEF GetKnown, Goto, Serving, ClientsInv, ClientTypeOK, Places, vars, threadVars
<1>3. Owned'
  BY DEF GetKnown, Goto, ClientsInv, ClientTypeOK, Owned, BeforeCloseAll
<1> QED
  BY <1>1, <1>2, <1>3 DEF ClientsInv

LEMMA StartOpenKeeps ==
  ASSUME ClientsInv, NEW t \in Thread, StartOpen(t)
  PROVE  ClientsInv'
<1> USE ThreadPoolAssumption, ClientAssumption
<1>1. PICK c \in Client : /\ heap[c] = "free"
                          /\ heap' = [heap EXCEPT ![c] = "opening"]
                          /\ client' = [client EXCEPT ![t] = c]
  BY DEF StartOpen
<1>2. ClientTypeOK'
  BY <1>1 DEF StartOpen, Goto, At, ClientsInv, ClientTypeOK, Holding
<1>3. Places'
  BY DEF StartOpen, Goto, Serving, ClientsInv, ClientTypeOK, Places, vars, threadVars
<1>4. Owned'
  BY <1>1 DEF StartOpen, Goto, ClientsInv, ClientTypeOK, Owned, BeforeCloseAll, Holding
<1> QED
  BY <1>2, <1>3, <1>4 DEF ClientsInv

LEMMA OpenedKeeps ==
  ASSUME ClientsInv, NEW t \in Thread, Opened(t)
  PROVE  ClientsInv'
<1> USE ThreadPoolAssumption, ClientAssumption
<1>0. client[t] \in Client /\ clientMutex = t
  BY DEF Opened, ClientsInv, ClientTypeOK, Holding, Places
<1>1. ClientTypeOK'
  BY <1>0 DEF Opened, Goto, At, ClientsInv, ClientTypeOK, Holding
<1>2. Places'
  BY <1>0 DEF Opened, Goto, Serving, ClientsInv, ClientTypeOK, Places, vars, threadVars
<1>3. \A u \in Thread : u # t => at[u] \notin {"connect", "greet"}
  BY <1>0 DEF ClientsInv, Places
<1>4. Owned'
  <2> SUFFICES ASSUME BeforeCloseAll' PROVE Owned'
    BY DEF Owned
  <2>1. BeforeCloseAll /\ Owned
    BY DEF Opened, BeforeCloseAll, ClientsInv
  <2>2. /\ heap[client[t]] = "opening" /\ clientMap[t] = NoClient
        /\ \A u \in Thread : clientMap[u] # client[t]
        /\ \A u \in Thread : at[u] = "destroy" => client[u] # client[t] /\ client[u] # NoClient
    BY <1>0, <2>1 DEF Opened, Owned, ClientsInv, ClientTypeOK, Places, Holding
  <2>3. /\ heap' = [heap EXCEPT ![client[t]] = "live"] /\ heap \in [Client -> {"free", "opening", "live"}]
        /\ clientMap' = [clientMap EXCEPT ![t] = client[t]] /\ clientMap \in [Thread -> Client \cup {NoClient}]
        /\ at' = [at EXCEPT ![t] = "query"] /\ at \in [Thread -> At]
        /\ client' = client
    BY DEF Opened, Goto, ClientsInv, ClientTypeOK
  <2>4. (\A u \in Thread :
           /\ clientMap[u] # NoClient => heap[clientMap[u]] = "live"
           /\ at[u] \in {"query", "release"} => client[u] = clientMap[u]
           /\ at[u] \in {"connect", "greet"} => heap[client[u]] = "opening"
           /\ at[u] = "destroy" => heap[client[u]] = "live")'
    BY <1>0, <1>3, <2>1, <2>2, <2>3 DEF Owned, ClientsInv, ClientTypeOK, Holding
  <2>5. (\A v, u \in Thread :
           /\ v # u /\ clientMap[v] # NoClient => clientMap[v] # clientMap[u]
           /\ at[v] = "destroy" => client[v] # clientMap[u]
           /\ v # u /\ at[v] = "destroy" /\ at[u] = "destroy" => client[v] # client[u])'
    BY <1>0, <2>1, <2>2, <2>3 DEF Owned
  <2>6. (\A c \in Client : heap[c] # "free" =>
           \E u \in Thread : \/ clientMap[u] = c
                             \/ at[u] \in {"connect", "greet", "destroy"} /\ client[u] = c)'
    <3> SUFFICES ASSUME NEW c \in Client, heap'[c] # "free"
                 PROVE  \E u \in Thread : \/ clientMap'[u] = c
                                          \/ at'[u] \in {"connect", "greet", "destroy"} /\ client'[u] = c
      OBVIOUS
    <3>1. CASE c = client[t]
      BY <3>1, <2>3
    <3>2. CASE c # client[t]
      <4>1. PICK u \in Thread : \/ clientMap[u] = c
                                \/ at[u] \in {"connect", "greet", "destroy"} /\ client[u] = c
        BY <3>2, <2>1, <2>3 DEF Owned
      <4>2. u # t
        BY <3>2, <4>1, <2>2
      <4> QED
        BY <4>1, <4>2, <2>3
    <3> QED
      BY <3>1, <3>2
  <2> QED
    BY <2>4, <2>5, <2>6 DEF Owned
<1> QED
  BY <1>1, <1>2, <1>4 DEF ClientsInv

LEMMA OpenFailedKeeps ==
  ASSUME ClientsInv, NEW t \in Thread, OpenFailed(t)
  PROVE  ClientsInv'
<1> USE ThreadPoolAssumption, ClientAssumption
<1>0. client[t] \in Client /\ clientMutex = t
  BY DEF OpenFailed, ClientsInv, ClientTypeOK, Holding, Places
<1>1. ClientTypeOK'
  BY <1>0 DEF OpenFailed, Goto, At, ClientsInv, ClientTypeOK, Holding
<1>2. Places'
  BY <1>0 DEF OpenFailed, Goto, Serving, ClientsInv, ClientTypeOK, Places, vars, threadVars
<1>3. \A u \in Thread : u # t => at[u] \notin {"connect", "greet"}
  BY <1>0 DEF ClientsInv, Places
<1>4. Owned'
  BY <1>0, <1>3 DEF OpenFailed, Goto, ClientsInv, ClientTypeOK, Owned, BeforeCloseAll
<1> QED
  BY <1>1, <1>2, <1>4 DEF ClientsInv

LEMMA AnsweredKeeps ==
  ASSUME ClientsInv, NEW t \in Thread, Answered(t)
  PROVE  ClientsInv'
<1>1. ClientTypeOK'
  BY DEF Answered, Goto, At, ClientsInv, ClientTypeOK, Holding
<1>2. Places'
  BY DEF Answered, Goto, Serving, ClientsInv, ClientTypeOK, Places, vars, threadVars
<1>3. Owned'
  BY DEF Answered, Goto, ClientsInv, ClientTypeOK, Owned, BeforeCloseAll
<1> QED
  BY <1>1, <1>2, <1>3 DEF ClientsInv

LEMMA EraseKeeps ==
  ASSUME ClientsInv, NEW t \in Thread, Erase(t)
  PROVE  ClientsInv'
<1> USE ThreadPoolAssumption, ClientAssumption
<1>1. CASE clientMap[t] = NoClient
  <2>1. clientMap' = clientMap
    BY <1>1 DEF Erase, ClientsInv, ClientTypeOK
  <2>2. at' = [at EXCEPT ![t] = AfterRelease(t)] /\ UNCHANGED <<vars, client, clientMutex, heap, mainAt>>
    BY <1>1 DEF Erase, Goto
  <2>3. ClientTypeOK'
    BY <2>1, <2>2 DEF Erase, Releasing, AfterRelease, At, ClientsInv, ClientTypeOK, Holding
  <2>4. Places'
    BY <1>1, <2>1, <2>2 DEF Erase, Releasing, AfterRelease, ClientsInv, ClientTypeOK, Places, vars, threadVars
  <2>5. Owned'
    BY <2>1, <2>2 DEF Erase, Releasing, AfterRelease, ClientsInv, ClientTypeOK, Owned, BeforeCloseAll
  <2> QED
    BY <2>3, <2>4, <2>5 DEF ClientsInv
<1>2. CASE clientMap[t] # NoClient
  <2>2. /\ at' = [at EXCEPT ![t] = "destroy"]
        /\ client' = [client EXCEPT ![t] = clientMap[t]]
        /\ clientMap' = [clientMap EXCEPT ![t] = NoClient]
        /\ UNCHANGED <<vars, clientMutex, heap, mainAt>>
    BY <1>2 DEF Erase, Goto
  <2>3. ClientTypeOK'
    BY <1>2, <2>2 DEF At, ClientsInv, ClientTypeOK, Holding
  <2>4. Places'
    BY <1>2, <2>2 DEF Erase, Releasing, ClientsInv, ClientTypeOK, Places, vars, threadVars
  <2>5. Owned'
    BY <1>2, <2>2 DEF Erase, Releasing, ClientsInv, ClientTypeOK, Owned, BeforeCloseAll, Holding
  <2> QED
    BY <2>3, <2>4, <2>5 DEF ClientsInv
<1> QED
  BY <1>1, <1>2

LEMMA DestroyKeeps ==
  ASSUME ClientsInv, NEW t \in Thread, Destroy(t)
  PROVE  ClientsInv'
<1> USE ThreadPoolAssumption, ClientAssumption
<1>0. client[t] \in Client
  BY DEF Destroy, ClientsInv, ClientTypeOK, Holding
<1>1. ClientTypeOK'
  BY <1>0 DEF Destroy, AfterRelease, Goto, At, ClientsInv, ClientTypeOK, Holding
<1>2. Places'
  BY DEF Destroy, AfterRelease, Goto, ClientsInv, ClientTypeOK, Places, vars, threadVars
<1>3. Owned'
  BY <1>0 DEF Destroy, AfterRelease, Goto, ClientsInv, ClientTypeOK, Owned, BeforeCloseAll
<1> QED
  BY <1>1, <1>2, <1>3 DEF ClientsInv

\* The steps with which a task or a thread ends.
LEMMA RunReturnsKeeps ==
  ASSUME ClientsInv, TypeOK, NEW t \in Thread, RunReturns(t)
  PROVE  ClientsInv'
<1>1. ClientTypeOK'
  BY DEF RunReturns, Goto, At, ClientsInv, ClientTypeOK, Holding
<1>2. Places'
  BY DEF RunReturns, FinishTask, TypeOK, Goto, ClientsInv, ClientTypeOK, Places
<1>3. Owned'
  BY DEF RunReturns, Goto, ClientsInv, ClientTypeOK, Owned, BeforeCloseAll
<1> QED
  BY <1>1, <1>2, <1>3 DEF ClientsInv

LEMMA CallbackReturnedKeeps ==
  ASSUME ClientsInv, TypeOK, NEW t \in Thread, CallbackReturned(t)
  PROVE  ClientsInv'
<1>1. ClientTypeOK'
  BY DEF CallbackReturned, Goto, At, ClientsInv, ClientTypeOK, Holding
<1>2. Places'
  BY DEF CallbackReturned, Left, TypeOK, Goto, ClientsInv, ClientTypeOK, Places
<1>3. Owned'
  BY DEF CallbackReturned, Goto, ClientsInv, ClientTypeOK, Owned, BeforeCloseAll
<1> QED
  BY <1>1, <1>2, <1>3 DEF ClientsInv

\* main's shutdown.
LEMMA ShutdownKeeps ==
  ASSUME ClientsInv, StopService \/ CloseAll \/ MainExit
  PROVE  ClientsInv'
<1>1. ClientTypeOK'
  BY DEF StopService, CloseAll, MainExit, ClientsInv, ClientTypeOK
<1>2. Places'
  BY DEF StopService, CloseAll, MainExit, ClientsInv, Places, vars, threadVars
<1>3. Owned'
  BY DEF StopService, CloseAll, MainExit, ClientsInv, Owned, BeforeCloseAll
<1> QED
  BY <1>1, <1>2, <1>3 DEF ClientsInv

-------------------------------------------------------------------------------
\* Every step of the composition is a step of the pool or leaves it alone.
LEMMA ClientsStepsPool == [ClientsNext]_allVars => [Next]_vars
BY DEF ClientsNext, allVars, Next, Loop, Accept, PoolStep, PoolTime, CallbackReturned, RunReturns,
       Request, ClientStep, GetKnown, StartOpen, Answered, SettingRejected, QueryFailed, Report,
       Erase, Destroy, Connected, Opened, OpenFailed, StopService, CloseAll, MainExit, Gone

LEMMA ClientsStep == TypeOK /\ ClientsInv /\ [ClientsNext]_allVars => ClientsInv'
<1> SUFFICES ASSUME TypeOK, ClientsInv, [ClientsNext]_allVars PROVE ClientsInv'
  OBVIOUS
<1>1. CASE UNCHANGED allVars
  <2>1. PoolMoves /\ UNCHANGED clientVars
    BY <1>1 DEF allVars, vars, threadVars, PoolMoves
  <2> QED
    BY <2>1, PoolMovesKeep
<1>2. CASE \E k \in Task : Accept(k)
  BY <1>2, AddTaskMoves, PoolMovesKeep DEF Accept
<1>3. CASE \E t \in Thread : PoolStep(t) \/ PoolTime(t)
  BY <1>3, PoolStepMoves, PoolMovesKeep DEF PoolStep, PoolTime
<1>4. CASE \E t \in Thread : CallbackReturned(t) \/ RunReturns(t)
  BY <1>4, CallbackReturnedKeeps, RunReturnsKeeps
<1>5. CASE \E t \in Thread : Request(t) \/ ClientStep(t) \/ Connected(t) \/ Opened(t) \/ OpenFailed(t)
  BY <1>5, RequestKeeps, GetKnownKeeps, StartOpenKeeps, AnsweredKeeps, EraseKeeps, DestroyKeeps,
     OpenedKeeps, OpenFailedKeeps DEF ClientStep
<1>6. CASE StopService \/ CloseAll \/ MainExit
  BY <1>6, ShutdownKeeps
<1> QED
  BY <1>1, <1>2, <1>3, <1>4, <1>5, <1>6 DEF ClientsNext, Gone

\* The invariant of the pool and that of the clients hold together.
THEOREM ClientsAlways == ClientsSpec => [](Consistent /\ ClientsInv)
<1>1. ClientsInit => Consistent /\ ClientsInv
  BY InitConsistent, ClientsInitInv DEF ClientsInit
<1>2. Consistent /\ ClientsInv /\ [ClientsNext]_allVars => (Consistent /\ ClientsInv)'
  BY ClientsStepsPool, NextConsistent, ClientsStep DEF Consistent
<1> QED
  BY <1>1, <1>2, PTL DEF ClientsSpec

\* A pointer that a worker uses is never NULL (main.cc:256-353).
THEOREM ClientsTypes == ClientsSpec => []ClientTypeOK
BY ClientsAlways, PTL DEF ClientsInv

\* A worker's client is its own although it is used without the mutex.
THEOREM ClientsOwnClient == ClientsSpec => []OwnClient
<1>1. ClientsInv => OwnClient
  <2> SUFFICES ASSUME ClientsInv, BeforeCloseAll PROVE OwnClient
    BY DEF OwnClient
  <2>1. ASSUME NEW t \in Thread, at[t] = "destroy"
        PROVE  heap[client[t]] = "live" /\ client[t] \notin Mapped
    BY <2>1 DEF ClientsInv, Owned, Mapped
  <2>2. ASSUME NEW t \in Thread, NEW u \in Thread \ {t}, at[t] = "destroy"
        PROVE  ~(at[u] \in Holding \ {"report"} /\ client[u] = client[t])
    BY <2>2 DEF ClientsInv, Owned, Holding
  <2> QED
    BY <2>1, <2>2 DEF OwnClient, ClientsInv, Owned
<1> QED
  BY <1>1, ClientsAlways, PTL

\* No client is lost before main destroys them.
THEOREM ClientsNoLeak == ClientsSpec => []NoLeak
<1>1. ClientsInv => NoLeak
  <2> SUFFICES ASSUME ClientsInv, BeforeCloseAll, NEW c \in Client, heap[c] # "free"
               PROVE  \/ c \in Mapped
                      \/ \E t \in Thread : /\ client[t] = c
                                           /\ \/ at[t] \in {"connect", "greet"} /\ clientMutex = t
                                              \/ at[t] = "destroy"
    BY DEF NoLeak
  <2>1. PICK t \in Thread : \/ clientMap[t] = c
                            \/ at[t] \in {"connect", "greet", "destroy"} /\ client[t] = c
    BY DEF ClientsInv, Owned
  <2> QED
    BY <2>1, ClientAssumption DEF ClientsInv, Places, Mapped
<1> QED
  BY <1>1, ClientsAlways, PTL

\* No entry outlives its thread: the exit callback (main.cc:308-335) comes first.
THEOREM ClientsNoStaleEntry == ClientsSpec => []NoStaleEntry
<1>1. ClientsInv => NoStaleEntry
  BY DEF ClientsInv, Places, NoStaleEntry
<1> QED
  BY <1>1, ClientsAlways, PTL
===============================================================================
