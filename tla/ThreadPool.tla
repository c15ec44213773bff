------------------------------ MODULE ThreadPool ------------------------------
(***************************************************************************)
(* The worker pool of libthreadpool/CThread.cc: one mutex, one condition   *)
(* variable, a bounded task list and between m_min and m_max threads.      *)
(*                                                                         *)
(* A section of code that holds m_pthreadMutex is one action, with two     *)
(* exceptions: pthread_cond_timedwait gives the mutex up in the middle,    *)
(* and the exit callback is called with the mutex held, so a leaving       *)
(* thread holds it over several steps (the variable mutex).  What ThreadFunc*)
(* does after unlocking is actions of its own, in particular the check of  *)
(* m_thread_num at line 186, which reads it without the mutex.             *)
(***************************************************************************)
EXTENDS Integers, Sequences, FiniteSets

CONSTANTS Thread,         \* thread identities; one is used again after its thread ended
          Task,           \* tasks, each handed to AddTask once
          MinThreads,     \* m_min
          MaxThreads,     \* m_max
          MaxTask,        \* m_max_task
          MaxCreateFail,  \* bound: how many calls of pthread_create fail
          NoTask,         \* the NULL task
          Nobody          \* the mutex is free

\* The configuration file may hold any two numbers for m_min and m_max: they
\* are not assumed to be in order.
LargestPool == IF MinThreads > MaxThreads THEN MinThreads ELSE MaxThreads

ASSUME ThreadPoolAssumption ==
  /\ IsFiniteSet(Thread)
  /\ NoTask \notin Task
  /\ Nobody \notin Thread
  /\ MinThreads \in Nat
  /\ MaxThreads \in Nat
  /\ MaxTask \in Nat
  /\ MaxCreateFail \in Nat
  /\ LargestPool <= Cardinality(Thread)

VARIABLES mutex,      \* who holds m_pthreadMutex between two steps
          taskList,   \* m_vecTaskList
          threadNum,  \* m_thread_num
          idle,       \* m_vecIdleThread
          busy,       \* m_vecBusyThread
          phantoms,   \* entries of m_vecIdleThread whose pthread_create failed
          pc,         \* where a thread is in ThreadFunc
          doing,      \* its local doing
          task,       \* its local task, while it runs it
          expired,    \* the clock has reached its local tp
          finished,   \* tasks that were run and deleted
          refused     \* tasks AddTask returned -1 for

poolVars == <<taskList, threadNum, idle, busy, phantoms>>
threadVars == <<pc, doing, task, expired>>
vars == <<mutex, poolVars, threadVars, finished, refused>>

Where == {"none", "top", "wait", "woken", "run", "check", "exit", "exitcb"}

Absent  == {t \in Thread : pc[t] = "none"}
Waiting == {t \in Thread : pc[t] = "wait"}
Awake   == {t \in Thread : pc[t] \in {"top", "woken"}}
Live    == Thread \ Absent
Queued  == {taskList[i] : i \in 1..Len(taskList)}
Running == {task[t] : t \in Thread} \ {NoTask}
Fresh   == Task \ (Queued \cup Running \cup finished \cup refused)

-------------------------------------------------------------------------------

\* Create(n): n entries are counted whether or not pthread_create made a
\* thread; the threads that were made start at the top of the loop.
Created(n) ==
  {c \in [new : SUBSET Absent, failed : 0..MaxCreateFail - phantoms] :
     Cardinality(c.new) + c.failed = n}

\* The constructor has no callers to exclude: a created thread finds the list
\* empty and can only wait until the constructor is done.
Init ==
  /\ mutex = Nobody
  /\ taskList = <<>>
  /\ threadNum = MinThreads
  /\ busy = {}
  /\ \E new \in SUBSET Thread, failed \in 0..MaxCreateFail :
       /\ Cardinality(new) + failed = MinThreads
       /\ idle = new
       /\ phantoms = failed
       /\ pc = [t \in Thread |-> IF t \in new THEN "top" ELSE "none"]
  /\ doing = [t \in Thread |-> FALSE]
  /\ task = [t \in Thread |-> NoTask]
  /\ expired = [t \in Thread |-> FALSE]
  /\ finished = {}
  /\ refused = {}

\* How many threads AddTask asks Create for, when the list holds n tasks.
NeedThreadNum(n) ==
  LET need == n - threadNum
      room == MaxThreads - threadNum
      wanted == IF need > room THEN room ELSE need
  IN IF need > threadNum /\ wanted > 0 THEN wanted ELSE 0

\* Mistake: signalling only when the list was empty before.
SignalledWhenFirst == IF Waiting = {} \/ taskList # <<>> THEN {{}} ELSE {{t} : t \in Waiting}

\* pthread_cond_signal wakes one waiting thread, if there is one.
Signalled == IF Waiting = {} THEN {{}} ELSE {{t} : t \in Waiting}

AddTaskRefused(k) ==
  /\ mutex = Nobody
  /\ k \in Fresh
  /\ Len(taskList) >= MaxTask
  /\ refused' = refused \cup {k}
  /\ UNCHANGED <<mutex, poolVars, threadVars, finished>>

AddTask(k) ==
  /\ mutex = Nobody
  /\ k \in Fresh
  /\ Len(taskList) < MaxTask
  /\ taskList' = Append(taskList, k)
  /\ \E c \in Created(NeedThreadNum(Len(taskList) + 1)), woken \in Signalled :
       /\ idle' = idle \cup c.new
       /\ phantoms' = phantoms + c.failed
       /\ threadNum' = threadNum + NeedThreadNum(Len(taskList) + 1)
       /\ pc' = [t \in Thread |-> IF t \in c.new THEN "top"
                                  ELSE IF t \in woken THEN "woken" ELSE pc[t]]
  /\ UNCHANGED <<mutex, busy, doing, task, expired, finished, refused>>

\* Mistake: a thread that goes idle forgets to reset doing.
MoveToIdleStillDoing(t) == busy' = busy \ {t} /\ idle' = idle \cup {t} /\ UNCHANGED doing

MoveToIdle(t) == /\ busy' = busy \ {t}
                 /\ idle' = idle \cup {t}
                 /\ doing' = [doing EXCEPT ![t] = FALSE]

MoveToBusy(t) == /\ idle' = idle \ {t}
                 /\ busy' = busy \cup {t}
                 /\ doing' = [doing EXCEPT ![t] = TRUE]

\* The list is empty at the top of the loop: pthread_cond_timedwait.
Wait(t) ==
  /\ pc[t] = "top"
  /\ mutex = Nobody
  /\ taskList = <<>>
  /\ IF doing[t] THEN MoveToIdle(t) ELSE UNCHANGED <<idle, busy, doing>>
  /\ pc' = [pc EXCEPT ![t] = "wait"]
  /\ UNCHANGED <<mutex, taskList, threadNum, phantoms, task, expired, finished, refused>>

\* A wait ends without a signal: its deadline passed, or a spurious wakeup.
WakeUp(t) ==
  /\ pc[t] = "wait"
  /\ pc' = [pc EXCEPT ![t] = "woken"]
  /\ UNCHANGED <<mutex, poolVars, doing, task, expired, finished, refused>>

\* Mistakes: the task is left in the list; the newest task is taken first.
TakeAndKeep(t) ==
  /\ pc[t] \in {"top", "woken"} /\ mutex = Nobody /\ taskList # <<>>
  /\ IF doing[t] THEN UNCHANGED <<idle, busy, doing>> ELSE MoveToBusy(t)
  /\ task' = [task EXCEPT ![t] = Head(taskList)]
  /\ pc' = [pc EXCEPT ![t] = "run"]
  /\ UNCHANGED <<mutex, taskList, threadNum, phantoms, expired, finished, refused>>

TakeNewest(t) ==
  /\ pc[t] \in {"top", "woken"} /\ mutex = Nobody /\ taskList # <<>>
  /\ IF doing[t] THEN UNCHANGED <<idle, busy, doing>> ELSE MoveToBusy(t)
  /\ task' = [task EXCEPT ![t] = taskList[Len(taskList)]]
  /\ taskList' = SubSeq(taskList, 1, Len(taskList) - 1)
  /\ pc' = [pc EXCEPT ![t] = "run"]
  /\ UNCHANGED <<mutex, threadNum, phantoms, expired, finished, refused>>

\* Whether it waited or not, the thread takes the head of the list.  The
\* callback m_before_run_task_cb is NULL in this program.
Take(t) ==
  /\ pc[t] \in {"top", "woken"}
  /\ mutex = Nobody
  /\ taskList # <<>>
  /\ IF doing[t] THEN UNCHANGED <<idle, busy, doing>> ELSE MoveToBusy(t)
  /\ task' = [task EXCEPT ![t] = Head(taskList)]
  /\ taskList' = Tail(taskList)
  /\ pc' = [pc EXCEPT ![t] = "run"]
  /\ UNCHANGED <<mutex, threadNum, phantoms, expired, finished, refused>>

\* It waited once and the list is (still, or again) empty: no task.
WokenForNothing(t) ==
  /\ pc[t] = "woken"
  /\ mutex = Nobody
  /\ taskList = <<>>
  /\ pc' = [pc EXCEPT ![t] = "check"]
  /\ UNCHANGED <<mutex, poolVars, doing, task, expired, finished, refused>>

\* Mistake: the task is reset before it is accounted for.
FinishAfterReset(t) ==
  /\ pc[t] = "run"
  /\ task' = [task EXCEPT ![t] = NoTask]
  /\ finished' = finished \cup {task'[t]}
  /\ expired' = [expired EXCEPT ![t] = FALSE]
  /\ pc' = [pc EXCEPT ![t] = "top"]
  /\ UNCHANGED <<mutex, poolVars, doing, refused>>

\* Run returns or throws, the task is deleted, tp is 60 seconds away.
FinishTask(t) ==
  /\ pc[t] = "run"
  /\ finished' = finished \cup {task[t]}
  /\ task' = [task EXCEPT ![t] = NoTask]
  /\ expired' = [expired EXCEPT ![t] = FALSE]
  /\ pc' = [pc EXCEPT ![t] = "top"]
  /\ UNCHANGED <<mutex, poolVars, doing, refused>>

\* The clock reaches tp.  During Run it does not matter: tp is set anew.
Expire(t) ==
  /\ pc[t] \in {"top", "wait", "woken", "check"}
  /\ ~expired[t]
  /\ expired' = [expired EXCEPT ![t] = TRUE]
  /\ UNCHANGED <<mutex, poolVars, pc, doing, task, finished, refused>>

\* time(0) < tp.tv_sec, or the thread is not idle: go round again.
GoOn(t) ==
  /\ pc[t] = "check"
  /\ ~expired[t] \/ doing[t]
  /\ pc' = [pc EXCEPT ![t] = "top"]
  /\ UNCHANGED <<mutex, poolVars, doing, task, expired, finished, refused>>

\* m_thread_num <= m_min, read without the mutex: the thread stays.
Renew(t) ==
  /\ pc[t] = "check"
  /\ expired[t] /\ ~doing[t]
  /\ threadNum <= MinThreads
  /\ expired' = [expired EXCEPT ![t] = FALSE]
  /\ pc' = [pc EXCEPT ![t] = "top"]
  /\ UNCHANGED <<mutex, poolVars, doing, task, finished, refused>>

\* Mistakes: leaving although m_min threads are left; leaving before the deadline.
LeaveTheReserve(t) ==
  /\ pc[t] = "check" /\ expired[t] /\ ~doing[t]
  /\ threadNum >= MinThreads
  /\ pc' = [pc EXCEPT ![t] = "exit"]
  /\ UNCHANGED <<mutex, poolVars, doing, task, expired, finished, refused>>

LeaveEarly(t) ==
  /\ pc[t] = "check" /\ ~doing[t]
  /\ threadNum > MinThreads
  /\ pc' = [pc EXCEPT ![t] = "exit"]
  /\ UNCHANGED <<mutex, poolVars, doing, task, expired, finished, refused>>

\* m_thread_num > m_min, read without the mutex: the thread will leave.
DecideToLeave(t) ==
  /\ pc[t] = "check"
  /\ expired[t] /\ ~doing[t]
  /\ threadNum > MinThreads
  /\ pc' = [pc EXCEPT ![t] = "exit"]
  /\ UNCHANGED <<mutex, poolVars, doing, task, expired, finished, refused>>

\* Mistake: the thread leaves the vector and is still counted.
LeaveUncounted(t) ==
  /\ pc[t] = "exit" /\ mutex = Nobody
  /\ mutex' = t
  /\ idle' = idle \ {t}
  /\ pc' = [pc EXCEPT ![t] = "exitcb"]
  /\ UNCHANGED <<taskList, threadNum, busy, phantoms, doing, task, expired, finished, refused>>

\* MoveOutIdleThread, up to the call of m_thread_exit_cb.
Leave(t) ==
  /\ pc[t] = "exit"
  /\ mutex = Nobody
  /\ mutex' = t
  /\ IF t \in idle THEN idle' = idle \ {t} /\ threadNum' = threadNum - 1
                   ELSE UNCHANGED <<idle, threadNum>>
  /\ pc' = [pc EXCEPT ![t] = "exitcb"]
  /\ UNCHANGED <<taskList, busy, phantoms, doing, task, expired, finished, refused>>

\* The callback returns, the mutex is released, the thread ends.
Left(t) ==
  /\ pc[t] = "exitcb"
  /\ mutex' = Nobody
  /\ pc' = [pc EXCEPT ![t] = "none"]
  /\ expired' = [expired EXCEPT ![t] = FALSE]
  /\ UNCHANGED <<poolVars, doing, task, finished, refused>>

\* What a thread does by itself, its task aside.
Loop(t) == \/ Wait(t) \/ Take(t) \/ WokenForNothing(t)
           \/ GoOn(t) \/ Renew(t) \/ DecideToLeave(t)
           \/ Leave(t) \/ Left(t)

Next == \/ \E k \in Task : AddTask(k) \/ AddTaskRefused(k)
        \/ \E t \in Thread : Loop(t) \/ WakeUp(t) \/ FinishTask(t) \/ Expire(t)

Spec == Init /\ [][Next]_vars

\* A thread that can run does run, the clock goes on and a timed wait ends at
\* its deadline.  Nothing makes Run return: it serves a connection for as long
\* as the client keeps it open and silent.
Fairness == \A t \in Thread : /\ WF_vars(Loop(t))
                              /\ WF_vars(Expire(t))
                              /\ WF_vars(expired[t] /\ WakeUp(t))

FairSpec == Spec /\ Fairness
-------------------------------------------------------------------------------
(* Properties *)

\* The type invariant.
TypeOK ==
  /\ mutex \in Thread \cup {Nobody}
  /\ taskList \in Seq(Task)
  /\ threadNum \in Nat
  /\ idle \subseteq Thread
  /\ busy \subseteq Thread
  /\ phantoms \in 0..MaxCreateFail
  /\ pc \in [Thread -> Where]
  /\ doing \in [Thread -> BOOLEAN]
  /\ task \in [Thread -> Task \cup {NoTask}]
  /\ expired \in [Thread -> BOOLEAN]
  /\ finished \subseteq Task
  /\ refused \subseteq Task

\* The two vectors, the thread's own idea of itself (doing) and the place where
\* it is in its loop agree.  This is what MoveToIdle and MoveToBusy rely on:
\* they erase the iterator their search ended at without looking whether it is
\* end(), and MoveOutIdleThread would let a thread end without giving back its
\* place and its sphinx client if the thread were not in the idle vector.
Membership ==
  /\ busy = {t \in Thread : doing[t]}
  /\ idle = {t \in Live : ~doing[t] /\ mutex # t}
  /\ \A t \in Thread :
       /\ doing[t] => pc[t] \in {"top", "run"}
       /\ pc[t] = "run" => doing[t]
       /\ pc[t] = "run" <=> task[t] # NoTask
       /\ pc[t] = "exitcb" <=> mutex = t

\* m_thread_num, which AddTask and the unlocked check at line 186 decide by,
\* is the number of the threads the pool knows, those that were never made
\* included, and never exceeds what the configuration allows.
Accounting ==
  /\ threadNum = Cardinality(idle) + Cardinality(busy) + phantoms
  /\ threadNum <= LargestPool

\* No lost wakeup: although AddTask signals only once per task, whatever the
\* threads are doing at that time, and a woken thread does not look at the list
\* again after it waited, a thread never sleeps while the list holds more tasks
\* than there are threads on their way to it.
WakeupsCoverQueue == Waiting # {} => Len(taskList) <= Cardinality(Awake)

\* Every task is in one place only: waiting in the list (once), run by one
\* thread, finished, or refused.
TasksInOnePlace ==
  /\ \A i, j \in 1..Len(taskList) : taskList[i] = taskList[j] => i = j
  /\ \A t, u \in Thread : task[t] # NoTask /\ task[t] = task[u] => t = u
  /\ Queued \cap Running = {}
  /\ finished \cap (Queued \cup Running) = {}
  /\ refused \cap (Queued \cup Running \cup finished) = {}

\* The pool implements the promise of TaskQueue: accepted tasks start in
\* order and once, by whatever threads.
Promise == INSTANCE TaskQueue WITH Capacity <- MaxTask, queue <- taskList, running <- Running
KeepsPromise == Promise!Spec

\* A thread leaves the vectors only out of the idle one, without a task and
\* after its time expired (CThread.cc:183-185).
LeavesWhenIdle ==
  [][\A t \in idle \cup busy :
       t \notin idle' \cup busy' => t \in idle /\ task[t] = NoTask /\ expired[t]]_vars

\* A task stays in the list for ever only if, from some time on, there are
\* threads and all of them are inside Run for ever: no thread of the pool
\* sleeps, checks its time or leaves instead of serving it (CThread.cc:93).
ServedUnlessAllBusy ==
  \A k \in Task :
     <>[](k \in Queued) => <>[](Live # {} /\ \A t \in Live : pc[t] = "run")
===============================================================================
