--------------------------- MODULE ThreadPoolProofs ---------------------------
(***************************************************************************)
(* What TLAPS proves of the thread pool, for every number of threads and   *)
(* tasks and for every m_min, m_max and m_max_task.                        *)
(***************************************************************************)
EXTENDS ThreadPool, FiniteSetTheorems, SequenceTheorems, TLAPS

\* The type invariant needs the accounting (m_thread_num is not negative) and
\* the accounting needs the membership of the vectors: the three are inductive
\* together, and not one by one.
Consistent == TypeOK /\ Membership /\ Accounting

\* NeedThreadNum is a natural number that leaves the pool within its limits.
LEMMA NeedThreadNumBounded ==
  ASSUME threadNum \in Nat, NEW n \in Nat
  PROVE  /\ NeedThreadNum(n) \in Nat
         /\ NeedThreadNum(n) > 0 => threadNum + NeedThreadNum(n) <= MaxThreads
BY ThreadPoolAssumption DEF NeedThreadNum

\* The sets of threads are finite.
LEMMA FiniteThreads ==
  ASSUME NEW S \in SUBSET Thread
  PROVE  IsFiniteSet(S) /\ Cardinality(S) \in Nat
BY ThreadPoolAssumption, FS_Subset, FS_CardinalityType

\* Adding to and removing from sets of threads.
LEMMA DisjointUnion ==
  ASSUME NEW S \in SUBSET Thread, NEW T \in SUBSET Thread, S \cap T = {}
  PROVE  Cardinality(S \cup T) = Cardinality(S) + Cardinality(T)
<1>1. IsFiniteSet(S) /\ IsFiniteSet(T) /\ Cardinality(S) \in Nat /\ Cardinality(T) \in Nat
  BY FiniteThreads
<1>2. Cardinality(S \cup T) = Cardinality(S) + Cardinality(T) - Cardinality(S \cap T)
  BY <1>1, FS_Union
<1>3. Cardinality(S \cap T) = 0
  BY FS_EmptySet
<1> QED
  BY <1>1, <1>2, <1>3

LEMMA OneMore ==
  ASSUME NEW S \in SUBSET Thread, NEW t \in Thread, t \notin S
  PROVE  Cardinality(S \cup {t}) = Cardinality(S) + 1
BY FiniteThreads, FS_AddElement

LEMMA OneLess ==
  ASSUME NEW S \in SUBSET Thread, NEW t \in S
  PROVE  Cardinality(S \ {t}) = Cardinality(S) - 1
BY FiniteThreads, FS_RemoveElement

-------------------------------------------------------------------------------

LEMMA InitConsistent == Init => Consistent
<1> SUFFICES ASSUME Init PROVE Consistent
  OBVIOUS
<1> USE ThreadPoolAssumption
<1>1. PICK new \in SUBSET Thread, failed \in 0..MaxCreateFail :
        /\ Cardinality(new) + failed = MinThreads
        /\ idle = new
        /\ phantoms = failed
        /\ pc = [t \in Thread |-> IF t \in new THEN "top" ELSE "none"]
  BY DEF Init
<1>2. TypeOK
  BY <1>1 DEF Init, TypeOK, Where
<1>3. Membership
  BY <1>1 DEF Init, Membership, Live, Absent
<1>4. Accounting
  BY <1>1, FiniteThreads, FS_EmptySet DEF Init, Accounting, LargestPool
<1> QED
  BY <1>2, <1>3, <1>4 DEF Consistent

LEMMA AddTaskConsistent ==
  ASSUME Consistent, NEW k \in Task, AddTask(k)
  PROVE  Consistent'
<1> DEFINE n == NeedThreadNum(Len(taskList) + 1)
<1> USE ThreadPoolAssumption
<1>0. TypeOK /\ Membership /\ Accounting
  BY DEF Consistent
<1>1. n \in Nat /\ (n > 0 => threadNum + n <= MaxThreads)
  BY <1>0, NeedThreadNumBounded DEF TypeOK
<1>2. PICK new \in SUBSET Absent, failed \in 0..MaxCreateFail - phantoms, woken \in Signalled :
        /\ Cardinality(new) + failed = n
        /\ idle' = idle \cup new
        /\ phantoms' = phantoms + failed
        /\ threadNum' = threadNum + n
        /\ pc' = [t \in Thread |-> IF t \in new THEN "top"
                                   ELSE IF t \in woken THEN "woken" ELSE pc[t]]
  <2>1. PICK c \in Created(n), w \in Signalled :
          /\ idle' = idle \cup c.new
          /\ phantoms' = phantoms + c.failed
          /\ threadNum' = threadNum + n
          /\ pc' = [t \in Thread |-> IF t \in c.new THEN "top"
                                     ELSE IF t \in w THEN "woken" ELSE pc[t]]
    BY DEF AddTask
  <2>2. c.new \in SUBSET Absent /\ c.failed \in 0..MaxCreateFail - phantoms
        /\ Cardinality(c.new) + c.failed = n
    BY DEF Created
  <2> QED
    BY <2>1, <2>2
<1>3. /\ mutex = Nobody
      /\ taskList' = Append(taskList, k)
      /\ UNCHANGED <<mutex, busy, doing, task, expired, finished, refused>>
  BY DEF AddTask
<1>4. new \subseteq Thread /\ \A t \in new : pc[t] = "none"
  BY <1>2 DEF Absent
<1>5. woken \subseteq Thread /\ \A t \in woken : pc[t] = "wait"
  BY <1>2 DEF Signalled, Waiting
<1>6. TypeOK'
  BY <1>0, <1>1, <1>2, <1>3, <1>4, <1>5 DEF TypeOK, Where
<1>7. Membership'
  BY <1>0, <1>2, <1>3, <1>4, <1>5 DEF Membership, TypeOK, Where, Live, Absent
<1>8. Accounting'
  <2>1. idle \cap new = {} /\ idle \subseteq Thread
    BY <1>0, <1>4 DEF Membership, Live, Absent
  <2>2. Cardinality(idle \cup new) = Cardinality(idle) + Cardinality(new)
    BY <2>1, <1>4, DisjointUnion
  <2>3. Cardinality(idle) \in Nat /\ Cardinality(new) \in Nat /\ Cardinality(busy) \in Nat
    BY <2>1, <1>4, <1>0, FiniteThreads DEF TypeOK
  <2>4. threadNum' <= LargestPool
    BY <1>0, <1>1, <1>2 DEF Accounting, LargestPool, TypeOK
  <2> QED
    BY <2>2, <2>3, <2>4, <1>0, <1>2, <1>3, <1>1 DEF Accounting, TypeOK
<1> QED
  BY <1>6, <1>7, <1>8 DEF Consistent

-------------------------------------------------------------------------------

\* The actions of a thread that move it between the vectors.
LEMMA MoveConsistent ==
  ASSUME Consistent, NEW t \in Thread, Wait(t) \/ Take(t) \/ Leave(t)
  PROVE  Consistent'
<1> USE ThreadPoolAssumption
<1>0. TypeOK /\ Membership /\ Accounting
  BY DEF Consistent
<1>1. /\ idle \in SUBSET Thread /\ busy \in SUBSET Thread
      /\ Cardinality(idle) \in Nat /\ Cardinality(busy) \in Nat
  BY <1>0, FiniteThreads DEF TypeOK
<1>2. CASE Wait(t)
  <2>1. TypeOK'
    BY <1>0, <1>2 DEF TypeOK, Where, Wait, MoveToIdle
  <2>2. Membership'
    BY <1>0, <1>2 DEF TypeOK, Membership, Live, Absent, Where, Wait, MoveToIdle
  <2>3. CASE doing[t]
    <3>1. t \in busy /\ t \notin idle
      BY <1>0, <2>3 DEF Membership
    <3>2. idle' = idle \cup {t} /\ busy' = busy \ {t} /\ UNCHANGED <<threadNum, phantoms>>
      BY <1>2, <2>3 DEF Wait, MoveToIdle
    <3>3. /\ Cardinality(idle \cup {t}) = Cardinality(idle) + 1
          /\ Cardinality(busy \ {t}) = Cardinality(busy) - 1
      BY <1>1, <3>1, OneMore, OneLess
    <3>4. Accounting'
      BY <1>0, <1>1, <3>2, <3>3 DEF Accounting, TypeOK
    <3> QED
      BY <2>1, <2>2, <3>4 DEF Consistent
  <2>4. CASE ~doing[t]
    BY <1>0, <1>2, <2>1, <2>2, <2>4 DEF Wait, Accounting, Consistent
  <2> QED
    BY <2>3, <2>4
<1>3. CASE Take(t)
  <2>0. taskList \in Seq(Task) /\ taskList # <<>>
    BY <1>0, <1>3 DEF TypeOK, Take
  <2>1. Head(taskList) \in Task /\ Tail(taskList) \in Seq(Task)
    BY <2>0, HeadTailProperties
  <2>2. TypeOK'
    BY <1>0, <1>3, <2>1 DEF TypeOK, Where, Take, MoveToBusy
  <2>3. Membership'
    BY <1>0, <1>3, <2>1 DEF TypeOK, Membership, Live, Absent, Where, Take, MoveToBusy
  <2>4. CASE ~doing[t]
    <3>1. t \in idle /\ t \notin busy
      BY <1>0, <1>3, <2>4 DEF Membership, Take, Live, Absent
    <3>2. busy' = busy \cup {t} /\ idle' = idle \ {t} /\ UNCHANGED <<threadNum, phantoms>>
      BY <1>3, <2>4 DEF Take, MoveToBusy
    <3>3. /\ Cardinality(busy \cup {t}) = Cardinality(busy) + 1
          /\ Cardinality(idle \ {t}) = Cardinality(idle) - 1
      BY <1>1, <3>1, OneMore, OneLess
    <3>4. Accounting'
      BY <1>0, <1>1, <3>2, <3>3 DEF Accounting, TypeOK
    <3> QED
      BY <2>2, <2>3, <3>4 DEF Consistent
  <2>5. CASE doing[t]
    BY <1>0, <1>3, <2>2, <2>3, <2>5 DEF Take, Accounting, Consistent
  <2> QED
    BY <2>4, <2>5
<1>4. CASE Leave(t)
  <2>1. t \in idle
    BY <1>0, <1>4 DEF Membership, Leave, Live, Absent
  <2>2. idle' = idle \ {t} /\ threadNum' = threadNum - 1 /\ UNCHANGED <<busy, phantoms>>
    BY <1>4, <2>1 DEF Leave
  <2>3. Cardinality(idle \ {t}) = Cardinality(idle) - 1 /\ Cardinality(idle \ {t}) \in Nat
    BY <1>1, <2>1, OneLess, FiniteThreads
  <2>4. threadNum' \in Nat
    BY <1>0, <1>1, <2>2, <2>3 DEF Accounting, TypeOK
  <2>5. TypeOK'
    BY <1>0, <1>4, <2>2, <2>4 DEF TypeOK, Where, Leave
  <2>6. Membership'
    BY <1>0, <1>4, <2>1 DEF TypeOK, Membership, Live, Absent, Where, Leave
  <2>7. Accounting'
    BY <1>0, <1>1, <2>2, <2>3 DEF Accounting, TypeOK, LargestPool
  <2> QED
    BY <2>5, <2>6, <2>7 DEF Consistent
<1> QED
  BY <1>2, <1>3, <1>4

\* The other actions leave the two vectors and the counters alone.
LEMMA StayConsistent ==
  ASSUME Consistent, NEW t \in Thread,
         \/ WokenForNothing(t) \/ GoOn(t) \/ Renew(t) \/ DecideToLeave(t)
         \/ WakeUp(t) \/ FinishTask(t) \/ Expire(t) \/ Left(t)
  PROVE  Consistent'
<1> USE ThreadPoolAssumption
<1>0. TypeOK /\ Membership /\ Accounting
  BY DEF Consistent
<1>1. Accounting'
  BY <1>0 DEF Accounting, WokenForNothing, GoOn, Renew, DecideToLeave, WakeUp, FinishTask,
              Expire, Left, poolVars
<1>3. CASE WokenForNothing(t) \/ GoOn(t) \/ Renew(t) \/ DecideToLeave(t) \/ WakeUp(t)
  <2>0. TypeOK'
    BY <1>0, <1>3 DEF TypeOK, Membership, Where, poolVars, WokenForNothing, GoOn, Renew, DecideToLeave, WakeUp
  <2>1. Membership'
    BY <1>0, <1>3 DEF TypeOK, Membership, Live, Absent, Where, poolVars,
                      WokenForNothing, GoOn, Renew, DecideToLeave, WakeUp
  <2> QED
    BY <1>1, <2>0, <2>1 DEF Consistent
<1>4. CASE FinishTask(t) \/ Expire(t)
  <2>0. TypeOK'
    <3>1. CASE FinishTask(t)
      <4>1. task[t] \in Task
        BY <1>0, <3>1 DEF TypeOK, Membership, FinishTask
      <4> QED
        BY <1>0, <3>1, <4>1 DEF TypeOK, Where, poolVars, FinishTask
    <3>2. CASE Expire(t)
      BY <1>0, <3>2 DEF TypeOK, poolVars, Expire
    <3> QED
      BY <1>4, <3>1, <3>2
  <2>1. Membership'
    BY <1>0, <1>4 DEF TypeOK, Membership, Live, Absent, Where, poolVars, FinishTask, Expire
  <2> QED
    BY <1>1, <2>0, <2>1 DEF Consistent
<1>5. CASE Left(t)
  <2>0. TypeOK'
    BY <1>0, <1>5 DEF TypeOK, Membership, Where, poolVars, Left
  <2>1. Membership'
    BY <1>0, <1>5 DEF TypeOK, Membership, Live, Absent, Where, poolVars, Left
  <2> QED
    BY <1>1, <2>0, <2>1 DEF Consistent
<1> QED
  BY <1>3, <1>4, <1>5

LEMMA NextConsistent == Consistent /\ [Next]_vars => Consistent'
<1> SUFFICES ASSUME Consistent, [Next]_vars PROVE Consistent'
  OBVIOUS
<1>1. CASE \E k \in Task : AddTask(k)
  BY <1>1, AddTaskConsistent
<1>2. CASE \E k \in Task : AddTaskRefused(k)
  BY <1>2 DEF Consistent, TypeOK, Membership, Accounting, AddTaskRefused, Live, Absent, Fresh,
              poolVars, threadVars
<1>3. CASE \E t \in Thread : Wait(t) \/ Take(t) \/ Leave(t)
  BY <1>3, MoveConsistent
<1>4. CASE \E t \in Thread : \/ WokenForNothing(t) \/ GoOn(t) \/ Renew(t) \/ DecideToLeave(t)
                             \/ WakeUp(t) \/ FinishTask(t) \/ Expire(t) \/ Left(t)
  BY <1>4, StayConsistent
<1>5. CASE UNCHANGED vars
  BY <1>5 DEF Consistent, TypeOK, Membership, Accounting, Live, Absent, vars, poolVars, threadVars
<1> QED
  BY <1>1, <1>2, <1>3, <1>4, <1>5 DEF Next, Loop

\* The inductive invariant of the pool's bookkeeping.
THEOREM AlwaysConsistent == Spec => []Consistent
<1>1. Init => Consistent
  BY InitConsistent
<1>2. Consistent /\ [Next]_vars => Consistent'
  BY NextConsistent
<1> QED
  BY <1>1, <1>2, PTL DEF Spec

\* The type invariant holds for every configuration.
THEOREM PoolTypeOK == Spec => []TypeOK
BY AlwaysConsistent, PTL DEF Consistent

\* The searches in MoveToIdle, MoveToBusy and MoveOutIdleThread always find
\* their thread: none of them ever erases end().
THEOREM PoolMembership == Spec => []Membership
BY AlwaysConsistent, PTL DEF Consistent

\* m_thread_num is exact and never beyond the larger of m_min and m_max.
THEOREM PoolAccounting == Spec => []Accounting
BY AlwaysConsistent, PTL DEF Consistent

-------------------------------------------------------------------------------
(* The task list: no wakeup is lost, no task is lost, run twice or out of  *)
(* order, and the pool implements TaskQueue.                               *)

-------------------------------------------------------------------------------
(* No lost wakeup *)

\* A step that adds no task, puts no thread to sleep and takes no awake thread
\* away keeps the list covered.
LEMMA CoverKept ==
  ASSUME TypeOK, WakeupsCoverQueue, UNCHANGED taskList,
         Waiting' \subseteq Waiting, Awake \subseteq Awake', Awake' \subseteq Thread
  PROVE  WakeupsCoverQueue'
<1>1. Cardinality(Awake) <= Cardinality(Awake')
  BY FiniteThreads, FS_Subset
<1>2. Cardinality(Awake) \in Nat /\ Cardinality(Awake') \in Nat /\ Len(taskList) \in Nat
  BY FiniteThreads DEF TypeOK, Awake
<1> QED
  BY <1>1, <1>2 DEF WakeupsCoverQueue

\* An empty list is covered by any number of threads.
LEMMA CoverEmpty ==
  ASSUME taskList' = <<>>
  PROVE  WakeupsCoverQueue'
<1>1. Awake' \subseteq Thread
  BY DEF Awake
<1>2. Cardinality(Awake') \in Nat
  BY <1>1, FiniteThreads
<1> QED
  BY <1>2 DEF WakeupsCoverQueue

LEMMA AddTaskCovers ==
  ASSUME Consistent, WakeupsCoverQueue, NEW k \in Task, AddTask(k)
  PROVE  WakeupsCoverQueue'
<1>0. TypeOK
  BY DEF Consistent
<1>1. PICK c \in Created(NeedThreadNum(Len(taskList) + 1)), woken \in Signalled :
        pc' = [t \in Thread |-> IF t \in c.new THEN "top"
                                ELSE IF t \in woken THEN "woken" ELSE pc[t]]
  BY DEF AddTask
<1>2. c.new \subseteq Thread /\ \A t \in c.new : pc[t] = "none"
  BY DEF Created, Absent
<1>3. taskList' = Append(taskList, k) /\ Len(taskList') = Len(taskList) + 1 /\ Len(taskList) \in Nat
  BY <1>0 DEF AddTask, TypeOK
<1>4. SUFFICES ASSUME Waiting' # {} PROVE Len(taskList') <= Cardinality(Awake')
  BY DEF WakeupsCoverQueue
<1>5. Waiting # {}
  BY <1>0, <1>1, <1>4 DEF Waiting, TypeOK
<1>6. PICK w \in Waiting : woken = {w}
  BY <1>5 DEF Signalled
<1>7. w \in Thread /\ w \notin Awake /\ w \notin c.new /\ Awake \in SUBSET Thread
  BY <1>2 DEF Waiting, Awake
<1>8. Awake \cup {w} \subseteq Awake' /\ Awake' \in SUBSET Thread
  BY <1>0, <1>1, <1>2, <1>6, <1>7 DEF Awake, TypeOK
<1>9. Cardinality(Awake \cup {w}) = Cardinality(Awake) + 1
  BY <1>7, OneMore
<1>10. Cardinality(Awake \cup {w}) <= Cardinality(Awake')
  BY <1>8, FiniteThreads, FS_Subset
<1>11. Cardinality(Awake) \in Nat /\ Cardinality(Awake') \in Nat
  BY <1>7, <1>8, FiniteThreads
<1>12. Len(taskList) <= Cardinality(Awake)
  BY <1>5 DEF WakeupsCoverQueue
<1> QED
  BY <1>3, <1>9, <1>10, <1>11, <1>12

LEMMA TakeCovers ==
  ASSUME Consistent, WakeupsCoverQueue, NEW t \in Thread, Take(t)
  PROVE  WakeupsCoverQueue'
<1>0. TypeOK
  BY DEF Consistent
<1>1. taskList \in Seq(Task) /\ taskList # <<>> /\ taskList' = Tail(taskList)
  BY <1>0 DEF TypeOK, Take
<1>2. Len(taskList') = Len(taskList) - 1 /\ Len(taskList) \in Nat
  BY <1>1, HeadTailProperties
<1>3. Waiting' = Waiting /\ Awake' = Awake \ {t} /\ t \in Awake /\ Awake \in SUBSET Thread
  BY <1>0 DEF Waiting, Awake, Take, TypeOK
<1>4. Cardinality(Awake \ {t}) = Cardinality(Awake) - 1 /\ Cardinality(Awake) \in Nat
  BY <1>3, OneLess, FiniteThreads
<1> QED
  BY <1>2, <1>3, <1>4 DEF WakeupsCoverQueue

LEMMA NextCovers == Consistent /\ WakeupsCoverQueue /\ [Next]_vars => WakeupsCoverQueue'
<1> SUFFICES ASSUME Consistent, WakeupsCoverQueue, [Next]_vars PROVE WakeupsCoverQueue'
  OBVIOUS
<1>0. TypeOK
  BY DEF Consistent
<1>1. CASE \E k \in Task : AddTask(k)
  BY <1>1, AddTaskCovers
<1>2. CASE (\E k \in Task : AddTaskRefused(k)) \/ UNCHANGED vars
  BY <1>2 DEF AddTaskRefused, WakeupsCoverQueue, Waiting, Awake, vars, poolVars, threadVars
<1>3. CASE \E t \in Thread : Wait(t) \/ WokenForNothing(t)
  BY <1>3, CoverEmpty DEF Wait, WokenForNothing, poolVars
<1>4. CASE \E t \in Thread : Take(t)
  BY <1>4, TakeCovers
<1>5. ASSUME NEW t \in Thread,
             \/ GoOn(t) \/ Renew(t) \/ DecideToLeave(t) \/ Leave(t) \/ Left(t)
             \/ WakeUp(t) \/ FinishTask(t) \/ Expire(t)
      PROVE  WakeupsCoverQueue'
  <2>1. UNCHANGED taskList
    BY <1>5 DEF GoOn, Renew, DecideToLeave, Leave, Left, WakeUp, FinishTask, Expire, poolVars
  <2>2. Waiting' \subseteq Waiting
    BY <1>0, <1>5 DEF GoOn, Renew, DecideToLeave, Leave, Left, WakeUp, FinishTask, Expire,
                      Waiting, TypeOK
  <2>3. Awake \subseteq Awake' /\ Awake' \subseteq Thread
    BY <1>0, <1>5 DEF GoOn, Renew, DecideToLeave, Leave, Left, WakeUp, FinishTask, Expire,
                      Awake, TypeOK
  <2> QED
    BY <1>0, <2>1, <2>2, <2>3, CoverKept
<1> QED
  BY <1>1, <1>2, <1>3, <1>4, <1>5 DEF Next, Loop

\* No thread of the pool sleeps while the list holds more tasks than there are
\* threads on their way to it.
THEOREM PoolCoversQueue == Spec => []WakeupsCoverQueue
<1>1. Init => WakeupsCoverQueue
  <2> SUFFICES ASSUME Init PROVE WakeupsCoverQueue
    OBVIOUS
  <2>1. Waiting = {}
    BY DEF Init, Waiting
  <2> QED
    BY <2>1 DEF WakeupsCoverQueue
<1>2. Consistent /\ WakeupsCoverQueue /\ [Next]_vars => WakeupsCoverQueue'
  BY NextCovers
<1> QED
  BY <1>1, <1>2, AlwaysConsistent, PTL DEF Spec

-------------------------------------------------------------------------------
(* No task is lost or run twice *)

\* What Append and Tail do to the set of queued tasks and to its order.
LEMMA AppendQueued ==
  ASSUME taskList \in Seq(Task), NEW k, taskList' = Append(taskList, k), k \in Task
  PROVE  /\ Queued' = Queued \cup {k}
         /\ \A i \in 1..Len(taskList) : taskList'[i] = taskList[i]
         /\ taskList'[Len(taskList) + 1] = k
         /\ Len(taskList') = Len(taskList) + 1
         /\ Len(taskList) \in Nat
<1>1. /\ \A i \in 1..Len(taskList) : taskList'[i] = taskList[i]
      /\ taskList'[Len(taskList) + 1] = k
      /\ Len(taskList') = Len(taskList) + 1
      /\ Len(taskList) \in Nat
  BY AppendProperties
<1>2. Queued' = {taskList'[i] : i \in 1..Len(taskList')}
  BY DEF Queued
<1>3. 1..Len(taskList') = 1..Len(taskList) \cup {Len(taskList) + 1}
  BY <1>1
<1>4. Queued' = Queued \cup {k}
  BY <1>1, <1>2, <1>3 DEF Queued
<1> QED
  BY <1>1, <1>4

LEMMA TailQueued ==
  ASSUME taskList \in Seq(Task), taskList # <<>>, taskList' = Tail(taskList),
         \A i, j \in 1..Len(taskList) : taskList[i] = taskList[j] => i = j
  PROVE  /\ Head(taskList) \in Queued
         /\ Queued' = Queued \ {Head(taskList)}
         /\ \A i, j \in 1..Len(taskList') : taskList'[i] = taskList'[j] => i = j
<1>1. /\ Len(taskList') = Len(taskList) - 1
      /\ \A i \in 1..Len(taskList') : taskList'[i] = taskList[i + 1]
      /\ Len(taskList) \in Nat \ {0}
      /\ Head(taskList) = taskList[1]
  BY HeadTailProperties, EmptySeq
<1>2. \A i, j \in 1..Len(taskList') : taskList'[i] = taskList'[j] => i = j
  BY <1>1
<1>3. Queued' = {taskList'[i] : i \in 1..Len(taskList')}
  BY DEF Queued
<1>4. ASSUME NEW x \in Queued' PROVE x \in Queued \ {Head(taskList)}
  <2>1. PICK i \in 1..Len(taskList') : x = taskList'[i]
    BY <1>3
  <2>2. x = taskList[i + 1] /\ i + 1 \in 1..Len(taskList) /\ i + 1 # 1 /\ 1 \in 1..Len(taskList)
    BY <1>1, <2>1
  <2> QED
    BY <1>1, <2>2 DEF Queued
<1>5. ASSUME NEW x \in Queued \ {Head(taskList)} PROVE x \in Queued'
  <2>1. PICK i \in 1..Len(taskList) : x = taskList[i]
    BY DEF Queued
  <2>2. i # 1
    BY <1>1, <2>1
  <2>3. i - 1 \in 1..Len(taskList') /\ taskList'[i - 1] = x
    BY <1>1, <2>1, <2>2
  <2> QED
    BY <1>3, <2>3
<1>6. Head(taskList) \in Queued
  BY <1>1 DEF Queued
<1> QED
  BY <1>2, <1>4, <1>5, <1>6

\* What starting and finishing a task does to the set of running tasks.
LEMMA TakeRunning ==
  ASSUME Consistent, NEW t \in Thread, Take(t)
  PROVE  /\ Running' = Running \cup {Head(taskList)}
         /\ Head(taskList) \in Task
         /\ task[t] = NoTask
         /\ task' = [task EXCEPT ![t] = Head(taskList)]
<1>1. TypeOK /\ Membership
  BY DEF Consistent
<1>2. task[t] = NoTask
  BY <1>1 DEF Membership, Take
<1>3. Head(taskList) \in Task
  BY <1>1, HeadTailProperties DEF TypeOK, Take
<1>4. task' = [task EXCEPT ![t] = Head(taskList)] /\ task \in [Thread -> Task \cup {NoTask}]
  BY <1>1 DEF Take, TypeOK
<1>5. Head(taskList) # NoTask
  BY <1>3, ThreadPoolAssumption
<1>6. Running' = Running \cup {Head(taskList)}
  BY <1>2, <1>4, <1>5 DEF Running
<1> QED
  BY <1>2, <1>3, <1>4, <1>6

LEMMA FinishRunning ==
  ASSUME Consistent, TasksInOnePlace, NEW t \in Thread, FinishTask(t)
  PROVE  /\ task[t] \in Running
         /\ task[t] \in Task
         /\ Running' = Running \ {task[t]}
         /\ task' = [task EXCEPT ![t] = NoTask]
<1>1. TypeOK /\ Membership
  BY DEF Consistent
<1>2. task[t] # NoTask
  BY <1>1 DEF Membership, FinishTask
<1>3. task' = [task EXCEPT ![t] = NoTask] /\ task \in [Thread -> Task \cup {NoTask}]
  BY <1>1 DEF FinishTask, TypeOK
<1>4. \A u \in Thread : task[u] = task[t] => u = t
  BY <1>2 DEF TasksInOnePlace
<1>5. Running' = Running \ {task[t]}
  BY <1>2, <1>3, <1>4 DEF Running
<1> QED
  BY <1>2, <1>3, <1>5 DEF Running

LEMMA NextInOnePlace == Consistent /\ TasksInOnePlace /\ [Next]_vars => TasksInOnePlace'
<1> SUFFICES ASSUME Consistent, TasksInOnePlace, [Next]_vars PROVE TasksInOnePlace'
  OBVIOUS
<1>0. TypeOK
  BY DEF Consistent
<1>1. ASSUME NEW k \in Task, AddTask(k) PROVE TasksInOnePlace'
  <2>1. /\ taskList' = Append(taskList, k) /\ taskList \in Seq(Task)
        /\ UNCHANGED <<task, finished, refused>>
        /\ k \notin Queued /\ k \notin Running /\ k \notin finished /\ k \notin refused
    BY <1>0, <1>1 DEF AddTask, TypeOK, Fresh
  <2>2. /\ Queued' = Queued \cup {k}
        /\ \A i \in 1..Len(taskList) : taskList'[i] = taskList[i]
        /\ taskList'[Len(taskList) + 1] = k
        /\ Len(taskList') = Len(taskList) + 1
        /\ Len(taskList) \in Nat
    BY <2>1, AppendQueued
  <2>3. Running' = Running
    BY <2>1 DEF Running
  <2>4. \A i, j \in 1..Len(taskList') : taskList'[i] = taskList'[j] => i = j
    <3>1. \A i \in 1..Len(taskList) : taskList[i] # k
      BY <2>1 DEF Queued
    <3>2. \A i, j \in 1..Len(taskList) : taskList[i] = taskList[j] => i = j
      BY DEF TasksInOnePlace
    <3>3. \A i \in 1..Len(taskList') : i \in 1..Len(taskList) \/ i = Len(taskList) + 1
      BY <2>2
    <3> QED
      BY <2>2, <3>1, <3>2, <3>3
  <2> QED
    BY <2>1, <2>2, <2>3, <2>4 DEF TasksInOnePlace
<1>2. ASSUME NEW k \in Task, AddTaskRefused(k) PROVE TasksInOnePlace'
  BY <1>2 DEF AddTaskRefused, TasksInOnePlace, Queued, Running, Fresh, poolVars, threadVars
<1>3. ASSUME NEW t \in Thread, Take(t) PROVE TasksInOnePlace'
  <2>1. /\ taskList \in Seq(Task) /\ taskList # <<>> /\ taskList' = Tail(taskList)
        /\ UNCHANGED <<finished, refused>>
        /\ \A i, j \in 1..Len(taskList) : taskList[i] = taskList[j] => i = j
    BY <1>0, <1>3 DEF Take, TypeOK, TasksInOnePlace
  <2>2. /\ Head(taskList) \in Queued
        /\ Queued' = Queued \ {Head(taskList)}
        /\ \A i, j \in 1..Len(taskList') : taskList'[i] = taskList'[j] => i = j
    BY <2>1, TailQueued
  <2>3. /\ Running' = Running \cup {Head(taskList)}
        /\ task' = [task EXCEPT ![t] = Head(taskList)]
    BY <1>3, TakeRunning
  <2>4. Head(taskList) \notin Running
    BY <2>2 DEF TasksInOnePlace
  <2>5. \A u, v \in Thread : task'[u] # NoTask /\ task'[u] = task'[v] => u = v
    BY <1>0, <2>3, <2>4 DEF TypeOK, TasksInOnePlace, Running
  <2> QED
    BY <2>1, <2>2, <2>3, <2>5 DEF TasksInOnePlace
<1>4. ASSUME NEW t \in Thread, FinishTask(t) PROVE TasksInOnePlace'
  <2>1. /\ task[t] \in Running
        /\ Running' = Running \ {task[t]}
        /\ task' = [task EXCEPT ![t] = NoTask]
    BY <1>4, FinishRunning
  <2>2. UNCHANGED <<taskList, refused>> /\ finished' = finished \cup {task[t]} /\ Queued' = Queued
    BY <1>4 DEF FinishTask, poolVars, Queued
  <2>3. \A u, v \in Thread : task'[u] # NoTask /\ task'[u] = task'[v] => u = v
    BY <1>0, <2>1 DEF TypeOK, TasksInOnePlace
  <2> QED
    BY <2>1, <2>2, <2>3 DEF TasksInOnePlace
<1>5. ASSUME UNCHANGED <<taskList, task, finished, refused>> PROVE TasksInOnePlace'
  BY <1>5 DEF TasksInOnePlace, Queued, Running
<1>6. ASSUME NEW t \in Thread,
             \/ Wait(t) \/ WokenForNothing(t) \/ GoOn(t) \/ Renew(t) \/ DecideToLeave(t)
             \/ Leave(t) \/ Left(t) \/ WakeUp(t) \/ Expire(t)
      PROVE  UNCHANGED <<taskList, task, finished, refused>>
  BY <1>6 DEF Wait, WokenForNothing, GoOn, Renew, DecideToLeave, Leave, Left, WakeUp, Expire,
              poolVars
<1>7. CASE UNCHANGED vars
  BY <1>5, <1>7 DEF vars, poolVars, threadVars
<1> QED
  BY <1>1, <1>2, <1>3, <1>4, <1>5, <1>6, <1>7 DEF Next, Loop

LEMMA InitInOnePlace == Init => TasksInOnePlace
BY DEF Init, TasksInOnePlace, Queued, Running

\* Every task handed to AddTask is in one place only, whatever the threads do.
THEOREM PoolTasksInOnePlace == Spec => []TasksInOnePlace
<1>1. Init => TasksInOnePlace
  BY InitInOnePlace
<1>2. Consistent /\ TasksInOnePlace /\ [Next]_vars => TasksInOnePlace'
  BY NextInOnePlace
<1> QED
  BY <1>1, <1>2, AlwaysConsistent, PTL DEF Spec

-------------------------------------------------------------------------------
(* The pool implements the abstract task queue *)

LEMMA InitRefines == Init => Promise!Init
BY DEF Init, Promise!Init, Running

LEMMA NextRefines ==
  Consistent /\ TasksInOnePlace /\ [Next]_vars => [Promise!Next]_(Promise!vars)
<1> SUFFICES ASSUME Consistent, TasksInOnePlace, [Next]_vars
             PROVE  [Promise!Next]_(Promise!vars)
  OBVIOUS
<1>0. TypeOK
  BY DEF Consistent
<1>f. Promise!Fresh = Fresh
  BY DEF Promise!Fresh, Promise!Queued, Fresh, Queued
<1>1. ASSUME NEW k \in Task, AddTask(k) PROVE Promise!Next
  <2>1. Running' = Running
    BY <1>1 DEF AddTask, Running
  <2>2. Promise!Accept(k)
    BY <1>1, <1>f, <2>1 DEF AddTask, Promise!Accept
  <2> QED
    BY <2>2 DEF Promise!Next
<1>2. ASSUME NEW k \in Task, AddTaskRefused(k) PROVE Promise!Next
  <2>1. Running' = Running
    BY <1>2 DEF AddTaskRefused, Running, threadVars
  <2>2. Promise!Refuse(k)
    BY <1>2, <1>f, <2>1 DEF AddTaskRefused, Promise!Refuse, poolVars
  <2> QED
    BY <2>2 DEF Promise!Next
<1>3. ASSUME NEW t \in Thread, Take(t) PROVE Promise!Next
  <2>1. Running' = Running \cup {Head(taskList)}
    BY <1>3, TakeRunning
  <2>2. Promise!Start
    BY <1>3, <2>1 DEF Take, Promise!Start
  <2> QED
    BY <2>2 DEF Promise!Next
<1>4. ASSUME NEW t \in Thread, FinishTask(t) PROVE Promise!Next
  <2>1. /\ task[t] \in Running /\ task[t] \in Task
        /\ Running' = Running \ {task[t]}
    BY <1>4, FinishRunning
  <2>2. Promise!Finish(task[t])
    BY <1>4, <2>1 DEF FinishTask, Promise!Finish, poolVars
  <2> QED
    BY <2>1, <2>2 DEF Promise!Next
<1>5. ASSUME UNCHANGED <<taskList, task, finished, refused>> PROVE UNCHANGED Promise!vars
  BY <1>5 DEF Promise!vars, Running
<1>6. ASSUME NEW t \in Thread,
             \/ Wait(t) \/ WokenForNothing(t) \/ GoOn(t) \/ Renew(t) \/ DecideToLeave(t)
             \/ Leave(t) \/ Left(t) \/ WakeUp(t) \/ Expire(t)
      PROVE  UNCHANGED <<taskList, task, finished, refused>>
  BY <1>6 DEF Wait, WokenForNothing, GoOn, Renew, DecideToLeave, Leave, Left, WakeUp, Expire,
              poolVars
<1>7. CASE UNCHANGED vars
  BY <1>5, <1>7 DEF vars, poolVars, threadVars
<1> QED
  BY <1>1, <1>2, <1>3, <1>4, <1>5, <1>6, <1>7 DEF Next, Loop

\* The thread pool implements TaskQueue: accepted tasks start once, in the order
\* of their acceptance, for every m_min, m_max and m_max_task.
THEOREM PoolKeepsPromise == Spec => KeepsPromise
<1>1. Init => Promise!Init
  BY InitRefines
<1>2. Consistent /\ TasksInOnePlace /\ [Next]_vars => [Promise!Next]_(Promise!vars)
  BY NextRefines
<1> QED
  BY <1>1, <1>2, AlwaysConsistent, PoolTasksInOnePlace, PTL DEF Spec, KeepsPromise, Promise!Spec

-------------------------------------------------------------------------------

\* A thread that decided to leave still has its deadline behind it: nothing
\* between line 186 and line 188 renews it.
Overdue == \A t \in Thread : pc[t] \in {"exit", "exitcb"} => expired[t]

LEMMA NextOverdue == TypeOK /\ Overdue /\ [Next]_vars => Overdue'
<1> SUFFICES ASSUME TypeOK, Overdue, [Next]_vars PROVE Overdue'
  OBVIOUS
<1>1. CASE \E k \in Task : AddTask(k)
  <2>1. PICK k \in Task : AddTask(k)
    BY <1>1
  <2>2. PICK c \in Created(NeedThreadNum(Len(taskList) + 1)), woken \in Signalled :
          pc' = [t \in Thread |-> IF t \in c.new THEN "top"
                                  ELSE IF t \in woken THEN "woken" ELSE pc[t]]
    BY <2>1 DEF AddTask
  <2> QED
    BY <2>1, <2>2 DEF AddTask, Overdue
<1>2. CASE (\E k \in Task : AddTaskRefused(k)) \/ UNCHANGED vars
  BY <1>2 DEF AddTaskRefused, Overdue, vars, threadVars
<1>3. CASE \E t \in Thread : Loop(t) \/ WakeUp(t)
  BY <1>3 DEF TypeOK, Overdue, Loop, WakeUp, Wait, Take, WokenForNothing, GoOn, Renew,
              DecideToLeave, Leave, Left
<1>4. CASE \E t \in Thread : FinishTask(t) \/ Expire(t)
  BY <1>4 DEF TypeOK, Overdue, FinishTask, Expire
<1> QED
  BY <1>1, <1>2, <1>3, <1>4 DEF Next

LEMMA NextLeaves ==
  Consistent /\ Overdue /\ [Next]_vars =>
    \A t \in idle \cup busy :
       t \notin idle' \cup busy' => t \in idle /\ task[t] = NoTask /\ expired[t]
<1> SUFFICES ASSUME Consistent, Overdue, [Next]_vars,
                    NEW t \in idle \cup busy, t \notin idle' \cup busy'
             PROVE  t \in idle /\ task[t] = NoTask /\ expired[t]
  OBVIOUS
<1>0. TypeOK /\ Membership
  BY DEF Consistent
<1>1. CASE \E k \in Task : AddTask(k) \/ AddTaskRefused(k)
  BY <1>1 DEF AddTask, AddTaskRefused, poolVars
<1>2. CASE \E u \in Thread : Wait(u) \/ Take(u)
  BY <1>2 DEF Wait, Take, MoveToIdle, MoveToBusy
<1>3. CASE \E u \in Thread : Leave(u)
  <2>1. PICK u \in Thread : Leave(u)
    BY <1>3
  <2>2. t = u /\ t \in idle
    BY <2>1 DEF Leave
  <2> QED
    BY <1>0, <2>1, <2>2 DEF Leave, Membership, Overdue
<1>4. CASE \E u \in Thread : \/ WokenForNothing(u) \/ GoOn(u) \/ Renew(u) \/ DecideToLeave(u)
                             \/ Left(u) \/ WakeUp(u) \/ FinishTask(u) \/ Expire(u)
  BY <1>4 DEF WokenForNothing, GoOn, Renew, DecideToLeave, Left, WakeUp, FinishTask, Expire, poolVars
<1>5. CASE UNCHANGED vars
  BY <1>5 DEF vars, poolVars
<1> QED
  BY <1>1, <1>2, <1>3, <1>4, <1>5 DEF Next, Loop

\* A thread leaves the pool only out of the idle vector, without a task and
\* after its time expired: a task is never abandoned by the thread that took it.
THEOREM PoolLeavesWhenIdle == Spec => LeavesWhenIdle
<1>1. Init => Overdue
  BY DEF Init, Overdue
<1>2. TypeOK /\ Overdue /\ [Next]_vars => Overdue'
  BY NextOverdue
<1>3. Spec => []Overdue
  BY <1>1, <1>2, PoolTypeOK, PTL DEF Spec
<1>4. Consistent /\ Overdue /\ [Next]_vars =>
        [\A t \in idle \cup busy :
           t \notin idle' \cup busy' => t \in idle /\ task[t] = NoTask /\ expired[t]]_vars
  BY NextLeaves
<1> QED
  BY <1>3, <1>4, AlwaysConsistent, PTL DEF Spec, LeavesWhenIdle
================================================================================
