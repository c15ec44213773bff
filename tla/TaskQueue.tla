------------------------------ MODULE TaskQueue ------------------------------
(***************************************************************************)
(* What the thread pool promises to its caller (libthreadpool): a task     *)
(* handed to AddTask is either refused, because the list is full, or       *)
(* accepted; accepted tasks start in the order in which they were          *)
(* accepted, each of them once, and a started task finishes at most once.  *)
(* Which thread runs what, and when, is left open.                         *)
(***************************************************************************)
EXTENDS Naturals, Sequences

CONSTANTS Task,      \* the tasks a caller may hand over, each of them once
          Capacity   \* the length at which the list is full

VARIABLES queue,     \* accepted and not started, oldest first
          running,   \* started and not finished
          finished,  \* run to the end and deleted
          refused    \* handed back with -1

vars == <<queue, running, finished, refused>>

Queued == {queue[i] : i \in 1..Len(queue)}
Fresh  == Task \ (Queued \cup running \cup finished \cup refused)

Init == /\ queue = <<>>
        /\ running = {}
        /\ finished = {}
        /\ refused = {}

Accept(k) == /\ k \in Fresh
             /\ Len(queue) < Capacity
             /\ queue' = Append(queue, k)
             /\ UNCHANGED <<running, finished, refused>>

Refuse(k) == /\ k \in Fresh
             /\ Len(queue) >= Capacity
             /\ refused' = refused \cup {k}
             /\ UNCHANGED <<queue, running, finished>>

Start == /\ queue # <<>>
         /\ queue' = Tail(queue)
         /\ running' = running \cup {Head(queue)}
         /\ UNCHANGED <<finished, refused>>

Finish(k) == /\ k \in running
             /\ running' = running \ {k}
             /\ finished' = finished \cup {k}
             /\ UNCHANGED <<queue, refused>>

Next == \/ \E k \in Task : Accept(k) \/ Refuse(k)
        \/ Start
        \/ \E k \in Task : Finish(k)

Spec == Init /\ [][Next]_vars
==============================================================================
