----------------------------- MODULE WorkQueues -----------------------------
(***************************************************************************)
(* The three queues of digital_fte side by side.  The task queue and the   *)
(* priority queue get the same pushes and are popped together.  The        *)
(* dead-letter queue shares no state with them, so that interleaving it    *)
(* with them shows nothing: either they are used or it is.                 *)
(***************************************************************************)
EXTENDS TaskQueue, PriorityQueue, DeadLetterQueue

(* What the task queue is given the priority queue is given. *)
ASSUME SamePushesAssumption == Tasks \subseteq Items /\ Priorities \subseteq Ranks

queuesVars == <<queueVars, heapVars, deadVars>>

QueuesInit == QueueInit /\ HeapInit /\ DeadInit

Ordered ==
    \/ \E t \in Tasks, p \in Priorities : PushAccepted(t, p) /\ HeapPush(t, p)
    \/ \E t \in Tasks : PushRefused(t) /\ UNCHANGED heapVars
    \/ Pop /\ HeapPop
    \/ Drain /\ HeapDrain

Dead ==
    \/ \E id \in DeadIds, r \in Reasons : Record(id, r)
    \/ \E id \in DeadIds : RecordRefused(id) \/ RemoveLetter(id)
    \/ DrainLetters

QueuesNext ==
    \/ filed = 0 /\ Ordered /\ UNCHANGED deadVars
    \/ sequence = 0 /\ Dead /\ UNCHANGED <<queueVars, heapVars>>

QueuesSpec == QueuesInit /\ [][QueuesNext]_queuesVars
=============================================================================
