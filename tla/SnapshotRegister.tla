-------------------------- MODULE SnapshotRegister --------------------------
(***************************************************************************)
(* What the store and the commands promise a user who runs one command per *)
(* task at a time: "persist and restore the latest loop result for a task" *)
(* (state_store.py) and "continue an incomplete result" (loop.py).  Per    *)
(* task there is at most one result; it is replaced at once, by the result *)
(* of a loop started later or by a resume of the same loop that got        *)
(* further; a completed result is final within its loop; and nothing else  *)
(* ever happens to it, whatever crashes.                                   *)
(***************************************************************************)
EXTENDS Integers

CONSTANTS
    Tasks,     \* the tasks of the register
    Results,   \* what may be stored: task, loop, status, iterations
    Missing    \* no result yet

VARIABLE latest   \* latest[t]: the document restored for task t, or Missing

(* s may take the place of old. *)
Supersedes(s, old) ==
    \/ s.loop > old.loop
    \/ s.loop = old.loop /\ old.status = "failed" /\ s.iterations > old.iterations

Document(r) == [kind |-> "document", result |-> r]

Init == latest = [t \in Tasks |-> Missing]

Publish(t, r) ==
    /\ r.task = t
    /\ latest[t] # Missing => Supersedes(r, latest[t].result)
    /\ latest' = [latest EXCEPT ![t] = Document(r)]

Next == \E t \in Tasks, r \in Results : Publish(t, r)

Spec == Init /\ [][Next]_latest
=============================================================================
