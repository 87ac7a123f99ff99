---------------------------- MODULE RetryBudget ----------------------------
(***************************************************************************)
(* The retry budget of retry_budget.py: a run-wide count of retries and    *)
(* one per task, each under its cap.  A retry is charged through one of    *)
(* two doors, try_spend and spend, which look at the caps separately.      *)
(***************************************************************************)
EXTENDS Lists

CONSTANTS
    BudgetTasks,   \* task ids, integers in the order of their names
    RunTotals,     \* the values of `total` a budget may be made with
    TaskCaps       \* the values of `per_task`; Uncapped is None

Uncapped == -1

ASSUME RunTotalsAssumption == RunTotals \subseteq Nat
ASSUME TaskCapsAssumption == TaskCaps \subseteq Nat \cup {Uncapped}
ASSUME BudgetTasksAssumption == BudgetTasks \subseteq Int

VARIABLES
    total,     \* self.total
    perTask,   \* self.per_task
    spent,     \* self._spent
    spentBy    \* self._per_task_spent; a task without an entry has 0

budgetVars == <<total, perTask, spent, spentBy>>

BudgetInit ==
    /\ total \in RunTotals
    /\ perTask \in TaskCaps
    /\ spent = 0
    /\ spentBy = [t \in BudgetTasks |-> 0]

-----------------------------------------------------------------------------
(* A faulty variant of RemainingFor: the room of the task alone.           *)
RemainingForTask(t) ==
    IF perTask = Uncapped THEN total - spent ELSE perTask - spentBy[t]

(* remaining_for: the smaller of the room of the run and of the task. *)
RemainingFor(t) ==
    LET runRoom == total - spent
        taskRoom == perTask - spentBy[t]
    IN  IF perTask = Uncapped \/ runRoom <= taskRoom THEN runRoom ELSE taskRoom

(* can_spend *)
CanSpend(t) == RemainingFor(t) > 0

(* What spend finds: a reason to refuse, the task's own cap first. *)
SpendVerdict(t) ==
    IF perTask # Uncapped /\ spentBy[t] >= perTask THEN "task cap"
    ELSE IF spent >= total THEN "run budget"
    ELSE "charged"

(* _charge *)
Charge(t) ==
    /\ spentBy' = [spentBy EXCEPT ![t] = @ + 1]
    /\ spent' = spent + 1
    /\ UNCHANGED <<total, perTask>>

TrySpend(t) == IF CanSpend(t) THEN Charge(t) ELSE UNCHANGED budgetVars

Spend(t) == IF SpendVerdict(t) = "charged" THEN Charge(t) ELSE UNCHANGED budgetVars

BudgetNext == \E t \in BudgetTasks : TrySpend(t) \/ Spend(t)

(* ledger: who has spent, the largest spenders first, then by name. *)
Ledger ==
    LET entries == {[task |-> t, spent |-> spentBy[t],
                     remaining |-> IF perTask = Uncapped THEN Uncapped
                                   ELSE perTask - spentBy[t]] :
                        t \in {u \in BudgetTasks : spentBy[u] > 0}}
    IN  Sorted(entries, {p \in entries \X entries :
                            \/ p[1].spent > p[2].spent
                            \/ p[1].spent = p[2].spent /\ p[1].task < p[2].task})

-----------------------------------------------------------------------------
(* Neither cap is ever passed, through whichever doors the retries went. *)
CapsKept ==
    /\ spent \in 0 .. total
    /\ perTask # Uncapped => \A t \in BudgetTasks : spentBy[t] \in 0 .. perTask

(* The two doors agree at every moment: try_spend charges exactly when     *)
(* spend does, and a task with room left is one both let through.          *)
DoorsAgree ==
    \A t \in BudgetTasks :
        /\ CanSpend(t) <=> SpendVerdict(t) = "charged"
        /\ RemainingFor(t) >= 0

(* "The budget can never be driven negative": both caps hold, the doors    *)
(* agree, and the two counts tell the same: the ledger's entries add up to *)
(* what the run has spent, with the room that is left of each cap.         *)
BudgetKept ==
    /\ CapsKept
    /\ DoorsAgree
    /\ Sum([i \in DOMAIN Ledger |-> Ledger[i].spent]) = spent
    /\ \A i \in DOMAIN Ledger :
          perTask # Uncapped => Ledger[i].spent + Ledger[i].remaining = perTask
=============================================================================
