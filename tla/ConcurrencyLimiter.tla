------------------------- MODULE ConcurrencyLimiter -------------------------
(***************************************************************************)
(* The slots of concurrency_limiter.py, claimed and returned in groups.    *)
(* As in TokenBudget, the limiter knows the sum, and its callers are me    *)
(* and the others, each returning only slots of its own.                   *)
(***************************************************************************)
EXTENDS Integers

CONSTANT MaxSlots   \* self.max_slots

ASSUME MaxSlotsAssumption == MaxSlots \in Nat \ {0}

VARIABLES
    inUse,      \* self._in_use
    mySlots,    \* history: the slots I hold
    otherSlots  \* history: those the others hold

slotVars == <<inUse, mySlots, otherSlots>>

Available == MaxSlots - inUse

SlotInit == inUse = 0 /\ mySlots = 0 /\ otherSlots = 0

-----------------------------------------------------------------------------
SlotsOf(me) == IF me THEN mySlots ELSE otherSlots

Claim(me, n) ==
    /\ inUse' = inUse + n
    /\ mySlots' = IF me THEN mySlots + n ELSE mySlots
    /\ otherSlots' = IF me THEN otherSlots ELSE otherSlots + n

(* try_acquire: FALSE, or raises from acquire, when there is no room. *)
TryAcquire(me, n) ==
    IF n > Available THEN UNCHANGED slotVars ELSE Claim(me, n)

AcquireSlots(me, n) ==
    \/ n <= Available /\ Claim(me, n)
    \/ n > Available /\ UNCHANGED slotVars

(* release raises on an over-release. *)
OverRelease(n) == n > inUse

ReleaseSlots(me, n) ==
    /\ n <= SlotsOf(me)
    /\ IF OverRelease(n) THEN UNCHANGED slotVars ELSE Claim(me, 0 - n)

SlotNext ==
    \E me \in BOOLEAN, n \in 1 .. MaxSlots + 1 :
        TryAcquire(me, n) \/ AcquireSlots(me, n) \/ ReleaseSlots(me, n)

-----------------------------------------------------------------------------
(* The count is that of the slots held, within its bounds, whatever groups *)
(* they were claimed and are returned in; so nobody who returns what it    *)
(* holds is told it returns too much.                                      *)
SlotsHonoured ==
    /\ inUse \in 0 .. MaxSlots
    /\ inUse = mySlots + otherSlots
    /\ \A me \in BOOLEAN : \A n \in 1 .. SlotsOf(me) : ~OverRelease(n)
=============================================================================
