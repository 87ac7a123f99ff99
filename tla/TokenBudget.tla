---------------------------- MODULE TokenBudget ----------------------------
(***************************************************************************)
(* The token budget of token_budget.py: reservations and consumption       *)
(* against one pool.  The tracker only knows sums.  Who holds what is      *)
(* known to its callers, which this module splits into one of them, "me",  *)
(* and all the others: each releases and commits only what it holds.       *)
(***************************************************************************)
EXTENDS Integers

CONSTANTS
    Pool,           \* total
    SafetyReserve   \* safety_reserve

ASSUME PoolAssumption == Pool \in Nat /\ SafetyReserve \in 0 .. Pool

VARIABLES
    consumed,   \* self._consumed
    reserved,   \* self._reserved
    mine,       \* history: the reservations I hold
    theirs,     \* history: those of the others
    used        \* history: what all were told they have used

tokenVars == <<consumed, reserved, mine, theirs, used>>

Usable == Pool - SafetyReserve
Remaining == Usable - consumed - reserved
Amounts == 0 .. Usable + 1

TokenInit == consumed = 0 /\ reserved = 0 /\ mine = 0 /\ theirs = 0 /\ used = 0

-----------------------------------------------------------------------------
(* The holder's side of an operation: my holding grows by n, or theirs. *)
Hold(me, n) ==
    /\ mine' = IF me THEN mine + n ELSE mine
    /\ theirs' = IF me THEN theirs ELSE theirs + n

Holding(me) == IF me THEN mine ELSE theirs

Reserve(me, n) ==
    /\ n <= Remaining
    /\ reserved' = reserved + n
    /\ Hold(me, n)
    /\ UNCHANGED <<consumed, used>>

(* reserve and consume raise BudgetExceeded and change nothing. *)
Exceeded(n) == n > Remaining /\ UNCHANGED tokenVars

ReleaseRefused(n) == n > reserved

Release(me, n) ==
    /\ n <= Holding(me)
    /\ IF ReleaseRefused(n) THEN UNCHANGED tokenVars
       ELSE /\ reserved' = reserved - n
            /\ Hold(me, 0 - n)
            /\ UNCHANGED <<consumed, used>>

Consume(n) ==
    /\ n <= Remaining
    /\ consumed' = consumed + n
    /\ used' = used + n
    /\ UNCHANGED <<reserved, mine, theirs>>

(* commit checks both halves, the second against the state after the       *)
(* first, before it changes anything.                                      *)
CommitRefused(r, a) == r > reserved \/ a > Remaining + r

(* A faulty variant of Commit: the release has happened when the second    *)
(* half is refused.                                                        *)
CommitHalfway(me, r, a) ==
    /\ r <= Holding(me)
    /\ IF CommitRefused(r, a)
       THEN reserved' = reserved - r /\ UNCHANGED <<consumed, mine, theirs, used>>
       ELSE /\ reserved' = reserved - r
            /\ consumed' = consumed + a
            /\ used' = used + a
            /\ Hold(me, 0 - r)

Commit(me, r, a) ==
    /\ r <= Holding(me)
    /\ IF CommitRefused(r, a) THEN UNCHANGED tokenVars
       ELSE /\ reserved' = reserved - r
            /\ consumed' = consumed + a
            /\ used' = used + a
            /\ Hold(me, 0 - r)

TokenNext ==
    \E me \in BOOLEAN, n \in Amounts :
        \/ Reserve(me, n)
        \/ Exceeded(n)
        \/ Release(me, n)
        \/ Consume(n)
        \/ \E a \in Amounts : Commit(me, n, a)

-----------------------------------------------------------------------------
(* The pool is never overdrawn and the safety reserve never touched; the   *)
(* sums are those of the holders and of the uses, also after refused       *)
(* operations; so a reservation is a promise: its holder can always give   *)
(* it back, or commit it for at most what was reserved, whatever the       *)
(* others have done since.                                                 *)
TokensHonoured ==
    /\ Remaining >= 0
    /\ reserved = mine + theirs
    /\ consumed = used
    /\ \A me \in BOOLEAN : \A r \in 0 .. Holding(me) :
          /\ ~ReleaseRefused(r)
          /\ \A a \in 0 .. r : ~CommitRefused(r, a)
=============================================================================
