------------------------ MODULE CircuitBreakerProofs ------------------------
(***************************************************************************)
(* Proofs about the circuit breaker, for any thresholds, any timeout and   *)
(* any finite set of overlapping calls.                                    *)
(***************************************************************************)
EXTENDS CircuitBreaker, FiniteSetTheorems, TLAPS

USE CallsAssumption, ThresholdsAssumption, CapsAssumption DEF NotOpened

-----------------------------------------------------------------------------
(* What the internal transitions do to the live state.                     *)

(* b becomes `after` by internal transitions: the result is typed and      *)
(* consistent, and the slots are zeroed or left alone.                     *)
Transition(b, after) ==
    /\ after \in Breaker
    /\ Consistent(after)
    /\ SlotsZeroed(b, after) => after.probes = 0
    /\ ~SlotsZeroed(b, after) => after.probes = b.probes

(* A breaker taken apart and put together: the transitions below are       *)
(* checked field by field.                                                 *)
LEMMA Fields ==
    ASSUME NEW b \in Breaker
    PROVE  /\ b.state \in {"closed", "open", "half_open"}
           /\ b.consecutive \in Nat /\ b.successes \in Nat /\ b.opens \in Nat
           /\ b.probes \in Int /\ b.openedFor \in NotOpened .. RecoveryTimeout
BY DEF Breaker

(* A breaker of fields of the right types is one.                          *)
LEMMA Assembled ==
    ASSUME NEW s \in {"closed", "open", "half_open"}, NEW n \in Nat, NEW m \in Nat,
           NEW p \in Int, NEW t \in NotOpened .. RecoveryTimeout, NEW o \in Nat
    PROVE  [state |-> s, consecutive |-> n, successes |-> m, probes |-> p,
            openedFor |-> t, opens |-> o] \in Breaker
BY DEF Breaker

(* The transitions of the live state: half-open after the cool-down,       *)
LEMMA RecoverTransition ==
    ASSUME NEW b \in Breaker, Consistent(b)
    PROVE  Transition(b, Recover(b))
<1>1. CASE b.state = "open" /\ b.openedFor = RecoveryTimeout
  <2>1. Recover(b) = [state |-> "half_open", consecutive |-> b.consecutive,
                      successes |-> 0, probes |-> 0,
                      openedFor |-> RecoveryTimeout, opens |-> b.opens]
    BY <1>1 DEF Recover, Breaker
  <2>2. Recover(b) \in Breaker
    <3>0. "half_open" \in {"closed", "open", "half_open"} /\ 0 \in Nat /\ 0 \in Int
      OBVIOUS
    <3>1. RecoveryTimeout \in NotOpened .. RecoveryTimeout
      OBVIOUS
    <3>2. b.consecutive \in Nat /\ b.opens \in Nat
      BY Fields
    <3>3. [state |-> "half_open", consecutive |-> b.consecutive, successes |-> 0,
           probes |-> 0, openedFor |-> RecoveryTimeout, opens |-> b.opens] \in Breaker
      BY ONLY <3>0, <3>1, <3>2, Assembled, Zenon
    <3> QED
      BY ONLY <2>1, <3>3, Zenon
  <2>3. /\ Recover(b).state = "half_open" /\ Recover(b).openedFor = RecoveryTimeout
        /\ Recover(b).successes = 0 /\ Recover(b).probes = 0
    BY <2>1
  <2> QED
    BY <1>1, <2>2, <2>3 DEF Transition, Consistent, SlotsZeroed
<1>2. CASE ~(b.state = "open" /\ b.openedFor = RecoveryTimeout)
  BY <1>2 DEF Recover, Transition, SlotsZeroed
<1> QED
  BY <1>1, <1>2

(* tripping, which opens the breaker once more,                            *)
LEMMA TripTransition ==
    ASSUME NEW b \in Breaker, NEW n \in Nat
    PROVE  /\ Transition(b, Trip([b EXCEPT !.consecutive = n]))
           /\ Transition(b, Trip(b))
           /\ Trip(b).opens = b.opens + 1 /\ Trip(b).state = "open"
<1> DEFINE more == [b EXCEPT !.consecutive = n]
<1>1. more \in Breaker /\ more.opens = b.opens /\ more.state = b.state
  BY DEF Breaker
<1>2. ASSUME NEW x \in Breaker
      PROVE  /\ Trip(x) \in Breaker
             /\ Trip(x).state = "open" /\ Trip(x).openedFor = 0
             /\ Trip(x).successes = 0 /\ Trip(x).probes = 0
             /\ Trip(x).opens = x.opens + 1
  <2>1. /\ "open" \in {"closed", "open", "half_open"} /\ 0 \in Nat /\ 0 \in Int
        /\ 0 \in NotOpened .. RecoveryTimeout
    OBVIOUS
  <2>2. x.consecutive \in Nat /\ x.opens + 1 \in Nat
    BY Fields
  <2>3. Trip(x) \in Breaker
    BY ONLY <2>1, <2>2, Assembled, Zenon DEF Trip
  <2> QED
    BY <2>3 DEF Trip
<1>3. ASSUME NEW x \in Breaker PROVE Consistent(Trip(x))
  BY <1>2 DEF Consistent, NotOpened
<1>4. b.opens \in Nat
  BY Fields
<1> HIDE DEF more
<1>5. Transition(b, Trip(more)) /\ Transition(b, Trip(b))
  BY <1>1, <1>2, <1>3, <1>4 DEF Transition, SlotsZeroed
<1> QED
  BY <1>2, <1>5 DEF more

(* closing,                                                                *)
LEMMA CloseTransition ==
    ASSUME NEW b \in Breaker, b.state # "closed"
    PROVE  Transition(b, Close(b))
<1>1. /\ Close(b) \in Breaker
      /\ Close(b).state = "closed" /\ Close(b).openedFor = NotOpened
      /\ Close(b).consecutive = 0 /\ Close(b).successes = 0
      /\ Close(b).probes = 0
  <2>1. /\ "closed" \in {"closed", "open", "half_open"} /\ 0 \in Nat /\ 0 \in Int
        /\ NotOpened \in NotOpened .. RecoveryTimeout
    OBVIOUS
  <2>2. b.opens \in Nat
    BY Fields
  <2>3. Close(b) \in Breaker
    BY ONLY <2>1, <2>2, Assembled, Zenon DEF Close
  <2> QED
    BY <2>3 DEF Close
<1> QED
  BY <1>1 DEF Transition, Consistent, SlotsZeroed

(* what a success makes of it,                                             *)
LEMMA SuccessTransition ==
    ASSUME NEW b \in Breaker, Consistent(b)
    PROVE  /\ Transition(b, OnSuccess(b))
           /\ b.state # "half_open" => OnSuccess(b).state = b.state
           /\ b.state = "half_open" => OnSuccess(b).state \in {"half_open", "closed"}
<1>1. CASE b.state = "half_open" /\ b.successes + 1 >= SuccessThreshold
  BY <1>1, CloseTransition DEF OnSuccess, Close, Breaker
<1>2. CASE b.state = "half_open" /\ ~(b.successes + 1 >= SuccessThreshold)
  <2>1. OnSuccess(b) = [b EXCEPT !.successes = b.successes + 1]
    BY <1>2 DEF OnSuccess
  <2> QED
    BY <1>2, <2>1 DEF Transition, Breaker, Consistent, SlotsZeroed
<1>3. CASE b.state # "half_open"
  <2>1. OnSuccess(b) = [b EXCEPT !.consecutive = 0]
    BY <1>3 DEF OnSuccess
  <2> QED
    BY <1>3, <2>1 DEF Transition, Breaker, Consistent, SlotsZeroed
<1> QED
  BY <1>1, <1>2, <1>3

(* and what a failure does.                                                *)
LEMMA FailureTransition ==
    ASSUME NEW b \in Breaker, Consistent(b)
    PROVE  /\ Transition(b, OnFailure(b))
           /\ b.state # "closed" => OnFailure(b).state = "open"
           /\ OnFailure(b).opens # b.opens => OnFailure(b).opens = b.opens + 1
           /\ b.state = "half_open" => OnFailure(b).opens = b.opens + 1
<1> DEFINE more == [b EXCEPT !.consecutive = b.consecutive + 1]
<1>1. CASE b.state = "half_open"
  BY <1>1, TripTransition DEF OnFailure
<1>2. CASE b.state # "half_open" /\ b.consecutive + 1 >= FailureThreshold
  <2>1. OnFailure(b) = Trip(more)
    BY <1>2 DEF OnFailure, Breaker
  <2>2. b.consecutive + 1 \in Nat
    BY Fields
  <2>3. Transition(b, Trip(more))
    BY ONLY <2>2, TripTransition, b \in Breaker, Zenon
  <2>4. more.opens = b.opens
    BY DEF Breaker
  <2>5. Trip(more).state = "open" /\ Trip(more).opens = more.opens + 1
    BY DEF Trip
  <2> QED
    BY ONLY <1>2, <2>1, <2>3, <2>4, <2>5, Zenon
<1>3. CASE b.state # "half_open" /\ ~(b.consecutive + 1 >= FailureThreshold)
  <2>1. OnFailure(b) = more
    BY <1>3 DEF OnFailure, Breaker
  <2> QED
    BY <1>3, <2>1 DEF Transition, Breaker, Consistent, SlotsZeroed
<1> QED
  BY <1>1, <1>2, <1>3

(* The transitions compose with a recovery before them. *)
LEMMA RecoverThenSuccess ==
    ASSUME NEW b \in Breaker, Consistent(b)
    PROVE  Transition(b, OnSuccess(Recover(b)))
<1> DEFINE r == Recover(b)
<1>1. r \in Breaker /\ Consistent(r) /\ r.opens = b.opens
  BY RecoverTransition DEF Transition, Recover, Breaker
<1>2. Transition(r, OnSuccess(r))
  BY <1>1, SuccessTransition
<1>3. CASE b.state = "open" /\ b.openedFor = RecoveryTimeout
  <2>1. r.state = "half_open" /\ r.probes = 0
    BY <1>3 DEF Recover, Breaker
  <2>2. OnSuccess(r).state # "open"
    BY <1>1, <2>1, SuccessTransition
  <2> QED
    BY <1>2, <1>3, <2>1, <2>2 DEF Transition, SlotsZeroed
<1>4. CASE ~(b.state = "open" /\ b.openedFor = RecoveryTimeout)
  BY <1>2, <1>4 DEF Recover
<1> QED
  BY <1>3, <1>4

(* A failure that first finds the cool-down over.                          *)
LEMMA RecoverThenFailure ==
    ASSUME NEW b \in Breaker, Consistent(b)
    PROVE  Transition(b, OnFailure(Recover(b)))
<1> DEFINE r == Recover(b)
<1>1. r \in Breaker /\ Consistent(r) /\ r.opens = b.opens
  BY RecoverTransition DEF Transition, Recover, Breaker
<1>2. Transition(r, OnFailure(r))
  BY <1>1, FailureTransition
<1>3. CASE b.state = "open" /\ b.openedFor = RecoveryTimeout
  <2>1. r.state = "half_open" /\ r.probes = 0
    BY <1>3 DEF Recover, Breaker
  <2>2. OnFailure(r).opens = b.opens + 1 /\ b.opens \in Nat
    BY <1>1, <2>1, FailureTransition DEF Breaker
  <2> QED
    BY <1>2, <2>1, <2>2 DEF Transition, SlotsZeroed
<1>4. CASE ~(b.state = "open" /\ b.openedFor = RecoveryTimeout)
  BY <1>2, <1>4 DEF Recover
<1> QED
  BY <1>3, <1>4

(* Giving a slot back changes the count of the slots only.                 *)
LEMMA ReleasedTyped ==
    ASSUME NEW b \in Breaker, Consistent(b), NEW c \in Calls
    PROVE  /\ Released(b, c) \in Breaker
           /\ Consistent(Released(b, c))
           /\ Released(b, c).state = b.state /\ Released(b, c).opens = b.opens
           /\ Released(b, c).probes =
                 IF inFlight[c] = "probe" THEN b.probes - 1 ELSE b.probes
BY DEF Released, Breaker, Consistent
-----------------------------------------------------------------------------
(* The inductive invariant.                                                *)

SlotsOK == SlotsNeverLeak /\ SlotsCountProbes /\ CountedAreRunning
BreakerInv == TypeOK /\ StateConsistent /\ SlotsOK /\ TotalsAddUp

HistoryTyped ==
    /\ inFlight \in [Calls -> {"idle", "normal", "probe"}]
    /\ counted \subseteq Calls /\ strays \subseteq Calls

(* Calls are finitely many, and so they can be counted.                    *)
LEMMA FiniteCalls ==
    ASSUME NEW S \in SUBSET Calls
    PROVE  IsFiniteSet(S) /\ Cardinality(S) \in Nat
BY FS_Subset, FS_CardinalityType

(* The new breaker satisfies the invariant.                                *)
LEMMA InitInv == BreakerInit => BreakerInv
<1> SUFFICES ASSUME BreakerInit PROVE BreakerInv
  OBVIOUS
<1>1. ProbesRunning = {} /\ Running = {}
  BY DEF BreakerInit, ProbesRunning, Running
<1>2. breaker \in Breaker
  <2>1. /\ "closed" \in {"closed", "open", "half_open"} /\ 0 \in Nat /\ 0 \in Int
        /\ NotOpened \in NotOpened .. RecoveryTimeout
    OBVIOUS
  <2> QED
    BY ONLY BreakerInit, <2>1, Assembled, Zenon DEF BreakerInit
<1>3. TypeOK
  BY <1>2 DEF BreakerInit, TypeOK
<1>4. StateConsistent
  BY DEF BreakerInit, StateConsistent, Consistent
<1>5. SlotsOK /\ TotalsAddUp
  BY <1>1, FS_EmptySet DEF BreakerInit, SlotsOK, SlotsNeverLeak, SlotsCountProbes,
                           CountedAreRunning, TotalsAddUp
<1> QED
  BY <1>3, <1>4, <1>5 DEF BreakerInv

(* A call that ends gives back its slot, whichever count the slot is of. *)
LEMMA EndSlots ==
    ASSUME BreakerInv, NEW c \in Calls, NEW after,
           End(c, after), Transition(Released(breaker, c), after)
    PROVE  /\ breaker' \in Breaker /\ StateConsistent' /\ SlotsOK'
           /\ HistoryTyped'
           /\ Running' = Running \ {c} /\ c \in Running
<1> DEFINE slot == inFlight[c] = "probe"
           zeroed == SlotsZeroed(breaker, after)
<1>1. /\ breaker \in Breaker /\ Consistent(breaker)
      /\ inFlight \in [Calls -> {"idle", "normal", "probe"}]
      /\ counted \subseteq Calls /\ strays \subseteq Calls
      /\ counted \subseteq ProbesRunning /\ ProbesRunning \subseteq Calls
      /\ breaker.probes \in Int
  BY Fields DEF BreakerInv, TypeOK, StateConsistent, SlotsOK, CountedAreRunning,
                ProbesRunning
<1>2. /\ breaker' = after /\ inFlight[c] # "idle"
      /\ inFlight' = [inFlight EXCEPT ![c] = "idle"]
      /\ counted' = IF zeroed THEN {} ELSE counted \ {c}
      /\ strays' = IF zeroed THEN {}
                   ELSE IF slot /\ c \notin counted THEN strays \cup {c} ELSE strays
  BY DEF End
<1>3. /\ after \in Breaker /\ Consistent(after)
      /\ zeroed => after.probes = 0
      /\ ~zeroed => after.probes = IF slot THEN breaker.probes - 1 ELSE breaker.probes
  BY <1>1, ReleasedTyped DEF Transition, SlotsZeroed
<1>4. /\ ProbesRunning' = ProbesRunning \ {c}
      /\ slot <=> c \in ProbesRunning
      /\ Running' = Running \ {c} /\ c \in Running
  BY <1>1, <1>2 DEF ProbesRunning, Running
<1>5. HistoryTyped'
  BY <1>1, <1>2 DEF HistoryTyped
<1>6. /\ IsFiniteSet(ProbesRunning) /\ Cardinality(ProbesRunning) \in Nat
      /\ Cardinality(ProbesRunning') \in Nat
      /\ Cardinality(ProbesRunning') =
            IF slot THEN Cardinality(ProbesRunning) - 1 ELSE Cardinality(ProbesRunning)
  <2>0. ProbesRunning \in SUBSET Calls /\ ProbesRunning' \in SUBSET Calls
    BY <1>1, <1>4
  <2>1. IsFiniteSet(ProbesRunning) /\ Cardinality(ProbesRunning) \in Nat
    BY <2>0, FiniteCalls
  <2>2. Cardinality(ProbesRunning') \in Nat
    BY <2>0, FiniteCalls
  <2>3. Cardinality(ProbesRunning \ {c}) =
          IF c \in ProbesRunning THEN Cardinality(ProbesRunning) - 1
                                 ELSE Cardinality(ProbesRunning)
    BY <2>1, FS_RemoveElement
  <2> QED
    BY <1>4, <2>1, <2>2, <2>3
<1>7. /\ Cardinality(counted) \in Nat
      /\ Cardinality(counted \ {c}) =
            IF c \in counted THEN Cardinality(counted) - 1 ELSE Cardinality(counted)
  BY <1>1, FiniteCalls, FS_RemoveElement
<1> HIDE DEF slot, zeroed
<1>8. SlotsNeverLeak'
  BY <1>1, <1>2, <1>3, <1>6 DEF BreakerInv, SlotsOK, SlotsNeverLeak
<1>9. SlotsCountProbes'
  <2>1. CASE zeroed
    BY <1>2, <1>3, <2>1, FS_EmptySet DEF SlotsCountProbes
  <2>2. CASE ~zeroed
    <3> SUFFICES ASSUME strays' = {}
                 PROVE  breaker'.probes = Cardinality(counted')
                        /\ Cardinality(counted') <= SuccessThreshold
      BY DEF SlotsCountProbes
    <3>1. strays = {} /\ (slot <=> c \in counted) /\ counted' = counted \ {c}
      BY <1>1, <1>2, <1>4, <2>2
    <3>2. breaker.probes = Cardinality(counted) /\ Cardinality(counted) <= SuccessThreshold
      BY <3>1 DEF BreakerInv, SlotsOK, SlotsCountProbes
    <3> QED
      BY <1>1, <1>2, <1>3, <1>7, <2>2, <3>1, <3>2
  <2> QED
    BY <2>1, <2>2 DEF zeroed
<1>10. CountedAreRunning'
  BY <1>1, <1>2, <1>4 DEF CountedAreRunning
<1> QED
  BY <1>2, <1>3, <1>4, <1>5, <1>8, <1>9, <1>10 DEF StateConsistent, SlotsOK

(* A step outside call() leaves the running calls alone. *)
LEMMA DriveInv ==
    ASSUME BreakerInv, NEW after, Drive(after), Transition(breaker, after)
    PROVE  BreakerInv'
<1>1. /\ breaker' = after /\ UNCHANGED <<totals, inFlight, succeeded>>
      /\ counted' = IF SlotsZeroed(breaker, after) THEN {} ELSE counted
      /\ strays' = IF SlotsZeroed(breaker, after) THEN {} ELSE strays
  BY DEF Drive
<1>2. ProbesRunning' = ProbesRunning /\ Running' = Running
      /\ ProbesRunning \subseteq Calls /\ Cardinality(ProbesRunning) \in Nat
  BY <1>1, FiniteCalls DEF ProbesRunning, Running
<1>3. TypeOK' /\ StateConsistent'
  BY <1>1 DEF Transition, BreakerInv, TypeOK, StateConsistent
<1>4. SlotsOK'
  BY <1>1, <1>2, FS_EmptySet DEF Transition, BreakerInv, SlotsOK, SlotsNeverLeak,
                                 SlotsCountProbes, CountedAreRunning
<1>5. TotalsAddUp'
  BY <1>1, <1>2 DEF BreakerInv, TotalsAddUp
<1> QED
  BY <1>3, <1>4, <1>5 DEF BreakerInv
(* What the invariant says of the live state.                              *)
LEMMA BreakerTyped ==
    ASSUME BreakerInv
    PROVE  breaker \in Breaker /\ Consistent(breaker)
BY DEF BreakerInv, TypeOK, StateConsistent

(* An admission takes a free slot if the breaker is half-open. *)
LEMMA AdmitInv ==
    ASSUME BreakerInv, NEW c \in Calls, Admit(c)
    PROVE  BreakerInv'
<1> DEFINE b == Recover(breaker)
           probe == b.state = "half_open"
           zeroed == SlotsZeroed(breaker, b)
           taken == [b EXCEPT !.probes = @ + 1]
           left == IF zeroed THEN {} ELSE counted
<1>1. /\ inFlight[c] = "idle" /\ Allows(b)
      /\ breaker' = IF probe THEN taken ELSE b
      /\ totals' = [totals EXCEPT !.calls = @ + 1]
      /\ inFlight' = [inFlight EXCEPT ![c] = IF probe THEN "probe" ELSE "normal"]
      /\ counted' = IF probe THEN left \cup {c} ELSE left
      /\ strays' = IF zeroed THEN {} ELSE strays
      /\ succeeded' = succeeded
  BY DEF Admit
<1>2. /\ inFlight \in [Calls -> {"idle", "normal", "probe"}]
      /\ totals \in [calls : Nat, failures : Nat, rejections : Nat]
      /\ counted \subseteq Calls /\ strays \subseteq Calls /\ succeeded \in Nat
      /\ counted \subseteq ProbesRunning
      /\ totals.calls = succeeded + totals.failures + Cardinality(Running)
  BY DEF BreakerInv, TypeOK, SlotsOK, CountedAreRunning, TotalsAddUp
<1>3. b \in Breaker /\ Consistent(b) /\ b.probes \in Int
      /\ (zeroed => b.probes = 0) /\ (~zeroed => b.probes = breaker.probes)
  BY BreakerTyped, RecoverTransition, Fields DEF Transition
<1> HIDE DEF b
<1>4. /\ taken \in Breaker /\ Consistent(taken) /\ taken.probes = b.probes + 1
  BY <1>3 DEF Breaker, Consistent
<1>5. breaker' \in Breaker /\ Consistent(breaker')
      /\ breaker'.probes = IF probe THEN b.probes + 1 ELSE b.probes
  BY <1>1, <1>3, <1>4
<1>6. /\ ProbesRunning \in SUBSET Calls /\ Running \in SUBSET Calls
      /\ left \in SUBSET Calls
      /\ c \notin ProbesRunning /\ c \notin Running /\ c \notin left
      /\ ProbesRunning' = IF probe THEN ProbesRunning \cup {c} ELSE ProbesRunning
      /\ Running' = Running \cup {c}
  BY <1>1, <1>2 DEF ProbesRunning, Running
<1>7. /\ Cardinality(ProbesRunning) \in Nat /\ Cardinality(left) \in Nat
      /\ Cardinality(Running) \in Nat
      /\ Cardinality(ProbesRunning \cup {c}) = Cardinality(ProbesRunning) + 1
      /\ Cardinality(Running \cup {c}) = Cardinality(Running) + 1
      /\ Cardinality(left \cup {c}) = Cardinality(left) + 1
  BY <1>6, FiniteCalls, FS_AddElement
<1>8. breaker.probes <= Cardinality(ProbesRunning)
  BY DEF BreakerInv, SlotsOK, SlotsNeverLeak
<1>9. (strays' = {}) => b.probes = Cardinality(left) /\ Cardinality(left) <= SuccessThreshold
  BY <1>1, <1>3, FS_EmptySet DEF BreakerInv, SlotsOK, SlotsCountProbes
<1>10. probe => b.probes < SuccessThreshold
  BY <1>1 DEF Allows
<1> HIDE DEF probe, zeroed, taken, left
<1>11. SlotsNeverLeak'
  BY <1>3, <1>5, <1>6, <1>7, <1>8 DEF SlotsNeverLeak
<1>12. SlotsCountProbes'
  <2>1. CASE probe
    BY <1>1, <1>3, <1>5, <1>7, <1>9, <1>10, <2>1 DEF SlotsCountProbes
  <2>2. CASE ~probe
    BY <1>1, <1>3, <1>5, <1>7, <1>9, <2>2 DEF SlotsCountProbes
  <2> QED
    BY <2>1, <2>2 DEF probe
<1>13. CountedAreRunning'
  BY <1>1, <1>2, <1>6 DEF CountedAreRunning, left
<1>14. TotalsAddUp'
  BY <1>1, <1>2, <1>6, <1>7 DEF TotalsAddUp
<1>15. TypeOK'
  <2>1. totals' \in [calls : Nat, failures : Nat, rejections : Nat]
    BY <1>1, <1>2
  <2>2. inFlight' \in [Calls -> {"idle", "normal", "probe"}]
    BY <1>1, <1>2
  <2>3. counted' \subseteq Calls /\ strays' \subseteq Calls /\ succeeded' \in Nat
    BY <1>1, <1>2, <1>6
  <2> QED
    BY <1>5, <2>1, <2>2, <2>3 DEF TypeOK
<1> QED
  BY <1>5, <1>11, <1>12, <1>13, <1>14, <1>15 DEF BreakerInv, StateConsistent, SlotsOK

(* A rejection changes the breaker as a recovery does, and counts itself. *)
LEMMA RejectInv ==
    ASSUME BreakerInv, Reject
    PROVE  BreakerInv'
<1> DEFINE b == Recover(breaker)
<1>1. /\ breaker' = b
      /\ totals' = [totals EXCEPT !.rejections = @ + 1]
      /\ counted' = IF SlotsZeroed(breaker, b) THEN {} ELSE counted
      /\ strays' = IF SlotsZeroed(breaker, b) THEN {} ELSE strays
      /\ UNCHANGED <<inFlight, succeeded>>
  BY DEF Reject
<1>2. Transition(breaker, b)
  BY BreakerTyped, RecoverTransition
<1>3. totals' \in [calls : Nat, failures : Nat, rejections : Nat]
      /\ totals'.calls = totals.calls /\ totals'.failures = totals.failures
  BY <1>1 DEF BreakerInv, TypeOK
<1> HIDE DEF b
<1>4. ProbesRunning' = ProbesRunning /\ Running' = Running
      /\ ProbesRunning \subseteq Calls /\ Cardinality(ProbesRunning) \in Nat
  BY <1>1, FiniteCalls DEF ProbesRunning, Running
<1>5. TypeOK' /\ StateConsistent'
  BY <1>1, <1>2, <1>3 DEF Transition, BreakerInv, TypeOK, StateConsistent
<1>6. SlotsOK'
  BY <1>1, <1>2, <1>4, FS_EmptySet DEF Transition, BreakerInv, SlotsOK,
        SlotsNeverLeak, SlotsCountProbes, CountedAreRunning
<1>7. TotalsAddUp'
  BY <1>1, <1>3, <1>4 DEF BreakerInv, TotalsAddUp
<1> QED
  BY <1>5, <1>6, <1>7 DEF BreakerInv

(* A call that ends moves itself, in the counters, from running to done,   *)
(* to failed, or out of them.                                              *)
LEMMA EndInv ==
    ASSUME BreakerInv, NEW c \in Calls,
           CallSucceeds(c) \/ CallFails(c) \/ CallEscapes(c)
    PROVE  BreakerInv'
<1> DEFINE b == Released(breaker, c)
<1>1. b \in Breaker /\ Consistent(b)
  BY BreakerTyped, ReleasedTyped
<1>2. /\ Transition(b, OnSuccess(b)) /\ Transition(b, OnFailure(b))
      /\ Transition(b, b)
  BY <1>1, SuccessTransition, FailureTransition DEF Transition, SlotsZeroed
<1>3. /\ breaker' \in Breaker /\ StateConsistent' /\ SlotsOK' /\ HistoryTyped'
      /\ Running' = Running \ {c} /\ c \in Running
  BY <1>2, EndSlots DEF CallSucceeds, CallFails, CallEscapes
<1>4. /\ totals \in [calls : Nat, failures : Nat, rejections : Nat]
      /\ succeeded \in Nat
      /\ totals.calls = succeeded + totals.failures + Cardinality(Running)
  BY DEF BreakerInv, TypeOK, TotalsAddUp
<1>5. /\ Cardinality(Running) \in Nat /\ Cardinality(Running') \in Nat
      /\ Cardinality(Running') = Cardinality(Running) - 1
  <2>1. Running \in SUBSET Calls /\ Running' \in SUBSET Calls
    BY <1>3 DEF Running
  <2> QED
    BY <1>3, <2>1, FiniteCalls, FS_RemoveElement
<1>6. /\ totals' \in [calls : Nat, failures : Nat, rejections : Nat]
      /\ succeeded' \in Nat /\ TotalsAddUp'
  <2>1. CASE CallSucceeds(c)
    BY <1>4, <1>5, <2>1 DEF CallSucceeds, TotalsAddUp
  <2>2. CASE CallFails(c)
    BY <1>4, <1>5, <2>2 DEF CallFails, TotalsAddUp
  <2>3. CASE CallEscapes(c)
    BY <1>4, <1>5, <2>3 DEF CallEscapes, TotalsAddUp
  <2> QED
    BY <2>1, <2>2, <2>3
<1> QED
  BY <1>3, <1>6 DEF BreakerInv, TypeOK, HistoryTyped
(* reset() keeps the invariant.                                            *)
LEMMA ResetInv ==
    ASSUME BreakerInv, Reset
    PROVE  BreakerInv'
<1>1. /\ breaker' = Close(breaker) /\ counted' = {} /\ strays' = {}
      /\ UNCHANGED <<totals, inFlight, succeeded>>
  BY DEF Reset
<1>2. Close(breaker) \in Breaker
  <2>1. /\ "closed" \in {"closed", "open", "half_open"} /\ 0 \in Nat /\ 0 \in Int
        /\ NotOpened \in NotOpened .. RecoveryTimeout
    OBVIOUS
  <2>2. breaker.opens \in Nat
    BY BreakerTyped, Fields
  <2> QED
    BY ONLY <2>1, <2>2, Assembled, Zenon DEF Close
<1>3. Consistent(Close(breaker)) /\ Close(breaker).probes = 0
  BY DEF Close, Consistent
<1>4. ProbesRunning' = ProbesRunning /\ Running' = Running
      /\ ProbesRunning \subseteq Calls /\ Cardinality(ProbesRunning) \in Nat
  BY <1>1, FiniteCalls DEF ProbesRunning, Running
<1>5. TypeOK' /\ StateConsistent'
  BY <1>1, <1>2, <1>3 DEF BreakerInv, TypeOK, StateConsistent
<1>6. SlotsOK'
  BY <1>1, <1>3, <1>4, FS_EmptySet DEF SlotsOK, SlotsNeverLeak, SlotsCountProbes,
                                       CountedAreRunning
<1>7. TotalsAddUp'
  BY <1>1, <1>4 DEF BreakerInv, TotalsAddUp
<1> QED
  BY <1>5, <1>6, <1>7 DEF BreakerInv

(* The passing of time keeps it.                                           *)
LEMMA TickInv ==
    ASSUME BreakerInv, Tick
    PROVE  BreakerInv'
<1> DEFINE t == breaker.openedFor + 1
<1>1. /\ breaker.openedFor \in 0 .. RecoveryTimeout - 1
      /\ breaker' = [breaker EXCEPT !.openedFor = t]
      /\ UNCHANGED <<totals, inFlight, counted, strays, succeeded>>
  BY DEF Tick
<1>2. breaker \in Breaker /\ Consistent(breaker)
  BY BreakerTyped
<1>3. t \in 1 .. RecoveryTimeout
  BY <1>1
<1> HIDE DEF t
<1>4. /\ breaker' \in Breaker /\ breaker'.openedFor = t
      /\ breaker'.state = breaker.state /\ breaker'.probes = breaker.probes
      /\ breaker'.successes = breaker.successes
  BY <1>1, <1>2, <1>3 DEF Breaker
<1>5. Consistent(breaker')
  BY <1>1, <1>2, <1>3, <1>4 DEF Consistent
<1>6. ProbesRunning' = ProbesRunning /\ Running' = Running
  BY <1>1 DEF ProbesRunning, Running
<1> QED
  BY <1>1, <1>4, <1>5, <1>6
     DEF BreakerInv, TypeOK, StateConsistent, SlotsOK, SlotsNeverLeak,
         SlotsCountProbes, CountedAreRunning, TotalsAddUp

(* So does every step.                                                     *)
LEMMA NextInv == BreakerInv /\ [BreakerNext]_breakerVars => BreakerInv'
<1> SUFFICES ASSUME BreakerInv, [BreakerNext]_breakerVars PROVE BreakerInv'
  OBVIOUS
<1>1. ASSUME NEW c \in Calls, Admit(c) PROVE BreakerInv'
  BY <1>1, AdmitInv
<1>2. ASSUME NEW c \in Calls, CallSucceeds(c) \/ CallFails(c) \/ CallEscapes(c)
      PROVE  BreakerInv'
  BY <1>2, EndInv
<1>3. CASE Reject
  BY <1>3, RejectInv
<1>4. CASE Observe
  BY <1>4, BreakerTyped, RecoverTransition, DriveInv DEF Observe
<1>5. CASE RecordSuccess
  BY <1>5, BreakerTyped, RecoverThenSuccess, DriveInv DEF RecordSuccess
<1>6. CASE RecordFailure
  BY <1>6, BreakerTyped, RecoverThenFailure, DriveInv DEF RecordFailure
<1>7. CASE Reset
  BY <1>7, ResetInv
<1>8. CASE Tick
  BY <1>8, TickInv
<1>9. CASE UNCHANGED breakerVars
  BY <1>9 DEF breakerVars, BreakerInv, TypeOK, StateConsistent, SlotsOK, SlotsNeverLeak,
              SlotsCountProbes, CountedAreRunning, TotalsAddUp, ProbesRunning, Running
<1> QED
  BY <1>1, <1>2, <1>3, <1>4, <1>5, <1>6, <1>7, <1>8, <1>9 DEF BreakerNext

(* The invariant holds in every state that can be reached.                 *)
LEMMA Invariance == BreakerSpec => []BreakerInv
BY InitInv, NextInv, PTL DEF BreakerSpec

(* Every variable keeps its type, and the live fields agree with the state *)
(* they belong to (see StateConsistent).                                   *)
THEOREM BreakerStateRight == BreakerSpec => [](TypeOK /\ StateConsistent)
<1>1. BreakerInv => TypeOK /\ StateConsistent
  BY DEF BreakerInv
<1> QED
  BY <1>1, Invariance, PTL

(* No probe slot is ever lost: every one counted is a probe's that still   *)
(* runs (see SlotsNeverLeak).                                              *)
THEOREM NoSlotLeaks == BreakerSpec => []SlotsNeverLeak
<1>1. BreakerInv => SlotsNeverLeak
  BY DEF BreakerInv, SlotsOK
<1> QED
  BY <1>1, Invariance, PTL

(* Until a probe of an earlier half-open episode ends in this one, the     *)
(* slot count is exactly the running probes (see SlotsCountProbes).        *)
THEOREM SlotsCountRight == BreakerSpec => []SlotsCountProbes
<1>1. BreakerInv => SlotsCountProbes
  BY DEF BreakerInv, SlotsOK
<1> QED
  BY <1>1, Invariance, PTL

(* Every counted call has returned, has failed or is running (see          *)
(* TotalsAddUp).                                                           *)
THEOREM CountersRight == BreakerSpec => []TotalsAddUp
<1>1. BreakerInv => TotalsAddUp
  BY DEF BreakerInv
<1> QED
  BY <1>1, Invariance, PTL

-----------------------------------------------------------------------------
(* While the cooldown runs no call is admitted and only reset() changes    *)
(* the state (see CooldownRespected).                                      *)
THEOREM CooldownHolds == BreakerSpec => CooldownRespected
<1> DEFINE Respect ==
      (breaker.state = "open" /\ breaker.openedFor < RecoveryTimeout) =>
          /\ \A c \in Calls : inFlight'[c] \in {inFlight[c], "idle"}
          /\ breaker'.state # "open" => breaker' = Close(breaker)
<1>1. BreakerInv /\ [BreakerNext]_breakerVars => [Respect]_breakerVars
  <2> SUFFICES ASSUME BreakerInv, [BreakerNext]_breakerVars,
                      breaker.state = "open", breaker.openedFor < RecoveryTimeout
               PROVE  Respect
    OBVIOUS
  <2>1. /\ Recover(breaker) = breaker /\ ~Allows(breaker)
        /\ breaker \in Breaker /\ Consistent(breaker)
        /\ inFlight \in [Calls -> {"idle", "normal", "probe"}]
    BY BreakerTyped DEF Recover, Allows, BreakerInv, TypeOK, Breaker
  <2>2. ASSUME NEW b \in Breaker, Consistent(b), b.state = "open"
        PROVE  OnSuccess(b).state = "open" /\ OnFailure(b).state = "open"
    BY <2>2, SuccessTransition, FailureTransition
  <2>3. ASSUME NEW c \in Calls PROVE ~Admit(c)
    BY <2>1 DEF Admit
  <2>4. ASSUME NEW c \in Calls, CallSucceeds(c) \/ CallFails(c) \/ CallEscapes(c)
        PROVE  Respect
    <3> DEFINE b == Released(breaker, c)
    <3>1. b \in Breaker /\ Consistent(b) /\ b.state = "open"
      BY <2>1, ReleasedTyped
    <3>2. breaker' \in {b, OnSuccess(b), OnFailure(b)}
          /\ inFlight' = [inFlight EXCEPT ![c] = "idle"]
      BY <2>4 DEF CallSucceeds, CallFails, CallEscapes, End
    <3> HIDE DEF b
    <3>3. breaker'.state = "open"
      BY <2>2, <3>1, <3>2
    <3> QED
      BY <2>1, <3>2, <3>3
  <2>5. CASE Reject \/ Observe
    BY <2>1, <2>5 DEF Reject, Observe, Drive
  <2>6. CASE RecordSuccess \/ RecordFailure
    BY <2>1, <2>2, <2>6 DEF RecordSuccess, RecordFailure, Drive
  <2>7. CASE Reset
    BY <2>7 DEF Reset
  <2>8. CASE Tick
    BY <2>1, <2>8 DEF Tick, Breaker
  <2>9. CASE UNCHANGED breakerVars
    BY <2>9 DEF breakerVars
  <2> QED
    BY <2>3, <2>4, <2>5, <2>6, <2>7, <2>8, <2>9 DEF BreakerNext
<1> QED
  BY <1>1, Invariance, PTL DEF BreakerSpec, CooldownRespected
=============================================================================
