-------------------------- MODULE WorkQueuesProofs --------------------------
(***************************************************************************)
(* The three queues, for every capacity and every set of tasks, priorities *)
(* and reasons.  TaskQueue keeps its three structures in step and sorted,  *)
(* and therefore serves as ServiceOrder promises; so does PriorityQueue,   *)
(* from its heap; and the dead-letter queue stays filed in order.  What is *)
(* batched, filtered and merged of the tasks keeps them and their order.   *)
(***************************************************************************)
EXTENDS WorkSelections, ListsProofs

LOCAL S == INSTANCE SequencesExt

QueueInv == QueueTyped /\ QueueInStep

-----------------------------------------------------------------------------
(* new is s with x put in after its first n elements. *)
IsInsertion(new, s, n, x) ==
    /\ Len(new) = Len(s) + 1
    /\ \A i \in 1 .. Len(s) + 1 :
          new[i] = IF i <= n THEN s[i] ELSE IF i = n + 1 THEN x ELSE s[i - 1]

(* list.insert *)
LEMMA InsertedElements ==
    ASSUME NEW T, NEW s \in Seq(T), NEW n \in 0 .. Len(s), NEW x \in T
    PROVE  Inserted(s, n, x) \in Seq(T) /\ IsInsertion(Inserted(s, n, x), s, n, x)
<1> DEFINE ins == Inserted(s, n, x)
           m == Len(s) + 1
<1>1. \A i \in 1 .. m : (IF i <= n THEN s[i] ELSE IF i = n + 1 THEN x ELSE s[i - 1]) \in T
  OBVIOUS
<1>2. ins = [i \in 1 .. m |-> IF i <= n THEN s[i] ELSE IF i = n + 1 THEN x ELSE s[i - 1]]
  BY DEF Inserted
<1>3. ins \in [1 .. m -> T]
  BY <1>1, <1>2
<1>4. m \in Nat
  OBVIOUS
<1>5. ins \in Seq(T) /\ Len(ins) = m
  BY <1>3, <1>4
<1> QED
  BY <1>2, <1>5 DEF IsInsertion

(* Keys are ordered totally by Below. *)
LEMMA BelowTotal ==
    ASSUME NEW k \in Int \X Nat, NEW l \in Int \X Nat, ~Below(k, l), k # l
    PROVE  Below(l, k)
BY DEF Below

(* The order of keys is transitive.                                        *)
LEMMA BelowTransitive ==
    ASSUME NEW k \in Int \X Nat, NEW l \in Int \X Nat, NEW m \in Int \X Nat,
           Below(k, l), Below(l, m)
    PROVE  Below(k, m)
BY DEF Below

(* The key of an entry.                                                    *)
LEMMA KeyTyped ==
    ASSUME NEW e \in QueuedTask
    PROVE  KeyOf(e) \in Int \X Nat /\ KeyOf(e)[2] = e.sequence /\ KeyOf(e)[1] = -e.priority
           /\ e.task \in Tasks /\ e.priority \in Int /\ e.sequence \in Nat
<1>1. e.task \in Tasks /\ e.priority \in Priorities /\ e.sequence \in Nat
  BY DEF QueuedTask
<1>2. e.priority \in Int
  BY <1>1, PrioritiesAssumption
<1>3. -e.priority \in Int
  BY <1>2
<1> QED
  BY <1>1, <1>2, <1>3 DEF KeyOf

-----------------------------------------------------------------------------
(* The empty queue satisfies the invariant.                                *)
LEMMA InitInv == QueueInit => QueueInv
BY CapacityAssumption DEF QueueInit, QueueInv, QueueTyped, QueueInStep

(* What an accepted push does to the three structures. *)
LEMMA PushInv ==
    ASSUME QueueInv, NEW t \in Tasks, NEW p \in Priorities, PushAccepted(t, p)
    PROVE  QueueInv'
<1> DEFINE entry == [task |-> t, priority |-> p, sequence |-> sequence]
           key == KeyOf(entry)
           l == Len(entries)
<1>1. /\ t \notin ids /\ ~IsFull /\ sequence' = sequence + 1
      /\ ids' = ids \cup {t} /\ served' = served
  BY DEF PushAccepted
<1>2. PICK n \in 0 .. Len(keys) :
          /\ Bisects(keys, key, n)
          /\ keys' = Inserted(keys, n, key)
          /\ entries' = Inserted(entries, n, entry)
  BY DEF PushAccepted
<1>3. /\ entries \in Seq(QueuedTask) /\ keys \in Seq(Int \X Nat) /\ ids \subseteq Tasks
      /\ sequence \in Nat /\ served \in Seq(QueuedTask)
      /\ Len(keys) = l /\ l \in Nat
  BY DEF QueueInv, QueueTyped, QueueInStep
<1>4. /\ \A i \in 1 .. l : keys[i] = KeyOf(entries[i])
      /\ ids = {entries[i].task : i \in 1 .. l}
      /\ \A i, j \in 1 .. l : i < j => /\ Below(keys[i], keys[j])
                                       /\ entries[i].task # entries[j].task
      /\ \A i \in 1 .. l : entries[i].sequence < sequence
      /\ l <= Capacity
  BY DEF QueueInv, QueueInStep
<1>5. entry \in QueuedTask /\ entry.task = t /\ entry.sequence = sequence
  BY <1>3 DEF QueuedTask
<1>6. key \in Int \X Nat /\ key[2] = sequence
  BY <1>5, KeyTyped
<1> HIDE DEF entry, key, l
<1>7. n \in 0 .. l
  BY <1>2, <1>3
<1>8. /\ entries' \in Seq(QueuedTask) /\ Len(entries') = l + 1
      /\ \A i \in 1 .. l + 1 :
            entries'[i] = IF i <= n THEN entries[i] ELSE IF i = n + 1 THEN entry ELSE entries[i - 1]
  <2>1. entries \in Seq(QueuedTask) /\ n \in 0 .. Len(entries) /\ entry \in QueuedTask
    BY <1>3, <1>5, <1>7 DEF l
  <2>2. entries' \in Seq(QueuedTask) /\ IsInsertion(entries', entries, n, entry)
    BY <1>2, <2>1, InsertedElements, Zenon
  <2> QED
    BY <2>2 DEF IsInsertion, l
<1>9. /\ keys' \in Seq(Int \X Nat) /\ Len(keys') = l + 1
      /\ \A i \in 1 .. l + 1 :
            keys'[i] = IF i <= n THEN keys[i] ELSE IF i = n + 1 THEN key ELSE keys[i - 1]
  <2>1. keys \in Seq(Int \X Nat) /\ n \in 0 .. Len(keys) /\ key \in Int \X Nat
    BY <1>2, <1>3, <1>6
  <2>2. keys' \in Seq(Int \X Nat) /\ IsInsertion(keys', keys, n, key)
    BY <1>2, <2>1, InsertedElements, Zenon
  <2> QED
    BY <1>3, <2>2 DEF IsInsertion
<1>10. QueueTyped'
  BY <1>1, <1>3, <1>8, <1>9 DEF QueueTyped
<1>a. ASSUME NEW i \in 1 .. l + 1
      PROVE  /\ i <= n => /\ i \in 1 .. l
                          /\ keys'[i] = keys[i] /\ entries'[i] = entries[i]
             /\ i = n + 1 => keys'[i] = key /\ entries'[i] = entry
             /\ i > n + 1 => /\ i - 1 \in 1 .. l /\ i - 1 > n
                             /\ keys'[i] = keys[i - 1] /\ entries'[i] = entries[i - 1]
             /\ i <= n \/ i = n + 1 \/ i > n + 1
  <2>1. /\ i <= n => i \in 1 .. l
        /\ i = n + 1 => ~(i <= n)
        /\ i > n + 1 => ~(i <= n) /\ i # n + 1 /\ i - 1 \in 1 .. l /\ i - 1 > n
        /\ i <= n \/ i = n + 1 \/ i > n + 1
    BY <1>3, <1>7
  <2>2. /\ entries'[i] = IF i <= n THEN entries[i] ELSE IF i = n + 1 THEN entry ELSE entries[i - 1]
        /\ keys'[i] = IF i <= n THEN keys[i] ELSE IF i = n + 1 THEN key ELSE keys[i - 1]
    BY <1>8, <1>9, Zenon
  <2> QED
    BY <2>1, <2>2, Zenon
<1>11. \A i \in 1 .. l + 1 : keys'[i] = KeyOf(entries'[i])
  <2>1. key = KeyOf(entry)
    BY DEF key
  <2> TAKE i \in 1 .. l + 1
  <2>2. CASE i <= n
    <3>1. keys'[i] = keys[i] /\ entries'[i] = entries[i] /\ i \in 1 .. l
      BY <1>a, <2>2, Zenon
    <3> QED
      BY <1>4, <3>1
  <2>3. CASE i = n + 1
    BY <1>a, <2>1, <2>3, Zenon
  <2>4. CASE i > n + 1
    <3>1. keys'[i] = keys[i - 1] /\ entries'[i] = entries[i - 1] /\ i - 1 \in 1 .. l
      BY <1>a, <2>4, Zenon
    <3> QED
      BY <1>4, <3>1
  <2> QED
    BY <1>3, <1>7, <2>2, <2>3, <2>4
<1>12. \A i \in 1 .. l : /\ i <= n => Below(keys[i], key)
                         /\ i > n => Below(key, keys[i])
  <2> TAKE i \in 1 .. l
  <2>1. keys[i] \in Int \X Nat /\ keys[i][2] < sequence
    <3>1. entries[i] \in QueuedTask
      BY <1>3 DEF l
    <3> QED
      BY <1>3, <1>4, <3>1, KeyTyped
  <2>2. keys[i] # key
    BY <1>3, <1>6, <2>1
  <2>3. i <= n => Below(keys[i], key)
    BY <1>2, <1>7 DEF Bisects
  <2>4. i > n => ~Below(keys[i], key)
    BY <1>2, <1>3, <1>7 DEF Bisects
  <2> QED
    BY <1>6, <2>1, <2>2, <2>3, <2>4, BelowTotal
<1>13. \A i \in 1 .. l : entries[i].task # t
  BY <1>1, <1>4
<1>14. ASSUME NEW i \in 1 .. l + 1, NEW j \in 1 .. l + 1, i < j
       PROVE  Below(keys'[i], keys'[j]) /\ entries'[i].task # entries'[j].task
  <2>1. CASE j <= n
    <3>0. i <= n
      BY <1>3, <1>7, <1>14, <2>1
    <3>1. /\ i \in 1 .. l /\ keys'[i] = keys[i] /\ entries'[i] = entries[i]
          /\ j \in 1 .. l /\ keys'[j] = keys[j] /\ entries'[j] = entries[j]
      BY <1>a, <2>1, <3>0, Zenon
    <3> QED
      BY <1>4, <1>14, <3>1
  <2>2. CASE j = n + 1
    <3>1. /\ i \in 1 .. l /\ i <= n /\ keys'[i] = keys[i] /\ entries'[i] = entries[i]
          /\ keys'[j] = key /\ entries'[j] = entry
      <4>1. i <= n
        BY <1>3, <1>7, <1>14, <2>2
      <4> QED
        BY <1>a, <2>2, <4>1, Zenon
    <3> QED
      BY <1>5, <1>12, <1>13, <3>1
  <2>3. CASE i <= n /\ j > n + 1
    <3>1. /\ i \in 1 .. l /\ keys'[i] = keys[i] /\ entries'[i] = entries[i]
          /\ j - 1 \in 1 .. l /\ keys'[j] = keys[j - 1] /\ entries'[j] = entries[j - 1]
          /\ i < j - 1
      <4>1. i < j - 1
        BY <1>3, <1>7, <2>3
      <4> QED
        BY <1>a, <2>3, <4>1, Zenon
    <3> QED
      BY <1>4, <3>1
  <2>4. CASE i = n + 1
    <3>1. /\ keys'[i] = key /\ entries'[i] = entry
          /\ j - 1 \in 1 .. l /\ keys'[j] = keys[j - 1] /\ entries'[j] = entries[j - 1]
          /\ j - 1 > n
      <4>1. j > n + 1
        BY <1>3, <1>7, <1>14, <2>4
      <4> QED
        BY <1>a, <2>4, <4>1, Zenon
    <3> QED
      BY <1>5, <1>12, <1>13, <3>1
  <2>5. CASE i > n + 1
    <3>1. /\ i - 1 \in 1 .. l /\ keys'[i] = keys[i - 1] /\ entries'[i] = entries[i - 1]
          /\ j - 1 \in 1 .. l /\ keys'[j] = keys[j - 1] /\ entries'[j] = entries[j - 1]
          /\ i - 1 < j - 1
      <4>1. j > n + 1 /\ i - 1 < j - 1
        BY <1>3, <1>7, <1>14, <2>5
      <4> QED
        BY <1>a, <2>5, <4>1, Zenon
    <3> QED
      BY <1>4, <3>1
  <2> QED
    BY <1>3, <1>7, <1>14, <2>1, <2>2, <2>3, <2>4, <2>5
<1>15. ids' = {entries'[i].task : i \in 1 .. l + 1}
  <2>1. ASSUME NEW i \in 1 .. l + 1
        PROVE  entries'[i].task \in ids'
    <3>1. CASE i = n + 1
      BY <1>1, <1>5, <1>7, <1>a, <3>1
    <3>2. CASE i # n + 1
      <4>1. \E k \in 1 .. l : entries'[i] = entries[k]
        BY <1>a, <3>2, Zenon
      <4> QED
        BY <1>1, <1>4, <4>1
    <3> QED
      BY <3>1, <3>2
  <2>2. ASSUME NEW u \in ids'
        PROVE  \E i \in 1 .. l + 1 : entries'[i].task = u
    <3>1. CASE u = t
      <4>1. n + 1 \in 1 .. l + 1 /\ entries'[n + 1] = entry
        <5>1. n + 1 \in 1 .. l + 1
        BY <1>3, <1>7
      <5> QED
        BY <1>a, <5>1, Zenon
      <4> QED
        BY <1>5, <3>1, <4>1
    <3>2. CASE u \in ids
      <4>1. PICK i \in 1 .. l : entries[i].task = u
        BY <1>4, <3>2
      <4>2. CASE i <= n
        <5>1. i \in 1 .. l + 1 /\ entries'[i] = entries[i]
          <6>1. i \in 1 .. l + 1
            BY <1>3
          <6> QED
            BY <1>a, <4>2, <6>1, Zenon
        <5> QED
          BY <4>1, <5>1
      <4>3. CASE i > n
        <5>1. i + 1 \in 1 .. l + 1 /\ (i + 1) - 1 = i /\ i + 1 > n + 1
          BY <1>3, <1>7, <4>3
        <5>2. entries'[i + 1] = entries[i]
          BY <1>a, <5>1, Zenon
        <5> QED
          BY <4>1, <5>1, <5>2
      <4> QED
        BY <1>7, <4>2, <4>3
    <3> QED
      BY <1>1, <3>1, <3>2
  <2> QED
    BY <2>1, <2>2
<1>16. \A i \in 1 .. l + 1 : entries'[i].sequence < sequence'
  <2>1. \A k \in 1 .. l : entries[k].sequence \in Nat
    BY <1>3, KeyTyped DEF l
  <2> TAKE i \in 1 .. l + 1
  <2>2. CASE i = n + 1
    BY <1>1, <1>3, <1>5, <1>7, <1>a, <2>2
  <2>3. CASE i # n + 1
    <3>1. PICK k \in 1 .. l : entries'[i] = entries[k]
      BY <1>a, <2>3, Zenon
    <3>2. entries[k].sequence < sequence /\ entries[k].sequence \in Nat
      BY <1>4, <2>1
    <3>3. sequence \in Nat /\ sequence' = sequence + 1
      BY <1>1, <1>3
    <3>4. entries[k].sequence < sequence'
      BY <3>2, <3>3
    <3> QED
      BY <3>1, <3>4, Zenon
  <2> QED
    BY <2>2, <2>3
<1>17. l + 1 <= Capacity
  BY <1>1, <1>3, CapacityAssumption DEF IsFull, l
<1> QED
  BY <1>8, <1>9, <1>10, <1>11, <1>14, <1>15, <1>16, <1>17 DEF QueueInv, QueueInStep

(* Taking the head off leaves the rest in step. *)
LEMMA PopInv ==
    ASSUME QueueInv, Pop
    PROVE  QueueInv'
<1>1. /\ entries \in Seq(QueuedTask) /\ keys \in Seq(Int \X Nat) /\ ids \subseteq Tasks
      /\ sequence \in Nat /\ Len(keys) = Len(entries)
  BY DEF QueueInv, QueueTyped, QueueInStep
<1>2. /\ \A i \in 1 .. Len(entries) : keys[i] = KeyOf(entries[i])
      /\ ids = {entries[i].task : i \in 1 .. Len(entries)}
      /\ \A i, j \in 1 .. Len(entries) :
            i < j => Below(keys[i], keys[j]) /\ entries[i].task # entries[j].task
      /\ \A i \in 1 .. Len(entries) : entries[i].sequence < sequence
      /\ Len(entries) <= Capacity
  BY DEF QueueInv, QueueInStep
<1>3. /\ entries # << >> /\ entries' = Tail(entries) /\ keys' = Tail(keys)
      /\ ids' = ids \ {Head(entries).task} /\ served' = <<Head(entries)>>
      /\ sequence' = sequence
  BY DEF Pop
<1>4. /\ entries' \in Seq(QueuedTask) /\ Len(entries') = Len(entries) - 1
      /\ \A i \in 1 .. Len(entries) - 1 : entries'[i] = entries[i + 1]
      /\ Head(entries) = entries[1] /\ Head(entries) \in QueuedTask
  BY <1>1, <1>3
<1>5. /\ keys' \in Seq(Int \X Nat) /\ Len(keys') = Len(entries) - 1
      /\ \A i \in 1 .. Len(entries) - 1 : keys'[i] = keys[i + 1]
  BY <1>1, <1>3
<1>6. Len(entries) \in Nat /\ Len(entries) >= 1
  BY <1>1, <1>3
<1>7. QueueTyped'
  BY <1>1, <1>3, <1>4, <1>5 DEF QueueTyped
<1>8. ids' = {entries'[i].task : i \in 1 .. Len(entries) - 1}
  <2>1. ASSUME NEW i \in 1 .. Len(entries) - 1
        PROVE  entries'[i].task \in ids'
    <3>1. i + 1 \in 1 .. Len(entries) /\ 1 \in 1 .. Len(entries) /\ 1 < i + 1
      BY <1>6
    <3> QED
      BY <1>2, <1>3, <1>4, <3>1
  <2>2. ASSUME NEW u \in ids'
        PROVE  \E i \in 1 .. Len(entries) - 1 : entries'[i].task = u
    <3>1. PICK j \in 1 .. Len(entries) : entries[j].task = u
      BY <1>2, <1>3
    <3>2. j # 1
      BY <1>3, <1>4, <3>1
    <3>3. j - 1 \in 1 .. Len(entries) - 1 /\ (j - 1) + 1 = j
      BY <1>6, <3>2
    <3> QED
      BY <1>4, <3>1, <3>3
  <2> QED
    BY <2>1, <2>2
<1>9. \A i, j \in 1 .. Len(entries) - 1 :
          i < j => Below(keys'[i], keys'[j]) /\ entries'[i].task # entries'[j].task
  <2> TAKE i, j \in 1 .. Len(entries) - 1
  <2> HAVE i < j
  <2>1. /\ i + 1 \in 1 .. Len(entries) /\ j + 1 \in 1 .. Len(entries) /\ i + 1 < j + 1
        /\ keys'[i] = keys[i + 1] /\ keys'[j] = keys[j + 1]
        /\ entries'[i] = entries[i + 1] /\ entries'[j] = entries[j + 1]
    <3>1. i + 1 \in 1 .. Len(entries) /\ j + 1 \in 1 .. Len(entries) /\ i + 1 < j + 1
      BY <1>6
    <3> QED
      BY <1>4, <1>5, <3>1, Zenon
  <2> QED
    BY <1>2, <2>1
<1>10. \A i \in 1 .. Len(entries) - 1 :
          keys'[i] = KeyOf(entries'[i]) /\ entries'[i].sequence < sequence'
  <2> TAKE i \in 1 .. Len(entries) - 1
  <2>1. i + 1 \in 1 .. Len(entries)
    BY <1>6
  <2>2. keys'[i] = keys[i + 1] /\ entries'[i] = entries[i + 1]
    BY <1>4, <1>5, Zenon
  <2> QED
    BY <1>2, <1>3, <2>1, <2>2, Zenon
<1>11. Len(entries) - 1 <= Capacity
  BY <1>2, <1>6, CapacityAssumption
<1> QED
  BY <1>4, <1>5, <1>7, <1>8, <1>9, <1>10, <1>11 DEF QueueInv, QueueInStep

(* Draining keeps it.                                                      *)
LEMMA DrainInv ==
    ASSUME QueueInv, Drain
    PROVE  QueueInv'
BY CapacityAssumption DEF QueueInv, QueueTyped, QueueInStep, Drain

(* So does every step.                                                     *)
LEMMA NextInv == QueueInv /\ [QueueNext]_queueVars => QueueInv'
<1> SUFFICES ASSUME QueueInv, [QueueNext]_queueVars PROVE QueueInv'
  OBVIOUS
<1>1. ASSUME UNCHANGED queueVars PROVE QueueInv'
  BY <1>1 DEF queueVars, QueueInv, QueueTyped, QueueInStep
<1>2. ASSUME NEW t \in Tasks, PushRefused(t) PROVE QueueInv'
  BY <1>1, <1>2 DEF PushRefused
<1> QED
  BY <1>1, <1>2, PushInv, PopInv, DrainInv DEF QueueNext

(* Whatever else is done, the task queue is used through its operations.   *)
LEMMA QueueUsed == QueuesSpec => QueueSpec
<1>1. QueuesInit => QueueInit
  BY DEF QueuesInit
<1>2. [QueuesNext]_queuesVars => [QueueNext]_queueVars
  BY DEF QueuesNext, Ordered, Dead, QueueNext, queuesVars
<1> QED
  BY <1>1, <1>2, PTL DEF QueuesSpec, QueueSpec

(* The structures of the queue are typed, in step, sorted and bounded.     *)
THEOREM QueueStaysInStep == QueuesSpec => [](QueueTyped /\ QueueInStep)
<1>1. QueueSpec => []QueueInv
  BY InitInv, NextInv, PTL DEF QueueSpec
<1> QED
  BY <1>1, QueueUsed, PTL DEF QueueInv

-----------------------------------------------------------------------------
(* The queue serves as ServiceOrder promises.                              *)

Waiting == {entries[i] : i \in 1 .. Len(entries)}

(* Along the entries, Precedes is the order of positions.                  *)
LEMMA PositionsPrecede ==
    ASSUME QueueInv, NEW i \in 1 .. Len(entries), NEW j \in 1 .. Len(entries)
    PROVE  Order!Precedes(entries[i], entries[j]) <=> i < j
<1>1. /\ entries[i] \in QueuedTask /\ entries[j] \in QueuedTask
      /\ keys[i] = KeyOf(entries[i]) /\ keys[j] = KeyOf(entries[j])
      /\ i < j => Below(keys[i], keys[j])
      /\ j < i => Below(keys[j], keys[i])
  BY DEF QueueInv, QueueTyped, QueueInStep
<1>2. /\ entries[i].priority \in Int /\ entries[i].sequence \in Nat
      /\ entries[j].priority \in Int /\ entries[j].sequence \in Nat
  BY <1>1, KeyTyped
<1>3. Order!Precedes(entries[i], entries[j]) <=>
          \/ entries[i].priority > entries[j].priority
          \/ /\ entries[i].priority = entries[j].priority
             /\ entries[i].sequence < entries[j].sequence
  BY DEF Order!Precedes
<1>4. Below(keys[i], keys[j]) <=> Order!Precedes(entries[i], entries[j])
  BY <1>1, <1>2, <1>3 DEF Below, KeyOf
<1>5. Below(keys[j], keys[i]) => ~Below(keys[i], keys[j])
  BY <1>1, <1>2 DEF Below, KeyOf
<1>6. i = j => ~Below(keys[i], keys[j])
  BY <1>1, <1>2 DEF Below, KeyOf
<1>7. i < j \/ i = j \/ j < i
  OBVIOUS
<1> QED
  BY <1>1, <1>4, <1>5, <1>6, <1>7

(* No entry is queued twice.                                               *)
LEMMA EntriesDiffer ==
    ASSUME QueueInv
    PROVE  /\ entries \in Seq(QueuedTask)
           /\ \A i, j \in 1 .. Len(entries) : i < j => entries[i] # entries[j]
BY DEF QueueInv, QueueTyped, QueueInStep

(* The entries are the line of ServiceOrder.                               *)
LEMMA EntriesAreLine ==
    ASSUME QueueInv
    PROVE  Order!IsLine(entries)
<1>1. entries \in Seq(Waiting)
  <2>1. /\ Len(entries) \in Nat /\ entries = [i \in 1 .. Len(entries) |-> entries[i]]
    BY EntriesDiffer
  <2>2. \A i \in 1 .. Len(entries) : entries[i] \in Waiting
    BY DEF Waiting
  <2> QED
    BY <2>1, <2>2
<1>2. \A i, j \in 1 .. Len(entries) : i < j => Order!Precedes(entries[i], entries[j])
  BY PositionsPrecede
<1> QED
  BY <1>1, <1>2 DEF Order!IsLine, Waiting

(* The initial states are initial states of the service order.             *)
LEMMA RefinedInit == QueueInit => Order!Init
BY DEF QueueInit, Order!Init

(* Every step of the queue is a step of ServiceOrder or none.              *)
LEMMA RefinedNext == QueueInv /\ [QueueNext]_queueVars => [Order!Next]_(Order!vars)
<1> SUFFICES ASSUME QueueInv, [QueueNext]_queueVars PROVE [Order!Next]_(Order!vars)
  OBVIOUS
<1>1. ASSUME UNCHANGED queueVars PROVE UNCHANGED Order!vars
  BY <1>1 DEF queueVars, Order!vars
<1>2. ASSUME NEW t \in Tasks, NEW p \in Priorities, PushAccepted(t, p)
      PROVE  Order!Arrive(t, p)
  <2> DEFINE entry == [task |-> t, priority |-> p, sequence |-> sequence]
  <2>1. PICK n \in 0 .. Len(keys) : entries' = Inserted(entries, n, entry)
    BY <1>2 DEF PushAccepted
  <2>2. /\ entries \in Seq(QueuedTask) /\ n \in 0 .. Len(entries) /\ entry \in QueuedTask
    BY <2>1 DEF QueueInv, QueueTyped, QueueInStep, QueuedTask
  <2> HIDE DEF entry
  <2>3. IsInsertion(entries', entries, n, entry)
    BY <2>1, <2>2, InsertedElements, Zenon
  <2>4. {entries'[i] : i \in 1 .. Len(entries')} =
            {entries[i] : i \in 1 .. Len(entries)} \cup {entry}
    <3>1. Len(entries') = Len(entries) + 1 /\ Len(entries) \in Nat
      BY <2>2, <2>3 DEF IsInsertion
    <3>2. ASSUME NEW i \in 1 .. Len(entries')
          PROVE  entries'[i] = entry \/ \E j \in 1 .. Len(entries) : entries'[i] = entries[j]
      <4>1. entries'[i] = IF i <= n THEN entries[i] ELSE IF i = n + 1 THEN entry ELSE entries[i - 1]
        BY <2>3, <3>1 DEF IsInsertion
      <4>2. /\ i <= n => i \in 1 .. Len(entries)
            /\ ~(i <= n) /\ i # n + 1 => i - 1 \in 1 .. Len(entries)
        BY <2>2, <3>1
      <4> QED
        BY <4>1, <4>2, Zenon
    <3>3. \E i \in 1 .. Len(entries') : entries'[i] = entry
      <4>1. n + 1 \in 1 .. Len(entries) + 1 /\ ~(n + 1 <= n)
        BY <2>2
      <4> QED
        BY <2>3, <3>1, <4>1, Zenon DEF IsInsertion
    <3>4. ASSUME NEW j \in 1 .. Len(entries)
          PROVE  \E i \in 1 .. Len(entries') : entries'[i] = entries[j]
      <4>1. CASE j <= n
        <5>1. j \in 1 .. Len(entries) + 1
          BY <3>1
        <5> QED
          BY <2>3, <3>1, <4>1, <5>1, Zenon DEF IsInsertion
      <4>2. CASE ~(j <= n)
        <5>1. /\ j + 1 \in 1 .. Len(entries) + 1 /\ ~(j + 1 <= n) /\ j + 1 # n + 1
              /\ (j + 1) - 1 = j
          BY <2>2, <3>1, <4>2
        <5>2. entries'[j + 1] = entries[(j + 1) - 1]
          BY <2>3, <5>1, Zenon DEF IsInsertion
        <5> QED
          BY <3>1, <5>1, <5>2
      <4> QED
        BY <4>1, <4>2
    <3> QED
      BY <3>2, <3>3, <3>4
  <2>5. sequence' = sequence + 1 /\ served' = served
    BY <1>2 DEF PushAccepted
  <2> QED
    BY <2>4, <2>5 DEF Order!Arrive, entry
<1>3. ASSUME NEW t \in Tasks, PushRefused(t)
      PROVE  UNCHANGED Order!vars
  BY <1>1, <1>3 DEF PushRefused
<1>4. ASSUME Pop
      PROVE  Order!Serve
  <2>1. /\ entries \in Seq(QueuedTask) /\ entries # << >> /\ entries' = Tail(entries)
        /\ served' = <<entries[1]>> /\ sequence' = sequence
        /\ \A i, j \in 1 .. Len(entries) : i < j => entries[i] # entries[j]
    BY <1>4, EntriesDiffer DEF Pop
  <2>2. /\ Len(entries) \in Nat /\ Len(entries) >= 1 /\ Len(entries') = Len(entries) - 1
        /\ \A i \in 1 .. Len(entries) - 1 : entries'[i] = entries[i + 1]
        /\ 1 \in 1 .. Len(entries)
    BY <2>1
  <2>3. {entries'[i] : i \in 1 .. Len(entries')} =
            {entries[i] : i \in 1 .. Len(entries)} \ {entries[1]}
    <3>1. ASSUME NEW i \in 1 .. Len(entries')
          PROVE  /\ \E j \in 1 .. Len(entries) : entries'[i] = entries[j]
                 /\ entries'[i] # entries[1]
      <4>1. i + 1 \in 1 .. Len(entries) /\ 1 < i + 1 /\ entries'[i] = entries[i + 1]
        BY <2>2
      <4> QED
        BY <2>1, <2>2, <4>1
    <3>2. ASSUME NEW j \in 1 .. Len(entries), entries[j] # entries[1]
          PROVE  \E i \in 1 .. Len(entries') : entries'[i] = entries[j]
      <4>1. j # 1
        BY <3>2
      <4>2. j - 1 \in 1 .. Len(entries) - 1 /\ (j - 1) + 1 = j
        BY <2>2, <4>1
      <4>3. entries'[j - 1] = entries[j] /\ j - 1 \in 1 .. Len(entries')
        BY <2>2, <4>2, Zenon
      <4> QED
        BY <4>3, Zenon
    <3>3. ASSUME NEW f \in {entries'[i] : i \in 1 .. Len(entries')}
          PROVE  f \in {entries[i] : i \in 1 .. Len(entries)} \ {entries[1]}
      <4>1. PICK i \in 1 .. Len(entries') : f = entries'[i]
        OBVIOUS
      <4>2. PICK j \in 1 .. Len(entries) : entries'[i] = entries[j]
        BY <3>1
      <4>3. f # entries[1]
        BY <3>1, <4>1, Zenon
      <4> QED
        BY ONLY <4>1, <4>2, <4>3, Zenon
    <3>4. ASSUME NEW f \in {entries[i] : i \in 1 .. Len(entries)} \ {entries[1]}
          PROVE  f \in {entries'[i] : i \in 1 .. Len(entries')}
      <4>1. PICK j \in 1 .. Len(entries) : f = entries[j] /\ entries[j] # entries[1]
        BY Zenon
      <4>2. PICK i \in 1 .. Len(entries') : entries'[i] = entries[j]
        BY <3>2, <4>1, Zenon
      <4> QED
        BY ONLY <4>1, <4>2, Zenon
    <3> QED
      BY ONLY <3>3, <3>4, Zenon
  <2>4. ASSUME NEW f \in {entries[i] : i \in 1 .. Len(entries)} \ {entries[1]}
        PROVE  Order!Precedes(entries[1], f)
    <3>1. PICK j \in 1 .. Len(entries) : f = entries[j] /\ j # 1
      OBVIOUS
    <3>2. 1 < j
      BY <2>2, <3>1
    <3> QED
      BY <2>2, <3>1, <3>2, PositionsPrecede
  <2>5. entries[1] \in {entries[i] : i \in 1 .. Len(entries)}
    BY <2>2
  <2> QED
    BY <2>1, <2>3, <2>4, <2>5 DEF Order!Serve
<1>5. ASSUME Drain
      PROVE  Order!ServeAll
  <2>1. {entries'[i] : i \in 1 .. Len(entries')} = {}
    BY <1>5 DEF Drain
  <2>2. served' = entries /\ Order!IsLine(served') /\ sequence' = sequence
    BY <1>5, EntriesAreLine DEF Drain
  <2> QED
    BY <2>1, <2>2 DEF Order!ServeAll
<1> QED
  BY <1>1, <1>2, <1>3, <1>4, <1>5 DEF QueueNext, Order!Next

(* Whoever waits is served by priority and, within a priority, in order of *)
(* arrival; nothing else ever leaves; a refused push changes nothing.      *)
THEOREM QueueServesInOrder == QueuesSpec => ServesInOrder
<1>1. QueueSpec => []QueueInv
  BY InitInv, NextInv, PTL DEF QueueSpec
<1>2. QueueSpec => ServesInOrder
  BY <1>1, RefinedInit, RefinedNext, PTL DEF QueueSpec, ServesInOrder, Order!Spec
<1> QED
  BY <1>2, QueueUsed, PTL
-----------------------------------------------------------------------------
(* The heap serves as ServiceOrder promises.                               *)

HeapTuple == [sort : Int, entry : [task : Items, priority : Ranks, sequence : Nat]]

(* The heap is finite, its sort keys are those of its entries, and the     *)
(* sequences tell its entries apart and from those to come.                *)
HeapInv ==
    /\ mode \in {"min", "max"}
    /\ arrived \in Nat
    /\ heap \subseteq HeapTuple /\ IsFiniteSet(heap)
    /\ \A x \in heap : x.sort = SortPriority(x.entry.priority) /\ x.entry.sequence < arrived
    /\ \A x, y \in heap : x.entry.sequence = y.entry.sequence => x = y

(* The heap after its operations. *)
HeapSteps ==
    \/ \E t \in Items, p \in Ranks : HeapPush(t, p)
    \/ HeapPop
    \/ HeapDrain

(* The empty heap satisfies its invariant,                                 *)
LEMMA HeapInitInv == HeapInit => HeapInv
BY FS_EmptySet DEF HeapInit, HeapInv

(* A push adds a tuple of a sequence of its own.                           *)
LEMMA HeapPushInv ==
    ASSUME HeapInv, NEW t \in Items, NEW p \in Ranks, HeapPush(t, p)
    PROVE  HeapInv'
<1> DEFINE entry == [task |-> t, priority |-> p, sequence |-> arrived]
           new == [sort |-> SortPriority(p), entry |-> entry]
<1>1. heap' = heap \cup {new} /\ arrived' = arrived + 1 /\ mode' = mode
  BY DEF HeapPush
<1>2. p \in Int /\ SortPriority(p) \in Int /\ arrived \in Nat
  BY RanksAssumption DEF HeapInv, SortPriority
<1>3. new \in HeapTuple /\ new.entry.sequence = arrived /\ new.entry.priority = p
      /\ new.sort = SortPriority(p)
  BY <1>2 DEF HeapTuple
<1> HIDE DEF new
<1>4. heap' \subseteq HeapTuple /\ IsFiniteSet(heap')
  BY <1>1, <1>3, FS_AddElement DEF HeapInv
<1>5. \A x \in heap : x.entry.sequence \in Nat
  BY DEF HeapInv, HeapTuple
<1>6. \A x \in heap' : /\ x.sort = SortPriority(x.entry.priority)'
                       /\ x.entry.sequence < arrived'
  BY <1>1, <1>2, <1>3, <1>5 DEF HeapInv, SortPriority
<1>7. \A x, y \in heap' : x.entry.sequence = y.entry.sequence => x = y
  BY <1>1, <1>2, <1>3, <1>5 DEF HeapInv
<1> QED
  BY <1>1, <1>2, <1>4, <1>6, <1>7 DEF HeapInv

(* and every step keeps it.                                                *)
LEMMA HeapNextInv == HeapInv /\ [HeapSteps]_heapVars => HeapInv'
<1> SUFFICES ASSUME HeapInv, [HeapSteps]_heapVars PROVE HeapInv'
  OBVIOUS
<1>1. ASSUME UNCHANGED heapVars PROVE HeapInv'
  BY <1>1 DEF heapVars, HeapInv, SortPriority
<1>2. ASSUME HeapPop PROVE HeapInv'
  <2>1. heap' \subseteq heap /\ arrived' = arrived /\ mode' = mode
    BY <1>2 DEF HeapPop
  <2>2. IsFiniteSet(heap')
    BY <2>1, FS_Subset DEF HeapInv
  <2> QED
    BY <2>1, <2>2 DEF HeapInv, SortPriority
<1>3. ASSUME HeapDrain PROVE HeapInv'
  <2>1. heap' = {} /\ arrived' = arrived /\ mode' = mode
    BY <1>3 DEF HeapDrain
  <2> QED
    BY <2>1, FS_EmptySet DEF HeapInv
<1> QED
  BY <1>1, <1>2, <1>3, HeapPushInv DEF HeapSteps

(* What tells the tuples of the heap apart, in plain numbers.              *)
LEMMA HeapFacts ==
    ASSUME HeapInv, NEW x \in heap
    PROVE  /\ x.sort \in Int /\ x.entry.priority \in Int /\ x.entry.sequence \in Nat
           /\ x.sort = IF mode = "max" THEN -x.entry.priority ELSE x.entry.priority
BY RanksAssumption DEF HeapInv, HeapTuple, SortPriority

(* The order of tuples is the order ServiceOrder promises.                 *)
LEMMA LessPrecedes ==
    ASSUME HeapInv, NEW x \in heap, NEW y \in heap
    PROVE  Less(x, y) <=> HeapOrder!Precedes(x.entry, y.entry)
BY HeapFacts DEF Less, HeapOrder!Precedes

(* The tuples on the heap are strictly and totally ordered.                *)
LEMMA LessOrders ==
    ASSUME HeapInv
    PROVE  Orders({p \in heap \X heap : Less(p[1], p[2])}, heap)
<1> DEFINE before == {p \in heap \X heap : Less(p[1], p[2])}
<1>1. \A x, y \in heap : <<x, y>> \in before <=> Less(x, y)
  OBVIOUS
<1> HIDE DEF before
<1>2. \A x \in heap : x.sort \in Int /\ x.entry.sequence \in Nat
  BY HeapFacts
<1>3. \A x \in heap : ~Less(x, x)
  BY <1>2 DEF Less
<1>4. \A x, y, z \in heap : Less(x, y) /\ Less(y, z) => Less(x, z)
  BY <1>2 DEF Less
<1>5. \A x, y \in heap : x # y => Less(x, y) \/ Less(y, x)
  <2> TAKE x, y \in heap
  <2> HAVE x # y
  <2>1. x.entry.sequence # y.entry.sequence
    BY DEF HeapInv
  <2> QED
    BY <1>2, <2>1 DEF Less
<1>6. Orders(before, heap)
  BY <1>1, <1>3, <1>4, <1>5 DEF Orders
<1> QED
  BY <1>6 DEF before

(* The initial states are initial states of the service order.             *)
LEMMA HeapRefinedInit == HeapInit => HeapOrder!Init
BY DEF HeapInit, HeapOrder!Init

(* Every operation on the heap is a step of ServiceOrder.                  *)
LEMMA HeapRefinedNext == HeapInv /\ [HeapSteps]_heapVars => [HeapOrder!Next]_(HeapOrder!vars)
<1> SUFFICES ASSUME HeapInv, [HeapSteps]_heapVars PROVE [HeapOrder!Next]_(HeapOrder!vars)
  OBVIOUS
<1> DEFINE Entries(h) == {x.entry : x \in h}
<1>1. ASSUME UNCHANGED heapVars PROVE UNCHANGED HeapOrder!vars
  BY <1>1 DEF heapVars, HeapOrder!vars
<1>2. ASSUME NEW t \in Items, NEW p \in Ranks, HeapPush(t, p)
      PROVE  HeapOrder!Arrive(t, p)
  <2> DEFINE entry == [task |-> t, priority |-> p, sequence |-> arrived]
             new == [sort |-> SortPriority(p), entry |-> entry]
  <2>1. /\ heap' = heap \cup {new} /\ arrived' = arrived + 1
        /\ mode' = mode /\ taken' = taken /\ new.entry = entry
    BY <1>2 DEF HeapPush
  <2> HIDE DEF new
  <2>2. Entries(heap') = Entries(heap) \cup {entry}
    BY <2>1
  <2> QED
    BY <2>1, <2>2 DEF HeapOrder!Arrive
<1>3. ASSUME HeapPop PROVE HeapOrder!Serve
  <2>1. PICK least \in heap :
            /\ \A other \in heap \ {least} : Less(least, other)
            /\ heap' = heap \ {least}
            /\ taken' = <<least.entry>>
            /\ mode' = mode /\ arrived' = arrived
    BY <1>3 DEF HeapPop
  <2>2. \A x \in heap \ {least} : x.entry # least.entry
    BY DEF HeapInv
  <2>3. Entries(heap') = Entries(heap) \ {least.entry}
    BY <2>1, <2>2
  <2>4. \A f \in Entries(heap) \ {least.entry} : HeapOrder!Precedes(least.entry, f)
    <3> TAKE f \in Entries(heap) \ {least.entry}
    <3>1. PICK y \in heap : y.entry = f /\ y # least
      OBVIOUS
    <3>2. Less(least, y)
      BY <2>1, <3>1
    <3> QED
      BY <3>1, <3>2, LessPrecedes
  <2>5. least.entry \in Entries(heap)
    OBVIOUS
  <2> QED
    BY <2>1, <2>3, <2>4, <2>5 DEF HeapOrder!Serve
<1>4. ASSUME HeapDrain PROVE HeapOrder!ServeAll
  <2> DEFINE before == {p \in heap \X heap : Less(p[1], p[2])}
             popped == Sorted(heap, before)
  <2>1. IsListing(popped, heap, before)
    BY LessOrders, SortedIsSorted DEF HeapInv
  <2>2. /\ taken' = [i \in DOMAIN popped |-> popped[i].entry]
        /\ heap' = {} /\ mode' = mode /\ arrived' = arrived
    BY <1>4 DEF HeapDrain
  <2>3. \A x, y \in heap : <<x, y>> \in before => HeapOrder!Precedes(x.entry, y.entry)
    BY LessPrecedes
  <2> HIDE DEF before, popped
  <2>4. /\ popped \in Seq(heap)
        /\ heap = {popped[i] : i \in 1 .. Len(popped)}
        /\ \A i, j \in 1 .. Len(popped) : i < j => <<popped[i], popped[j]>> \in before
    BY ONLY <2>1, Zenon DEF IsListing
  <2>a. DOMAIN popped = 1 .. Len(popped) /\ Len(popped) \in Nat
        /\ \A i \in 1 .. Len(popped) : popped[i] \in heap
    BY ONLY <2>4
  <2>5. /\ taken' \in Seq(Entries(heap)) /\ Len(taken') = Len(popped)
        /\ \A i \in 1 .. Len(popped) : taken'[i] = popped[i].entry
    <3>1. taken' = [i \in 1 .. Len(popped) |-> popped[i].entry]
      BY <2>2, <2>a
    <3>2. \A i \in 1 .. Len(popped) : popped[i].entry \in Entries(heap)
      BY <2>a
    <3> HIDE DEF Entries
    <3> QED
      BY ONLY <2>a, <3>1, <3>2
  <2>6. Entries(heap) = {taken'[i] : i \in 1 .. Len(taken')}
    <3>1. ASSUME NEW f \in Entries(heap)
          PROVE  \E i \in 1 .. Len(taken') : f = taken'[i]
      <4>1. PICK x \in heap : f = x.entry
        OBVIOUS
      <4>2. PICK i \in 1 .. Len(popped) : x = popped[i]
        BY <2>4
      <4> QED
        BY <2>5, <4>1, <4>2
    <3>2. \A i \in 1 .. Len(taken') : taken'[i] \in Entries(heap)
      BY <2>5, <2>a
    <3> HIDE DEF Entries
    <3> QED
      BY ONLY <3>1, <3>2, Zenon
  <2>7. \A i, j \in 1 .. Len(taken') : i < j => HeapOrder!Precedes(taken'[i], taken'[j])
    BY <2>3, <2>4, <2>5, <2>a
  <2>8. HeapOrder!IsLine(taken')
    BY <2>5, <2>6, <2>7 DEF HeapOrder!IsLine
  <2> QED
    BY <2>2, <2>8 DEF HeapOrder!ServeAll
<1> QED
  BY <1>1, <1>2, <1>3, <1>4 DEF HeapSteps, HeapOrder!Next

(* The priority queue serves whoever waits by priority, largest or         *)
(* smallest first as it was made, and equals in order of arrival, whether  *)
(* they are popped one by one or drained.                                  *)
THEOREM HeapServes == QueuesSpec => HeapServesInOrder
<1>1. QueuesInit => HeapInit
  BY DEF QueuesInit
<1>2. [QueuesNext]_queuesVars => [HeapSteps]_heapVars
  BY SamePushesAssumption DEF QueuesNext, Ordered, Dead, HeapSteps, queuesVars
<1> QED
  BY <1>1, <1>2, HeapInitInv, HeapNextInv, HeapRefinedInit, HeapRefinedNext, PTL
     DEF QueuesSpec, HeapServesInOrder, HeapOrder!Spec
-----------------------------------------------------------------------------
(* The dead letters are filed in order, one per task, and counted.         *)

DeadLetter == [task : DeadIds, reason : Reasons, sequence : Nat]

(* LettersFiled without its roll-up, and the types it needs.               *)
LettersInv ==
    /\ letters \in Seq(DeadLetter)
    /\ filed \in Nat
    /\ \A i, j \in DOMAIN letters :
          i < j => /\ letters[i].sequence < letters[j].sequence
                   /\ letters[i].task # letters[j].task
    /\ \A i \in DOMAIN letters : letters[i].sequence < filed
    /\ Len(letters) <= DeadCapacity

DeadNext == (Dead /\ UNCHANGED <<queueVars, heapVars>>) \/ UNCHANGED deadVars

(* The invariant of the dead letters holds initially,                      *)
LEMMA LettersInit == DeadInit => LettersInv
BY DeadCapacityAssumption DEF DeadInit, LettersInv

(* Filing a letter.                                                        *)
LEMMA RecordInv ==
    ASSUME LettersInv, NEW id \in DeadIds, NEW r \in Reasons, Record(id, r)
    PROVE  LettersInv'
<1> DEFINE new == Letter(id, r)
           l == Len(letters)
<1>1. /\ letters' = Append(letters, new) /\ filed' = filed + 1
      /\ l < DeadCapacity /\ \A i \in DOMAIN letters : letters[i].task # id
  BY DEF Record, Recorded
<1>2. new \in DeadLetter /\ new.sequence = filed /\ new.task = id /\ filed \in Nat
  BY DEF Letter, DeadLetter, LettersInv
<1>3. letters \in Seq(DeadLetter) /\ l \in Nat /\ DOMAIN letters = 1 .. l
  BY DEF LettersInv
<1> HIDE DEF new
<1>4. /\ letters' \in Seq(DeadLetter) /\ DOMAIN letters' = 1 .. l + 1 /\ Len(letters') = l + 1
      /\ letters'[l + 1] = new /\ \A i \in 1 .. l : letters'[i] = letters[i]
  BY <1>1, <1>2, <1>3
<1>5. \A i \in 1 .. l : letters[i].sequence \in Nat /\ letters[i].sequence < filed
  <2>1. \A i \in 1 .. l : letters[i] \in DeadLetter
    BY <1>3
  <2> QED
    BY <1>3, <2>1 DEF LettersInv, DeadLetter
<1>6. \A i \in 1 .. l + 1 : letters'[i].sequence < filed'
  BY <1>1, <1>2, <1>3, <1>4, <1>5
<1>7. ASSUME NEW i \in 1 .. l + 1, NEW j \in 1 .. l + 1, i < j
      PROVE  /\ letters'[i].sequence < letters'[j].sequence
             /\ letters'[i].task # letters'[j].task
  <2>1. CASE j = l + 1
    BY <1>1, <1>2, <1>3, <1>4, <1>5, <1>7, <2>1
  <2>2. CASE j # l + 1
    <3>1. i \in 1 .. l /\ j \in 1 .. l
      BY <1>3, <1>7, <2>2
    <3> QED
      BY <1>3, <1>4, <1>7, <3>1 DEF LettersInv
  <2> QED
    BY <2>1, <2>2
<1>8. filed' \in Nat /\ l + 1 <= DeadCapacity
  BY <1>1, <1>2, <1>3, DeadCapacityAssumption
<1> QED
  BY <1>4, <1>6, <1>7, <1>8 DEF LettersInv

(* Taking one out leaves the others in order.                              *)
LEMMA RemoveInv ==
    ASSUME LettersInv, NEW id, RemoveLetter(id)
    PROVE  LettersInv'
<1> DEFINE l == Len(letters)
<1>1. letters \in Seq(DeadLetter) /\ l \in Nat /\ DOMAIN letters = 1 .. l
  BY DEF LettersInv
<1>2. PICK n \in 1 .. l :
          letters' = SubSeq(letters, 1, n - 1) \o SubSeq(letters, n + 1, Len(letters))
  BY <1>1 DEF RemoveLetter, S!RemoveAt
<1>3. filed' = filed
  BY DEF RemoveLetter
<1>4. /\ letters' \in Seq(DeadLetter) /\ Len(letters') = l - 1
      /\ \A i \in 1 .. l - 1 : letters'[i] = letters[IF i < n THEN i ELSE i + 1]
  BY <1>1, <1>2, RemovedElements, ZenonT(30)
<1>5. DOMAIN letters' = 1 .. l - 1
  BY <1>1, <1>4
<1> DEFINE from(i) == IF i < n THEN i ELSE i + 1
<1>6. \A i, j \in 1 .. l - 1 : from(i) \in 1 .. l /\ (i < j => from(i) < from(j))
  BY <1>1
<1>7. \A i \in 1 .. l - 1 : letters'[i] = letters[from(i)]
  BY <1>4
<1> HIDE DEF from
<1>8. \A i \in DOMAIN letters' : letters'[i].sequence < filed'
  BY <1>1, <1>3, <1>5, <1>6, <1>7 DEF LettersInv
<1>9. \A i, j \in DOMAIN letters' :
          i < j => /\ letters'[i].sequence < letters'[j].sequence
                   /\ letters'[i].task # letters'[j].task
  BY <1>1, <1>5, <1>6, <1>7 DEF LettersInv
<1>10. l - 1 <= DeadCapacity
  BY <1>1, DeadCapacityAssumption DEF LettersInv
<1> QED
  BY <1>3, <1>4, <1>8, <1>9, <1>10 DEF LettersInv

(* and every step keeps it.                                                *)
LEMMA LettersNext == LettersInv /\ DeadNext => LettersInv'
<1> SUFFICES ASSUME LettersInv, DeadNext PROVE LettersInv'
  OBVIOUS
<1>1. ASSUME UNCHANGED deadVars PROVE LettersInv'
  BY <1>1 DEF deadVars, LettersInv
<1>2. ASSUME NEW id \in DeadIds, RecordRefused(id) PROVE LettersInv'
  BY <1>1, <1>2 DEF RecordRefused
<1>3. ASSUME DrainLetters PROVE LettersInv'
  BY <1>3, DeadCapacityAssumption DEF DrainLetters, LettersInv
<1> QED
  BY <1>1, <1>2, <1>3, RecordInv, RemoveInv DEF DeadNext, Dead

(* The roll-up counts every letter once, under its reason.                 *)
LEMMA RollUp ==
    ASSUME LettersInv
    PROVE  Sum([k \in DOMAIN ReasonCounts |-> ReasonCounts[k].count]) = Len(letters)
<1> DEFINE D == 1 .. Len(letters)
           group(r) == {i \in D : letters[i].reason = r}
           pair == [i \in D |-> [reason |-> letters[i].reason,
                                 count |-> Cardinality(group(letters[i].reason))]]
           pairs == {pair[i] : i \in D}
           before == {p \in pairs \X pairs :
                         \/ p[1].count > p[2].count
                         \/ p[1].count = p[2].count /\ p[1].reason < p[2].reason}
           line == Sorted(pairs, before)
<1>1. /\ DOMAIN letters = D /\ Len(letters) \in Nat /\ IsFiniteSet(D)
      /\ Cardinality(D) = Len(letters)
  <2>1. DOMAIN letters = D /\ Len(letters) \in Nat
    BY DEF LettersInv
  <2>2. IsFiniteSet(1 .. Len(letters))
        /\ Cardinality(1 .. Len(letters)) = IF 1 > Len(letters) THEN 0 ELSE Len(letters) - 1 + 1
    BY <2>1, FS_Interval
  <2> QED
    BY <2>1, <2>2
<1>2. ReasonCounts = line
  <2>1. pairs = {[reason |-> letters[i].reason,
                  count |-> Cardinality({j \in DOMAIN letters :
                                            letters[j].reason = letters[i].reason})] :
                    i \in DOMAIN letters}
    BY <1>1
  <2> QED
    BY <2>1, Zenon DEF ReasonCounts
<1>3. \A r : IsFiniteSet(group(r)) /\ Cardinality(group(r)) \in Nat
  <2> TAKE r
  <2>1. group(r) \subseteq D
    OBVIOUS
  <2> HIDE DEF group, D
  <2> QED
    BY <1>1, <2>1, FS_Subset, FS_CardinalityType
<1>4. \A i \in D : letters[i].reason \in Int
  <2>1. \A i \in D : letters[i] \in DeadLetter
    BY <1>1 DEF LettersInv
  <2> QED
    BY <2>1, ReasonsAssumption DEF DeadLetter
<1>5. \A i \in D : /\ pair[i].reason = letters[i].reason
                   /\ pair[i].count = Cardinality(group(letters[i].reason))
                   /\ pair[i] = [reason |-> pair[i].reason, count |-> pair[i].count]
  OBVIOUS
<1> HIDE DEF group, pair, D
<1>6. \A p \in pairs : /\ p.reason \in Int /\ p.count \in Nat
                       /\ p.count = Cardinality(group(p.reason))
                       /\ p = [reason |-> p.reason, count |-> p.count]
  BY <1>3, <1>4, <1>5
<1>7. \A p, q \in pairs : p.reason = q.reason => p = q
  BY <1>6, Zenon
<1>8. IsFiniteSet(pairs)
  BY <1>1, FiniteImage
<1>9. \A p, q \in pairs : <<p, q>> \in before <=>
          p.count > q.count \/ (p.count = q.count /\ p.reason < q.reason)
  OBVIOUS
<1>10. /\ \A i \in D : pair[i] \in pairs
       /\ \A p \in pairs : \E i \in D : p = pair[i]
  OBVIOUS
<1> HIDE DEF pairs, before
<1>11. Orders(before, pairs)
  BY <1>6, <1>7, <1>9 DEF Orders
<1>12. IsListing(line, pairs, before)
  BY <1>8, <1>11, SortedIsSorted
<1> HIDE DEF line
<1>13. /\ Len(line) \in Nat /\ DOMAIN line = 1 .. Len(line)
       /\ \A k \in 1 .. Len(line) : line[k] \in pairs
       /\ \A j, k \in 1 .. Len(line) : j # k => line[j] # line[k]
  BY <1>11, <1>12, SortedDiffers
<1>14. \A p \in pairs : \E k \in 1 .. Len(line) : p = line[k]
  <2>1. pairs = {line[k] : k \in 1 .. Len(line)}
    BY <1>12 DEF IsListing
  <2> QED
    BY <2>1
<1> DEFINE counts == [k \in DOMAIN line |-> line[k].count]
           part == [k \in 1 .. Len(line) |-> group(line[k].reason)]
<1>15. /\ counts \in Seq(Nat) /\ Len(counts) = Len(line)
       /\ \A k \in 1 .. Len(line) : counts[k] = line[k].count
  <2>1. \A k \in 1 .. Len(line) : line[k].count \in Nat
    BY <1>6, <1>13
  <2>2. counts = [k \in 1 .. Len(line) |-> line[k].count]
    BY <1>13
  <2> QED
    BY <1>13, <2>1, <2>2
<1>16. \A k \in 1 .. Len(line) : IsFiniteSet(part[k]) /\ Cardinality(part[k]) = counts[k]
  BY <1>3, <1>6, <1>13, <1>15
<1>17. \A j, k \in 1 .. Len(line) : j # k => part[j] \cap part[k] = {}
  <2> TAKE j, k \in 1 .. Len(line)
  <2> HAVE j # k
  <2>1. line[j].reason # line[k].reason
    BY <1>7, <1>13
  <2> QED
    BY <2>1 DEF group
<1>18. AllParts(part, Len(line)) = D
  <2>1. \A k \in 1 .. Len(line) : part[k] \subseteq D
    BY DEF group
  <2>2. ASSUME NEW i \in D
        PROVE  \E k \in 1 .. Len(line) : i \in part[k]
    <3>1. PICK k \in 1 .. Len(line) : pair[i] = line[k]
      BY <1>10, <1>14
    <3>2. line[k].reason = letters[i].reason
      BY <1>5, <3>1
    <3> QED
      BY <3>2 DEF group
  <2> QED
    BY <2>1, <2>2 DEF AllParts
<1> HIDE DEF counts, part
<1>19. Sum(counts) = Cardinality(AllParts(part, Len(counts)))
  <2>1. \A k \in 1 .. Len(counts) : IsFiniteSet(part[k]) /\ Cardinality(part[k]) = counts[k]
    BY <1>15, <1>16
  <2>2. \A j, k \in 1 .. Len(counts) : j # k => part[j] \cap part[k] = {}
    BY <1>15, <1>17
  <2>3. CountsParts(counts, part)
    BY <2>1, <2>2 DEF CountsParts
  <2> QED
    BY <1>15, <2>3, SumOfParts
<1>20. Sum(counts) = Len(letters)
  BY <1>1, <1>15, <1>18, <1>19
<1> QED
  BY <1>2, <1>20 DEF counts

(* The dead letters are in the order they were filed, one per task, no     *)
(* more than the capacity, and reason_counts counts each of them once.     *)
THEOREM LettersStayFiled == QueuesSpec => []LettersFiled
<1>1. QueuesInit => LettersInv
  BY LettersInit DEF QueuesInit
<1>2. [QueuesNext]_queuesVars => DeadNext
  BY DEF QueuesNext, queuesVars, DeadNext
<1>3. LettersInv => LettersFiled
  BY RollUp DEF LettersInv, LettersFiled
<1> QED
  BY <1>1, <1>2, <1>3, LettersNext, PTL DEF QueuesSpec


-----------------------------------------------------------------------------
(* Batches.                                                                *)

Chunks == [closed : Seq(Seq(QueuedTask)), items : Seq(QueuedTask), size : Int]

Start == [closed |-> << >>, items |-> << >>, size |-> 0]

(* All batches of a chunk, the open one with them. *)
AllOf(chunk) == IF chunk.items = << >> THEN chunk.closed ELSE Append(chunk.closed, chunk.items)

SizeLimits == [count : {Unlimited} \cup (Nat \ {0}), size : {Unlimited} \cup Nat]

(* The limits that are tried are limits.                                   *)
LEMMA LimitsTyped == LimitPairs \subseteq SizeLimits
BY CapacityAssumption DEF LimitPairs, SizeLimits, Unlimited

(* What placing one entry makes of a chunk.                                *)
LEMMA PlacedParts ==
    ASSUME NEW chunk \in Chunks, NEW e \in QueuedTask, NEW limits \in SizeLimits
    PROVE  LET new == Placed(chunk, e, SizeOf(e, limits), limits)
               size == SizeOf(e, limits)
           IN  /\ new \in Chunks /\ size \in Int
               /\ Breaks(chunk, size, limits) =>
                     /\ new.closed = Append(chunk.closed, chunk.items)
                     /\ new.items = <<e>> /\ new.size = size
               /\ ~Breaks(chunk, size, limits) =>
                     /\ new.closed = chunk.closed
                     /\ new.items = Append(chunk.items, e) /\ new.size = chunk.size + size
<1> DEFINE size == SizeOf(e, limits)
           new == Placed(chunk, e, size, limits)
<1>1. size \in Int
  BY KeyTyped DEF SizeOf
<1>2. chunk.closed \in Seq(Seq(QueuedTask)) /\ chunk.items \in Seq(QueuedTask) /\ chunk.size \in Int
      /\ chunk = [closed |-> chunk.closed, items |-> chunk.items, size |-> chunk.size]
  BY DEF Chunks
<1>3. /\ Append(chunk.closed, chunk.items) \in Seq(Seq(QueuedTask))
      /\ <<e>> \in Seq(QueuedTask) /\ Append(chunk.items, e) \in Seq(QueuedTask)
      /\ chunk.size + size \in Int
  BY <1>1, <1>2
<1> HIDE DEF size
<1>4. CASE Breaks(chunk, size, limits)
  <2>1. new = [closed |-> Append(chunk.closed, chunk.items), items |-> <<e>>, size |-> size]
    BY <1>4 DEF Placed
  <2>2. new \in Chunks
    BY <1>1, <1>3, <2>1 DEF Chunks
  <2> QED
    BY <1>1, <1>4, <2>1, <2>2 DEF size
<1>5. CASE ~Breaks(chunk, size, limits)
  <2>1. new = [chunk EXCEPT !.items = Append(@, e), !.size = @ + size]
    BY <1>5 DEF Placed
  <2>2. new = [closed |-> chunk.closed, items |-> Append(chunk.items, e), size |-> chunk.size + size]
    BY <1>2, <2>1
  <2>3. new \in Chunks
    BY <1>2, <1>3, <2>2 DEF Chunks
  <2> QED
    BY <1>1, <1>5, <2>2, <2>3 DEF size
<1> QED
  BY <1>4, <1>5

(* The loop of Batches.                                                    *)
Placing(items, limits, l) ==
    [p \in (1 .. l) \X Chunks |->
        Placed(p[2], items[p[1]], SizeOf(items[p[1]], limits), limits)]

Batching(f, items, limits) ==
    f = [n \in 0 .. Len(items) |->
            IF n = 0 THEN [closed |-> << >>, items |-> << >>, size |-> 0]
            ELSE Placed(f[n - 1], items[n], SizeOf(items[n], limits), limits)]

(* f[n] are the chunks after n of the items. *)
Chunked(f, items, limits) ==
    /\ f[0] = Start
    /\ \A n \in 0 .. Len(items) : f[n] \in Chunks
    /\ \A n \in 1 .. Len(items) :
          f[n] = Placed(f[n - 1], items[n], SizeOf(items[n], limits), limits)

(* Batches are what the loop over the entries ends with.                   *)
LEMMA BatchesAre ==
    ASSUME NEW items \in Seq(QueuedTask), NEW limits \in SizeLimits
    PROVE  \E f : Chunked(f, items, limits) /\ Batches(items, limits) = AllOf(f[Len(items)])
<1> DEFINE l == Len(items)
           step == Placing(items, limits, l)
           after == CHOOSE f : Batching(f, items, limits)
<1>1. l \in Nat /\ \A n \in 1 .. l : items[n] \in QueuedTask
  OBVIOUS
<1>2. Start \in Chunks
  BY DEF Start, Chunks
<1>3. TurnsOf(step, Chunks, l)
  <2>1. ASSUME NEW p \in (1 .. l) \X Chunks
        PROVE  Placed(p[2], items[p[1]], SizeOf(items[p[1]], limits), limits) \in Chunks
    <3>1. p[2] \in Chunks /\ items[p[1]] \in QueuedTask
      BY <1>1
    <3> QED
      BY <3>1, PlacedParts
  <2> QED
    BY <2>1 DEF TurnsOf, Placing
<1>4. ASSUME NEW n \in 1 .. l, NEW y \in Chunks
      PROVE  step[<<n, y>>] = Placed(y, items[n], SizeOf(items[n], limits), limits)
  <2>1. <<n, y>> \in (1 .. l) \X Chunks /\ <<n, y>>[1] = n /\ <<n, y>>[2] = y
    OBVIOUS
  <2> QED
    BY <2>1 DEF Placing
<1> HIDE DEF step, l
<1>5. PICK f \in [0 .. l -> Chunks] : Steps(f, Start, step, Chunks, l)
  BY <1>1, <1>2, <1>3, StepsExist
<1>6. Batching(f, items, limits)
  <2>1. ASSUME NEW n \in 0 .. l
        PROVE  f[n] = IF n = 0 THEN Start
                      ELSE Placed(f[n - 1], items[n], SizeOf(items[n], limits), limits)
    <3>1. CASE n = 0
      BY <1>5, <3>1 DEF Steps
    <3>2. CASE n # 0
      <4>1. n \in 1 .. l /\ n - 1 \in 0 .. l
        BY <1>1, <3>2
      <4>2. f[n - 1] \in Chunks
        BY <4>1
      <4> QED
        BY <1>4, <1>5, <3>2, <4>1, <4>2 DEF Steps
    <3> QED
      BY <3>1, <3>2
  <2>2. f = [n \in 0 .. l |-> f[n]]
    OBVIOUS
  <2>3. f = [n \in 0 .. l |-> IF n = 0 THEN Start
                              ELSE Placed(f[n - 1], items[n], SizeOf(items[n], limits), limits)]
    BY <2>1, <2>2
  <2> QED
    BY <2>3 DEF Batching, Start, l
<1>7. Batching(after, items, limits)
  BY <1>6, Zenon
<1>8. Batches(items, limits) = AllOf(after[l])
  BY Zenon DEF Batches, Batching, AllOf, l
<1> HIDE DEF after
<1>9. \A n \in 0 .. l : after[n] = IF n = 0 THEN Start
                                   ELSE Placed(after[n - 1], items[n], SizeOf(items[n], limits), limits)
  BY <1>7 DEF Batching, Start, l
<1>10. Steps(after, Start, step, Chunks, l)
  <2>1. after[0] = Start
    BY <1>1, <1>9
  <2>2. ASSUME NEW n \in 1 .. l, after[n - 1] \in Chunks
        PROVE  after[n] = step[<<n, after[n - 1]>>]
    <3>1. n \in 0 .. l /\ n # 0
      BY <1>1
    <3> QED
      BY <1>4, <1>9, <2>2, <3>1
  <2> QED
    BY <2>1, <2>2 DEF Steps
<1>11. \A n \in 0 .. l : after[n] \in Chunks
  BY <1>1, <1>2, <1>3, <1>10, StepsUnique
<1>12. \A n \in 1 .. l : n \in 0 .. l /\ n # 0
  BY <1>1
<1>13. Chunked(after, items, limits)
  BY <1>1, <1>9, <1>11, <1>12 DEF Chunked, l
<1> QED
  BY <1>8, <1>13 DEF l

(* The sizes of a batch add up.                                            *)
LEMMA TotalSizeAppend ==
    ASSUME NEW items \in Seq(QueuedTask), NEW e \in QueuedTask
    PROVE  /\ TotalSize(items) \in Int
           /\ TotalSize(Append(items, e)) = TotalSize(items) + e.priority
           /\ TotalSize(<<e>>) = e.priority
<1> DEFINE l == Len(items)
           more == Append(items, e)
           sizes == [k \in DOMAIN items |-> items[k].priority]
           grown == [k \in DOMAIN more |-> more[k].priority]
           none == [k \in 1 .. 0 |-> 0]
           one == [k \in DOMAIN <<e>> |-> <<e>>[k].priority]
<1>1. l \in Nat /\ DOMAIN items = 1 .. l /\ \A k \in 1 .. l : items[k] \in QueuedTask
  OBVIOUS
<1>2. DOMAIN more = 1 .. l + 1 /\ more[l + 1] = e /\ \A k \in 1 .. l : more[k] = items[k]
  OBVIOUS
<1>3. \A k \in 1 .. l : items[k].priority \in Int
  BY <1>1, KeyTyped
<1>4. e.priority \in Int
  BY KeyTyped
<1>5. sizes \in [1 .. l -> Int]
  BY <1>1, <1>3
<1>6. sizes \in Seq(Int) /\ Len(sizes) = l
  BY <1>1, <1>5
<1>7. grown = Append(sizes, e.priority)
  <2> HIDE DEF more, l
  <2>1. grown = [k \in 1 .. l + 1 |-> more[k].priority]
    BY <1>2
  <2>2. \A k \in 1 .. l : k \in 1 .. l + 1 /\ k # l + 1 /\ more[k].priority = sizes[k]
    BY <1>1, <1>2
  <2>3. \A k \in 1 .. l + 1 : more[k].priority = IF k = l + 1 THEN e.priority ELSE sizes[k]
    BY <1>1, <1>2, <2>2
  <2>4. Append(sizes, e.priority) = [k \in 1 .. l + 1 |-> IF k = l + 1 THEN e.priority ELSE sizes[k]]
    <3> HIDE DEF sizes
    <3> QED
      BY <1>1, <1>4, <1>6
  <2> QED
    BY <2>1, <2>3, <2>4
<1>8. one = Append(<< >>, e.priority)
  OBVIOUS
<1>9. Sum(sizes) \in Int /\ Sum(<< >>) = 0
  BY <1>6, SumTyped
<1>10. Sum(Append(sizes, e.priority)) = Sum(sizes) + e.priority
  BY <1>4, <1>6, SumAppend
<1>11. Sum(Append(<< >>, e.priority)) = Sum(<< >>) + e.priority
  <2>1. << >> \in Seq(Int)
    OBVIOUS
  <2> QED
    BY <1>4, <2>1, SumAppend
<1> HIDE DEF sizes, grown, one
<1>12. TotalSize(items) = Sum(sizes) /\ TotalSize(more) = Sum(grown) /\ TotalSize(<<e>>) = Sum(one)
  BY DEF TotalSize, sizes, grown, one
<1> QED
  BY <1>4, <1>7, <1>8, <1>9, <1>10, <1>11, <1>12 DEF more

(* batches are what BatchesRight asks, apart from what they hold.          *)
GoodBatches(batches, limits) ==
    \A i \in 1 .. Len(batches) :
        /\ batches[i] # << >>
        /\ Fits(batches[i], limits) \/ Len(batches[i]) = 1
        /\ i > 1 => ~Fits(Append(batches[i - 1], Head(batches[i])), limits)

(* A chunk after the entries of one prefix of the list.                    *)
ChunkOk(chunk, prefix, limits) ==
    /\ chunk \in Chunks
    /\ limits.size # Unlimited => chunk.size = TotalSize(chunk.items)
    /\ chunk.items = << >> => chunk.closed = << >>
    /\ Joined(chunk.closed) \o chunk.items = prefix
    /\ GoodBatches(AllOf(chunk), limits)

(* Before the first entry nothing is batched,                              *)
LEMMA StartOk ==
    ASSUME NEW limits
    PROVE  ChunkOk(Start, << >>, limits)
<1> DEFINE none == [k \in 1 .. 0 |-> 0]
<1>1. Start.closed = << >> /\ Start.items = << >> /\ Start.size = 0 /\ Start \in Chunks
  BY DEF Start, Chunks
<1>2. TotalSize(<< >>) = 0
  <2>1. [k \in DOMAIN << >> |-> << >>[k].priority] = << >>
    OBVIOUS
  <2> QED
    BY <2>1, SumTyped DEF TotalSize
<1>3. AllOf(Start) = << >>
  BY <1>1 DEF AllOf
<1>4. GoodBatches(AllOf(Start), limits)
  BY <1>3 DEF GoodBatches
<1>5. Joined(Start.closed) \o Start.items = << >>
  BY <1>1, JoinedNone
<1> QED
  BY <1>1, <1>2, <1>4, <1>5 DEF ChunkOk

(* Batches that stay good when the last one is replaced, or one is added.  *)
LEMMA GoodGrow ==
    ASSUME NEW closed \in Seq(Seq(QueuedTask)), NEW b \in Seq(QueuedTask), b # << >>,
           NEW e \in QueuedTask, NEW limits, GoodBatches(Append(closed, b), limits)
    PROVE  /\ Fits(Append(b, e), limits) => GoodBatches(Append(closed, Append(b, e)), limits)
           /\ ~Fits(Append(b, e), limits) =>
                 GoodBatches(Append(Append(closed, b), <<e>>), limits)
<1> DEFINE l == Len(closed)
           old == Append(closed, b)
           c == Append(b, e)
           grown == Append(closed, c)
           more == Append(old, <<e>>)
<1>1. /\ l \in Nat /\ Len(old) = l + 1 /\ old[l + 1] = b
      /\ \A i \in 1 .. l : old[i] = closed[i]
  OBVIOUS
<1>2. c \in Seq(QueuedTask) /\ c # << >> /\ Head(c) = Head(b)
  OBVIOUS
<1>3. old \in Seq(Seq(QueuedTask)) /\ <<e>> \in Seq(QueuedTask)
      /\ <<e>> # << >> /\ Head(<<e>>) = e /\ Len(<<e>>) = 1
  OBVIOUS
<1> HIDE DEF c
<1>4. Len(grown) = l + 1 /\ grown[l + 1] = c /\ \A i \in 1 .. l : grown[i] = closed[i]
  BY <1>2
<1>5. Len(more) = l + 2 /\ more[l + 2] = <<e>> /\ \A i \in 1 .. l + 1 : more[i] = old[i]
  <2> HIDE DEF old
  <2> QED
    BY <1>1, <1>3
<1> HIDE DEF old, grown, more, l
<1>6. \A i \in 1 .. l + 1 :
        /\ old[i] # << >>
        /\ Fits(old[i], limits) \/ Len(old[i]) = 1
        /\ i > 1 => ~Fits(Append(old[i - 1], Head(old[i])), limits)
  BY <1>1 DEF GoodBatches, old
<1>7. ASSUME Fits(c, limits)
      PROVE  GoodBatches(grown, limits)
  <2>1. ASSUME NEW i \in 1 .. l + 1
        PROVE  /\ grown[i] # << >>
               /\ Fits(grown[i], limits) \/ Len(grown[i]) = 1
               /\ i > 1 => ~Fits(Append(grown[i - 1], Head(grown[i])), limits)
    <3>1. i > 1 => i - 1 \in 1 .. l
      BY <1>1
    <3>2. i > 1 => grown[i - 1] = old[i - 1]
      BY <1>1, <1>4, <3>1
    <3>3. CASE i \in 1 .. l
      <4>1. grown[i] = old[i]
        BY <1>1, <1>4, <3>3
      <4> QED
        BY <1>6, <3>2, <4>1
    <3>4. CASE i = l + 1
      <4>1. grown[i] = c /\ Head(old[i]) = Head(c)
        BY <1>1, <1>2, <1>4, <3>4
      <4> QED
        BY <1>2, <1>6, <1>7, <3>2, <4>1
    <3> QED
      BY <1>1, <3>3, <3>4
  <2> QED
    BY <1>4, <2>1 DEF GoodBatches
<1>8. ASSUME ~Fits(c, limits)
      PROVE  GoodBatches(more, limits)
  <2>1. ASSUME NEW i \in 1 .. l + 2
        PROVE  /\ more[i] # << >>
               /\ Fits(more[i], limits) \/ Len(more[i]) = 1
               /\ i > 1 => ~Fits(Append(more[i - 1], Head(more[i])), limits)
    <3>1. i > 1 => i - 1 \in 1 .. l + 1
      BY <1>1
    <3>2. i > 1 => more[i - 1] = old[i - 1]
      BY <1>5, <3>1
    <3>3. CASE i \in 1 .. l + 1
      <4>1. more[i] = old[i]
        BY <1>5, <3>3
      <4> QED
        BY <1>6, <3>2, <3>3, <4>1
    <3>4. CASE i = l + 2
      <4>1. more[i] = <<e>> /\ i - 1 = l + 1
        BY <1>1, <1>5, <3>4
      <4>2. old[i - 1] = b
        BY <1>1, <4>1
      <4>3. i > 1 => Append(more[i - 1], Head(more[i])) = c
        BY <1>3, <3>2, <4>1, <4>2 DEF c
      <4> QED
        BY <1>3, <1>8, <4>1, <4>3
    <3> QED
      BY <1>1, <3>3, <3>4
  <2> QED
    BY <1>5, <2>1 DEF GoodBatches
<1> QED
  BY <1>7, <1>8 DEF c, old, grown, more

(* The size that counts is the size that Fits adds up.                     *)
LEMMA BreaksUnlessFits ==
    ASSUME NEW chunk \in Chunks, NEW e \in QueuedTask, NEW limits \in SizeLimits,
           chunk.items # << >>, limits.size # Unlimited => chunk.size = TotalSize(chunk.items)
    PROVE  Breaks(chunk, SizeOf(e, limits), limits) <=> ~Fits(Append(chunk.items, e), limits)
<1> DEFINE items == chunk.items
           l == Len(items)
<1>1. items \in Seq(QueuedTask) /\ l \in Nat /\ Len(Append(items, e)) = l + 1
  BY DEF Chunks
<1>2. TotalSize(Append(items, e)) = TotalSize(items) + e.priority
  BY <1>1, TotalSizeAppend
<1>3. (limits.count # Unlimited => limits.count \in Nat) /\ (limits.size # Unlimited => limits.size \in Nat)
  BY DEF SizeLimits
<1>4. e.priority \in Int /\ TotalSize(items) \in Int
  BY <1>1, KeyTyped, TotalSizeAppend
<1>5. Fits(Append(items, e), limits) <=>
        /\ limits.count # Unlimited => l + 1 <= limits.count
        /\ limits.size # Unlimited => TotalSize(items) + e.priority <= limits.size
  BY <1>1, <1>2 DEF Fits
<1>6. Breaks(chunk, SizeOf(e, limits), limits) <=>
        \/ limits.count # Unlimited /\ l >= limits.count
        \/ limits.size # Unlimited /\ chunk.size + SizeOf(e, limits) > limits.size
  BY DEF Breaks
<1>7. limits.size # Unlimited =>
        SizeOf(e, limits) = e.priority /\ chunk.size = TotalSize(items)
  BY DEF SizeOf
<1> HIDE DEF l, items
<1>8. (limits.count # Unlimited /\ l >= limits.count) <=>
        ~(limits.count # Unlimited => l + 1 <= limits.count)
  BY <1>1, <1>3
<1>9. (limits.size # Unlimited /\ chunk.size + SizeOf(e, limits) > limits.size) <=>
        ~(limits.size # Unlimited => TotalSize(items) + e.priority <= limits.size)
  BY <1>3, <1>4, <1>7
<1> QED
  BY <1>5, <1>6, <1>8, <1>9, Zenon DEF items

(* and an entry more keeps the batches good.                               *)
LEMMA ChunkStep ==
    ASSUME NEW chunk, NEW prefix \in Seq(QueuedTask), NEW limits \in SizeLimits,
           ChunkOk(chunk, prefix, limits), NEW e \in QueuedTask
    PROVE  ChunkOk(Placed(chunk, e, SizeOf(e, limits), limits), Append(prefix, e), limits)
<1> DEFINE size == SizeOf(e, limits)
           new == Placed(chunk, e, size, limits)
<1>1. /\ chunk \in Chunks
      /\ limits.size # Unlimited => chunk.size = TotalSize(chunk.items)
      /\ chunk.items = << >> => chunk.closed = << >>
      /\ Joined(chunk.closed) \o chunk.items = prefix
      /\ GoodBatches(AllOf(chunk), limits)
  BY DEF ChunkOk
<1>2. chunk.closed \in Seq(Seq(QueuedTask)) /\ chunk.items \in Seq(QueuedTask)
  BY <1>1 DEF Chunks
<1>3. Joined(chunk.closed) \in Seq(QueuedTask)
      /\ Joined(Append(chunk.closed, chunk.items)) = Joined(chunk.closed) \o chunk.items
  BY <1>2, JoinedAppend
<1>4. /\ new \in Chunks /\ size \in Int
      /\ Breaks(chunk, size, limits) =>
            /\ new.closed = Append(chunk.closed, chunk.items)
            /\ new.items = <<e>> /\ new.size = size
      /\ ~Breaks(chunk, size, limits) =>
            /\ new.closed = chunk.closed
            /\ new.items = Append(chunk.items, e) /\ new.size = chunk.size + size
  BY <1>1, PlacedParts
<1>5. limits.size # Unlimited => size = e.priority
  BY DEF SizeOf
<1>6. TotalSize(<<e>>) = e.priority
      /\ TotalSize(Append(chunk.items, e)) = TotalSize(chunk.items) + e.priority
  BY <1>2, TotalSizeAppend
<1>7. <<e>> # << >> /\ Append(chunk.items, e) # << >>
  BY <1>2
<1>8. Breaks(chunk, size, limits) => chunk.items # << >>
  BY DEF Breaks
<1> HIDE DEF new
<1>9. limits.size # Unlimited => new.size = TotalSize(new.items)
  BY <1>1, <1>4, <1>5, <1>6
<1>10. new.items # << >>
  BY <1>4, <1>7
<1>11. Joined(new.closed) \o new.items = Append(prefix, e)
  <2>1. CASE Breaks(chunk, size, limits)
    <3>1. Joined(new.closed) = prefix /\ new.items = <<e>>
      BY <1>1, <1>3, <1>4, <2>1
    <3> QED
      BY <3>1
  <2>2. CASE ~Breaks(chunk, size, limits)
    <3>1. new.closed = chunk.closed /\ new.items = Append(chunk.items, e)
      BY <1>4, <2>2
    <3> DEFINE j == Joined(chunk.closed)
               items == chunk.items
    <3>2. j \in Seq(QueuedTask) /\ items \in Seq(QueuedTask)
      BY <1>2, <1>3
    <3> HIDE DEF j, items
    <3>3. j \o Append(items, e) = Append(j \o items, e)
      BY <3>2
    <3> QED
      BY <1>1, <3>1, <3>3 DEF j, items
  <2> QED
    BY <2>1, <2>2
<1>12. AllOf(new) = Append(new.closed, new.items)
  BY <1>10 DEF AllOf
<1>13. GoodBatches(AllOf(new), limits)
  <2>1. CASE chunk.items = << >>
    <3>1. new.closed = << >> /\ new.items = Append(<< >>, e)
      BY <1>1, <1>4, <1>8, <2>1
    <3>2. AllOf(new) = << <<e>> >>
      BY <1>12, <3>1
    <3> DEFINE b == AllOf(new)
    <3>3. Len(b) = 1 /\ b[1] = <<e>> /\ Len(<<e>>) = 1
      BY <3>2
    <3> HIDE DEF b
    <3>4. ASSUME NEW i \in 1 .. Len(b)
          PROVE  b[i] = <<e>> /\ ~(i > 1)
      <4>1. i = 1
        BY <3>3
      <4> QED
        BY <3>3, <4>1
    <3>5. GoodBatches(b, limits)
      BY <1>7, <3>3, <3>4 DEF GoodBatches
    <3> QED
      BY <3>5 DEF b
  <2>2. CASE chunk.items # << >>
    <3>1. Breaks(chunk, size, limits) <=> ~Fits(Append(chunk.items, e), limits)
      BY <1>1, <2>2, BreaksUnlessFits
    <3>2. GoodBatches(Append(chunk.closed, chunk.items), limits)
      BY <1>1, <2>2 DEF AllOf
    <3>3. /\ Fits(Append(chunk.items, e), limits) =>
                GoodBatches(Append(chunk.closed, Append(chunk.items, e)), limits)
          /\ ~Fits(Append(chunk.items, e), limits) =>
                GoodBatches(Append(Append(chunk.closed, chunk.items), <<e>>), limits)
      BY <1>2, <2>2, <3>2, GoodGrow
    <3> QED
      BY <1>4, <1>12, <3>1, <3>3, Zenon
  <2> QED
    BY <2>1, <2>2
<1> QED
  BY <1>4, <1>9, <1>10, <1>11, <1>13 DEF ChunkOk, new, size

(* Chunking a list of queued tasks, within any limits.                     *)
LEMMA BatchesGood ==
    ASSUME NEW items \in Seq(QueuedTask), NEW limits \in SizeLimits
    PROVE  /\ Joined(Batches(items, limits)) = items
           /\ GoodBatches(Batches(items, limits), limits)
           /\ Batches(items, limits) \in Seq(Seq(QueuedTask))
<1> DEFINE l == Len(items)
           first(n) == [k \in 1 .. n |-> items[k]]
<1>1. PICK f : Chunked(f, items, limits) /\ Batches(items, limits) = AllOf(f[l])
  BY BatchesAre
<1>2. l \in Nat /\ (\A n \in 1 .. l : items[n] \in QueuedTask) /\ items = [k \in 1 .. l |-> items[k]]
  OBVIOUS
<1>3. /\ f[0] = Start
      /\ \A n \in 1 .. l :
            f[n] = Placed(f[n - 1], items[n], SizeOf(items[n], limits), limits)
  BY <1>1 DEF Chunked
<1> DEFINE T == {n \in Nat : n <= l => ChunkOk(f[n], first(n), limits)}
<1> HIDE DEF l
<1>4. 0 \in T
  <2>1. first(0) = << >>
    OBVIOUS
  <2> QED
    BY <1>3, <2>1, StartOk
<1>5. ASSUME NEW n \in T
      PROVE  n + 1 \in T
  <2>1. n \in Nat /\ n + 1 \in Nat /\ (n + 1) - 1 = n
    OBVIOUS
  <2>2. ASSUME n + 1 <= l
        PROVE  ChunkOk(f[n + 1], first(n + 1), limits)
    <3>1. n + 1 \in 1 .. l /\ n <= l
      BY <1>2, <2>1, <2>2
    <3>2. items[n + 1] \in QueuedTask
      BY <1>2, <3>1
    <3>3. first(n) \in Seq(QueuedTask)
      <4>1. \A k \in 1 .. n : items[k] \in QueuedTask
        BY <1>2, <2>1, <3>1
      <4> QED
        BY <2>1, <4>1
    <3>4. ChunkOk(f[n], first(n), limits)
      BY <3>1
    <3>5. f[n + 1] = Placed(f[n], items[n + 1], SizeOf(items[n + 1], limits), limits)
      BY <1>3, <2>1, <3>1
    <3>6. first(n + 1) = Append(first(n), items[n + 1])
      BY <2>1
    <3> HIDE DEF first
    <3> QED
      BY <3>2, <3>3, <3>4, <3>5, <3>6, ChunkStep
  <2> QED
    BY <2>1, <2>2
<1>6. l \in T
  <2>1. T \subseteq Nat
    OBVIOUS
  <2> HIDE DEF T
  <2>2. T = Nat
    BY <1>4, <1>5, <2>1, NatSetInduction
  <2> QED
    BY <1>2, <2>2
<1> DEFINE last == f[l]
<1>7. ChunkOk(last, items, limits)
  <2>1. first(l) = items
    BY <1>2
  <2> QED
    BY <1>2, <1>6, <2>1
<1> HIDE DEF last
<1>8. /\ last \in Chunks
      /\ last.items = << >> => last.closed = << >>
      /\ Joined(last.closed) \o last.items = items
      /\ GoodBatches(AllOf(last), limits)
  BY <1>7 DEF ChunkOk
<1>9. last.closed \in Seq(Seq(QueuedTask)) /\ last.items \in Seq(QueuedTask)
  BY <1>8 DEF Chunks
<1>10. Joined(AllOf(last)) = items
  <2>1. CASE last.items = << >>
    <3>1. AllOf(last) = << >>
      BY <1>8, <2>1 DEF AllOf
    <3>2. items = << >>
      BY <1>8, <2>1, JoinedNone
    <3> QED
      BY <3>1, <3>2, JoinedNone
  <2>2. CASE last.items # << >>
    <3>1. AllOf(last) = Append(last.closed, last.items)
      BY <2>2 DEF AllOf
    <3> QED
      BY <1>8, <1>9, <3>1, JoinedAppend
  <2> QED
    BY <2>1, <2>2
<1>11. AllOf(last) \in Seq(Seq(QueuedTask))
  BY <1>9 DEF AllOf
<1> QED
  BY <1>1, <1>8, <1>10, <1>11 DEF last

(* Batches are right for every queue.                                      *)
LEMMA BatchesStay == QueueInv => BatchesRight
<1> SUFFICES ASSUME QueueInv, NEW l \in LimitPairs
             PROVE  /\ Joined(Batches(entries, l)) = entries
                    /\ \A i \in DOMAIN Batches(entries, l) :
                          /\ Batches(entries, l)[i] # << >>
                          /\ Fits(Batches(entries, l)[i], l) \/ Len(Batches(entries, l)[i]) = 1
                          /\ i > 1 => ~Fits(Append(Batches(entries, l)[i - 1],
                                                   Head(Batches(entries, l)[i])), l)
  BY Zenon DEF BatchesRight
<1> DEFINE b == Batches(entries, l)
<1>1. entries \in Seq(QueuedTask) /\ l \in SizeLimits
  BY LimitsTyped DEF QueueInv, QueueTyped
<1>2. Joined(b) = entries /\ GoodBatches(b, l) /\ b \in Seq(Seq(QueuedTask))
  BY <1>1, BatchesGood
<1> HIDE DEF b
<1>3. DOMAIN b = 1 .. Len(b)
  BY <1>2
<1>4. /\ Joined(b) = entries
      /\ \A i \in DOMAIN b :
            /\ b[i] # << >>
            /\ Fits(b[i], l) \/ Len(b[i]) = 1
            /\ i > 1 => ~Fits(Append(b[i - 1], Head(b[i])), l)
  BY <1>2, <1>3, Zenon DEF GoodBatches
<1> QED
  BY <1>4, Zenon DEF b

-----------------------------------------------------------------------------
(* Filters.                                                                *)

(* The places of the entries a query matches. *)
Matching(items, q) == {k \in DOMAIN items : Matches(q, TagsOf[items[k].task])}

Partitioning(f, items, q) ==
    f = [n \in 0 .. Len(items) |->
            IF n = 0 THEN [matching |-> << >>, rest |-> << >>]
            ELSE Sided(f[n - 1], items[n], q)]

(* f holds the sides after each entry. *)
Divides(f, items, q) ==
    /\ f[0] = [matching |-> << >>, rest |-> << >>]
    /\ \A n \in 1 .. Len(items) : f[n] = Sided(f[n - 1], items[n], q)

(* There is one way to divide a list by a query.                           *)
LEMMA DividesAgree ==
    ASSUME NEW f, NEW g, NEW items, NEW q, NEW l \in Nat, l = Len(items),
           Divides(f, items, q), Divides(g, items, q)
    PROVE  f[l] = g[l]
<1> DEFINE T == {n \in Nat : n <= l => f[n] = g[n]}
<1>1. /\ f[0] = g[0]
      /\ \A n \in 1 .. l : f[n] = Sided(f[n - 1], items[n], q) /\ g[n] = Sided(g[n - 1], items[n], q)
  BY DEF Divides
<1>2. 0 \in T
  BY <1>1
<1>3. ASSUME NEW n \in T
      PROVE  n + 1 \in T
  <2>1. n \in Nat /\ n + 1 \in Nat /\ (n + 1) - 1 = n
    OBVIOUS
  <2>2. ASSUME n + 1 <= l
        PROVE  f[n + 1] = g[n + 1]
    <3>1. n + 1 \in 1 .. l /\ n <= l
      BY <2>1, <2>2
    <3>2. f[n] = g[n]
      BY <3>1
    <3>3. f[n + 1] = Sided(f[n], items[n + 1], q) /\ g[n + 1] = Sided(g[n], items[n + 1], q)
      BY <1>1, <2>1, <3>1
    <3> QED
      BY <3>2, <3>3
  <2> QED
    BY <2>1, <2>2
<1>4. l \in T
  <2>1. T \subseteq Nat
    OBVIOUS
  <2> HIDE DEF T
  <2>2. T = Nat
    BY <1>2, <1>3, <2>1, NatSetInduction
  <2> QED
    BY <2>2
<1> QED
  BY <1>4

(* One turn of a loop that keeps some of a list. *)
LEMMA KeepsTurns ==
    ASSUME NEW f, NEW s, NEW places, NEW l \in Nat, l = Len(s), Keeps(f, s, places)
    PROVE  /\ f[0] = << >>
           /\ \A n \in 1 .. l :
                 f[n] = IF n \in places THEN Append(f[n - 1], s[n]) ELSE f[n - 1]
<1>1. \A n \in 0 .. l : f[n] = IF n = 0 THEN << >>
                               ELSE IF n \in places THEN Append(f[n - 1], s[n]) ELSE f[n - 1]
  BY DEF Keeps
<1>2. 0 \in 0 .. l /\ \A n \in 1 .. l : n \in 0 .. l /\ n # 0
  OBVIOUS
<1> QED
  BY <1>1, <1>2

(* An entry goes to one side.                                              *)
Sides(a, b) == [matching |-> a, rest |-> b]

(* An entry goes to one of the two sides.                                  *)
LEMMA SidedOnce ==
    ASSUME NEW a, NEW b, NEW e, NEW q
    PROVE  /\ Matches(q, TagsOf[e.task]) => Sided(Sides(a, b), e, q) = Sides(Append(a, e), b)
           /\ ~Matches(q, TagsOf[e.task]) => Sided(Sides(a, b), e, q) = Sides(a, Append(b, e))
<1> DEFINE sides == [matching |-> a, rest |-> b]
           match == Matches(q, TagsOf[e.task])
           x == Append(a, e)
           y == Append(b, e)
<1>1. sides.matching = a /\ sides.rest = b
  OBVIOUS
<1>2. Sided(sides, e, q) = IF match THEN [sides EXCEPT !.matching = x] ELSE [sides EXCEPT !.rest = y]
  BY <1>1, Zenon DEF Sided
<1> HIDE DEF x, y, match
<1>3. [sides EXCEPT !.matching = x] = [matching |-> x, rest |-> b]
      /\ [sides EXCEPT !.rest = y] = [matching |-> a, rest |-> y]
  OBVIOUS
<1> HIDE DEF sides
<1>4. /\ match => Sided(sides, e, q) = [matching |-> x, rest |-> b]
      /\ ~match => Sided(sides, e, q) = [matching |-> a, rest |-> y]
  BY <1>2, <1>3, Zenon
<1> QED
  BY <1>4, Zenon DEF x, y, match, sides, Sides

(* The one pass of partition_tasks keeps what two comprehensions would.    *)
LEMMA PartitionSelects ==
    ASSUME NEW items \in Seq(QueuedTask), NEW q
    PROVE  LET P == Matching(items, q)
               sides == PartitionTasks(items, q)
           IN  /\ sides.matching = Selected(items, P)
               /\ sides.rest = Selected(items, (DOMAIN items) \ P)
<1> DEFINE P == Matching(items, q)
           Q == (DOMAIN items) \ P
           l == Len(items)
           after == CHOOSE f : Partitioning(f, items, q)
<1>1. l \in Nat /\ DOMAIN items = 1 .. l
  OBVIOUS
<1>2. \A n \in 1 .. l : n \in Q <=> n \notin P
  BY <1>1
<1>3. \A n \in 1 .. l : n \in P <=> Matches(q, TagsOf[items[n].task])
  BY <1>1 DEF Matching
<1> HIDE DEF P, Q, l
<1>4. PICK g : Keeps(g, items, P)
  BY KeepsExist
<1>5. PICK h : Keeps(h, items, Q)
  BY KeepsExist
<1>6. Selected(items, P) = g[l] /\ Selected(items, Q) = h[l]
  BY <1>4, <1>5, SelectedIs DEF l
<1> DEFINE f == [n \in 0 .. l |-> [matching |-> g[n], rest |-> h[n]]]
<1>7. /\ g[0] = << >>
      /\ \A n \in 1 .. l : g[n] = IF n \in P THEN Append(g[n - 1], items[n]) ELSE g[n - 1]
  BY <1>1, <1>4, KeepsTurns DEF l
<1>8. /\ h[0] = << >>
      /\ \A n \in 1 .. l : h[n] = IF n \in Q THEN Append(h[n - 1], items[n]) ELSE h[n - 1]
  BY <1>1, <1>5, KeepsTurns DEF l
<1>9. f[0] = [matching |-> << >>, rest |-> << >>]
  BY <1>1, <1>7, <1>8
<1>10. ASSUME NEW n \in 1 .. l
       PROVE  f[n] = Sided(f[n - 1], items[n], q)
  <2>1. n \in 0 .. l /\ n - 1 \in 0 .. l
    BY <1>1
  <2>2. f[n] = [matching |-> g[n], rest |-> h[n]]
        /\ f[n - 1] = [matching |-> g[n - 1], rest |-> h[n - 1]]
    BY <2>1
  <2> HIDE DEF f
  <2> DEFINE a == g[n - 1]
             b == h[n - 1]
             e == items[n]
             match == Matches(q, TagsOf[e.task])
  <2>3. /\ match => Sided(Sides(a, b), e, q) = Sides(Append(a, e), b)
        /\ ~match => Sided(Sides(a, b), e, q) = Sides(a, Append(b, e))
    <3> HIDE DEF a, b, e
    <3> QED
      BY SidedOnce
  <2>4. f[n - 1] = Sides(a, b) /\ f[n] = Sides(g[n], h[n])
    BY <2>2 DEF Sides
  <2>5. CASE n \in P
    <3>1. g[n] = Append(a, e) /\ h[n] = b /\ match
      BY <1>2, <1>3, <1>7, <1>8, <2>5
    <3> HIDE DEF match, a, b
    <3> QED
      BY <2>3, <2>4, <3>1, Zenon DEF e
  <2>6. CASE n \notin P
    <3>1. g[n] = a /\ h[n] = Append(b, e) /\ ~match
      BY <1>2, <1>3, <1>7, <1>8, <2>6
    <3> HIDE DEF match, a, b
    <3> QED
      BY <2>3, <2>4, <3>1, Zenon DEF e
  <2> QED
    BY <2>5, <2>6
<1>11. Partitioning(f, items, q)
  <2>1. \A n \in 0 .. l : n # 0 => n \in 1 .. l
    BY <1>1
  <2>2. \A n \in 0 .. l : f[n] = IF n = 0 THEN [matching |-> << >>, rest |-> << >>]
                                 ELSE Sided(f[n - 1], items[n], q)
    <3> HIDE DEF f
    <3> QED
      BY <1>9, <1>10, <2>1
  <2>3. f = [n \in 0 .. l |-> f[n]]
    OBVIOUS
  <2> HIDE DEF f
  <2>4. f = [n \in 0 .. l |-> IF n = 0 THEN [matching |-> << >>, rest |-> << >>]
                              ELSE Sided(f[n - 1], items[n], q)]
    BY <2>2, <2>3
  <2> QED
    BY <2>4 DEF Partitioning, l
<1>12. Partitioning(after, items, q)
  BY <1>11, Zenon
<1>13. PartitionTasks(items, q) = after[l]
  BY Zenon DEF PartitionTasks, Partitioning, l
<1> HIDE DEF after
<1>14. Divides(after, items, q)
  <2>1. \A n \in 0 .. l : after[n] = IF n = 0 THEN [matching |-> << >>, rest |-> << >>]
                                     ELSE Sided(after[n - 1], items[n], q)
    BY <1>12 DEF Partitioning, l
  <2>2. 0 \in 0 .. l /\ \A n \in 1 .. l : n \in 0 .. l /\ n # 0
    BY <1>1
  <2> QED
    BY <2>1, <2>2 DEF Divides, l
<1>15. Divides(f, items, q)
  <2> HIDE DEF f
  <2> QED
    BY <1>9, <1>10 DEF Divides, l
<1>16. f[l] = [matching |-> g[l], rest |-> h[l]]
  BY <1>1
<1> HIDE DEF f
<1>17. after[l] = f[l]
  BY <1>1, <1>14, <1>15, DividesAgree DEF l
<1>18. PartitionTasks(items, q) = [matching |-> g[l], rest |-> h[l]]
  BY <1>13, <1>16, <1>17
<1>19. PartitionTasks(items, q).matching = g[l] /\ PartitionTasks(items, q).rest = h[l]
  BY <1>18
<1> QED
  BY <1>6, <1>19 DEF P, Q

(* Both sides keep the order, and each entry is on one of them.            *)
LEMMA PartitionParts ==
    ASSUME NEW items \in Seq(QueuedTask), NEW q
    PROVE  LET sides == PartitionTasks(items, q)
           IN  /\ sides.matching = FilterTasks(items, q)
               /\ Len(sides.matching) + Len(sides.rest) = Len(items)
               /\ Elements(sides.matching) \cup Elements(sides.rest) = Elements(items)
               /\ Elements(FilterTasks(items, q)) = ElementsAt(items, Matching(items, q))
               /\ KeepsOrder(sides.rest, items) /\ sides.rest \in Seq(QueuedTask)
<1> DEFINE P == Matching(items, q)
           l == Len(items)
           Q == (1 .. l) \ P
           matching == Selected(items, P)
           rest == Selected(items, Q)
<1>1. l \in Nat /\ DOMAIN items = 1 .. l /\ P \subseteq DOMAIN items /\ Q \subseteq DOMAIN items
  BY DEF Matching
<1>2. PartitionTasks(items, q).matching = matching /\ PartitionTasks(items, q).rest = rest
  BY <1>1, PartitionSelects
<1>3. FilterTasks(items, q) = matching
  BY DEF FilterTasks, Matching
<1> HIDE DEF P, Q
<1>4. /\ matching \in Seq(QueuedTask) /\ Len(matching) = Cardinality(P)
      /\ Elements(matching) = ElementsAt(items, P)
  BY <1>1, SelectedParts
<1>5. /\ rest \in Seq(QueuedTask) /\ Len(rest) = Cardinality(Q)
      /\ Elements(rest) = ElementsAt(items, Q) /\ KeepsOrder(rest, items)
  BY <1>1, SelectedParts
<1>6. Cardinality(P) + Cardinality(Q) = l
  BY <1>1, PlacesDivided DEF Q
<1>7. ElementsAt(items, P) \cup ElementsAt(items, Q) = Elements(items)
  BY <1>1 DEF Elements, ElementsAt, Q
<1> HIDE DEF matching, rest, l
<1> QED
  BY <1>2, <1>3, <1>4, <1>5, <1>6, <1>7 DEF P, l

(* A query without its first clause matches where each other clause, on   *)
(* its own, does; entries that all differ are told apart by their places.  *)
LEMMA NarrowedMatches ==
    ASSUME NEW items, \A i, j \in DOMAIN items : items[i] = items[j] => i = j,
           NEW some, NEW all, NEW none,
           some.any = {}, all.any = {}, all.none = {}, none.any = {}, none.all = {},
           some.all = all.all, some.none = none.none
    PROVE  ElementsAt(items, Matching(items, some)) =
              ElementsAt(items, Matching(items, none)) \cap ElementsAt(items, Matching(items, all))
<1>1. \A owned : Matches(some, owned) <=> Matches(none, owned) /\ Matches(all, owned)
  BY DEF Matches
<1>2. /\ Matching(items, some) = Matching(items, none) \cap Matching(items, all)
      /\ Matching(items, none) \subseteq DOMAIN items
      /\ Matching(items, all) \subseteq DOMAIN items
  BY <1>1 DEF Matching
<1> QED
  BY <1>2 DEF ElementsAt

(* A query asks for its parts.                                             *)
LEMMA QueryParts ==
    ASSUME NEW q \in Queries
    PROVE  LET some == [q EXCEPT !.any = {}]
               all == [q EXCEPT !.any = {}, !.none = {}]
               none == [q EXCEPT !.any = {}, !.all = {}]
           IN  /\ some.any = {} /\ some.all = q.all /\ some.none = q.none
               /\ all.any = {} /\ all.all = q.all /\ all.none = {}
               /\ none.any = {} /\ none.all = {} /\ none.none = q.none
<1>1. q \in [any : SUBSET Tags, all : SUBSET Tags, none : SUBSET Tags]
  BY DEF Queries
<1> QED
  BY <1>1

(* Partitions are right for every queue.                                   *)
LEMMA PartitionStays == QueueInv => PartitionRight
<1> SUFFICES ASSUME QueueInv
             PROVE  PartitionRight
  OBVIOUS
<1>1. /\ entries \in Seq(QueuedTask) /\ Len(keys) = Len(entries)
      /\ \A i \in 1 .. Len(entries) : keys[i] = KeyOf(entries[i])
      /\ \A i, j \in 1 .. Len(entries) : i < j => /\ Below(keys[i], keys[j])
                                                  /\ entries[i].task # entries[j].task
  BY DEF QueueInv, QueueTyped, QueueInStep
<1> DEFINE l == Len(entries)
<1>2. l \in Nat /\ DOMAIN entries = 1 .. l
  BY <1>1
<1>3. \A i, j \in DOMAIN entries : entries[i] = entries[j] => i = j
  BY <1>1, <1>2
<1>4. \A s : S!ToSet(s) = Elements(s)
  BY DEF S!ToSet, Elements
<1>5. ASSUME NEW q \in Queries
      PROVE  LET sides == PartitionTasks(entries, q)
             IN  /\ sides.matching = FilterTasks(entries, q)
                 /\ Len(sides.matching) + Len(sides.rest) = Len(entries)
                 /\ S!ToSet(sides.matching) \cup S!ToSet(sides.rest) = S!ToSet(entries)
                 /\ \A i, j \in DOMAIN sides.rest :
                       i < j => Below(KeyOf(sides.rest[i]), KeyOf(sides.rest[j]))
                 /\ S!ToSet(FilterTasks(entries, [q EXCEPT !.any = {}]))
                       = S!ToSet(FilterTasks(entries, [q EXCEPT !.any = {}, !.all = {}]))
                         \cap S!ToSet(FilterTasks(entries, [q EXCEPT !.any = {}, !.none = {}]))
  <2> DEFINE matching == PartitionTasks(entries, q).matching
             rest == PartitionTasks(entries, q).rest
             some == [q EXCEPT !.any = {}]
             all == [q EXCEPT !.any = {}, !.none = {}]
             none == [q EXCEPT !.any = {}, !.all = {}]
  <2>1. /\ some.any = {} /\ some.all = q.all /\ some.none = q.none
        /\ all.any = {} /\ all.all = q.all /\ all.none = {}
        /\ none.any = {} /\ none.all = {} /\ none.none = q.none
    BY QueryParts
  <2>2. /\ matching = FilterTasks(entries, q)
        /\ Len(matching) + Len(rest) = Len(entries)
        /\ Elements(matching) \cup Elements(rest) = Elements(entries)
        /\ KeepsOrder(rest, entries) /\ rest \in Seq(QueuedTask)
    BY <1>1, PartitionParts, Zenon
  <2> HIDE DEF matching, rest, some, all, none, l
  <2>3. ASSUME NEW i \in DOMAIN rest, NEW j \in DOMAIN rest, i < j
        PROVE  Below(KeyOf(rest[i]), KeyOf(rest[j]))
    <3>1. DOMAIN rest = 1 .. Len(rest)
      BY <2>2
    <3>2. PICK e : /\ Rises(e, Len(rest), l)
                   /\ \A k \in 1 .. Len(rest) : rest[k] = entries[e[k]]
      BY <2>2 DEF KeepsOrder, l
    <3>3. e[i] \in 1 .. l /\ e[j] \in 1 .. l /\ e[i] < e[j]
      BY <2>3, <3>1, <3>2 DEF Rises
    <3> QED
      BY <1>1, <3>1, <3>2, <3>3 DEF l
  <2>4. \A p : Elements(FilterTasks(entries, p)) = ElementsAt(entries, Matching(entries, p))
    BY <1>1, PartitionParts, Zenon
  <2>5. ElementsAt(entries, Matching(entries, some)) =
           ElementsAt(entries, Matching(entries, none)) \cap ElementsAt(entries, Matching(entries, all))
    BY <1>3, <2>1, NarrowedMatches
  <2>6. Elements(FilterTasks(entries, some)) =
           Elements(FilterTasks(entries, none)) \cap Elements(FilterTasks(entries, all))
    BY <2>4, <2>5, Zenon
  <2>7. /\ matching = FilterTasks(entries, q)
        /\ Len(matching) + Len(rest) = Len(entries)
        /\ S!ToSet(matching) \cup S!ToSet(rest) = S!ToSet(entries)
        /\ \A i, j \in DOMAIN rest : i < j => Below(KeyOf(rest[i]), KeyOf(rest[j]))
        /\ S!ToSet(FilterTasks(entries, some)) =
              S!ToSet(FilterTasks(entries, none)) \cap S!ToSet(FilterTasks(entries, all))
    BY <1>4, <2>2, <2>3, <2>6
  <2> QED
    BY <2>7, Zenon DEF matching, rest, some, all, none
<1> QED
  BY <1>5, Zenon DEF PartitionRight

-----------------------------------------------------------------------------
(* Merges.                                                                 *)

(* What was served last is no longer queued, and its tasks differ.         *)
ServedOnce ==
    /\ \A i, j \in 1 .. Len(served) : i < j => served[i].task # served[j].task
    /\ \A i \in 1 .. Len(served) : served[i].sequence < sequence
    /\ \A i \in 1 .. Len(entries), j \in 1 .. Len(served) : entries[i] # served[j]

(* Nothing was served, so nothing is served twice.                         *)
LEMMA ServedInit == QueueInit => ServedOnce
BY DEF QueueInit, ServedOnce

(* What is pushed was not served before.                                   *)
LEMMA ServedPush ==
    ASSUME QueueInv, ServedOnce, NEW t \in Tasks, NEW p \in Priorities, PushAccepted(t, p)
    PROVE  ServedOnce'
<1> DEFINE entry == [task |-> t, priority |-> p, sequence |-> sequence]
<1>1. PICK n \in 0 .. Len(keys) : entries' = Inserted(entries, n, entry)
  BY DEF PushAccepted
<1>2. sequence' = sequence + 1 /\ served' = served
  BY DEF PushAccepted
<1>3. /\ entries \in Seq(QueuedTask) /\ served \in Seq(QueuedTask) /\ sequence \in Nat
      /\ n \in 0 .. Len(entries) /\ entry \in QueuedTask
  BY <1>1 DEF QueueInv, QueueTyped, QueueInStep, QueuedTask
<1>4. entry.sequence = sequence
  OBVIOUS
<1> HIDE DEF entry
<1>5. IsInsertion(entries', entries, n, entry)
  BY <1>1, <1>3, InsertedElements, Zenon
<1>6. /\ \A i, j \in 1 .. Len(served) : i < j => served[i].task # served[j].task
      /\ \A i \in 1 .. Len(served) : served[i].sequence < sequence
      /\ \A i \in 1 .. Len(entries), j \in 1 .. Len(served) : entries[i] # served[j]
  BY DEF ServedOnce
<1>7. \A j \in 1 .. Len(served) : served[j] \in QueuedTask /\ served[j].sequence \in Nat
  BY <1>3, KeyTyped
<1>8. \A j \in 1 .. Len(served) : entry # served[j] /\ served[j].sequence < sequence + 1
  BY <1>3, <1>4, <1>6, <1>7
<1>9. ASSUME NEW i \in 1 .. Len(entries')
      PROVE  entries'[i] = entry \/ \E k \in 1 .. Len(entries) : entries'[i] = entries[k]
  <2>1. Len(entries') = Len(entries) + 1 /\ Len(entries) \in Nat
    BY <1>3, <1>5 DEF IsInsertion
  <2>2. entries'[i] = IF i <= n THEN entries[i] ELSE IF i = n + 1 THEN entry ELSE entries[i - 1]
    BY <1>5, <2>1 DEF IsInsertion
  <2>3. (i <= n => i \in 1 .. Len(entries)) /\ (i > n + 1 => i - 1 \in 1 .. Len(entries))
        /\ (i <= n \/ i = n + 1 \/ i > n + 1)
    BY <1>3, <2>1
  <2> QED
    BY <1>3, <2>2, <2>3
<1>10. \A i \in 1 .. Len(entries'), j \in 1 .. Len(served) : entries'[i] # served[j]
  BY <1>6, <1>8, <1>9
<1> QED
  BY <1>2, <1>6, <1>8, <1>10 DEF ServedOnce

(* Every step keeps it so.                                                 *)
LEMMA ServedNext == QueueInv /\ ServedOnce /\ [QueueNext]_queueVars => ServedOnce'
<1> SUFFICES ASSUME QueueInv, ServedOnce, [QueueNext]_queueVars PROVE ServedOnce'
  OBVIOUS
<1>1. /\ entries \in Seq(QueuedTask) /\ sequence \in Nat
      /\ \A i, j \in 1 .. Len(entries) : i < j => entries[i].task # entries[j].task
      /\ \A i \in 1 .. Len(entries) : entries[i].sequence < sequence
  BY DEF QueueInv, QueueTyped, QueueInStep
<1>2. ASSUME UNCHANGED queueVars PROVE ServedOnce'
  BY <1>2 DEF queueVars, ServedOnce
<1>3. ASSUME NEW t \in Tasks, PushRefused(t) PROVE ServedOnce'
  BY <1>2, <1>3 DEF PushRefused
<1>4. ASSUME Pop PROVE ServedOnce'
  <2>1. /\ entries # << >> /\ entries' = Tail(entries) /\ served' = <<Head(entries)>>
        /\ sequence' = sequence
    BY <1>4 DEF Pop
  <2>2. /\ Len(entries') = Len(entries) - 1 /\ Len(entries) \in Nat \ {0}
        /\ \A i \in 1 .. Len(entries) - 1 : entries'[i] = entries[i + 1]
        /\ Len(served') = 1 /\ served'[1] = entries[1]
    BY <1>1, <2>1
  <2>3. \A i \in 1 .. Len(entries) - 1 : entries'[i] # entries[1]
    <3>1. \A i \in 1 .. Len(entries) - 1 : i + 1 \in 1 .. Len(entries) /\ 1 < i + 1
      BY <2>2
    <3>2. 1 \in 1 .. Len(entries)
      BY <2>2
    <3> QED
      BY <1>1, <2>2, <3>1, <3>2
  <2>4. entries[1].sequence < sequence
    BY <1>1, <2>2
  <2> QED
    BY <2>1, <2>2, <2>3, <2>4 DEF ServedOnce
<1>5. ASSUME Drain PROVE ServedOnce'
  <2>1. served' = entries /\ entries' = << >> /\ sequence' = sequence
    BY <1>5 DEF Drain
  <2>2. \A i \in 1 .. Len(entries') : FALSE
    BY <2>1
  <2> QED
    BY <1>1, <2>1, <2>2 DEF ServedOnce
<1> QED
  BY <1>2, <1>3, <1>4, <1>5, ServedPush DEF QueueNext

Merges == [merged : Seq(QueuedTask), dropped : Nat, keys : Seq(Tasks)]

MergeStart == [merged |-> << >>, dropped |-> 0, keys |-> << >>]

(* One item of a merge.                                                    *)
LEMMA MergedParts ==
    ASSUME NEW m \in Merges, NEW e \in QueuedTask
    PROVE  LET new == Merged(m, e)
               known == e.task \in {m.keys[i] : i \in DOMAIN m.keys}
           IN  /\ new \in Merges
               /\ known => /\ new.merged = m.merged /\ new.keys = m.keys
                           /\ new.dropped = m.dropped + 1
               /\ ~known => /\ new.merged = Append(m.merged, e)
                            /\ new.keys = Append(m.keys, e.task)
                            /\ new.dropped = m.dropped
<1> DEFINE known == e.task \in {m.keys[i] : i \in DOMAIN m.keys}
           new == Merged(m, e)
<1>1. /\ m.merged \in Seq(QueuedTask) /\ m.dropped \in Nat /\ m.keys \in Seq(Tasks)
      /\ m = [merged |-> m.merged, dropped |-> m.dropped, keys |-> m.keys]
  BY DEF Merges
<1>2. e.task \in Tasks
  BY KeyTyped
<1>3. /\ Append(m.merged, e) \in Seq(QueuedTask) /\ Append(m.keys, e.task) \in Seq(Tasks)
      /\ m.dropped + 1 \in Nat
  BY <1>1, <1>2
<1>4. new = IF known THEN [m EXCEPT !.dropped = @ + 1]
                     ELSE [m EXCEPT !.merged = Append(@, e), !.keys = Append(@, e.task)]
  BY Zenon DEF Merged
<1> HIDE DEF new, known
<1>5. CASE known
  <2>1. new = [m EXCEPT !.dropped = @ + 1]
    BY <1>4, <1>5
  <2>2. new = [merged |-> m.merged, dropped |-> m.dropped + 1, keys |-> m.keys]
    BY <1>1, <2>1
  <2>3. new \in Merges
    BY <1>1, <1>3, <2>2 DEF Merges
  <2> QED
    BY <1>5, <2>2, <2>3 DEF new, known
<1>6. CASE ~known
  <2>1. new = [m EXCEPT !.merged = Append(@, e), !.keys = Append(@, e.task)]
    BY <1>4, <1>6
  <2>2. new = [merged |-> Append(m.merged, e), dropped |-> m.dropped, keys |-> Append(m.keys, e.task)]
    BY <1>1, <2>1
  <2>3. new \in Merges
    BY <1>1, <1>3, <2>2 DEF Merges
  <2> QED
    BY <1>6, <2>2, <2>3 DEF new, known
<1> QED
  BY <1>5, <1>6

(* The loop of MergeFanout.                                                *)
Merging(items, l) == [p \in (1 .. l) \X Merges |-> Merged(p[2], items[p[1]])]

MergesUp(f, items) ==
    f = [n \in 0 .. Len(items) |->
            IF n = 0 THEN [merged |-> << >>, dropped |-> 0, keys |-> << >>]
            ELSE Merged(f[n - 1], items[n])]

(* f[n] is what the first n items were merged to. *)
MergedTo(f, items) ==
    /\ f[0] = MergeStart
    /\ \A n \in 0 .. Len(items) : f[n] \in Merges
    /\ \A n \in 1 .. Len(items) : f[n] = Merged(f[n - 1], items[n])

(* A merge is what the loop over the joined lists ends with.               *)
LEMMA MergeIs ==
    ASSUME NEW lists, NEW items \in Seq(QueuedTask), items = Joined(lists)
    PROVE  \E f : MergedTo(f, items) /\ MergeFanout(lists) = f[Len(items)]
<1> DEFINE l == Len(items)
           step == Merging(items, l)
           after == CHOOSE f : MergesUp(f, items)
<1>1. l \in Nat /\ \A n \in 1 .. l : items[n] \in QueuedTask
  OBVIOUS
<1>2. MergeStart \in Merges
  BY DEF MergeStart, Merges
<1>3. TurnsOf(step, Merges, l)
  <2>1. ASSUME NEW p \in (1 .. l) \X Merges
        PROVE  Merged(p[2], items[p[1]]) \in Merges
    <3>1. p[2] \in Merges /\ items[p[1]] \in QueuedTask
      BY <1>1
    <3> QED
      BY <3>1, MergedParts
  <2> QED
    BY <2>1 DEF TurnsOf, Merging
<1>4. ASSUME NEW n \in 1 .. l, NEW y \in Merges
      PROVE  step[<<n, y>>] = Merged(y, items[n])
  <2>1. <<n, y>> \in (1 .. l) \X Merges /\ <<n, y>>[1] = n /\ <<n, y>>[2] = y
    OBVIOUS
  <2> QED
    BY <2>1 DEF Merging
<1> HIDE DEF step, l
<1>5. PICK f \in [0 .. l -> Merges] : Steps(f, MergeStart, step, Merges, l)
  BY <1>1, <1>2, <1>3, StepsExist
<1>6. MergesUp(f, items)
  <2>1. ASSUME NEW n \in 0 .. l
        PROVE  f[n] = IF n = 0 THEN MergeStart ELSE Merged(f[n - 1], items[n])
    <3>1. CASE n = 0
      BY <1>5, <3>1 DEF Steps
    <3>2. CASE n # 0
      <4>1. n \in 1 .. l /\ n - 1 \in 0 .. l
        BY <1>1, <3>2
      <4>2. f[n - 1] \in Merges
        BY <4>1
      <4> QED
        BY <1>4, <1>5, <3>2, <4>1, <4>2 DEF Steps
    <3> QED
      BY <3>1, <3>2
  <2>2. f = [n \in 0 .. l |-> f[n]]
    OBVIOUS
  <2>3. f = [n \in 0 .. l |-> IF n = 0 THEN MergeStart ELSE Merged(f[n - 1], items[n])]
    BY <2>1, <2>2
  <2> QED
    BY <2>3 DEF MergesUp, MergeStart, l
<1>7. MergesUp(after, items)
  BY <1>6, Zenon
<1>8. MergeFanout(lists) = after[l]
  BY Zenon DEF MergeFanout, MergesUp, l
<1> HIDE DEF after
<1>9. \A n \in 0 .. l : after[n] = IF n = 0 THEN MergeStart ELSE Merged(after[n - 1], items[n])
  BY <1>7 DEF MergesUp, MergeStart, l
<1>10. Steps(after, MergeStart, step, Merges, l)
  <2>1. after[0] = MergeStart
    BY <1>1, <1>9
  <2>2. ASSUME NEW n \in 1 .. l, after[n - 1] \in Merges
        PROVE  after[n] = step[<<n, after[n - 1]>>]
    <3>1. n \in 0 .. l /\ n # 0
      BY <1>1
    <3> QED
      BY <1>4, <1>9, <2>2, <3>1
  <2> QED
    BY <2>1, <2>2 DEF Steps
<1>11. \A n \in 0 .. l : after[n] \in Merges
  BY <1>1, <1>2, <1>3, <1>10, StepsUnique
<1>12. \A n \in 1 .. l : n \in 0 .. l /\ n # 0
  BY <1>1
<1>13. MergedTo(after, items)
  BY <1>1, <1>9, <1>11, <1>12 DEF MergedTo, l
<1> QED
  BY <1>8, <1>13 DEF l

(* The k-th item is the first of its task.                                 *)
FirstAt(items, k) == \A j \in 1 .. k - 1 : items[j].task # items[k].task

(* What the first n items are merged to, the first p of which differ.      *)
MergeOk(m, items, n, p) ==
    /\ m \in Merges
    /\ Len(m.merged) + m.dropped = n
    /\ Len(m.keys) = Len(m.merged)
    /\ \A i \in 1 .. Len(m.merged) : m.keys[i] = m.merged[i].task
    /\ \A i, j \in 1 .. Len(m.merged) : i < j => m.merged[i].task # m.merged[j].task
    /\ \A k \in 1 .. n : \E i \in 1 .. Len(m.merged) : m.merged[i].task = items[k].task
    /\ \A i \in 1 .. Len(m.merged) : \E k \in 1 .. n : FirstAt(items, k) /\ m.merged[i] = items[k]
    /\ \A i \in 1 .. n : i <= p => i <= Len(m.merged) /\ m.merged[i] = items[i]

(* An entry more is kept unless its task already is.                       *)
LEMMA MergeStep ==
    ASSUME NEW items \in Seq(QueuedTask), NEW p \in 0 .. Len(items),
           \A i, j \in 1 .. p : i < j => items[i].task # items[j].task,
           NEW n \in Nat, n + 1 <= Len(items), NEW m, MergeOk(m, items, n, p)
    PROVE  MergeOk(Merged(m, items[n + 1]), items, n + 1, p)
<1> DEFINE e == items[n + 1]
           new == Merged(m, e)
           s == m.merged
           ks == m.keys
           d == m.dropped
           s1 == new.merged
           ks1 == new.keys
           d1 == new.dropped
           L == Len(s)
           known == e.task \in {m.keys[i] : i \in DOMAIN m.keys}
<1>1. /\ m \in Merges /\ L + d = n /\ Len(ks) = L
      /\ \A i \in 1 .. L : ks[i] = s[i].task
      /\ \A i, j \in 1 .. L : i < j => s[i].task # s[j].task
      /\ \A k \in 1 .. n : \E i \in 1 .. L : s[i].task = items[k].task
      /\ \A i \in 1 .. L : \E k \in 1 .. n : FirstAt(items, k) /\ s[i] = items[k]
      /\ \A i \in 1 .. n : i <= p => i <= L /\ s[i] = items[i]
  BY DEF MergeOk
<1>2. /\ s \in Seq(QueuedTask) /\ d \in Nat /\ ks \in Seq(Tasks)
      /\ L \in Nat /\ DOMAIN ks = 1 .. L
  BY <1>1 DEF Merges
<1>3. e \in QueuedTask /\ e.task \in Tasks
  <2>1. e \in QueuedTask
    OBVIOUS
  <2> QED
    BY <2>1, KeyTyped
<1>4. known <=> \E i \in 1 .. L : s[i].task = e.task
  <2>1. {ks[i] : i \in DOMAIN ks} = {s[i].task : i \in 1 .. L}
    <3>1. DOMAIN ks = 1 .. L /\ \A i \in 1 .. L : ks[i] = s[i].task
      BY <1>1, <1>2
    <3> HIDE DEF s, ks, L
    <3> QED
      BY <3>1
  <2>2. known <=> e.task \in {s[i].task : i \in 1 .. L}
    BY <2>1
  <2> HIDE DEF known, s, L, e
  <2> QED
    BY <2>2
<1>5. /\ new \in Merges
      /\ known => /\ s1 = s /\ ks1 = ks
                  /\ d1 = d + 1
      /\ ~known => /\ s1 = Append(s, e)
                   /\ ks1 = Append(ks, e.task)
                   /\ d1 = d
  BY <1>1, <1>3, MergedParts, Zenon
<1>6. \A k \in 1 .. n + 1 : k \in 1 .. n \/ k = n + 1
  OBVIOUS
<1>7. \A k \in 1 .. n : k \in 1 .. n + 1
  OBVIOUS
<1>8. n + 1 \in 1 .. n + 1 /\ (n + 1) - 1 = n
  OBVIOUS
<1>9. p \in Nat
  OBVIOUS
<1> HIDE DEF known, new, s, ks, d, s1, ks1, d1, L
<1>10. known <=> ~FirstAt(items, n + 1)
  <2>1. ASSUME NEW i \in 1 .. L, s[i].task = e.task
        PROVE  ~FirstAt(items, n + 1)
    <3>1. PICK k \in 1 .. n : s[i] = items[k]
      BY <1>1
    <3> QED
      BY <1>8, <2>1, <3>1 DEF FirstAt
  <2>2. ASSUME NEW k \in 1 .. n, items[k].task = e.task
        PROVE  known
    BY <1>1, <1>4, <2>2
  <2> QED
    BY <1>4, <1>8, <2>1, <2>2 DEF FirstAt
<1> HIDE DEF e
<1>11. CASE known
  <2>1. s1 = s /\ ks1 = ks /\ d1 = d + 1
    BY <1>5, <1>11
  <2>2. n + 1 > p
    <3>1. \E k \in 1 .. n : items[k].task = items[n + 1].task
      BY <1>8, <1>10, <1>11 DEF FirstAt
    <3>2. PICK k \in 1 .. n : items[k].task = items[n + 1].task
      BY <3>1
    <3>3. n + 1 <= p => k \in 1 .. p /\ n + 1 \in 1 .. p /\ k < n + 1
      BY <1>9
    <3> QED
      BY <1>9, <3>2, <3>3
  <2>3. L + (d + 1) = n + 1
    BY <1>1, <1>2
  <2>4. \A k \in 1 .. n + 1 : \E i \in 1 .. L : s[i].task = items[k].task
    BY <1>1, <1>4, <1>6, <1>11 DEF e
  <2>5. \A i \in 1 .. L : \E k \in 1 .. n + 1 : FirstAt(items, k) /\ s[i] = items[k]
    BY <1>1, <1>7
  <2>6. \A i \in 1 .. n + 1 : i <= p => i <= L /\ s[i] = items[i]
    <3> TAKE i \in 1 .. n + 1
    <3> HAVE i <= p
    <3>1. i \in 1 .. n
      BY <1>9, <2>2
    <3> QED
      BY <1>1, <3>1
  <2>7. Len(s1) = L
    BY <2>1 DEF L
  <2>8. MergeOk(new, items, n + 1, p)
    BY <1>1, <1>5, <2>1, <2>3, <2>4, <2>5, <2>6, <2>7 DEF MergeOk, s1, ks1, d1
  <2> QED
    BY <2>8 DEF new, e
<1>12. CASE ~known
  <2>1. s1 = Append(s, e) /\ ks1 = Append(ks, e.task) /\ d1 = d
    BY <1>5, <1>12
  <2>2. /\ Len(s1) = L + 1 /\ s1[L + 1] = e
        /\ \A i \in 1 .. L : s1[i] = s[i]
        /\ Len(ks1) = L + 1 /\ ks1[L + 1] = e.task
        /\ \A i \in 1 .. L : ks1[i] = ks[i]
    <3>1. s \in Seq(QueuedTask) /\ ks \in Seq(Tasks) /\ Len(s) = L /\ Len(ks) = L
      BY <1>1, <1>2 DEF L
    <3> QED
      BY <1>3, <2>1, <3>1
  <2>3. /\ \A i \in 1 .. L + 1 : i \in 1 .. L \/ i = L + 1
        /\ \A i \in 1 .. L : i \in 1 .. L + 1
        /\ L + 1 \in 1 .. L + 1
    BY <1>2
  <2>4. (L + 1) + d = n + 1
    BY <1>1, <1>2
  <2>5. \A i \in 1 .. L + 1 : ks1[i] = s1[i].task
    <3> TAKE i \in 1 .. L + 1
    <3>1. CASE i \in 1 .. L
      <4>1. ks1[i] = ks[i] /\ s1[i] = s[i] /\ ks[i] = s[i].task
        BY <1>1, <2>2, <3>1
      <4> QED
        BY <4>1, Zenon
    <3>2. CASE i = L + 1
      BY <2>2, <3>2, Zenon
    <3> QED
      BY <2>3, <3>1, <3>2
  <2>6. ASSUME NEW i \in 1 .. L + 1, NEW j \in 1 .. L + 1, i < j
        PROVE  s1[i].task # s1[j].task
    <3>1. i \in 1 .. L
      BY <1>2, <2>6
    <3>2. CASE j \in 1 .. L
      <4>1. s[i].task # s[j].task
        <5>1. \A a, b \in 1 .. L : a < b => s[a].task # s[b].task
          BY <1>1
        <5> QED
          BY <2>6, <3>1, <3>2, <5>1
      <4>2. s1[i] = s[i] /\ s1[j] = s[j]
        BY <2>2, <3>1, <3>2
      <4> QED
        BY <4>1, <4>2, Zenon
    <3>3. CASE j = L + 1
      <4>1. s1[i] = s[i] /\ s1[j] = e /\ s[i].task # e.task
        BY <1>4, <1>12, <2>2, <3>1, <3>3
      <4> QED
        BY <4>1, Zenon
    <3> QED
      BY <2>3, <3>2, <3>3
  <2>7. ASSUME NEW k \in 1 .. n + 1
        PROVE  \E i \in 1 .. L + 1 : s1[i].task = items[k].task
    <3>1. CASE k \in 1 .. n
      <4>1. PICK i \in 1 .. L : s[i].task = items[k].task
        BY <1>1, <3>1
      <4> QED
        BY <2>2, <2>3, <4>1
    <3>2. CASE k = n + 1
      BY <2>2, <2>3, <3>2 DEF e
    <3> QED
      BY <1>6, <3>1, <3>2
  <2>8. ASSUME NEW i \in 1 .. L + 1
        PROVE  \E k \in 1 .. n + 1 : FirstAt(items, k) /\ s1[i] = items[k]
    <3>1. CASE i \in 1 .. L
      <4>1. PICK k \in 1 .. n : FirstAt(items, k) /\ s[i] = items[k]
        BY <1>1, <3>1
      <4> QED
        BY <1>7, <2>2, <3>1, <4>1
    <3>2. CASE i = L + 1
      BY <1>8, <1>10, <1>12, <2>2, <3>2 DEF e
    <3> QED
      BY <2>3, <3>1, <3>2
  <2>9. ASSUME NEW i \in 1 .. n + 1, i <= p
        PROVE  i <= L + 1 /\ s1[i] = items[i]
    <3>1. CASE i \in 1 .. n
      <4>1. i <= L /\ s[i] = items[i]
        BY <1>1, <2>9, <3>1
      <4>2. i \in 1 .. L
        BY <1>2, <4>1
      <4> QED
        BY <1>2, <2>2, <4>1, <4>2
    <3>2. CASE i = n + 1
      <4>1. L = n
        <5>1. n = 0 => L = n
          BY <1>1, <1>2
        <5>2. n # 0 => n \in 1 .. n /\ n <= p
          BY <1>9, <2>9, <3>2
        <5>3. n # 0 => n <= L
          BY <1>1, <5>2
        <5> QED
          BY <1>1, <1>2, <5>1, <5>3
      <4> QED
        BY <2>2, <3>2, <4>1 DEF e
    <3> QED
      BY <1>6, <3>1, <3>2
  <2>10. Len(s1) + d1 = n + 1 /\ Len(s1) = L + 1 /\ Len(ks1) = L + 1
    BY <2>1, <2>2, <2>4
  <2>11. MergeOk(new, items, n + 1, p)
    BY <1>5, <2>5, <2>6, <2>7, <2>8, <2>9, <2>10 DEF MergeOk, s1, ks1, d1
  <2> QED
    BY <2>11 DEF new, e
<1> QED
  BY <1>11, <1>12

(* The whole loop.                                                         *)
LEMMA MergeGood ==
    ASSUME NEW items \in Seq(QueuedTask), NEW p \in 0 .. Len(items),
           \A i, j \in 1 .. p : i < j => items[i].task # items[j].task,
           NEW f, MergedTo(f, items)
    PROVE  MergeOk(f[Len(items)], items, Len(items), p)
<1> DEFINE l == Len(items)
           T == {n \in Nat : n <= l => MergeOk(f[n], items, n, p)}
<1>1. l \in Nat
  OBVIOUS
<1>2. /\ f[0] = MergeStart
      /\ \A n \in 1 .. l : f[n] = Merged(f[n - 1], items[n])
  BY DEF MergedTo
<1> HIDE DEF l
<1>3. 0 \in T
  <2>1. MergeStart.merged = << >> /\ MergeStart.dropped = 0 /\ MergeStart.keys = << >>
        /\ MergeStart \in Merges
    BY DEF MergeStart, Merges
  <2>2. Len(<< >>) = 0
    OBVIOUS
  <2>3. \A i \in 1 .. 0 : FALSE
    OBVIOUS
  <2>4. MergeOk(MergeStart, items, 0, p)
    BY <2>1, <2>2, <2>3 DEF MergeOk
  <2> QED
    BY <1>2, <2>4
<1>4. ASSUME NEW n \in T
      PROVE  n + 1 \in T
  <2>1. n \in Nat /\ n + 1 \in Nat /\ (n + 1) - 1 = n
    OBVIOUS
  <2>2. ASSUME n + 1 <= l
        PROVE  MergeOk(f[n + 1], items, n + 1, p)
    <3>1. n + 1 \in 1 .. l /\ n <= l
      BY <1>1, <2>1, <2>2
    <3>2. MergeOk(f[n], items, n, p)
      BY <3>1
    <3>3. f[n + 1] = Merged(f[n], items[n + 1])
      BY <1>2, <2>1, <3>1
    <3>4. n + 1 <= Len(items)
      BY <2>2 DEF l
    <3> QED
      BY <2>1, <3>2, <3>3, <3>4, MergeStep
  <2> QED
    BY <2>1, <2>2
<1>5. l \in T
  <2>1. T \subseteq Nat
    OBVIOUS
  <2> HIDE DEF T
  <2>2. T = Nat
    BY <1>3, <1>4, <2>1, NatSetInduction
  <2> QED
    BY <1>1, <2>2
<1> QED
  BY <1>1, <1>5 DEF l

(* m is a merge of old and new as MergeRight asks for it.                  *)
MergeGives(m, old, new) ==
    /\ Len(m.merged) + m.dropped = Len(old \o new)
    /\ Len(m.merged) = Cardinality({e.task : e \in Elements(old \o new)})
    /\ m.keys = [i \in DOMAIN m.merged |-> m.merged[i].task]
    /\ Len(old) <= Len(m.merged) /\ \A i \in 1 .. Len(old) : m.merged[i] = old[i]
    /\ \A e \in Elements(new) :
          e \in Elements(m.merged) <=> e.task \notin {x.task : x \in Elements(old)}

(* A merge that went well keeps each task once, what was served first.     *)
LEMMA MergeFacts ==
    ASSUME NEW old \in Seq(QueuedTask), NEW new \in Seq(QueuedTask),
           NEW items, items = old \o new,
           \A i, j \in 1 .. Len(new) : i < j => new[i].task # new[j].task,
           \A i \in 1 .. Len(new), j \in 1 .. Len(old) : new[i] # old[j],
           NEW m, MergeOk(m, items, Len(items), Len(old))
    PROVE  MergeGives(m, old, new)
<1> DEFINE s == m.merged
           ks == m.keys
           d == m.dropped
           L == Len(s)
           l == Len(items)
           p == Len(old)
           q == Len(new)
<1>1. /\ p \in Nat /\ q \in Nat /\ l = p + q /\ items \in Seq(QueuedTask) /\ DOMAIN items = 1 .. l
      /\ \A i \in 1 .. p : items[i] = old[i]
      /\ \A i \in 1 .. q : items[p + i] = new[i]
      /\ DOMAIN old = 1 .. p /\ DOMAIN new = 1 .. q
  OBVIOUS
<1>2. /\ m \in Merges /\ L + d = l /\ Len(ks) = L
      /\ \A i \in 1 .. L : ks[i] = s[i].task
      /\ \A k \in 1 .. l : \E i \in 1 .. L : s[i].task = items[k].task
      /\ \A i \in 1 .. L : \E k \in 1 .. l : FirstAt(items, k) /\ s[i] = items[k]
      /\ \A i \in 1 .. l : i <= p => i <= L /\ s[i] = items[i]
  BY DEF MergeOk
<1>3. \A i, j \in 1 .. L : i < j => s[i].task # s[j].task
  BY DEF MergeOk
<1>4. s \in Seq(QueuedTask) /\ ks \in Seq(Tasks) /\ L \in Nat /\ DOMAIN s = 1 .. L /\ DOMAIN ks = 1 .. L
  BY <1>2 DEF Merges
<1> HIDE DEF s, ks, d, L, l, p, q
<1>5. \A i, j \in 1 .. L : s[i].task = s[j].task => i = j
  <2> TAKE i, j \in 1 .. L
  <2>1. i < j \/ i = j \/ j < i
    OBVIOUS
  <2> QED
    BY <1>3, <2>1
<1> DEFINE tasks == {e.task : e \in Elements(items)}
<1>6. L = Cardinality(tasks)
  <2> DEFINE places == 1 .. L
             f == [i \in places |-> s[i].task]
  <2>1. \A i \in places : f[i] \in tasks
    <3> TAKE i \in places
    <3>1. PICK k \in 1 .. l : s[i] = items[k]
      BY <1>2
    <3>2. items[k] \in Elements(items)
      BY <1>1 DEF Elements
    <3> QED
      BY <3>1, <3>2
  <2>2. \A i, j \in places : f[i] = f[j] => i = j
    BY <1>5
  <2>3. \A y \in tasks : \E i \in places : f[i] = y
    <3> TAKE y \in tasks
    <3>1. PICK k \in 1 .. l : items[k].task = y
      BY <1>1 DEF Elements
    <3>2. PICK i \in 1 .. L : s[i].task = items[k].task
      BY <1>2
    <3> QED
      BY <3>1, <3>2
  <2>4. IsFiniteSet(places) /\ Cardinality(places) = L
    <3>1. 1 \in Int /\ L \in Int
      BY <1>4
    <3>2. IsFiniteSet(1 .. L) /\ Cardinality(1 .. L) = IF 1 > L THEN 0 ELSE L - 1 + 1
      BY <3>1, FS_Interval
    <3> QED
      BY <1>4, <3>2
  <2> HIDE DEF places, f, tasks
  <2>5. Cardinality(tasks) = Cardinality(places)
    BY <2>1, <2>2, <2>3, <2>4, SameCount
  <2> QED
    BY <2>4, <2>5
<1>7. ks = [i \in DOMAIN s |-> s[i].task]
  <2>1. ks = [i \in 1 .. L |-> ks[i]]
    BY <1>4
  <2> QED
    BY <1>2, <1>4, <2>1
<1>8. p <= L /\ \A i \in 1 .. p : s[i] = old[i]
  <2>1. \A i \in 1 .. p : i \in 1 .. l /\ i <= p
    BY <1>1
  <2>2. \A i \in 1 .. p : i <= L /\ s[i] = old[i]
    BY <1>1, <1>2, <2>1
  <2>3. p # 0 => p \in 1 .. p
    BY <1>1
  <2>4. p <= L
    BY <1>1, <1>4, <2>2, <2>3
  <2> QED
    BY <2>2, <2>4
<1>9. ASSUME NEW e \in Elements(new)
      PROVE  e \in Elements(s) <=> e.task \notin {x.task : x \in Elements(old)}
  <2>1. PICK n \in 1 .. q : e = new[n]
    BY <1>1 DEF Elements
  <2>2. p + n \in 1 .. l /\ items[p + n] = e
    BY <1>1, <2>1
  <2>3. ASSUME NEW i \in 1 .. L, s[i] = e, NEW j \in 1 .. p, old[j].task = e.task
        PROVE  FALSE
    <3>1. j \in 1 .. L /\ s[j] = old[j]
      BY <1>1, <1>4, <1>8
    <3>2. i = j
      BY <1>5, <2>3, <3>1
    <3>3. old[j] = new[n]
      BY <2>1, <2>3, <3>1, <3>2
    <3> QED
      BY <3>3 DEF p, q
  <2>4. ASSUME \A j \in 1 .. p : old[j].task # e.task
        PROVE  \E i \in 1 .. L : s[i] = e
    <3>1. PICK i \in 1 .. L : s[i].task = items[p + n].task
      BY <1>2, <2>2
    <3>2. PICK k \in 1 .. l : s[i] = items[k]
      BY <1>2
    <3>3. items[k].task = e.task
      BY <2>2, <3>1, <3>2
    <3>4. ~(k \in 1 .. p)
      BY <1>1, <2>4, <3>3
    <3>5. k - p \in 1 .. q /\ p + (k - p) = k
      BY <1>1, <3>4
    <3>6. items[k] = new[k - p]
      BY <1>1, <3>5
    <3>7. k - p = n
      <4>1. new[k - p].task = new[n].task
        BY <2>1, <3>3, <3>6
      <4>2. k - p < n \/ k - p = n \/ n < k - p
        BY <3>5
      <4> QED
        BY <2>1, <3>5, <4>1, <4>2 DEF q
    <3> QED
      BY <2>1, <3>2, <3>6, <3>7
  <2>5. e \in Elements(s) <=> \E i \in 1 .. L : s[i] = e
    BY <1>4 DEF Elements
  <2>6. e.task \in {x.task : x \in Elements(old)} <=> \E j \in 1 .. p : old[j].task = e.task
    <3>1. ASSUME NEW x \in Elements(old), x.task = e.task
          PROVE  \E j \in 1 .. p : old[j].task = e.task
      <4>1. PICK j \in 1 .. p : x = old[j]
        BY <1>1 DEF Elements
      <4> QED
        BY <3>1, <4>1
    <3>2. ASSUME NEW j \in 1 .. p, old[j].task = e.task
          PROVE  \E x \in Elements(old) : x.task = e.task
      <4>1. old[j] \in Elements(old)
        BY <1>1 DEF Elements
      <4> QED
        BY <3>2, <4>1
    <3> QED
      BY <3>1, <3>2, Zenon
  <2> QED
    BY <2>3, <2>4, <2>5, <2>6
<1> QED
  BY <1>2, <1>6, <1>7, <1>8, <1>9 DEF MergeGives, s, ks, d, L, l, p

(* Merges are right for every queue.                                       *)
LEMMA MergeStays == QueueInv /\ ServedOnce => MergeRight
<1> SUFFICES ASSUME QueueInv, ServedOnce
             PROVE  MergeRight
  OBVIOUS
<1> DEFINE lists == <<served, entries>>
           items == served \o entries
           m == MergeFanout(lists)
<1>1. /\ entries \in Seq(QueuedTask) /\ served \in Seq(QueuedTask)
      /\ \A i, j \in 1 .. Len(entries) : i < j => entries[i].task # entries[j].task
  BY DEF QueueInv, QueueTyped, QueueInStep
<1>2. /\ \A i, j \in 1 .. Len(served) : i < j => served[i].task # served[j].task
      /\ \A i \in 1 .. Len(entries), j \in 1 .. Len(served) : entries[i] # served[j]
  BY DEF ServedOnce
<1>3. items \in Seq(QueuedTask) /\ Len(served) \in 0 .. Len(items)
      /\ \A i \in 1 .. Len(served) : items[i] = served[i]
  BY <1>1
<1>4. Joined(lists) = items
  <2> DEFINE none == << >>
             one == Append(none, served)
             two == Append(one, entries)
  <2>1. none \in Seq(Seq(QueuedTask)) /\ one \in Seq(Seq(QueuedTask))
    BY <1>1
  <2>2. lists = two
    OBVIOUS
  <2>3. Joined(none) = << >>
    BY JoinedNone
  <2> HIDE DEF none
  <2>4. Joined(one) = Joined(none) \o served
    BY <1>1, <2>1, JoinedAppend
  <2>5. Joined(one) = served
    BY <1>1, <2>3, <2>4
  <2> HIDE DEF one
  <2>6. Joined(two) = Joined(one) \o entries
    BY <1>1, <2>1, JoinedAppend
  <2> QED
    BY <2>2, <2>5, <2>6
<1> HIDE DEF lists
<1>5. PICK f : MergedTo(f, items) /\ m = f[Len(items)]
  <2> HIDE DEF items
  <2> QED
    BY <1>3, <1>4, MergeIs
<1>6. \A i, j \in 1 .. Len(served) : i < j => items[i].task # items[j].task
  <2> HIDE DEF items
  <2> QED
    BY <1>2, <1>3
<1>7. MergeOk(m, items, Len(items), Len(served))
  <2> HIDE DEF items, m
  <2> QED
    BY <1>3, <1>5, <1>6, MergeGood
<1> DEFINE s == m.merged
<1>8. /\ Len(s) + m.dropped = Len(items)
      /\ Len(s) = Cardinality({e.task : e \in Elements(items)})
      /\ m.keys = [i \in DOMAIN s |-> s[i].task]
      /\ Len(served) <= Len(s) /\ \A i \in 1 .. Len(served) : s[i] = served[i]
      /\ \A e \in Elements(entries) :
            e \in Elements(s) <=> e.task \notin {x.task : x \in Elements(served)}
  <2> DEFINE both == items
  <2>1. both = served \o entries /\ MergeOk(m, both, Len(both), Len(served))
    BY <1>7
  <2> HIDE DEF m
  <2>2. MergeGives(m, served, entries)
    <3> HIDE DEF items
    <3> QED
      BY <1>1, <1>2, <2>1, MergeFacts
  <2> QED
    BY <2>2, Zenon DEF MergeGives
<1>9. \A t : S!ToSet(t) = Elements(t)
  BY DEF S!ToSet, Elements
<1>10. S!IsPrefix(served, s)
  <2>1. s \in Seq(QueuedTask)
    BY <1>7 DEF MergeOk, Merges
  <2> HIDE DEF s
  <2>2. SubSeq(served, 1, Len(served)) = SubSeq(s, 1, Len(served))
    BY <1>1, <1>8, <2>1
  <2> QED
    BY <1>8, <2>2 DEF S!IsPrefix
<1> HIDE DEF m
<1>11. /\ Len(m.merged) + m.dropped = Len(items)
       /\ Len(m.merged) = Cardinality({e.task : e \in S!ToSet(items)})
       /\ m.keys = [i \in DOMAIN m.merged |-> m.merged[i].task]
       /\ S!IsPrefix(served, m.merged)
       /\ \A e \in S!ToSet(entries) :
             e \in S!ToSet(m.merged) <=> e.task \notin {x.task : x \in S!ToSet(served)}
  BY <1>8, <1>9, <1>10
<1> QED
  BY <1>11, Zenon DEF MergeRight, m, lists

(* What is done with the tasks listed keeps every one of them, in order,   *)
(* whatever the queue holds and whatever the limits and the query are.     *)
THEOREM SelectionsStayRight == QueuesSpec => []SelectionsRight
<1>1. QueueInit => QueueInv /\ ServedOnce
  BY InitInv, ServedInit
<1>2. QueueInv /\ ServedOnce /\ [QueueNext]_queueVars => (QueueInv /\ ServedOnce)'
  BY NextInv, ServedNext
<1>3. QueueInv /\ ServedOnce => SelectionsRight
  BY BatchesStay, PartitionStays, MergeStays DEF SelectionsRight
<1>4. QueueSpec => []SelectionsRight
  BY <1>1, <1>2, <1>3, PTL DEF QueueSpec
<1> QED
  BY <1>4, QueueUsed, PTL
=============================================================================
