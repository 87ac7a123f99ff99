--------------------------- MODULE LoopViewsProofs ---------------------------
(***************************************************************************)
(* Proofs about what is computed from the loop's results: the difference   *)
(* of two of them (StateDiff), and the views and the audit log of one      *)
(* (LoopProjections, AuditLog).                                            *)
(* They rest on the invariant LoopInv of LoopOrchestratorProofs.           *)
(***************************************************************************)
EXTENDS LoopOrchestratorProofs, AuditLog, StateDiff, ListsProofs

USE AgentsAssumption, StringsAssumption, AcceptedAssumption, BoundAssumption

-----------------------------------------------------------------------------
(* Where a turn stands in a history.                                       *)

(* A product distributes: what the arithmetic of places below needs.       *)
LEMMA OneMore ==
    ASSUME NEW i \in Int, NEW w \in Int
    PROVE  (i + 1) * w = i * w + w
OBVIOUS

(* The events of a chained history are numbered: agent a's turn in         *)
(* iteration i is event (i - 1) * NumAgents + a.                           *)
Numbered(evs) ==
    \A k \in 1 .. Len(evs) : (evs[k].iteration - 1) * NumAgents + evs[k].agent = k

(* A chained history is numbered.                                          *)
LEMMA ChainedNumbered ==
    ASSUME NEW evs \in Seq(Event), NEW from, NEW to, Chained(evs, from, to)
    PROVE  Numbered(evs)
<1> DEFINE Right(k) == (evs[k].iteration - 1) * NumAgents + evs[k].agent = k
           T == {n \in Nat : n + 1 <= Len(evs) => Right(n + 1)}
<1>0. NumAgents \in Int
  OBVIOUS
<1>1. 0 \in T
  <2>1. ASSUME 1 <= Len(evs)
        PROVE  Right(1)
    <3>1. evs # << >>
      BY <2>1
    <3>2. evs[1].agent = 1 /\ evs[1].iteration = 1
      BY <3>1 DEF Chained
    <3>3. (1 - 1) * NumAgents + 1 = 1
      BY <1>0
    <3> QED
      BY <3>2, <3>3
  <2> QED
    BY <2>1
<1>2. ASSUME NEW n \in T
      PROVE  n + 1 \in T
  <2>1. n \in Nat /\ Len(evs) \in Nat
    OBVIOUS
  <2>2. ASSUME (n + 1) + 1 <= Len(evs)
        PROVE  Right((n + 1) + 1)
    <3> DEFINE e == evs[n + 1]
               f == evs[(n + 1) + 1]
    <3>1. n + 1 \in 1 .. Len(evs) - 1 /\ n + 1 <= Len(evs) /\ (n + 1) + 1 \in 1 .. Len(evs)
          /\ n + 1 \in 1 .. Len(evs)
      BY <2>1, <2>2
    <3>2. Right(n + 1)
      BY <1>2, <3>1
    <3>3. Follows(e, f)
      BY <3>1 DEF Chained
    <3>4. e \in Event /\ f \in Event
      BY <3>1
    <3>5. e.agent \in Int /\ e.iteration \in Int /\ f.agent \in Int /\ f.iteration \in Int
      BY <3>4 DEF Event, Turns, Iterations
    <3> HIDE DEF e, f
    <3>6. CASE f.agent = e.agent + 1 /\ f.iteration = e.iteration
      <4>1. (e.iteration - 1) * NumAgents \in Int
        BY <1>0, <3>5
      <4>2. (e.iteration - 1) * NumAgents + e.agent = n + 1
        BY <3>2 DEF e
      <4>3. (f.iteration - 1) * NumAgents = (e.iteration - 1) * NumAgents
        BY <3>6
      <4> DEFINE before == (e.iteration - 1) * NumAgents
      <4>4. before \in Int /\ before + e.agent = n + 1
        BY <4>1, <4>2
      <4> HIDE DEF Right, before
      <4>5. before + f.agent = (n + 1) + 1
        BY <2>1, <3>5, <3>6, <4>4
      <4>6. (f.iteration - 1) * NumAgents + f.agent = (n + 1) + 1
        BY <4>3, <4>5 DEF before
      <4> QED
        BY <4>6 DEF Right, f
    <3>7. CASE e.agent = NumAgents /\ f.agent = 1 /\ f.iteration = e.iteration + 1
      <4>1. f.iteration - 1 = (e.iteration - 1) + 1
        BY <3>5, <3>7
      <4>2. (f.iteration - 1) * NumAgents = (e.iteration - 1) * NumAgents + NumAgents
        BY <1>0, <3>5, <4>1, OneMore
      <4>3. (e.iteration - 1) * NumAgents + e.agent = n + 1
        BY <3>2 DEF e
      <4>4. (f.iteration - 1) * NumAgents + f.agent = (n + 1) + 1
        BY <3>7, <4>2, <4>3
      <4> QED
        BY <4>4 DEF Right, f
    <3> QED
      BY <3>3, <3>6, <3>7 DEF Follows
  <2> QED
    BY <2>1, <2>2
<1>3. T = Nat
  <2>1. T \subseteq Nat
    OBVIOUS
  <2> HIDE DEF T
  <2> QED
    BY <1>1, <1>2, <2>1, NatSetInduction
<1>4. ASSUME NEW k \in 1 .. Len(evs)
      PROVE  Right(k)
  <2>1. k - 1 \in Nat /\ (k - 1) + 1 = k /\ k <= Len(evs)
    OBVIOUS
  <2>2. k - 1 \in T
    BY <1>3, <2>1
  <2> QED
    BY <2>1, <2>2
<1> QED
  BY <1>4 DEF Numbered

(* A larger number of rows of w places is larger by rows of w places.      *)
LEMMA RowsApart ==
    ASSUME NEW w \in Nat \ {0}, NEW i \in Int, NEW j \in Int, i < j
    PROVE  j * w - i * w = w * (j - i) /\ i * w + w <= j * w
<1>1. w \in Int /\ i * w \in Int /\ j * w \in Int /\ j - i - 1 \in Nat
  OBVIOUS
<1>2. (j - i - 1) * w >= 0
  BY <1>1
<1>3. (j - i - 1) * w = j * w - i * w - w
  BY <1>1
<1>4. w * (j - i) = j * w - i * w
  BY <1>1
<1> QED
  BY <1>1, <1>2, <1>3, <1>4

(* Two places that are the same place belong to the same turn.             *)
LEMMA PlacesUnique ==
    ASSUME NEW w \in Nat \ {0}, NEW i \in Int, NEW j \in Int,
           NEW a \in 1 .. w, NEW b \in 1 .. w, i * w + a = j * w + b
    PROVE  i = j /\ a = b
<1>0. w \in Int /\ i * w \in Int /\ j * w \in Int
  OBVIOUS
<1>1. ~(i < j)
  <2> SUFFICES ASSUME i < j PROVE FALSE
    OBVIOUS
  <2>1. i * w + w <= j * w
    BY RowsApart
  <2> QED
    BY <1>0, <2>1
<1>2. ~(j < i)
  <2> SUFFICES ASSUME j < i PROVE FALSE
    OBVIOUS
  <2>1. j * w + w <= i * w
    BY RowsApart
  <2> QED
    BY <1>0, <2>1
<1>3. i = j
  BY <1>1, <1>2
<1> QED
  BY <1>0, <1>3

(* In a numbered history the turns are where their numbers say.            *)
LEMMA TurnsPlace ==
    ASSUME NEW evs \in Seq(Event), Numbered(evs), NEW i \in Int, NEW a \in Turns,
           NEW k \in 1 .. Len(evs), k = i * NumAgents + a
    PROVE  evs[k] \in Event /\ evs[k].iteration = i + 1 /\ evs[k].agent = a
<1> DEFINE j == evs[k].iteration - 1
           b == evs[k].agent
<1>1. evs[k] \in Event
  OBVIOUS
<1>2. evs[k].iteration \in Int /\ b \in 1 .. NumAgents /\ j \in Int
  BY <1>1 DEF Event, Iterations, Turns
<1>3. j * NumAgents + b = k
  BY DEF Numbered
<1>4. a \in 1 .. NumAgents
  BY DEF Turns
<1> HIDE DEF j, b
<1>5. j * NumAgents + b = i * NumAgents + a
  BY <1>3
<1>6. j = i /\ b = a
  <2>1. ASSUME NEW w \in Nat \ {0}, NEW p \in Int, NEW q \in Int,
               NEW c \in 1 .. w, NEW d \in 1 .. w, p * w + c = q * w + d
        PROVE  p = q /\ c = d
    BY <2>1, PlacesUnique
  <2>2. NumAgents \in Nat \ {0}
    OBVIOUS
  <2> QED
    BY <1>2, <1>4, <1>5, <2>1, <2>2, Zenon
<1> QED
  BY <1>1, <1>2, <1>6 DEF j, b

-----------------------------------------------------------------------------
(* A whole result: what LoopInv says of the result the caller holds.       *)
IsWhole(r) ==
    /\ r \in Result
    /\ Chained(r.events, r.origin, r.final)
    /\ EndsAt(r.events, NumAgents, r.iterations)
    /\ Mirrors(r.steps, r.events)
    /\ r.status = "completed" <=> r.final \in Accepted

(* Every result the caller holds is whole.                                 *)
LEMMA HeldIsWhole ==
    /\ LoopInv /\ result # NoResult => IsWhole(result)
    /\ LoopInv' /\ result' # NoResult => IsWhole(result')
BY DEF LoopInv, TypeOK, ResultOK, ResultIsWhole, StepsMirrorEvents,
       StopsAtFirstAcceptance, IsWhole

(* The parts of a whole result: every iteration has a turn of every agent. *)
LEMMA WholeParts ==
    ASSUME NEW r, IsWhole(r)
    PROVE  /\ r.status \in {"completed", "failed"}
           /\ r.iterations \in Iterations
           /\ r.final \in Strings /\ r.origin \in States
           /\ r.steps \in Seq(Step) /\ r.events \in Seq(Event)
           /\ Len(r.steps) = Len(r.events)
           /\ r.events # << >>
           /\ Numbered(r.events)
           /\ Len(r.events) = r.iterations * NumAgents
<1>1. /\ r.status \in {"completed", "failed"}
      /\ r.iterations \in Iterations
      /\ r.final \in Strings /\ r.origin \in States
      /\ r.steps \in Seq(Step) /\ r.events \in Seq(Event)
      /\ Len(r.steps) = Len(r.events)
  BY DEF IsWhole, Result, Mirrors
<1>2. Numbered(r.events)
  BY <1>1, ChainedNumbered DEF IsWhole
<1>3. r.events # << >> /\ r.events[Len(r.events)].agent = NumAgents
      /\ r.events[Len(r.events)].iteration = r.iterations
  BY DEF IsWhole, EndsAt
<1>4. Len(r.events) \in 1 .. Len(r.events)
  BY <1>1, <1>3
<1>5. (r.iterations - 1) * NumAgents + NumAgents = Len(r.events)
  BY <1>2, <1>3, <1>4 DEF Numbered
<1>6. r.iterations \in Int /\ NumAgents \in Int
  BY <1>1 DEF Iterations
<1>7. ((r.iterations - 1) + 1) * NumAgents = (r.iterations - 1) * NumAgents + NumAgents
  BY <1>6, OneMore
<1>8. (r.iterations - 1) + 1 = r.iterations
  BY <1>6
<1> QED
  BY <1>1, <1>2, <1>3, <1>5, <1>7, <1>8

-----------------------------------------------------------------------------
(* The common prefix of two lists, what follows it, and the diff.          *)

(* n is the number of places up to which left and right are the same, and  *)
(* not beyond.                                                             *)
IsCommon(n, left, right) ==
    /\ n \in Nat /\ n <= Len(left) /\ n <= Len(right)
    /\ \A k \in 1 .. n : left[k] = right[k]
    /\ n < Len(left) /\ n < Len(right) => left[n + 1] # right[n + 1]

(* A bounded set of numbers has a greatest member, which Max chooses.      *)
LEMMA MaxBounded ==
    ASSUME NEW T, NEW b \in Nat, T \subseteq 0 .. b, T # {}
    PROVE  Ext!Max(T) \in T /\ \A m \in T : m <= Ext!Max(T)
<1> DEFINE U == {b - n : n \in T}
<1>1. U \subseteq Nat /\ U # {}
  <2>1. \A n \in T : b - n \in Nat
    OBVIOUS
  <2> QED
    BY <2>1
<1>2. PICK u \in U : \A v \in U : u <= v
  <2> HIDE DEF U
  <2> QED
    BY <1>1, LeastNat
<1>3. PICK n \in T : u = b - n
  BY <1>2
<1>4. \A m \in T : m <= n
  BY <1>2, <1>3
<1>5. \E x \in T : \A y \in T : x >= y
  BY <1>4
<1>6. Ext!Max(T) \in T /\ \A y \in T : Ext!Max(T) >= y
  BY <1>5 DEF Ext!Max
<1> QED
  BY <1>6

(* The smaller of two numbers.                                             *)
LEMMA MinOfTwo ==
    ASSUME NEW a \in Nat, NEW b \in Nat
    PROVE  Ext!Min({a, b}) = IF a <= b THEN a ELSE b
<1> DEFINE m == IF a <= b THEN a ELSE b
<1>1. m \in {a, b} /\ \A y \in {a, b} : m <= y
  OBVIOUS
<1>2. \A x \in {a, b} : (\A y \in {a, b} : x <= y) => x = m
  OBVIOUS
<1> QED
  BY <1>1, <1>2 DEF Ext!Min

(* CommonPrefixLength finds the common prefix.                             *)
LEMMA PrefixFound ==
    ASSUME NEW X, NEW left \in Seq(X), NEW right \in Seq(X)
    PROVE  IsCommon(CommonPrefixLength(left, right), left, right)
<1> DEFINE m == Ext!Min({Len(left), Len(right)})
           T == {n \in 0 .. m : \A k \in 1 .. n : left[k] = right[k]}
           c == Ext!Max(T)
<1>1. m \in Nat /\ m <= Len(left) /\ m <= Len(right)
      /\ \A n \in Nat : n <= Len(left) /\ n <= Len(right) => n <= m
  BY MinOfTwo
<1>2. CommonPrefixLength(left, right) = c
  BY DEF CommonPrefixLength, Ext!Max, Ext!Min
<1> HIDE DEF m
<1>3. T \subseteq 0 .. m /\ 0 \in T
  BY <1>1
<1>4. c \in T /\ \A n \in T : n <= c
  <2> HIDE DEF T
  <2> QED
    BY <1>1, <1>3, MaxBounded
<1>5. c \in 0 .. m /\ \A k \in 1 .. c : left[k] = right[k]
  BY <1>4
<1>6. ASSUME c < Len(left), c < Len(right), left[c + 1] = right[c + 1]
      PROVE  FALSE
  <2>1. c + 1 \in 0 .. m
    BY <1>1, <1>5, <1>6
  <2>2. \A k \in 1 .. c + 1 : k \in 1 .. c \/ k = c + 1
    BY <1>5
  <2>3. c + 1 \in T
    BY <1>5, <1>6, <2>1, <2>2
  <2>4. c + 1 <= c
    BY <1>4, <2>3
  <2>5. c \in Int
    BY <1>5
  <2> HIDE DEF c
  <2> QED
    BY <2>4, <2>5
<1> HIDE DEF c
<1> QED
  BY <1>1, <1>2, <1>5, <1>6 DEF IsCommon

(* There is one common prefix, whichever list is read first.               *)
LEMMA PrefixUnique ==
    ASSUME NEW X, NEW left \in Seq(X), NEW right \in Seq(X),
           NEW m, NEW n, IsCommon(m, left, right), IsCommon(n, left, right)
    PROVE  m = n
<1>1. ASSUME NEW i, NEW j, IsCommon(i, left, right), IsCommon(j, left, right), i < j
      PROVE  FALSE
  <2>1. i \in Nat /\ j \in Nat /\ j <= Len(left) /\ j <= Len(right)
        /\ Len(left) \in Nat /\ Len(right) \in Nat
    BY <1>1 DEF IsCommon
  <2>2. i + 1 \in 1 .. j /\ i < Len(left) /\ i < Len(right)
    BY <1>1, <2>1
  <2> QED
    BY <1>1, <2>2 DEF IsCommon
<1>2. m \in Nat /\ n \in Nat
  BY DEF IsCommon
<1>3. ~(m < n) /\ ~(n < m)
  BY <1>1
<1> QED
  BY <1>2, <1>3

(* The common prefix does not depend on the direction.                     *)
LEMMA PrefixSymmetric ==
    ASSUME NEW X, NEW left \in Seq(X), NEW right \in Seq(X)
    PROVE  CommonPrefixLength(left, right) = CommonPrefixLength(right, left)
<1>1. IsCommon(CommonPrefixLength(left, right), left, right)
  BY PrefixFound
<1>2. IsCommon(CommonPrefixLength(right, left), right, left)
  BY PrefixFound
<1>3. IsCommon(CommonPrefixLength(right, left), left, right)
  BY <1>2 DEF IsCommon
<1> QED
  BY <1>1, <1>3, PrefixUnique

(* What follows the first n elements.                                      *)
LEMMA FromElements ==
    ASSUME NEW X, NEW s \in Seq(X), NEW n \in 0 .. Len(s)
    PROVE  /\ From(s, n) \in Seq(X) /\ Len(From(s, n)) = Len(s) - n
           /\ \A k \in 1 .. Len(s) - n : From(s, n)[k] = s[n + k]
           /\ From(s, n) = << >> <=> n = Len(s)
<1> DEFINE l == Len(s)
           b == SubSeq(s, n + 1, l)
<1>1. l \in Nat /\ \A i \in 1 .. l : s[i] \in X
  OBVIOUS
<1>2. /\ b \in Seq(X) /\ Len(b) = IF n + 1 <= l THEN l - (n + 1) + 1 ELSE 0
      /\ \A i \in 1 .. l - (n + 1) + 1 : b[i] = s[(n + 1) + i - 1]
  <2>1. n + 1 \in Int /\ l \in Int /\ \A i \in n + 1 .. l : s[i] \in X
    BY <1>1
  <2> QED
    BY <2>1, SubSeqProperties
<1>3. From(s, n) = b
  BY DEF From
<1> HIDE DEF b
<1>4. Len(b) = l - n /\ \A i \in 1 .. l - n : b[i] = s[n + i]
  BY <1>1, <1>2
<1>5. b = << >> <=> Len(b) = 0
  BY <1>2, EmptySeq
<1> QED
  BY <1>1, <1>2, <1>3, <1>4, <1>5

(* The first n elements.                                                   *)
LEMMA FirstElements ==
    ASSUME NEW X, NEW s \in Seq(X), NEW n \in 0 .. Len(s)
    PROVE  /\ SubSeq(s, 1, n) \in Seq(X) /\ Len(SubSeq(s, 1, n)) = n
           /\ \A k \in 1 .. n : SubSeq(s, 1, n)[k] = s[k]
<1> DEFINE a == SubSeq(s, 1, n)
<1>1. Len(s) \in Nat /\ \A i \in 1 .. Len(s) : s[i] \in X
  OBVIOUS
<1>2. /\ a \in Seq(X) /\ Len(a) = IF 1 <= n THEN n - 1 + 1 ELSE 0
      /\ \A i \in 1 .. n - 1 + 1 : a[i] = s[1 + i - 1]
  BY <1>1, SubSeqProperties
<1> HIDE DEF a
<1>3. Len(a) = n /\ \A i \in 1 .. n : a[i] = s[i]
  BY <1>1, <1>2
<1> QED
  BY <1>2, <1>3 DEF a

(* Taking away what only s has and adding what only t has makes s into t.  *)
LEMMA PatchedBack ==
    ASSUME NEW X, NEW s \in Seq(X), NEW t \in Seq(X), NEW n, IsCommon(n, s, t)
    PROVE  Patched(s, From(s, n), From(t, n)) = t
<1>1. n \in 0 .. Len(s) /\ n \in 0 .. Len(t) /\ Len(s) \in Nat /\ Len(t) \in Nat
  BY DEF IsCommon
<1>2. Len(From(s, n)) = Len(s) - n
  BY <1>1, FromElements
<1> DEFINE a == SubSeq(s, 1, n)
           b == From(t, n)
           u == a \o b
<1>3. a \in Seq(X) /\ Len(a) = n /\ \A k \in 1 .. n : a[k] = s[k]
  BY <1>1, FirstElements
<1>4. b \in Seq(X) /\ Len(b) = Len(t) - n /\ \A k \in 1 .. Len(t) - n : b[k] = t[n + k]
  BY <1>1, FromElements
<1>5. Patched(s, From(s, n), From(t, n)) = u
  <2>1. Len(s) - (Len(s) - n) = n
    BY <1>1
  <2> QED
    BY <1>2, <2>1 DEF Patched
<1> HIDE DEF a, b
<1>6. /\ u \in Seq(X) /\ Len(u) = Len(a) + Len(b)
      /\ \A i \in 1 .. Len(a) + Len(b) : u[i] = IF i <= Len(a) THEN a[i] ELSE b[i - Len(a)]
  BY <1>3, <1>4, ConcatProperties
<1> HIDE DEF u
<1>7. Len(u) = Len(t)
  BY <1>1, <1>3, <1>4, <1>6
<1>8. ASSUME NEW i \in 1 .. Len(t)
      PROVE  u[i] = t[i]
  <2>1. u[i] = IF i <= n THEN a[i] ELSE b[i - n]
    BY <1>3, <1>6, <1>7
  <2>2. CASE i <= n
    <3>1. i \in 1 .. n
      BY <1>1, <2>2
    <3> QED
      BY <1>3, <2>1, <2>2, <3>1 DEF IsCommon
  <2>3. CASE ~(i <= n)
    <3>1. i - n \in 1 .. Len(t) - n /\ n + (i - n) = i
      BY <1>1, <2>3
    <3>2. b[i - n] = t[n + (i - n)]
      BY <1>4, <3>1
    <3> QED
      BY <2>1, <2>3, <3>1, <3>2
  <2> QED
    BY <2>2, <2>3
<1>9. u = t
  BY <1>6, <1>7, <1>8, SeqEqual
<1> QED
  BY <1>5, <1>9

(* A list is a strict prefix of another exactly when the common prefix is  *)
(* all of it and not all of the other.                                     *)
LEMMA StrictPrefixes ==
    ASSUME NEW X, NEW s \in Seq(X), NEW t \in Seq(X), NEW n, IsCommon(n, s, t)
    PROVE  Ext!IsStrictPrefix(s, t) <=> n = Len(s) /\ n < Len(t)
<1> DEFINE l == Len(s)
<1>1. n \in Nat /\ n <= l /\ n <= Len(t) /\ l \in Nat /\ Len(t) \in Nat
      /\ \A k \in 1 .. n : s[k] = t[k]
  BY DEF IsCommon
<1>2. ASSUME Ext!IsStrictPrefix(s, t)
      PROVE  n = l /\ n < Len(t)
  <2>1. l <= Len(t) /\ SubSeq(s, 1, l) = SubSeq(t, 1, l) /\ s # t
    BY <1>2 DEF Ext!IsStrictPrefix, Ext!IsPrefix
  <2>2. l \in 0 .. Len(s) /\ l \in 0 .. Len(t)
    BY <1>1, <2>1
  <2>3. (\A k \in 1 .. l : SubSeq(s, 1, l)[k] = s[k]) /\ (\A k \in 1 .. l : SubSeq(t, 1, l)[k] = t[k])
    BY <2>2, FirstElements
  <2>4. \A k \in 1 .. l : s[k] = t[k]
    BY <2>1, <2>3
  <2>5. l # Len(t)
    BY <2>1, <2>4, SeqEqual
  <2>6. ~(n < l)
    <3> SUFFICES ASSUME n < l PROVE FALSE
      OBVIOUS
    <3>1. n + 1 \in 1 .. l /\ n < Len(t)
      BY <1>1, <2>1
    <3>2. s[n + 1] # t[n + 1]
      BY <3>1 DEF IsCommon
    <3> QED
      BY <2>4, <3>1, <3>2
  <2> QED
    BY <1>1, <2>1, <2>5, <2>6
<1>3. ASSUME n = l, n < Len(t)
      PROVE  Ext!IsStrictPrefix(s, t)
  <2> DEFINE a == SubSeq(s, 1, l)
             b == SubSeq(t, 1, l)
  <2>1. l \in 0 .. Len(s) /\ l \in 0 .. Len(t)
    BY <1>1, <1>3
  <2>2. /\ a \in Seq(X) /\ Len(a) = l /\ \A k \in 1 .. l : a[k] = s[k]
        /\ b \in Seq(X) /\ Len(b) = l /\ \A k \in 1 .. l : b[k] = t[k]
    BY <2>1, FirstElements
  <2> HIDE DEF a, b
  <2>3. \A k \in 1 .. l : a[k] = b[k]
    BY <1>1, <1>3, <2>2
  <2>4. a = b
    BY <2>2, <2>3, SeqEqual
  <2>5. s # t
    BY <1>1, <1>3
  <2> QED
    BY <1>1, <1>3, <2>4, <2>5 DEF Ext!IsStrictPrefix, Ext!IsPrefix, a, b
<1> QED
  BY <1>2, <1>3

-----------------------------------------------------------------------------
(* The diff of two whole results.                                          *)

(* Equal events make equal steps, so the events differ first.              *)
LEMMA EventsDifferFirst ==
    ASSUME NEW x, NEW y, IsWhole(x), IsWhole(y), NEW e, NEW p,
           IsCommon(e, x.events, y.events), IsCommon(p, x.steps, y.steps)
    PROVE  e <= p
<1>1. /\ Len(x.steps) = Len(x.events) /\ Len(y.steps) = Len(y.events)
      /\ Len(x.events) \in Nat /\ Len(y.events) \in Nat
      /\ e \in Nat /\ p \in Nat /\ e <= Len(x.events) /\ e <= Len(y.events)
  BY WholeParts DEF IsCommon
<1> SUFFICES ASSUME p < e PROVE FALSE
  BY <1>1
<1>2. p + 1 \in 1 .. e /\ p + 1 \in 1 .. Len(x.events) /\ p + 1 \in 1 .. Len(y.events)
      /\ p < Len(x.steps) /\ p < Len(y.steps)
  BY <1>1
<1>3. x.events[p + 1] = y.events[p + 1] /\ x.steps[p + 1] # y.steps[p + 1]
  BY <1>2 DEF IsCommon
<1> QED
  BY <1>2, <1>3 DEF IsWhole, Mirrors

(* Whole results with the same events differ in nothing a snapshot shows.  *)
LEMMA SameEventsSameResult ==
    ASSUME NEW x, NEW y, IsWhole(x), IsWhole(y), x.events = y.events
    PROVE  /\ x.status = y.status /\ x.iterations = y.iterations
           /\ x.final = y.final /\ x.steps = y.steps
<1>1. x.events # << >>
  BY WholeParts
<1>2. x.final = y.final /\ x.iterations = y.iterations
  BY <1>1 DEF IsWhole, Chained, EndsAt
<1>3. x.status = y.status
  BY <1>2, WholeParts DEF IsWhole
<1>4. /\ x.steps \in Seq(Step) /\ y.steps \in Seq(Step)
      /\ Len(x.steps) = Len(x.events) /\ Len(y.steps) = Len(x.events)
      /\ \A i \in 1 .. Len(x.events) : x.steps[i] = y.steps[i]
  BY WholeParts DEF IsWhole, Mirrors
<1>5. x.steps = y.steps
  BY <1>4, SeqEqual
<1> QED
  BY <1>2, <1>3, <1>5

(* What is added and removed, by how far the events agree.                 *)
LEMMA DiffParts ==
    ASSUME NEW x, NEW y, IsWhole(x), IsWhole(y)
    PROVE  LET d == DiffStates(x, y)
               e == CommonPrefixLength(x.events, y.events)
               p == CommonPrefixLength(x.steps, y.steps)
           IN  /\ IsCommon(e, x.events, y.events) /\ IsCommon(p, x.steps, y.steps)
               /\ e <= p
               /\ d.eventsAdded = From(y.events, e) /\ d.eventsRemoved = From(x.events, e)
               /\ d.stepsAdded = From(y.steps, p) /\ d.stepsRemoved = From(x.steps, p)
               /\ Adds(d) <=> e < Len(y.events)
               /\ Removes(d) <=> e < Len(x.events)
<1> DEFINE d == DiffStates(x, y)
           e == CommonPrefixLength(x.events, y.events)
           p == CommonPrefixLength(x.steps, y.steps)
<1>1. /\ x.steps \in Seq(Step) /\ x.events \in Seq(Event)
      /\ y.steps \in Seq(Step) /\ y.events \in Seq(Event)
      /\ Len(x.steps) = Len(x.events) /\ Len(y.steps) = Len(y.events)
  BY WholeParts
<1>2. IsCommon(e, x.events, y.events) /\ IsCommon(p, x.steps, y.steps)
  BY <1>1, PrefixFound
<1>3. /\ d.eventsAdded = From(y.events, e) /\ d.eventsRemoved = From(x.events, e)
      /\ d.stepsAdded = From(y.steps, p) /\ d.stepsRemoved = From(x.steps, p)
  BY DEF DiffStates
<1> HIDE DEF d, e, p
<1>4. e <= p
  BY <1>2, EventsDifferFirst
<1>5. /\ e \in Nat /\ p \in Nat /\ e <= p
      /\ p <= Len(x.events) /\ p <= Len(y.events)
      /\ Len(x.events) \in Nat /\ Len(y.events) \in Nat
  BY <1>1, <1>2, <1>4 DEF IsCommon
<1>6. /\ e \in 0 .. Len(x.events) /\ e \in 0 .. Len(y.events)
      /\ p \in 0 .. Len(x.steps) /\ p \in 0 .. Len(y.steps)
  BY <1>1, <1>5
<1>7. /\ From(y.events, e) = << >> <=> e = Len(y.events)
      /\ From(x.events, e) = << >> <=> e = Len(x.events)
      /\ From(y.steps, p) = << >> <=> p = Len(y.steps)
      /\ From(x.steps, p) = << >> <=> p = Len(x.steps)
  <2>1. ASSUME NEW X, NEW s \in Seq(X), NEW n \in 0 .. Len(s)
        PROVE  From(s, n) = << >> <=> n = Len(s)
    BY FromElements
  <2> QED
    BY <1>1, <1>6, <2>1
<1>8. Adds(d) <=> e < Len(y.events)
  BY <1>1, <1>3, <1>5, <1>7 DEF Adds
<1>9. Removes(d) <=> e < Len(x.events)
  BY <1>1, <1>3, <1>5, <1>7 DEF Removes
<1> QED
  BY <1>2, <1>3, <1>4, <1>8, <1>9 DEF d, e, p

(* The diff of two whole results narrates: it leads from one to the other, *)
(* turns around, and its shape is the relation of the two histories.       *)
Narrates(x, y) ==
    LET d == DiffStates(x, y)
        back == DiffStates(y, x)
    IN  /\ Patched(x.steps, d.stepsRemoved, d.stepsAdded) = y.steps
        /\ Patched(x.events, d.eventsRemoved, d.eventsAdded) = y.events
        /\ back.eventsAdded = d.eventsRemoved /\ back.stepsRemoved = d.stepsAdded
        /\ IterationsDelta(back) = 0 - IterationsDelta(d)
        /\ Shape(d) = "noop" <=> Snapshot(x) = Snapshot(y)
        /\ Shape(d) = "progression" <=> Ext!IsStrictPrefix(x.events, y.events)
        /\ Shape(d) = "rewind" <=> Ext!IsStrictPrefix(y.events, x.events)
        /\ Shape(d) # "changed"
        /\ Len(RenderDiff(d)) = 1 <=> IsNoop(d)

(* Whatever the four tests say, Shape names the one that holds.            *)
LEMMA ShapeNames ==
    ASSUME NEW d
    PROVE  /\ Shape(d) = "noop" <=> IsNoop(d)
           /\ Shape(d) = "progression" <=> Adds(d) /\ ~Removes(d)
           /\ Shape(d) = "rewind" <=> Removes(d) /\ ~Adds(d)
           /\ Shape(d) = "changed" <=> ~Adds(d) /\ ~Removes(d) /\ ~IsNoop(d)
<1>1. IsNoop(d) => ~Adds(d) /\ ~Removes(d)
  BY DEF IsNoop
<1> QED
  BY <1>1 DEF Shape, IsProgression, IsRewind, IsDivergence

(* A list of one element, or of none.                                      *)
LEMMA OneOrNone ==
    ASSUME NEW X, NEW v \in X, NEW b \in BOOLEAN
    PROVE  /\ (IF b THEN <<v>> ELSE << >>) \in Seq(X)
           /\ Len(IF b THEN <<v>> ELSE << >>) = IF b THEN 1 ELSE 0
<1>1. <<v>> \in Seq(X) /\ Len(<<v>>) = 1
  OBVIOUS
<1>2. << >> \in Seq(X) /\ Len(<< >>) = 0
  OBVIOUS
<1> QED
  BY <1>1, <1>2

(* A list with an element for each element of another.                     *)
LEMMA ElementWise ==
    ASSUME NEW X, NEW Y, NEW s \in Seq(Y), NEW f,
           f = [k \in DOMAIN s |-> f[k]], \A k \in DOMAIN s : f[k] \in X
    PROVE  f \in Seq(X) /\ Len(f) = Len(s)
<1>1. DOMAIN s = 1 .. Len(s) /\ Len(s) \in Nat
  OBVIOUS
<1>2. f \in [1 .. Len(s) -> X]
  BY <1>1
<1> QED
  BY <1>1, <1>2

(* A rendered diff has its heading and a line for everything it shows.     *)
LEMMA RenderedLines ==
    ASSUME NEW d, d.eventsRemoved \in Seq(Event), d.eventsAdded \in Seq(Event)
    PROVE  Len(RenderDiff(d)) = 1 <=>
              /\ d.statusBefore = d.statusAfter /\ d.finalBefore = d.finalAfter
              /\ Len(d.eventsRemoved) = 0 /\ Len(d.eventsAdded) = 0
<1> DEFINE one == <<[line |-> Shape(d), delta |-> IterationsDelta(d)]>>
           two == IF d.statusBefore # d.statusAfter
                  THEN <<[line |-> "status", was |-> d.statusBefore, is |-> d.statusAfter]>>
                  ELSE << >>
           three == IF d.finalBefore # d.finalAfter
                    THEN <<[line |-> "final_state", was |-> d.finalBefore, is |-> d.finalAfter]>>
                    ELSE << >>
           four == [k \in DOMAIN d.eventsRemoved |-> [line |-> "-", event |-> d.eventsRemoved[k]]]
           five == [k \in DOMAIN d.eventsAdded |-> [line |-> "+", event |-> d.eventsAdded[k]]]
           X == {one[1],
                 [line |-> "status", was |-> d.statusBefore, is |-> d.statusAfter],
                 [line |-> "final_state", was |-> d.finalBefore, is |-> d.finalAfter]}
                \cup {four[k] : k \in DOMAIN four} \cup {five[k] : k \in DOMAIN five}
<1>1. RenderDiff(d) = one \o two \o three \o four \o five
  BY DEF RenderDiff
<1>2. one \in Seq(X) /\ Len(one) = 1
  OBVIOUS
<1>3. two \in Seq(X) /\ Len(two) = IF d.statusBefore # d.statusAfter THEN 1 ELSE 0
  <2> DEFINE v == [line |-> "status", was |-> d.statusBefore, is |-> d.statusAfter]
             b == d.statusBefore # d.statusAfter
  <2>1. two = IF b THEN <<v>> ELSE << >>
    OBVIOUS
  <2>2. v \in X
    OBVIOUS
  <2> HIDE DEF v, X, two
  <2>3. b \in BOOLEAN
    OBVIOUS
  <2> HIDE DEF b
  <2>4. two \in Seq(X) /\ Len(two) = IF b THEN 1 ELSE 0
    BY <2>1, <2>2, <2>3, OneOrNone
  <2> QED
    BY <2>4 DEF b
<1>4. three \in Seq(X) /\ Len(three) = IF d.finalBefore # d.finalAfter THEN 1 ELSE 0
  <2> DEFINE v == [line |-> "final_state", was |-> d.finalBefore, is |-> d.finalAfter]
             b == d.finalBefore # d.finalAfter
  <2>1. three = IF b THEN <<v>> ELSE << >>
    OBVIOUS
  <2>2. v \in X
    OBVIOUS
  <2> HIDE DEF v, X, three
  <2>3. b \in BOOLEAN
    OBVIOUS
  <2> HIDE DEF b
  <2>4. three \in Seq(X) /\ Len(three) = IF b THEN 1 ELSE 0
    BY <2>1, <2>2, <2>3, OneOrNone
  <2> QED
    BY <2>4 DEF b
<1>5. four \in Seq(X) /\ Len(four) = Len(d.eventsRemoved)
  <2>1. four = [k \in DOMAIN d.eventsRemoved |-> four[k]]
        /\ \A k \in DOMAIN d.eventsRemoved : four[k] \in X
    OBVIOUS
  <2> HIDE DEF four, X
  <2> QED
    BY <2>1, ElementWise
<1>6. five \in Seq(X) /\ Len(five) = Len(d.eventsAdded)
  <2>1. five = [k \in DOMAIN d.eventsAdded |-> five[k]]
        /\ \A k \in DOMAIN d.eventsAdded : five[k] \in X
    OBVIOUS
  <2> HIDE DEF five, X
  <2> QED
    BY <2>1, ElementWise
<1> HIDE DEF one, two, three, four, five, X
<1>7. Len(one \o two \o three \o four \o five)
         = Len(one) + Len(two) + Len(three) + Len(four) + Len(five)
  <2>1. one \o two \in Seq(X) /\ Len(one \o two) = Len(one) + Len(two)
    BY <1>2, <1>3, ConcatProperties
  <2>2. one \o two \o three \in Seq(X)
        /\ Len(one \o two \o three) = Len(one \o two) + Len(three)
    BY <1>4, <2>1, ConcatProperties
  <2>3. one \o two \o three \o four \in Seq(X)
        /\ Len(one \o two \o three \o four) = Len(one \o two \o three) + Len(four)
    BY <1>5, <2>2, ConcatProperties
  <2>4. Len(one \o two \o three \o four \o five) = Len(one \o two \o three \o four) + Len(five)
    BY <1>6, <2>3, ConcatProperties
  <2> QED
    BY <2>1, <2>2, <2>3, <2>4
<1>8. Len(d.eventsRemoved) \in Nat /\ Len(d.eventsAdded) \in Nat
  OBVIOUS
<1> DEFINE n == Len(RenderDiff(d))
           i == Len(two)
           j == Len(three)
           k == Len(d.eventsRemoved)
           l == Len(d.eventsAdded)
<1>9. n = 1 + i + j + k + l
  BY <1>1, <1>2, <1>5, <1>6, <1>7, Zenon
<1>10. i \in Nat /\ j \in Nat /\ k \in Nat /\ l \in Nat
  BY <1>3, <1>4, <1>8
<1> HIDE DEF n, i, j, k, l
<1>11. n = 1 <=> i = 0 /\ j = 0 /\ k = 0 /\ l = 0
  BY <1>9, <1>10
<1> QED
  BY <1>3, <1>4, <1>11 DEF n, i, j, k, l

(* Of any two whole results the diff tells what is different.              *)
LEMMA WholeResultsNarrate ==
    ASSUME NEW x, NEW y, IsWhole(x), IsWhole(y)
    PROVE  Narrates(x, y)
<1> DEFINE d == DiffStates(x, y)
           back == DiffStates(y, x)
           e == CommonPrefixLength(x.events, y.events)
           p == CommonPrefixLength(x.steps, y.steps)
<1>1. /\ x.steps \in Seq(Step) /\ x.events \in Seq(Event)
      /\ y.steps \in Seq(Step) /\ y.events \in Seq(Event)
      /\ x.iterations \in Int /\ y.iterations \in Int
      /\ Len(x.events) \in Nat /\ Len(y.events) \in Nat
  BY WholeParts DEF Iterations
<1>2. /\ IsCommon(e, x.events, y.events) /\ IsCommon(p, x.steps, y.steps)
      /\ d.eventsAdded = From(y.events, e) /\ d.eventsRemoved = From(x.events, e)
      /\ d.stepsAdded = From(y.steps, p) /\ d.stepsRemoved = From(x.steps, p)
      /\ Adds(d) <=> e < Len(y.events)
      /\ Removes(d) <=> e < Len(x.events)
  BY DiffParts
<1>3. /\ e = CommonPrefixLength(y.events, x.events)
      /\ p = CommonPrefixLength(y.steps, x.steps)
  BY <1>1, PrefixSymmetric
<1>4. back.eventsAdded = From(x.events, e) /\ back.stepsRemoved = From(y.steps, p)
  <2>1. /\ back.eventsAdded = From(x.events, CommonPrefixLength(y.events, x.events))
        /\ back.stepsRemoved = From(y.steps, CommonPrefixLength(y.steps, x.steps))
    BY DEF DiffStates
  <2> HIDE DEF e, p, back
  <2> QED
    BY <1>3, <2>1
<1>5. /\ IterationsDelta(d) = y.iterations - x.iterations
      /\ IterationsDelta(back) = x.iterations - y.iterations
      /\ d.statusBefore = x.status /\ d.statusAfter = y.status
      /\ d.finalBefore = x.final /\ d.finalAfter = y.final
  BY DEF DiffStates, IterationsDelta
<1> HIDE DEF d, back, e, p
<1>6. /\ Patched(x.steps, d.stepsRemoved, d.stepsAdded) = y.steps
      /\ Patched(x.events, d.eventsRemoved, d.eventsAdded) = y.events
  BY <1>1, <1>2, PatchedBack
<1>7. e \in Nat /\ e <= Len(x.events) /\ e <= Len(y.events)
  BY <1>2 DEF IsCommon
<1>8. ASSUME e = Len(x.events), e = Len(y.events)
      PROVE  x.events = y.events
  <2>1. \A k \in 1 .. e : x.events[k] = y.events[k]
    BY <1>2 DEF IsCommon
  <2> QED
    BY <1>1, <1>8, <2>1, SeqEqual
<1>9. IsNoop(d) <=> x.events = y.events
  <2>1. ASSUME IsNoop(d)
        PROVE  x.events = y.events
    <3>1. ~(e < Len(x.events)) /\ ~(e < Len(y.events))
      BY <1>2, <2>1 DEF IsNoop
    <3> QED
      BY <1>1, <1>7, <1>8, <3>1
  <2>2. ASSUME x.events = y.events
        PROVE  IsNoop(d)
    <3>1. x.status = y.status /\ x.iterations = y.iterations /\ x.final = y.final
      BY <2>2, SameEventsSameResult
    <3>2. ~(e < Len(x.events)) /\ ~(e < Len(y.events))
      <4> SUFFICES ASSUME e < Len(x.events) PROVE FALSE
        BY <2>2
      <4>1. e + 1 \in 1 .. Len(x.events) /\ x.events[e + 1] # y.events[e + 1]
        BY <1>1, <1>2, <1>7, <2>2 DEF IsCommon
      <4> QED
        BY <2>2, <4>1
    <3>3. IterationsDelta(d) = 0
      BY <1>1, <1>5, <3>1
    <3> QED
      BY <1>2, <1>5, <3>1, <3>2, <3>3 DEF IsNoop
  <2> QED
    BY <2>1, <2>2
<1>10. x.events = y.events <=> Snapshot(x) = Snapshot(y)
  BY SameEventsSameResult DEF Snapshot
<1>11. Ext!IsStrictPrefix(x.events, y.events) <=> e = Len(x.events) /\ e < Len(y.events)
  BY <1>1, <1>2, StrictPrefixes
<1>12. Ext!IsStrictPrefix(y.events, x.events) <=> e = Len(y.events) /\ e < Len(x.events)
  <2>1. IsCommon(e, y.events, x.events)
    BY <1>2 DEF IsCommon
  <2> QED
    BY <1>1, <2>1, StrictPrefixes
<1>13. /\ Adds(d) /\ ~Removes(d) <=> Ext!IsStrictPrefix(x.events, y.events)
       /\ Removes(d) /\ ~Adds(d) <=> Ext!IsStrictPrefix(y.events, x.events)
       /\ ~Adds(d) /\ ~Removes(d) => x.events = y.events
  BY <1>1, <1>2, <1>7, <1>8, <1>11, <1>12
<1>14. Len(RenderDiff(d)) = 1 <=> IsNoop(d)
  <2>1. e \in 0 .. Len(x.events) /\ e \in 0 .. Len(y.events)
    BY <1>1, <1>7
  <2>2. /\ d.eventsRemoved \in Seq(Event) /\ Len(d.eventsRemoved) = Len(x.events) - e
        /\ d.eventsAdded \in Seq(Event) /\ Len(d.eventsAdded) = Len(y.events) - e
    <3>1. ASSUME NEW s \in Seq(Event), NEW n \in 0 .. Len(s)
          PROVE  From(s, n) \in Seq(Event) /\ Len(From(s, n)) = Len(s) - n
      BY FromElements
    <3> QED
      BY <1>1, <1>2, <2>1, <3>1
  <2>3. Len(RenderDiff(d)) = 1 <=>
            /\ x.status = y.status /\ x.final = y.final
            /\ Len(x.events) - e = 0 /\ Len(y.events) - e = 0
    BY <1>5, <2>2, RenderedLines
  <2>4. ASSUME Len(x.events) - e = 0, Len(y.events) - e = 0
        PROVE  x.events = y.events
    BY <1>1, <1>7, <1>8, <2>4
  <2>5. ASSUME x.events = y.events
        PROVE  /\ x.status = y.status /\ x.final = y.final
               /\ Len(x.events) - e = 0 /\ Len(y.events) - e = 0
    <3>1. ~(e < Len(y.events)) /\ ~(e < Len(x.events))
      BY <1>2, <1>9, <2>5 DEF IsNoop
    <3> QED
      BY <1>1, <1>7, <2>5, <3>1, SameEventsSameResult
  <2> QED
    BY <1>9, <2>3, <2>4, <2>5
<1>15. IterationsDelta(back) = 0 - IterationsDelta(d)
  BY <1>1, <1>5
<1>16. /\ Shape(d) = "noop" <=> Snapshot(x) = Snapshot(y)
       /\ Shape(d) = "progression" <=> Ext!IsStrictPrefix(x.events, y.events)
       /\ Shape(d) = "rewind" <=> Ext!IsStrictPrefix(y.events, x.events)
       /\ Shape(d) # "changed"
  BY <1>9, <1>10, <1>13, ShapeNames
<1>17. back.eventsAdded = d.eventsRemoved /\ back.stepsRemoved = d.stepsAdded
  BY <1>2, <1>4
<1> QED
  BY <1>6, <1>14, <1>15, <1>16, <1>17 DEF Narrates, d, back

(* A resumed result is its predecessor and whole iterations more, in each  *)
(* of which every agent has its turn, whatever it is called.               *)
LEMMA ResumeProgresses ==
    ASSUME NEW x, NEW y, IsWhole(x), IsWhole(y), Extends(y.events, x.events),
           Extends(y.steps, x.steps), y.iterations > x.iterations
    PROVE  LET d == DiffStates(x, y)
           IN  /\ Shape(d) = "progression"
               /\ Len(d.eventsAdded) = Len(d.stepsAdded)
               /\ Len(d.eventsAdded) = NumAgents * IterationsDelta(d)
               /\ \A name \in Namings :
                     AgentsEngaged(d, name) = {name[t] : t \in Turns}
<1> DEFINE d == DiffStates(x, y)
           e == CommonPrefixLength(x.events, y.events)
           p == CommonPrefixLength(x.steps, y.steps)
           l == Len(x.events)
           m == Len(y.events)
           i == x.iterations
           j == y.iterations
<1>1. /\ x.steps \in Seq(Step) /\ x.events \in Seq(Event)
      /\ y.steps \in Seq(Step) /\ y.events \in Seq(Event)
      /\ Len(x.steps) = l /\ Len(y.steps) = m
      /\ l \in Nat /\ m \in Nat /\ i \in Int /\ j \in Int
      /\ l = i * NumAgents /\ m = j * NumAgents
      /\ Numbered(y.events)
  BY WholeParts DEF Iterations
<1>2. /\ IsCommon(e, x.events, y.events) /\ IsCommon(p, x.steps, y.steps)
      /\ d.eventsAdded = From(y.events, e) /\ d.stepsAdded = From(y.steps, p)
      /\ Adds(d) <=> e < m
      /\ Removes(d) <=> e < l
  BY DiffParts
<1>3. IterationsDelta(d) = j - i
  BY DEF DiffStates, IterationsDelta
<1> HIDE DEF d, e, p
<1>4. l <= m /\ e = l /\ p = l
  <2>1. /\ l <= m
        /\ \A k \in 1 .. l : y.events[k] = x.events[k] /\ y.steps[k] = x.steps[k]
    BY <1>1 DEF Extends
  <2>2. e \in Nat /\ e <= l /\ p \in Nat /\ p <= l
    BY <1>1, <1>2 DEF IsCommon
  <2>3. ~(e < l)
    <3> SUFFICES ASSUME e < l PROVE FALSE
      OBVIOUS
    <3>1. e + 1 \in 1 .. l /\ e < m
      BY <1>1, <2>1, <2>2
    <3> QED
      BY <1>2, <2>1, <3>1 DEF IsCommon
  <2>4. ~(p < l)
    <3> SUFFICES ASSUME p < l PROVE FALSE
      OBVIOUS
    <3>1. p + 1 \in 1 .. l /\ p < m
      BY <1>1, <2>1, <2>2
    <3> QED
      BY <1>1, <1>2, <2>1, <3>1 DEF IsCommon
  <2> QED
    BY <1>1, <2>1, <2>2, <2>3, <2>4
<1>0. j > i
  OBVIOUS
<1> HIDE DEF l, m, i, j
<1>5. m - l = NumAgents * (j - i) /\ l + NumAgents <= m
  BY <1>0, <1>1, RowsApart
<1>6. l < m
  BY <1>1, <1>5
<1>7. Shape(d) = "progression"
  <2>1. Adds(d) /\ ~Removes(d)
    BY <1>1, <1>2, <1>4, <1>6
  <2> QED
    BY <2>1, ShapeNames
<1>8. l \in Nat /\ m \in Nat /\ m - l \in Nat /\ l \in 0 .. m
  BY <1>1, <1>4, <1>6
<1> DEFINE added == d.eventsAdded
<1>9. /\ Len(added) = m - l /\ Len(d.stepsAdded) = m - l
      /\ added \in Seq(Event)
      /\ \A k \in 1 .. m - l : added[k] = y.events[l + k]
  <2>1. ASSUME NEW X, NEW s \in Seq(X), Len(s) = m
        PROVE  /\ From(s, l) \in Seq(X) /\ Len(From(s, l)) = m - l
               /\ \A k \in 1 .. m - l : From(s, l)[k] = s[l + k]
    <3>1. l \in 0 .. Len(s)
      BY <1>8, <2>1
    <3>2. /\ From(s, l) \in Seq(X) /\ Len(From(s, l)) = Len(s) - l
          /\ \A k \in 1 .. Len(s) - l : From(s, l)[k] = s[l + k]
      BY <3>1, FromElements
    <3> QED
      BY <2>1, <3>2
  <2>2. y.events \in Seq(Event) /\ Len(y.events) = m /\ y.steps \in Seq(Step) /\ Len(y.steps) = m
    BY <1>1 DEF m
  <2>3. /\ From(y.events, l) \in Seq(Event) /\ Len(From(y.events, l)) = m - l
        /\ \A k \in 1 .. m - l : From(y.events, l)[k] = y.events[l + k]
    BY <2>1, <2>2
  <2>4. Len(From(y.steps, l)) = m - l
    BY <2>1, <2>2
  <2>5. added = From(y.events, l) /\ d.stepsAdded = From(y.steps, l)
    BY <1>2, <1>4
  <2> HIDE DEF added
  <2> QED
    BY <2>3, <2>4, <2>5
<1> HIDE DEF added
<1>10. /\ DOMAIN added = 1 .. m - l
       /\ \A k \in 1 .. m - l : added[k] \in Event
  BY <1>8, <1>9
<1>11. ASSUME NEW a \in Turns
       PROVE  \E k \in DOMAIN added : added[k].agent = a
  <2>1. a \in 1 .. NumAgents
    BY DEF Turns
  <2>2. a \in 1 .. m - l /\ l + a \in 1 .. m
    BY <1>5, <1>8, <2>1
  <2>3. /\ y.events \in Seq(Event) /\ Numbered(y.events) /\ i \in Int
        /\ l + a \in 1 .. Len(y.events) /\ l + a = i * NumAgents + a
    BY <1>1, <2>2 DEF m
  <2>4. y.events[l + a].agent = a
    <3>1. ASSUME NEW k \in 1 .. Len(y.events), k = i * NumAgents + a
          PROVE  y.events[k].agent = a
      BY <2>3, <3>1, TurnsPlace
    <3> QED
      BY <2>3, <3>1, Zenon
  <2>5. added[a] = y.events[l + a]
    BY <1>9, <2>2
  <2> QED
    BY <1>10, <2>2, <2>4, <2>5
<1>12. ASSUME NEW name \in Namings
       PROVE  AgentsEngaged(d, name) = {name[t] : t \in Turns}
  <2>1. \A k \in DOMAIN added : added[k].agent \in Turns
    BY <1>10 DEF Event
  <2>2. AgentsEngaged(d, name) = {name[added[k].agent] : k \in DOMAIN added}
    BY DEF AgentsEngaged, added
  <2> QED
    BY <1>11, <2>1, <2>2
<1>13. Len(d.eventsAdded) = NumAgents * IterationsDelta(d)
  BY <1>3, <1>5, <1>9 DEF added
<1>14. Len(d.eventsAdded) = Len(d.stepsAdded)
  BY <1>9 DEF added
<1> QED
  BY <1>7, <1>12, <1>13, <1>14 DEF d

(* The diff of the result a call leaves with the one held before narrates  *)
(* what the call did (see DiffNarrates).                                   *)
THEOREM DiffsNarrate == Spec => DiffNarrates
<1> DEFINE Narration ==
      (result # NoResult /\ phase = "validator" /\ phase' = "idle") =>
          LET d == DiffStates(result, result')
              back == DiffStates(result', result)
          IN  /\ Patched(result.steps, d.stepsRemoved, d.stepsAdded) = result'.steps
              /\ Patched(result.events, d.eventsRemoved, d.eventsAdded) = result'.events
              /\ back.eventsAdded = d.eventsRemoved /\ back.stepsRemoved = d.stepsAdded
              /\ IterationsDelta(back) = 0 - IterationsDelta(d)
              /\ Shape(d) = "noop" <=> Snapshot(result) = Snapshot(result')
              /\ Shape(d) = "progression" <=>
                    Ext!IsStrictPrefix(result.events, result'.events)
              /\ Shape(d) = "rewind" <=> Ext!IsStrictPrefix(result'.events, result.events)
              /\ Shape(d) # "changed"
              /\ Len(RenderDiff(d)) = 1 <=> IsNoop(d)
              /\ (method = "resume" /\ result' # result) =>
                    /\ Shape(d) = "progression"
                    /\ Len(d.eventsAdded) = Len(d.stepsAdded)
                    /\ Len(d.eventsAdded) = NumAgents * IterationsDelta(d)
                    /\ \A name \in Namings :
                          AgentsEngaged(d, name) = {name[t] : t \in Turns}
<1>1. LoopInv /\ [Next]_vars => [Narration]_vars
  <2> SUFFICES ASSUME LoopInv, [Next]_vars, result # NoResult,
                      phase = "validator", phase' = "idle"
               PROVE  Narration
    OBVIOUS
  <2>1. LoopInv'
    BY NextInv
  <2>2. result' # NoResult
    BY DEF Next, Call, Work, Run, Resume, Enter, ResumeCompleted, AgentReturns,
           CallRaises, NextIteration, ReturnCompleted, ReturnFailed, Return, NoResult, vars
  <2>3. IsWhole(result) /\ IsWhole(result')
    BY <2>1, <2>2, HeldIsWhole
  <2>4. Narrates(result, result')
    BY <2>3, WholeResultsNarrate
  <2>5. ASSUME method = "resume", result' # result
        PROVE  LET d == DiffStates(result, result')
               IN  /\ Shape(d) = "progression"
                   /\ Len(d.eventsAdded) = Len(d.stepsAdded)
                   /\ Len(d.eventsAdded) = NumAgents * IterationsDelta(d)
                   /\ \A name \in Namings :
                         AgentsEngaged(d, name) = {name[t] : t \in Turns}
    <3>1. /\ Extends(result'.events, result.events)
          /\ Extends(result'.steps, result.steps)
          /\ result'.iterations \in result.iterations + 1 .. limit
      BY <2>5, ResumedResult
    <3>2. result.iterations \in Int
      BY <2>3, WholeParts DEF Iterations
    <3>3. result'.iterations > result.iterations
      BY <3>1, <3>2
    <3> QED
      BY <2>3, <3>1, <3>3, ResumeProgresses
  <2> QED
    BY <2>4, <2>5 DEF Narrates
<1> QED
  BY <1>1, Invariance, PTL DEF Spec, DiffNarrates

-----------------------------------------------------------------------------
(* What loop_validation.py and loop_health_summary.py say of a result.     *)

(* A list has an element that passes a test, or none is counted.           *)
LEMMA CountedPlaces ==
    ASSUME NEW X, NEW s \in Seq(X), NEW T, T \subseteq DOMAIN s
    PROVE  IsFiniteSet(T) /\ Cardinality(T) \in Nat /\ (Cardinality(T) = 0 <=> T = {})
<1>1. IsFiniteSet(1 .. Len(s)) /\ DOMAIN s = 1 .. Len(s)
  <2>1. Len(s) \in Nat /\ DOMAIN s = 1 .. Len(s)
    OBVIOUS
  <2> QED
    BY <2>1, FS_Interval
<1>2. IsFiniteSet(T)
  BY <1>1, FS_Subset
<1> QED
  BY <1>2, FS_CardinalityType, FS_EmptySet

-----------------------------------------------------------------------------
(* The timeline of a result.                                               *)

Entry == [sequence : Nat, iteration : Nat, kind : TimelineKinds, agent : Nat,
          from : States \cup {None}, to : States \cup {None}, changed : BOOLEAN]

(* What the timeline holds at place p. *)
MarkerAt(p, i, kind, to) ==
    [sequence |-> p - 1, iteration |-> i, kind |-> kind, agent |-> NoAgent,
     from |-> None, to |-> to, changed |-> FALSE]

ActAt(p, e) ==
    [sequence |-> p - 1, iteration |-> e.iteration, kind |-> "agent_acted",
     agent |-> e.agent, from |-> e.input, to |-> e.output,
     changed |-> e.input # e.output]

(* The place where iteration i starts: each takes NumAgents + 2 places.    *)
Opening(i) == (i - 1) * (NumAgents + 2) + 2

(* Iterations open one after the other, none before place 2.               *)
LEMMA Openings ==
    /\ Opening(1) = 2
    /\ \A i \in Nat \ {0} : Opening(i) \in Nat /\ Opening(i) >= 2
                            /\ Opening(i + 1) = Opening(i) + NumAgents + 2
    /\ \A i, j \in Nat \ {0} : i < j => Opening(i) + NumAgents + 2 <= Opening(j)
<1> DEFINE w == NumAgents + 2
<1>1. w \in Nat \ {0} /\ w \in Int
  OBVIOUS
<1>2. Opening(1) = 2
  <2>1. (1 - 1) * w = 0
    BY <1>1
  <2> QED
    BY <2>1 DEF Opening
<1>3. ASSUME NEW i \in Nat \ {0}
      PROVE  Opening(i) \in Nat /\ Opening(i) >= 2 /\ Opening(i + 1) = Opening(i) + NumAgents + 2
  <2>0. i - 1 \in Nat /\ (i + 1) - 1 = (i - 1) + 1
    OBVIOUS
  <2>1. (i - 1) * w \in Nat
    BY <1>1, <2>0
  <2>2. ((i + 1) - 1) * w = (i - 1) * w + w
    BY <1>1, <2>0, OneMore
  <2> QED
    BY <2>1, <2>2 DEF Opening
<1>4. ASSUME NEW i \in Nat \ {0}, NEW j \in Nat \ {0}, i < j
      PROVE  Opening(i) + NumAgents + 2 <= Opening(j)
  <2>1. (i - 1) * w + w <= (j - 1) * w
    <3>1. i - 1 \in Int /\ j - 1 \in Int /\ i - 1 < j - 1
      BY <1>4
    <3> HIDE DEF w
    <3> QED
      BY <1>1, <3>1, RowsApart
  <2>2. (i - 1) * w \in Int /\ (j - 1) * w \in Int
    BY <1>1
  <2> QED
    BY <2>1, <2>2 DEF Opening
<1> QED
  BY <1>2, <1>3, <1>4

(* The markers and the turns, each at its place. *)
StartedAt(line, i) == line[Opening(i)] = MarkerAt(Opening(i), i, "iteration_started", None)

CompletedAt(line, i) ==
    line[Opening(i) + NumAgents + 1]
        = MarkerAt(Opening(i) + NumAgents + 1, i, "iteration_completed", None)

TurnAt(line, e) == line[Opening(e.iteration) + e.agent] = ActAt(Opening(e.iteration) + e.agent, e)

(* line is what build_timeline has after the first n events.               *)
Laid(line, evs, n) ==
    /\ line \in Seq(Entry)
    /\ Len(line) = Opening(evs[n].iteration) + evs[n].agent
    /\ line[1] = MarkerAt(1, 1, "run_started", evs[1].input)
    /\ \A i \in 1 .. evs[n].iteration : StartedAt(line, i)
    /\ \A i \in 1 .. evs[n].iteration - 1 : CompletedAt(line, i)
    /\ \A k \in 1 .. n : TurnAt(line, evs[k])

(* An entry more at the end.                                               *)
LEMMA EntryMore ==
    ASSUME NEW line \in Seq(Entry), NEW t \in Entry
    PROVE  /\ Append(line, t) \in Seq(Entry)
           /\ Len(Append(line, t)) = Len(line) + 1
           /\ Append(line, t)[Len(line) + 1] = t
           /\ \A p \in 1 .. Len(line) : Append(line, t)[p] = line[p]
           /\ Extends(Append(line, t), line)
BY DEF Extends

(* What is appended knows its place: a marker,                             *)
LEMMA MarkerEntry ==
    ASSUME NEW line \in Seq(Entry), NEW i \in Nat, NEW kind \in TimelineKinds,
           NEW to \in States \cup {None}
    PROVE  /\ Marker(line, i, kind, to) \in Entry
           /\ Marker(line, i, kind, to) = MarkerAt(Len(line) + 1, i, kind, to)
<1>1. Len(line) \in Nat /\ (Len(line) + 1) - 1 = Len(line)
  OBVIOUS
<1> QED
  BY <1>1 DEF Marker, MarkerAt, Entry, NoAgent

(* and a turn.                                                             *)
LEMMA ActEntry ==
    ASSUME NEW line \in Seq(Entry), NEW e \in Event
    PROVE  Acted(line, e) \in Entry /\ Acted(line, e) = ActAt(Len(line) + 1, e)
<1>1. Len(line) \in Nat /\ (Len(line) + 1) - 1 = Len(line)
  OBVIOUS
<1>2. /\ e.iteration \in Nat /\ e.agent \in Nat /\ e.input \in States /\ e.output \in States
  BY DEF Event, Iterations, Turns
<1> QED
  BY <1>1, <1>2 DEF Acted, ActAt, Entry, TimelineKinds

(* A longer timeline keeps what a shorter one holds.                       *)
LEMMA LaidKept ==
    ASSUME NEW old \in Seq(Entry), NEW new \in Seq(Entry), Extends(new, old)
    PROVE  /\ \A i \in Nat : Opening(i) \in 1 .. Len(old) /\ StartedAt(old, i) => StartedAt(new, i)
           /\ \A i \in Nat : Opening(i) + NumAgents + 1 \in 1 .. Len(old) /\ CompletedAt(old, i)
                                => CompletedAt(new, i)
           /\ \A e \in Event : Opening(e.iteration) + e.agent \in 1 .. Len(old) /\ TurnAt(old, e)
                                => TurnAt(new, e)
<1>1. \A p \in 1 .. Len(old) : new[p] = old[p]
  BY DEF Extends
<1> QED
  BY <1>1 DEF StartedAt, CompletedAt, TurnAt

(* Before an event in a chained history there are only earlier turns.      *)
LEMMA TurnsSoFar ==
    ASSUME NEW evs \in Seq(Event), Numbered(evs), NEW n \in 1 .. Len(evs), NEW k \in 1 .. n
    PROVE  /\ evs[k].iteration \in Nat \ {0} /\ evs[k].agent \in Turns
           /\ Opening(evs[k].iteration) + evs[k].agent \in 1 .. Opening(evs[n].iteration) + evs[n].agent
<1> DEFINE i == evs[k].iteration
           j == evs[n].iteration
           a == evs[k].agent
           b == evs[n].agent
<1>1. k \in 1 .. Len(evs) /\ k <= n /\ k \in Int /\ n \in Int
  OBVIOUS
<1>2. evs[k] \in Event /\ evs[n] \in Event
  BY <1>1
<1>3. i \in Nat \ {0} /\ j \in Nat \ {0} /\ a \in 1 .. NumAgents /\ b \in 1 .. NumAgents
  <2>1. \A e \in Event : e.iteration \in Nat \ {0} /\ e.agent \in 1 .. NumAgents
    BY DEF Event, Iterations, Turns
  <2> QED
    BY <1>2, <2>1
<1>4. (i - 1) * NumAgents + a = k /\ (j - 1) * NumAgents + b = n
  BY <1>1 DEF Numbered
<1> HIDE DEF i, j, a, b
<1>5. ~(j < i)
  <2> SUFFICES ASSUME j < i PROVE FALSE
    OBVIOUS
  <2>1. j - 1 \in Int /\ i - 1 \in Int /\ j - 1 < i - 1
    BY <1>3
  <2>2. (j - 1) * NumAgents + NumAgents <= (i - 1) * NumAgents
    BY <2>1, RowsApart
  <2>3. (j - 1) * NumAgents \in Int /\ (i - 1) * NumAgents \in Int
    BY <2>1
  <2> QED
    BY <1>1, <1>3, <1>4, <2>2, <2>3
<1>6. Opening(i) \in Nat /\ Opening(j) \in Nat /\ Opening(i) >= 2
  BY <1>3, Openings
<1>7. CASE i = j
  <2>1. (i - 1) * NumAgents \in Int
    BY <1>3
  <2>2. a <= b
    BY <1>1, <1>3, <1>4, <1>7, <2>1
  <2>3. Opening(i) + a \in 1 .. Opening(j) + b
    BY <1>3, <1>6, <1>7, <2>2
  <2> QED
    BY <1>3, <2>3 DEF i, j, a, b, Turns
<1>8. CASE i < j
  <2>1. Opening(i) + NumAgents + 2 <= Opening(j)
    BY <1>3, <1>8, Openings
  <2>2. Opening(i) + a \in 1 .. Opening(j) + b
    BY <1>3, <1>6, <2>1
  <2> QED
    BY <1>3, <2>2 DEF i, j, a, b, Turns
<1> QED
  BY <1>3, <1>5, <1>7, <1>8

(* A later iteration does not open earlier.                                *)
LEMMA OpeningsRise ==
    ASSUME NEW i \in Nat \ {0}, NEW j \in Nat \ {0}, i = j \/ i < j
    PROVE  Opening(i) \in Nat /\ Opening(i) >= 2 /\ Opening(i) <= Opening(j)
<1>1. /\ Opening(i) \in Nat /\ Opening(i) >= 2 /\ Opening(j) \in Nat
  BY Openings
<1>2. CASE i = j
  BY <1>1, <1>2
<1>3. CASE i < j
  <2>1. Opening(i) + NumAgents + 2 <= Opening(j)
    BY <1>3, Openings
  <2> QED
    BY <1>1, <2>1
<1> QED
  BY <1>2, <1>3

(* The first event opens iteration 1.                                      *)
LEMMA FirstLaid ==
    ASSUME NEW evs \in Seq(Event), evs # << >>, evs[1].agent = 1, evs[1].iteration = 1,
           NEW acc, acc.line = <<Marker(<< >>, 1, "run_started", evs[1].input)>>,
           acc.open = NoIteration
    PROVE  /\ Laid(AddEvent(acc, evs[1]).line, evs, 1)
           /\ AddEvent(acc, evs[1]).open = 1
<1> DEFINE t == Marker(<< >>, 1, "run_started", evs[1].input)
           one == acc.line
           two == Append(one, Marker(one, 1, "iteration_started", None))
           three == Append(two, Acted(two, evs[1]))
<1>1. evs[1] \in Event /\ evs[1].input \in States
  <2>1. 1 \in 1 .. Len(evs)
    OBVIOUS
  <2>2. evs[1] \in Event
    BY <2>1
  <2> QED
    BY <2>2 DEF Event
<1>2. t \in Entry /\ t = MarkerAt(1, 1, "run_started", evs[1].input)
  <2>1. ASSUME NEW line \in Seq(Entry), Len(line) = 0
        PROVE  /\ Marker(line, 1, "run_started", evs[1].input) \in Entry
               /\ Marker(line, 1, "run_started", evs[1].input)
                     = MarkerAt(1, 1, "run_started", evs[1].input)
    <3>1. "run_started" \in TimelineKinds /\ 1 \in Nat /\ Len(line) + 1 = 1
      BY <2>1 DEF TimelineKinds
    <3>2. evs[1].input \in States \cup {None}
      BY <1>1
    <3> QED
      BY <3>1, <3>2, MarkerEntry
  <2>2. << >> \in Seq(Entry) /\ Len(<< >>) = 0
    OBVIOUS
  <2> QED
    BY <2>1, <2>2, Zenon
<1>3. one \in Seq(Entry) /\ Len(one) = 1 /\ one[1] = t
  <2> HIDE DEF t
  <2>1. one = <<t>>
    BY DEF t
  <2> HIDE DEF one
  <2> QED
    BY <1>2, <2>1
<1> HIDE DEF t, one
<1>4. /\ two \in Seq(Entry) /\ Len(two) = 2 /\ two[1] = t
      /\ two[2] = MarkerAt(2, 1, "iteration_started", None)
  <2> DEFINE m == Marker(one, 1, "iteration_started", None)
  <2>1. m \in Entry /\ m = MarkerAt(2, 1, "iteration_started", None)
    <3>1. /\ "iteration_started" \in TimelineKinds /\ 1 \in Nat
          /\ None \in States \cup {None} /\ Len(one) + 1 = 2
      BY <1>3 DEF TimelineKinds
    <3>2. /\ Marker(one, 1, "iteration_started", None) \in Entry
          /\ Marker(one, 1, "iteration_started", None)
                = MarkerAt(Len(one) + 1, 1, "iteration_started", None)
      BY <1>3, <3>1, MarkerEntry, Zenon
    <3> QED
      BY <3>1, <3>2
  <2> HIDE DEF m
  <2>2. /\ two \in Seq(Entry) /\ Len(two) = Len(one) + 1
        /\ two[Len(one) + 1] = m
        /\ \A p \in 1 .. Len(one) : two[p] = one[p]
    BY <1>3, <2>1, EntryMore DEF m
  <2> HIDE DEF two
  <2> QED
    BY <1>3, <2>1, <2>2
<1> HIDE DEF two
<1>5. /\ three \in Seq(Entry) /\ Len(three) = 3 /\ three[1] = t /\ three[2] = two[2]
      /\ three[3] = ActAt(3, evs[1])
  <2> DEFINE m == Acted(two, evs[1])
  <2>1. m \in Entry /\ m = ActAt(3, evs[1])
    <3>1. Len(two) + 1 = 3
      BY <1>4
    <3> QED
      BY <1>1, <1>4, <3>1, ActEntry
  <2> HIDE DEF m
  <2>2. /\ three \in Seq(Entry) /\ Len(three) = Len(two) + 1
        /\ three[Len(two) + 1] = m
        /\ \A p \in 1 .. Len(two) : three[p] = two[p]
    BY <1>4, <2>1, EntryMore DEF m
  <2> HIDE DEF three
  <2> QED
    BY <1>4, <2>1, <2>2
<1> HIDE DEF three
<1>6. AddEvent(acc, evs[1]).line = three /\ AddEvent(acc, evs[1]).open = 1
  BY DEF AddEvent, Close, NoIteration, one, two, three
<1>7. Opening(1) = 2
  BY Openings
<1>8. /\ StartedAt(three, 1) /\ TurnAt(three, evs[1])
      /\ Len(three) = Opening(evs[1].iteration) + evs[1].agent
  BY <1>4, <1>5, <1>7 DEF StartedAt, TurnAt
<1>9. Laid(three, evs, 1)
  <2>1. /\ three \in Seq(Entry) /\ three[1] = MarkerAt(1, 1, "run_started", evs[1].input)
    BY <1>2, <1>5
  <2>2. \A i \in 1 .. evs[1].iteration : StartedAt(three, i)
    BY <1>8
  <2>3. \A i \in 1 .. evs[1].iteration - 1 : CompletedAt(three, i)
    OBVIOUS
  <2>4. \A k \in 1 .. 1 : TurnAt(three, evs[k])
    BY <1>8
  <2> QED
    BY <1>8, <2>1, <2>2, <2>3, <2>4 DEF Laid
<1> QED
  BY <1>6, <1>9

(* A turn of the iteration under way is laid after it.                     *)
LEMMA TurnLaid ==
    ASSUME NEW evs \in Seq(Event), Numbered(evs), NEW n \in 1 .. Len(evs) - 1,
           NEW acc, Laid(acc.line, evs, n), acc.open = evs[n].iteration,
           evs[n + 1].agent = evs[n].agent + 1, evs[n + 1].iteration = evs[n].iteration
    PROVE  /\ Laid(AddEvent(acc, evs[n + 1]).line, evs, n + 1)
           /\ AddEvent(acc, evs[n + 1]).open = evs[n + 1].iteration
<1> DEFINE old == acc.line
           e == evs[n]
           f == evs[n + 1]
           new == Append(old, Acted(old, f))
<1>1. n \in 1 .. Len(evs) /\ n + 1 \in 1 .. Len(evs) /\ n \in Nat
  OBVIOUS
<1>2. e \in Event /\ f \in Event
  BY <1>1
<1>3. e.iteration \in Nat \ {0} /\ e.agent \in Nat
  <2>1. \A g \in Event : g.iteration \in Iterations /\ g.agent \in Turns
    BY DEF Event
  <2>2. \A i \in Iterations : i \in Nat \ {0}
    BY DEF Iterations
  <2>3. \A a \in Turns : a \in Nat
    BY DEF Turns
  <2> HIDE DEF e
  <2> QED
    BY <1>2, <2>1, <2>2, <2>3
<1>4. /\ old \in Seq(Entry) /\ Len(old) = Opening(e.iteration) + e.agent
      /\ old[1] = MarkerAt(1, 1, "run_started", evs[1].input)
      /\ \A i \in 1 .. e.iteration : StartedAt(old, i)
      /\ \A i \in 1 .. e.iteration - 1 : CompletedAt(old, i)
      /\ \A k \in 1 .. n : TurnAt(old, evs[k])
  BY DEF Laid
<1>5. AddEvent(acc, f).line = new /\ AddEvent(acc, f).open = f.iteration
  BY DEF AddEvent
<1>6. Acted(old, f) \in Entry /\ Acted(old, f) = ActAt(Len(old) + 1, f)
  BY <1>2, <1>4, ActEntry
<1> HIDE DEF old, e, f
<1>7. /\ new \in Seq(Entry) /\ Len(new) = Len(old) + 1
      /\ new[Len(old) + 1] = ActAt(Len(old) + 1, f)
      /\ \A p \in 1 .. Len(old) : new[p] = old[p]
      /\ Extends(new, old)
  BY <1>4, <1>6, EntryMore
<1> HIDE DEF new
<1>8. f.agent = e.agent + 1 /\ f.iteration = e.iteration
  BY DEF e, f
<1>9. Opening(e.iteration) \in Nat /\ Opening(e.iteration) >= 2
  BY <1>3, Openings
<1>10. Len(old) + 1 = Opening(f.iteration) + f.agent
  BY <1>3, <1>4, <1>8, <1>9
<1>11. new[1] = old[1]
  BY <1>3, <1>4, <1>7, <1>9
<1>12. ASSUME NEW i \in 1 .. e.iteration
       PROVE  StartedAt(new, i)
  <2>1. i \in Nat \ {0} /\ (i = e.iteration \/ i < e.iteration)
    BY <1>3
  <2>2. Opening(i) \in Nat /\ Opening(i) >= 2 /\ Opening(i) <= Opening(e.iteration)
    BY <1>3, <2>1, OpeningsRise
  <2>3. Opening(i) \in 1 .. Len(old)
    BY <1>3, <1>4, <1>9, <2>2
  <2>4. StartedAt(old, i)
    BY <1>4
  <2> QED
    BY <1>4, <1>7, <2>1, <2>3, <2>4, LaidKept
<1>13. ASSUME NEW i \in 1 .. e.iteration - 1
       PROVE  CompletedAt(new, i)
  <2>1. i \in Nat \ {0} /\ i < e.iteration
    BY <1>3
  <2>2. Opening(i) \in Nat /\ Opening(i) + NumAgents + 2 <= Opening(e.iteration)
    BY <1>3, <2>1, Openings
  <2>3. Opening(i) + NumAgents + 1 \in 1 .. Len(old)
    <3> DEFINE p == Opening(i)
               q == Opening(e.iteration)
    <3>1. Len(old) = q + e.agent /\ e.agent \in Nat /\ q \in Nat
      BY <1>3, <1>4, <1>9
    <3>2. p \in Nat /\ p + NumAgents + 2 <= q
      BY <2>2
    <3> HIDE DEF p, q
    <3>3. p + NumAgents + 1 \in 1 .. q + e.agent
      BY <3>1, <3>2
    <3> QED
      BY <3>1, <3>3 DEF p
  <2>4. CompletedAt(old, i)
    BY <1>4
  <2> QED
    BY <1>4, <1>7, <2>1, <2>3, <2>4, LaidKept
<1>14. ASSUME NEW k \in 1 .. n
       PROVE  TurnAt(new, evs[k])
  <2>1. Opening(evs[k].iteration) + evs[k].agent \in 1 .. Len(old)
    BY <1>1, <1>4, TurnsSoFar DEF e
  <2>2. evs[k] \in Event /\ TurnAt(old, evs[k])
    BY <1>1, <1>4
  <2> QED
    BY <1>4, <1>7, <2>1, <2>2, LaidKept
<1>15. TurnAt(new, f)
  BY <1>7, <1>10 DEF TurnAt
<1>16. Laid(new, evs, n + 1)
  <2>1. \A k \in 1 .. n + 1 : TurnAt(new, evs[k])
    <3>1. \A k \in 1 .. n + 1 : k \in 1 .. n \/ k = n + 1
      BY <1>1
    <3> QED
      BY <1>14, <1>15, <3>1 DEF f
  <2>2. Len(new) = Opening(f.iteration) + f.agent
    BY <1>7, <1>10
  <2>3. new[1] = MarkerAt(1, 1, "run_started", evs[1].input)
    BY <1>4, <1>11
  <2>4. evs[n + 1] = f
    BY DEF f
  <2> QED
    BY <1>7, <1>8, <1>12, <1>13, <2>1, <2>2, <2>3, <2>4 DEF Laid
<1> QED
  BY <1>5, <1>16 DEF f

(* The first turn of an iteration is laid after the end of the one before  *)
(* and the start of its own.                                               *)
LEMMA IterationLaid ==
    ASSUME NEW evs \in Seq(Event), Numbered(evs), NEW n \in 1 .. Len(evs) - 1,
           NEW acc, Laid(acc.line, evs, n), acc.open = evs[n].iteration,
           evs[n].agent = NumAgents, evs[n + 1].agent = 1,
           evs[n + 1].iteration = evs[n].iteration + 1
    PROVE  /\ Laid(AddEvent(acc, evs[n + 1]).line, evs, n + 1)
           /\ AddEvent(acc, evs[n + 1]).open = evs[n + 1].iteration
<1> DEFINE old == acc.line
           i == evs[n].iteration
           f == evs[n + 1]
           l == Len(old)
           closed == Append(old, Marker(old, i, "iteration_completed", None))
           begun == Append(closed, Marker(closed, i + 1, "iteration_started", None))
           new == Append(begun, Acted(begun, f))
<1>1. n \in 1 .. Len(evs) /\ n + 1 \in 1 .. Len(evs) /\ n \in Nat
  OBVIOUS
<1>2. evs[n] \in Event /\ f \in Event
  BY <1>1
<1>3. i \in Nat \ {0} /\ i + 1 \in Nat \ {0}
  <2>1. \A e \in Event : e.iteration \in Nat \ {0}
    BY DEF Event, Iterations
  <2>2. i \in Nat \ {0}
    BY <1>2, <2>1
  <2> HIDE DEF i
  <2> QED
    BY <2>2
<1>4. /\ old \in Seq(Entry) /\ l = Opening(i) + NumAgents
      /\ old[1] = MarkerAt(1, 1, "run_started", evs[1].input)
      /\ \A j \in 1 .. i : StartedAt(old, j)
      /\ \A j \in 1 .. i - 1 : CompletedAt(old, j)
      /\ \A k \in 1 .. n : TurnAt(old, evs[k])
  BY DEF Laid
<1>5. AddEvent(acc, f).line = new /\ AddEvent(acc, f).open = f.iteration
  <2>1. f.iteration = i + 1 /\ acc.open = i /\ i # i + 1 /\ i # 0
    BY <1>3
  <2> HIDE DEF f, i
  <2> QED
    BY <2>1 DEF AddEvent, Close, NoIteration
<1>6. f.agent = 1 /\ f.iteration = i + 1
  OBVIOUS
<1> HIDE DEF f, i, old
<1>7. /\ Opening(i) \in Nat /\ Opening(i) >= 2 /\ l \in Nat
      /\ Opening(i + 1) = l + 2 /\ l = Opening(i) + NumAgents
  <2>1. Opening(i) \in Nat /\ Opening(i) >= 2 /\ Opening(i + 1) = Opening(i) + NumAgents + 2
    BY <1>3, Openings
  <2> QED
    BY <1>4, <2>1
<1>8. /\ "iteration_completed" \in TimelineKinds /\ "iteration_started" \in TimelineKinds
      /\ None \in States \cup {None} /\ i \in Nat /\ i + 1 \in Nat
  BY <1>3 DEF TimelineKinds
<1>9. /\ closed \in Seq(Entry) /\ Len(closed) = l + 1
      /\ closed[l + 1] = MarkerAt(l + 1, i, "iteration_completed", None)
      /\ \A p \in 1 .. l : closed[p] = old[p]
  <2>1. /\ Marker(old, i, "iteration_completed", None) \in Entry
        /\ Marker(old, i, "iteration_completed", None)
              = MarkerAt(l + 1, i, "iteration_completed", None)
    BY <1>4, <1>8, MarkerEntry
  <2> QED
    BY <1>4, <2>1, EntryMore
<1> HIDE DEF l, closed
<1>10. /\ begun \in Seq(Entry) /\ Len(begun) = l + 2
       /\ begun[l + 2] = MarkerAt(l + 2, i + 1, "iteration_started", None)
       /\ \A p \in 1 .. l + 1 : begun[p] = closed[p]
  <2>1. /\ Marker(closed, i + 1, "iteration_started", None) \in Entry
        /\ Marker(closed, i + 1, "iteration_started", None)
              = MarkerAt(Len(closed) + 1, i + 1, "iteration_started", None)
    BY <1>8, <1>9, MarkerEntry
  <2>2. Len(closed) + 1 = l + 2
    BY <1>7, <1>9
  <2>3. /\ begun \in Seq(Entry) /\ Len(begun) = Len(closed) + 1
        /\ begun[Len(closed) + 1] = Marker(closed, i + 1, "iteration_started", None)
        /\ \A p \in 1 .. Len(closed) : begun[p] = closed[p]
    BY <1>9, <2>1, EntryMore
  <2> HIDE DEF begun
  <2> QED
    BY <1>9, <2>1, <2>2, <2>3
<1> HIDE DEF begun
<1>11. /\ new \in Seq(Entry) /\ Len(new) = l + 3
       /\ new[l + 3] = ActAt(l + 3, f)
       /\ \A p \in 1 .. l + 2 : new[p] = begun[p]
  <2>1. Acted(begun, f) \in Entry /\ Acted(begun, f) = ActAt(Len(begun) + 1, f)
    BY <1>2, <1>10, ActEntry
  <2>2. Len(begun) + 1 = l + 3
    BY <1>7, <1>10
  <2>3. /\ new \in Seq(Entry) /\ Len(new) = Len(begun) + 1
        /\ new[Len(begun) + 1] = Acted(begun, f)
        /\ \A p \in 1 .. Len(begun) : new[p] = begun[p]
    BY <1>10, <2>1, EntryMore
  <2> HIDE DEF new
  <2> QED
    BY <1>10, <2>1, <2>2, <2>3
<1> HIDE DEF new
<1>12. /\ \A p \in 1 .. l : new[p] = old[p]
       /\ new[l + 1] = MarkerAt(l + 1, i, "iteration_completed", None)
       /\ new[l + 2] = MarkerAt(l + 2, i + 1, "iteration_started", None)
  <2>0. l \in Nat
    BY <1>7
  <2>1. \A p \in 1 .. l : p \in 1 .. l + 1 /\ p \in 1 .. l + 2
    BY <2>0
  <2>2. l + 1 \in 1 .. l + 1 /\ l + 1 \in 1 .. l + 2 /\ l + 2 \in 1 .. l + 2
    BY <2>0
  <2>3. \A p \in 1 .. l : new[p] = old[p]
    BY <1>9, <1>10, <1>11, <2>1, Zenon
  <2>4. new[l + 1] = MarkerAt(l + 1, i, "iteration_completed", None)
    BY <1>9, <1>10, <1>11, <2>2, Zenon
  <2>5. new[l + 2] = MarkerAt(l + 2, i + 1, "iteration_started", None)
    BY <1>10, <1>11, <2>2, Zenon
  <2> QED
    BY <2>3, <2>4, <2>5, Zenon
<1>13. Extends(new, old)
  <2>1. l = Len(old)
    BY DEF l
  <2>2. l <= Len(new)
    BY <1>7, <1>11
  <2>3. \A p \in 1 .. l : new[p] = old[p]
    BY <1>12
  <2> QED
    BY <2>1, <2>2, <2>3, Zenon DEF Extends
<1>14. new[1] = old[1]
  BY <1>4, <1>7, <1>12
<1>15. ASSUME NEW j \in 1 .. i + 1
       PROVE  StartedAt(new, j)
  <2>1. CASE j = i + 1
    BY <1>7, <1>12, <2>1 DEF StartedAt
  <2>2. CASE j # i + 1
    <3>1. j \in 1 .. i /\ j \in Nat \ {0} /\ (j = i \/ j < i)
      BY <1>3, <2>2
    <3>2. Opening(j) \in Nat /\ Opening(j) >= 2 /\ Opening(j) <= Opening(i)
      BY <1>3, <3>1, OpeningsRise
    <3>3. Opening(j) \in 1 .. l
      BY <1>7, <3>2
    <3>4. StartedAt(old, j)
      BY <1>4, <3>1
    <3> QED
      BY <1>4, <1>11, <1>13, <3>1, <3>3, <3>4, LaidKept DEF l
  <2> QED
    BY <2>1, <2>2
<1>16. ASSUME NEW j \in 1 .. i
       PROVE  CompletedAt(new, j)
  <2>1. CASE j = i
    <3>1. Opening(i) + NumAgents + 1 = l + 1
      BY <1>4
    <3> QED
      BY <1>12, <2>1, <3>1 DEF CompletedAt
  <2>2. CASE j # i
    <3>1. j \in 1 .. i - 1 /\ j \in Nat \ {0} /\ j < i
      BY <1>3, <2>2
    <3>2. Opening(j) \in Nat /\ Opening(j) + NumAgents + 2 <= Opening(i)
      BY <1>3, <3>1, Openings
    <3>3. Opening(j) + NumAgents + 1 \in 1 .. l
      <4> DEFINE a == Opening(j)
                 b == Opening(i)
      <4>1. a \in Nat /\ b \in Nat /\ a + NumAgents + 2 <= b /\ l = b + NumAgents
        BY <1>7, <3>2
      <4> HIDE DEF a, b
      <4>2. a + NumAgents + 1 \in 1 .. l
        BY <4>1
      <4> QED
        BY <4>2 DEF a
    <3>4. CompletedAt(old, j)
      BY <1>4, <3>1
    <3> QED
      BY <1>4, <1>11, <1>13, <3>1, <3>3, <3>4, LaidKept DEF l
  <2> QED
    BY <2>1, <2>2
<1>17. ASSUME NEW k \in 1 .. n
       PROVE  TurnAt(new, evs[k])
  <2>1. Opening(evs[k].iteration) + evs[k].agent \in 1 .. l
    BY <1>1, <1>4, TurnsSoFar DEF i
  <2>2. evs[k] \in Event /\ TurnAt(old, evs[k])
    BY <1>1, <1>4
  <2> QED
    BY <1>4, <1>11, <1>13, <2>1, <2>2, LaidKept DEF l
<1>18. Opening(f.iteration) + f.agent = l + 3
  BY <1>6, <1>7
<1>19. TurnAt(new, f)
  BY <1>11, <1>18 DEF TurnAt
<1>20. Laid(new, evs, n + 1)
  <2>1. \A k \in 1 .. n + 1 : TurnAt(new, evs[k])
    <3>1. \A k \in 1 .. n + 1 : k \in 1 .. n \/ k = n + 1
      BY <1>1
    <3> QED
      BY <1>17, <1>19, <3>1 DEF f
  <2>2. Len(new) = Opening(f.iteration) + f.agent
    BY <1>11, <1>18
  <2>3. new[1] = MarkerAt(1, 1, "run_started", evs[1].input)
    BY <1>4, <1>14
  <2>4. evs[n + 1] = f /\ f.iteration - 1 = i
    BY <1>3, <1>6 DEF f
  <2> QED
    BY <1>6, <1>11, <1>15, <1>16, <2>1, <2>2, <2>3, <2>4 DEF Laid
<1> QED
  BY <1>5, <1>20 DEF f

(* f is what build_timeline accumulates over the first l events of s.      *)
IsAccumulated(f, opening, s, l) ==
    f = [n \in 0 .. l |-> IF n = 0 THEN opening ELSE AddEvent(f[n - 1], s[n])]

(* What build_timeline accumulates over a list of events exists.           *)
LEMMA Accumulation ==
    ASSUME NEW opening, NEW s, NEW l \in Nat
    PROVE  \E f : IsAccumulated(f, opening, s, l)
<1> DEFINE Up(m, f) == \A n \in 0 .. m : f[n] = IF n = 0 THEN opening ELSE AddEvent(f[n - 1], s[n])
           T == {m \in Nat : \E f : Up(m, f)}
<1>1. 0 \in T
  <2>1. Up(0, [n \in 0 .. 0 |-> opening])
    OBVIOUS
  <2> QED
    BY <2>1
<1>2. ASSUME NEW m \in T
      PROVE  m + 1 \in T
  <2>1. m \in Nat /\ m + 1 \in Nat
    OBVIOUS
  <2>2. PICK f : Up(m, f)
    OBVIOUS
  <2> DEFINE g == [n \in 0 .. m + 1 |-> IF n <= m THEN f[n] ELSE AddEvent(f[m], s[m + 1])]
  <2>3. ASSUME NEW n \in 0 .. m + 1
        PROVE  g[n] = IF n = 0 THEN opening ELSE AddEvent(g[n - 1], s[n])
    <3>1. CASE n <= m
      <4>1. n \in 0 .. m /\ g[n] = f[n] /\ (n # 0 => g[n - 1] = f[n - 1])
        BY <2>1, <3>1
      <4> QED
        BY <2>2, <4>1
    <3>2. CASE n = m + 1
      <4>1. n # 0 /\ g[n] = AddEvent(f[m], s[m + 1]) /\ g[n - 1] = f[m]
        BY <2>1, <3>2
      <4> QED
        BY <3>2, <4>1
    <3> QED
      BY <2>1, <3>1, <3>2
  <2> HIDE DEF g
  <2>4. Up(m + 1, g)
    BY <2>3
  <2> QED
    BY <2>1, <2>4
<1> HIDE DEF T
<1>3. T = Nat
  <2>1. T \subseteq Nat
    BY DEF T
  <2> QED
    BY <1>1, <1>2, <2>1, NatSetInduction
<1>4. PICK f : Up(l, f)
  BY <1>3 DEF T
<1> DEFINE h == [n \in 0 .. l |-> f[n]]
<1>5. ASSUME NEW n \in 0 .. l
      PROVE  h[n] = IF n = 0 THEN opening ELSE AddEvent(h[n - 1], s[n])
  <2>1. h[n] = f[n] /\ (n # 0 => h[n - 1] = f[n - 1])
    OBVIOUS
  <2> QED
    BY <1>4, <2>1
<1>6. h = [n \in 0 .. l |-> h[n]]
  OBVIOUS
<1> HIDE DEF h
<1>7. h = [n \in 0 .. l |-> IF n = 0 THEN opening ELSE AddEvent(h[n - 1], s[n])]
  BY <1>5, <1>6
<1> QED
  BY <1>7 DEF IsAccumulated

(* after[n] is what build_timeline has accumulated after n events.         *)
Accumulates(after, opening, evs) ==
    /\ after[0] = opening
    /\ \A n \in 1 .. Len(evs) : after[n] = AddEvent(after[n - 1], evs[n])

(* The events of a whole result are laid one after the other.              *)
LEMMA BodyLaid ==
    ASSUME NEW evs \in Seq(Event), NEW from, NEW to, Chained(evs, from, to), evs # << >>,
           NEW opening, NEW after, Accumulates(after, opening, evs),
           opening.line = <<Marker(<< >>, 1, "run_started", evs[1].input)>>,
           opening.open = NoIteration
    PROVE  /\ Laid(after[Len(evs)].line, evs, Len(evs))
           /\ after[Len(evs)].open = evs[Len(evs)].iteration
<1> DEFINE Right(n) == Laid(after[n].line, evs, n) /\ after[n].open = evs[n].iteration
           T == {n \in Nat : n + 1 <= Len(evs) => Right(n + 1)}
<1>0. Numbered(evs) /\ Len(evs) \in Nat /\ 1 \in 1 .. Len(evs)
  BY ChainedNumbered
<1>1. 0 \in T
  <2>1. after[1] = AddEvent(opening, evs[1])
    <3>1. after[1] = AddEvent(after[1 - 1], evs[1])
      BY <1>0 DEF Accumulates
    <3>2. after[0] = opening /\ 1 - 1 = 0
      BY DEF Accumulates
    <3> QED
      BY <3>1, <3>2
  <2>2. evs[1].agent = 1 /\ evs[1].iteration = 1
    BY DEF Chained
  <2>3. Laid(AddEvent(opening, evs[1]).line, evs, 1) /\ AddEvent(opening, evs[1]).open = 1
    BY <2>2, FirstLaid
  <2>4. Right(1)
    BY <2>1, <2>2, <2>3
  <2> HIDE DEF Right
  <2> QED
    BY <2>4
<1>2. ASSUME NEW n \in T
      PROVE  n + 1 \in T
  <2> DEFINE m == n + 1
  <2>1. n \in Nat /\ m \in Nat /\ Len(evs) \in Nat
    OBVIOUS
  <2>2. ASSUME m + 1 <= Len(evs)
        PROVE  Right(m + 1)
    <3>1. m \in 1 .. Len(evs) - 1 /\ m \in 1 .. Len(evs) /\ m + 1 \in 1 .. Len(evs) /\ m <= Len(evs)
      BY <2>1, <2>2
    <3>2. Right(m)
      BY <1>2, <3>1
    <3>3. evs[m] \in Event /\ evs[m + 1] \in Event /\ Follows(evs[m], evs[m + 1])
      BY <3>1 DEF Chained
    <3>4. after[m + 1] = AddEvent(after[m], evs[m + 1])
      <4>1. after[m + 1] = AddEvent(after[(m + 1) - 1], evs[m + 1])
        BY <3>1 DEF Accumulates
      <4>2. (m + 1) - 1 = m
        BY <2>1
      <4> QED
        BY <4>1, <4>2
    <3> HIDE DEF m
    <3>5. CASE evs[m].agent < NumAgents /\ evs[m + 1].agent = evs[m].agent + 1
               /\ evs[m + 1].iteration = evs[m].iteration
      BY <1>0, <3>1, <3>2, <3>4, <3>5, TurnLaid
    <3>6. CASE evs[m].agent = NumAgents /\ evs[m + 1].agent = 1
               /\ evs[m + 1].iteration = evs[m].iteration + 1
      BY <1>0, <3>1, <3>2, <3>4, <3>6, IterationLaid
    <3> QED
      BY <3>3, <3>5, <3>6 DEF Follows
  <2> HIDE DEF Right
  <2> QED
    BY <2>1, <2>2
<1>3. T = Nat
  <2>1. T \subseteq Nat
    OBVIOUS
  <2> HIDE DEF T
  <2> QED
    BY <1>1, <1>2, <2>1, NatSetInduction
<1>4. Right(Len(evs))
  <2>1. Len(evs) - 1 \in Nat /\ (Len(evs) - 1) + 1 = Len(evs)
    BY <1>0
  <2>2. Len(evs) - 1 \in T
    BY <1>3, <2>1
  <2> HIDE DEF Right
  <2> QED
    BY <1>0, <2>1, <2>2
<1> QED
  BY <1>4

(* A whole timeline: run_started, every iteration between its markers,     *)
(* every turn in its iteration, and the terminal event.                    *)
Terminal(r) == IF r.status = "completed" THEN "run_completed" ELSE "run_failed"

WholeTimeline(line, r) ==
    /\ line \in Seq(Entry)
    /\ Len(line) = Opening(r.iterations + 1)
    /\ line[1] = MarkerAt(1, 1, "run_started", r.origin)
    /\ line[Len(line)] = MarkerAt(Len(line), r.iterations, Terminal(r), r.final)
    /\ \A i \in 1 .. r.iterations : StartedAt(line, i) /\ CompletedAt(line, i)
    /\ \A k \in 1 .. Len(r.events) : TurnAt(line, r.events[k])

(* The timeline ends with the end of its last iteration and the terminal   *)
(* event.                                                                  *)
LEMMA TimelineEnds ==
    ASSUME NEW r, IsWhole(r)
    PROVE  \E body : LET done == Append(body, Marker(body, r.iterations, "iteration_completed", None))
                     IN  /\ Laid(body, r.events, Len(r.events))
                         /\ Timeline(r) = Append(done, Marker(done, r.iterations, Terminal(r), r.final))
<1> DEFINE l == Len(r.events)
           first == IF r.events = << >> THEN 0 ELSE r.events[1].iteration
           initial == IF r.events = << >> THEN r.final ELSE r.events[1].input
           opening == [line |-> <<Marker(<< >>, first, "run_started", initial)>>,
                       open |-> NoIteration]
           F(f) == f = [n \in 0 .. l |-> IF n = 0 THEN opening ELSE AddEvent(f[n - 1], r.events[n])]
           after == CHOOSE f : F(f)
           body == after[l]
           line == Close(body.line, body.open)
           last == IF body.open = NoIteration THEN first ELSE body.open
<1>1. /\ r.events \in Seq(Event) /\ r.events # << >> /\ r.iterations \in Nat \ {0}
      /\ Chained(r.events, r.origin, r.final) /\ r.events[l].iteration = r.iterations
      /\ l \in Nat /\ l # 0
  <2>1. r.events \in Seq(Event) /\ r.events # << >> /\ r.iterations \in Nat \ {0}
    BY WholeParts DEF Iterations
  <2>2. Chained(r.events, r.origin, r.final) /\ r.events[l].iteration = r.iterations
    BY DEF IsWhole, EndsAt
  <2> QED
    BY <2>1, <2>2
<1>2. Timeline(r) = Append(line, Marker(line, last, Terminal(r), r.final))
  BY DEF Timeline, Terminal
<1>3. F(after)
  <2>1. \E f : F(f)
    <3>1. l \in Nat
      BY <1>1
    <3> HIDE DEF l, opening
    <3>2. \E f : IsAccumulated(f, opening, r.events, l)
      BY <3>1, Accumulation
    <3> QED
      BY <3>2 DEF IsAccumulated
  <2> HIDE DEF F
  <2> QED
    BY <2>1
<1>4. opening.line = <<Marker(<< >>, 1, "run_started", r.events[1].input)>>
      /\ opening.open = NoIteration
  BY <1>1 DEF Chained
<1> HIDE DEF opening, after
<1>5. Accumulates(after, opening, r.events)
  <2>1. ASSUME NEW n \in 0 .. l
        PROVE  after[n] = IF n = 0 THEN opening ELSE AddEvent(after[n - 1], r.events[n])
    BY <1>3
  <2>2. 0 \in 0 .. l /\ \A n \in 1 .. l : n \in 0 .. l /\ n # 0
    BY <1>1
  <2> QED
    BY <2>1, <2>2, Zenon DEF Accumulates
<1>6. Laid(body.line, r.events, l) /\ body.open = r.iterations
  <2>1. /\ Laid(after[Len(r.events)].line, r.events, Len(r.events))
        /\ after[Len(r.events)].open = r.events[Len(r.events)].iteration
    BY <1>1, <1>4, <1>5, BodyLaid
  <2> QED
    BY <1>1, <2>1
<1> HIDE DEF F, l
<1>7. last = r.iterations /\ body.open # NoIteration
  BY <1>1, <1>6 DEF NoIteration
<1>8. line = Append(body.line, Marker(body.line, r.iterations, "iteration_completed", None))
  BY <1>6, <1>7 DEF Close
<1> DEFINE b == body.line
           done == Append(b, Marker(b, r.iterations, "iteration_completed", None))
<1>9. Timeline(r) = Append(done, Marker(done, r.iterations, Terminal(r), r.final))
  BY <1>2, <1>7, <1>8
<1>10. Laid(b, r.events, Len(r.events))
  BY <1>6 DEF l
<1> HIDE DEF b
<1> WITNESS b
<1> QED
  BY <1>9, <1>10

(* The timeline of a whole result is a whole timeline.                     *)
LEMMA TimelineWhole ==
    ASSUME NEW r, IsWhole(r)
    PROVE  WholeTimeline(Timeline(r), r)
<1> DEFINE l == Len(r.events)
           i == r.iterations
<1>1. /\ r.events \in Seq(Event) /\ i \in Nat \ {0} /\ l \in Nat \ {0} /\ r.final \in States
      /\ r.events[1].input = r.origin /\ r.events[l].iteration = i /\ r.events[l].agent = NumAgents
      /\ Numbered(r.events)
  <2>1. /\ r.events \in Seq(Event) /\ r.events # << >> /\ i \in Nat \ {0} /\ r.final \in States
        /\ Numbered(r.events)
    BY WholeParts DEF Iterations
  <2>2. /\ r.events[1].input = r.origin /\ r.events[l].iteration = i
        /\ r.events[l].agent = NumAgents
    BY <2>1 DEF IsWhole, EndsAt, Chained
  <2> QED
    BY <2>1, <2>2
<1>2. PICK old : LET done == Append(old, Marker(old, r.iterations, "iteration_completed", None))
                 IN  /\ Laid(old, r.events, Len(r.events))
                     /\ Timeline(r) = Append(done, Marker(done, r.iterations, Terminal(r), r.final))
  BY TimelineEnds
<1> DEFINE m == Marker(old, i, "iteration_completed", None)
           done == Append(old, m)
           t == Marker(done, i, Terminal(r), r.final)
           new == Append(done, t)
           p == Len(old)
<1>3. Laid(old, r.events, l) /\ Timeline(r) = new
  BY <1>2
<1>4. /\ old \in Seq(Entry) /\ p = Opening(i) + NumAgents
      /\ old[1] = MarkerAt(1, 1, "run_started", r.origin)
      /\ \A j \in 1 .. i : StartedAt(old, j)
      /\ \A j \in 1 .. i - 1 : CompletedAt(old, j)
      /\ \A k \in 1 .. l : TurnAt(old, r.events[k])
  BY <1>1, <1>3 DEF Laid
<1> HIDE DEF i, l
<1>5. /\ "iteration_completed" \in TimelineKinds /\ Terminal(r) \in TimelineKinds
      /\ None \in States \cup {None} /\ i \in Nat /\ r.final \in States \cup {None}
  BY <1>1 DEF TimelineKinds, Terminal
<1>6. m \in Entry /\ m = MarkerAt(p + 1, i, "iteration_completed", None)
  BY <1>4, <1>5, MarkerEntry
<1> HIDE DEF m
<1>7. /\ done \in Seq(Entry) /\ Len(done) = p + 1 /\ done[p + 1] = m
      /\ \A q \in 1 .. p : done[q] = old[q]
  BY <1>4, <1>6, EntryMore
<1> HIDE DEF done, p
<1>8. t \in Entry /\ t = MarkerAt(p + 2, i, Terminal(r), r.final)
  <2>1. /\ t \in Entry /\ t = MarkerAt(Len(done) + 1, i, Terminal(r), r.final)
    BY <1>5, <1>7, MarkerEntry
  <2>2. Len(done) + 1 = p + 2
    <3>1. p \in Nat
      BY <1>4 DEF p
    <3> QED
      BY <1>7, <3>1
  <2> HIDE DEF t
  <2> QED
    BY <2>1, <2>2
<1> HIDE DEF t
<1>9. /\ Opening(i) \in Nat /\ Opening(i) >= 2 /\ p \in Nat
      /\ Opening(i + 1) = p + 2 /\ Opening(i) + NumAgents + 1 = p + 1
  <2>1. Opening(i) \in Nat /\ Opening(i) >= 2 /\ Opening(i + 1) = Opening(i) + NumAgents + 2
    BY <1>1, Openings
  <2> QED
    BY <1>4, <2>1
<1>10. /\ new \in Seq(Entry) /\ Len(new) = p + 2 /\ new[p + 2] = t
       /\ \A q \in 1 .. p + 1 : new[q] = done[q]
  <2>1. /\ new \in Seq(Entry) /\ Len(new) = Len(done) + 1 /\ new[Len(done) + 1] = t
        /\ \A q \in 1 .. Len(done) : new[q] = done[q]
    BY <1>7, <1>8, EntryMore
  <2>2. Len(done) + 1 = p + 2
    BY <1>7, <1>9
  <2> HIDE DEF new
  <2> QED
    BY <1>7, <2>1, <2>2
<1> HIDE DEF new
<1>11. /\ \A q \in 1 .. p : new[q] = old[q]
       /\ new[p + 1] = MarkerAt(p + 1, i, "iteration_completed", None)
  <2>1. \A q \in 1 .. p : q \in 1 .. p + 1
    BY <1>9
  <2>2. p + 1 \in 1 .. p + 1
    BY <1>9
  <2> QED
    BY <1>6, <1>7, <1>10, <2>1, <2>2
<1>12. Extends(new, old)
  BY <1>9, <1>10, <1>11 DEF Extends, p
<1>13. ASSUME NEW j \in 1 .. i
       PROVE  StartedAt(new, j) /\ CompletedAt(new, j)
  <2>1. j \in Nat \ {0} /\ j \in Nat /\ (j = i \/ j < i)
    BY <1>1
  <2>2. StartedAt(new, j)
    <3>1. Opening(j) \in Nat /\ Opening(j) >= 2 /\ Opening(j) <= Opening(i)
      BY <1>1, <2>1, OpeningsRise
    <3>2. Opening(j) \in 1 .. Len(old)
      <4>1. Opening(j) \in 1 .. p
        BY <1>4, <1>9, <3>1
      <4> QED
        BY <4>1 DEF p
    <3> QED
      BY <1>4, <1>10, <1>12, <2>1, <3>2, LaidKept
  <2>3. CASE j = i
    BY <1>9, <1>11, <2>2, <2>3 DEF CompletedAt
  <2>4. CASE j < i
    <3>1. Opening(j) \in Nat /\ Opening(j) + NumAgents + 2 <= Opening(i)
      BY <1>1, <2>1, <2>4, Openings
    <3>2. Opening(j) + NumAgents + 1 \in 1 .. Len(old)
      <4>1. Opening(j) + NumAgents + 1 \in 1 .. p
        BY <1>4, <1>9, <3>1
      <4> QED
        BY <4>1 DEF p
    <3>3. CompletedAt(old, j)
      <4>1. j \in 1 .. i - 1
        BY <1>1, <2>4
      <4> QED
        BY <1>4, <4>1
    <3> QED
      BY <1>4, <1>10, <1>12, <2>1, <2>2, <3>2, <3>3, LaidKept
  <2> QED
    BY <2>1, <2>3, <2>4
<1>14. ASSUME NEW k \in 1 .. l
       PROVE  TurnAt(new, r.events[k])
  <2>1. l \in 1 .. Len(r.events) /\ k \in 1 .. Len(r.events)
    BY <1>1 DEF l
  <2>2. Opening(r.events[k].iteration) + r.events[k].agent
            \in 1 .. Opening(r.events[l].iteration) + r.events[l].agent
    BY <1>1, <2>1, TurnsSoFar
  <2>3. Opening(r.events[l].iteration) + r.events[l].agent = Len(old)
    BY <1>1, <1>4 DEF p, i
  <2>4. r.events[k] \in Event
    BY <1>1, <2>1
  <2> QED
    BY <1>4, <1>10, <1>12, <2>2, <2>3, <2>4, LaidKept
<1>15. new[1] = MarkerAt(1, 1, "run_started", r.origin)
  <2>1. 1 \in 1 .. p
    BY <1>4, <1>9
  <2> QED
    BY <1>4, <1>11, <2>1
<1>16. Len(new) = Opening(i + 1)
  BY <1>9, <1>10
<1>17. new[Len(new)] = MarkerAt(Len(new), i, Terminal(r), r.final)
  BY <1>8, <1>10
<1>18. WholeTimeline(new, r)
  BY <1>10, <1>13, <1>14, <1>15, <1>16, <1>17 DEF WholeTimeline, i, l
<1> QED
  BY <1>3, <1>18

(* Every place between the first and the opening of iteration n + 1 is in  *)
(* an iteration up to n.                                                   *)
LEMMA PlacesInside ==
    ASSUME NEW m \in Nat
    PROVE  \A p \in 2 .. Opening(m + 1) - 1 :
              \E i \in 1 .. m : \E c \in 0 .. NumAgents + 1 : p = Opening(i) + c
<1> DEFINE Right(n) == \A p \in 2 .. Opening(n + 1) - 1 :
                          \E i \in 1 .. n : \E c \in 0 .. NumAgents + 1 : p = Opening(i) + c
           T == {n \in Nat : Right(n)}
<1>1. 0 \in T
  <2>1. Opening(0 + 1) = 2
    BY Openings
  <2> QED
    BY <2>1
<1>2. ASSUME NEW n \in T
      PROVE  n + 1 \in T
  <2>1. n \in Nat /\ n + 1 \in Nat \ {0} /\ n + 1 \in 1 .. n + 1
    OBVIOUS
  <2> DEFINE o == Opening(n + 1)
             w == Opening((n + 1) + 1)
  <2>2. o \in Nat /\ o >= 2 /\ w = o + NumAgents + 2
    BY <2>1, Openings
  <2>3. ASSUME NEW p \in 2 .. w - 1
        PROVE  \E i \in 1 .. n + 1 : \E c \in 0 .. NumAgents + 1 : p = Opening(i) + c
    <3>1. CASE p < o
      <4>1. p \in 2 .. o - 1
        BY <2>2, <3>1
      <4>2. PICK i \in 1 .. n : \E c \in 0 .. NumAgents + 1 : p = Opening(i) + c
        BY <1>2, <4>1
      <4>3. i \in 1 .. n + 1
        BY <2>1
      <4> QED
        BY <4>2, <4>3
    <3>2. CASE ~(p < o)
      <4>1. p - o \in 0 .. NumAgents + 1 /\ p = o + (p - o)
        BY <2>2, <3>2
      <4> QED
        BY <2>1, <4>1
    <3> QED
      BY <3>1, <3>2
  <2> QED
    BY <2>1, <2>3
<1>3. T = Nat
  <2>1. T \subseteq Nat
    OBVIOUS
  <2> HIDE DEF T
  <2> QED
    BY <1>1, <1>2, <2>1, NatSetInduction
<1> QED
  BY <1>3

(* What the timeline holds at place p.                                     *)
StartsAt(line, p, i) ==
    p = Opening(i) /\ line[p] = MarkerAt(p, i, "iteration_started", None)

EndsPlace(line, p, i) ==
    p = Opening(i) + NumAgents + 1 /\ line[p] = MarkerAt(p, i, "iteration_completed", None)

ActsAt(line, p, i) ==
    /\ p \in Opening(i) + 1 .. Opening(i) + NumAgents
    /\ \E e \in Event : e.iteration = i /\ line[p] = ActAt(p, e)

(* A turn of an iteration is as many places after its opening.             *)
LEMMA ActsPlace ==
    ASSUME NEW r, IsWhole(r), NEW line, WholeTimeline(line, r),
           NEW i \in 1 .. r.iterations, NEW a \in Turns
    PROVE  ActsAt(line, Opening(i) + a, i)
<1> DEFINE evs == r.events
           n == r.iterations
           j == i - 1
           k == j * NumAgents + a
           p == Opening(i) + a
<1>1. evs \in Seq(Event) /\ Numbered(evs) /\ n \in Nat \ {0} /\ Len(evs) = n * NumAgents
  BY WholeParts DEF Iterations
<1> HIDE DEF n
<1>2. i \in Nat \ {0} /\ j \in Int /\ j < n /\ n \in Int /\ j + 1 = i /\ j >= 0
  BY <1>1 DEF n
<1>3. Opening(i) \in Nat /\ a \in 1 .. NumAgents
  BY <1>2, Openings DEF Turns
<1> HIDE DEF evs, j
<1>4. k \in 1 .. Len(evs)
  <2>1. j * NumAgents + NumAgents <= n * NumAgents
    BY <1>2, RowsApart
  <2>2. j * NumAgents \in Nat /\ n * NumAgents \in Nat
    BY <1>1, <1>2
  <2> QED
    BY <1>1, <1>3, <2>1, <2>2
<1>5. evs[k] \in Event /\ evs[k].agent = a /\ evs[k].iteration = j + 1
  <2>1. k = j * NumAgents + a
    OBVIOUS
  <2> HIDE DEF k
  <2> QED
    BY <1>1, <1>2, <1>4, <2>1, TurnsPlace
<1>6. TurnAt(line, evs[k])
  <2> HIDE DEF k
  <2> QED
    BY <1>4 DEF WholeTimeline, evs
<1> DEFINE e == evs[k]
<1> HIDE DEF k
<1>7. line[p] = ActAt(p, e) /\ e \in Event /\ e.iteration = i
  BY <1>2, <1>5, <1>6 DEF TurnAt
<1>8. p \in Opening(i) + 1 .. Opening(i) + NumAgents
  BY <1>3
<1> HIDE DEF p, e
<1>9. ActsAt(line, p, i)
  BY <1>7, <1>8 DEF ActsAt
<1> QED
  BY <1>9 DEF p

(* What a place of an iteration holds.                                     *)
LEMMA PlacesOf ==
    ASSUME NEW r, IsWhole(r), NEW line, WholeTimeline(line, r),
           NEW i \in 1 .. r.iterations, NEW c \in 0 .. NumAgents + 1
    PROVE  LET p == Opening(i) + c
           IN  /\ c = 0 => StartsAt(line, p, i)
               /\ c \in Turns => ActsAt(line, p, i)
               /\ c = NumAgents + 1 => EndsPlace(line, p, i)
<1> DEFINE p == Opening(i) + c
<1>1. r.iterations \in Nat \ {0}
  BY WholeParts DEF Iterations
<1>2. i \in Nat \ {0}
  BY <1>1
<1>3. Opening(i) \in Nat
  BY <1>2, Openings
<1>4. CASE c = 0
  <2>1. p = Opening(i) /\ c # NumAgents + 1 /\ c \notin Turns
    BY <1>3, <1>4 DEF Turns
  <2>2. StartedAt(line, i)
    BY DEF WholeTimeline
  <2> QED
    BY <2>1, <2>2 DEF StartedAt, StartsAt
<1>5. CASE c = NumAgents + 1
  <2>1. p = Opening(i) + NumAgents + 1 /\ c # 0 /\ c \notin Turns
    BY <1>3, <1>5 DEF Turns
  <2>2. CompletedAt(line, i)
    BY DEF WholeTimeline
  <2> QED
    BY <2>1, <2>2 DEF CompletedAt, EndsPlace
<1>6. CASE c \in Turns
  <2>1. c # 0 /\ c # NumAgents + 1
    BY <1>6 DEF Turns
  <2>2. ActsAt(line, p, i)
    BY <1>6, ActsPlace
  <2> QED
    BY <2>1, <2>2
<1>7. c = 0 \/ c = NumAgents + 1 \/ c \in Turns
  BY DEF Turns
<1> QED
  BY <1>4, <1>5, <1>6, <1>7

(* Every place of a whole timeline is one of five.                         *)
LEMMA PlaceKinds ==
    ASSUME NEW r, IsWhole(r), NEW line, WholeTimeline(line, r), NEW p \in DOMAIN line
    PROVE  \/ p = 1 /\ p # Len(line) /\ line[p] = MarkerAt(p, 1, "run_started", r.origin)
           \/ p # 1 /\ p = Len(line) /\ line[p] = MarkerAt(p, r.iterations, Terminal(r), r.final)
           \/ /\ p # 1 /\ p # Len(line)
              /\ \E i \in 1 .. r.iterations :
                    StartsAt(line, p, i) \/ ActsAt(line, p, i) \/ EndsPlace(line, p, i)
<1> DEFINE n == r.iterations
<1>1. n \in Nat \ {0} /\ n \in Nat
  BY WholeParts DEF Iterations
<1>2. Len(line) = Opening(n + 1) /\ Opening(n + 1) \in Nat /\ Opening(n + 1) >= 2
  <2>1. n + 1 \in Nat \ {0}
    BY <1>1
  <2> QED
    BY <2>1, Openings DEF WholeTimeline
<1>3. p \in 1 .. Len(line)
  BY DEF WholeTimeline
<1>4. CASE p = 1
  BY <1>2, <1>4 DEF WholeTimeline
<1>5. CASE p = Len(line)
  BY <1>2, <1>5 DEF WholeTimeline
<1>6. CASE p # 1 /\ p # Len(line)
  <2>1. p \in 2 .. Opening(n + 1) - 1
    BY <1>2, <1>3, <1>6
  <2>2. PICK i \in 1 .. n : \E c \in 0 .. NumAgents + 1 : p = Opening(i) + c
    BY <1>1, <2>1, PlacesInside
  <2>3. PICK c \in 0 .. NumAgents + 1 : p = Opening(i) + c
    BY <2>2
  <2>4. c = 0 \/ c = NumAgents + 1 \/ c \in Turns
    BY DEF Turns
  <2>5. StartsAt(line, p, i) \/ ActsAt(line, p, i) \/ EndsPlace(line, p, i)
    BY <2>3, <2>4, PlacesOf
  <2> QED
    BY <1>6, <2>5
<1> QED
  BY <1>4, <1>5, <1>6

(* The markers are at one place each, and the turns between them.          *)
LEMMA EntryKinds ==
    ASSUME NEW r, IsWhole(r), NEW line, WholeTimeline(line, r), NEW p \in DOMAIN line
    PROVE  /\ EventOk(line[p]) /\ line[p].sequence = p - 1
           /\ line[p].kind = "run_started" <=> p = 1
           /\ line[p].kind \in {"run_completed", "run_failed"} <=> p = Len(line)
           /\ \A i \in 1 .. r.iterations :
                 /\ line[p].kind = "iteration_started" /\ line[p].iteration = i <=> StartsAt(line, p, i)
                 /\ line[p].kind = "iteration_completed" /\ line[p].iteration = i <=> EndsPlace(line, p, i)
                 /\ line[p].kind = "agent_acted" /\ line[p].iteration = i => ActsAt(line, p, i)
<1> DEFINE t == line[p]
<1>1. p \in Nat /\ p - 1 \in Nat /\ r.iterations \in Nat
  BY WholeParts DEF WholeTimeline, Iterations
<1>2. CASE p = 1 /\ p # Len(line) /\ line[p] = MarkerAt(p, 1, "run_started", r.origin)
  <2>1. /\ t.sequence = p - 1 /\ t.iteration = 1 /\ t.kind = "run_started" /\ t.agent = NoAgent
    BY <1>2 DEF MarkerAt
  <2>2. EventOk(t)
    BY <1>1, <2>1 DEF EventOk, TimelineKinds
  <2>3. \A i \in 1 .. r.iterations : ~StartsAt(line, p, i) /\ ~EndsPlace(line, p, i)
    BY <2>1 DEF StartsAt, EndsPlace, MarkerAt
  <2> QED
    BY <1>2, <2>1, <2>2, <2>3
<1>3. CASE p # 1 /\ p = Len(line) /\ line[p] = MarkerAt(p, r.iterations, Terminal(r), r.final)
  <2>1. /\ t.sequence = p - 1 /\ t.iteration = r.iterations /\ t.agent = NoAgent
        /\ t.kind = "run_completed" \/ t.kind = "run_failed"
    BY <1>3 DEF MarkerAt, Terminal
  <2>2. EventOk(t)
    BY <1>1, <2>1 DEF EventOk, TimelineKinds
  <2>3. \A i \in 1 .. r.iterations : ~StartsAt(line, p, i) /\ ~EndsPlace(line, p, i)
    BY <2>1 DEF StartsAt, EndsPlace, MarkerAt
  <2> QED
    BY <1>3, <2>1, <2>2, <2>3
<1>4. ASSUME p # 1, p # Len(line), NEW i \in 1 .. r.iterations, StartsAt(line, p, i)
      PROVE  /\ EventOk(t) /\ t.sequence = p - 1
             /\ t.kind = "iteration_started" /\ t.iteration = i
  <2>1. /\ t.sequence = p - 1 /\ t.iteration = i /\ t.kind = "iteration_started" /\ t.agent = NoAgent
    BY <1>4 DEF MarkerAt, StartsAt
  <2> QED
    BY <1>1, <2>1 DEF EventOk, TimelineKinds
<1>5. ASSUME p # 1, p # Len(line), NEW i \in 1 .. r.iterations, EndsPlace(line, p, i)
      PROVE  /\ EventOk(t) /\ t.sequence = p - 1
             /\ t.kind = "iteration_completed" /\ t.iteration = i
  <2>1. /\ t.sequence = p - 1 /\ t.iteration = i /\ t.kind = "iteration_completed" /\ t.agent = NoAgent
    BY <1>5 DEF MarkerAt, EndsPlace
  <2> QED
    BY <1>1, <2>1 DEF EventOk, TimelineKinds
<1>6. ASSUME p # 1, p # Len(line), NEW i \in 1 .. r.iterations, ActsAt(line, p, i)
      PROVE  /\ EventOk(t) /\ t.sequence = p - 1
             /\ t.kind = "agent_acted" /\ t.iteration = i
  <2>1. PICK e \in Event : e.iteration = i /\ line[p] = ActAt(p, e)
    BY <1>6 DEF ActsAt
  <2>2. /\ t.sequence = p - 1 /\ t.iteration = i /\ t.kind = "agent_acted" /\ t.agent = e.agent
        /\ t.changed = (t.from # t.to)
    BY <2>1 DEF ActAt
  <2>3. e.agent # NoAgent
    BY DEF Event, Turns, NoAgent
  <2> QED
    BY <1>1, <2>2, <2>3 DEF EventOk, TimelineKinds
<1>7. ASSUME NEW i \in 1 .. r.iterations, p # 1, p # Len(line),
             StartsAt(line, p, i) \/ ActsAt(line, p, i) \/ EndsPlace(line, p, i)
      PROVE  /\ EventOk(t) /\ t.sequence = p - 1
             /\ t.kind \in {"iteration_started", "iteration_completed", "agent_acted"}
             /\ t.iteration = i
             /\ t.kind = "iteration_started" <=> StartsAt(line, p, i)
             /\ t.kind = "iteration_completed" <=> EndsPlace(line, p, i)
             /\ t.kind = "agent_acted" <=> ActsAt(line, p, i)
  <2> HIDE DEF t
  <2>1. \/ EventOk(t) /\ t.sequence = p - 1 /\ t.kind = "iteration_started" /\ t.iteration = i
           /\ StartsAt(line, p, i)
        \/ EventOk(t) /\ t.sequence = p - 1 /\ t.kind = "iteration_completed" /\ t.iteration = i
           /\ EndsPlace(line, p, i)
        \/ EventOk(t) /\ t.sequence = p - 1 /\ t.kind = "agent_acted" /\ t.iteration = i
           /\ ActsAt(line, p, i)
    BY <1>4, <1>5, <1>6, <1>7
  <2>2. /\ StartsAt(line, p, i) => t.kind = "iteration_started"
        /\ EndsPlace(line, p, i) => t.kind = "iteration_completed"
        /\ ActsAt(line, p, i) => t.kind = "agent_acted"
    BY <1>4, <1>5, <1>6, <1>7
  <2> QED
    BY <2>1, <2>2
<1>8. CASE /\ p # 1 /\ p # Len(line)
           /\ \E i \in 1 .. r.iterations :
                 StartsAt(line, p, i) \/ ActsAt(line, p, i) \/ EndsPlace(line, p, i)
  <2>1. PICK i \in 1 .. r.iterations :
                 StartsAt(line, p, i) \/ ActsAt(line, p, i) \/ EndsPlace(line, p, i)
    BY <1>8
  <2>2. /\ EventOk(t) /\ t.sequence = p - 1
        /\ t.kind \in {"iteration_started", "iteration_completed", "agent_acted"}
        /\ t.iteration = i
        /\ t.kind = "iteration_started" <=> StartsAt(line, p, i)
        /\ t.kind = "iteration_completed" <=> EndsPlace(line, p, i)
        /\ t.kind = "agent_acted" <=> ActsAt(line, p, i)
    BY <1>7, <1>8, <2>1
  <2>3. ASSUME NEW j \in 1 .. r.iterations
        PROVE  /\ t.kind = "iteration_started" /\ t.iteration = j <=> StartsAt(line, p, j)
               /\ t.kind = "iteration_completed" /\ t.iteration = j <=> EndsPlace(line, p, j)
               /\ t.kind = "agent_acted" /\ t.iteration = j => ActsAt(line, p, j)
    <3>1. StartsAt(line, p, j) \/ EndsPlace(line, p, j) => t.iteration = j
      BY <1>4, <1>5, <1>8
    <3> QED
      BY <2>2, <3>1
  <2> HIDE DEF t
  <2>4. t.kind # "run_started" /\ t.kind \notin {"run_completed", "run_failed"}
    BY <2>2
  <2> QED
    BY <1>8, <2>2, <2>3, <2>4 DEF t
<1> QED
  BY <1>2, <1>3, <1>8, PlaceKinds

(* An iteration opens once and closes once, its turns in between.          *)
LEMMA Brackets ==
    ASSUME NEW r, IsWhole(r), NEW line, WholeTimeline(line, r), NEW i \in 1 .. r.iterations
    PROVE  /\ Opening(i) \in DOMAIN line /\ Opening(i) + NumAgents + 1 \in DOMAIN line
           /\ At(line, "iteration_started", i) = {Opening(i)}
           /\ At(line, "iteration_completed", i) = {Opening(i) + NumAgents + 1}
           /\ At(line, "agent_acted", i) = Opening(i) + 1 .. Opening(i) + NumAgents
<1> DEFINE n == r.iterations
           o == Opening(i)
<1>1. n \in Nat \ {0} /\ i \in Nat \ {0} /\ n + 1 \in Nat \ {0} /\ i < n + 1
  BY WholeParts DEF Iterations
<1>2. o \in Nat /\ o >= 2 /\ o + NumAgents + 2 <= Opening(n + 1) /\ Opening(n + 1) \in Nat
  BY <1>1, Openings
<1>3. DOMAIN line = 1 .. Opening(n + 1)
  BY DEF WholeTimeline
<1>4. \A c \in 0 .. NumAgents + 1 : o + c \in DOMAIN line
  <2> HIDE DEF o
  <2> QED
    BY <1>2, <1>3
<1>5. o \in DOMAIN line /\ StartsAt(line, o, i)
  <2>1. 0 \in 0 .. NumAgents + 1 /\ o + 0 = o
    BY <1>2
  <2>2. o + 0 \in DOMAIN line
    BY <1>4, <2>1
  <2>3. StartsAt(line, Opening(i) + 0, i)
    BY <2>1, PlacesOf
  <2> QED
    BY <2>1, <2>2, <2>3
<1>6. o + NumAgents + 1 \in DOMAIN line /\ EndsPlace(line, o + NumAgents + 1, i)
  <2>1. NumAgents + 1 \in 0 .. NumAgents + 1 /\ o + (NumAgents + 1) = o + NumAgents + 1
    BY <1>2
  <2>2. o + (NumAgents + 1) \in DOMAIN line
    BY <1>4, <2>1
  <2>3. EndsPlace(line, Opening(i) + (NumAgents + 1), i)
    BY <2>1, PlacesOf
  <2> QED
    BY <2>1, <2>2, <2>3
<1>7. ASSUME NEW p \in o + 1 .. o + NumAgents
      PROVE  p \in At(line, "agent_acted", i)
  <2> DEFINE c == p - o
  <2>1. c \in 1 .. NumAgents /\ c \in 0 .. NumAgents + 1 /\ o + c = p
    BY <1>2
  <2> HIDE DEF c
  <2>2. c \in Turns /\ Opening(i) + c = p
    BY <2>1 DEF Turns
  <2>3. ActsAt(line, p, i)
    BY <2>2, ActsPlace
  <2>4. p \in DOMAIN line
    BY <1>4, <2>1
  <2>5. line[p].kind = "agent_acted" /\ line[p].iteration = i
    BY <2>3 DEF ActsAt, ActAt
  <2> QED
    BY <2>4, <2>5 DEF At
<1>8. ASSUME NEW p \in At(line, "agent_acted", i)
      PROVE  p \in o + 1 .. o + NumAgents
  <2>1. p \in DOMAIN line /\ line[p].kind = "agent_acted" /\ line[p].iteration = i
    BY DEF At
  <2>2. ActsAt(line, p, i)
    BY <2>1, EntryKinds
  <2> QED
    BY <2>2 DEF ActsAt
<1>9. At(line, "iteration_started", i) = {o}
  <2>1. ASSUME NEW p \in At(line, "iteration_started", i)
        PROVE  p = o
    <3>1. p \in DOMAIN line /\ line[p].kind = "iteration_started" /\ line[p].iteration = i
      BY DEF At
    <3>2. StartsAt(line, p, i)
      BY <3>1, EntryKinds
    <3> QED
      BY <3>2 DEF StartsAt
  <2>2. o \in At(line, "iteration_started", i)
    BY <1>5 DEF At, StartsAt, MarkerAt
  <2> QED
    BY <2>1, <2>2
<1>10. At(line, "iteration_completed", i) = {o + NumAgents + 1}
  <2>1. ASSUME NEW p \in At(line, "iteration_completed", i)
        PROVE  p = o + NumAgents + 1
    <3>1. p \in DOMAIN line /\ line[p].kind = "iteration_completed" /\ line[p].iteration = i
      BY DEF At
    <3>2. EndsPlace(line, p, i)
      BY <3>1, EntryKinds
    <3> QED
      BY <3>2 DEF EndsPlace
  <2>2. o + NumAgents + 1 \in At(line, "iteration_completed", i)
    BY <1>6 DEF At, EndsPlace, MarkerAt
  <2> QED
    BY <2>1, <2>2
<1>11. At(line, "agent_acted", i) = o + 1 .. o + NumAgents
  <2> HIDE DEF o
  <2> QED
    BY <1>7, <1>8
<1> QED
  BY <1>5, <1>6, <1>9, <1>10, <1>11

(* What TimelineBracketed says of the timeline of r. *)
BracketedLine(line, r) ==
    /\ \A k \in DOMAIN line :
          /\ EventOk(line[k])
          /\ line[k].sequence = k - 1
          /\ line[k].kind = "run_started" <=> k = 1
          /\ line[k].kind \in {"run_completed", "run_failed"} <=> k = Len(line)
    /\ \A i \in 1 .. r.iterations :
          \E a, b \in DOMAIN line :
              /\ At(line, "iteration_started", i) = {a}
              /\ At(line, "iteration_completed", i) = {b}
              /\ At(line, "agent_acted", i) = a + 1 .. b - 1
              /\ i < r.iterations => At(line, "iteration_started", i + 1) = {b + 1}
    /\ line[Len(line)].iteration = r.iterations

(* Every result's timeline opens and closes its iterations one after the   *)
(* other with their turns inside (see TimelineBracketed).                  *)
THEOREM TimelinesBracketed == Spec => []TimelineBracketed
<1>1. ASSUME LoopInv, result # NoResult
      PROVE  TimelineBracketed
  <2> DEFINE r == result
             line == Timeline(r)
             n == r.iterations
  <2>1. IsWhole(r) /\ WholeTimeline(line, r) /\ n \in Nat \ {0}
    <3>1. IsWhole(result)
      BY <1>1, HeldIsWhole
    <3> QED
      BY <3>1, TimelineWhole, WholeParts DEF Iterations
  <2> HIDE DEF line, r
  <2>2. \A k \in DOMAIN line :
           /\ EventOk(line[k])
           /\ line[k].sequence = k - 1
           /\ line[k].kind = "run_started" <=> k = 1
           /\ line[k].kind \in {"run_completed", "run_failed"} <=> k = Len(line)
    BY <2>1, EntryKinds
  <2>3. ASSUME NEW i \in 1 .. n
        PROVE  \E a, b \in DOMAIN line :
                  /\ At(line, "iteration_started", i) = {a}
                  /\ At(line, "iteration_completed", i) = {b}
                  /\ At(line, "agent_acted", i) = a + 1 .. b - 1
                  /\ i < n => At(line, "iteration_started", i + 1) = {b + 1}
    <3> DEFINE a == Opening(i)
               b == Opening(i) + NumAgents + 1
    <3>1. /\ a \in DOMAIN line /\ b \in DOMAIN line
          /\ At(line, "iteration_started", i) = {a}
          /\ At(line, "iteration_completed", i) = {b}
          /\ At(line, "agent_acted", i) = a + 1 .. Opening(i) + NumAgents
      BY <2>1, Brackets
    <3>2. b + 1 = Opening(i + 1) /\ b - 1 = Opening(i) + NumAgents
      <4>1. i \in Nat \ {0}
        BY <2>1
      <4>2. Opening(i) \in Nat /\ Opening(i + 1) = Opening(i) + NumAgents + 2
        BY <4>1, Openings
      <4> QED
        BY <4>2
    <3>3. i < n => At(line, "iteration_started", i + 1) = {b + 1}
      <4> SUFFICES ASSUME i < n
                   PROVE  At(line, "iteration_started", i + 1) = {Opening(i + 1)}
        BY <3>2
      <4>1. i + 1 \in 1 .. n
        BY <2>1
      <4> QED
        BY <2>1, <4>1, Brackets
    <3> HIDE DEF a, b
    <3>4. At(line, "agent_acted", i) = a + 1 .. b - 1
      BY <3>1, <3>2
    <3> QED
      BY <3>1, <3>3, <3>4
  <2>4. line[Len(line)].iteration = n
    BY <2>1 DEF WholeTimeline, MarkerAt
  <2> HIDE DEF n
  <2>5. \A i \in 1 .. n :
           \E a, b \in DOMAIN line :
              /\ At(line, "iteration_started", i) = {a}
              /\ At(line, "iteration_completed", i) = {b}
              /\ At(line, "agent_acted", i) = a + 1 .. b - 1
              /\ i < n => At(line, "iteration_started", i + 1) = {b + 1}
    BY <2>3
  <2>6. BracketedLine(line, r)
    BY <2>2, <2>4, <2>5, Zenon DEF BracketedLine, n
  <2>7. BracketedLine(Timeline(result), result)
    BY <2>6 DEF line, r
  <2> QED
    BY <2>7, ZenonT(60) DEF TimelineBracketed, BracketedLine
<1>2. LoopInv => TimelineBracketed
  BY <1>1 DEF TimelineBracketed
<1> QED
  BY <1>2, Invariance, PTL

-----------------------------------------------------------------------------
(* The views count the same turns.                                         *)

(* Where turn a of iteration i stands among the events. *)
Place(i, a) == (i - 1) * NumAgents + a

(* A history holds every turn at its place.                                *)
LEMMA TurnHeld ==
    ASSUME NEW r, IsWhole(r), NEW i \in 1 .. r.iterations, NEW a \in Turns
    PROVE  /\ Place(i, a) \in DOMAIN r.events
           /\ r.events[Place(i, a)].iteration = i
           /\ r.events[Place(i, a)].agent = a
<1> DEFINE evs == r.events
           n == r.iterations
           j == i - 1
           k == j * NumAgents + a
<1>1. evs \in Seq(Event) /\ Numbered(evs) /\ n \in Nat \ {0} /\ Len(evs) = n * NumAgents
  BY WholeParts DEF Iterations
<1> HIDE DEF n
<1>2. j \in Int /\ j < n /\ n \in Int /\ j + 1 = i /\ j >= 0
  BY <1>1 DEF n
<1>3. a \in 1 .. NumAgents
  BY DEF Turns
<1> HIDE DEF evs, j
<1>4. k \in 1 .. Len(evs)
  <2>1. j * NumAgents + NumAgents <= n * NumAgents
    BY <1>2, RowsApart
  <2>2. j * NumAgents \in Nat /\ n * NumAgents \in Nat
    BY <1>1, <1>2
  <2> QED
    BY <1>1, <1>3, <2>1, <2>2
<1>5. evs[k].agent = a /\ evs[k].iteration = j + 1
  <2>1. k = j * NumAgents + a
    OBVIOUS
  <2> HIDE DEF k
  <2> QED
    BY <1>1, <1>2, <1>4, <2>1, TurnsPlace
<1>6. Place(i, a) = k
  BY DEF Place, j
<1>7. DOMAIN evs = 1 .. Len(evs)
  BY <1>1
<1> HIDE DEF k
<1> QED
  BY <1>2, <1>4, <1>5, <1>6, <1>7 DEF evs

(* Every event is a turn, and stands where that turn does.                 *)
LEMMA EventPlaced ==
    ASSUME NEW r, IsWhole(r), NEW k \in DOMAIN r.events
    PROVE  /\ r.events[k] \in Event
           /\ r.events[k].agent \in Turns /\ r.events[k].iteration \in 1 .. r.iterations
           /\ k = Place(r.events[k].iteration, r.events[k].agent)
<1> DEFINE evs == r.events
           n == r.iterations
           i == evs[k].iteration
           a == evs[k].agent
           j == i - 1
<1>1. evs \in Seq(Event) /\ Numbered(evs) /\ n \in Nat \ {0} /\ Len(evs) = n * NumAgents
  BY WholeParts DEF Iterations
<1>2. evs[k] \in Event /\ k \in 1 .. Len(evs)
  BY <1>1
<1>3. a \in Turns /\ i \in Nat \ {0} /\ j \in Nat /\ i = j + 1
  BY <1>2 DEF Event, Iterations
<1>4. j * NumAgents + a = k
  BY <1>1, <1>2 DEF Numbered
<1> HIDE DEF evs, n, a, j
<1>5. i <= n
  <2> SUFFICES ASSUME ~(j < n) PROVE FALSE
    BY <1>1, <1>3
  <2>1. n * NumAgents <= j * NumAgents
    <3>1. CASE n = j
      BY <1>1, <3>1
    <3>2. CASE n < j
      <4>1. n * NumAgents + NumAgents <= j * NumAgents
        BY <1>1, <1>3, <3>2, RowsApart
      <4>2. n * NumAgents \in Nat /\ j * NumAgents \in Nat
        BY <1>1, <1>3
      <4> QED
        BY <4>1, <4>2
    <3> QED
      BY <1>1, <1>3, <3>1, <3>2
  <2>2. n * NumAgents \in Nat /\ j * NumAgents \in Nat /\ a >= 1 /\ a \in Int
    BY <1>1, <1>3 DEF Turns
  <2> QED
    BY <1>1, <1>2, <1>4, <2>1, <2>2
<1> HIDE DEF i
<1>6. i \in 1 .. n
  BY <1>1, <1>3, <1>5
<1>7. k = Place(i, a)
  BY <1>4 DEF Place, j
<1> QED
  BY <1>2, <1>3, <1>6, <1>7 DEF evs, n, i, a

(* Two turns at one place are one turn.                                    *)
LEMMA PlaceApart ==
    ASSUME NEW i \in Int, NEW j \in Int, NEW a \in Turns, NEW b \in Turns,
           Place(i, a) = Place(j, b)
    PROVE  i = j /\ a = b
<1> DEFINE p == i - 1
           q == j - 1
<1>1. p \in Int /\ q \in Int /\ p * NumAgents + a = q * NumAgents + b
  BY DEF Place
<1>2. a \in 1 .. NumAgents /\ b \in 1 .. NumAgents
  BY DEF Turns
<1> HIDE DEF p, q
<1>3. p = q /\ a = b
  BY <1>1, <1>2, PlacesUnique
<1> QED
  BY <1>3 DEF p, q

(* A named result: its places are those of the result, its names those of  *)
(* the agents, and nothing else of it is changed.                          *)
IsNamed(q, r, name) ==
    /\ q.status = r.status /\ q.iterations = r.iterations /\ q.final = r.final
    /\ Len(q.events) = Len(r.events) /\ Len(q.steps) = Len(r.steps)
    /\ DOMAIN q.events = DOMAIN r.events /\ DOMAIN q.steps = DOMAIN r.steps
    /\ \A k \in DOMAIN r.events :
          /\ q.events[k].agent = name[r.events[k].agent]
          /\ q.events[k].iteration = r.events[k].iteration
          /\ q.events[k].input = r.events[k].input
          /\ q.events[k].output = r.events[k].output
    /\ \A k \in DOMAIN r.steps : q.steps[k].agent = name[r.steps[k].agent]

NamesOf(name) == {name[t] : t \in Turns}

(* What Signed writes.                                                     *)
LEMMA SignedList ==
    ASSUME NEW X, NEW s \in Seq(X), NEW name
    PROVE  /\ DOMAIN Signed(s, name) = DOMAIN s /\ Len(Signed(s, name)) = Len(s)
           /\ \A k \in DOMAIN s : Signed(s, name)[k] = [s[k] EXCEPT !.agent = name[@]]
<1>1. DOMAIN s = 1 .. Len(s) /\ Len(s) \in Nat
  OBVIOUS
<1>2. Signed(s, name) = [k \in 1 .. Len(s) |-> [s[k] EXCEPT !.agent = name[@]]]
  BY <1>1 DEF Signed
<1> QED
  BY <1>1, <1>2

(* Named names.                                                            *)
LEMMA NamedParts ==
    ASSUME NEW r, IsWhole(r), NEW name \in Namings
    PROVE  IsNamed(Named(r, name), r, name)
<1> DEFINE q == Named(r, name)
<1>1. r \in Result /\ r.steps \in Seq(Step) /\ r.events \in Seq(Event)
  BY WholeParts DEF IsWhole
<1>2. /\ q.status = r.status /\ q.iterations = r.iterations /\ q.final = r.final
      /\ q.events = Signed(r.events, name) /\ q.steps = Signed(r.steps, name)
  BY <1>1 DEF Named, Result
<1> HIDE DEF q
<1>3. /\ DOMAIN q.events = DOMAIN r.events /\ Len(q.events) = Len(r.events)
      /\ \A k \in DOMAIN r.events : q.events[k] = [r.events[k] EXCEPT !.agent = name[@]]
  BY <1>1, <1>2, SignedList
<1>4. /\ DOMAIN q.steps = DOMAIN r.steps /\ Len(q.steps) = Len(r.steps)
      /\ \A k \in DOMAIN r.steps : q.steps[k] = [r.steps[k] EXCEPT !.agent = name[@]]
  BY <1>1, <1>2, SignedList
<1>5. \A e \in Event : LET f == [e EXCEPT !.agent = name[@]]
                       IN  /\ f.agent = name[e.agent] /\ f.iteration = e.iteration
                           /\ f.input = e.input /\ f.output = e.output
  BY DEF Event
<1>6. \A st \in Step : [st EXCEPT !.agent = name[@]].agent = name[st.agent]
  BY DEF Step
<1>7. /\ \A k \in DOMAIN r.events : r.events[k] \in Event
      /\ \A k \in DOMAIN r.steps : r.steps[k] \in Step
  BY <1>1
<1>8. \A k \in DOMAIN r.events :
         /\ q.events[k].agent = name[r.events[k].agent]
         /\ q.events[k].iteration = r.events[k].iteration
         /\ q.events[k].input = r.events[k].input
         /\ q.events[k].output = r.events[k].output
  BY <1>3, <1>5, <1>7
<1>9. \A k \in DOMAIN r.steps : q.steps[k].agent = name[r.steps[k].agent]
  BY <1>4, <1>6, <1>7
<1> QED
  BY <1>2, <1>3, <1>4, <1>8, <1>9 DEF IsNamed, q

(* There are names, and finitely many.                                     *)
LEMMA NamesCounted ==
    ASSUME NEW name
    PROVE  /\ IsFiniteSet(NamesOf(name)) /\ Cardinality(NamesOf(name)) \in Nat \ {0}
           /\ \A a : IsFiniteSet(Namesakes(name, a))
<1>1. IsFiniteSet(Turns)
  BY FS_Interval DEF Turns
<1>2. IsFiniteSet(NamesOf(name))
  BY <1>1, FiniteImage DEF NamesOf
<1>3. 1 \in Turns
  BY DEF Turns
<1>4. NamesOf(name) # {}
  BY <1>3 DEF NamesOf
<1>5. \A a : IsFiniteSet(Namesakes(name, a))
  BY <1>1, FS_Subset DEF Namesakes
<1> QED
  BY <1>2, <1>4, <1>5, FS_CardinalityType, FS_EmptySet

(* Every agent acts once per iteration, and every iteration has a turn of  *)
(* every agent.                                                            *)
LEMMA TurnsCounted ==
    ASSUME NEW r, IsWhole(r)
    PROVE  /\ \A a \in Turns :
                 Cardinality({k \in DOMAIN r.events : r.events[k].agent = a}) = r.iterations
           /\ \A i \in 1 .. r.iterations :
                 /\ Cardinality({k \in DOMAIN r.events : r.events[k].iteration = i}) = NumAgents
                 /\ {r.events[k].agent : k \in {l \in DOMAIN r.events : r.events[l].iteration = i}}
                       = Turns
<1> DEFINE evs == r.events
           n == r.iterations
<1>1. n \in Nat \ {0}
  BY WholeParts DEF Iterations
<1>2. \A k \in DOMAIN evs :
         /\ evs[k].agent \in Turns /\ evs[k].iteration \in 1 .. n
         /\ k = Place(evs[k].iteration, evs[k].agent)
  BY EventPlaced
<1>3. \A i \in 1 .. n : \A a \in Turns :
         /\ Place(i, a) \in DOMAIN evs
         /\ evs[Place(i, a)].iteration = i /\ evs[Place(i, a)].agent = a
  BY TurnHeld
<1>4. \A i, j \in 1 .. n : \A a, b \in Turns :
         Place(i, a) = Place(j, b) => i = j /\ a = b
  <2>1. \A i \in 1 .. n : i \in Int
    OBVIOUS
  <2> HIDE DEF n
  <2> QED
    BY <2>1, PlaceApart, Zenon
<1>5. IsFiniteSet(1 .. n) /\ Cardinality(1 .. n) = n
  <2> HIDE DEF n
  <2> QED
    BY <1>1, FS_Interval
<1>6. IsFiniteSet(Turns) /\ Cardinality(Turns) = NumAgents
  BY FS_Interval DEF Turns
<1> HIDE DEF evs, n
<1>7. ASSUME NEW a \in Turns
      PROVE  Cardinality({k \in DOMAIN evs : evs[k].agent = a}) = n
  <2> DEFINE T == {k \in DOMAIN evs : evs[k].agent = a}
             f == [i \in 1 .. n |-> Place(i, a)]
  <2>1. \A i \in 1 .. n : f[i] \in T
    BY <1>3
  <2>2. \A i, j \in 1 .. n : f[i] = f[j] => i = j
    BY <1>4
  <2>3. \A k \in T : \E i \in 1 .. n : f[i] = k
    BY <1>2
  <2> HIDE DEF T, f
  <2>4. Cardinality(T) = Cardinality(1 .. n)
    BY <1>5, <2>1, <2>2, <2>3, SameCount
  <2> QED
    BY <1>5, <2>4 DEF T
<1>8. ASSUME NEW i \in 1 .. n
      PROVE  /\ Cardinality({k \in DOMAIN evs : evs[k].iteration = i}) = NumAgents
             /\ {evs[k].agent : k \in {l \in DOMAIN evs : evs[l].iteration = i}} = Turns
  <2> DEFINE T == {k \in DOMAIN evs : evs[k].iteration = i}
             f == [a \in Turns |-> Place(i, a)]
  <2>1. \A a \in Turns : f[a] \in T
    BY <1>3
  <2>2. \A a, b \in Turns : f[a] = f[b] => a = b
    BY <1>4
  <2>3. \A k \in T : \E a \in Turns : f[a] = k
    BY <1>2
  <2>4. {evs[k].agent : k \in T} = Turns
    <3>1. \A k \in T : evs[k].agent \in Turns
      BY <1>2
    <3>2. \A a \in Turns : f[a] \in T /\ evs[f[a]].agent = a
      BY <1>3
    <3> HIDE DEF T, f
    <3> QED
      BY <3>1, <3>2
  <2> HIDE DEF T, f
  <2>5. Cardinality(T) = Cardinality(Turns)
    BY <1>6, <2>1, <2>2, <2>3, SameCount
  <2> QED
    BY <1>6, <2>4, <2>5 DEF T
<1> QED
  BY <1>7, <1>8 DEF evs, n

(* The agents of a result, by its events and by its steps.                 *)
LEMMA AgentsAll ==
    ASSUME NEW r, IsWhole(r)
    PROVE  AgentsOf(r.events) = Turns /\ AgentsOf(r.steps) = Turns
<1> DEFINE evs == r.events
<1>1. \A k \in DOMAIN evs : evs[k].agent \in Turns
  BY EventPlaced
<1>2. 1 \in 1 .. r.iterations
  BY WholeParts DEF Iterations
<1>3. \A a \in Turns : Place(1, a) \in DOMAIN evs /\ evs[Place(1, a)].agent = a
  BY <1>2, TurnHeld
<1>4. AgentsOf(evs) = Turns
  <2> HIDE DEF evs
  <2> QED
    BY <1>1, <1>3 DEF AgentsOf
<1>5. /\ DOMAIN r.steps = DOMAIN evs
      /\ \A k \in DOMAIN evs : r.steps[k].agent = evs[k].agent
  <2>1. Mirrors(r.steps, evs)
    BY DEF IsWhole
  <2>2. DOMAIN r.steps = 1 .. Len(r.steps) /\ DOMAIN evs = 1 .. Len(evs)
    BY WholeParts
  <2>3. Len(r.steps) = Len(evs)
    BY WholeParts
  <2>4. ASSUME NEW k \in 1 .. Len(evs)
        PROVE  r.steps[k].agent = evs[k].agent
    <3> HIDE DEF evs
    <3>1. r.steps[k] = [agent |-> evs[k].agent, state |-> evs[k].output,
                        iteration |-> evs[k].iteration]
      BY <2>1 DEF Mirrors
    <3> QED
      BY <3>1
  <2> HIDE DEF evs
  <2> QED
    BY <2>2, <2>3, <2>4
<1>6. AgentsOf(r.steps) = AgentsOf(evs)
  <2> HIDE DEF evs
  <2> QED
    BY <1>5 DEF AgentsOf
<1> QED
  BY <1>4, <1>6

(* The names in a named result, by its events and by its steps.            *)
LEMMA NamesAll ==
    ASSUME NEW r, IsWhole(r), NEW name, NEW q, IsNamed(q, r, name)
    PROVE  AgentsOf(q.events) = NamesOf(name) /\ AgentsOf(q.steps) = NamesOf(name)
<1>1. AgentsOf(r.events) = Turns /\ AgentsOf(r.steps) = Turns
  BY AgentsAll
<1>2. AgentsOf(q.events) = {name[t] : t \in AgentsOf(r.events)}
  BY DEF AgentsOf, IsNamed
<1>3. AgentsOf(q.steps) = {name[t] : t \in AgentsOf(r.steps)}
  BY DEF AgentsOf, IsNamed
<1> QED
  BY <1>1, <1>2, <1>3 DEF NamesOf

(* The agents of one name act as often as there are of them, in every      *)
(* iteration; and every iteration has every name.                          *)
AllAct(q, r, name) ==
    /\ \A a \in NamesOf(name) :
          Cardinality({k \in DOMAIN q.events : q.events[k].agent = a})
             = r.iterations * Cardinality(Namesakes(name, a))
    /\ \A i \in 1 .. r.iterations :
          /\ Cardinality({k \in DOMAIN q.events : q.events[k].iteration = i}) = NumAgents
          /\ {q.events[k].agent : k \in {l \in DOMAIN q.events : q.events[l].iteration = i}}
                = NamesOf(name)

(* So it is in every named result.                                         *)
LEMMA NamesActing ==
    ASSUME NEW r, IsWhole(r), NEW name, NEW q, IsNamed(q, r, name)
    PROVE  AllAct(q, r, name)
<1> DEFINE evs == r.events
           n == r.iterations
           D == DOMAIN evs
<1>1. /\ DOMAIN q.events = D
      /\ \A k \in D : q.events[k].agent = name[evs[k].agent]
                      /\ q.events[k].iteration = evs[k].iteration
  BY DEF IsNamed
<1>2. \A k \in D : evs[k].agent \in Turns
  BY EventPlaced
<1>3. /\ \A t \in Turns : Cardinality({k \in D : evs[k].agent = t}) = n
      /\ \A i \in 1 .. n :
            /\ Cardinality({k \in D : evs[k].iteration = i}) = NumAgents
            /\ {evs[k].agent : k \in {l \in D : evs[l].iteration = i}} = Turns
  BY TurnsCounted
<1>4. IsFiniteSet(D) /\ n \in Nat
  <2>1. evs \in Seq(Event) /\ n \in Nat
    BY WholeParts DEF Iterations
  <2> HIDE DEF evs, n
  <2> QED
    BY <2>1, CountedPlaces
<1> HIDE DEF evs, n, D
<1>5. ASSUME NEW a \in NamesOf(name)
      PROVE  Cardinality({k \in DOMAIN q.events : q.events[k].agent = a})
                = n * Cardinality(Namesakes(name, a))
  <2> DEFINE M == {k \in D : q.events[k].agent = a}
             T == Namesakes(name, a)
             turnOf == [k \in D |-> evs[k].agent]
  <2>1. IsFiniteSet(M)
    <3>1. M \subseteq D
      OBVIOUS
    <3> QED
      BY <1>4, <3>1, FS_Subset
  <2>2. \A k \in M : turnOf[k] \in T
    BY <1>1, <1>2 DEF Namesakes
  <2>3. \A t \in T : Class(M, turnOf, t) = {k \in D : evs[k].agent = t}
    BY <1>1 DEF Namesakes, Class
  <2>4. \A t \in T : t \in Turns
    BY DEF Namesakes
  <2>5. IsFiniteSet(T) /\ Cardinality(T) \in Nat
    BY NamesCounted, FS_CardinalityType
  <2> HIDE DEF M, T, turnOf
  <2>6. Total([t \in T |-> Cardinality(Class(M, turnOf, t))]) = Cardinality(M)
    BY <2>1, <2>2, TotalCounts
  <2>7. [t \in T |-> Cardinality(Class(M, turnOf, t))] = [t \in T |-> n]
    BY <1>3, <2>3, <2>4
  <2>8. Total([t \in T |-> n]) = Cardinality(T) * n
    BY <1>4, <2>5, TotalOfEqual
  <2>9. Cardinality(M) = n * Cardinality(T)
    BY <1>4, <2>5, <2>6, <2>7, <2>8
  <2> QED
    BY <1>1, <2>9 DEF M, T
<1>6. ASSUME NEW i \in 1 .. n
      PROVE  /\ Cardinality({k \in DOMAIN q.events : q.events[k].iteration = i}) = NumAgents
             /\ {q.events[k].agent : k \in {l \in DOMAIN q.events : q.events[l].iteration = i}}
                   = NamesOf(name)
  <2> DEFINE G == {k \in D : evs[k].iteration = i}
  <2>1. {k \in DOMAIN q.events : q.events[k].iteration = i} = G
    BY <1>1
  <2>2. Cardinality(G) = NumAgents /\ {evs[k].agent : k \in G} = Turns
    BY <1>3
  <2>3. {q.events[k].agent : k \in G} = {name[t] : t \in {evs[k].agent : k \in G}}
    BY <1>1
  <2> HIDE DEF G
  <2> QED
    BY <2>1, <2>2, <2>3 DEF NamesOf
<1> QED
  BY <1>5, <1>6, Zenon DEF n, AllAct

(* The changes by name, and those by iteration, add up to the changes.     *)
LEMMA ChangesAddUp ==
    ASSUME NEW r, IsWhole(r), NEW name, NEW q, IsNamed(q, r, name)
    PROVE  LET Here(k) == Changed(q.events[k])
               changes == Cardinality({k \in DOMAIN q.events : Here(k)})
           IN  /\ Total([a \in NamesOf(name) |->
                        Cardinality({k \in DOMAIN q.events :
                                        q.events[k].agent = a /\ Here(k)})]) = changes
               /\ Total([i \in 1 .. r.iterations |->
                        Cardinality({k \in DOMAIN q.events :
                                        q.events[k].iteration = i /\ Here(k)})]) = changes
<1> DEFINE evs == q.events
           n == r.iterations
           M == {k \in DOMAIN evs : Changed(evs[k])}
           byAgent == [k \in DOMAIN evs |-> evs[k].agent]
           byIteration == [k \in DOMAIN evs |-> evs[k].iteration]
           C == NamesOf(name)
<1>1. \A k \in DOMAIN evs : evs[k].agent \in C /\ evs[k].iteration \in 1 .. n
  <2>1. \A k \in DOMAIN r.events :
           r.events[k].agent \in Turns /\ r.events[k].iteration \in 1 .. n
    BY EventPlaced
  <2> HIDE DEF n
  <2> QED
    BY <2>1 DEF IsNamed, NamesOf
<1>2. IsFiniteSet(M)
  <2>1. r.events \in Seq(Event) /\ M \subseteq DOMAIN r.events
    BY WholeParts DEF IsNamed
  <2> HIDE DEF M
  <2> QED
    BY <2>1, CountedPlaces
<1> HIDE DEF evs, n, C
<1>3. \A k \in M : byAgent[k] \in C /\ byIteration[k] \in 1 .. n
  BY <1>1
<1>4. \A a \in C : Class(M, byAgent, a) = {k \in DOMAIN evs : evs[k].agent = a /\ Changed(evs[k])}
  BY DEF Class
<1>5. \A i \in 1 .. n : Class(M, byIteration, i)
                           = {k \in DOMAIN evs : evs[k].iteration = i /\ Changed(evs[k])}
  BY DEF Class
<1> HIDE DEF byAgent, byIteration, M
<1>6. Total([a \in C |-> Cardinality(Class(M, byAgent, a))]) = Cardinality(M)
  BY <1>2, <1>3, TotalCounts
<1>7. Total([i \in 1 .. n |-> Cardinality(Class(M, byIteration, i))]) = Cardinality(M)
  BY <1>2, <1>3, TotalCounts
<1>8. [a \in C |-> Cardinality(Class(M, byAgent, a))]
         = [a \in C |-> Cardinality({k \in DOMAIN evs : evs[k].agent = a /\ Changed(evs[k])})]
  BY <1>4
<1>9. [i \in 1 .. n |-> Cardinality(Class(M, byIteration, i))]
         = [i \in 1 .. n |-> Cardinality({k \in DOMAIN evs :
                                             evs[k].iteration = i /\ Changed(evs[k])})]
  BY <1>5
<1> QED
  BY <1>6, <1>7, <1>8, <1>9, Zenon DEF evs, n, M, C

(* What the totals below need of a result, named or not: one event for     *)
(* each agent and iteration.                                               *)
Metered(r) ==
    /\ r.iterations \in Nat \ {0} /\ Len(r.events) \in Nat \ {0}
    /\ Len(r.events) = r.iterations * NumAgents

(* A named result is metered.                                              *)
LEMMA NamedMetered ==
    ASSUME NEW r, IsWhole(r), NEW name, NEW q, IsNamed(q, r, name)
    PROVE  Metered(q)
<1>1. /\ r.iterations \in Nat \ {0} /\ Len(r.events) \in Nat \ {0}
      /\ Len(r.events) = r.iterations * NumAgents
  BY WholeParts DEF Iterations
<1> QED
  BY <1>1 DEF IsNamed, Metered

(* The transitions by pair of names add up to one less than the events.    *)
LEMMA TransitionsAddUp ==
    ASSUME NEW r, Metered(r)
    PROVE  Total(Transitions(r)) = TransitionCount(r)
<1> DEFINE evs == r.events
           l == Len(evs) - 1
           M == 1 .. l
           pairOf == [k \in M |-> <<evs[k].agent, evs[k + 1].agent>>]
           C == {<<evs[k].agent, evs[k + 1].agent>> : k \in M}
<1>1. Len(evs) \in Nat \ {0}
  BY DEF Metered
<1>2. IsFiniteSet(M) /\ Cardinality(M) = l
  <2>1. l \in Nat
    BY <1>1
  <2> HIDE DEF l
  <2> QED
    BY <2>1, FS_Interval
<1>3. TransitionCount(r) = l
  BY <1>1 DEF TransitionCount
<1> HIDE DEF l, evs
<1>4. \A k \in M : pairOf[k] \in C /\ pairOf[k] = <<evs[k].agent, evs[k + 1].agent>>
  OBVIOUS
<1>5. Transitions(r) = [p \in C |-> Cardinality({k \in M : <<evs[k].agent, evs[k + 1].agent>> = p})]
  BY DEF Transitions, evs, l
<1> HIDE DEF M, C, pairOf
<1>6. \A p \in C : {k \in M : <<evs[k].agent, evs[k + 1].agent>> = p} = Class(M, pairOf, p)
  BY <1>4 DEF Class
<1>7. Transitions(r) = [p \in C |-> Cardinality(Class(M, pairOf, p))]
  BY <1>5, <1>6
<1>8. Total([p \in C |-> Cardinality(Class(M, pairOf, p))]) = Cardinality(M)
  BY <1>2, <1>4, TotalCounts
<1> QED
  BY <1>2, <1>3, <1>7, <1>8

(* A state that was not there before came with a change: so there is at    *)
(* most one state more than there are changes.                             *)
LEMMA StatesCounted ==
    ASSUME NEW r, IsWhole(r)
    PROVE  LET changes == {k \in DOMAIN r.events : Changed(r.events[k])}
           IN  Cardinality({r.final} \cup {r.events[k].input : k \in DOMAIN r.events}
                                    \cup {r.events[k].output : k \in DOMAIN r.events})
                  <= Cardinality(changes) + 1
<1> DEFINE evs == r.events
           M == {k \in DOMAIN evs : Changed(evs[k])}
           f == [k \in M |-> evs[k].output]
           news == {f[k] : k \in M}
           first == evs[1].input
           seen == news \cup {first}
           T == {n \in Nat : n + 1 <= Len(evs) =>
                                evs[n + 1].input \in seen /\ evs[n + 1].output \in seen}
<1>1. /\ evs \in Seq(Event) /\ Len(evs) \in Nat \ {0} /\ DOMAIN evs = 1 .. Len(evs)
      /\ r.final = evs[Len(evs)].output
      /\ \A k \in 1 .. Len(evs) - 1 : evs[k + 1].input = evs[k].output
  <2>1. evs \in Seq(Event) /\ evs # << >>
    BY WholeParts
  <2>2. Chained(evs, r.origin, r.final)
    BY DEF IsWhole
  <2> HIDE DEF evs
  <2> QED
    BY <2>1, <2>2 DEF Chained, Follows
<1> HIDE DEF evs
<1>2. ASSUME NEW k \in DOMAIN evs, evs[k].input \in seen
      PROVE  evs[k].output \in seen
  <2>1. CASE k \in M
    BY <2>1
  <2>2. CASE k \notin M
    BY <1>2, <2>2 DEF Changed
  <2> QED
    BY <2>1, <2>2
<1>3. 0 \in T
  <2>1. 1 \in DOMAIN evs /\ evs[1].input \in seen
    BY <1>1
  <2>2. evs[1].output \in seen
    BY <1>2, <2>1
  <2> QED
    BY <2>1, <2>2
<1>4. ASSUME NEW n \in T
      PROVE  n + 1 \in T
  <2>1. n \in Nat
    OBVIOUS
  <2>2. ASSUME (n + 1) + 1 <= Len(evs)
        PROVE  evs[(n + 1) + 1].input \in seen /\ evs[(n + 1) + 1].output \in seen
    <3>1. n + 1 \in 1 .. Len(evs) - 1 /\ n + 1 <= Len(evs) /\ (n + 1) + 1 \in DOMAIN evs
      BY <1>1, <2>1, <2>2
    <3>2. evs[n + 1].output \in seen
      BY <1>4, <3>1
    <3> HIDE DEF seen, T
    <3>3. evs[(n + 1) + 1].input \in seen
      BY <1>1, <3>1, <3>2
    <3> QED
      BY <1>2, <3>1, <3>3
  <2> HIDE DEF seen
  <2> QED
    BY <2>1, <2>2
<1>5. T = Nat
  <2>1. T \subseteq Nat
    OBVIOUS
  <2> HIDE DEF T
  <2> QED
    BY <1>3, <1>4, <2>1, NatSetInduction
<1>6. \A k \in DOMAIN evs : evs[k].input \in seen /\ evs[k].output \in seen
  <2>1. \A k \in DOMAIN evs : k - 1 \in Nat /\ (k - 1) + 1 = k /\ k <= Len(evs)
    BY <1>1
  <2>2. \A k \in DOMAIN evs : k - 1 \in T
    BY <1>5, <2>1
  <2> HIDE DEF seen
  <2> QED
    BY <2>1, <2>2
<1>7. Len(evs) \in DOMAIN evs
  BY <1>1
<1> DEFINE all == {r.final} \cup {evs[k].input : k \in DOMAIN evs}
                     \cup {evs[k].output : k \in DOMAIN evs}
<1>8. all \subseteq seen
  <2> HIDE DEF seen
  <2> QED
    BY <1>1, <1>6, <1>7
<1>9. IsFiniteSet(M) /\ Cardinality(M) \in Nat
  <2>1. M \subseteq DOMAIN evs
    OBVIOUS
  <2> HIDE DEF M
  <2> QED
    BY <1>1, <2>1, CountedPlaces
<1> HIDE DEF f, M
<1>10. IsFiniteSet(news) /\ Cardinality(news) <= Cardinality(M) /\ Cardinality(news) \in Nat
  BY <1>9, ImageSmaller
<1> HIDE DEF news, first
<1>11. IsFiniteSet(seen) /\ Cardinality(seen) <= Cardinality(news) + 1 /\ Cardinality(seen) \in Nat
  <2>1. IsFiniteSet(news \cup {first})
        /\ Cardinality(news \cup {first})
              = IF first \in news THEN Cardinality(news) ELSE Cardinality(news) + 1
    BY <1>10, FS_AddElement
  <2> QED
    BY <1>10, <2>1
<1> HIDE DEF seen, all
<1>12. Cardinality(all) <= Cardinality(seen) /\ Cardinality(all) \in Nat
  BY <1>8, <1>11, FS_Subset, FS_CardinalityType
<1>13. Cardinality(all) <= Cardinality(M) + 1
  BY <1>9, <1>10, <1>11, <1>12
<1> QED
  BY <1>13, Zenon DEF all, M, evs

(* The metrics of n loops with the same result.                            *)
LEMMA MetricsOf ==
    ASSUME NEW r, Metered(r), NEW n \in Nat
    PROVE  LET m == LoopMetrics([k \in 1 .. n |-> r])
               s == IF r.status = "completed" THEN n ELSE 0
               i == r.iterations
               e == Len(r.events)
           IN  /\ m.failures = n - s
               /\ m.successRate = Ratio(s, n)
               /\ m.totalIterations = n * i
               /\ m.avgIterations = Ratio(n * i, n)
               /\ m.avgIterationsToSuccess = Ratio(s * i, s)
               /\ m.totalEvents = n * e
               /\ m.throughput = Ratio(n * e, n * i)
<1> DEFINE rs == [k \in 1 .. n |-> r]
           s == IF r.status = "completed" THEN n ELSE 0
           i == r.iterations
           e == Len(r.events)
           done == {k \in 1 .. n : rs[k].status = "completed"}
           m == LoopMetrics(rs)
<1>1. i \in Nat /\ e \in Nat
  BY DEF Metered
<1>2. DOMAIN rs = 1 .. n /\ Len(rs) = n /\ \A k \in 1 .. n : rs[k] = r
  OBVIOUS
<1>3. IsFiniteSet(1 .. n) /\ Cardinality(1 .. n) = n
  BY FS_Interval
<1>4. IsFiniteSet(done) /\ Cardinality(done) = s
  <2>1. CASE r.status = "completed"
    <3>1. done = 1 .. n
      BY <2>1
    <3> HIDE DEF done
    <3> QED
      BY <1>3, <2>1, <3>1
  <2>2. CASE r.status # "completed"
    <3>1. done = {}
      BY <2>2
    <3> HIDE DEF done
    <3> QED
      BY <2>2, <3>1, FS_EmptySet
  <2> QED
    BY <2>1, <2>2
<1>5. /\ [k \in DOMAIN rs |-> rs[k].iterations] = [k \in 1 .. n |-> i]
      /\ [k \in DOMAIN rs |-> Len(rs[k].events)] = [k \in 1 .. n |-> e]
      /\ {k \in DOMAIN rs : rs[k].status = "completed"} = done
      /\ [k \in done |-> rs[k].iterations] = [k \in done |-> i]
  OBVIOUS
<1> HIDE DEF rs, i, e, done, s
<1>6. /\ Total([k \in 1 .. n |-> i]) = n * i
      /\ Total([k \in 1 .. n |-> e]) = n * e
      /\ Total([k \in done |-> i]) = s * i
  <2>1. ASSUME NEW S, IsFiniteSet(S), NEW c \in Nat
        PROVE  Total([x \in S |-> c]) = Cardinality(S) * c
    BY <2>1, TotalOfEqual
  <2> QED
    BY <1>1, <1>3, <1>4, <2>1, Zenon
<1>7. /\ Total([k \in DOMAIN rs |-> rs[k].iterations]) = n * i
      /\ Total([k \in DOMAIN rs |-> Len(rs[k].events)]) = n * e
      /\ Total([k \in done |-> rs[k].iterations]) = s * i
  BY <1>5, <1>6, Zenon
<1>8. /\ m.failures = n - s
      /\ m.successRate = Ratio(s, n)
      /\ m.totalIterations = n * i
      /\ m.avgIterations = Ratio(n * i, n)
      /\ m.avgIterationsToSuccess = Ratio(s * i, s)
      /\ m.totalEvents = n * e
      /\ m.throughput = Ratio(n * e, n * i)
  <2> DEFINE allIterations == Total([k \in DOMAIN rs |-> rs[k].iterations])
             allEvents == Total([k \in DOMAIN rs |-> Len(rs[k].events)])
             completed == {k \in DOMAIN rs : rs[k].status = "completed"}
             successes == Cardinality(completed)
  <2>1. successes = s /\ Total([k \in completed |-> rs[k].iterations]) = s * i
    BY <1>4, <1>5, <1>7, Zenon
  <2>2. allIterations = n * i /\ allEvents = n * e
    BY <1>7, Zenon
  <2>3. m = [runs |-> Len(rs), successes |-> successes, failures |-> Len(rs) - successes,
             successRate |-> Ratio(successes, Len(rs)),
             totalIterations |-> allIterations,
             avgIterations |-> Ratio(allIterations, Len(rs)),
             avgIterationsToSuccess |->
                Ratio(Total([k \in completed |-> rs[k].iterations]), successes),
             totalEvents |-> allEvents,
             throughput |-> Ratio(allEvents, allIterations)]
    BY Zenon DEF LoopMetrics
  <2> HIDE DEF m, allIterations, allEvents, successes
  <2>4. m.totalIterations = allIterations /\ m.totalEvents = allEvents
        /\ m.failures = Len(rs) - successes
    BY <2>3
  <2>5. /\ m.successRate = Ratio(successes, Len(rs))
        /\ m.avgIterations = Ratio(allIterations, Len(rs))
        /\ m.throughput = Ratio(allEvents, allIterations)
        /\ m.avgIterationsToSuccess
              = Ratio(Total([k \in completed |-> rs[k].iterations]), successes)
    BY <2>3
  <2> HIDE DEF completed
  <2> QED
    BY <1>2, <2>1, <2>2, <2>4, <2>5, Zenon
<1> QED
  BY <1>8, Zenon DEF m, rs, s, i, e

(* Of up to two equal results the metrics are those of one.                *)
LEMMA FleetsAgree ==
    ASSUME NEW r, Metered(r), NEW n \in 0 .. 2
    PROVE  LET m == LoopMetrics([k \in 1 .. n |-> r])
               h == Health(r)
           IN  /\ m.totalEvents = NumAgents * m.totalIterations
               /\ m.totalEvents = n * h.events
               /\ m.failures = (IF h.completed THEN 0 ELSE n)
               /\ n > 0 => /\ Same(m.throughput, <<NumAgents, 1>>)
                           /\ Same(m.avgIterations, <<h.iterations, 1>>)
                           /\ Same(m.avgIterationsToSuccess, <<h.iterations, 1>>)
                                 <=> h.completed
                           /\ Same(m.successRate, <<1, 1>>) <=> h.completed
<1> DEFINE m == LoopMetrics([k \in 1 .. n |-> r])
           completed == r.status = "completed"
           s == IF completed THEN n ELSE 0
           i == r.iterations
           e == Len(r.events)
<1>2. i \in Nat \ {0} /\ e \in Nat /\ e = i * NumAgents
  BY DEF Metered
<1>1. /\ m.failures = n - s
      /\ m.successRate = Ratio(s, n)
      /\ m.totalIterations = n * i
      /\ m.avgIterations = Ratio(n * i, n)
      /\ m.avgIterationsToSuccess = Ratio(s * i, s)
      /\ m.totalEvents = n * e
      /\ m.throughput = Ratio(n * e, n * i)
  <2>1. n \in Nat
    OBVIOUS
  <2> QED
    BY <2>1, MetricsOf, Zenon
<1>3. n = 0 \/ n = 1 \/ n = 2
  OBVIOUS
<1>4. completed \in BOOLEAN
  OBVIOUS
<1>5. s = 0 \/ s = n
  OBVIOUS
<1>6. (completed => s = n) /\ (~completed => s = 0)
  OBVIOUS
<1> HIDE DEF m, i, e, completed, s
<1>7. /\ NumAgents * (0 * i) = 0 /\ NumAgents * (1 * i) = e /\ NumAgents * (2 * i) = 2 * e
      /\ 0 * e = 0 /\ 1 * e = e /\ 0 * i = 0 /\ 1 * i = i /\ 2 * i # 0
  BY <1>2
<1>8. m.totalEvents = NumAgents * m.totalIterations
  BY <1>1, <1>3, <1>7
<1>9. m.failures = IF completed THEN 0 ELSE n
  BY <1>1, <1>3, <1>6
<1>10. ASSUME n > 0
       PROVE  /\ Same(m.throughput, <<NumAgents, 1>>)
              /\ Same(m.avgIterations, <<i, 1>>)
              /\ Same(m.avgIterationsToSuccess, <<i, 1>>) <=> completed
              /\ Same(m.successRate, <<1, 1>>) <=> completed
  <2>1. n = 1 \/ n = 2
    BY <1>3, <1>10
  <2>2. n * i # 0 /\ (n * e) * 1 = NumAgents * (n * i)
    BY <1>2, <1>7, <2>1
  <2>3. Same(m.throughput, <<NumAgents, 1>>)
    <3> DEFINE x == n * e
               y == n * i
    <3>1. m.throughput = <<x, y>> /\ x * 1 = NumAgents * y
      BY <1>1, <2>2 DEF Ratio
    <3> HIDE DEF x, y
    <3> QED
      BY <3>1 DEF Same
  <2>4. Same(m.avgIterations, <<i, 1>>)
    <3>1. m.avgIterations = <<n * i, n>> /\ (n * i) * 1 = i * n
      BY <1>1, <1>2, <2>1 DEF Ratio
    <3> QED
      BY <3>1 DEF Same
  <2>5. Same(m.avgIterationsToSuccess, <<i, 1>>) <=> completed
    <3>1. CASE completed
      <4>1. m.avgIterationsToSuccess = <<n * i, n>> /\ (n * i) * 1 = i * n
        BY <1>1, <1>2, <1>6, <2>1, <3>1 DEF Ratio
      <4> QED
        BY <3>1, <4>1 DEF Same
    <3>2. CASE ~completed
      <4>1. m.avgIterationsToSuccess = <<0, 1>> /\ 0 * 1 # i * 1
        BY <1>1, <1>2, <1>6, <3>2 DEF Ratio
      <4> QED
        BY <3>2, <4>1 DEF Same
    <3> QED
      BY <3>1, <3>2
  <2>6. Same(m.successRate, <<1, 1>>) <=> completed
    <3>1. CASE completed
      <4>1. m.successRate = <<n, n>>
        BY <1>1, <1>6, <2>1, <3>1 DEF Ratio
      <4> QED
        BY <3>1, <4>1 DEF Same
    <3>2. CASE ~completed
      <4>1. m.successRate = <<0, n>> /\ 0 * 1 # 1 * n
        BY <1>1, <1>6, <2>1, <3>2 DEF Ratio
      <4> QED
        BY <3>2, <4>1 DEF Same
    <3> QED
      BY <3>1, <3>2
  <2> QED
    BY <2>3, <2>4, <2>5, <2>6
<1> DEFINE h == Health(r)
<1>11. h.events = e /\ h.iterations = i /\ h.completed = completed
  BY DEF Health, e, i, completed
<1> HIDE DEF h
<1>12. m.totalEvents = n * h.events
  BY <1>1, <1>11, Zenon
<1>13. m.failures = IF h.completed THEN 0 ELSE n
  BY <1>9, <1>11, Zenon
<1>14. n > 0 => /\ Same(m.throughput, <<NumAgents, 1>>)
                /\ Same(m.avgIterations, <<h.iterations, 1>>)
                /\ Same(m.avgIterationsToSuccess, <<h.iterations, 1>>) <=> h.completed
                /\ Same(m.successRate, <<1, 1>>) <=> h.completed
  BY <1>10, <1>11, Zenon
<1> QED
  BY <1>8, <1>12, <1>13, <1>14, Zenon DEF m, h

(* The groupings by name and by iteration, and the totals.                 *)
LEMMA GroupingsAgree ==
    ASSUME NEW r, IsWhole(r), NEW name, NEW q, IsNamed(q, r, name)
    PROVE  LET h == Health(q)
               byAgent == AgentSummary(q)
               byIteration == IterationSummary(q)
           IN  /\ DOMAIN byIteration = 1 .. r.iterations /\ DOMAIN byAgent = NamesOf(name)
               /\ \A i \in 1 .. r.iterations :
                     /\ byIteration[i].events = NumAgents
                     /\ byIteration[i].agents = Cardinality(NamesOf(name))
               /\ \A a \in NamesOf(name) :
                     byAgent[a].executions = r.iterations * Cardinality(Namesakes(name, a))
               /\ Total([a \in NamesOf(name) |-> byAgent[a].changes]) = h.changes
               /\ Total([i \in 1 .. r.iterations |-> byIteration[i].changes]) = h.changes
<1> DEFINE evs == q.events
           n == r.iterations
           C == NamesOf(name)
           h == Health(q)
           byAgent == AgentSummary(q)
           byIteration == IterationSummary(q)
           changes == Cardinality({k \in DOMAIN evs : Changed(evs[k])})
           ofAgent(a) == {k \in DOMAIN evs : evs[k].agent = a}
           ofIteration(i) == {k \in DOMAIN evs : evs[k].iteration = i}
           changedBy(a) == {k \in DOMAIN evs : evs[k].agent = a /\ Changed(evs[k])}
           changedIn(i) == {k \in DOMAIN evs : evs[k].iteration = i /\ Changed(evs[k])}
<1>1. h.changes = changes
  BY DEF Health, CountOf
<1>2. /\ DOMAIN byAgent = C
      /\ \A a \in C : /\ byAgent[a].executions = Cardinality(ofAgent(a))
                      /\ byAgent[a].changes = Cardinality(changedBy(a))
  <2>1. AgentsOf(evs) = C
    BY NamesAll
  <2>2. byAgent = [a \in C |-> [executions |-> Cardinality(ofAgent(a)),
                                changes |-> Cardinality(changedBy(a))]]
    BY <2>1 DEF AgentSummary, CountOf
  <2> HIDE DEF byAgent, ofAgent, changedBy, C
  <2> QED
    BY <2>2
<1>3. DOMAIN byIteration = 1 .. n
  <2>1. \A k \in DOMAIN r.events : r.events[k].iteration \in 1 .. n
    BY EventPlaced
  <2>2. 1 \in Turns
    BY DEF Turns
  <2>3. \A i \in 1 .. n : /\ Place(i, 1) \in DOMAIN r.events
                          /\ r.events[Place(i, 1)].iteration = i
    BY <2>2, TurnHeld
  <2>4. DOMAIN byIteration = {evs[k].iteration : k \in DOMAIN evs}
    BY DEF IterationSummary
  <2>5. DOMAIN evs = DOMAIN r.events
        /\ \A k \in DOMAIN r.events : evs[k].iteration = r.events[k].iteration
    BY DEF IsNamed
  <2> HIDE DEF evs, n, byIteration
  <2> QED
    BY <2>1, <2>3, <2>4, <2>5
<1>4. \A i \in 1 .. n :
         /\ byIteration[i].events = Cardinality(ofIteration(i))
         /\ byIteration[i].agents = Cardinality({evs[k].agent : k \in ofIteration(i)})
         /\ byIteration[i].changes = Cardinality(changedIn(i))
  <2> SUFFICES ASSUME NEW i \in 1 .. n
               PROVE  /\ byIteration[i].events = Cardinality(ofIteration(i))
                      /\ byIteration[i].agents = Cardinality({evs[k].agent : k \in ofIteration(i)})
                      /\ byIteration[i].changes = Cardinality(changedIn(i))
    OBVIOUS
  <2> DEFINE group == ofIteration(i)
             agents == Cardinality({evs[k].agent : k \in group})
             changed == {k \in group : Changed(evs[k])}
  <2>1. i \in DOMAIN byIteration
    BY <1>3
  <2>2. byIteration[i] = [events |-> Cardinality(group), agents |-> agents,
                          changes |-> Cardinality(changed)]
    BY <2>1 DEF IterationSummary
  <2>3. changed = changedIn(i)
    OBVIOUS
  <2> HIDE DEF byIteration, ofIteration, changedIn, evs, group, agents, changed
  <2>4. byIteration[i].events = Cardinality(group) /\ byIteration[i].agents = agents
        /\ byIteration[i].changes = Cardinality(changed)
    BY <2>2
  <2> QED
    BY <2>3, <2>4, Zenon DEF group, agents
<1>5. /\ \A a \in C : Cardinality(ofAgent(a)) = n * Cardinality(Namesakes(name, a))
      /\ \A i \in 1 .. n : /\ Cardinality(ofIteration(i)) = NumAgents
                           /\ {evs[k].agent : k \in ofIteration(i)} = C
  <2>1. AllAct(q, r, name)
    BY NamesActing
  <2> QED
    BY <2>1, Zenon DEF AllAct
<1>6. /\ Total([a \in C |-> Cardinality(changedBy(a))]) = changes
      /\ Total([i \in 1 .. n |-> Cardinality(changedIn(i))]) = changes
  BY ChangesAddUp
<1> HIDE DEF evs, n, C, h, byAgent, byIteration, changes, ofAgent, ofIteration,
             changedBy, changedIn
<1>7. /\ [a \in C |-> byAgent[a].changes] = [a \in C |-> Cardinality(changedBy(a))]
      /\ [i \in 1 .. n |-> byIteration[i].changes] = [i \in 1 .. n |-> Cardinality(changedIn(i))]
  BY <1>2, <1>4
<1>8. /\ Total([a \in C |-> byAgent[a].changes]) = h.changes
      /\ Total([i \in 1 .. n |-> byIteration[i].changes]) = h.changes
  BY <1>1, <1>6, <1>7
<1>9. /\ \A i \in 1 .. n : /\ byIteration[i].events = NumAgents
                           /\ byIteration[i].agents = Cardinality(C)
      /\ \A a \in C : byAgent[a].executions = n * Cardinality(Namesakes(name, a))
  BY <1>2, <1>4, <1>5, Zenon
<1> QED
  BY <1>2, <1>3, <1>8, <1>9, Zenon DEF n, C, h, byAgent, byIteration

(* The states of a named result are those of the result.                   *)
LEMMA NamedStates ==
    ASSUME NEW r, IsWhole(r), NEW name, NEW q, IsNamed(q, r, name)
    PROVE  Health(q).unique <= Health(q).changes + 1
<1>1. {q.events[k].input : k \in DOMAIN q.events} = {r.events[k].input : k \in DOMAIN r.events}
  BY DEF IsNamed
<1>2. {q.events[k].output : k \in DOMAIN q.events} = {r.events[k].output : k \in DOMAIN r.events}
  BY DEF IsNamed
<1>3. {k \in DOMAIN q.events : Changed(q.events[k])} = {k \in DOMAIN r.events : Changed(r.events[k])}
  BY DEF IsNamed, Changed
<1>4. q.final = r.final
  BY DEF IsNamed
<1>5. /\ Health(q).unique = Cardinality({q.final} \cup {q.events[k].input : k \in DOMAIN q.events}
                                         \cup {q.events[k].output : k \in DOMAIN q.events})
      /\ Health(q).changes = Cardinality({k \in DOMAIN q.events : Changed(q.events[k])})
  BY DEF Health, CountOf
<1> QED
  BY <1>1, <1>2, <1>3, <1>4, <1>5, StatesCounted

(* What the views agree on, of the named result q.                         *)
Agreement(q, name) ==
    LET names == {name[t] : t \in Turns}
        h == Health(q)
        byAgent == AgentSummary(q)
        byIteration == IterationSummary(q)
    IN  /\ DOMAIN byIteration = 1 .. q.iterations
        /\ \A i \in DOMAIN byIteration :
              /\ byIteration[i].events = NumAgents
              /\ byIteration[i].agents = Cardinality(names)
        /\ DOMAIN byAgent = names
        /\ \A a \in names :
              byAgent[a].executions = q.iterations * Cardinality(Namesakes(name, a))
        /\ Total([a \in DOMAIN byAgent |-> byAgent[a].changes]) = h.changes
        /\ Total([i \in DOMAIN byIteration |-> byIteration[i].changes]) = h.changes
        /\ Total(Transitions(q)) = TransitionCount(q)
        /\ h.agents = Cardinality(names)
        /\ Audit(q).agents = names
        /\ Audit(q).steps = h.events
        /\ h.unique <= h.changes + 1
        /\ \A n \in 0 .. 2 :
              LET m == LoopMetrics([k \in 1 .. n |-> q])
              IN  /\ m.totalEvents = NumAgents * m.totalIterations
                  /\ m.totalEvents = n * h.events
                  /\ m.failures = (IF h.completed THEN 0 ELSE n)
                  /\ n > 0 => /\ Same(m.throughput, <<NumAgents, 1>>)
                              /\ Same(m.avgIterations, <<h.iterations, 1>>)
                              /\ Same(m.avgIterationsToSuccess,
                                      <<h.iterations, 1>>) <=> h.completed
                              /\ Same(m.successRate, <<1, 1>>) <=> h.completed

(* All views of a named result count the same turns and changes.           *)
LEMMA ViewsCountAlike ==
    ASSUME NEW r, IsWhole(r), NEW name, NEW q, IsNamed(q, r, name)
    PROVE  Agreement(q, name)
<1> DEFINE C == NamesOf(name)
           h == Health(q)
           byAgent == AgentSummary(q)
           byIteration == IterationSummary(q)
<1>1. q.iterations = r.iterations /\ Metered(q)
  <2>1. q.iterations = r.iterations
    BY DEF IsNamed
  <2> QED
    BY <2>1, NamedMetered
<1>2. /\ DOMAIN byIteration = 1 .. q.iterations /\ DOMAIN byAgent = C
      /\ \A i \in 1 .. q.iterations :
            byIteration[i].events = NumAgents /\ byIteration[i].agents = Cardinality(C)
      /\ \A a \in C :
            byAgent[a].executions = q.iterations * Cardinality(Namesakes(name, a))
      /\ Total([a \in C |-> byAgent[a].changes]) = h.changes
      /\ Total([i \in 1 .. q.iterations |-> byIteration[i].changes]) = h.changes
  BY <1>1, GroupingsAgree
<1>3. Total(Transitions(q)) = TransitionCount(q)
  BY <1>1, TransitionsAddUp
<1>4. Audit(q).agents = C /\ Audit(q).steps = Len(q.steps) /\ h.agents = Cardinality(C)
  BY NamesAll DEF Audit, Health
<1>5. h.events = Len(q.events) /\ Len(q.steps) = Len(q.events) /\ h.iterations = q.iterations
  <2>1. Len(r.steps) = Len(r.events)
    BY WholeParts
  <2> QED
    BY <2>1 DEF Health, IsNamed
<1>6. h.unique <= h.changes + 1
  BY NamedStates
<1> HIDE DEF h, byAgent, byIteration
<1>7. \A n \in 0 .. 2 :
         LET m == LoopMetrics([k \in 1 .. n |-> q])
         IN  /\ m.totalEvents = NumAgents * m.totalIterations
             /\ m.totalEvents = n * h.events
             /\ m.failures = (IF h.completed THEN 0 ELSE n)
             /\ n > 0 => /\ Same(m.throughput, <<NumAgents, 1>>)
                         /\ Same(m.avgIterations, <<h.iterations, 1>>)
                         /\ Same(m.avgIterationsToSuccess, <<h.iterations, 1>>)
                               <=> h.completed
                         /\ Same(m.successRate, <<1, 1>>) <=> h.completed
  BY <1>1, FleetsAgree, Zenon DEF h
<1>8. Total([a \in DOMAIN byAgent |-> byAgent[a].changes]) = h.changes
      /\ Total([i \in DOMAIN byIteration |-> byIteration[i].changes]) = h.changes
  BY <1>2, Zenon
<1>9. C = {name[t] : t \in Turns}
  BY DEF NamesOf
<1> HIDE DEF C
<1> QED
  BY <1>2, <1>3, <1>4, <1>5, <1>6, <1>7, <1>8, <1>9, Zenon
     DEF Agreement, h, byAgent, byIteration

(* The views of a result agree (see ViewsAgree), for every number of       *)
(* agents, whatever they are called, and every history.                    *)
THEOREM ViewsDoAgree == Spec => []ViewsAgree
<1>1. LoopInv => ViewsAgree
  <2> SUFFICES ASSUME LoopInv, result # NoResult, NEW name \in Namings
               PROVE  Agreement(Named(result, name), name)
    BY Zenon DEF ViewsAgree, Agreement
  <2>1. IsWhole(result)
    BY HeldIsWhole
  <2>2. IsNamed(Named(result, name), result, name)
    BY <2>1, NamedParts
  <2> QED
    BY <2>1, <2>2, ViewsCountAlike
<1> QED
  BY <1>1, Invariance, PTL

-----------------------------------------------------------------------------
(* The verdicts on a result.                                               *)

(* Every state of a history is a string but for the first initial state.   *)
LEMMA StringsHeld ==
    ASSUME NEW r, IsWhole(r)
    PROVE  /\ 1 \in DOMAIN r.events /\ r.events[1].input = r.origin
           /\ \A k \in DOMAIN r.events :
                 /\ r.events[k].output \in Strings
                 /\ k = 1 \/ r.events[k].input \in Strings
<1> DEFINE evs == r.events
<1>1. evs \in Seq(Event) /\ evs # << >>
  BY WholeParts
<1>2. Chained(evs, r.origin, r.final)
  BY DEF IsWhole
<1> HIDE DEF evs
<1>3. DOMAIN evs = 1 .. Len(evs) /\ Len(evs) \in Nat \ {0}
  BY <1>1
<1>4. /\ evs[1].input = r.origin
      /\ \A k \in 1 .. Len(evs) - 1 : evs[k + 1].input = evs[k].output
  BY <1>1, <1>2 DEF Chained, Follows
<1>5. \A k \in DOMAIN evs : evs[k].output \in Strings
  <2>1. \A k \in DOMAIN evs : evs[k] \in Event
    BY <1>1
  <2>2. \A e \in Event : e.output \in Strings
    BY DEF Event
  <2> QED
    BY <2>1, <2>2
<1>6. ASSUME NEW k \in DOMAIN evs, k # 1
      PROVE  evs[k].input \in Strings
  <2>1. k - 1 \in 1 .. Len(evs) - 1 /\ k - 1 \in DOMAIN evs /\ (k - 1) + 1 = k
    BY <1>3, <1>6
  <2>2. evs[k].input = evs[k - 1].output
    BY <1>4, <2>1
  <2> QED
    BY <1>5, <2>1, <2>2
<1>7. 1 \in DOMAIN evs
  BY <1>3
<1> QED
  BY <1>4, <1>5, <1>6, <1>7 DEF evs

(* loop_validation finds in a named result an agent without a name and an  *)
(* initial state that is not a string, and nothing else.                   *)
LEMMA IssuesFound ==
    ASSUME NEW r, IsWhole(r), NEW name, NEW q, IsNamed(q, r, name)
    PROVE  /\ Issues(q) \subseteq {"event agent is empty", "event state is invalid"}
           /\ "event agent is empty" \in Issues(q) <=> \E t \in Turns : name[t] \in BlankNames
           /\ "event state is invalid" \in Issues(q) <=> r.origin \notin Strings
<1> DEFINE evs == r.events
           D == DOMAIN evs
<1>1. /\ q.status \in {"completed", "failed"} /\ ~(q.iterations < 1)
      /\ Len(q.steps) = Len(q.events)
  <2>1. /\ r.status \in {"completed", "failed"} /\ r.iterations \in 1 .. IterationBound
        /\ Len(r.steps) = Len(r.events)
    BY WholeParts DEF Iterations
  <2>2. ~(r.iterations < 1)
    BY <2>1
  <2> QED
    BY <2>1, <2>2 DEF IsNamed
<1>2. /\ DOMAIN q.events = D
      /\ \A k \in D : /\ q.events[k].agent = name[evs[k].agent]
                      /\ q.events[k].iteration = evs[k].iteration
                      /\ q.events[k].input = evs[k].input
                      /\ q.events[k].output = evs[k].output
  BY DEF IsNamed
<1>3. /\ 1 \in D /\ evs[1].input = r.origin
      /\ \A k \in D : evs[k].output \in Strings /\ (k = 1 \/ evs[k].input \in Strings)
  BY StringsHeld
<1> HIDE DEF evs
<1>4. \A k \in D : evs[k].agent \in Turns /\ ~(evs[k].iteration < 1)
  <2>1. \A k \in D : evs[k].agent \in Turns /\ evs[k].iteration \in 1 .. r.iterations
    BY EventPlaced DEF evs
  <2> QED
    BY <2>1
<1>5. \A t \in Turns : \E k \in D : evs[k].agent = t
  <2>1. AgentsOf(evs) = Turns
    BY AgentsAll DEF evs
  <2> QED
    BY <2>1, Zenon DEF AgentsOf
<1> HIDE DEF D
<1>7. (\E k \in D : q.events[k].agent \in BlankNames) <=> \E t \in Turns : name[t] \in BlankNames
  BY <1>2, <1>4, <1>5
<1>8. (\E k \in D : q.events[k].input \notin Strings \/ q.events[k].output \notin Strings)
         <=> r.origin \notin Strings
  BY <1>2, <1>3
<1>9. ~ \E k \in D : q.events[k].iteration < 1
  BY <1>2, <1>4
<1>10. Issues(q) \subseteq {"event agent is empty", "event state is invalid"}
  BY <1>1, <1>2, <1>9, Zenon DEF Issues
<1>11. "event agent is empty" \in Issues(q)
          <=> \E k \in D : q.events[k].agent \in BlankNames
  BY <1>2, Zenon DEF Issues
<1>12. "event state is invalid" \in Issues(q)
          <=> \E k \in D : q.events[k].input \notin Strings \/ q.events[k].output \notin Strings
  BY <1>2, Zenon DEF Issues
<1> QED
  BY <1>7, <1>8, <1>10, <1>11, <1>12, Zenon

(* A named result is healthy if it completed and something changed.        *)
LEMMA HealthyIfCompleted ==
    ASSUME NEW r, IsWhole(r), NEW name, NEW q, IsNamed(q, r, name)
    PROVE  Healthy(Health(q)) <=>
              /\ r.status = "completed"
              /\ \E k \in DOMAIN r.events : Changed(r.events[k])
<1> DEFINE h == Health(q)
           T == {k \in DOMAIN r.events : Changed(r.events[k])}
<1>1. r.events \in Seq(Event) /\ r.events # << >>
  BY WholeParts
<1>2. /\ h.completed = (r.status = "completed") /\ h.events = Len(r.events)
      /\ h.agents = Cardinality(NamesOf(name)) /\ h.changes = Cardinality(T)
  <2>1. {k \in DOMAIN q.events : Changed(q.events[k])} = T
    BY DEF IsNamed, Changed
  <2>2. q.status = r.status /\ Len(q.events) = Len(r.events)
    BY DEF IsNamed
  <2>3. AgentsOf(q.events) = NamesOf(name)
    BY NamesAll
  <2> QED
    BY <2>1, <2>2, <2>3 DEF Health, CountOf
<1> HIDE DEF h
<1>3. h.events > 0
  <2>1. Len(r.events) > 0
    BY <1>1
  <2> QED
    BY <1>2, <2>1
<1>4. h.agents # 0
  <2>1. Cardinality(NamesOf(name)) # 0
    BY NamesCounted
  <2> QED
    BY <1>2, <2>1
<1>5. h.changes = 0 <=> T = {}
  <2>1. T \subseteq DOMAIN r.events
    OBVIOUS
  <2> HIDE DEF T
  <2> QED
    BY <1>1, <1>2, <2>1, CountedPlaces
<1>6. h.events # 0
  BY <1>3
<1> HIDE DEF T
<1>7. HealthIssues(h) = {} <=> h.completed /\ h.changes # 0
  BY <1>3, <1>4, <1>6, Zenon DEF HealthIssues
<1>8. T # {} <=> \E k \in DOMAIN r.events : Changed(r.events[k])
  BY DEF T
<1> QED
  BY <1>2, <1>5, <1>7, <1>8 DEF Healthy, h

(* The issues of a result are those of the agents' names and of the        *)
(* initial state, and it is called healthy exactly when it should be (see  *)
(* VerdictsRight).                                                         *)
THEOREM VerdictsAreRight == Spec => []VerdictsRight
<1>1. LoopInv => VerdictsRight
  <2> SUFFICES ASSUME LoopInv, result # NoResult, NEW name \in Namings
               PROVE  LET r == Named(result, name)
                      IN  /\ Issues(r) \subseteq {"event agent is empty", "event state is invalid"}
                          /\ "event agent is empty" \in Issues(r) <=>
                                \E t \in Turns : name[t] \in BlankNames
                          /\ "event state is invalid" \in Issues(r) <=>
                                result.origin \notin Strings
                          /\ Healthy(Health(r)) <=>
                                /\ result.status = "completed"
                                /\ \E k \in DOMAIN result.events : Changed(result.events[k])
    BY Zenon DEF VerdictsRight
  <2>1. IsWhole(result)
    BY HeldIsWhole
  <2>2. IsNamed(Named(result, name), result, name)
    BY <2>1, NamedParts
  <2>3. /\ Issues(Named(result, name)) \subseteq {"event agent is empty", "event state is invalid"}
        /\ "event agent is empty" \in Issues(Named(result, name)) <=>
              \E t \in Turns : name[t] \in BlankNames
        /\ "event state is invalid" \in Issues(Named(result, name)) <=>
              result.origin \notin Strings
    BY <2>1, <2>2, IssuesFound, Zenon
  <2>4. Healthy(Health(Named(result, name))) <=>
              /\ result.status = "completed"
              /\ \E k \in DOMAIN result.events : Changed(result.events[k])
    BY <2>1, <2>2, HealthyIfCompleted
  <2> QED
    BY <2>3, <2>4, Zenon
<1> QED
  BY <1>1, Invariance, PTL

-----------------------------------------------------------------------------
(* The padded numbers sort as the numbers do.                              *)

(* Powers of ten grow,                                                     *)
LEMMA TensGrow ==
    ASSUME NEW n \in Nat
    PROVE  Power(10, n) \in Nat \ {0} /\ Power(10, n + 1) = 10 * Power(10, n) /\ Power(10, 0) = 1
<1> DEFINE b == 10
<1>1. b \in Nat \ {0}
  OBVIOUS
<1> HIDE DEF b
<1>2. Power(b, n) \in Nat \ {0} /\ Power(b, n + 1) = b * Power(b, n) /\ Power(b, 0) = 1
  BY <1>1, PowerSteps
<1> QED
  BY <1>2 DEF b

(* and faster than their exponents.                                        *)
LEMMA TensExceed ==
    ASSUME NEW n \in Nat
    PROVE  n < Power(10, n)
<1> DEFINE T == {m \in Nat : m < Power(10, m)}
<1>1. 0 \in T
  BY TensGrow
<1>2. ASSUME NEW m \in T
      PROVE  m + 1 \in T
  BY TensGrow
<1>3. T = Nat
  <2>1. T \subseteq Nat
    OBVIOUS
  <2> HIDE DEF T
  <2> QED
    BY <1>1, <1>2, <2>1, NatSetInduction
<1> QED
  BY <1>3

(* A number has its digits, and fewer are not enough.                      *)
LEMMA DigitsCounted ==
    ASSUME NEW n \in Nat
    PROVE  /\ DigitCount(n) \in Nat \ {0}
           /\ n < Power(10, DigitCount(n))
           /\ \A c \in 1 .. DigitCount(n) - 1 : n >= Power(10, c)
<1> DEFINE T == {d \in Nat : d >= 1 /\ n < Power(10, d)}
<1>1. n + 1 \in T
  <2>1. n + 1 < Power(10, n + 1) /\ n + 1 \in Nat
    BY TensExceed
  <2>2. Power(10, n + 1) \in Nat
    BY <2>1, TensGrow
  <2> QED
    BY <2>1, <2>2
<1>2. PICK d \in T : \A m \in T : d <= m
  <2>1. T \subseteq Nat /\ T # {}
    BY <1>1
  <2> HIDE DEF T
  <2> QED
    BY <2>1, LeastNat
<1>3. d \in 1 .. n + 1 /\ n < Power(10, d)
  BY <1>1, <1>2
<1>4. ASSUME NEW c \in 1 .. d - 1
      PROVE  n >= Power(10, c)
  <2>1. c \in Nat /\ c >= 1 /\ ~(d <= c)
    BY <1>3
  <2>2. c \notin T
    BY <1>2, <2>1
  <2>3. Power(10, c) \in Nat
    BY <2>1, TensGrow
  <2> QED
    BY <2>1, <2>2, <2>3
<1>5. \E e \in 1 .. n + 1 : n < Power(10, e) /\ \A c \in 1 .. e - 1 : n >= Power(10, c)
  BY <1>3, <1>4
<1>6. /\ DigitCount(n) \in 1 .. n + 1
      /\ n < Power(10, DigitCount(n))
      /\ \A c \in 1 .. DigitCount(n) - 1 : n >= Power(10, c)
  BY <1>5, Zenon DEF DigitCount
<1>7. DigitCount(n) \in Nat \ {0}
  BY <1>6
<1> QED
  BY <1>6, <1>7

(* A smaller number has no more digits.                                    *)
LEMMA DigitsGrow ==
    ASSUME NEW m \in Nat, NEW n \in Nat, m <= n
    PROVE  DigitCount(m) <= DigitCount(n)
<1> DEFINE d == DigitCount(m)
           c == DigitCount(n)
<1>1. d \in Nat \ {0} /\ \A b \in 1 .. d - 1 : m >= Power(10, b)
  BY DigitsCounted
<1>2. c \in Nat \ {0} /\ n < Power(10, c) /\ Power(10, c) \in Nat
  BY DigitsCounted, TensGrow
<1> HIDE DEF c, d
<1>3. ~(c < d)
  <2> SUFFICES ASSUME c < d PROVE FALSE
    OBVIOUS
  <2>1. c \in 1 .. d - 1
    BY <1>1, <1>2
  <2>2. m >= Power(10, c)
    BY <1>1, <2>1
  <2> QED
    BY <1>2, <2>2
<1> QED
  BY <1>1, <1>2, <1>3 DEF c, d

(* The w digits of n. *)
DigitsOf(n, w) == [k \in 1 .. w |-> (n \div Power(10, w - k)) % 10]

(* Of numbers of one width the smaller sorts first.                        *)
LEMMA DigitsSort ==
    ASSUME NEW w \in Nat, NEW a \in Nat, NEW b \in Nat, a < b, b < Power(10, w)
    PROVE  Before(DigitsOf(a, w), DigitsOf(b, w))
<1> DEFINE top(n, k) == n \div Power(10, w - k)
           T == {k \in Nat : k <= w /\ top(a, k) # top(b, k)}
<1>1. ASSUME NEW k \in 0 .. w
      PROVE  /\ w - k \in Nat /\ Power(10, w - k) \in Nat \ {0}
             /\ top(a, k) \in Nat /\ top(b, k) \in Nat /\ top(a, k) <= top(b, k)
  <2>1. w - k \in Nat
    OBVIOUS
  <2>2. Power(10, w - k) \in Nat \ {0}
    BY <2>1, TensGrow
  <2>3. a <= b
    OBVIOUS
  <2> QED
    BY <2>1, <2>2, <2>3, Divided, DivisionGrows
<1>2. ASSUME NEW k \in 1 .. w, NEW n \in Nat
      PROVE  top(n, k - 1) = top(n, k) \div 10
  <2> DEFINE j == w - k
  <2>1. j \in Nat /\ w - (k - 1) = j + 1
    OBVIOUS
  <2> HIDE DEF j
  <2>2. Power(10, j) \in Nat \ {0} /\ Power(10, j + 1) = 10 * Power(10, j)
    BY <2>1, TensGrow
  <2>3. n \div Power(10, j + 1) = (n \div Power(10, j)) \div 10
    <3> DEFINE p == Power(10, j)
    <3> HIDE DEF p
    <3>1. p \in Nat \ {0}
      BY <2>2 DEF p
    <3>2. n \div (10 * p) = (n \div p) \div 10
      BY <3>1, DividedByTen
    <3> QED
      BY <2>2, <3>2 DEF p
  <2>4. top(n, k - 1) = n \div Power(10, j + 1)
    BY <2>1
  <2> QED
    BY <2>3, <2>4 DEF j
<1>3. top(a, 0) = 0 /\ top(b, 0) = 0
  <2> DEFINE p == Power(10, w)
  <2>1. p \in Nat \ {0} /\ w - 0 = w
    BY TensGrow
  <2>2. a \in 0 .. p - 1 /\ b \in 0 .. p - 1
    BY <2>1
  <2> HIDE DEF p
  <2>3. p * 0 = 0
    BY <2>1
  <2>4. a = p * 0 + a /\ b = p * 0 + b
    BY <2>3
  <2>5. a \div p = 0 /\ b \div p = 0
    BY <2>1, <2>2, <2>4, QuotientUnique
  <2> QED
    BY <2>1, <2>5 DEF p
<1>4. top(a, w) = a /\ top(b, w) = b
  <2>1. w - w = 0 /\ Power(10, 0) = 1
    BY TensGrow
  <2>2. a \div 1 = a /\ b \div 1 = b
    OBVIOUS
  <2> QED
    BY <2>1, <2>2
<1>5. PICK k \in T : \A m \in T : k <= m
  <2>1. w \in T
    BY <1>4
  <2>2. T \subseteq Nat /\ T # {}
    BY <2>1
  <2> HIDE DEF T
  <2> QED
    BY <2>2, LeastNat
<1>6. k \in Nat /\ k <= w /\ top(a, k) # top(b, k)
  BY <1>5
<1>7. ASSUME NEW j \in 0 .. w, j < k
      PROVE  top(a, j) = top(b, j)
  <2>1. j \in Nat /\ ~(k <= j)
    BY <1>6, <1>7
  <2>2. j \notin T
    BY <1>5, <2>1
  <2> QED
    BY <2>1, <2>2
<1>8. k \in 1 .. w
  BY <1>3, <1>6
<1> HIDE DEF T
<1>9. top(a, k) % 10 < top(b, k) % 10
  <2>1. k - 1 \in 0 .. w /\ k - 1 < k /\ k \in 0 .. w
    BY <1>8
  <2>2. top(a, k) \div 10 = top(b, k) \div 10
    BY <1>2, <1>7, <1>8, <2>1
  <2>3. top(a, k) \in Nat /\ top(b, k) \in Nat /\ top(a, k) < top(b, k)
    BY <1>1, <1>6, <2>1
  <2> HIDE DEF top
  <2> QED
    BY <2>2, <2>3
<1>10. \A j \in 1 .. k - 1 : top(a, j) % 10 = top(b, j) % 10
  BY <1>7, <1>8
<1>11. /\ DOMAIN DigitsOf(a, w) = 1 .. w /\ DOMAIN DigitsOf(b, w) = 1 .. w
       /\ \A j \in 1 .. w : DigitsOf(a, w)[j] = top(a, j) % 10 /\ DigitsOf(b, w)[j] = top(b, j) % 10
  BY DEF DigitsOf
<1>12. \A j \in 1 .. k - 1 : j \in 1 .. w
  BY <1>8
<1> HIDE DEF top
<1>13. \A j \in 1 .. k - 1 : DigitsOf(a, w)[j] = DigitsOf(b, w)[j]
  BY <1>10, <1>11, <1>12, Zenon
<1>14. DigitsOf(a, w)[k] < DigitsOf(b, w)[k]
  BY <1>8, <1>9, <1>11
<1> QED
  BY <1>8, <1>11, <1>13, <1>14, Zenon DEF Before

(* The lines of the rendered timeline sort as the entries stand, and its   *)
(* arrows tell the turns that changed the state.                           *)
LEMMA LinesSort ==
    ASSUME NEW line \in Seq(Entry), NEW k \in 1 .. Len(line) - 1,
           line[k].sequence = k - 1, line[k + 1].sequence = k
    PROVE  Before(RenderTimeline(line)[k].prefix, RenderTimeline(line)[k + 1].prefix)
<1> DEFINE l == Len(line)
           n == l - 1
           width == DigitCount(n)
<1>1. l \in Nat /\ k \in Nat /\ k - 1 \in Nat /\ n \in Nat /\ k - 1 <= n /\ k <= n /\ k - 1 < k
      /\ line # << >> /\ k \in DOMAIN line /\ k + 1 \in DOMAIN line
  OBVIOUS
<1>2. /\ RenderTimeline(line)[k].prefix = ZeroPadded(k - 1, width)
      /\ RenderTimeline(line)[k + 1].prefix = ZeroPadded(k, width)
  BY <1>1 DEF RenderTimeline
<1> HIDE DEF n
<1>3. width \in Nat \ {0} /\ n < Power(10, width) /\ Power(10, width) \in Nat
  BY <1>1, DigitsCounted, TensGrow
<1>4. ASSUME NEW m \in Nat, m <= n
      PROVE  ZeroPadded(m, width) = DigitsOf(m, width)
  <2>1. DigitCount(m) \in Nat /\ DigitCount(m) <= width
    BY <1>1, <1>4, DigitsCounted, DigitsGrow
  <2> HIDE DEF width
  <2>2. (IF DigitCount(m) < width THEN width ELSE DigitCount(m)) = width
    BY <1>3, <2>1
  <2> QED
    BY <2>2, Zenon DEF ZeroPadded, DigitsOf
<1>5. k < Power(10, width)
  <2> HIDE DEF width
  <2> QED
    BY <1>1, <1>3
<1> HIDE DEF width
<1>6. Before(DigitsOf(k - 1, width), DigitsOf(k, width))
  <2> DEFINE j == k - 1
  <2>1. j \in Nat /\ j < k /\ k \in Nat /\ width \in Nat
    BY <1>1, <1>3
  <2> HIDE DEF j
  <2>2. Before(DigitsOf(j, width), DigitsOf(k, width))
    BY <1>5, <2>1, DigitsSort
  <2> QED
    BY <2>2 DEF j
<1>7. ZeroPadded(k - 1, width) = DigitsOf(k - 1, width) /\ ZeroPadded(k, width) = DigitsOf(k, width)
  BY <1>1, <1>4
<1> QED
  BY <1>2, <1>6, <1>7

(* The arrow tells a turn that changed the state.                          *)
LEMMA ArrowsTell ==
    ASSUME NEW line \in Seq(Entry), NEW k \in DOMAIN line, EventOk(line[k])
    PROVE  RenderTimeline(line)[k].sign = "->" <=>
               line[k].kind = "agent_acted" /\ line[k].from # line[k].to
<1> DEFINE t == line[k]
<1>1. RenderTimeline(line)[k].sign
        = IF t.kind = "agent_acted" THEN IF t.changed THEN "->" ELSE "=="
          ELSE IF t.to # None THEN ":" ELSE None
  BY DEF RenderTimeline
<1>2. t.kind = "agent_acted" => t.changed = (t.from # t.to)
  BY DEF EventOk
<1>3. None # "->"
  BY DEF None
<1> HIDE DEF t
<1> QED
  BY <1>1, <1>2, <1>3 DEF t

(* The turns of a timeline are the events, in their order.                 *)
LEMMA TurnsInOrder ==
    ASSUME NEW r, IsWhole(r), NEW line, WholeTimeline(line, r)
    PROVE  LET acts == FilterTimeline(line, "agent_acted")
           IN  [k \in DOMAIN acts |->
                   [agent |-> acts[k].agent, iteration |-> acts[k].iteration,
                    input |-> acts[k].from, output |-> acts[k].to]] = r.events
<1> DEFINE evs == r.events
           l == Len(evs)
           at(k) == Opening(evs[k].iteration) + evs[k].agent
           e == [k \in 1 .. l |-> at(k)]
           places == {p \in DOMAIN line : line[p].kind = "agent_acted"}
<1>1. evs \in Seq(Event) /\ Numbered(evs) /\ l \in Nat /\ DOMAIN evs = 1 .. l
      /\ line \in Seq(Entry) /\ DOMAIN line = 1 .. Len(line) /\ Len(line) \in Nat
  BY WholeParts DEF WholeTimeline
<1>2. ASSUME NEW k \in 1 .. l
      PROVE  /\ evs[k] \in Event /\ at(k) \in 1 .. Len(line)
             /\ line[at(k)] = ActAt(at(k), evs[k])
  <2>1. evs[k] \in Event /\ evs[k].agent \in Turns /\ evs[k].iteration \in 1 .. r.iterations
    BY <1>1, EventPlaced
  <2>2. line[at(k)] = ActAt(at(k), evs[k])
    BY DEF WholeTimeline, TurnAt
  <2>3. at(k) \in DOMAIN line
    <3> DEFINE i == evs[k].iteration
               a == evs[k].agent
    <3> HIDE DEF i, a
    <3>0. i \in 1 .. r.iterations /\ a \in Turns
      BY <2>1 DEF i, a
    <3>1. /\ Opening(i) \in DOMAIN line /\ Opening(i) + NumAgents + 1 \in DOMAIN line
      BY <3>0, Brackets
    <3>2. Opening(i) + a \in DOMAIN line
      BY <1>1, <3>0, <3>1 DEF Turns
    <3> QED
      BY <3>2 DEF i, a
  <2> HIDE DEF at
  <2> QED
    BY <1>1, <2>1, <2>2, <2>3
<1>3. ASSUME NEW j \in 1 .. l, NEW k \in 1 .. l, j < k
      PROVE  at(j) < at(k)
  <2>1. at(j) \in 1 .. at(k)
    <3>1. j \in 1 .. k /\ k \in 1 .. Len(evs)
      BY <1>1, <1>3
    <3> QED
      BY <1>1, <3>1, TurnsSoFar
  <2>2. at(j) # at(k)
    <3> SUFFICES ASSUME at(j) = at(k) PROVE FALSE
      OBVIOUS
    <3>1. ActAt(at(j), evs[j]) = ActAt(at(k), evs[k])
      BY <1>2
    <3>2. evs[j].iteration = evs[k].iteration /\ evs[j].agent = evs[k].agent
      BY <3>1 DEF ActAt
    <3>3. j = Place(evs[j].iteration, evs[j].agent) /\ k = Place(evs[k].iteration, evs[k].agent)
      BY <1>1, EventPlaced
    <3>4. j = k
      BY <3>2, <3>3
    <3>5. j \in Int /\ k \in Int
      OBVIOUS
    <3> QED
      BY <1>3, <3>4, <3>5
  <2>3. at(k) \in Int
    BY <1>2
  <2> HIDE DEF at
  <2> QED
    BY <2>1, <2>2, <2>3
<1>4. ASSUME NEW p \in places
      PROVE  \E k \in 1 .. l : p = at(k)
  <2>1. p \in DOMAIN line /\ line[p].kind = "agent_acted"
    OBVIOUS
  <2>2. \E i \in 1 .. r.iterations : ActsAt(line, p, i)
    <3>1. ASSUME NEW i, NEW kind, NEW to, line[p] = MarkerAt(p, i, kind, to)
          PROVE  kind = "agent_acted"
      BY <2>1, <3>1 DEF MarkerAt
    <3>2. ~(line[p] = MarkerAt(p, 1, "run_started", r.origin))
      BY <3>1
    <3>3. ~(line[p] = MarkerAt(p, r.iterations, Terminal(r), r.final))
      BY <3>1 DEF Terminal
    <3>4. \A i : ~StartsAt(line, p, i) /\ ~EndsPlace(line, p, i)
      BY <3>1 DEF StartsAt, EndsPlace
    <3> QED
      BY <2>1, <3>2, <3>3, <3>4, PlaceKinds
  <2>3. PICK i \in 1 .. r.iterations : ActsAt(line, p, i)
    BY <2>2
  <2>4. p \in Opening(i) + 1 .. Opening(i) + NumAgents
    BY <2>3 DEF ActsAt
  <2> DEFINE a == p - Opening(i)
  <2>5. a \in Turns /\ Opening(i) + a = p
    <3>1. i \in Nat \ {0}
      BY WholeParts DEF Iterations
    <3>2. Opening(i) \in Nat
      BY <3>1, Openings
    <3> QED
      BY <2>4, <3>2 DEF Turns
  <2> HIDE DEF a
  <2>6. /\ Place(i, a) \in DOMAIN evs
        /\ evs[Place(i, a)].iteration = i /\ evs[Place(i, a)].agent = a
    BY <2>5, TurnHeld
  <2> QED
    BY <1>1, <2>5, <2>6
<1>5. places = {e[k] : k \in 1 .. l}
  <2>1. ASSUME NEW k \in 1 .. l
        PROVE  at(k) \in places
    <3>0. line[at(k)] = ActAt(at(k), evs[k])
      BY <1>2
    <3>1. line[at(k)].kind = "agent_acted"
      <4> HIDE DEF at, evs
      <4> QED
        BY <3>0 DEF ActAt
    <3> QED
      BY <1>1, <1>2, <3>1
  <2> HIDE DEF at, places
  <2>2. \A k \in 1 .. l : e[k] = at(k)
    OBVIOUS
  <2> HIDE DEF e
  <2> QED
    BY <1>4, <2>1, <2>2
<1>6. FilterTimeline(line, "agent_acted") = [k \in 1 .. l |-> line[e[k]]]
  <2>1. e \in [1 .. l -> 1 .. Len(line)]
    <3>1. \A k \in 1 .. l : at(k) \in 1 .. Len(line)
      BY <1>2
    <3> HIDE DEF at
    <3> QED
      BY <3>1
  <2>2. \A j, k \in 1 .. l : j < k => e[j] < e[k]
    <3>1. \A j, k \in 1 .. l : j < k => at(j) < at(k)
      BY <1>3
    <3> HIDE DEF at
    <3> QED
      BY <3>1
  <2>3. FilterTimeline(line, "agent_acted") = Selected(line, places)
    BY DEF FilterTimeline
  <2> HIDE DEF e, places, l
  <2>4. Selected(line, {e[k] : k \in 1 .. l}) = [k \in 1 .. l |-> line[e[k]]]
    <3>1. Rises(e, l, Len(line))
      BY <2>1, <2>2 DEF Rises
    <3>2. line \in Seq(Entry) /\ l \in Nat
      BY <1>1
    <3>3. Selected(line, Numbers(e, l)) = InOrder(line, e, l)
      BY <3>1, <3>2, SelectedEnumerated
    <3> QED
      BY <3>3 DEF Numbers, InOrder
  <2> QED
    BY <1>5, <2>3, <2>4
<1> DEFINE acts == FilterTimeline(line, "agent_acted")
           told == [k \in DOMAIN acts |->
                       [agent |-> acts[k].agent, iteration |-> acts[k].iteration,
                        input |-> acts[k].from, output |-> acts[k].to]]
<1>7. DOMAIN acts = 1 .. l /\ \A k \in 1 .. l : acts[k] = ActAt(at(k), evs[k])
  <2>1. \A k \in 1 .. l : e[k] = at(k)
    OBVIOUS
  <2> HIDE DEF at, e, acts
  <2>2. acts = [k \in 1 .. l |-> line[e[k]]]
    BY <1>6 DEF acts
  <2> QED
    BY <1>2, <2>1, <2>2
<1> HIDE DEF acts, at
<1>8. ASSUME NEW k \in 1 .. l
      PROVE  told[k] = evs[k]
  <2>1. told[k] = [agent |-> evs[k].agent, iteration |-> evs[k].iteration,
                   input |-> evs[k].input, output |-> evs[k].output]
    <3>1. acts[k] = ActAt(at(k), evs[k]) /\ k \in DOMAIN acts
      BY <1>7
    <3> HIDE DEF evs
    <3>2. /\ acts[k].agent = evs[k].agent /\ acts[k].iteration = evs[k].iteration
          /\ acts[k].from = evs[k].input /\ acts[k].to = evs[k].output
      BY <3>1 DEF ActAt
    <3>3. told[k] = [agent |-> acts[k].agent, iteration |-> acts[k].iteration,
                     input |-> acts[k].from, output |-> acts[k].to]
      BY <3>1
    <3> HIDE DEF told
    <3> QED
      BY <3>2, <3>3
  <2>2. evs[k] \in Event
    BY <1>2
  <2> HIDE DEF told, evs
  <2> QED
    BY <2>1, <2>2 DEF Event
<1>9. DOMAIN told = 1 .. l
  BY <1>7
<1>10. told = evs
  <2>1. told = [k \in DOMAIN told |-> told[k]]
    OBVIOUS
  <2>2. evs = [k \in DOMAIN evs |-> evs[k]]
    <3>1. evs \in Seq(Event)
      BY <1>1
    <3> HIDE DEF evs
    <3> QED
      BY <3>1
  <2> HIDE DEF told, evs, l
  <2> QED
    BY <1>1, <1>8, <1>9, <2>1, <2>2
<1> QED
  BY <1>10 DEF acts

(* What TimelineReplays says of the timeline of r.                         *)
LEMMA LineReplays ==
    ASSUME NEW r, IsWhole(r), NEW line, WholeTimeline(line, r)
    PROVE  /\ \A k \in 1 .. Len(RenderTimeline(line)) - 1 :
                 Before(RenderTimeline(line)[k].prefix, RenderTimeline(line)[k + 1].prefix)
           /\ \A k \in DOMAIN RenderTimeline(line) :
                 RenderTimeline(line)[k].sign = "->" <=>
                     line[k].kind = "agent_acted" /\ line[k].from # line[k].to
<1>1. line \in Seq(Entry) /\ DOMAIN line = 1 .. Len(line) /\ Len(line) \in Nat
  BY DEF WholeTimeline
<1>3. DOMAIN RenderTimeline(line) = 1 .. Len(line) /\ Len(RenderTimeline(line)) = Len(line)
  <2>1. DOMAIN RenderTimeline(line) = 1 .. Len(line)
    BY <1>1 DEF RenderTimeline
  <2> QED
    BY <1>1, <2>1
<1>4. ASSUME NEW k \in 1 .. Len(line) - 1
      PROVE  Before(RenderTimeline(line)[k].prefix, RenderTimeline(line)[k + 1].prefix)
  <2>1. k \in DOMAIN line /\ k + 1 \in DOMAIN line
    BY <1>1
  <2>2. line[k].sequence = k - 1 /\ line[k + 1].sequence = (k + 1) - 1
    BY <2>1, EntryKinds
  <2>3. (k + 1) - 1 = k
    OBVIOUS
  <2> QED
    BY <1>1, <2>2, <2>3, LinesSort
<1>5. ASSUME NEW k \in DOMAIN line
      PROVE  RenderTimeline(line)[k].sign = "->" <=>
                line[k].kind = "agent_acted" /\ line[k].from # line[k].to
  <2>1. EventOk(line[k])
    BY EntryKinds
  <2> QED
    BY <1>1, <2>1, ArrowsTell
<1> QED
  BY <1>1, <1>3, <1>4, <1>5

(* Every result's timeline tells the whole history, and its lines sort as  *)
(* they happened (see TimelineReplays), whatever the number of digits.     *)
THEOREM TimelinesReplay == Spec => []TimelineReplays
<1>1. ASSUME LoopInv, result # NoResult
      PROVE  TimelineReplays
  <2> DEFINE r == result
             line == Timeline(r)
  <2>1. IsWhole(r) /\ WholeTimeline(line, r)
    <3>1. IsWhole(result)
      BY <1>1, HeldIsWhole
    <3> QED
      BY <3>1, TimelineWhole
  <2> HIDE DEF line, r
  <2>2. LET acts == FilterTimeline(line, "agent_acted")
        IN  [k \in DOMAIN acts |->
                [agent |-> acts[k].agent, iteration |-> acts[k].iteration,
                 input |-> acts[k].from, output |-> acts[k].to]] = r.events
    BY <2>1, TurnsInOrder
  <2>3. /\ \A k \in 1 .. Len(RenderTimeline(line)) - 1 :
              Before(RenderTimeline(line)[k].prefix, RenderTimeline(line)[k + 1].prefix)
        /\ \A k \in DOMAIN RenderTimeline(line) :
              RenderTimeline(line)[k].sign = "->" <=>
                  line[k].kind = "agent_acted" /\ line[k].from # line[k].to
    BY <2>1, LineReplays
  <2> QED
    BY <2>2, <2>3, ZenonT(60) DEF TimelineReplays, line, r
<1>2. LoopInv => TimelineReplays
  BY <1>1 DEF TimelineReplays
<1> QED
  BY <1>2, Invariance, PTL

-----------------------------------------------------------------------------
(* The audit log of a result.                                              *)

(* What the reader makes of a line that has fields of a record only, and   *)
(* all that are required.                                                  *)
Field(data, f) == IF f \in DOMAIN data THEN data[f] ELSE Defaults[f]

ReadAs(data) ==
    [seq |-> data["seq"], iteration |-> data["iteration"], kind |-> data["kind"],
     agent |-> Field(data, "agent"), from |-> Field(data, "from"), to |-> Field(data, "to"),
     changed |-> Field(data, "changed"), version |-> data["v"]]

(* _record_from_mapping reads those, and refuses what is no record.        *)
LEMMA MappingReads ==
    ASSUME NEW data
    PROVE  RecordFromMapping(data) =
              IF /\ DOMAIN data \subseteq Required \cup DOMAIN Defaults
                 /\ Required \subseteq DOMAIN data
                 /\ RecordOk(ReadAs(data))
              THEN ReadAs(data) ELSE BadRecord
BY Zenon DEF RecordFromMapping, ReadAs, Field

(* The fields of a record, spelled out.                                    *)
LEMMA FieldsKnown == Required \cup DOMAIN Defaults = {"v", "seq", "iteration", "kind", "agent", "from", "to", "changed"}
BY DEF Required, Defaults

(* The line of an entry. *)
LineOf(t) == ToDict(RecordOf(t))

(* A line has all of them, and what it has is the entry's.                 *)
LEMMA LineFields ==
    ASSUME NEW t
    PROVE  /\ DOMAIN LineOf(t) = Required \cup DOMAIN Defaults
           /\ LineOf(t)["v"] = SchemaVersion /\ LineOf(t)["seq"] = t.sequence
           /\ LineOf(t)["iteration"] = t.iteration /\ LineOf(t)["kind"] = t.kind
           /\ LineOf(t)["agent"] = t.agent /\ LineOf(t)["from"] = t.from
           /\ LineOf(t)["to"] = t.to /\ LineOf(t)["changed"] = t.changed
           /\ LineOf(t) # Torn
<1>1. DOMAIN LineOf(t) = {"v", "seq", "iteration", "kind", "agent", "from", "to", "changed"}
  BY DEF LineOf, ToDict
<1>2. DOMAIN Torn = {"torn"}
  BY DEF Torn
<1>3. LineOf(t) # Torn
  BY <1>1, <1>2
<1>4. RecordOf(t).version = SchemaVersion
  BY DEF RecordOf
<1> QED
  BY <1>1, <1>3, <1>4, FieldsKnown DEF LineOf, ToDict, RecordOf

(* The readable entries of a timeline: only a turn is marked as changed,   *)
(* and every state is a string.                                            *)
Readable(t) ==
    /\ t \in Entry /\ EventOk(t)
    /\ t.changed => t.kind = "agent_acted"
    /\ {t.from, t.to} \subseteq Strings \cup {None}

(* A line reads back as the record it was written from.                    *)
LEMMA LineReads ==
    ASSUME NEW t, Readable(t)
    PROVE  ParseLine(LineOf(t)) = RecordOf(t) /\ RecordOf(t) # BadRecord
<1> DEFINE d == LineOf(t)
<1>1. /\ DOMAIN d = {"v", "seq", "iteration", "kind", "agent", "from", "to", "changed"}
      /\ DOMAIN d = Required \cup DOMAIN Defaults /\ Required \subseteq DOMAIN d
      /\ d["v"] = SchemaVersion /\ d["seq"] = t.sequence
      /\ d["iteration"] = t.iteration /\ d["kind"] = t.kind
      /\ d["agent"] = t.agent /\ d["from"] = t.from
      /\ d["to"] = t.to /\ d["changed"] = t.changed
      /\ d # Torn
  BY LineFields, FieldsKnown DEF Required
<1> HIDE DEF d
<1>2. /\ Field(d, "agent") = t.agent /\ Field(d, "from") = t.from
      /\ Field(d, "to") = t.to /\ Field(d, "changed") = t.changed
  BY <1>1 DEF Field
<1>3. ReadAs(d) = RecordOf(t)
  BY <1>1, <1>2 DEF ReadAs, RecordOf
<1>4. RecordOk(RecordOf(t))
  BY DEF RecordOk, RecordOf, Readable, EventOk
<1>5. RecordFromMapping(d) = RecordOf(t)
  BY <1>1, <1>3, <1>4, MappingReads
<1>6. RecordOf(t).kind = t.kind /\ t.kind \in TimelineKinds
  BY DEF RecordOf, Readable, EventOk
<1>7. BadRecord.kind = "bad record" /\ "bad record" \notin TimelineKinds
  BY DEF BadRecord, TimelineKinds
<1> QED
  BY <1>1, <1>5, <1>6, <1>7 DEF ParseLine, d

(* No record is what a line that does not parse is read as.                *)
LEMMA OkIsRecord ==
    ASSUME NEW data, RecordOk(ReadAs(data))
    PROVE  ReadAs(data) # BadRecord
<1>1. ReadAs(data).kind \in TimelineKinds
  BY DEF RecordOk
<1>2. BadRecord.kind = "bad record" /\ "bad record" \notin TimelineKinds
  BY DEF BadRecord, TimelineKinds
<1> QED
  BY <1>1, <1>2

(* A line with half a record, or with a field too many, is an error.       *)
LEMMA DamageNoticed ==
    /\ ParseLine(Torn) = BadRecord
    /\ \A t : ParseLine(Extra(LineOf(t))) = BadRecord
    /\ \A t : Extra(LineOf(t))["from"] = t.from /\ Extra(LineOf(t))["to"] = t.to
<1>1. ParseLine(Torn) = BadRecord
  BY DEF ParseLine
<1>2. ASSUME NEW t
      PROVE  /\ ParseLine(Extra(LineOf(t))) = BadRecord
             /\ Extra(LineOf(t))["from"] = t.from /\ Extra(LineOf(t))["to"] = t.to
  <2> DEFINE d == LineOf(t)
             x == Extra(d)
  <2>1. /\ DOMAIN d = {"v", "seq", "iteration", "kind", "agent", "from", "to", "changed"}
        /\ d["from"] = t.from /\ d["to"] = t.to
    BY LineFields, FieldsKnown
  <2> HIDE DEF d
  <2>2. DOMAIN x = DOMAIN d \cup {"extra"} /\ x["from"] = t.from /\ x["to"] = t.to
    BY <2>1 DEF Extra
  <2> HIDE DEF x
  <2>3. "extra" \in DOMAIN x /\ "extra" \notin Required \cup DOMAIN Defaults
    BY <2>2, FieldsKnown
  <2>4. RecordFromMapping(x) = BadRecord
    BY <2>3, MappingReads
  <2>5. ParseLine(x) = BadRecord
    BY <2>4 DEF ParseLine
  <2> QED
    BY <2>2, <2>5 DEF x, d
<1> QED
  BY <1>1, <1>2

(* A lost field is noticed if it is required, or is not the default.       *)
LEMMA LossNoticed ==
    ASSUME NEW t, Readable(t)
    PROVE  /\ \A f \in Required : ParseLine(Missing(LineOf(t), f)) = BadRecord
           /\ ParseLine(Missing(LineOf(t), "changed")) = BadRecord <=> t.changed
           /\ ParseLine(Missing(LineOf(t), "agent")) = BadRecord <=> t.kind = "agent_acted"
<1> DEFINE d == LineOf(t)
<1>1. /\ DOMAIN d = {"v", "seq", "iteration", "kind", "agent", "from", "to", "changed"}
      /\ DOMAIN d = Required \cup DOMAIN Defaults /\ Required \subseteq DOMAIN d
      /\ d["v"] = SchemaVersion /\ d["seq"] = t.sequence
      /\ d["iteration"] = t.iteration /\ d["kind"] = t.kind
      /\ d["agent"] = t.agent /\ d["from"] = t.from
      /\ d["to"] = t.to /\ d["changed"] = t.changed
  BY LineFields, FieldsKnown DEF Required
<1> HIDE DEF d
<1>2. ASSUME NEW f \in DOMAIN d
      PROVE  /\ DOMAIN Missing(d, f) = DOMAIN d \ {f}
             /\ \A g \in DOMAIN d \ {f} : Missing(d, f)[g] = d[g]
             /\ Missing(d, f) # Torn
  <2> DEFINE m == Missing(d, f)
  <2>1. DOMAIN m = DOMAIN d \ {f} /\ \A g \in DOMAIN d \ {f} : m[g] = d[g]
    BY DEF Missing
  <2>2. DOMAIN Torn = {"torn"}
    BY DEF Torn
  <2>3. "torn" \notin DOMAIN m
    BY <1>1, <2>1
  <2> HIDE DEF m
  <2>4. m # Torn
    BY <2>2, <2>3
  <2> QED
    BY <2>1, <2>4 DEF m
<1>3. ASSUME NEW f \in Required
      PROVE  ParseLine(Missing(d, f)) = BadRecord
  <2>1. f \in DOMAIN d /\ f \notin DOMAIN Missing(d, f)
    BY <1>1, <1>2
  <2>2. RecordFromMapping(Missing(d, f)) = BadRecord
    BY <2>1, MappingReads
  <2> QED
    BY <2>2 DEF ParseLine
<1>4. ASSUME NEW f \in DOMAIN d \ Required
      PROVE  ParseLine(Missing(d, f)) = BadRecord <=> ~RecordOk(ReadAs(Missing(d, f)))
  <2> DEFINE m == Missing(d, f)
  <2>1. m # Torn /\ DOMAIN m \subseteq Required \cup DOMAIN Defaults /\ Required \subseteq DOMAIN m
    BY <1>1, <1>2, <1>4
  <2> HIDE DEF m
  <2>2. ParseLine(m) = RecordFromMapping(m)
    BY <2>1 DEF ParseLine
  <2> QED
    BY <2>1, <2>2, MappingReads, OkIsRecord DEF m
<1>5. /\ t.sequence >= 0 /\ t.iteration >= 0 /\ t.kind \in TimelineKinds
      /\ t.kind = "agent_acted" => t.agent # NoAgent /\ t.changed = (t.from # t.to)
      /\ t.kind # "agent_acted" => t.agent = NoAgent /\ ~t.changed
      /\ t.changed \in BOOLEAN /\ {t.from, t.to} \subseteq Strings \cup {None}
  BY DEF Readable, EventOk, Entry
<1>6. ParseLine(Missing(d, "changed")) = BadRecord <=> t.changed
  <2> DEFINE m == Missing(d, "changed")
             record == ReadAs(m)
  <2>1. "changed" \in DOMAIN d \ Required
    BY <1>1 DEF Required
  <2>2. /\ DOMAIN m = DOMAIN d \ {"changed"} /\ \A g \in DOMAIN d \ {"changed"} : m[g] = d[g]
    BY <1>2, <2>1
  <2>3. "changed" \notin DOMAIN m /\ {"v", "seq", "iteration", "kind", "agent", "from", "to"} \subseteq DOMAIN m
    BY <1>1, <2>2
  <2> HIDE DEF m
  <2>4. /\ record.seq = t.sequence /\ record.iteration = t.iteration /\ record.kind = t.kind
        /\ record.agent = t.agent /\ record.from = t.from /\ record.to = t.to
        /\ record.changed = FALSE /\ record.version = SchemaVersion
    BY <1>1, <2>2, <2>3 DEF ReadAs, Field, Defaults
  <2> HIDE DEF record
  <2>5. RecordOk(record) <=> ~t.changed
    BY <1>5, <2>4 DEF RecordOk
  <2> QED
    BY <1>4, <2>1, <2>5 DEF m, record
<1>7. ParseLine(Missing(d, "agent")) = BadRecord <=> t.kind = "agent_acted"
  <2> DEFINE m == Missing(d, "agent")
             record == ReadAs(m)
  <2>1. "agent" \in DOMAIN d \ Required
    BY <1>1 DEF Required
  <2>2. /\ DOMAIN m = DOMAIN d \ {"agent"} /\ \A g \in DOMAIN d \ {"agent"} : m[g] = d[g]
    BY <1>2, <2>1
  <2>3. "agent" \notin DOMAIN m /\ {"v", "seq", "iteration", "kind", "changed", "from", "to"} \subseteq DOMAIN m
    BY <1>1, <2>2
  <2> HIDE DEF m
  <2>4. /\ record.seq = t.sequence /\ record.iteration = t.iteration /\ record.kind = t.kind
        /\ record.agent = NoAgent /\ record.from = t.from /\ record.to = t.to
        /\ record.changed = t.changed /\ record.version = SchemaVersion
    BY <1>1, <2>2, <2>3 DEF ReadAs, Field, Defaults
  <2> HIDE DEF record
  <2>5. RecordOk(record) <=> t.kind # "agent_acted"
    BY <1>5, <2>4 DEF RecordOk
  <2> QED
    BY <1>4, <2>1, <2>5 DEF m, record
<1> QED
  BY <1>3, <1>6, <1>7 DEF d

(* A line that holds no line boundary.                                     *)
Plain(line) == line # Torn => line["from"] \notin Breaking /\ line["to"] \notin Breaking

(* Of lines without boundaries the reader sees each as it was written.     *)
LEMMA LinesSeen ==
    ASSUME NEW X, NEW text \in Seq(X), \A k \in DOMAIN text : Plain(text[k])
    PROVE  ContentLines(text) = text
<1>1. ASSUME NEW k \in DOMAIN text
      PROVE  Pieces(text[k]) = <<text[k]>>
  <2> DEFINE line == text[k]
             S == {f \in {"from", "to"} : line # Torn /\ line[f] \in Breaking}
  <2>1. S = {}
    BY DEF Plain
  <2>2. Cardinality(S) = 0
    BY <2>1, FS_EmptySet
  <2> QED
    BY <2>2 DEF Pieces
<1>2. [k \in DOMAIN text |-> Pieces(text[k])] = [k \in DOMAIN text |-> <<text[k]>>]
  BY <1>1
<1> QED
  BY <1>2, JoinedSingles DEF ContentLines

(* The lines that are not what the reader expects at their places.         *)
Offending(lines) == {n \in DOMAIN lines : ~InPlace(lines[n], n)}

(* What validate_jsonl reports: an interval of lines, or two of them.      *)
LEMMA ErrorsAre ==
    ASSUME NEW X, NEW text \in Seq(X), \A k \in DOMAIN text : Plain(text[k])
    PROVE  /\ \A a \in 1 .. Len(text) + 1 : \A b \in a - 1 .. Len(text) :
                 Offending(text) = a .. b =>
                    ValidateLog(text) = [i \in 1 .. b - a + 1 |-> a + i - 1]
           /\ \A j, k \in 1 .. Len(text) :
                 j < k /\ Offending(text) = {j, k} => ValidateLog(text) = <<j, k>>
<1> DEFINE s == [n \in DOMAIN text |-> n]
<1>1. ContentLines(text) = text
  BY LinesSeen
<1>2. ValidateLog(text) = Selected(s, Offending(text))
  BY <1>1, Zenon DEF ValidateLog, Offending
<1>3. Len(text) \in Nat /\ s = [n \in 1 .. Len(text) |-> n]
  OBVIOUS
<1> DEFINE l == Len(text)
           P == Offending(text)
<1> HIDE DEF s, l, P
<1>4. KeepsPlaces(s, l, P)
  <2>1. l \in Nat /\ s = [n \in 1 .. l |-> n]
    BY <1>3 DEF l
  <2> QED
    BY <2>1, PlacesKept, Zenon
<1> QED
  BY <1>2, <1>4, Zenon DEF KeepsPlaces, l, P

(* The same, for no line, for one, and for the first of several.           *)
First(errors) == IF errors = << >> THEN 0 ELSE errors[1]

(* No error, one, and the first of those that go on to the end.            *)
LEMMA ErrorsShort ==
    ASSUME NEW X, NEW text \in Seq(X), \A k \in DOMAIN text : Plain(text[k])
    PROVE  /\ Offending(text) = {} => ValidateLog(text) = << >>
           /\ \A k \in 1 .. Len(text) : Offending(text) = {k} => ValidateLog(text) = <<k>>
           /\ \A k \in 1 .. Len(text) : Offending(text) = k .. Len(text) => First(ValidateLog(text)) = k
<1>0. \A a \in 1 .. Len(text) + 1 : \A b \in a - 1 .. Len(text) :
         Offending(text) = a .. b => ValidateLog(text) = [i \in 1 .. b - a + 1 |-> a + i - 1]
  BY ErrorsAre, Zenon
<1>1. Len(text) \in Nat
  OBVIOUS
<1>2. ASSUME Offending(text) = {}
      PROVE  ValidateLog(text) = << >>
  <2>1. Offending(text) = 1 .. 0 /\ 1 \in 1 .. Len(text) + 1 /\ 0 \in 1 - 1 .. Len(text)
    BY <1>1, <1>2
  <2>2. ValidateLog(text) = [i \in 1 .. 0 - 1 + 1 |-> 1 + i - 1]
    BY <1>0, <2>1
  <2> QED
    BY <2>2
<1>3. ASSUME NEW k \in 1 .. Len(text), Offending(text) = {k}
      PROVE  ValidateLog(text) = <<k>>
  <2>1. Offending(text) = k .. k /\ k \in 1 .. Len(text) + 1 /\ k \in k - 1 .. Len(text)
    BY <1>1, <1>3
  <2>2. ValidateLog(text) = [i \in 1 .. k - k + 1 |-> k + i - 1]
    BY <1>0, <2>1
  <2>3. [i \in 1 .. k - k + 1 |-> k + i - 1] = <<k>>
    BY <1>1
  <2> QED
    BY <2>2, <2>3
<1>4. ASSUME NEW k \in 1 .. Len(text), Offending(text) = k .. Len(text)
      PROVE  First(ValidateLog(text)) = k
  <2> DEFINE b == Len(text)
             e == [i \in 1 .. b - k + 1 |-> k + i - 1]
  <2>1. k \in 1 .. b + 1 /\ b \in k - 1 .. b
    BY <1>1
  <2>2. ValidateLog(text) = e
    BY <1>4, <1>0, <2>1
  <2>3. 1 \in DOMAIN e /\ e[1] = k
    BY <1>1
  <2>4. e # << >>
    <3> HIDE DEF e
    <3> QED
      BY <2>3
  <2> QED
    BY <2>2, <2>3, <2>4 DEF First
<1> QED
  BY <1>2, <1>3, <1>4

(* What a reader may see of a log: its lines, whole or damaged.            *)
Seen == {LineOf(t) : t \in Entry} \cup {Extra(LineOf(t)) : t \in Entry} \cup {Torn}

(* text is the log of the timeline line.                                   *)
LogOf(text, line) ==
    /\ line \in Seq(Entry)
    /\ text = [k \in DOMAIN line |-> LineOf(line[k])]
    /\ \A k \in DOMAIN line : /\ Readable(line[k]) /\ line[k].sequence = k - 1
                              /\ line[k].from \notin Breaking /\ line[k].to \notin Breaking

(* Each of its lines is in its place, and in no other.                     *)
LEMMA LogLines ==
    ASSUME NEW line, NEW text, LogOf(text, line)
    PROVE  /\ text \in Seq(Seen) /\ Len(text) = Len(line)
           /\ \A k \in 1 .. Len(text) :
                 /\ text[k] = LineOf(line[k])
                 /\ Plain(text[k]) /\ ParseLine(text[k]) = RecordOf(line[k])
                 /\ \A n \in Int : InPlace(text[k], n) <=> n = k
                 /\ Extra(text[k]) \in Seen /\ Plain(Extra(text[k]))
                 /\ ParseLine(Extra(text[k])) = BadRecord
<1>1. /\ line \in Seq(Entry) /\ DOMAIN line = 1 .. Len(line) /\ Len(line) \in Nat
      /\ \A k \in 1 .. Len(line) :
            /\ line[k] \in Entry /\ Readable(line[k]) /\ line[k].sequence = k - 1
            /\ line[k].from \notin Breaking /\ line[k].to \notin Breaking
  BY DEF LogOf
<1>2. text = [k \in 1 .. Len(line) |-> LineOf(line[k])]
  BY <1>1 DEF LogOf
<1>3. text \in Seq(Seen) /\ Len(text) = Len(line)
  <2>1. text \in [1 .. Len(line) -> Seen]
    BY <1>1, <1>2 DEF Seen
  <2> QED
    BY <1>1, <2>1
<1>4. ASSUME NEW k \in 1 .. Len(line)
      PROVE  /\ text[k] = LineOf(line[k])
             /\ Plain(text[k]) /\ ParseLine(text[k]) = RecordOf(line[k])
             /\ \A n \in Int : InPlace(text[k], n) <=> n = k
             /\ Extra(text[k]) \in Seen /\ Plain(Extra(text[k]))
             /\ ParseLine(Extra(text[k])) = BadRecord
  <2> DEFINE t == line[k]
             d == LineOf(t)
  <2>1. /\ t \in Entry /\ Readable(t) /\ t.sequence = k - 1
        /\ t.from \notin Breaking /\ t.to \notin Breaking
    BY <1>1
  <2>2. text[k] = d
    BY <1>2
  <2> HIDE DEF t
  <2>3. Plain(d)
    BY <2>1, LineFields DEF Plain
  <2>4. ParseLine(d) = RecordOf(t) /\ RecordOf(t) # BadRecord
    BY <2>1, LineReads
  <2>5. RecordOf(t).seq = k - 1
    BY <2>1 DEF RecordOf
  <2>6. \A n \in Int : InPlace(d, n) <=> n = k
    <3> HIDE DEF d
    <3>1. k \in Int
      OBVIOUS
    <3> QED
      BY <2>4, <2>5, <3>1 DEF InPlace
  <2>7. Extra(d) \in Seen
    BY <2>1 DEF Seen
  <2>8. Plain(Extra(d)) /\ ParseLine(Extra(d)) = BadRecord
    BY <2>1, DamageNoticed DEF Plain
  <2> HIDE DEF d
  <2> QED
    BY <2>2, <2>3, <2>4, <2>6, <2>7, <2>8 DEF t, d
<1> QED
  BY <1>3, <1>4

(* A log that was not damaged reads back, and validates.                   *)
LEMMA LogReads ==
    ASSUME NEW line, NEW text, LogOf(text, line)
    PROVE  /\ ParseLog(text) = [records |-> [k \in DOMAIN line |-> RecordOf(line[k])]]
           /\ ValidateLog(text) = << >>
<1>1. /\ text \in Seq(Seen) /\ DOMAIN text = 1 .. Len(text) /\ DOMAIN line = DOMAIN text
      /\ \A k \in DOMAIN text :
            /\ Plain(text[k]) /\ ParseLine(text[k]) = RecordOf(line[k])
            /\ InPlace(text[k], k)
  <2>1. text \in Seq(Seen) /\ DOMAIN text = 1 .. Len(text) /\ line \in Seq(Entry) /\ Len(text) = Len(line)
    BY LogLines DEF LogOf
  <2>2. \A k \in 1 .. Len(text) : k \in Int
    OBVIOUS
  <2> QED
    BY <2>1, <2>2, LogLines
<1>2. ContentLines(text) = text
  BY <1>1, LinesSeen
<1>3. Offending(text) = {}
  BY <1>1 DEF Offending
<1>4. ValidateLog(text) = << >>
  BY <1>1, <1>3, ErrorsShort
<1> DEFINE read == [n \in DOMAIN text |-> ParseLine(text[n])]
           bad == {n \in DOMAIN read : read[n] = BadRecord}
<1>5. read = [k \in DOMAIN line |-> RecordOf(line[k])]
  BY <1>1
<1>6. bad = {}
  BY <1>1 DEF InPlace
<1>7. ParseLog(text) = [records |-> read]
  <2>1. ParseLog(text) = IF bad = {} THEN [records |-> read]
                         ELSE [error |-> CHOOSE n \in bad : \A m \in bad : n <= m]
    BY <1>2, Zenon DEF ParseLog
  <2> HIDE DEF bad, read
  <2> QED
    BY <1>6, <2>1
<1> QED
  BY <1>4, <1>5, <1>7

(* A line that was torn, or got a field too many, is the one error.        *)
LEMMA LineDamaged ==
    ASSUME NEW line, NEW text, LogOf(text, line), NEW k \in 1 .. Len(text),
           NEW x \in Seen, Plain(x), ParseLine(x) = BadRecord
    PROVE  /\ ValidateLog([text EXCEPT ![k] = x]) = <<k>>
           /\ ParseLog([text EXCEPT ![k] = x]) = [error |-> k]
<1> DEFINE new == [text EXCEPT ![k] = x]
<1>1. /\ text \in Seq(Seen) /\ DOMAIN text = 1 .. Len(text)
      /\ \A n \in 1 .. Len(text) : /\ Plain(text[n]) /\ InPlace(text[n], n)
                                   /\ ParseLine(text[n]) # BadRecord
  <2>1. text \in Seq(Seen) /\ DOMAIN text = 1 .. Len(text)
    BY LogLines
  <2>2. \A n \in 1 .. Len(text) : n \in Int /\ Plain(text[n]) /\ InPlace(text[n], n)
    BY LogLines
  <2> QED
    BY <2>1, <2>2 DEF InPlace
<1>2. /\ new \in Seq(Seen) /\ Len(new) = Len(text) /\ DOMAIN new = 1 .. Len(text)
      /\ new[k] = x /\ \A n \in 1 .. Len(text) : n # k => new[n] = text[n]
  BY <1>1
<1> HIDE DEF new
<1>3. \A n \in DOMAIN new : Plain(new[n])
  BY <1>1, <1>2
<1>4. \A n \in DOMAIN new : ParseLine(new[n]) = BadRecord <=> n = k
  BY <1>1, <1>2
<1>5. Offending(new) = {k}
  <2>1. ~InPlace(x, k)
    BY DEF InPlace
  <2> QED
    BY <1>1, <1>2, <2>1 DEF Offending
<1>6. ValidateLog(new) = <<k>>
  BY <1>2, <1>3, <1>5, ErrorsShort
<1>7. ContentLines(new) = new
  BY <1>2, <1>3, LinesSeen
<1> DEFINE read == [n \in DOMAIN new |-> ParseLine(new[n])]
           bad == {n \in DOMAIN read : read[n] = BadRecord}
<1>8. bad = {k}
  BY <1>2, <1>4
<1>9. ParseLog(new) = [error |-> k]
  <2>1. ParseLog(new) = IF bad = {} THEN [records |-> read]
                        ELSE [error |-> CHOOSE n \in bad : \A m \in bad : n <= m]
    BY <1>7, Zenon DEF ParseLog
  <2> HIDE DEF bad, read
  <2>2. k \in {k} /\ \A m \in {k} : k <= m
    OBVIOUS
  <2>3. (CHOOSE n \in {k} : \A m \in {k} : n <= m) = k
    BY <2>2
  <2> QED
    BY <1>8, <2>1, <2>3
<1> QED
  BY <1>6, <1>9 DEF new

(* After a lost line every line is out of place; of the last one, none is  *)
(* left that could tell.                                                   *)
LEMMA LineLost ==
    ASSUME NEW line, NEW text, LogOf(text, line), NEW k \in 1 .. Len(text)
    PROVE  First(ValidateLog(Without(text, k))) = IF k = Len(text) THEN 0 ELSE k
<1> DEFINE new == Without(text, k)
           n == Len(text)
<1>1. /\ text \in Seq(Seen) /\ n \in Nat
      /\ \A m \in 1 .. n : Plain(text[m]) /\ \A i \in Int : InPlace(text[m], i) <=> i = m
  BY LogLines
<1>2. /\ new \in Seq(Seen) /\ Len(new) = n - 1
      /\ \A i \in 1 .. n - 1 : new[i] = text[IF i < k THEN i ELSE i + 1]
  <2>1. new = SubSeq(text, 1, k - 1) \o SubSeq(text, k + 1, Len(text))
    BY DEF Without
  <2> HIDE DEF new
  <2>2. /\ new \in Seq(Seen) /\ Len(new) = Len(text) - 1
        /\ \A i \in 1 .. Len(text) - 1 : new[i] = text[IF i < k THEN i ELSE i + 1]
    <3>1. text \in Seq(Seen) /\ k \in 1 .. Len(text)
      BY <1>1
    <3>2. \A t : t = SubSeq(text, 1, k - 1) \o SubSeq(text, k + 1, Len(text)) =>
             /\ t \in Seq(Seen) /\ Len(t) = Len(text) - 1
             /\ \A i \in 1 .. Len(text) - 1 : t[i] = text[IF i < k THEN i ELSE i + 1]
      BY <3>1, RemovedElements, Zenon
    <3> QED
      BY <2>1, <3>2, Zenon
  <2> QED
    BY <2>2
<1> HIDE DEF new, n
<1>3. DOMAIN new = 1 .. n - 1
  BY <1>2
<1>4. ASSUME NEW i \in 1 .. n - 1
      PROVE  Plain(new[i]) /\ (InPlace(new[i], i) <=> i < k)
  <2>1. k \in 1 .. n /\ i \in Int
    BY DEF n
  <2>2. CASE i < k
    <3>1. i \in 1 .. n /\ new[i] = text[i]
      BY <1>1, <1>2, <2>2
    <3> QED
      BY <1>1, <2>2, <3>1
  <2>3. CASE ~(i < k)
    <3>1. i + 1 \in 1 .. n /\ new[i] = text[i + 1] /\ i # i + 1
      BY <1>1, <1>2, <2>3
    <3> QED
      BY <1>1, <2>1, <2>3, <3>1
  <2> QED
    BY <2>2, <2>3
<1>5. k \in 1 .. n
  BY DEF n
<1>6. Offending(new) = k .. n - 1
  BY <1>1, <1>3, <1>4, <1>5 DEF Offending
<1>7. CASE k = n
  <2>1. Offending(new) = {}
    BY <1>1, <1>6, <1>7
  <2>2. ValidateLog(new) = << >>
    BY <1>2, <1>3, <1>4, <2>1, ErrorsShort
  <2> QED
    BY <1>7, <2>2 DEF First, new, n
<1>8. CASE k # n
  <2>1. k \in 1 .. Len(new) /\ Offending(new) = k .. Len(new)
    BY <1>1, <1>2, <1>5, <1>6, <1>8
  <2>2. First(ValidateLog(new)) = k
    BY <1>2, <1>3, <1>4, <2>1, ErrorsShort
  <2> QED
    BY <1>8, <2>2 DEF new, n
<1> QED
  BY <1>7, <1>8

(* From a repeated line on every line is out of place.                     *)
LEMMA LineRepeated ==
    ASSUME NEW line, NEW text, LogOf(text, line), NEW k \in 1 .. Len(text)
    PROVE  First(ValidateLog(Twice(text, k))) = k + 1
<1> DEFINE n == Len(text)
           a == SubSeq(text, 1, k)
           b == SubSeq(text, k, n)
           new == a \o b
<1>1. /\ text \in Seq(Seen) /\ n \in Nat
      /\ \A m \in 1 .. n : Plain(text[m]) /\ \A i \in Int : InPlace(text[m], i) <=> i = m
  BY LogLines
<1>2. a \in Seq(Seen) /\ Len(a) = k /\ \A i \in 1 .. k : a[i] = text[i]
  <2>1. k \in 0 .. Len(text)
    BY <1>1
  <2> QED
    BY <1>1, <2>1, FirstElements
<1>3. b \in Seq(Seen) /\ Len(b) = n - k + 1 /\ \A i \in 1 .. n - k + 1 : b[i] = text[k + i - 1]
  <2> DEFINE m == k - 1
  <2>1. m \in 0 .. Len(text) /\ m + 1 = k /\ Len(text) - m = n - k + 1
        /\ \A i \in Int : m + i = k + i - 1
    BY <1>1
  <2>2. b = From(text, m)
    BY <2>1 DEF From
  <2> HIDE DEF b, n, m
  <2>3. /\ From(text, m) \in Seq(Seen) /\ Len(From(text, m)) = Len(text) - m
        /\ \A i \in 1 .. Len(text) - m : From(text, m)[i] = text[m + i]
    BY <1>1, <2>1, FromElements
  <2>4. ASSUME NEW i \in 1 .. n - k + 1
        PROVE  b[i] = text[k + i - 1]
    <3>1. i \in 1 .. Len(text) - m /\ m + i = k + i - 1
      BY <1>1, <2>1
    <3> QED
      BY <2>2, <2>3, <3>1
  <2> QED
    BY <2>1, <2>2, <2>3, <2>4
<1>4. k \in 1 .. n /\ Twice(text, k) = new
  BY DEF Twice
<1> HIDE DEF a, b, n
<1>5. /\ new \in Seq(Seen) /\ Len(new) = n + 1
      /\ \A i \in 1 .. n + 1 : new[i] = IF i <= k THEN a[i] ELSE b[i - k]
  <2>1. Len(a) \in Nat /\ Len(b) \in Nat /\ Len(a) + Len(b) = n + 1
    BY <1>1, <1>2, <1>3, <1>4
  <2>2. /\ a \o b \in Seq(Seen) /\ Len(a \o b) = Len(a) + Len(b)
        /\ \A i \in 1 .. Len(a) + Len(b) :
              (a \o b)[i] = IF i <= Len(a) THEN a[i] ELSE b[i - Len(a)]
    BY <1>2, <1>3, ConcatProperties, Zenon
  <2> QED
    BY <1>2, <2>1, <2>2
<1>6. \A i \in 1 .. n + 1 : new[i] = IF i <= k THEN text[i] ELSE text[i - 1]
  <2> TAKE i \in 1 .. n + 1
  <2>1. CASE i <= k
    <3>1. i \in 1 .. k
      BY <1>1, <1>4, <2>1
    <3> QED
      BY <1>2, <1>5, <2>1, <3>1
  <2>2. CASE ~(i <= k)
    <3>1. i - k \in 1 .. n - k + 1 /\ k + (i - k) - 1 = i - 1
      BY <1>1, <1>4, <2>2
    <3> QED
      BY <1>3, <1>5, <2>2, <3>1
  <2> QED
    BY <2>1, <2>2
<1> HIDE DEF new
<1>7. DOMAIN new = 1 .. n + 1
  BY <1>5
<1>8. ASSUME NEW i \in 1 .. n + 1
      PROVE  Plain(new[i]) /\ (InPlace(new[i], i) <=> i <= k)
  <2>1. i \in Int
    OBVIOUS
  <2>2. CASE i <= k
    <3>1. i \in 1 .. n /\ new[i] = text[i]
      BY <1>1, <1>4, <1>6, <2>2
    <3> QED
      BY <1>1, <2>2, <3>1
  <2>3. CASE ~(i <= k)
    <3>1. i - 1 \in 1 .. n /\ new[i] = text[i - 1] /\ i # i - 1
      BY <1>1, <1>4, <1>6, <2>3
    <3> QED
      BY <1>1, <2>1, <2>3, <3>1
  <2> QED
    BY <2>2, <2>3
<1>9. Offending(new) = k + 1 .. n + 1
  BY <1>1, <1>4, <1>7, <1>8 DEF Offending
<1>10. k + 1 \in 1 .. Len(new) /\ Offending(new) = k + 1 .. Len(new)
  BY <1>1, <1>4, <1>5, <1>9
<1>11. First(ValidateLog(new)) = k + 1
  <2> DEFINE m == k + 1
  <2>1. m \in 1 .. Len(new) /\ Offending(new) = m .. Len(new)
    BY <1>10
  <2> HIDE DEF m
  <2>2. First(ValidateLog(new)) = m
    BY <1>5, <1>7, <1>8, <2>1, ErrorsShort
  <2> QED
    BY <2>2 DEF m
<1> QED
  BY <1>4, <1>11

(* Two lines that changed places are both out of place, and no other is.   *)
LEMMA LinesSwapped ==
    ASSUME NEW line, NEW text, LogOf(text, line),
           NEW j \in 1 .. Len(text), NEW k \in j + 1 .. Len(text)
    PROVE  ValidateLog(Swapped(text, j, k)) = <<j, k>>
<1> DEFINE n == Len(text)
           new == Swapped(text, j, k)
<1>1. /\ text \in Seq(Seen) /\ n \in Nat /\ DOMAIN text = 1 .. n
      /\ \A m \in 1 .. n : Plain(text[m]) /\ \A i \in Int : InPlace(text[m], i) <=> i = m
  BY LogLines
<1>2. j \in 1 .. n /\ k \in 1 .. n /\ j < k
  OBVIOUS
<1>3. /\ new \in Seq(Seen) /\ Len(new) = n /\ DOMAIN new = 1 .. n
      /\ new[j] = text[k] /\ new[k] = text[j]
      /\ \A i \in 1 .. n : i # j /\ i # k => new[i] = text[i]
  <2>1. text[j] \in Seen /\ text[k] \in Seen
    BY <1>1, <1>2
  <2> DEFINE half == [text EXCEPT ![j] = text[k]]
  <2>2. /\ half \in Seq(Seen) /\ Len(half) = n /\ DOMAIN half = 1 .. n
        /\ half[j] = text[k] /\ \A i \in 1 .. n : i # j => half[i] = text[i]
    BY <1>1, <1>2, <2>1
  <2>3. new = [half EXCEPT ![k] = text[j]]
    BY DEF Swapped
  <2> HIDE DEF half, new, n
  <2> QED
    BY <1>1, <1>2, <2>1, <2>2, <2>3
<1> HIDE DEF new, n
<1>4. ASSUME NEW i \in 1 .. n
      PROVE  Plain(new[i]) /\ (InPlace(new[i], i) <=> i # j /\ i # k)
  <2>1. i \in Int /\ j \in Int /\ k \in Int
    BY <1>2
  <2>2. CASE i # j /\ i # k
    BY <1>1, <1>3, <2>1, <2>2
  <2>3. CASE i = j
    BY <1>1, <1>2, <1>3, <2>1, <2>3
  <2>4. CASE i = k
    BY <1>1, <1>2, <1>3, <2>1, <2>4
  <2> QED
    BY <2>2, <2>3, <2>4
<1>5. Offending(new) = {j, k}
  BY <1>2, <1>3, <1>4 DEF Offending
<1>6. j \in 1 .. Len(new) /\ k \in 1 .. Len(new)
  BY <1>2, <1>3
<1>7. ValidateLog(new) = <<j, k>>
  BY <1>2, <1>3, <1>4, <1>5, <1>6, ErrorsAre
<1> QED
  BY <1>7 DEF new

(* A timeline has nothing but strings if the run began with one.           *)
LEMMA EntryStrings ==
    ASSUME NEW r, IsWhole(r), r.origin \in Strings,
           NEW line, WholeTimeline(line, r), NEW p \in DOMAIN line
    PROVE  {line[p].from, line[p].to} \subseteq Strings \cup {None}
<1>1. r.origin \in Strings /\ r.final \in Strings
  BY WholeParts
<1>2. ASSUME NEW i, NEW kind, NEW to, line[p] = MarkerAt(p, i, kind, to),
             to \in Strings \cup {None}
      PROVE  {line[p].from, line[p].to} \subseteq Strings \cup {None}
  BY <1>2 DEF MarkerAt
<1>3. ASSUME NEW i \in 1 .. r.iterations, ActsAt(line, p, i)
      PROVE  {line[p].from, line[p].to} \subseteq Strings \cup {None}
  <2> DEFINE a == p - Opening(i)
             e == r.events[Place(i, a)]
  <2>1. i \in Nat \ {0}
    BY WholeParts DEF Iterations
  <2>2. Opening(i) \in Nat /\ p \in Opening(i) + 1 .. Opening(i) + NumAgents
    BY <1>3, <2>1, Openings DEF ActsAt
  <2>3. a \in Turns /\ p = Opening(i) + a
    BY <2>2 DEF Turns
  <2> HIDE DEF a
  <2>4. Place(i, a) \in DOMAIN r.events /\ e.iteration = i /\ e.agent = a
    BY <2>3, TurnHeld
  <2>5. DOMAIN r.events = 1 .. Len(r.events)
    BY WholeParts
  <2>6. TurnAt(line, e)
    BY <2>4, <2>5 DEF WholeTimeline
  <2>7. e.input \in Strings /\ e.output \in Strings
    <3>1. /\ r.events[1].input = r.origin
          /\ \A k \in DOMAIN r.events :
                /\ r.events[k].output \in Strings
                /\ k = 1 \/ r.events[k].input \in Strings
      BY StringsHeld
    <3> QED
      BY <1>1, <2>4, <3>1
  <2> HIDE DEF e
  <2>8. line[p] = ActAt(p, e)
    BY <2>3, <2>4, <2>6 DEF TurnAt
  <2> QED
    BY <2>7, <2>8 DEF ActAt
<1> QED
  BY <1>1, <1>2, <1>3, PlaceKinds DEF StartsAt, EndsPlace

(* The entries of a timeline make lines that can be read, if so.           *)
LEMMA EntriesReadable ==
    ASSUME NEW r, IsWhole(r), r.origin \in Strings,
           NEW line, WholeTimeline(line, r), NEW p \in DOMAIN line
    PROVE  Readable(line[p]) /\ line[p].sequence = p - 1
<1>1. /\ line[p] \in Entry /\ EventOk(line[p]) /\ line[p].sequence = p - 1
  <2>1. line[p] \in Entry
    BY DEF WholeTimeline
  <2> QED
    BY <2>1, EntryKinds
<1>2. \/ line[p].changed = FALSE
      \/ line[p].kind = "agent_acted"
  <2>1. \/ \E i, kind, to : line[p] = MarkerAt(p, i, kind, to)
        \/ \E e : line[p] = ActAt(p, e)
    BY PlaceKinds DEF StartsAt, EndsPlace, ActsAt
  <2> QED
    BY <2>1 DEF MarkerAt, ActAt
<1> QED
  BY <1>1, <1>2, EntryStrings DEF Readable

(* Whether there is a log: only the first state can stand in the way.      *)
LEMMA LogIfString ==
    ASSUME NEW r, IsWhole(r), NEW line, WholeTimeline(line, r)
    PROVE  (\A p \in DOMAIN line : RecordOk(RecordOf(line[p]))) <=> r.origin \in Strings
<1>1. ASSUME r.origin \in Strings, NEW p \in DOMAIN line
      PROVE  RecordOk(RecordOf(line[p]))
  <2>1. Readable(line[p])
    BY <1>1, EntriesReadable
  <2> QED
    BY <2>1 DEF RecordOk, RecordOf, Readable, EventOk
<1>2. ASSUME \A p \in DOMAIN line : RecordOk(RecordOf(line[p]))
      PROVE  r.origin \in Strings
  <2>1. 1 \in DOMAIN line
    <3>1. r.iterations + 1 \in Nat \ {0}
      BY WholeParts DEF Iterations
    <3>2. line \in Seq(Entry) /\ Len(line) \in Nat /\ Len(line) >= 2
      BY <3>1, Openings DEF WholeTimeline
    <3> QED
      BY <3>2
  <2>2. RecordOf(line[1]).to = r.origin
    BY DEF WholeTimeline, MarkerAt, RecordOf
  <2>3. r.origin \in Strings \cup {None}
    BY <1>2, <2>1, <2>2 DEF RecordOk
  <2>4. r.origin # None
    BY WholeParts, NoneAssumption
  <2> QED
    BY <2>3, <2>4
<1> QED
  BY <1>1, <1>2

(* The log of a whole result, unless its states hold a line boundary.      *)
LEMMA LogWritten ==
    ASSUME NEW r, IsWhole(r), r.origin \in Strings, Unbroken(FormatLog(AuditRecords(r)))
    PROVE  /\ LogOf(FormatLog(AuditRecords(r)), Timeline(r))
           /\ AuditRecords(r) = [k \in DOMAIN Timeline(r) |-> RecordOf(Timeline(r)[k])]
<1> DEFINE line == Timeline(r)
           text == FormatLog(AuditRecords(r))
<1>1. WholeTimeline(line, r)
  BY TimelineWhole
<1> HIDE DEF line
<1>2. AuditRecords(r) = [k \in DOMAIN line |-> RecordOf(line[k])]
  BY DEF AuditRecords, line
<1>3. text = [k \in DOMAIN line |-> LineOf(line[k])]
  BY <1>2 DEF FormatLog, LineOf
<1> HIDE DEF text
<1>4. ASSUME NEW k \in DOMAIN line
      PROVE  /\ Readable(line[k]) /\ line[k].sequence = k - 1
             /\ line[k].from \notin Breaking /\ line[k].to \notin Breaking
  <2>1. text[k]["from"] \notin Breaking /\ text[k]["to"] \notin Breaking
    BY <1>3 DEF Unbroken, text
  <2>2. text[k]["from"] = line[k].from /\ text[k]["to"] = line[k].to
    BY <1>3, LineFields
  <2> QED
    BY <1>1, <2>1, <2>2, EntriesReadable
<1>5. line \in Seq(Entry)
  BY <1>1 DEF WholeTimeline
<1>6. LogOf(text, line)
  BY <1>3, <1>4, <1>5 DEF LogOf
<1> QED
  BY <1>2, <1>6 DEF text, line

(* Of a log of any run it can be told what has happened to it.             *)
LEMMA LogTells ==
    ASSUME NEW line, NEW text, LogOf(text, line)
    PROVE  LET n == Len(text)
               Missed(f) == {k \in 1 .. n : ParseLine(Missing(text[k], f)) = BadRecord}
           IN  /\ \A k \in 1 .. n :
                     /\ ValidateLog([text EXCEPT ![k] = Torn]) = <<k>>
                     /\ ParseLog([text EXCEPT ![k] = Torn]) = [error |-> k]
                     /\ ValidateLog([text EXCEPT ![k] = Extra(@)]) = <<k>>
               /\ \A f \in Required : Missed(f) = 1 .. n
               /\ Missed("changed") = {k \in 1 .. n : text[k].changed}
               /\ Missed("agent") = {k \in 1 .. n : text[k].kind = "agent_acted"}
<1> DEFINE n == Len(text)
<1>1. /\ text \in Seq(Seen)
      /\ \A k \in 1 .. n : /\ text[k] = LineOf(line[k])
                           /\ Extra(text[k]) \in Seen /\ Plain(Extra(text[k]))
                           /\ ParseLine(Extra(text[k])) = BadRecord
  BY LogLines
<1>2. Torn \in Seen /\ Plain(Torn) /\ ParseLine(Torn) = BadRecord
  BY DamageNoticed DEF Seen, Plain
<1>3. ASSUME NEW k \in 1 .. n
      PROVE  /\ ValidateLog([text EXCEPT ![k] = Torn]) = <<k>>
             /\ ParseLog([text EXCEPT ![k] = Torn]) = [error |-> k]
             /\ ValidateLog([text EXCEPT ![k] = Extra(@)]) = <<k>>
  <2>1. /\ ValidateLog([text EXCEPT ![k] = Torn]) = <<k>>
        /\ ParseLog([text EXCEPT ![k] = Torn]) = [error |-> k]
    BY <1>2, LineDamaged, Zenon
  <2> DEFINE x == Extra(text[k])
  <2>2. x \in Seen /\ Plain(x) /\ ParseLine(x) = BadRecord
    BY <1>1
  <2>3. [text EXCEPT ![k] = Extra(@)] = [text EXCEPT ![k] = x]
    BY Zenon
  <2> HIDE DEF x
  <2>4. ValidateLog([text EXCEPT ![k] = x]) = <<k>>
    BY <2>2, LineDamaged, Zenon
  <2> QED
    BY <2>1, <2>3, <2>4
<1>4. ASSUME NEW k \in 1 .. n
      PROVE  /\ \A f \in Required : ParseLine(Missing(text[k], f)) = BadRecord
             /\ ParseLine(Missing(text[k], "changed")) = BadRecord <=> text[k].changed
             /\ ParseLine(Missing(text[k], "agent")) = BadRecord <=> text[k].kind = "agent_acted"
  <2> DEFINE t == line[k]
  <2>1. Readable(t) /\ text[k] = LineOf(t)
    <3>1. k \in DOMAIN line
      BY LogLines DEF LogOf
    <3> QED
      BY <1>1, <3>1 DEF LogOf
  <2> HIDE DEF t
  <2>2. LineOf(t)["changed"] = t.changed /\ LineOf(t)["kind"] = t.kind
    BY LineFields
  <2>3. /\ \A f \in Required : ParseLine(Missing(LineOf(t), f)) = BadRecord
        /\ ParseLine(Missing(LineOf(t), "changed")) = BadRecord <=> t.changed
        /\ ParseLine(Missing(LineOf(t), "agent")) = BadRecord <=> t.kind = "agent_acted"
    BY <2>1, LossNoticed
  <2> QED
    BY <2>1, <2>2, <2>3
<1>5. \A f \in Required : {k \in 1 .. n : ParseLine(Missing(text[k], f)) = BadRecord} = 1 .. n
  BY <1>4
<1>6. {k \in 1 .. n : ParseLine(Missing(text[k], "changed")) = BadRecord}
        = {k \in 1 .. n : text[k].changed}
  BY <1>4
<1>7. {k \in 1 .. n : ParseLine(Missing(text[k], "agent")) = BadRecord}
        = {k \in 1 .. n : text[k].kind = "agent_acted"}
  BY <1>4
<1> QED
  BY <1>3, <1>5, <1>6, <1>7, Zenon

(* For every result of every length: the audit log reads back as written,  *)
(* and validate_jsonl finds where it was damaged.                          *)
THEOREM LogsAreTrails == Spec => []AuditTrail
<1>1. ASSUME LoopInv, result # NoResult
      PROVE  AuditTrail
  <2> DEFINE text == FormatLog(AuditRecords(result))
             line == Timeline(result)
             n == Len(text)
  <2>1. ASSUME result.origin \in Strings, Unbroken(text)
        PROVE  LogOf(text, line) /\ AuditRecords(result) = [k \in DOMAIN line |-> RecordOf(line[k])]
    <3>1. IsWhole(result)
      BY <1>1, HeldIsWhole
    <3> QED
      BY <2>1, <3>1, LogWritten
  <2>5. (\A k \in 1 .. n : RecordOk(AuditRecords(result)[k])) <=> result.origin \in Strings
    <3>1. IsWhole(result)
      BY <1>1, HeldIsWhole
    <3>2. WholeTimeline(line, result)
      BY <3>1, TimelineWhole
    <3> HIDE DEF line
    <3>3. DOMAIN line = 1 .. Len(line) /\ Len(line) \in Nat
      BY <3>2 DEF WholeTimeline
    <3>4. AuditRecords(result) = [k \in 1 .. Len(line) |-> RecordOf(line[k])]
      BY <3>3 DEF AuditRecords, line
    <3>5. text = [k \in 1 .. Len(line) |-> ToDict(AuditRecords(result)[k])]
      BY <3>4 DEF FormatLog
    <3>6. n = Len(line)
      BY <3>3, <3>5
    <3>7. \A k \in 1 .. n : AuditRecords(result)[k] = RecordOf(line[k])
      BY <3>4, <3>6
    <3> HIDE DEF n
    <3> QED
      BY <3>1, <3>2, <3>3, <3>6, <3>7, LogIfString
  <2> HIDE DEF text, line
  <2>2. ASSUME result.origin \in Strings, Unbroken(text)
        PROVE  /\ ParseLog(text) = [records |-> AuditRecords(result)]
               /\ ValidateLog(text) = << >>
    BY <2>1, <2>2, LogReads
  <2>3. ASSUME result.origin \in Strings, Unbroken(text)
        PROVE  /\ \A k \in 1 .. n :
                     /\ First(ValidateLog(Without(text, k))) = IF k = n THEN 0 ELSE k
                     /\ First(ValidateLog(Twice(text, k))) = k + 1
               /\ \A j \in 1 .. n : \A k \in j + 1 .. n :
                     ValidateLog(Swapped(text, j, k)) = <<j, k>>
    BY <2>1, <2>3, LineLost, LineRepeated, LinesSwapped
  <2>4. ASSUME result.origin \in Strings, Unbroken(text)
        PROVE  /\ \A k \in 1 .. n :
                     /\ ValidateLog([text EXCEPT ![k] = Torn]) = <<k>>
                     /\ ParseLog([text EXCEPT ![k] = Torn]) = [error |-> k]
                     /\ ValidateLog([text EXCEPT ![k] = Extra(@)]) = <<k>>
               /\ \A f \in Required :
                     {k \in 1 .. n : ParseLine(Missing(text[k], f)) = BadRecord} = 1 .. n
               /\ {k \in 1 .. n : ParseLine(Missing(text[k], "changed")) = BadRecord}
                     = {k \in 1 .. n : text[k].changed}
               /\ {k \in 1 .. n : ParseLine(Missing(text[k], "agent")) = BadRecord}
                     = {k \in 1 .. n : text[k].kind = "agent_acted"}
    BY <2>1, <2>4, LogTells, Zenon
  <2> QED
    BY <2>2, <2>3, <2>4, <2>5, ZenonT(60) DEF AuditTrail, First, text
<1>2. LoopInv => AuditTrail
  BY <1>1 DEF AuditTrail
<1> QED
  BY <1>2, Invariance, PTL
=============================================================================
