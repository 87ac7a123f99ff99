---------------------------- MODULE ListsProofs ----------------------------
(***************************************************************************)
(* What the operators of Lists compute, for lists and sets of every size:  *)
(* what sums, powers, selections and joined lists are, that sorting sorts, *)
(* and what a loop over a list does.  The library's induction theorems     *)
(* take an operator as a parameter, which the provers do not instantiate;  *)
(* here induction is about a set of numbers, and follows from the          *)
(* well-foundedness of the order on Nat.                                   *)
(***************************************************************************)
EXTENDS Lists, FiniteSetTheorems, SequenceTheorems, WellFoundedInduction, TLAPS

(* A set of natural numbers that is not empty has a least member.          *)
LEMMA LeastNat ==
    ASSUME NEW T, T \subseteq Nat, T # {}
    PROVE  \E n \in T : \A m \in T : n <= m
<1> DEFINE R == OpToRel(<, Nat)
<1>1. IsWellFoundedOn(R, Nat)
  BY NatLessThanWellFounded
<1>2. \A x, y \in Nat : x < y => <<x, y>> \in R
  BY DEF OpToRel
<1> HIDE DEF R
<1>3. PICK x \in T : \A y \in T : ~ (<<y, x>> \in R)
  BY <1>1, WFMin
<1>4. \A y \in T : x \in Nat /\ y \in Nat /\ ~(y < x)
  BY <1>2, <1>3
<1> QED
  BY <1>4

(* A set of natural numbers closed under successor, with 0, is all of Nat. *)
LEMMA NatSetInduction ==
    ASSUME NEW T, T \subseteq Nat, 0 \in T, \A n \in T : n + 1 \in T
    PROVE  T = Nat
<1> DEFINE U == Nat \ T
<1> SUFFICES ASSUME U # {} PROVE FALSE
  OBVIOUS
<1>1. PICK n \in U : \A m \in U : n <= m
  <2>1. U \subseteq Nat
    OBVIOUS
  <2> HIDE DEF U
  <2> QED
    BY LeastNat, <2>1
<1>2. n # 0 /\ n - 1 \in Nat /\ n - 1 \notin U
  BY <1>1
<1> QED
  BY <1>1, <1>2

-----------------------------------------------------------------------------
(* The partial sums of a list exist.                                       *)
LEMMA PartialSums ==
    ASSUME NEW s \in Seq(Int)
    PROVE  \E f \in [0 .. Len(s) -> Int] :
              f = [n \in 0 .. Len(s) |-> IF n = 0 THEN 0 ELSE f[n - 1] + s[n]]
<1> DEFINE Up(m, f) == \A n \in 0 .. m : f[n] = IF n = 0 THEN 0 ELSE f[n - 1] + s[n]
           T == {m \in Nat : m <= Len(s) => \E f \in [0 .. m -> Int] : Up(m, f)}
<1>1. 0 \in T
  <2>1. [n \in 0 .. 0 |-> 0] \in [0 .. 0 -> Int] /\ Up(0, [n \in 0 .. 0 |-> 0])
    OBVIOUS
  <2> QED
    BY <2>1
<1>2. ASSUME NEW m \in T
      PROVE  m + 1 \in T
  <2>1. m \in Nat /\ m + 1 \in Nat /\ Len(s) \in Nat
    OBVIOUS
  <2> SUFFICES ASSUME m + 1 <= Len(s)
               PROVE  \E f \in [0 .. m + 1 -> Int] : Up(m + 1, f)
    BY <2>1, Zenon
  <2>2. PICK f \in [0 .. m -> Int] : Up(m, f)
    <3>1. m <= Len(s)
      BY <2>1
    <3> QED
      BY <1>2, <3>1, Zenon
  <2> DEFINE g == [n \in 0 .. m + 1 |-> IF n <= m THEN f[n] ELSE f[m] + s[m + 1]]
  <2>3. s[m + 1] \in Int /\ f[m] \in Int
    BY <2>1, <2>2
  <2>4. g \in [0 .. m + 1 -> Int]
    BY <2>1, <2>2, <2>3
  <2>5. ASSUME NEW n \in 0 .. m + 1
        PROVE  g[n] = IF n = 0 THEN 0 ELSE g[n - 1] + s[n]
    <3>1. CASE n <= m
      <4>1. n \in 0 .. m /\ g[n] = f[n] /\ (n # 0 => g[n - 1] = f[n - 1])
        BY <2>1, <3>1
      <4> QED
        BY <2>2, <4>1
    <3>2. CASE n = m + 1
      BY <2>1, <3>2
    <3> QED
      BY <2>1, <3>1, <3>2
  <2> QED
    BY <2>4, <2>5
<1> HIDE DEF T
<1>3. T = Nat
  <2>1. T \subseteq Nat
    BY DEF T
  <2> QED
    BY <1>1, <1>2, <2>1, NatSetInduction
<1>4. PICK f \in [0 .. Len(s) -> Int] : Up(Len(s), f)
  BY <1>3 DEF T
<1>5. f = [n \in 0 .. Len(s) |-> IF n = 0 THEN 0 ELSE f[n - 1] + s[n]]
  BY <1>4
<1> QED
  BY <1>5

(* f adds up the first m numbers of s. *)
AddsUp(f, s, m) == f[0] = 0 /\ \A n \in 1 .. m : f[n] = f[n - 1] + s[n]

(* Two functions that add up the same numbers agree.                       *)
LEMMA SumsAgree ==
    ASSUME NEW m \in Nat, NEW f, NEW g, NEW s, AddsUp(f, s, m), AddsUp(g, s, m)
    PROVE  f[m] = g[m]
<1> DEFINE T == {n \in Nat : n <= m => f[n] = g[n]}
<1>0. /\ f[0] = g[0]
      /\ \A n \in 1 .. m : f[n] = f[n - 1] + s[n] /\ g[n] = g[n - 1] + s[n]
  BY DEF AddsUp
<1>1. 0 \in T
  BY <1>0
<1>2. ASSUME NEW n \in T
      PROVE  n + 1 \in T
  <2>1. n \in Nat /\ (n + 1) - 1 = n /\ n + 1 \in Nat
    OBVIOUS
  <2>2. ASSUME n + 1 <= m
        PROVE  f[n + 1] = g[n + 1]
    <3>1. n + 1 \in 1 .. m /\ n <= m
      BY <2>1, <2>2
    <3>2. f[n] = g[n]
      BY <1>2, <3>1
    <3> QED
      BY <1>0, <2>1, <3>1, <3>2
  <2> QED
    BY <2>1, <2>2
<1>3. T = Nat
  <2>1. T \subseteq Nat
    OBVIOUS
  <2> HIDE DEF T
  <2> QED
    BY <1>1, <1>2, <2>1, NatSetInduction
<1> QED
  BY <1>3

(* A function that is defined by adding up adds up.                        *)
LEMMA AddedUp ==
    ASSUME NEW s, NEW m \in Nat, NEW f,
           f = [n \in 0 .. m |-> IF n = 0 THEN 0 ELSE f[n - 1] + s[n]]
    PROVE  AddsUp(f, s, m)
<1>1. ASSUME NEW n \in 0 .. m
      PROVE  f[n] = IF n = 0 THEN 0 ELSE f[n - 1] + s[n]
  OBVIOUS
<1>2. 0 \in 0 .. m /\ \A n \in 1 .. m : n \in 0 .. m /\ n # 0
  OBVIOUS
<1> QED
  BY <1>1, <1>2, Zenon DEF AddsUp

(* The sum of a list is what adding up its numbers ends with.              *)
LEMMA SumUnfolds ==
    ASSUME NEW s \in Seq(Int)
    PROVE  \E f \in [0 .. Len(s) -> Int] : AddsUp(f, s, Len(s)) /\ Sum(s) = f[Len(s)]
<1> DEFINE F(f) == f = [n \in 0 .. Len(s) |-> IF n = 0 THEN 0 ELSE f[n - 1] + s[n]]
           sum == CHOOSE f : F(f)
<1>1. PICK f \in [0 .. Len(s) -> Int] : F(f)
  BY PartialSums
<1>2. F(sum)
  <2> HIDE DEF F
  <2>1. \E g : F(g)
    BY <1>1
  <2> QED
    BY <2>1
<1>3. Sum(s) = sum[Len(s)]
  BY DEF Sum
<1> HIDE DEF sum
<1>4. Len(s) \in Nat
  OBVIOUS
<1>5. AddsUp(f, s, Len(s))
  BY <1>1, <1>4, AddedUp, Zenon
<1>6. AddsUp(sum, s, Len(s))
  BY <1>2, <1>4, AddedUp, Zenon
<1>7. sum[Len(s)] = f[Len(s)]
  BY <1>4, <1>5, <1>6, SumsAgree
<1> QED
  BY <1>3, <1>5, <1>7

(* The sum of no numbers is 0; of integers, an integer.                    *)
LEMMA SumTyped ==
    /\ Sum(<< >>) = 0
    /\ \A s \in Seq(Int) : Sum(s) \in Int
<1>1. \A s \in Seq(Int) : Sum(s) \in Int /\ (Len(s) = 0 => Sum(s) = 0)
  <2> TAKE s \in Seq(Int)
  <2>1. PICK f \in [0 .. Len(s) -> Int] : f[0] = 0 /\ Sum(s) = f[Len(s)]
    BY SumUnfolds DEF AddsUp
  <2>2. Len(s) \in 0 .. Len(s)
    OBVIOUS
  <2> QED
    BY <2>1, <2>2
<1>2. << >> \in Seq(Int) /\ Len(<< >>) = 0
  OBVIOUS
<1> QED
  BY <1>1, <1>2, Zenon

(* A number more adds that number.                                         *)
LEMMA SumAppend ==
    ASSUME NEW s \in Seq(Int), NEW x \in Int
    PROVE  Sum(Append(s, x)) = Sum(s) + x
<1> DEFINE t == Append(s, x)
           l == Len(s)
<1>1. t \in Seq(Int) /\ Len(t) = l + 1 /\ l \in Nat /\ t[l + 1] = x
      /\ \A n \in 1 .. l : t[n] = s[n]
  OBVIOUS
<1> HIDE DEF t
<1>2. PICK f \in [0 .. Len(s) -> Int] : AddsUp(f, s, Len(s)) /\ Sum(s) = f[Len(s)]
  BY SumUnfolds
<1>3. PICK g \in [0 .. Len(t) -> Int] : AddsUp(g, t, Len(t)) /\ Sum(t) = g[Len(t)]
  BY <1>1, SumUnfolds
<1>4. AddsUp(g, s, l)
  BY <1>1, <1>3 DEF AddsUp
<1>5. g[l] = f[l]
  BY <1>1, <1>2, <1>4, SumsAgree
<1>6. l + 1 \in 1 .. Len(t) /\ (l + 1) - 1 = l
  BY <1>1
<1>7. g[l + 1] = g[l] + x
  BY <1>1, <1>3, <1>6 DEF AddsUp
<1> QED
  BY <1>1, <1>2, <1>3, <1>5, <1>7 DEF t

(* The sets part[1], part[2], ... are disjoint, and s counts their members. *)
CountsParts(s, part) ==
    /\ \A i \in 1 .. Len(s) : IsFiniteSet(part[i]) /\ Cardinality(part[i]) = s[i]
    /\ \A i, j \in 1 .. Len(s) : i # j => part[i] \cap part[j] = {}

(* All members of the first n of them. *)
AllParts(part, n) == UNION {part[i] : i \in 1 .. n}

(* Numbers that count the members of disjoint sets add up to the members   *)
(* of all of them.                                                         *)
LEMMA SumOfParts ==
    ASSUME NEW s \in Seq(Nat), NEW part, CountsParts(s, part)
    PROVE  Sum(s) = Cardinality(AllParts(part, Len(s)))
<1> DEFINE whole(n) == UNION {part[i] : i \in 1 .. n}
           l == Len(s)
<1>0. /\ \A i \in 1 .. l : IsFiniteSet(part[i]) /\ Cardinality(part[i]) = s[i]
      /\ \A i, j \in 1 .. l : i # j => part[i] \cap part[j] = {}
  BY DEF CountsParts
<1>1. s \in Seq(Int) /\ l \in Nat
  OBVIOUS
<1>2. PICK f \in [0 .. l -> Int] :
          f[0] = 0 /\ (\A n \in 1 .. l : f[n] = f[n - 1] + s[n]) /\ Sum(s) = f[l]
  BY <1>1, SumUnfolds DEF AddsUp
<1> DEFINE T == {n \in Nat : n <= l => IsFiniteSet(whole(n)) /\ Cardinality(whole(n)) = f[n]}
<1>3. 0 \in T
  <2>1. whole(0) = {}
    OBVIOUS
  <2> QED
    BY <1>2, <2>1, FS_EmptySet
<1>4. ASSUME NEW n \in T
      PROVE  n + 1 \in T
  <2>1. n \in Nat /\ (n + 1) - 1 = n /\ n + 1 \in Nat
    OBVIOUS
  <2>2. ASSUME n + 1 <= l
        PROVE  IsFiniteSet(whole(n + 1)) /\ Cardinality(whole(n + 1)) = f[n + 1]
    <3>1. n + 1 \in 1 .. l /\ n <= l
      BY <1>1, <2>1, <2>2
    <3>2. IsFiniteSet(whole(n)) /\ Cardinality(whole(n)) = f[n]
      BY <1>4, <3>1
    <3>3. IsFiniteSet(part[n + 1]) /\ Cardinality(part[n + 1]) = s[n + 1]
      BY <1>0, <3>1
    <3>4. whole(n) \cap part[n + 1] = {}
      <4>1. \A i \in 1 .. n : i \in 1 .. l /\ i # n + 1
        BY <1>1, <2>1, <3>1
      <4>2. \A i \in 1 .. n : part[i] \cap part[n + 1] = {}
        BY <1>0, <3>1, <4>1
      <4> QED
        BY <4>2
    <3>5. whole(n + 1) = whole(n) \cup part[n + 1]
      <4>1. 1 .. n + 1 = (1 .. n) \cup {n + 1}
        BY <2>1
      <4> QED
        BY <4>1
    <3>6. f[n + 1] = f[n] + s[n + 1] /\ s[n + 1] \in Nat /\ f[n] \in Int
      <4>1. f[n + 1] = f[n] + s[n + 1]
        BY <1>2, <2>1, <3>1, Zenon
      <4>2. n \in 0 .. l
        BY <1>1, <2>1, <3>1
      <4>3. f[n] \in Int
        BY <4>2
      <4>4. s[n + 1] \in Nat
        BY <3>1
      <4> QED
        BY <4>1, <4>3, <4>4
    <3> HIDE DEF whole
    <3>7. IsFiniteSet(whole(n) \cup part[n + 1])
          /\ Cardinality(whole(n) \cup part[n + 1])
                = Cardinality(whole(n)) + Cardinality(part[n + 1])
                  - Cardinality(whole(n) \cap part[n + 1])
      BY <3>2, <3>3, FS_Union
    <3>8. Cardinality(whole(n) \cap part[n + 1]) = 0
      BY <3>4, FS_EmptySet
    <3>9. IsFiniteSet(whole(n + 1)) /\ Cardinality(whole(n + 1)) = f[n] + s[n + 1] - 0
      BY <3>2, <3>3, <3>5, <3>7, <3>8, Zenon
    <3> QED
      BY <3>6, <3>9
  <2> QED
    BY <2>1, <2>2
<1>5. T = Nat
  <2>1. T \subseteq Nat
    OBVIOUS
  <2> HIDE DEF T
  <2> QED
    BY <1>3, <1>4, <2>1, NatSetInduction
<1>6. Cardinality(whole(l)) = f[l]
  BY <1>1, <1>5
<1>7. whole(l) = AllParts(part, l)
  BY DEF AllParts
<1>8. Sum(s) = f[l]
  BY <1>2
<1> HIDE DEF whole, l
<1> QED
  BY <1>6, <1>7, <1>8 DEF l

-----------------------------------------------------------------------------
(* before orders the members of set strictly and totally. *)
Orders(before, set) ==
    /\ \A x \in set : <<x, x>> \notin before
    /\ \A x, y, z \in set : <<x, y>> \in before /\ <<y, z>> \in before => <<x, z>> \in before
    /\ \A x, y \in set : x # y => <<x, y>> \in before \/ <<y, x>> \in before

(* line lists the members of set, each once, in the order of before. *)
IsListing(line, set, before) ==
    /\ line \in Seq(set)
    /\ Len(line) = Cardinality(set)
    /\ set = {line[i] : i \in 1 .. Len(line)}
    /\ \A i, j \in 1 .. Len(line) : i < j => <<line[i], line[j]>> \in before

(* Who is later has more members before it.                                *)
LEMMA RanksGrow ==
    ASSUME NEW set, NEW before, IsFiniteSet(set), Orders(before, set),
           NEW x \in set, NEW y \in set, <<x, y>> \in before
    PROVE  Cardinality(Earlier(set, before, x)) < Cardinality(Earlier(set, before, y))
<1> DEFINE A == Earlier(set, before, x)
           B == Earlier(set, before, y)
<1>1. A \subseteq set /\ B \subseteq set /\ x \notin A /\ A \cup {x} \subseteq B
  BY DEF Orders, Earlier
<1> HIDE DEF A, B
<1>2. IsFiniteSet(A) /\ IsFiniteSet(B)
  BY <1>1, FS_Subset
<1>3. Cardinality(A \cup {x}) = Cardinality(A) + 1
  BY <1>1, <1>2, FS_AddElement
<1>4. Cardinality(A \cup {x}) <= Cardinality(B)
  BY <1>1, <1>2, FS_Subset
<1>5. Cardinality(A) \in Nat /\ Cardinality(B) \in Nat
  BY <1>2, FS_CardinalityType
<1>6. Cardinality(A) < Cardinality(B)
  BY <1>3, <1>4, <1>5
<1> QED
  BY <1>6 DEF A, B

(* Each number below that of the members is how many are before one.       *)
LEMMA RanksTaken ==
    ASSUME NEW set, NEW before, IsFiniteSet(set), Orders(before, set)
    PROVE  /\ \A x \in set : Cardinality(Earlier(set, before, x)) \in 0 .. Cardinality(set) - 1
           /\ \A k \in 1 .. Cardinality(set) :
                 \E x \in set : Cardinality(Earlier(set, before, x)) = k - 1
<1> DEFINE n == Cardinality(set)
           rank(x) == Cardinality(Earlier(set, before, x))
           f == [x \in set |-> rank(x)]
<1>1. n \in Nat
  BY FS_CardinalityType
<1>2. ASSUME NEW x \in set
      PROVE  rank(x) \in 0 .. n - 1
  <2> DEFINE A == Earlier(set, before, x)
  <2>1. A \subseteq set \ {x}
    BY DEF Orders, Earlier
  <2>2. IsFiniteSet(set \ {x}) /\ Cardinality(set \ {x}) = n - 1
    BY FS_RemoveElement
  <2> HIDE DEF A
  <2>3. IsFiniteSet(A) /\ Cardinality(A) <= n - 1
    BY <2>1, <2>2, FS_Subset
  <2>4. Cardinality(A) \in Nat
    BY <2>3, FS_CardinalityType
  <2>5. Cardinality(A) \in 0 .. n - 1
    BY <1>1, <2>3, <2>4
  <2> QED
    BY <2>5 DEF A
<1>3. ASSUME NEW x \in set, NEW y \in set, x # y
      PROVE  rank(x) # rank(y)
  <2>1. <<x, y>> \in before \/ <<y, x>> \in before
    BY <1>3 DEF Orders
  <2>2. rank(x) \in Int /\ rank(y) \in Int
    BY <1>2
  <2> QED
    BY <2>1, <2>2, RanksGrow
<1> HIDE DEF rank, n
<1>4. f \in [set -> 0 .. n - 1] /\ \A x, y \in set : f[x] = f[y] => x = y
  BY <1>2, <1>3
<1>5. IsFiniteSet(0 .. n - 1) /\ Cardinality(0 .. n - 1) = n
  BY <1>1, FS_Interval
<1>6. f \in Injection(set, 0 .. n - 1)
  BY <1>4 DEF Injection, IsInjective
<1> HIDE DEF f
<1>7. f \in Surjection(set, 0 .. n - 1)
  BY <1>5, <1>6, FS_Injection DEF n
<1>8. \A k \in 1 .. n : \E x \in set : f[x] = k - 1
  BY <1>1, <1>7 DEF Surjection
<1> QED
  BY <1>2, <1>8 DEF f, rank, n

(* Sorted lists the members of a finite set in order, each once.           *)
LEMMA SortedIsSorted ==
    ASSUME NEW set, NEW before, IsFiniteSet(set), Orders(before, set)
    PROVE  IsListing(Sorted(set, before), set, before)
<1> DEFINE n == Cardinality(set)
           rank(x) == Cardinality(Earlier(set, before, x))
           line == Sorted(set, before)
<1>1. n \in Nat
  BY FS_CardinalityType
<1>2. /\ \A x \in set : rank(x) \in 0 .. n - 1
      /\ \A k \in 1 .. n : \E x \in set : rank(x) = k - 1
  BY RanksTaken
<1>3. \A x, y \in set : <<x, y>> \in before => rank(x) < rank(y)
  BY RanksGrow
<1>4. line = [k \in 1 .. n |-> CHOOSE x \in set : rank(x) = k - 1]
  BY DEF Sorted
<1> HIDE DEF line, rank, n
<1>5. \A k \in 1 .. n : line[k] \in set /\ rank(line[k]) = k - 1
  BY <1>2, <1>4
<1>6. line \in Seq(set) /\ Len(line) = n
  BY <1>1, <1>4, <1>5
<1>7. ASSUME NEW i \in 1 .. n, NEW j \in 1 .. n, i < j
      PROVE  <<line[i], line[j]>> \in before
  <2>1. line[i] \in set /\ line[j] \in set /\ rank(line[i]) < rank(line[j])
        /\ rank(line[i]) \in Int /\ rank(line[j]) \in Int
    BY <1>5, <1>7
  <2>2. line[i] # line[j] /\ <<line[j], line[i]>> \notin before
    BY <1>3, <2>1
  <2> QED
    BY <2>1, <2>2 DEF Orders
<1>8. ASSUME NEW x \in set
      PROVE  \E i \in 1 .. n : line[i] = x
  <2>1. rank(x) \in Nat /\ rank(x) + 1 \in 1 .. n /\ (rank(x) + 1) - 1 = rank(x)
    BY <1>1, <1>2
  <2>2. line[rank(x) + 1] \in set /\ rank(line[rank(x) + 1]) = rank(x)
    BY <1>5, <2>1
  <2>3. line[rank(x) + 1] = x
    <3>1. <<x, line[rank(x) + 1]>> \notin before /\ <<line[rank(x) + 1], x>> \notin before
      BY <1>3, <2>1, <2>2
    <3> QED
      BY <2>2, <3>1 DEF Orders
  <2> QED
    BY <2>1, <2>3
<1>9. set = {line[i] : i \in 1 .. n}
  BY <1>5, <1>8
<1> QED
  BY <1>6, <1>7, <1>9 DEF IsListing, line, n

(* Its places hold different members.                                      *)
LEMMA SortedDiffers ==
    ASSUME NEW set, NEW before, NEW line, Orders(before, set), IsListing(line, set, before)
    PROVE  /\ Len(line) \in Nat /\ DOMAIN line = 1 .. Len(line)
           /\ \A i \in 1 .. Len(line) : line[i] \in set
           /\ \A i, j \in 1 .. Len(line) : i # j => line[i] # line[j]
<1>1. line \in Seq(set)
      /\ \A i, j \in 1 .. Len(line) : i < j => <<line[i], line[j]>> \in before
  BY DEF IsListing
<1>2. Len(line) \in Nat /\ DOMAIN line = 1 .. Len(line)
      /\ \A i \in 1 .. Len(line) : line[i] \in set
  BY <1>1
<1>3. ASSUME NEW i \in 1 .. Len(line), NEW j \in 1 .. Len(line), i # j
      PROVE  line[i] # line[j]
  <2>1. i < j \/ j < i
    BY <1>2, <1>3
  <2> QED
    BY <1>1, <1>2, <2>1 DEF Orders
<1> QED
  BY <1>2, <1>3

(* The image of a finite set is finite.                                    *)
LEMMA FiniteImage ==
    ASSUME NEW S, IsFiniteSet(S), NEW f
    PROVE  IsFiniteSet({f[x] : x \in S})
<1> DEFINE T == {f[x] : x \in S}
           g == [x \in S |-> f[x]]
<1>1. g \in Surjection(S, T)
  BY DEF Surjection
<1> HIDE DEF g, T
<1>2. IsFiniteSet(T)
  BY <1>1, FS_Surjection
<1> QED
  BY <1>2 DEF T

-----------------------------------------------------------------------------
(* A sequence without its element n.                                       *)
LEMMA RemovedElements ==
    ASSUME NEW S, NEW s \in Seq(S), NEW n \in 1 .. Len(s), NEW t,
           t = SubSeq(s, 1, n - 1) \o SubSeq(s, n + 1, Len(s))
    PROVE  /\ t \in Seq(S) /\ Len(t) = Len(s) - 1
           /\ \A i \in 1 .. Len(s) - 1 : t[i] = s[IF i < n THEN i ELSE i + 1]
<1> DEFINE l == Len(s)
           a == SubSeq(s, 1, n - 1)
           b == SubSeq(s, n + 1, l)
<1>1. l \in Nat /\ \A i \in 1 .. l : s[i] \in S
  OBVIOUS
<1>2. a \in Seq(S) /\ Len(a) = n - 1 /\ \A i \in 1 .. n - 1 : a[i] = s[i]
  <2>1. /\ a \in Seq(S) /\ Len(a) = IF 1 <= n - 1 THEN (n - 1) - 1 + 1 ELSE 0
        /\ \A i \in 1 .. (n - 1) - 1 + 1 : a[i] = s[1 + i - 1]
    BY <1>1, SubSeqProperties
  <2> HIDE DEF a
  <2> QED
    BY <1>1, <2>1
<1>3. b \in Seq(S) /\ Len(b) = l - n /\ \A i \in 1 .. l - n : b[i] = s[n + i]
  <2>1. /\ b \in Seq(S) /\ Len(b) = IF n + 1 <= l THEN l - (n + 1) + 1 ELSE 0
        /\ \A i \in 1 .. l - (n + 1) + 1 : b[i] = s[(n + 1) + i - 1]
    <3>1. n + 1 \in Int /\ l \in Int /\ \A i \in n + 1 .. l : s[i] \in S
      BY <1>1
    <3> QED
      BY <3>1, SubSeqProperties
  <2> HIDE DEF b
  <2> QED
    BY <1>1, <2>1
<1> HIDE DEF a, b
<1>4. /\ a \o b \in Seq(S) /\ Len(a \o b) = Len(a) + Len(b)
      /\ \A i \in 1 .. Len(a) + Len(b) : (a \o b)[i] = IF i <= Len(a) THEN a[i] ELSE b[i - Len(a)]
  BY <1>2, <1>3, ConcatProperties
<1>5. t = a \o b
  BY DEF a, b
<1> DEFINE u == a \o b
<1>7. /\ u \in Seq(S) /\ Len(u) = l - 1 /\ t = u
      /\ \A i \in 1 .. l - 1 : u[i] = IF i <= n - 1 THEN a[i] ELSE b[i - (n - 1)]
  <2>1. Len(a) + Len(b) = l - 1 /\ Len(a) = n - 1
    BY <1>1, <1>2, <1>3
  <2> QED
    BY <1>4, <1>5, <2>1, Zenon
<1> HIDE DEF u
<1>6. ASSUME NEW i \in 1 .. l - 1
      PROVE  t[i] = s[IF i < n THEN i ELSE i + 1]
  <2>1. t[i] = IF i <= n - 1 THEN a[i] ELSE b[i - (n - 1)]
    BY <1>7
  <2>2. CASE i < n
    <3>1. i \in 1 .. n - 1 /\ i <= n - 1
      BY <1>1, <2>2
    <3>2. t[i] = a[i]
      BY <2>1, <3>1, Zenon
    <3>3. a[i] = s[i]
      BY <1>2, <3>1, Zenon
    <3> QED
      BY <2>2, <3>2, <3>3, Zenon
  <2>3. CASE ~(i < n)
    <3>1. i - (n - 1) \in 1 .. l - n /\ n + (i - (n - 1)) = i + 1 /\ ~(i <= n - 1)
      BY <1>1, <2>3
    <3>2. b[i - (n - 1)] = s[n + (i - (n - 1))]
      BY <1>3, <3>1
    <3> QED
      BY <2>1, <2>3, <3>1, <3>2
  <2> QED
    BY <2>2, <2>3
<1> QED
  BY <1>6, <1>7

-----------------------------------------------------------------------------
(* Powers.                                                                 *)

(* A product of positive numbers is at least each of them.                 *)
LEMMA ProductGrows ==
    ASSUME NEW b \in Nat \ {0}, NEW x \in Nat
    PROVE  b * x \in Nat /\ b * x >= x /\ (x # 0 => b * x # 0)
<1>1. (b - 1) * x >= 0
  OBVIOUS
<1>2. (b - 1) * x = b * x - x
  OBVIOUS
<1>3. b * x \in Int
  OBVIOUS
<1> QED
  BY <1>1, <1>2, <1>3

(* f holds the powers of b up to the m-th. *)
Powers(f, b, m) == f[0] = 1 /\ \A k \in 1 .. m : f[k] = b * f[k - 1]

(* f is what Power computes them with. *)
IsPowers(f, b, m) == f = [k \in 0 .. m |-> IF k = 0 THEN 1 ELSE b * f[k - 1]]

(* There is a function that multiplies up the powers of b,                 *)
LEMMA PowersExist ==
    ASSUME NEW b \in Nat \ {0}, NEW l \in Nat
    PROVE  \E f \in [0 .. l -> Nat \ {0}] : IsPowers(f, b, l)
<1> DEFINE Up(m, f) == \A k \in 0 .. m : f[k] = IF k = 0 THEN 1 ELSE b * f[k - 1]
           T == {m \in Nat : \E f \in [0 .. m -> Nat \ {0}] : Up(m, f)}
<1>1. 0 \in T
  <2>1. [k \in 0 .. 0 |-> 1] \in [0 .. 0 -> Nat \ {0}] /\ Up(0, [k \in 0 .. 0 |-> 1])
    OBVIOUS
  <2> QED
    BY <2>1
<1>2. ASSUME NEW m \in T
      PROVE  m + 1 \in T
  <2>1. m \in Nat /\ m + 1 \in Nat
    OBVIOUS
  <2>2. PICK f \in [0 .. m -> Nat \ {0}] : Up(m, f)
    OBVIOUS
  <2> DEFINE next == b * f[m]
             g == [k \in 0 .. m + 1 |-> IF k <= m THEN f[k] ELSE next]
  <2>3. next \in Nat \ {0}
    <3>1. f[m] \in Nat \ {0}
      BY <2>1
    <3> QED
      BY <3>1, ProductGrows
  <2> HIDE DEF next
  <2>4. g \in [0 .. m + 1 -> Nat \ {0}]
    BY <2>1, <2>2, <2>3
  <2>5. ASSUME NEW k \in 0 .. m + 1
        PROVE  g[k] = IF k = 0 THEN 1 ELSE b * g[k - 1]
    <3>1. CASE k <= m
      <4>1. k \in 0 .. m /\ g[k] = f[k] /\ (k # 0 => g[k - 1] = f[k - 1])
        BY <2>1, <3>1
      <4> QED
        BY <2>2, <4>1
    <3>2. CASE k = m + 1
      <4>1. k # 0 /\ g[k] = next /\ g[k - 1] = f[m]
        BY <2>1, <3>2
      <4> QED
        BY <4>1 DEF next
    <3> QED
      BY <2>1, <3>1, <3>2
  <2> HIDE DEF g
  <2>6. Up(m + 1, g)
    BY <2>5
  <2> QED
    BY <2>1, <2>4, <2>6
<1> HIDE DEF T
<1>3. T = Nat
  <2>1. T \subseteq Nat
    BY DEF T
  <2> QED
    BY <1>1, <1>2, <2>1, NatSetInduction
<1>4. PICK f \in [0 .. l -> Nat \ {0}] : Up(l, f)
  BY <1>3 DEF T
<1>5. IsPowers(f, b, l)
  BY <1>4 DEF IsPowers
<1> QED
  BY <1>5

(* there is only one,                                                      *)
LEMMA PowersAgree ==
    ASSUME NEW m \in Nat, NEW b, NEW f, NEW g, Powers(f, b, m), Powers(g, b, m)
    PROVE  f[m] = g[m]
<1> DEFINE T == {k \in Nat : k <= m => f[k] = g[k]}
<1>1. 0 \in T
  BY DEF Powers
<1>2. ASSUME NEW k \in T
      PROVE  k + 1 \in T
  <2>1. k \in Nat /\ k + 1 \in Nat /\ (k + 1) - 1 = k
    OBVIOUS
  <2>2. ASSUME k + 1 <= m
        PROVE  f[k + 1] = g[k + 1]
    <3>1. k + 1 \in 1 .. m /\ f[k] = g[k]
      BY <1>2, <2>1, <2>2
    <3>2. f[k + 1] = b * f[(k + 1) - 1] /\ g[k + 1] = b * g[(k + 1) - 1]
      BY <3>1, Zenon DEF Powers
    <3> QED
      BY <2>1, <3>1, <3>2
  <2> QED
    BY <2>1, <2>2
<1> HIDE DEF T
<1>3. T = Nat
  <2>1. T \subseteq Nat
    BY DEF T
  <2> QED
    BY <1>1, <1>2, <2>1, NatSetInduction
<1> QED
  BY <1>3 DEF T

(* it is what Power computes them with,                                    *)
LEMMA PowersUnfold ==
    ASSUME NEW f, NEW b, NEW m \in Nat, IsPowers(f, b, m)
    PROVE  Powers(f, b, m)
<1>1. ASSUME NEW k \in 0 .. m
      PROVE  f[k] = IF k = 0 THEN 1 ELSE b * f[k - 1]
  BY DEF IsPowers
<1>2. 0 \in 0 .. m /\ \A k \in 1 .. m : k \in 0 .. m /\ k # 0
  OBVIOUS
<1> QED
  BY <1>1, <1>2, Zenon DEF Powers

(* and so a power is what multiplying ends with.                           *)
LEMMA PowerUnfolds ==
    ASSUME NEW b \in Nat \ {0}, NEW n \in Nat
    PROVE  \E f \in [0 .. n -> Nat \ {0}] : Powers(f, b, n) /\ Power(b, n) = f[n]
<1> DEFINE power == CHOOSE f : IsPowers(f, b, n)
<1>1. PICK f \in [0 .. n -> Nat \ {0}] : IsPowers(f, b, n)
  BY PowersExist
<1>2. IsPowers(power, b, n)
  <2>1. \E g : IsPowers(g, b, n)
    BY <1>1
  <2> QED
    BY <2>1, Zenon
<1>3. Power(b, n) = power[n]
  BY Zenon DEF Power, IsPowers
<1> HIDE DEF power
<1>4. Powers(f, b, n) /\ Powers(power, b, n)
  BY <1>1, <1>2, PowersUnfold
<1>5. power[n] = f[n]
  BY <1>4, PowersAgree
<1> QED
  BY <1>3, <1>4, <1>5

(* What ** computes: 1, and the base times the power before.  Powers of a  *)
(* positive number never fall.                                             *)
LEMMA PowerSteps ==
    ASSUME NEW b \in Nat \ {0}, NEW n \in Nat
    PROVE  /\ Power(b, 0) = 1
           /\ Power(b, n) \in Nat \ {0}
           /\ Power(b, n + 1) = b * Power(b, n)
           /\ Power(b, n) <= Power(b, n + 1)
<1>1. \A m \in Nat : Power(b, m) \in Nat \ {0}
  <2> TAKE m \in Nat
  <2>1. PICK f \in [0 .. m -> Nat \ {0}] : Power(b, m) = f[m]
    BY PowerUnfolds
  <2> QED
    BY <2>1
<1>2. Power(b, 0) = 1
  <2>1. PICK f \in [0 .. 0 -> Nat \ {0}] : f[0] = 1 /\ Power(b, 0) = f[0]
    BY PowerUnfolds DEF Powers
  <2> QED
    BY <2>1
<1>3. Power(b, n + 1) = b * Power(b, n)
  <2>1. n + 1 \in Nat /\ n + 1 \in 1 .. n + 1 /\ (n + 1) - 1 = n
    OBVIOUS
  <2>2. PICK f \in [0 .. n -> Nat \ {0}] : Powers(f, b, n) /\ Power(b, n) = f[n]
    BY PowerUnfolds
  <2>3. PICK g \in [0 .. n + 1 -> Nat \ {0}] :
           Powers(g, b, n + 1) /\ Power(b, n + 1) = g[n + 1]
    BY <2>1, PowerUnfolds
  <2>4. Powers(g, b, n)
    BY <2>3 DEF Powers
  <2>5. g[n] = f[n]
    BY <2>2, <2>4, PowersAgree
  <2>6. g[n + 1] = b * g[(n + 1) - 1]
    BY <2>1, <2>3, Zenon DEF Powers
  <2> QED
    BY <2>1, <2>2, <2>3, <2>5, <2>6
<1>4. Power(b, n) <= b * Power(b, n)
  BY <1>1, ProductGrows
<1> QED
  BY <1>1, <1>2, <1>3, <1>4

-----------------------------------------------------------------------------
(* Totals: what is counted by class adds up to what is counted.            *)

(* The members of M of one class, numbered. *)
Class(M, g, c) == {k \in M : g[k] = c}
Numbering(M, g, c) ==
    CHOOSE b : b \in Bijection(1 .. Cardinality(Class(M, g, c)), Class(M, g, c))

(* The members of a class can be numbered from 1 on.                       *)
LEMMA ClassNumbered ==
    ASSUME NEW M, IsFiniteSet(M), NEW g, NEW c
    PROVE  /\ Cardinality(Class(M, g, c)) \in Nat
           /\ Numbering(M, g, c) \in Bijection(1 .. Cardinality(Class(M, g, c)), Class(M, g, c))
<1>1. IsFiniteSet(Class(M, g, c))
  BY FS_Subset DEF Class
<1>2. Cardinality(Class(M, g, c)) \in Nat
      /\ ExistsBijection(1 .. Cardinality(Class(M, g, c)), Class(M, g, c))
  BY <1>1, FS_CardinalityType
<1>3. \E b : b \in Bijection(1 .. Cardinality(Class(M, g, c)), Class(M, g, c))
  BY <1>2 DEF ExistsBijection
<1> QED
  BY <1>2, <1>3, Zenon DEF Numbering

(* The sizes of the classes of a finite set add up to its size.            *)
LEMMA TotalCounts ==
    ASSUME NEW M, IsFiniteSet(M), NEW g, NEW C, \A k \in M : g[k] \in C
    PROVE  Total([c \in C |-> Cardinality(Class(M, g, c))]) = Cardinality(M)
<1> DEFINE size(c) == Cardinality(Class(M, g, c))
           num(c) == Numbering(M, g, c)
           units == UNION {{c} \X (1 .. size(c)) : c \in C}
           member == [u \in units |-> num(u[1])[u[2]]]
<1>1. ASSUME NEW c \in C
      PROVE  /\ size(c) \in Nat
             /\ num(c) \in [1 .. size(c) -> Class(M, g, c)]
             /\ \A i, j \in 1 .. size(c) : num(c)[i] = num(c)[j] => i = j
             /\ \A k \in Class(M, g, c) : \E i \in 1 .. size(c) : num(c)[i] = k
  <2>1. size(c) \in Nat /\ num(c) \in Bijection(1 .. size(c), Class(M, g, c))
    BY ClassNumbered
  <2> HIDE DEF size, num
  <2> QED
    BY <2>1 DEF Bijection, Injection, Surjection, IsInjective
<1>2. ASSUME NEW u \in units
      PROVE  u[1] \in C /\ u[2] \in 1 .. size(u[1]) /\ u = <<u[1], u[2]>>
  <2> HIDE DEF size
  <2>1. PICK c \in C : u \in {c} \X (1 .. size(c))
    BY <1>2
  <2> QED
    BY <2>1
<1>3. ASSUME NEW c \in C, NEW i \in 1 .. size(c)
      PROVE  <<c, i>> \in units
  <2> HIDE DEF size
  <2> QED
    BY <1>3
<1> HIDE DEF size, num, units
<1>4. ASSUME NEW u \in units
      PROVE  member[u] \in M /\ g[member[u]] = u[1] /\ member[u] = num(u[1])[u[2]]
  <2>1. member[u] = num(u[1])[u[2]]
    OBVIOUS
  <2>2. member[u] \in Class(M, g, u[1])
    BY <1>1, <1>2, <2>1
  <2> QED
    BY <2>1, <2>2 DEF Class
<1>5. member \in Injection(units, M)
  <2>1. member \in [units -> M]
    BY <1>4
  <2>2. ASSUME NEW u \in units, NEW v \in units, member[u] = member[v]
        PROVE  u = v
    <3>1. u[1] = v[1]
      BY <1>4, <2>2
    <3>2. u[2] = v[2]
      BY <1>1, <1>2, <1>4, <2>2, <3>1
    <3> QED
      BY <1>2, <3>1, <3>2
  <2> QED
    BY <2>1, <2>2 DEF Injection, IsInjective
<1>6. member \in Surjection(units, M)
  <2>1. ASSUME NEW k \in M
        PROVE  \E u \in units : member[u] = k
    <3>1. g[k] \in C /\ k \in Class(M, g, g[k])
      BY DEF Class
    <3>2. PICK i \in 1 .. size(g[k]) : num(g[k])[i] = k
      BY <1>1, <3>1
    <3>3. <<g[k], i>> \in units
      BY <1>3, <3>1
    <3> QED
      BY <3>2, <3>3
  <2>2. member \in [units -> M]
    BY <1>4
  <2> QED
    BY <2>1, <2>2 DEF Surjection
<1> HIDE DEF member
<1>7. IsFiniteSet(units) /\ Cardinality(units) = Cardinality(M)
  <2>1. IsFiniteSet(units)
    BY <1>5, FS_Injection
  <2> QED
    BY <1>5, <1>6, FS_Injection
<1>8. Total([c \in C |-> size(c)]) = Cardinality(units)
  <2> DEFINE f == [c \in C |-> size(c)]
  <2>1. DOMAIN f = C /\ \A c \in C : f[c] = size(c)
    OBVIOUS
  <2> HIDE DEF f
  <2>2. UNION {{c} \X (1 .. f[c]) : c \in DOMAIN f} = units
    BY <2>1 DEF units
  <2> QED
    BY <2>2 DEF Total, f
<1> QED
  BY <1>7, <1>8 DEF size

(* A function with one value adds up to a product.                         *)
LEMMA TotalOfEqual ==
    ASSUME NEW S, IsFiniteSet(S), NEW n \in Nat
    PROVE  Total([x \in S |-> n]) = Cardinality(S) * n
<1> DEFINE f == [x \in S |-> n]
<1>1. DOMAIN f = S /\ \A x \in S : f[x] = n
  OBVIOUS
<1> HIDE DEF f
<1>2. UNION {{x} \X (1 .. f[x]) : x \in DOMAIN f} = S \X (1 .. n)
  BY <1>1
<1>3. IsFiniteSet(1 .. n) /\ Cardinality(1 .. n) = n
  BY FS_Interval
<1>4. Cardinality(S \X (1 .. n)) = Cardinality(S) * n
  BY <1>3, FS_Product
<1>5. Total(f) = Cardinality(S) * n
  BY <1>2, <1>4 DEF Total
<1> QED
  BY <1>5 DEF f

(* A set that f maps onto another, one to one, has as many members.        *)
LEMMA SameCount ==
    ASSUME NEW S, IsFiniteSet(S), NEW T, NEW f,
           \A x \in S : f[x] \in T,
           \A x, y \in S : f[x] = f[y] => x = y,
           \A y \in T : \E x \in S : f[x] = y
    PROVE  IsFiniteSet(T) /\ Cardinality(T) = Cardinality(S)
<1> DEFINE g == [x \in S |-> f[x]]
<1>1. g \in Injection(S, T)
  BY DEF Injection, IsInjective
<1>2. g \in Surjection(S, T)
  BY DEF Surjection
<1> HIDE DEF g
<1> QED
  BY <1>1, <1>2, FS_Surjection, Zenon

(* The image of a finite set has no more members than the set.             *)
LEMMA ImageSmaller ==
    ASSUME NEW S, IsFiniteSet(S), NEW f
    PROVE  LET T == {f[x] : x \in S}
           IN  IsFiniteSet(T) /\ Cardinality(T) \in Nat /\ Cardinality(T) <= Cardinality(S)
<1> DEFINE T == {f[x] : x \in S}
           g == [x \in S |-> f[x]]
<1>1. g \in Surjection(S, T)
  BY DEF Surjection
<1> HIDE DEF g, T
<1>2. IsFiniteSet(T) /\ Cardinality(T) <= Cardinality(S)
  BY <1>1, FS_Surjection
<1>3. Cardinality(T) \in Nat
  BY <1>2, FS_CardinalityType
<1> QED
  BY <1>2, <1>3 DEF T

-----------------------------------------------------------------------------
(* What a comprehension over a list keeps.                                 *)

Keeps(f, s, places) ==
    f = [n \in 0 .. Len(s) |->
            IF n = 0 THEN << >>
            ELSE IF n \in places THEN Append(f[n - 1], s[n]) ELSE f[n - 1]]

(* A comprehension is what its loop ends with.                             *)
LEMMA SelectedIs ==
    ASSUME NEW X, NEW s \in Seq(X), NEW places, NEW f, Keeps(f, s, places)
    PROVE  Selected(s, places) = f[Len(s)]
<1> DEFINE kept == CHOOSE g : Keeps(g, s, places)
           T == {n \in Nat : n <= Len(s) => kept[n] = f[n]}
<1>1. Len(s) \in Nat
  OBVIOUS
<1>2. Keeps(kept, s, places)
  BY Zenon
<1>3. Selected(s, places) = kept[Len(s)]
  BY Zenon DEF Selected, Keeps
<1> HIDE DEF kept
<1>4. \A n \in 0 .. Len(s) :
         /\ kept[n] = IF n = 0 THEN << >>
                      ELSE IF n \in places THEN Append(kept[n - 1], s[n]) ELSE kept[n - 1]
         /\ f[n] = IF n = 0 THEN << >>
                   ELSE IF n \in places THEN Append(f[n - 1], s[n]) ELSE f[n - 1]
  BY <1>2 DEF Keeps
<1>5. 0 \in T
  <2>1. 0 \in 0 .. Len(s)
    BY <1>1
  <2> QED
    BY <1>4, <2>1
<1>6. ASSUME NEW n \in T
      PROVE  n + 1 \in T
  <2>1. n \in Nat /\ (n + 1) - 1 = n /\ n + 1 # 0 /\ n + 1 \in Nat
    OBVIOUS
  <2>2. ASSUME n + 1 <= Len(s)
        PROVE  kept[n + 1] = f[n + 1]
    <3>1. n + 1 \in 0 .. Len(s) /\ n <= Len(s)
      BY <1>1, <2>1, <2>2
    <3>2. kept[n] = f[n]
      BY <1>6, <3>1
    <3> QED
      BY <1>4, <2>1, <3>1, <3>2
  <2> QED
    BY <2>1, <2>2
<1>7. T = Nat
  <2>1. T \subseteq Nat
    OBVIOUS
  <2> HIDE DEF T
  <2> QED
    BY <1>5, <1>6, <2>1, NatSetInduction
<1> QED
  BY <1>1, <1>3, <1>7

(* m of the L places that e numbers are at most n.                         *)
UpTo(e, L, n, m) == m \in 0 .. L /\ \A k \in 1 .. L : k <= m <=> e[k] <= n

(* The next number is the next place that e numbers, or it is none.        *)
LEMMA UpToSteps ==
    ASSUME NEW L \in Nat, NEW e \in [1 .. L -> Nat \ {0}],
           \A j, k \in 1 .. L : j < k => e[j] < e[k],
           NEW n \in Nat, NEW m, UpTo(e, L, n, m)
    PROVE  /\ n + 1 \in {e[k] : k \in 1 .. L} =>
                 m + 1 \in 1 .. L /\ e[m + 1] = n + 1 /\ UpTo(e, L, n + 1, m + 1)
           /\ n + 1 \notin {e[k] : k \in 1 .. L} => UpTo(e, L, n + 1, m)
<1>1. m \in Nat /\ m <= L /\ \A k \in 1 .. L : k <= m <=> e[k] <= n
  BY DEF UpTo
<1>2. \A k \in 1 .. L : e[k] \in Nat /\ k \in Nat
  OBVIOUS
<1>3. ASSUME NEW j \in 1 .. L, e[j] = n + 1
      PROVE  m + 1 \in 1 .. L /\ e[m + 1] = n + 1 /\ UpTo(e, L, n + 1, m + 1)
  <2>1. ~(j <= m)
    BY <1>1, <1>3
  <2>2. m + 1 \in 1 .. L /\ ~(m + 1 <= m)
    BY <1>1, <1>2, <2>1
  <2>3. ~(e[m + 1] <= n)
    BY <1>1, <2>2
  <2>4. j = m + 1
    <3> SUFFICES ASSUME m + 1 < j PROVE FALSE
      BY <1>1, <1>2, <2>1
    <3>1. e[m + 1] < n + 1
      BY <1>3, <2>2
    <3> QED
      BY <1>2, <2>2, <2>3, <3>1
  <2>5. ASSUME NEW k \in 1 .. L
        PROVE  k <= m + 1 <=> e[k] <= n + 1
    <3>1. CASE k <= m
      BY <1>1, <1>2, <3>1
    <3>2. CASE k = m + 1
      BY <1>1, <1>3, <2>4, <3>2
    <3>3. CASE k > m + 1
      <4>1. e[m + 1] < e[k]
        BY <2>2, <3>3
      <4> QED
        BY <1>1, <1>2, <1>3, <2>4, <3>3, <4>1
    <3> QED
      BY <1>1, <1>2, <3>1, <3>2, <3>3
  <2> QED
    BY <1>1, <1>3, <2>2, <2>4, <2>5 DEF UpTo
<1>4. ASSUME n + 1 \notin {e[k] : k \in 1 .. L}
      PROVE  UpTo(e, L, n + 1, m)
  <2>1. \A k \in 1 .. L : e[k] # n + 1
    BY <1>4
  <2>2. \A k \in 1 .. L : e[k] <= n <=> e[k] <= n + 1
    BY <1>2, <2>1
  <2> QED
    BY <1>1, <2>2 DEF UpTo
<1> QED
  BY <1>3, <1>4

(* e numbers places of a list of n elements, L of them, in their order.    *)
Rises(e, L, n) ==
    e \in [1 .. L -> 1 .. n] /\ \A j, k \in 1 .. L : j < k => e[j] < e[k]

Numbers(e, L) == {e[k] : k \in 1 .. L}

InOrder(s, e, L) == [k \in 1 .. L |-> s[e[k]]]

(* What is kept of a list, when the places kept are numbered in order.     *)
LEMMA SelectedEnumerated ==
    ASSUME NEW X, NEW s \in Seq(X), NEW L \in Nat, NEW e, Rises(e, L, Len(s))
    PROVE  Selected(s, Numbers(e, L)) = InOrder(s, e, L)
<1>0. e \in [1 .. L -> 1 .. Len(s)] /\ \A j, k \in 1 .. L : j < k => e[j] < e[k]
  BY DEF Rises
<1> DEFINE P == {e[k] : k \in 1 .. L}
           l == Len(s)
           T == {n \in Nat : \E m : UpTo(e, L, n, m)}
           upto(n) == CHOOSE m : UpTo(e, L, n, m)
           first(m) == [k \in 1 .. m |-> s[e[k]]]
           f == [n \in 0 .. l |-> first(upto(n))]
<1>1. l \in Nat /\ e \in [1 .. L -> Nat \ {0}] /\ \A k \in 1 .. L : e[k] \in 1 .. l /\ s[e[k]] \in X
  BY <1>0
<1>2. UpTo(e, L, 0, 0)
  BY <1>1 DEF UpTo
<1> HIDE DEF l
<1>3. ASSUME NEW n \in Nat, NEW m, UpTo(e, L, n, m)
      PROVE  /\ n + 1 \in P => m + 1 \in 1 .. L /\ e[m + 1] = n + 1 /\ UpTo(e, L, n + 1, m + 1)
             /\ n + 1 \notin P => UpTo(e, L, n + 1, m)
  BY <1>0, <1>1, <1>3, UpToSteps
<1> HIDE DEF P
<1>4. T = Nat
  <2>1. 0 \in T
    BY <1>2
  <2>2. ASSUME NEW n \in T
        PROVE  n + 1 \in T
    BY <1>3
  <2>3. T \subseteq Nat
    OBVIOUS
  <2> HIDE DEF T
  <2> QED
    BY <2>1, <2>2, <2>3, NatSetInduction
<1>5. \A n \in Nat : UpTo(e, L, n, upto(n))
  <2>1. \A n \in Nat : \E m : UpTo(e, L, n, m)
    BY <1>4
  <2> QED
    BY <2>1, Zenon
<1>6. ASSUME NEW n \in Nat, NEW a, NEW b, UpTo(e, L, n, a), UpTo(e, L, n, b)
      PROVE  a = b
  <2>1. a \in Nat /\ b \in Nat /\ a <= L /\ b <= L
    BY <1>6 DEF UpTo
  <2>2. ~(a < b)
    <3> SUFFICES ASSUME a < b PROVE FALSE
      OBVIOUS
    <3>1. a + 1 \in 1 .. L /\ a + 1 <= b /\ ~(a + 1 <= a)
      BY <2>1
    <3> QED
      BY <1>6, <3>1 DEF UpTo
  <2>3. ~(b < a)
    <3> SUFFICES ASSUME b < a PROVE FALSE
      OBVIOUS
    <3>1. b + 1 \in 1 .. L /\ b + 1 <= a /\ ~(b + 1 <= b)
      BY <2>1
    <3> QED
      BY <1>6, <3>1 DEF UpTo
  <2> QED
    BY <2>1, <2>2, <2>3
<1> HIDE DEF upto
<1>7. upto(0) = 0 /\ upto(l) = L
  <2>1. UpTo(e, L, l, L)
    BY <1>1 DEF UpTo
  <2> QED
    BY <1>1, <1>2, <1>5, <1>6, <2>1
<1>8. ASSUME NEW n \in Nat, n + 1 <= l
      PROVE  first(upto(n + 1)) = IF n + 1 \in P THEN Append(first(upto(n)), s[n + 1])
                                  ELSE first(upto(n))
  <2> DEFINE m == upto(n)
  <2>1. UpTo(e, L, n, m) /\ UpTo(e, L, n + 1, upto(n + 1)) /\ n + 1 \in Nat
    BY <1>5
  <2>2. CASE n + 1 \in P
    <3>1. m + 1 \in 1 .. L /\ e[m + 1] = n + 1 /\ UpTo(e, L, n + 1, m + 1)
      BY <1>3, <2>1, <2>2
    <3>2. upto(n + 1) = m + 1
      BY <1>6, <2>1, <3>1
    <3>3. m \in Nat /\ m <= L
      BY <2>1 DEF UpTo
    <3> HIDE DEF m
    <3>4. first(m + 1) = Append(first(m), s[n + 1])
      <4>1. first(m) \in Seq(X) /\ Len(first(m)) = m
        BY <1>1, <3>3
      <4>2. first(m + 1) \in Seq(X) /\ Len(first(m + 1)) = m + 1
        BY <1>1, <3>1, <3>3
      <4>3. \A k \in 1 .. m : first(m + 1)[k] = first(m)[k]
        BY <3>3
      <4>4. first(m + 1)[m + 1] = s[n + 1]
        BY <3>1, <3>3
      <4> HIDE DEF first
      <4> QED
        BY <3>3, <4>1, <4>2, <4>3, <4>4
    <3> HIDE DEF first
    <3> QED
      BY <2>2, <3>2, <3>4 DEF m
  <2>3. CASE n + 1 \notin P
    <3>1. upto(n + 1) = m
      BY <1>3, <1>6, <2>1, <2>3
    <3> QED
      BY <2>3, <3>1
  <2> QED
    BY <2>2, <2>3
<1>9. first(upto(0)) = << >>
  BY <1>7
<1> HIDE DEF first
<1>10. Keeps(f, s, P)
  <2>1. ASSUME NEW n \in 0 .. l
        PROVE  f[n] = IF n = 0 THEN << >>
                      ELSE IF n \in P THEN Append(f[n - 1], s[n]) ELSE f[n - 1]
    <3>1. CASE n = 0
      BY <1>9, <3>1
    <3>2. CASE n # 0
      <4> DEFINE k == n - 1
      <4>1. k \in Nat /\ k + 1 = n /\ k + 1 <= l /\ k \in 0 .. l
        BY <1>1, <3>2
      <4> HIDE DEF k
      <4>2. first(upto(n)) = IF n \in P THEN Append(first(upto(k)), s[n]) ELSE first(upto(k))
        BY <1>8, <4>1
      <4>3. f[n] = first(upto(n)) /\ f[k] = first(upto(k))
        BY <4>1
      <4> HIDE DEF f
      <4> QED
        BY <3>2, <4>2, <4>3 DEF k
    <3> QED
      BY <3>1, <3>2
  <2>2. f = [n \in 0 .. l |-> f[n]]
    OBVIOUS
  <2> HIDE DEF f
  <2>3. f = [n \in 0 .. l |-> IF n = 0 THEN << >>
                              ELSE IF n \in P THEN Append(f[n - 1], s[n]) ELSE f[n - 1]]
    BY <2>1, <2>2
  <2> QED
    BY <2>3 DEF Keeps, l
<1>11. f[l] = first(L)
  BY <1>1, <1>7
<1> HIDE DEF f
<1>12. Selected(s, P) = f[l]
  BY <1>10, SelectedIs DEF l
<1> QED
  BY <1>11, <1>12 DEF P, first, Numbers, InOrder

-----------------------------------------------------------------------------
(* Division.                                                               *)

(* Quotient and remainder, as the provers need to be told.                 *)
LEMMA Divided ==
    ASSUME NEW n \in Nat, NEW p \in Nat \ {0}
    PROVE  n \div p \in Nat /\ n % p \in 0 .. p - 1 /\ n = p * (n \div p) + (n % p)
OBVIOUS

(* There is one quotient.                                                  *)
LEMMA QuotientUnique ==
    ASSUME NEW n \in Nat, NEW p \in Nat \ {0}, NEW q \in Nat, NEW r \in 0 .. p - 1,
           n = p * q + r
    PROVE  n \div p = q
<1> DEFINE d == n \div p
           m == n % p
<1>1. d \in Nat /\ m \in 0 .. p - 1 /\ n = p * d + m
  BY Divided
<1> HIDE DEF d, m
<1>2. p * d \in Int /\ p * q \in Int
  BY <1>1
<1>3. ~(d < q)
  <2> SUFFICES ASSUME d < q PROVE FALSE
    OBVIOUS
  <2>1. p * (q - d) >= p
    BY <1>1
  <2>2. p * (q - d) = p * q - p * d
    BY <1>1
  <2> QED
    BY <1>1, <1>2, <2>1, <2>2
<1>4. ~(q < d)
  <2> SUFFICES ASSUME q < d PROVE FALSE
    OBVIOUS
  <2>1. p * (d - q) >= p
    BY <1>1
  <2>2. p * (d - q) = p * d - p * q
    BY <1>1
  <2> QED
    BY <1>1, <1>2, <2>1, <2>2
<1> QED
  BY <1>1, <1>3, <1>4 DEF d

(* Dividing by p and then by ten is dividing by ten times p.               *)
LEMMA DividedByTen ==
    ASSUME NEW n \in Nat, NEW p \in Nat \ {0}
    PROVE  n \div (10 * p) = (n \div p) \div 10
<1> DEFINE a == n \div p
           m == n % p
<1>1. a \in Nat /\ m \in 0 .. p - 1 /\ n = p * a + m
  BY Divided
<1> HIDE DEF a, m
<1> DEFINE b == a \div 10
           c == a % 10
<1>2. b \in Nat /\ c \in 0 .. 9 /\ a = 10 * b + c
  BY <1>1
<1> HIDE DEF b, c
<1>3. p * a = 10 * p * b + p * c
  <2>1. p * (10 * b + c) = p * (10 * b) + p * c
    BY <1>2
  <2>2. p * (10 * b) = 10 * p * b
    BY <1>2
  <2> QED
    BY <1>2, <2>1, <2>2
<1>4. p * c \in Int /\ 0 <= p * c /\ p * c <= p * 9
  BY <1>2
<1> DEFINE r == p * c + m
           w == 10 * p
<1>5. r \in 0 .. w - 1
  BY <1>1, <1>4
<1>6. n = w * b + r
  <2>1. p * a \in Int /\ 10 * p * b \in Int
    BY <1>1, <1>2
  <2> QED
    BY <1>1, <1>3, <1>4, <2>1
<1>7. w \in Nat \ {0}
  OBVIOUS
<1> HIDE DEF r, w
<1>8. n \div w = b
  BY <1>2, <1>5, <1>6, <1>7, QuotientUnique
<1> QED
  BY <1>8 DEF b, a, w

(* Division keeps the order.                                               *)
LEMMA DivisionGrows ==
    ASSUME NEW a \in Nat, NEW b \in Nat, a <= b, NEW p \in Nat \ {0}
    PROVE  a \div p <= b \div p
<1> DEFINE q == a \div p
           r == a % p
           t == b \div p
           u == b % p
<1>1. /\ q \in Nat /\ r \in 0 .. p - 1 /\ a = p * q + r
      /\ t \in Nat /\ u \in 0 .. p - 1 /\ b = p * t + u
  BY Divided
<1> HIDE DEF q, r, t, u
<1>2. ~(t < q)
  <2> SUFFICES ASSUME t < q PROVE FALSE
    OBVIOUS
  <2>1. p * (q - t) >= p
    BY <1>1
  <2>2. p * (q - t) = p * q - p * t /\ p * q \in Int /\ p * t \in Int
    BY <1>1
  <2> QED
    BY <1>1, <2>1, <2>2
<1> QED
  BY <1>1, <1>2 DEF q, t


-----------------------------------------------------------------------------
(* A loop over a list: what it has after each element.                     *)

(* f[n] is what the loop has after n of its l turns, as long as that is in *)
(* A: it starts with init, and step says what turn n makes of it.          *)
Steps(f, init, step, A, l) ==
    /\ f[0] = init
    /\ \A n \in 1 .. l : f[n - 1] \in A => f[n] = step[<<n, f[n - 1]>>]

(* step knows what each of the l turns makes of anything in A.             *)
TurnsOf(step, A, l) == step \in [(1 .. l) \X A -> A]

(* Whatever a turn makes of what it finds, the loop has a history.         *)
LEMMA StepsExist ==
    ASSUME NEW A, NEW init \in A, NEW l \in Nat, NEW step, TurnsOf(step, A, l)
    PROVE  \E f \in [0 .. l -> A] : Steps(f, init, step, A, l)
<1> DEFINE Right(m) == \E f \in [0 .. m -> A] : Steps(f, init, step, A, m)
           T == {m \in Nat : m <= l => Right(m)}
<1>1. 0 \in T
  <2> DEFINE f == [n \in 0 .. 0 |-> init]
  <2>1. f \in [0 .. 0 -> A] /\ Steps(f, init, step, A, 0)
    BY DEF Steps
  <2> QED
    BY <2>1
<1>2. ASSUME NEW m \in T
      PROVE  m + 1 \in T
  <2> SUFFICES ASSUME m + 1 <= l PROVE Right(m + 1)
    OBVIOUS
  <2>1. m \in Nat /\ m <= l /\ m + 1 \in 1 .. l /\ (m + 1) - 1 = m
    OBVIOUS
  <2>2. PICK f \in [0 .. m -> A] : Steps(f, init, step, A, m)
    BY <2>1
  <2> DEFINE x == step[<<m + 1, f[m]>>]
             g == [n \in 0 .. m + 1 |-> IF n = m + 1 THEN x ELSE f[n]]
  <2>3. x \in A
    <3>1. f[m] \in A
      BY <2>1
    <3>2. <<m + 1, f[m]>> \in (1 .. l) \X A
      BY <2>1, <3>1
    <3> QED
      BY <3>2 DEF TurnsOf
  <2> HIDE DEF x
  <2>4. g \in [0 .. m + 1 -> A]
    BY <2>1, <2>3
  <2>5. g[m + 1] = x /\ \A n \in 0 .. m : g[n] = f[n]
    BY <2>1
  <2> HIDE DEF g
  <2>6. g[0] = init
    BY <2>1, <2>2, <2>5 DEF Steps
  <2>7. ASSUME NEW n \in 1 .. m + 1, g[n - 1] \in A
        PROVE  g[n] = step[<<n, g[n - 1]>>]
    <3>1. n - 1 \in 0 .. m /\ g[n - 1] = f[n - 1]
      BY <2>1, <2>5
    <3>2. CASE n = m + 1
      BY <2>1, <2>5, <3>1, <3>2 DEF x
    <3>3. CASE n # m + 1
      <4>1. n \in 1 .. m /\ n \in 0 .. m
        BY <2>1, <3>3
      <4>2. f[n] = step[<<n, f[n - 1]>>]
        BY <2>2, <2>7, <3>1, <4>1 DEF Steps
      <4> QED
        BY <2>5, <3>1, <4>1, <4>2
    <3> QED
      BY <3>2, <3>3
  <2> QED
    BY <2>4, <2>6, <2>7 DEF Steps
<1>3. T = Nat
  <2>1. T \subseteq Nat
    OBVIOUS
  <2> HIDE DEF T
  <2> QED
    BY <1>1, <1>2, <2>1, NatSetInduction
<1> QED
  BY <1>3

(* There is one way to do it, and it stays in A.                           *)
LEMMA StepsUnique ==
    ASSUME NEW A, NEW init \in A, NEW l \in Nat, NEW step, TurnsOf(step, A, l),
           NEW f, Steps(f, init, step, A, l), NEW g, Steps(g, init, step, A, l)
    PROVE  \A n \in 0 .. l : f[n] \in A /\ f[n] = g[n]
<1> DEFINE T == {n \in Nat : n <= l => f[n] \in A /\ f[n] = g[n]}
<1>1. 0 \in T
  BY DEF Steps
<1>2. ASSUME NEW m \in T
      PROVE  m + 1 \in T
  <2> SUFFICES ASSUME m + 1 <= l PROVE f[m + 1] \in A /\ f[m + 1] = g[m + 1]
    OBVIOUS
  <2>1. m \in Nat /\ m <= l /\ m + 1 \in 1 .. l /\ (m + 1) - 1 = m
    OBVIOUS
  <2>2. f[m] \in A /\ f[m] = g[m]
    BY <1>2, <2>1
  <2>3. f[m + 1] = step[<<m + 1, f[m]>>] /\ g[m + 1] = step[<<m + 1, g[m]>>]
    BY <2>1, <2>2 DEF Steps
  <2>4. <<m + 1, f[m]>> \in (1 .. l) \X A
    BY <2>1, <2>2
  <2> QED
    BY <2>2, <2>3, <2>4 DEF TurnsOf
<1>3. T = Nat
  <2>1. T \subseteq Nat
    OBVIOUS
  <2> HIDE DEF T
  <2> QED
    BY <1>1, <1>2, <2>1, NatSetInduction
<1> QED
  BY <1>3

(* What a list of places keeps of a list, when they are an interval, or    *)
(* two of them.                                                            *)
KeepsPlaces(s, n, places) ==
    /\ \A a \in 1 .. n + 1 : \A b \in a - 1 .. n :
          places = a .. b => Selected(s, places) = [i \in 1 .. b - a + 1 |-> a + i - 1]
    /\ \A j, k \in 1 .. n :
          j < k /\ places = {j, k} => Selected(s, places) = <<j, k>>

LEMMA PlacesKept ==
    ASSUME NEW n \in Nat, NEW places, NEW s, s = [k \in 1 .. n |-> k]
    PROVE  KeepsPlaces(s, n, places)
<1>1. s \in Seq(Nat) /\ Len(s) = n /\ \A k \in 1 .. n : s[k] = k
  OBVIOUS
<1>2. ASSUME NEW a \in 1 .. n + 1, NEW b \in a - 1 .. n, places = a .. b
      PROVE  Selected(s, places) = [i \in 1 .. b - a + 1 |-> a + i - 1]
  <2> DEFINE L == b - a + 1
             e == [i \in 1 .. L |-> a + i - 1]
  <2>1. L \in Nat /\ Rises(e, L, n) /\ \A i \in 1 .. L : e[i] \in 1 .. n
    BY DEF Rises
  <2>2. Numbers(e, L) = places
    <3>1. \A p \in a .. b : (p - a + 1) \in 1 .. L /\ e[p - a + 1] = p
      OBVIOUS
    <3>2. \A i \in 1 .. L : e[i] \in a .. b
      OBVIOUS
    <3> HIDE DEF e, L
    <3> QED
      BY <1>2, <3>1, <3>2 DEF Numbers
  <2> HIDE DEF L
  <2>3. Selected(s, places) = InOrder(s, e, L)
    <3> HIDE DEF e
    <3> QED
      BY <1>1, <2>1, <2>2, SelectedEnumerated
  <2>4. InOrder(s, e, L) = e
    BY <1>1, <2>1 DEF InOrder
  <2> QED
    BY <2>3, <2>4 DEF L
<1>3. ASSUME NEW j \in 1 .. n, NEW k \in 1 .. n, j < k, places = {j, k}
      PROVE  Selected(s, places) = <<j, k>>
  <2> DEFINE e == <<j, k>>
  <2>1. Rises(e, 2, n) /\ \A i \in 1 .. 2 : e[i] \in 1 .. n
    BY <1>3 DEF Rises
  <2>2. Numbers(e, 2) = places
    <3>1. 1 .. 2 = {1, 2} /\ e[1] = j /\ e[2] = k
      OBVIOUS
    <3> HIDE DEF e
    <3> QED
      BY <1>3, <3>1 DEF Numbers
  <2>3. Selected(s, places) = InOrder(s, e, 2)
    <3> HIDE DEF e
    <3> QED
      BY <1>1, <2>1, <2>2, SelectedEnumerated
  <2>4. InOrder(s, e, 2) = e
    BY <1>1, <2>1 DEF InOrder
  <2> QED
    BY <2>3, <2>4
<1> QED
  BY <1>2, <1>3 DEF KeepsPlaces

-----------------------------------------------------------------------------
(* Joined lists.                                                           *)

Joins(f, s) ==
    f = [n \in 0 .. Len(s) |-> IF n = 0 THEN << >> ELSE f[n - 1] \o s[n]]

(* The turn of that loop, for the first l lists of s. *)
Joining(s, A, l) == [p \in (1 .. l) \X A |-> p[2] \o s[p[1]]]

(* Each turn adds one list.                                                *)
LEMMA JoiningTurns ==
    ASSUME NEW X, NEW s \in Seq(Seq(X)), NEW l \in 0 .. Len(s)
    PROVE  /\ TurnsOf(Joining(s, Seq(X), l), Seq(X), l)
           /\ \A n \in 1 .. l : \A y \in Seq(X) : Joining(s, Seq(X), l)[<<n, y>>] = y \o s[n]
<1> DEFINE A == Seq(X)
<1>1. \A n \in 1 .. l : s[n] \in A
  OBVIOUS
<1>2. \A x \in A : \A y \in A : y \o x \in A
  OBVIOUS
<1> HIDE DEF A
<1>3. ASSUME NEW p \in (1 .. l) \X A
      PROVE  p[2] \o s[p[1]] \in A
  <2>1. p[1] \in 1 .. l /\ p[2] \in A
    OBVIOUS
  <2> QED
    BY <1>1, <1>2, <2>1
<1>4. Joining(s, A, l) \in [(1 .. l) \X A -> A]
  BY <1>3 DEF Joining
<1>5. ASSUME NEW n \in 1 .. l, NEW y \in A
      PROVE  Joining(s, A, l)[<<n, y>>] = y \o s[n]
  <2>1. <<n, y>> \in (1 .. l) \X A /\ <<n, y>>[1] = n /\ <<n, y>>[2] = y
    OBVIOUS
  <2> QED
    BY <2>1 DEF Joining
<1> QED
  BY <1>4, <1>5 DEF A, TurnsOf

(* Joined is the loop that adds each list to those before.                 *)
LEMMA JoinedIs ==
    ASSUME NEW X, NEW s \in Seq(Seq(X))
    PROVE  \E f : /\ Steps(f, << >>, Joining(s, Seq(X), Len(s)), Seq(X), Len(s))
                  /\ Joined(s) = f[Len(s)]
<1> DEFINE l == Len(s)
           A == Seq(X)
           step == Joining(s, A, l)
           joined == CHOOSE f : Joins(f, s)
<1>1. l \in Nat /\ << >> \in A /\ l \in 0 .. Len(s)
  OBVIOUS
<1>2. TurnsOf(step, A, l) /\ \A n \in 1 .. l : \A x \in A : step[<<n, x>>] = x \o s[n]
  BY <1>1, JoiningTurns
<1> HIDE DEF l, A, step
<1>3. PICK f \in [0 .. l -> A] : Steps(f, << >>, step, A, l)
  BY <1>1, <1>2, StepsExist
<1>4. Joins(f, s)
  <2>1. ASSUME NEW n \in 0 .. l
        PROVE  f[n] = IF n = 0 THEN << >> ELSE f[n - 1] \o s[n]
    <3>1. CASE n = 0
      BY <1>3, <3>1 DEF Steps
    <3>2. CASE n # 0
      <4>1. n \in 1 .. l /\ n - 1 \in 0 .. l
        BY <1>1, <3>2
      <4>2. f[n - 1] \in A
        BY <4>1
      <4> QED
        BY <1>2, <1>3, <3>2, <4>1, <4>2 DEF Steps
    <3> QED
      BY <3>1, <3>2
  <2>2. f = [n \in 0 .. l |-> f[n]]
    OBVIOUS
  <2>3. f = [n \in 0 .. l |-> IF n = 0 THEN << >> ELSE f[n - 1] \o s[n]]
    BY <2>1, <2>2
  <2> QED
    BY <2>3 DEF Joins, l
<1>5. Joins(joined, s)
  BY <1>4, Zenon
<1>6. Joined(s) = joined[l]
  BY Zenon DEF Joined, Joins, l
<1> HIDE DEF joined
<1>7. Steps(joined, << >>, step, A, l)
  <2>1. \A n \in 0 .. l : joined[n] = IF n = 0 THEN << >> ELSE joined[n - 1] \o s[n]
    BY <1>5 DEF Joins, l
  <2>2. joined[0] = << >>
    BY <1>1, <2>1
  <2>3. ASSUME NEW n \in 1 .. l, joined[n - 1] \in A
        PROVE  joined[n] = step[<<n, joined[n - 1]>>]
    <3>1. n \in 0 .. l /\ n # 0
      BY <1>1
    <3> QED
      BY <1>2, <2>1, <2>3, <3>1
  <2> QED
    BY <2>2, <2>3 DEF Steps
<1> QED
  BY <1>6, <1>7 DEF step, A, l

(* A list more at the end of the lists that are joined.                    *)
LEMMA JoinedAppend ==
    ASSUME NEW X, NEW s \in Seq(Seq(X)), NEW x \in Seq(X)
    PROVE  /\ Joined(s) \in Seq(X)
           /\ Joined(Append(s, x)) = Joined(s) \o x
<1> DEFINE t == Append(s, x)
           l == Len(s)
           A == Seq(X)
           stepS == Joining(s, A, l)
           stepT == Joining(t, A, l + 1)
<1>1. l \in Nat /\ t \in Seq(Seq(X)) /\ Len(t) = l + 1 /\ << >> \in A /\ t[l + 1] = x
      /\ \A n \in 1 .. l : t[n] = s[n]
  OBVIOUS
<1>2. PICK f : Steps(f, << >>, stepS, A, l) /\ Joined(s) = f[l]
  <2>1. \E h : /\ Steps(h, << >>, Joining(s, Seq(X), Len(s)), Seq(X), Len(s))
               /\ Joined(s) = h[Len(s)]
    BY JoinedIs
  <2> QED
    BY <2>1
<1> HIDE DEF t
<1>3. PICK g : Steps(g, << >>, stepT, A, l + 1) /\ Joined(t) = g[l + 1]
  <2>1. \E h : /\ Steps(h, << >>, Joining(t, Seq(X), Len(t)), Seq(X), Len(t))
               /\ Joined(t) = h[Len(t)]
    BY <1>1, JoinedIs
  <2> QED
    BY <1>1, <2>1
<1>4. /\ TurnsOf(stepS, A, l)
      /\ \A n \in 1 .. l : \A y \in A : stepS[<<n, y>>] = y \o s[n]
      /\ \A n \in 1 .. l + 1 : \A y \in A : stepT[<<n, y>>] = y \o t[n]
  <2>1. l \in 0 .. Len(s) /\ l + 1 \in 0 .. Len(t)
    BY <1>1
  <2> HIDE DEF l
  <2>2. /\ TurnsOf(Joining(s, Seq(X), l), Seq(X), l)
        /\ \A n \in 1 .. l : \A y \in Seq(X) : Joining(s, Seq(X), l)[<<n, y>>] = y \o s[n]
    BY <2>1, JoiningTurns
  <2> DEFINE m == l + 1
  <2>3. m \in 0 .. Len(t) /\ t \in Seq(Seq(X))
    BY <1>1, <2>1
  <2> HIDE DEF m
  <2>4. /\ TurnsOf(Joining(t, Seq(X), m), Seq(X), m)
        /\ \A n \in 1 .. m : \A y \in Seq(X) : Joining(t, Seq(X), m)[<<n, y>>] = y \o t[n]
    BY <2>3, JoiningTurns
  <2> QED
    BY <2>2, <2>4 DEF m
<1> HIDE DEF stepS, stepT, A, l
<1>5. Steps(g, << >>, stepS, A, l)
  <2>1. ASSUME NEW n \in 1 .. l, g[n - 1] \in A
        PROVE  g[n] = stepS[<<n, g[n - 1]>>]
    <3>1. n \in 1 .. l + 1 /\ t[n] = s[n]
      BY <1>1
    <3>2. g[n] = stepT[<<n, g[n - 1]>>]
      BY <1>3, <2>1, <3>1 DEF Steps
    <3> QED
      BY <1>4, <2>1, <3>1, <3>2
  <2>2. g[0] = << >>
    BY <1>3 DEF Steps
  <2> QED
    BY <2>1, <2>2 DEF Steps
<1>6. \A n \in 0 .. l : f[n] \in A /\ f[n] = g[n]
  <2> DEFINE none == << >>
  <2>1. /\ none \in A /\ l \in Nat /\ TurnsOf(stepS, A, l)
        /\ Steps(f, none, stepS, A, l) /\ Steps(g, none, stepS, A, l)
    BY <1>1, <1>2, <1>4, <1>5
  <2> HIDE DEF none
  <2> QED
    BY <2>1, StepsUnique
<1>7. f[l] \in A /\ g[l] = f[l]
  BY <1>1, <1>6
<1>8. g[l + 1] = g[l] \o x
  <2>1. l + 1 \in 1 .. l + 1 /\ (l + 1) - 1 = l
    BY <1>1
  <2> QED
    BY <1>1, <1>3, <1>4, <1>7, <2>1 DEF Steps
<1> QED
  BY <1>2, <1>3, <1>7, <1>8 DEF t, A

(* No lists join to the empty list.                                        *)
LEMMA JoinedNone == Joined(<< >>) = << >>
<1> DEFINE s == << >>
<1>1. s \in Seq(Seq({})) /\ Len(s) = 0
  OBVIOUS
<1> HIDE DEF s
<1>2. PICK f : /\ Steps(f, << >>, Joining(s, Seq({}), Len(s)), Seq({}), Len(s))
              /\ Joined(s) = f[Len(s)]
  BY <1>1, JoinedIs
<1> QED
  BY <1>1, <1>2 DEF Steps, s

(* Lists of one element each are joined to the list of those elements.     *)
LEMMA JoinedSingles ==
    ASSUME NEW X, NEW s \in Seq(X), NEW t, t = [k \in DOMAIN s |-> <<s[k]>>]
    PROVE  Joined(t) = s
<1> DEFINE l == Len(s)
           A == Seq(X)
           first(n) == [k \in 1 .. n |-> s[k]]
           step == Joining(t, A, l)
<1>1. /\ l \in Nat /\ DOMAIN s = 1 .. l /\ t \in Seq(A) /\ Len(t) = l
      /\ \A n \in 1 .. l : s[n] \in X /\ t[n] = <<s[n]>>
  <2>1. l \in Nat /\ DOMAIN s = 1 .. l /\ \A n \in 1 .. l : s[n] \in X /\ <<s[n]>> \in A
    OBVIOUS
  <2>2. t \in [1 .. l -> A]
    BY <2>1
  <2>3. t \in Seq(A) /\ Len(t) = l
    BY <2>1, <2>2
  <2> QED
    BY <2>1, <2>3
<1>2. PICK f : Steps(f, << >>, step, A, l) /\ Joined(t) = f[l]
  <2>1. \E h : /\ Steps(h, << >>, Joining(t, Seq(X), Len(t)), Seq(X), Len(t))
               /\ Joined(t) = h[Len(t)]
    BY <1>1, JoinedIs
  <2> QED
    BY <1>1, <2>1
<1>3. \A n \in 1 .. l : \A y \in A : step[<<n, y>>] = y \o t[n]
  <2>1. l \in 0 .. Len(t) /\ t \in Seq(Seq(X))
    BY <1>1
  <2> HIDE DEF l
  <2>2. \A n \in 1 .. l : \A y \in Seq(X) : Joining(t, Seq(X), l)[<<n, y>>] = y \o t[n]
    BY <2>1, JoiningTurns
  <2> QED
    BY <2>2
<1> HIDE DEF step, l
<1> DEFINE T == {n \in Nat : n <= l => f[n] = first(n)}
<1>4. 0 \in T
  <2>1. f[0] = << >>
    BY <1>2 DEF Steps
  <2> QED
    BY <2>1
<1>5. ASSUME NEW n \in T, n + 1 <= l
      PROVE  f[n + 1] = first(n + 1)
  <2>1. n \in Nat /\ n <= l /\ n + 1 \in 1 .. l /\ (n + 1) - 1 = n
    BY <1>1, <1>5
  <2>2. f[n] = first(n)
    BY <1>5, <2>1
  <2>3. first(n) \in A /\ Len(first(n)) = n
    BY <1>1, <2>1
  <2>4. f[n + 1] = first(n) \o <<s[n + 1]>>
    <3>1. f[n + 1] = step[<<n + 1, f[n]>>]
      BY <1>2, <2>1, <2>2, <2>3 DEF Steps
    <3> QED
      BY <1>1, <1>3, <2>1, <2>2, <2>3, <3>1
  <2>5. first(n + 1) = first(n) \o <<s[n + 1]>>
    <3> DEFINE new == first(n + 1)
    <3>1. new \in A /\ Len(new) = n + 1 /\ \A k \in 1 .. n + 1 : new[k] = s[k]
      BY <1>1, <2>1
    <3>2. s[n + 1] \in X /\ \A k \in 1 .. n : first(n)[k] = s[k]
      BY <1>1, <2>1
    <3> DEFINE old == first(n)
    <3>3. old \in A /\ Len(old) = n /\ \A k \in 1 .. n : old[k] = s[k]
      BY <2>3, <3>2
    <3> HIDE DEF old
    <3>4. /\ old \o <<s[n + 1]>> \in A /\ Len(old \o <<s[n + 1]>>) = n + 1
          /\ \A k \in 1 .. n : (old \o <<s[n + 1]>>)[k] = s[k]
          /\ (old \o <<s[n + 1]>>)[n + 1] = s[n + 1]
      <4> DEFINE one == <<s[n + 1]>>
      <4>1. one \in A /\ Len(one) = 1 /\ one[1] = s[n + 1]
        BY <3>2
      <4> HIDE DEF one
      <4>2. /\ old \o one \in A /\ Len(old \o one) = Len(old) + Len(one)
            /\ \A k \in 1 .. Len(old) + Len(one) :
                  (old \o one)[k] = IF k <= Len(old) THEN old[k] ELSE one[k - Len(old)]
        <5>1. old \in Seq(X) /\ one \in Seq(X)
          BY <3>3, <4>1
        <5> QED
          BY <5>1, ConcatProperties, ZenonT(30)
      <4>3. Len(old) + Len(one) = n + 1 /\ n \in Nat /\ n + 1 \in 1 .. n + 1
            /\ ~(n + 1 <= n) /\ (n + 1) - n = 1
        BY <2>1, <3>3, <4>1
      <4>4. /\ old \o one \in A /\ Len(old \o one) = n + 1
            /\ \A k \in 1 .. n + 1 : (old \o one)[k] = IF k <= n THEN old[k] ELSE one[k - n]
        BY <3>3, <4>2, <4>3
      <4>5. (old \o one)[n + 1] = s[n + 1]
        BY <4>1, <4>3, <4>4
      <4>6. \A k \in 1 .. n : k \in 1 .. n + 1 /\ k <= n
        BY <4>3
      <4>7. \A k \in 1 .. n : (old \o one)[k] = s[k]
        BY <3>3, <4>4, <4>6
      <4> QED
        BY <4>4, <4>5, <4>7 DEF one
    <3>5. \A k \in 1 .. n + 1 : k \in 1 .. n \/ k = n + 1
      BY <2>1
    <3>6. \A k \in 1 .. n + 1 : (old \o <<s[n + 1]>>)[k] = s[k]
      BY <3>4, <3>5
    <3> HIDE DEF new
    <3> QED
      BY <2>1, <3>1, <3>4, <3>6 DEF old, new
  <2> QED
    BY <2>4, <2>5
<1>6. T = Nat
  <2>1. T \subseteq Nat /\ \A n \in T : n + 1 \in T
    BY <1>5
  <2> HIDE DEF T
  <2> QED
    BY <1>4, <2>1, NatSetInduction
<1>7. f[l] = first(l)
  <2>1. l \in T /\ l <= l
    <3> HIDE DEF T
    <3> QED
      BY <1>1, <1>6
  <2> HIDE DEF first
  <2> QED
    BY <2>1
<1>8. first(l) = s
  BY <1>1
<1> QED
  BY <1>2, <1>7, <1>8

-----------------------------------------------------------------------------
(* What a comprehension keeps, whatever the places.                        *)

(* Some enumeration of places of a list of n elements is in their order.   *)
Enumerated(P, n) == \E L \in Nat : \E e : Rises(e, L, n) /\ Numbers(e, L) = P

(* Every set of places of a list can be numbered in order.                 *)
LEMMA PlacesEnumerated ==
    ASSUME NEW n \in Nat, NEW P, P \subseteq 1 .. n
    PROVE  Enumerated(P, n)
<1> DEFINE T == {m \in Nat : \A Q \in SUBSET (1 .. m) : Enumerated(Q, m)}
<1>1. 0 \in T
  <2>1. ASSUME NEW Q \in SUBSET (1 .. 0)
        PROVE  Enumerated(Q, 0)
    <3> DEFINE e == [k \in 1 .. 0 |-> 0]
    <3>1. Q = {}
      OBVIOUS
    <3>2. Rises(e, 0, 0) /\ Numbers(e, 0) = {}
      BY DEF Rises, Numbers
    <3> HIDE DEF e
    <3> QED
      BY <3>1, <3>2 DEF Enumerated
  <2> QED
    BY <2>1
<1>2. ASSUME NEW m \in T
      PROVE  m + 1 \in T
  <2>1. m \in Nat /\ \A Q \in SUBSET (1 .. m) : Enumerated(Q, m)
    OBVIOUS
  <2>2. ASSUME NEW Q \in SUBSET (1 .. m + 1)
        PROVE  Enumerated(Q, m + 1)
    <3> DEFINE R == Q \ {m + 1}
    <3>1. R \in SUBSET (1 .. m)
      BY <2>1
    <3>a. PICK L \in Nat : \E e : Rises(e, L, m) /\ Numbers(e, L) = R
      BY <2>1, <3>1 DEF Enumerated
    <3>2. PICK e : Rises(e, L, m) /\ Numbers(e, L) = R
      BY <3>a
    <3>3. /\ e \in [1 .. L -> 1 .. m]
          /\ \A j, k \in 1 .. L : j < k => e[j] < e[k]
      BY <3>2 DEF Rises
    <3>4. CASE m + 1 \notin Q
      <4>1. R = Q
        BY <3>4
      <4>2. Rises(e, L, m + 1)
        BY <2>1, <3>3 DEF Rises
      <4> QED
        BY <3>2, <4>1, <4>2 DEF Enumerated
    <3>5. CASE m + 1 \in Q
      <4> DEFINE f == [k \in 1 .. L + 1 |-> IF k = L + 1 THEN m + 1 ELSE e[k]]
      <4>1. f \in [1 .. L + 1 -> 1 .. m + 1]
        BY <2>1, <3>3
      <4>2. f[L + 1] = m + 1 /\ \A k \in 1 .. L : f[k] = e[k]
        OBVIOUS
      <4> HIDE DEF f
      <4>3. ASSUME NEW j \in 1 .. L + 1, NEW k \in 1 .. L + 1, j < k
            PROVE  f[j] < f[k]
        <5>1. j \in 1 .. L /\ f[j] = e[j] /\ e[j] \in 1 .. m
          BY <3>3, <4>2, <4>3
        <5>2. CASE k = L + 1
          BY <2>1, <4>2, <5>1, <5>2
        <5>3. CASE k # L + 1
          <6>1. k \in 1 .. L /\ f[k] = e[k]
            BY <4>2, <5>3
          <6> QED
            BY <3>3, <4>3, <5>1, <6>1
        <5> QED
          BY <5>2, <5>3
      <4>4. Rises(f, L + 1, m + 1)
        BY <4>1, <4>3 DEF Rises
      <4>5. Numbers(f, L + 1) = Q
        <5>1. Numbers(f, L + 1) = Numbers(e, L) \cup {m + 1}
          <6>1. \A k \in 1 .. L + 1 : k = L + 1 \/ k \in 1 .. L
            OBVIOUS
          <6>2. L + 1 \in 1 .. L + 1 /\ \A k \in 1 .. L : k \in 1 .. L + 1
            OBVIOUS
          <6> QED
            BY <4>2, <6>1, <6>2 DEF Numbers
        <5> QED
          BY <3>2, <3>5, <5>1
      <4>6. L + 1 \in Nat
        OBVIOUS
      <4> QED
        BY <4>4, <4>5, <4>6 DEF Enumerated
    <3> QED
      BY <3>4, <3>5
  <2> QED
    BY <2>1, <2>2
<1>3. T = Nat
  <2>1. T \subseteq Nat
    OBVIOUS
  <2> HIDE DEF T
  <2> QED
    BY <1>1, <1>2, <2>1, NatSetInduction
<1> QED
  BY <1>3

(* An enumeration in order has as many numbers as places.                  *)
LEMMA EnumeratedCount ==
    ASSUME NEW L \in Nat, NEW n \in Nat, NEW e, Rises(e, L, n)
    PROVE  Cardinality(Numbers(e, L)) = L
<1> DEFINE P == Numbers(e, L)
<1>1. e \in [1 .. L -> 1 .. n] /\ \A j, k \in 1 .. L : j < k => e[j] < e[k]
  BY DEF Rises
<1>2. \A j, k \in 1 .. L : j # k => e[j] # e[k]
  <2> SUFFICES ASSUME NEW j \in 1 .. L, NEW k \in 1 .. L, j # k PROVE e[j] # e[k]
    OBVIOUS
  <2>1. e[j] \in Int /\ e[k] \in Int /\ (j < k \/ k < j)
    BY <1>1
  <2> QED
    BY <1>1, <2>1
<1>3. e \in Bijection(1 .. L, P)
  <2>1. e \in [1 .. L -> P] /\ \A p \in P : \E k \in 1 .. L : e[k] = p
    BY <1>1 DEF Numbers
  <2> HIDE DEF P
  <2>2. e \in Injection(1 .. L, P)
    BY <1>2, <2>1 DEF Injection, IsInjective
  <2>3. e \in Surjection(1 .. L, P)
    BY <2>1 DEF Surjection
  <2> QED
    BY <2>2, <2>3 DEF Bijection
<1>4. ExistsBijection(1 .. L, P)
  BY <1>3 DEF ExistsBijection
<1> HIDE DEF P
<1>5. IsFiniteSet(P) /\ Cardinality(P) = L
  BY <1>4, FS_NatBijection, FS_CountingElements
<1> QED
  BY <1>5 DEF P

(* The elements of a list, those at the given places of it, and a list     *)
(* whose elements follow one another in s.                                 *)
Elements(s) == {s[i] : i \in DOMAIN s}

ElementsAt(s, places) == {s[k] : k \in places}

KeepsOrder(t, s) ==
    \E e : Rises(e, Len(t), Len(s)) /\ \A i \in 1 .. Len(t) : t[i] = s[e[i]]

(* What is kept: the elements at the places, as many, in the same order.   *)
LEMMA SelectedParts ==
    ASSUME NEW X, NEW s \in Seq(X), NEW P, P \subseteq DOMAIN s
    PROVE  /\ Selected(s, P) \in Seq(X)
           /\ Len(Selected(s, P)) = Cardinality(P)
           /\ Elements(Selected(s, P)) = ElementsAt(s, P)
           /\ KeepsOrder(Selected(s, P), s)
<1> DEFINE n == Len(s)
<1>1. n \in Nat /\ P \subseteq 1 .. n /\ DOMAIN s = 1 .. n
  OBVIOUS
<1>a. PICK L \in Nat : \E e : Rises(e, L, n) /\ Numbers(e, L) = P
  <2> HIDE DEF n
  <2>1. Enumerated(P, n)
    BY <1>1, PlacesEnumerated
  <2> QED
    BY <2>1 DEF Enumerated
<1>2. PICK e : Rises(e, L, n) /\ Numbers(e, L) = P
  BY <1>a
<1>3. Selected(s, P) = InOrder(s, e, L)
  BY <1>2, SelectedEnumerated
<1>4. Cardinality(P) = L
  <2> HIDE DEF n
  <2> QED
    BY <1>1, <1>2, EnumeratedCount
<1>5. e \in [1 .. L -> 1 .. n]
  BY <1>2 DEF Rises
<1> DEFINE sel == InOrder(s, e, L)
<1>6. sel \in Seq(X) /\ Len(sel) = L /\ DOMAIN sel = 1 .. L /\ \A i \in 1 .. L : sel[i] = s[e[i]]
  <2>1. \A i \in 1 .. L : s[e[i]] \in X
    BY <1>1, <1>5
  <2>2. sel \in [1 .. L -> X]
    BY <2>1 DEF InOrder
  <2> QED
    BY <2>2 DEF InOrder
<1> HIDE DEF sel, n
<1>7. Elements(sel) = ElementsAt(s, P)
  <2>1. P = {e[i] : i \in 1 .. L}
    BY <1>2 DEF Numbers
  <2> QED
    BY <1>6, <2>1 DEF Elements, ElementsAt
<1>8. Selected(s, P) = sel
  BY <1>3 DEF sel
<1>9. KeepsOrder(sel, s)
  BY <1>2, <1>6 DEF KeepsOrder, n
<1> QED
  BY <1>2, <1>4, <1>6, <1>7, <1>8, <1>9

(* The places taken and those left are all of them.                        *)
LEMMA PlacesDivided ==
    ASSUME NEW n \in Nat, NEW P, P \subseteq 1 .. n
    PROVE  Cardinality(P) + Cardinality((1 .. n) \ P) = n
<1>1. 1 \in Int /\ n \in Int
  OBVIOUS
<1>2. IsFiniteSet(1 .. n) /\ Cardinality(1 .. n) = n
  BY FS_Interval
<1>3. IsFiniteSet(P) /\ Cardinality(P) \in Nat
  BY <1>2, FS_Subset, FS_CardinalityType
<1>4. (1 .. n) \cap P = P
  OBVIOUS
<1>5. Cardinality((1 .. n) \ P) = Cardinality(1 .. n) - Cardinality((1 .. n) \cap P)
  BY <1>2, FS_Difference
<1>6. Cardinality((1 .. n) \ P) = n - Cardinality(P)
  BY <1>2, <1>4, <1>5, Zenon
<1> QED
  BY <1>3, <1>6

(* The turn of the loop that keeps elements.                               *)
Keeping(s, places, A, l) ==
    [p \in (1 .. l) \X A |-> IF p[1] \in places THEN Append(p[2], s[p[1]]) ELSE p[2]]

(* The loop of a comprehension has a history.                              *)
LEMMA KeepsExist ==
    ASSUME NEW X, NEW s \in Seq(X), NEW places
    PROVE  \E f : /\ Keeps(f, s, places)
                  /\ \A n \in 0 .. Len(s) : f[n] \in Seq(X)
<1> DEFINE l == Len(s)
           A == Seq(X)
           step == Keeping(s, places, A, l)
<1>1. l \in Nat /\ << >> \in A /\ \A n \in 1 .. l : \A y \in A : Append(y, s[n]) \in A
  OBVIOUS
<1> HIDE DEF l, A
<1>2. TurnsOf(step, A, l)
  <2>1. ASSUME NEW p \in (1 .. l) \X A
        PROVE  (IF p[1] \in places THEN Append(p[2], s[p[1]]) ELSE p[2]) \in A
    <3>1. p[1] \in 1 .. l /\ p[2] \in A
      OBVIOUS
    <3> QED
      BY <1>1, <3>1
  <2> QED
    BY <2>1 DEF TurnsOf, Keeping
<1>3. ASSUME NEW n \in 1 .. l, NEW y \in A
      PROVE  step[<<n, y>>] = IF n \in places THEN Append(y, s[n]) ELSE y
  <2>1. <<n, y>> \in (1 .. l) \X A /\ <<n, y>>[1] = n /\ <<n, y>>[2] = y
    OBVIOUS
  <2> QED
    BY <2>1 DEF Keeping
<1> HIDE DEF step
<1>4. PICK f \in [0 .. l -> A] : Steps(f, << >>, step, A, l)
  <2> DEFINE none == << >>
  <2>1. none \in A /\ l \in Nat /\ TurnsOf(step, A, l)
    BY <1>1, <1>2
  <2> HIDE DEF none
  <2>2. \E f \in [0 .. l -> A] : Steps(f, none, step, A, l)
    BY <2>1, StepsExist
  <2> QED
    BY <2>2 DEF none
<1>5. \A n \in 0 .. l : f[n] = IF n = 0 THEN << >>
                               ELSE IF n \in places THEN Append(f[n - 1], s[n]) ELSE f[n - 1]
  <2> SUFFICES ASSUME NEW n \in 0 .. l
               PROVE  f[n] = IF n = 0 THEN << >>
                             ELSE IF n \in places THEN Append(f[n - 1], s[n]) ELSE f[n - 1]
    OBVIOUS
  <2>1. CASE n = 0
    BY <1>4, <2>1 DEF Steps
  <2>2. CASE n # 0
    <3>1. n \in 1 .. l /\ n - 1 \in 0 .. l
      BY <1>1, <2>2
    <3>2. f[n - 1] \in A
      BY <3>1
    <3> QED
      BY <1>3, <1>4, <2>2, <3>1, <3>2 DEF Steps
  <2> QED
    BY <2>1, <2>2
<1>6. f = [n \in 0 .. l |-> f[n]]
  OBVIOUS
<1>7. Keeps(f, s, places)
  BY <1>5, <1>6 DEF Keeps, l
<1>8. \A n \in 0 .. l : f[n] \in A
  OBVIOUS
<1> QED
  BY <1>7, <1>8 DEF l, A
=============================================================================
