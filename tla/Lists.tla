------------------------------- MODULE Lists -------------------------------
(***************************************************************************)
(* What Python's sum(), sorted(), ** and its comprehensions compute.  The  *)
(* community modules have most of it, but by folds, SelectSeq and          *)
(* SetToSortSeq, which the provers cannot expand, and they do not know the *)
(* ^ of Naturals; these are the definitions the proofs of this project     *)
(* reason about.                                                           *)
(***************************************************************************)
EXTENDS Integers, Sequences, FiniteSets

(* sum(), of a list of numbers *)
Sum(s) ==
    LET sum[n \in 0 .. Len(s)] == IF n = 0 THEN 0 ELSE sum[n - 1] + s[n]
    IN  sum[Len(s)]

(* sum(), of natural numbers that are told apart by a key or a place: each *)
(* counts as so many pairs.                                                *)
Total(f) == Cardinality(UNION {{x} \X (1 .. f[x]) : x \in DOMAIN f})

(* [x for x in s if ...]: the elements of s at the given places, in order. *)
Selected(s, places) ==
    LET kept[n \in 0 .. Len(s)] ==
            IF n = 0 THEN << >>
            ELSE IF n \in places THEN Append(kept[n - 1], s[n]) ELSE kept[n - 1]
    IN  kept[Len(s)]

(* [x for l in s for x in l]: the elements of the lists in s, list by list. *)
Joined(s) ==
    LET joined[n \in 0 .. Len(s)] == IF n = 0 THEN << >> ELSE joined[n - 1] \o s[n]
    IN  joined[Len(s)]

(* b ** n *)
Power(b, n) ==
    LET power[k \in 0 .. n] == IF k = 0 THEN 1 ELSE b * power[k - 1]
    IN  power[n]

(* The members of set that come before x; before is a set of pairs. *)
Earlier(set, before, x) == {y \in set : <<y, x>> \in before}

(* sorted(), of the members of a set that before orders strictly and       *)
(* totally: the member at place k has k - 1 of them before it.             *)
Sorted(set, before) ==
    [k \in 1 .. Cardinality(set) |->
        CHOOSE x \in set : Cardinality(Earlier(set, before, x)) = k - 1]
=============================================================================
