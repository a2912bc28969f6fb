------------------------------- MODULE Lists --------------------------------
(***************************************************************************)
(* What Python's sorted and its list comprehensions with a condition do,   *)
(* with the order given as a set of pairs and the condition as the set of  *)
(* positions that satisfy it.                                              *)
(***************************************************************************)
EXTENDS Integers, Sequences, FiniteSets, SequencesExt

(* The elements of S, a finite set that R orders: each stands after those  *)
(* that R puts before it.                                                  *)
Sorted(S, R) ==
  [k \in 1 .. Cardinality(S) |->
     CHOOSE x \in S : Cardinality({y \in S : <<y, x>> \in R}) = k - 1]

(* A set of numbers, from the least to the greatest.                       *)
Ascending(S) == Sorted(S, {p \in S \X S : p[1] < p[2]})

(* What stands at the positions of s that are in I, in their order.        *)
Picked(s, I) ==
  LET at == Ascending(I) IN [k \in DOMAIN at |-> s[at[k]]]
=============================================================================
