------------------------------ MODULE Prefixes ------------------------------
(***************************************************************************)
(* Numbering of the visible videos (planner.assign_prefixes).              *)
(*                                                                         *)
(* The player runs through the folder in name order, so the three digits   *)
(* at the front of a name decide the order of the loop.  Every rename      *)
(* makes the player skip that video once: the planner picks a prefix for   *)
(* each video, strictly increasing along the schedule's order, and keeps   *)
(* as many of the prefixes already on the Pi as it can.                    *)
(*                                                                         *)
(* The operators are pure: Planner uses them as they are, MCPrefixes runs  *)
(* them on every order and every numbering of a small folder.              *)
(***************************************************************************)
EXTENDS Lists

CONSTANTS MaxPrefix,   (* the largest prefix: 999 in the code               *)
          Step         (* distance between new names at the end: 10         *)

ASSUME PrefixAssumption ==
       /\ MaxPrefix \in Nat \ {0}
       /\ Step \in Nat \ {0}

-----------------------------------------------------------------------------
(***************************************************************************)
(* The keys that could keep their prefix as [index, slack]: index counts   *)
(* from 0, and slack = prefix - index must leave room for the keys before  *)
(* and after.                                                              *)
(***************************************************************************)
Candidates(order, current) ==
  LET slack(i) == current[order[i]] - (i - 1)
      fits(i)  == /\ order[i] \in DOMAIN current
                  /\ slack(i) \in 1 .. (MaxPrefix + 1 - Len(order))
      at       == Ascending({i \in 1 .. Len(order) : fits(i)})
  IN  [k \in DOMAIN at |-> [index |-> at[k], slack |-> slack(at[k])]]

(* Mutant: equal slacks, which stay strictly increasing prefixes, are not  *)
(* both kept.                                                              *)
LongestIncreasing(items) ==
  LET rising(S) == \A i, j \in S : i < j => items[i].slack < items[j].slack
      all       == {S \in SUBSET DOMAIN items : rising(S)}
      longest   == CHOOSE S \in all : \A T \in all : Cardinality(T) <= Cardinality(S)
  IN  {items[i].index : i \in longest}

(***************************************************************************)
(* Patience-style longest non-decreasing subsequence of the slacks: tails  *)
(* holds, for each length, the position that ends the best subsequence of  *)
(* that length; previous links each position to the one before it.         *)
(***************************************************************************)
LongestNonDecreasing(items) ==
  LET place(acc, pos) ==
        LET shorter == {k \in DOMAIN acc.tails :
                          items[acc.tails[k]].slack <= items[pos].slack}
            slot    == Cardinality(shorter)
        IN  [tails    |-> IF slot = Len(acc.tails)
                            THEN Append(acc.tails, pos)
                            ELSE [acc.tails EXCEPT ![slot + 1] = pos],
             previous |-> Append(acc.previous,
                                 IF slot > 0 THEN acc.tails[slot] ELSE 0)]
      piles[p \in 0 .. Len(items)] ==
        IF p = 0 THEN [tails |-> <<>>, previous |-> <<>>] ELSE place(piles[p - 1], p)
      done  == piles[Len(items)]
      chain[p \in 0 .. Len(items)] ==
        IF p = 0 THEN {} ELSE {items[p].index} \cup chain[done.previous[p]]
  IN  IF items = <<>> THEN {} ELSE chain[Last(done.tails)]

(* Mutant: the first of the new prefixes is the one before the gap.        *)
FilledFromLow(low, high, count, j, openEnd) ==
  low + ((high - low) * (j - 1)) \div (count + 1)

(***************************************************************************)
(* The j-th (from 1) of count keys placed strictly between low and high.   *)
(* At the open end they go up in steps while there is room; otherwise they *)
(* are spread evenly over the gap.                                         *)
(***************************************************************************)
Filled(low, high, count, j, openEnd) ==
  IF openEnd /\ low + Step * count <= MaxPrefix
    THEN low + Step * j
    ELSE low + ((high - low) * j) \div (count + 1)

(***************************************************************************)
(* One prefix per key of order, a sequence of distinct keys; current gives *)
(* the prefixes on the Pi, for the keys that have one.                     *)
(***************************************************************************)
AssignPrefixes(order, current) ==
  LET n          == Len(order)
      kept       == LongestNonDecreasing(Candidates(order, current))
      keptAt(i)  == current[order[i]]
      before(i)  == {k \in kept : k < i}
      after(i)   == {k \in kept : k > i}
      start(i)   == IF before(i) = {} THEN 0 ELSE Max(before(i))
      end(i)     == IF after(i) = {} THEN n + 1 ELSE Min(after(i))
      low(i)     == IF before(i) = {} THEN 0 ELSE keptAt(start(i))
      high(i)    == IF after(i) = {} THEN MaxPrefix + 1 ELSE keptAt(end(i))
      value(i)   == IF i \in kept
                      THEN keptAt(i)
                      ELSE Filled(low(i), high(i), end(i) - start(i) - 1,
                                  i - start(i), after(i) = {})
      indexOf(k) == CHOOSE i \in 1 .. n : order[i] = k
  IN  [k \in ToSet(order) |-> value(indexOf(k))]

(***************************************************************************)
(* Prefixes strictly between low and high other than the wanted one, and   *)
(* the closest of a set of them to the wanted one (the larger on a tie).   *)
(***************************************************************************)
Nearby(wanted, low, high) ==
  {c \in (low + 1) .. (high - 1) : c \in 1 .. MaxPrefix /\ c # wanted}

Distance(a, b) == IF a > b THEN a - b ELSE b - a

Closest(S, wanted) ==
  CHOOSE c \in S : \A d \in S \ {c} :
    \/ Distance(c, wanted) < Distance(d, wanted)
    \/ Distance(c, wanted) = Distance(d, wanted) /\ c > d

(***************************************************************************)
(* What assign_prefixes relies on when it fills the gaps: the keys kept    *)
(* stand in the order of their prefixes, and there is room for the keys    *)
(* before, between and after them.                                         *)
(***************************************************************************)
KeptRise(order, current, kept) ==
  /\ kept \subseteq 1 .. Len(order)
  /\ \A i \in kept : /\ current[order[i]] \in Int
                     /\ current[order[i]] - (i - 1) \in 1 .. (MaxPrefix + 1 - Len(order))
  /\ \A i, j \in kept : i < j =>
       current[order[i]] - (i - 1) <= current[order[j]] - (j - 1)
=============================================================================
