----------------------------- MODULE MCPrefixes -----------------------------
(***************************************************************************)
(* A folder whose videos are renumbered again and again, as the schedule   *)
(* is reordered: every numbering of a few videos (two of them may start    *)
(* with the same prefix) followed by every reordering, over a range of     *)
(* prefixes small enough for the gaps to fill up.                          *)
(***************************************************************************)
EXTENDS Prefixes

CONSTANTS Keys, MaxOrders

(* assign_prefixes refuses more videos than there are prefixes.            *)
ASSUME KeysAssumption == IsFiniteSet(Keys) /\ Cardinality(Keys) <= MaxPrefix /\ MaxOrders \in Nat

VARIABLES order,    \* what plays, in schedule order
          current,  \* the prefix of each video on the Pi
          orders    \* how many reorderings happened (bounded)

prefixesVars == <<order, current, orders>>

Orders == {s \in UNION {[1 .. n -> Keys] : n \in 1 .. Cardinality(Keys)} :
             \A i, j \in DOMAIN s : s[i] = s[j] => i = j}

PrefixesInit ==
  /\ order = <<>>
  /\ current \in UNION {[S -> 1 .. MaxPrefix] : S \in SUBSET Keys}
  /\ orders = 0

(* A cycle whose plan renames, adds and removes: the folder ends up with   *)
(* exactly the scheduled videos under the prefixes the planner chose.      *)
Renumber(new) ==
  /\ orders < MaxOrders
  /\ new # order
  /\ order' = new
  /\ current' = AssignPrefixes(new, current)
  /\ orders' = orders + 1

PrefixesNext == \E new \in Orders : Renumber(new)

(* Prefixes are legal three-digit numbers and strictly increase along the  *)
(* schedule, so the player's name order is the schedule's order.           *)
StrictlyIncreasing ==
  \A i, j \in DOMAIN order :
    /\ current[order[i]] \in 1 .. MaxPrefix
    /\ i < j => current[order[i]] < current[order[j]]

(* Reference definition: the legal numberings of n videos, and how many    *)
(* prefixes one of them keeps.                                             *)
Legal == [n \in 0 .. Cardinality(Keys) |->
            {f \in [1 .. n -> 1 .. MaxPrefix] : \A i \in 1 .. n - 1 : f[i] < f[i + 1]}]

KeptBy(f, new, old) ==
  Cardinality({i \in DOMAIN new : new[i] \in DOMAIN old /\ old[new[i]] = f[i]})

(* No legal numbering renames fewer of the videos already on the Pi than   *)
(* the planner's does (each rename makes the player skip a video), and the *)
(* prefixes it keeps leave room for the others.                            *)
FewestRenames ==
  [][/\ KeptRise(order', current, LongestNonDecreasing(Candidates(order', current)))
     /\ \A f \in Legal[Len(order')] :
          KeptBy(f, order', current)
            <= KeptBy([i \in DOMAIN order' |-> current'[order'[i]]], order', current)]_prefixesVars
=============================================================================
