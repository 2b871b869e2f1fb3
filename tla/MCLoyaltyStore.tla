--------------------------- MODULE MCLoyaltyStore ---------------------------
(* Two customers, one of them in the settings, one prize, 3-bit integers.  *)
EXTENDS LoyaltyStore, TLC
CONSTANTS bugs, elmer, prize
MCSeeds == <<[id |-> bugs, points |-> 2]>>
MCCost == [p \in {prize} |-> 2]
Symmetry == Permutations(Calls)
=============================================================================
