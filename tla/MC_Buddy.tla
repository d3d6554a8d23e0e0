------------------------------ MODULE MC_Buddy ------------------------------
EXTENDS Buddy, TLC

MCbuddy_size == [i \in 0 .. MAX_ORDER - 1 |-> 2 ^ i]
Symmetry == Permutations(Area)

=============================================================================
