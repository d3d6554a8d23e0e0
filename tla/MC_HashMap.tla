----------------------------- MODULE MC_HashMap -----------------------------
EXTENDS HashMap, TLC

CONSTANTS k1, k2, k3, k4

\* In an array of two entries all keys collide, in one of four k3 is apart, in
\* one of eight only k1 and k4 collide.
MCHashCode == k1 :> 0 @@ k2 :> 4 @@ k3 :> 6 @@ k4 :> 8

Symmetry == Permutations(Node) \cup Permutations(Value)

=============================================================================
