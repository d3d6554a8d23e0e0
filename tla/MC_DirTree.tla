----------------------------- MODULE MC_DirTree -----------------------------
EXTENDS DirTree, TLC

\* A free inode may differ from another one in son_nums only.
Symmetry == Permutations(Inode \ {root}) \cup Permutations(Name)

=============================================================================
