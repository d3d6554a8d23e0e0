---------------------------- MODULE MC_FsIndex ----------------------------
EXTENDS FsIndex, TLC

CONSTANT f1

\* Inode f1 is in the slab, any other one has to be malloc'ed.
MCSlab == <<f1>>

Symmetry == Permutations(Worker)

\* The pieces that are read and written: within a chunk, from one chunk into
\* the next, from the last chunk over its end, and beyond it.
Piece == {<<0, 1>>, <<1, 2>>, <<2, 1>>, <<3, 2>>, <<4, 1>>}
Pieces == \A w \in Worker : pc[w] = "idle" /\ pc'[w] # "idle" /\ op'[w] \in {"read", "write"}
                             => <<off'[w], un'[w]>> \in Piece

=============================================================================
