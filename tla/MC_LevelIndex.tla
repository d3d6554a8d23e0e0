---------------------------- MODULE MC_LevelIndex ----------------------------
(* One place in the inode, tables of two: 15 places of two bytes.          *)
EXTENDS LevelIndex, TLC
MCOffsets == {1, 5, 6, 15, 21, 30}
Perms == Permutations(Chunk)
==============================================================================
