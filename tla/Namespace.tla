----------------------------- MODULE Namespace -----------------------------
(***************************************************************************)
(* What the directories of the file system promise to a caller who names   *)
(* files by their paths (src/src/dhmp_fs.c:300-319): mkdir and mknod make  *)
(* a path in a directory, unlink removes a file and rmdir an empty         *)
(* directory, and rename gives a file or a directory, with all that is     *)
(* below it, its new path in place of what was there.                      *)
(***************************************************************************)
EXTENDS Sequences, SequencesExt, Naturals

CONSTANTS Name, Depth    \* the names, and the longest path considered

Path == UNION {[1 .. n -> Name] : n \in 0 .. Depth}
Below(path) == {p \in Path : IsPrefix(path, p)}
Parent(path) == Front(path)

VARIABLE kind    \* kind[p]: what is at path p, "dir", "file" or "none"

Init == kind = [p \in Path |-> IF p = <<>> THEN "dir" ELSE "none"]

Exists(path) == path # <<>> /\ kind[path] # "none"
Childless(path) == \A p \in Below(path) \ {path} : kind[p] = "none"

\* Whatever happens, it happens to the paths of the set.
Within(set) == kind' = [p \in Path |-> IF p \in set THEN kind'[p] ELSE kind[p]]

Make(path, k) == /\ path # <<>> /\ kind[path] = "none" /\ kind[Parent(path)] = "dir"
                 /\ kind' = [kind EXCEPT ![path] = k]

Unmake(path) == /\ Exists(path) /\ Childless(path)
                /\ kind' = [kind EXCEPT ![path] = "none"]

\* Paths below "from" that are longer than Depth are not looked at.
Rename(from, to) ==
    LET Old(p) == from \o SubSeq(p, Len(to) + 1, Len(p))
    IN  /\ Exists(from) /\ to # <<>> /\ kind[Parent(to)] = "dir"
        /\ Within(Below(from) \cup Below(to))
        /\ \A p \in Below(to) : Old(p) \in Path => kind'[p] = kind[Old(p)]
        /\ \A p \in Below(from) \ Below(to) : kind'[p] = "none"

=============================================================================
