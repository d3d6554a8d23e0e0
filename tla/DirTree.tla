------------------------------ MODULE DirTree ------------------------------
(***************************************************************************)
(* Directories: the tree of inodes and the operations on paths             *)
(* (src/src/dhmp_fs_dir_ops.c) that FUSE calls.                            *)
(*                                                                         *)
(* A directory keeps its entries twice: in a list of sons, which readdir   *)
(* and the recursive removal follow, and in a hash map from names, which   *)
(* every lookup follows (HashMap shows that the map is a function between  *)
(* two modifications).  The order of a list is left out.  The kernel and   *)
(* libfuse, outside this repository, let one modification of a directory   *)
(* run at a time and none in a subtree that is being removed or renamed,   *)
(* so an operation is one step here.  The kernel keeps a tree of its own   *)
(* and asks only for what fits there, say an entry of a directory; that    *)
(* tree is no longer the program's once a rename into another directory    *)
(* was answered with success (strayed), and nothing is taken to fit then.  *)
(***************************************************************************)
EXTENDS Integers, Sequences, FiniteSets, SequencesExt

CONSTANTS Inode,      \* the inodes of the slab and of malloc_inode
          root,
          Name,       \* file names
          None,       \* NULL, and the empty name
          Depth,      \* the longest path
          MaxSons     \* bound on son_nums

ASSUME RootAssumption == root \in Inode
ASSUME NoneAssumption == None \notin Inode \cup Name
ASSUME BoundAssumption == Depth \in Nat /\ MaxSons \in Nat \ {0}

Path == UNION {[1 .. n -> Name] : n \in 0 .. Depth}
Empty == [n \in Name |-> None]    \* the map that createHashMap returns

VARIABLES used,            \* the inodes that are not in free_inode_slab
          isDirectories,   \* a set of inodes
          filename,        \* filename[f]
          son,             \* son[f]: the inodes in the list of sons of f
          son_nums,        \* son_nums[f]
          d_hash,          \* d_hash[f]: the map from names to inodes
          strayed,         \* the kernel's tree may not be this one any more
          crashed          \* NULL was dereferenced

tree == <<used, isDirectories, filename, son, son_nums, d_hash>>
vars == <<used, isDirectories, filename, son, son_nums, d_hash, strayed, crashed>>

Init == /\ used = {root}
        /\ isDirectories = {root}
        /\ filename = [f \in Inode |-> None]
        /\ son = [f \in Inode |-> {}]
        /\ son_nums = [f \in Inode |-> 0]
        /\ d_hash = [f \in Inode |-> Empty]
        /\ strayed = FALSE /\ crashed = FALSE

\* From a directory to its entry, as the loop over the path does.
step(f, name) == IF f = None THEN None ELSE d_hash[f][name]

search_d_hash(path) ==
    LET now_node[k \in 0 .. Len(path)] ==
            IF k = 0 THEN root ELSE step(now_node[k - 1], path[k])
    IN  now_node[Len(path)]

\* deal splits a path into its directory and its file name; dhmpDelete and the
\* others return at once for the path of the root.
dirname(path) == Front(path)
file(path) == Last(path)
Paths == Path \ {<<>>}

\* The kernel asks for an entry of what it takes for a directory.
Asked(path) == strayed \/ search_d_hash(dirname(path)) \in isDirectories

\* The kernel refuses a path below the other one, and to put a file in the
\* place of a directory or the other way round.
Renames(from, to) ==
    LET head == search_d_hash(from)
        other == search_d_hash(to)
    IN  /\ Asked(to)
        /\ from # to /\ ~IsPrefix(from, to) /\ ~IsPrefix(to, from)
        /\ strayed \/ (other # None => (other \in isDirectories <=> head \in isDirectories))

Segfault == crashed' = TRUE /\ UNCHANGED <<tree, strayed>>

-----------------------------------------------------------------------------
(* Plausible mistakes in the operations below (Bug_...), each of which     *)
(* breaks a property of this module.                                       *)

\* A new entry is not counted.
Bug_add_to_father(father, now) ==
    /\ son_nums[father] < MaxSons
    /\ son' = [son EXCEPT ![father] = @ \cup {now}]
    /\ UNCHANGED son_nums

\* dhmpDeleteALL does not go below the sons.
Bug_dhmpDeleteALL(father) == son[father]

\* The inode of a directory is given back as one.
Bug_reset_indoe(set) ==
    /\ used' = used \ set
    /\ UNCHANGED isDirectories
    /\ filename' = [f \in Inode |-> IF f \in set THEN None ELSE filename[f]]

\* The inode keeps its name.
Bug_keep_name(from, to) ==
    LET father == search_d_hash(dirname(from))
        head == d_hash[father][file(from)]
    IN  /\ father \in isDirectories /\ head # None /\ Renames(from, to)
        /\ d_hash' = [d_hash EXCEPT ![father] =
                        [[@ EXCEPT ![file(from)] = None] EXCEPT ![file(to)] = head]]
        /\ strayed' = (strayed \/ dirname(from) # dirname(to))
        /\ UNCHANGED <<used, isDirectories, filename, son, son_nums, crashed>>

\* The old name stays in the map.
Bug_keep_old(from, to) ==
    LET father == search_d_hash(dirname(from))
        head == d_hash[father][file(from)]
    IN  /\ father \in isDirectories /\ head # None /\ Renames(from, to)
        /\ filename' = [filename EXCEPT ![head] = file(to)]
        /\ d_hash' = [d_hash EXCEPT ![father][file(to)] = head]
        /\ strayed' = (strayed \/ dirname(from) # dirname(to))
        /\ UNCHANGED <<used, isDirectories, son, son_nums, crashed>>

-----------------------------------------------------------------------------
(* The operations of FUSE.                                                 *)

\* get_free_inode; its place in the slab is left to FsIndex.
Free == Inode \ used

add_to_father(father, now) ==
    /\ son_nums[father] < MaxSons
    /\ son' = [son EXCEPT ![father] = @ \cup {now}]
    /\ son_nums' = [son_nums EXCEPT ![father] = @ + 1]

\* dhmpCreateDirectory and dhmpMknod have this in common.
Create(father, name, now) ==
    /\ father # None /\ d_hash[father][name] = None
    /\ used' = used \cup {now}
    /\ filename' = [filename EXCEPT ![now] = name]
    /\ d_hash' = [d_hash EXCEPT ![father][name] = now]
    /\ add_to_father(father, now)
    /\ UNCHANGED <<strayed, crashed>>

MkDir(path) ==
    LET father == search_d_hash(dirname(path))
    IN  /\ father \in isDirectories
        /\ \E now \in Free : Create(father, file(path), now)
                             /\ isDirectories' = isDirectories \cup {now}

\* That the parent is a directory is the kernel's test.  Without a father the
\* error message reads its name, and the map of a file is NULL.
Mknod(path) ==
    LET father == search_d_hash(dirname(path))
    IN  /\ Asked(path)
        /\ IF father \in isDirectories
           THEN /\ \E now \in Free : Create(father, file(path), now)
                /\ UNCHANGED isDirectories
           ELSE Segfault

\* The inodes that dhmpDeleteALL(father) resets: all the sons, and whatever it
\* resets below those that are directories and count their own sons.
Descends(f, set) == f \in isDirectories /\ son_nums[f] # 0 => son[f] \subseteq set
dhmpDeleteALL(father) ==
    {f \in Inode : \A set \in SUBSET Inode :
        son[father] \subseteq set /\ (\A g \in set : Descends(g, set)) => f \in set}

\* reset_indoe keeps son_nums as it is.
reset_indoe(set) ==
    /\ used' = used \ set
    /\ isDirectories' = isDirectories \ set
    /\ filename' = [f \in Inode |-> IF f \in set THEN None ELSE filename[f]]

del_from_father(father, del) ==
    son_nums' = IF del \in son[father] THEN [son_nums EXCEPT ![father] = @ - 1] ELSE son_nums

\* unlink and rmdir both call dhmpDelete; neither it nor the kernel asks that
\* the directory be empty.
dhmpDelete(path) ==
    LET father == search_d_hash(dirname(path))
        to_del == d_hash[father][file(path)]
        gone == {to_del} \cup IF to_del \in isDirectories THEN dhmpDeleteALL(to_del) ELSE {}
    IN  /\ father \in isDirectories /\ to_del # None
        /\ del_from_father(father, to_del)
        /\ reset_indoe(gone)
        /\ son' = [f \in Inode |-> IF f \in gone THEN {}
                                   ELSE IF f = father THEN son[f] \ {to_del} ELSE son[f]]
        /\ d_hash' = [f \in Inode |->
                        IF f \in gone THEN Empty
                        ELSE IF f = father THEN [d_hash[f] EXCEPT ![file(path)] = None]
                        ELSE d_hash[f]]
        /\ UNCHANGED <<strayed, crashed>>

\* The name changes in the map of the old directory whatever directory "to"
\* is in, and an inode that had the new name loses it and nothing else.  The
\* kernel is told that "to" is the file now.
dhmp_fs_rename(from, to) ==
    LET father == search_d_hash(dirname(from))
        head == d_hash[father][file(from)]
    IN  /\ father \in isDirectories /\ head # None /\ Renames(from, to)
        /\ filename' = [filename EXCEPT ![head] = file(to)]
        /\ d_hash' = [d_hash EXCEPT ![father] =
                        [[@ EXCEPT ![file(from)] = None] EXCEPT ![file(to)] = head]]
        /\ strayed' = (strayed \/ dirname(from) # dirname(to))
        /\ UNCHANGED <<used, isDirectories, son, son_nums, crashed>>

\* It does not look whether there is a father and whether he has a map.
RenameLost(from) ==
    Asked(from) /\ search_d_hash(dirname(from)) \notin isDirectories /\ Segfault

\* Every operation begins with search_d_hash, which steps through the map of
\* whatever it meets on the way; a file has none.
Resolve(path) ==
    /\ strayed
    /\ \E p \in Paths : /\ IsPrefix(p, path) /\ p # path
                         /\ search_d_hash(p) # None /\ search_d_hash(p) \notin isDirectories
    /\ Segfault

Next == ~crashed /\ \E path \in Paths : \/ MkDir(path)
                                        \/ Mknod(path)
                                        \/ dhmpDelete(path)
                                        \/ \E to \in Paths : dhmp_fs_rename(path, to)
                                        \/ RenameLost(path)
                                        \/ Resolve(path)

Spec == Init /\ [][Next]_vars

-----------------------------------------------------------------------------
(* Properties.                                                             *)

TypeOK == /\ used \subseteq Inode /\ isDirectories \subseteq used
          /\ filename \in [Inode -> Name \cup {None}]
          /\ son \in [Inode -> SUBSET Inode]
          /\ son_nums \in [Inode -> 0 .. MaxSons]
          /\ d_hash \in [Inode -> [Name -> Inode \cup {None}]]
          /\ strayed \in BOOLEAN /\ crashed \in BOOLEAN

\* No inode is lost or shared: one in use, other than the root, is in the list
\* of exactly one directory that is itself in use, and no list holds a free
\* inode.  (dhmpDelete gives back all of a subtree, however deep: a directory
\* with sons says so in son_nums, by which dhmpDeleteALL goes below it.  The
\* count may be too high, as reset_indoe does not reset it.)
OneParent ==
    /\ \A f \in Inode :
           Cardinality({g \in used : f \in son[g]}) = IF f \in used \ {root} THEN 1 ELSE 0
    /\ \A f \in Inode : Cardinality(son[f]) =< son_nums[f]

\* What a lookup finds under a name is a son of the directory and bears this
\* name.  (dhmp_fs_rename changes the name in the inode and in the map.)
NamesAreSons == \A f \in Inode, n \in Name :
                    LET g == d_hash[f][n]
                    IN  g # None => g \in son[f] /\ filename[g] = n

\* Seen through lookups the tree is the Namespace, and every operation that
\* returns does there what it promises, and nothing else appears, moves or is
\* lost.  Two promises are not kept (OnlyEmptyRemoved and Renamed below): rmdir
\* of a directory that is not empty, and a rename into another directory.  Of
\* these it says only what they leave alone.
Kind == [p \in Path |-> LET f == search_d_hash(p)
                        IN  IF f = None THEN "none"
                            ELSE IF f \in isDirectories THEN "dir" ELSE "file"]
Promise == INSTANCE Namespace WITH kind <- Kind
Sibling(path, name) == Append(dirname(path), name)
RemovePromised(path) == IF Promise!Childless(path) THEN Promise!Unmake(path)
                        ELSE Promise!Within(Promise!Below(path))
RenamePromised(from, to) ==
    IF dirname(from) = dirname(to) THEN Promise!Rename(from, to)
    ELSE Promise!Within(Promise!Below(from) \cup Promise!Below(Sibling(from, file(to))))
Promised ==
    Promise!Init /\ [][~crashed' => \A path \in Paths :
        /\ MkDir(path) => Promise!Make(path, "dir")
        /\ Mknod(path) => Promise!Make(path, "file")
        /\ dhmpDelete(path) => RemovePromised(path)
        /\ \A to \in Paths : dhmp_fs_rename(path, to) => RenamePromised(path, to)]_vars

\* rmdir removes an empty directory (src/src/dhmp_fs.c:316).  dhmpDelete does
\* not look whether it is one.
OnlyEmptyRemoved == [][\A path \in Paths : dhmpDelete(path) => Promise!Unmake(path)]_vars

\* rename gives the file its new path (src/src/dhmp_fs.c:318, :319).
\* dhmp_fs_rename leaves it in its old directory.
Renamed == [][\A from, to \in Paths :
                 dhmp_fs_rename(from, to) => Promise!Rename(from, to)]_vars

\* mknod without a directory to put the file in logs the error and returns -1
\* (dhmp_fs_dir_ops.c:99-102).  It cannot: the message reads the name of the
\* directory that is not there.
MknodRefuses == [][\A path \in Paths : Mknod(path) => ~crashed']_vars

=============================================================================
