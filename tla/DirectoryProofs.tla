-------------------------- MODULE DirectoryProofs --------------------------
(* Proofs about the tree of directories (DirTree) for any number of inodes *)
(* and names, and paths and lists of any length, and about the map of a    *)
(* directory (HashMap) for any keys, hash function and sizes.              *)
EXTENDS DirTree, HashMap, FiniteSetTheorems, WellFoundedInduction, TLAPS

-----------------------------------------------------------------------------
(* The invariant.                                                          *)

\* Lists hold inodes in use, and only directories have one.
ListsAreOfDirs == \A f \in Inode : /\ son[f] \subseteq used \ {root}
                                   /\ son[f] # {} => f \in isDirectories
\* One list has an inode.
HasFather == \A h \in used \ {root} : \E f \in Inode : h \in son[f]
OneFather == \A f, g, h \in Inode : h \in son[f] /\ h \in son[g] => f = g

\* No inode is its own ancestor.
Rooted == \A set \in SUBSET used :
              set # {} => \E h \in set : \A f \in set : h \notin son[f]

\* A list that counts no son has none, which dhmpDeleteALL relies on.
Counted == \A f \in Inode : IsFiniteSet(son[f]) /\ Cardinality(son[f]) =< son_nums[f]

IInv == /\ TypeOK /\ root \in used
        /\ ListsAreOfDirs /\ HasFather /\ OneFather /\ Rooted /\ Counted /\ NamesAreSons

-----------------------------------------------------------------------------
(* Paths, and what dhmpDeleteALL gives back.                               *)

LEMMA FileIsName == ASSUME NEW path \in Paths PROVE file(path) \in Name
<1>1. PICK n \in 0 .. Depth : path \in [1 .. n -> Name]
  BY DEF Paths, Path
<1>2. n \in Nat
  BY BoundAssumption
<1>3. path \in Seq(Name) /\ Len(path) = n
  BY <1>1, <1>2
<1>4. n # 0
  BY <1>3 DEF Paths
<1>5. QED BY <1>1, <1>2, <1>3, <1>4 DEF file, Last

\* Everything in the lists of what is given back is given back.
LEMMA AllIsClosed ==
    ASSUME NEW t \in Inode, son \in [Inode -> SUBSET Inode]
    PROVE  /\ dhmpDeleteALL(t) \subseteq Inode /\ son[t] \subseteq dhmpDeleteALL(t)
           /\ \A g \in dhmpDeleteALL(t) : Descends(g, dhmpDeleteALL(t))
<1>1. dhmpDeleteALL(t) \subseteq Inode /\ son[t] \subseteq dhmpDeleteALL(t)
  BY DEF dhmpDeleteALL
<1>2. ASSUME NEW g \in dhmpDeleteALL(t), g \in isDirectories, son_nums[g] # 0, NEW h \in son[g]
      PROVE  h \in dhmpDeleteALL(t)
  <2>1. h \in Inode
    BY <1>1, <1>2
  <2>2. ASSUME NEW set \in SUBSET Inode, son[t] \subseteq set, \A k \in set : Descends(k, set)
        PROVE  h \in set
    <3>1. g \in set
      BY <1>2, <2>2 DEF dhmpDeleteALL
    <3>2. QED BY <1>2, <2>2, <3>1 DEF Descends
  <2>3. QED BY <2>1, <2>2 DEF dhmpDeleteALL
<1>3. QED BY <1>1, <1>2 DEF Descends

LEMMA AllIsLeast ==
    ASSUME NEW t \in Inode, NEW set \in SUBSET Inode, son[t] \subseteq set,
           \A g \in set : Descends(g, set)
    PROVE  dhmpDeleteALL(t) \subseteq set
  BY DEF dhmpDeleteALL

LEMMA SonsAreCounted ==
    ASSUME TypeOK, Counted, NEW f \in Inode, son_nums[f] = 0
    PROVE  son[f] = {}
<1>1. IsFiniteSet(son[f]) /\ Cardinality(son[f]) =< 0 /\ Cardinality(son[f]) \in Nat
  BY FS_CardinalityType DEF Counted
<1>2. Cardinality(son[f]) = 0
  BY <1>1
<1>3. QED BY <1>1, <1>2, FS_EmptySet

\* The inodes that dhmpDelete gives back with t.
Gone(t) == {t} \cup IF t \in isDirectories THEN dhmpDeleteALL(t) ELSE {}

\* With each inode they contain its sons, and besides t only sons of inodes
\* that they contain.  The directory that t is removed from is not among them.
LEMMA GoneIsSubtree ==
    ASSUME IInv, NEW father \in Inode, NEW t \in son[father], NEW gone,
           gone = Gone(t)
    PROVE  /\ gone \subseteq used \ {root} /\ gone \subseteq Inode
           /\ father \notin gone
           /\ \A g \in gone : son[g] \subseteq gone
           /\ \A g \in gone \ {t} : \E f \in gone : g \in son[f]
<1> DEFINE Inside == dhmpDeleteALL(t)
           set == {g \in Inode : \E f \in {t} \cup Inside : g \in son[f]}
<1>t. /\ son \in [Inode -> SUBSET Inode] /\ used \subseteq Inode /\ t \in Inode
      /\ \A f \in Inode : son[f] \subseteq used \ {root}
      /\ \A f \in Inode : son[f] # {} => f \in isDirectories /\ son_nums[f] # 0
  BY SonsAreCounted DEF IInv, TypeOK, ListsAreOfDirs
<1>1. /\ Inside \subseteq Inode /\ son[t] \subseteq Inside
      /\ \A g \in Inside : son[g] \subseteq Inside
  <2>1. /\ Inside \subseteq Inode /\ son[t] \subseteq Inside
        /\ \A g \in Inside : Descends(g, Inside)
    BY <1>t, AllIsClosed
  <2>2. QED BY <1>t, <2>1 DEF Descends
<1>2. Inside \subseteq set
  <2>1. set \subseteq Inside
    BY <1>1
  <2>2. son[t] \subseteq set
    BY <1>t
  <2>3. \A g \in set : Descends(g, set)
    BY <1>t, <2>1 DEF Descends
  <2> HIDE DEF Inside, set
  <2>4. QED BY <1>t, <2>2, <2>3, AllIsLeast DEF Inside, set
<1>3. \A g \in Inside : \E f \in {t} \cup Inside : g \in son[f]
  BY <1>2
<1>4. t \notin isDirectories => son[t] = {}
  BY <1>t
<1> HIDE DEF Inside, set
<1>5. gone = {t} \cup IF t \in isDirectories THEN Inside ELSE {}
  BY DEF Inside, Gone
<1>6. /\ \A g \in gone : son[g] \subseteq gone
      /\ \A g \in gone \ {t} : \E f \in gone : g \in son[f]
  BY <1>1, <1>3, <1>4, <1>5
<1>7. gone \subseteq Inode
  BY <1>1, <1>5, <1>t
<1>8. gone \subseteq used \ {root}
  BY <1>6, <1>7, <1>t
<1>9. father \notin gone
  <2>1. SUFFICES ASSUME father \in gone PROVE FALSE
    OBVIOUS
  <2>2. PICK h \in gone : \A f \in gone : h \notin son[f]
    BY <1>5, <1>8 DEF IInv, Rooted
  <2>3. QED BY <1>6, <2>1, <2>2
<1>10. QED BY <1>6, <1>7, <1>8, <1>9

-----------------------------------------------------------------------------
(* The operations.                                                         *)

LEMMA InitHolds == Init => IInv
<1> SUFFICES ASSUME Init PROVE IInv
  OBVIOUS
<1>1. TypeOK /\ root \in used
  <2>1. strayed \in BOOLEAN /\ crashed \in BOOLEAN
    BY DEF Init
  <2>2. QED BY <2>1, RootAssumption, BoundAssumption, NoneAssumption DEF Init, TypeOK, Empty
<1>2. ListsAreOfDirs /\ HasFather /\ OneFather
  BY DEF Init, ListsAreOfDirs, HasFather, OneFather
<1>3. Rooted
  BY RootAssumption DEF Init, Rooted
<1>4. Counted
  BY FS_EmptySet DEF Init, Counted
<1>5. NamesAreSons
  BY DEF Init, NamesAreSons, Empty
<1>6. QED BY <1>1, <1>2, <1>3, <1>4, <1>5 DEF IInv

LEMMA CreateStep ==
    ASSUME IInv, NEW father \in isDirectories, NEW name \in Name, NEW now \in Free,
           Create(father, name, now),
           isDirectories' = isDirectories \/ isDirectories' = isDirectories \cup {now}
    PROVE  IInv'
<1>t. /\ used \subseteq Inode /\ isDirectories \subseteq used /\ root \in used
      /\ filename \in [Inode -> Name \cup {None}]
      /\ son \in [Inode -> SUBSET Inode]
      /\ son_nums \in [Inode -> 0 .. MaxSons]
      /\ d_hash \in [Inode -> [Name -> Inode \cup {None}]]
      /\ father \in Inode /\ now \in Inode /\ now \notin used /\ father # now /\ now # root
  BY DEF IInv, TypeOK, Free
<1>1. /\ used' = used \cup {now} /\ filename' = [filename EXCEPT ![now] = name]
      /\ d_hash' = [d_hash EXCEPT ![father][name] = now]
      /\ son_nums[father] < MaxSons
      /\ son' = [son EXCEPT ![father] = @ \cup {now}]
      /\ son_nums' = [son_nums EXCEPT ![father] = @ + 1]
      /\ UNCHANGED <<strayed, crashed>>
  BY DEF Create, add_to_father
<1>2. /\ son'[father] = son[father] \cup {now}
      /\ \A f \in Inode \ {father} : son'[f] = son[f]
      /\ son_nums'[father] = son_nums[father] + 1
      /\ \A f \in Inode \ {father} : son_nums'[f] = son_nums[f]
      /\ filename'[now] = name /\ \A f \in Inode \ {now} : filename'[f] = filename[f]
      /\ d_hash'[father][name] = now
      /\ \A f \in Inode, n \in Name : f # father \/ n # name => d_hash'[f][n] = d_hash[f][n]
  BY <1>1, <1>t
<1>3. TypeOK'
  <2>1. son_nums[father] + 1 \in 0 .. MaxSons
    BY <1>1, <1>t, BoundAssumption
  <2>2. son_nums' \in [Inode -> 0 .. MaxSons] /\ son' \in [Inode -> SUBSET Inode]
    BY <1>1, <1>t, <2>1
  <2>3. used' \subseteq Inode /\ isDirectories' \subseteq used'
    BY <1>1, <1>t
  <2>4. filename' \in [Inode -> Name \cup {None}]
    BY <1>1, <1>t
  <2>5. d_hash' \in [Inode -> [Name -> Inode \cup {None}]]
    BY <1>1, <1>t
  <2>6. QED BY <1>1, <2>2, <2>3, <2>4, <2>5 DEF IInv, TypeOK
<1>4. ListsAreOfDirs'
  BY <1>1, <1>2, <1>t DEF IInv, ListsAreOfDirs
<1>5. HasFather'
  BY <1>1, <1>2, <1>t DEF IInv, HasFather
<1>n. \A f \in Inode : now \notin son[f] /\ son[f] \subseteq used
  BY <1>t DEF IInv, ListsAreOfDirs
<1>6. OneFather'
  <2>1. \A f, g, h \in Inode : h \in son[f] /\ h \in son[g] => f = g
    BY DEF IInv, OneFather
  <2>2. QED BY <1>2, <1>t, <1>n, <2>1 DEF OneFather
<1>7. Rooted'
  <2> SUFFICES ASSUME NEW set \in SUBSET used', set # {}
               PROVE  \E h \in set : \A f \in set : h \notin son'[f]
    BY DEF Rooted
  <2>1. set \subseteq Inode
    BY <1>1, <1>t
  <2>2. CASE set = {now}
    BY <1>2, <1>n, <1>t, <2>2
  <2>3. CASE set # {now}
    <3>1. set \ {now} \in SUBSET used /\ set \ {now} # {}
      BY <1>1, <2>3
    <3>2. PICK h \in set \ {now} : \A f \in set \ {now} : h \notin son[f]
      BY <3>1 DEF IInv, Rooted
    <3>3. son'[now] = {}
      <4>1. now \notin isDirectories
        BY <1>t
      <4>2. son[now] = {}
        BY <1>t, <4>1 DEF IInv, ListsAreOfDirs
      <4>3. QED BY <1>2, <1>t, <4>2
    <3>4. \A f \in set : h \notin son'[f]
      BY <1>2, <2>1, <3>2, <3>3
    <3>5. QED BY <3>2, <3>4
  <2>4. QED BY <2>2, <2>3
<1>8. Counted'
  <2> SUFFICES ASSUME NEW f \in Inode
               PROVE  IsFiniteSet(son'[f]) /\ Cardinality(son'[f]) =< son_nums'[f]
    BY DEF Counted
  <2>1. IsFiniteSet(son[f]) /\ Cardinality(son[f]) =< son_nums[f] /\ Cardinality(son[f]) \in Nat
        /\ son_nums[f] \in Nat
    BY <1>t, FS_CardinalityType, BoundAssumption DEF IInv, Counted
  <2>2. CASE f = father
    <3>1. now \notin son[f]
      BY <1>n
    <3>2. /\ IsFiniteSet(son[f] \cup {now})
          /\ Cardinality(son[f] \cup {now}) = Cardinality(son[f]) + 1
      BY <2>1, <3>1, FS_AddElement
    <3>3. son'[f] = son[f] \cup {now} /\ son_nums'[f] = son_nums[f] + 1
      BY <1>2, <2>2
    <3>4. QED BY <2>1, <3>2, <3>3
  <2>3. CASE f # father
    BY <1>2, <2>1, <2>3
  <2>4. QED BY <2>2, <2>3
<1>9. NamesAreSons'
  <2> SUFFICES ASSUME NEW f \in Inode, NEW n \in Name, d_hash'[f][n] # None
               PROVE  d_hash'[f][n] \in son'[f] /\ filename'[d_hash'[f][n]] = n
    BY DEF NamesAreSons
  <2>1. CASE f = father /\ n = name
    BY <1>2, <2>1
  <2>2. CASE f # father \/ n # name
    <3> DEFINE g == d_hash[f][n]
    <3>1. d_hash'[f][n] = g /\ g \in son[f] /\ filename[g] = n
      BY <1>2, <2>2 DEF IInv, NamesAreSons
    <3>2. g \in Inode /\ g # now
      BY <1>n, <1>t, <3>1
    <3> HIDE DEF g
    <3>3. QED BY <1>2, <3>1, <3>2
  <2>3. QED BY <2>1, <2>2
<1>10. QED BY <1>1, <1>3, <1>4, <1>5, <1>6, <1>7, <1>8, <1>9, <1>t DEF IInv

LEMMA RenameStep ==
    ASSUME IInv, NEW from \in Paths, NEW to \in Paths, dhmp_fs_rename(from, to)
    PROVE  IInv'
<1>0. PICK father, head, old, new :
          /\ father = search_d_hash(dirname(from)) /\ head = d_hash[father][file(from)]
          /\ old = file(from) /\ new = file(to)
  OBVIOUS
<1>1. /\ father \in isDirectories /\ head # None
      /\ filename' = [filename EXCEPT ![head] = new]
      /\ d_hash' = [d_hash EXCEPT ![father] = [[@ EXCEPT ![old] = None] EXCEPT ![new] = head]]
      /\ strayed' \in BOOLEAN
      /\ UNCHANGED <<used, isDirectories, son, son_nums, crashed>>
  BY <1>0 DEF dhmp_fs_rename, IInv, TypeOK
<1>2. old \in Name /\ new \in Name
  BY <1>0, FileIsName
<1>t. /\ used \subseteq Inode /\ isDirectories \subseteq used
      /\ filename \in [Inode -> Name \cup {None}]
      /\ son \in [Inode -> SUBSET Inode]
      /\ d_hash \in [Inode -> [Name -> Inode \cup {None}]]
      /\ father \in Inode /\ head = d_hash[father][old]
  BY <1>0, <1>1 DEF IInv, TypeOK
<1>3. head \in Inode /\ head \in son[father] /\ filename[head] = old
  BY <1>1, <1>2, <1>t DEF IInv, NamesAreSons
<1>4. TypeOK'
  <2>1. filename' \in [Inode -> Name \cup {None}]
    BY <1>1, <1>2, <1>t
  <2>2. d_hash' \in [Inode -> [Name -> Inode \cup {None}]]
    BY <1>1, <1>2, <1>3, <1>t
  <2>3. QED BY <1>1, <2>1, <2>2 DEF IInv, TypeOK
<1>5. NamesAreSons'
  <2> SUFFICES ASSUME NEW f \in Inode, NEW n \in Name, d_hash'[f][n] # None
               PROVE  d_hash'[f][n] \in son'[f] /\ filename'[d_hash'[f][n]] = n
    BY DEF NamesAreSons
  <2>1. CASE f = father /\ n = new
    BY <1>1, <1>2, <1>3, <1>t, <2>1
  <2>2. CASE f # father \/ n # new
    <3> DEFINE g == d_hash[f][n]
    <3>1. d_hash'[f][n] = g /\ (f = father => n # old)
      BY <1>1, <1>2, <1>t, <2>2
    <3>2. g \in son[f] /\ filename[g] = n
      BY <3>1 DEF IInv, NamesAreSons
    <3>3. g \in Inode
      BY <1>t, <3>2
    <3> HIDE DEF g
    <3>4. g # head
      BY <1>3, <1>t, <3>1, <3>2, <3>3 DEF IInv, OneFather
    <3>5. QED BY <1>1, <1>3, <1>t, <3>1, <3>2, <3>3, <3>4
  <2>3. QED BY <2>1, <2>2
<1>6. (ListsAreOfDirs /\ HasFather /\ OneFather /\ Rooted /\ Counted)'
  BY <1>1 DEF IInv, ListsAreOfDirs, HasFather, OneFather, Rooted, Counted
<1>7. QED BY <1>1, <1>4, <1>5, <1>6 DEF IInv

LEMMA DeleteStep == ASSUME IInv, NEW path \in Paths, dhmpDelete(path) PROVE IInv'
<1>0. PICK father, to_del, gone, name :
          /\ father = search_d_hash(dirname(path)) /\ name = file(path)
          /\ to_del = d_hash[father][name]
          /\ gone = {to_del} \cup IF to_del \in isDirectories THEN dhmpDeleteALL(to_del) ELSE {}
  OBVIOUS
<1>1. /\ father \in isDirectories /\ to_del # None
      /\ del_from_father(father, to_del) /\ reset_indoe(gone)
      /\ son' = [f \in Inode |-> IF f \in gone THEN {}
                                 ELSE IF f = father THEN son[f] \ {to_del} ELSE son[f]]
      /\ d_hash' = [f \in Inode |->
                      IF f \in gone THEN Empty
                      ELSE IF f = father THEN [d_hash[f] EXCEPT ![name] = None]
                      ELSE d_hash[f]]
      /\ UNCHANGED <<strayed, crashed>>
  BY <1>0 DEF dhmpDelete
<1>n. name \in Name
  BY <1>0, FileIsName
<1>t. /\ used \subseteq Inode /\ isDirectories \subseteq used /\ root \in used
      /\ filename \in [Inode -> Name \cup {None}]
      /\ son \in [Inode -> SUBSET Inode]
      /\ son_nums \in [Inode -> 0 .. MaxSons]
      /\ d_hash \in [Inode -> [Name -> Inode \cup {None}]]
      /\ father \in Inode /\ to_del = d_hash[father][name]
  BY <1>0, <1>1 DEF IInv, TypeOK
<1>2. to_del \in son[father] /\ filename[to_del] = name /\ to_del \in Inode
  BY <1>1, <1>n, <1>t DEF IInv, NamesAreSons
<1>3. /\ gone \subseteq used \ {root} /\ gone \subseteq Inode
      /\ father \notin gone /\ to_del \in gone
      /\ \A g \in gone : son[g] \subseteq gone
      /\ \A g \in gone \ {to_del} : \E f \in gone : g \in son[f]
  <2>1. gone = Gone(to_del)
    BY <1>0 DEF Gone
  <2>2. to_del \in gone
    BY <2>1 DEF Gone
  <2>3. QED BY <1>2, <1>t, <2>1, <2>2, GoneIsSubtree
<1>4. /\ used' = used \ gone /\ isDirectories' = isDirectories \ gone
      /\ filename' = [f \in Inode |-> IF f \in gone THEN None ELSE filename[f]]
      /\ son_nums' = [son_nums EXCEPT ![father] = @ - 1]
  BY <1>1, <1>2 DEF reset_indoe, del_from_father
<1>s. /\ \A f \in Inode : son'[f] \subseteq son[f]
      /\ \A f \in gone : son'[f] = {}
      /\ \A f \in Inode \ gone : f # father => son'[f] = son[f]
      /\ son'[father] = son[father] \ {to_del}
  BY <1>1, <1>3, <1>t
\* A son of what stays, stays, but for the entry that is removed.
<1>5. \A f \in Inode \ gone : \A g \in son[f] : g \in gone => g = to_del /\ f = father
  <2>1. \A f, g, h \in Inode : h \in son[f] /\ h \in son[g] => f = g
    BY DEF IInv, OneFather
  <2> SUFFICES ASSUME NEW f \in Inode \ gone, NEW g \in son[f], g \in gone
               PROVE  g = to_del /\ f = father
    OBVIOUS
  <2>2. g \in Inode
    BY <1>3
  <2>3. CASE g = to_del
    BY <1>2, <1>t, <2>1, <2>3
  <2>4. CASE g # to_del
    <3>1. PICK e \in gone : g \in son[e]
      BY <1>3, <2>4
    <3>2. e = f
      BY <1>3, <2>1, <2>2, <3>1
    <3>3. QED BY <3>2
  <2>5. QED BY <2>3, <2>4
<1>c. \A f \in Inode : IsFiniteSet(son[f]) /\ Cardinality(son[f]) =< son_nums[f]
                      /\ Cardinality(son[f]) \in Nat /\ son_nums[f] \in Nat
  BY <1>t, FS_CardinalityType, BoundAssumption DEF IInv, Counted
<1>d. /\ IsFiniteSet(son[father] \ {to_del})
      /\ Cardinality(son[father] \ {to_del}) = Cardinality(son[father]) - 1
  BY <1>2, <1>c, <1>t, FS_RemoveElement
<1>e. Cardinality(son[father] \ {to_del}) \in Nat
  BY <1>d, FS_CardinalityType
<1>m. son_nums[father] - 1 \in 0 .. MaxSons
  <2>1. son_nums[father] \in 0 .. MaxSons /\ Cardinality(son[father]) =< son_nums[father]
        /\ Cardinality(son[father]) \in Nat
    BY <1>c, <1>t
  <2>2. QED BY <1>d, <1>e, <2>1, BoundAssumption
<1>6. TypeOK'
  <2>1. used' \subseteq Inode /\ isDirectories' \subseteq used'
    BY <1>4, <1>t
  <2>2. filename' \in [Inode -> Name \cup {None}]
    BY <1>4, <1>t
  <2>3. son' \in [Inode -> SUBSET Inode]
    BY <1>1, <1>t
  <2>4. son_nums' \in [Inode -> 0 .. MaxSons]
    BY <1>4, <1>m, <1>t
  <2>5. d_hash' \in [Inode -> [Name -> Inode \cup {None}]]
    <3>1. Empty \in [Name -> Inode \cup {None}]
      BY DEF Empty
    <3>2. [d_hash[father] EXCEPT ![name] = None] \in [Name -> Inode \cup {None}]
      BY <1>t
    <3>3. QED BY <1>1, <1>t, <3>1, <3>2
  <2>6. QED BY <1>1, <2>1, <2>2, <2>3, <2>4, <2>5 DEF IInv, TypeOK
<1>7. ListsAreOfDirs'
  <2> SUFFICES ASSUME NEW f \in Inode
               PROVE  son'[f] \subseteq used' \ {root} /\ (son'[f] # {} => f \in isDirectories')
    BY DEF ListsAreOfDirs
  <2>1. son[f] \subseteq used \ {root} /\ (son[f] # {} => f \in isDirectories)
    BY DEF IInv, ListsAreOfDirs
  <2>2. CASE f \in gone
    BY <1>s, <2>2
  <2>3. CASE f \notin gone
    <3>1. son'[f] \cap gone = {}
      BY <1>5, <1>s, <2>3
    <3>2. QED BY <1>4, <1>s, <2>1, <2>3, <3>1
  <2>4. QED BY <2>2, <2>3
<1>8. HasFather'
  <2> SUFFICES ASSUME NEW h \in used \ {root}, h \notin gone PROVE \E f \in Inode : h \in son'[f]
    BY <1>4 DEF HasFather
  <2>1. PICK f \in Inode : h \in son[f]
    BY DEF IInv, HasFather
  <2>2. f \notin gone /\ h # to_del
    BY <1>3, <2>1
  <2>3. h \in son'[f]
    BY <1>s, <2>1, <2>2
  <2>4. QED BY <2>3
<1>9. OneFather'
  BY <1>s DEF IInv, OneFather
<1>10. Rooted'
  <2> SUFFICES ASSUME NEW set \in SUBSET used', set # {}
               PROVE  \E h \in set : \A f \in set : h \notin son'[f]
    BY DEF Rooted
  <2>1. set \in SUBSET used /\ set \subseteq Inode
    BY <1>4, <1>t
  <2>2. PICK h \in set : \A f \in set : h \notin son[f]
    BY <2>1 DEF IInv, Rooted
  <2>3. QED BY <1>s, <2>1, <2>2
<1>11. Counted'
  <2> SUFFICES ASSUME NEW f \in Inode
               PROVE  IsFiniteSet(son'[f]) /\ Cardinality(son'[f]) =< son_nums'[f]
    BY DEF Counted
  <2>1. CASE f \in gone
    <3>1. son_nums'[f] \in Nat /\ son'[f] = {}
      BY <1>3, <1>4, <1>c, <1>s, <1>t, <2>1
    <3>2. QED BY <3>1, FS_EmptySet
  <2>2. CASE f = father
    <3>1. son'[f] = son[father] \ {to_del} /\ son_nums'[f] = son_nums[father] - 1
      BY <1>4, <1>s, <1>t, <2>2
    <3>2. Cardinality(son[father]) =< son_nums[father] /\ Cardinality(son[father]) \in Nat
          /\ son_nums[father] \in Nat
      BY <1>c, <1>t
    <3>3. QED BY <1>d, <3>1, <3>2
  <2>3. CASE f \notin gone /\ f # father
    <3>1. son'[f] = son[f] /\ son_nums'[f] = son_nums[f]
      BY <1>4, <1>s, <1>t, <2>3
    <3>2. QED BY <1>c, <3>1
  <2>4. QED BY <2>1, <2>2, <2>3
<1>12. NamesAreSons'
  <2> SUFFICES ASSUME NEW f \in Inode, NEW n \in Name, d_hash'[f][n] # None
               PROVE  d_hash'[f][n] \in son'[f] /\ filename'[d_hash'[f][n]] = n
    BY DEF NamesAreSons
  <2> DEFINE g == d_hash[f][n]
  <2>1. f \notin gone
    BY <1>1 DEF Empty
  <2>2. d_hash'[f][n] = g /\ (f = father => n # name)
    BY <1>1, <1>n, <1>t, <2>1
  <2>3. g \in son[f] /\ filename[g] = n
    BY <2>2 DEF IInv, NamesAreSons
  <2>4. g \in Inode
    BY <1>t, <2>3
  <2> HIDE DEF g
  <2>5. g \notin gone
    BY <1>2, <1>5, <2>1, <2>2, <2>3
  <2>6. g \in son'[f]
    BY <1>3, <1>s, <2>1, <2>3, <2>5
  <2>7. filename'[g] = n
    BY <1>4, <2>3, <2>4, <2>5
  <2>8. QED BY <2>2, <2>6, <2>7
<1>13. QED BY <1>3, <1>4, <1>6, <1>7, <1>8, <1>9, <1>10, <1>11, <1>12, <1>t DEF IInv

\* A step that leaves the tree alone.
LEMMA TreeKept == ASSUME IInv, UNCHANGED tree, strayed' \in BOOLEAN, crashed' \in BOOLEAN
                  PROVE  IInv'
<1>1. UNCHANGED <<used, isDirectories, filename, son, son_nums, d_hash>>
  BY DEF tree
<1>2. TypeOK' /\ (root \in used)' /\ NamesAreSons'
  BY <1>1 DEF IInv, TypeOK, NamesAreSons
<1>3. (ListsAreOfDirs /\ HasFather /\ OneFather /\ Rooted /\ Counted)'
  BY <1>1 DEF IInv, ListsAreOfDirs, HasFather, OneFather, Rooted, Counted
<1>4. QED BY <1>2, <1>3 DEF IInv

LEMMA NextHolds == IInv /\ [Next]_vars => IInv'
<1> SUFFICES ASSUME IInv, [Next]_vars PROVE IInv'
  OBVIOUS
<1>t. strayed \in BOOLEAN /\ crashed \in BOOLEAN
  BY DEF IInv, TypeOK
<1>0. CASE Segfault
  BY <1>0, <1>t, TreeKept DEF Segfault
<1>1. ASSUME NEW path \in Paths, MkDir(path) \/ (Mknod(path) /\ ~Segfault) PROVE IInv'
  <2>0. PICK father, name : father = search_d_hash(dirname(path)) /\ name = file(path)
    OBVIOUS
  <2>1. father \in isDirectories
    BY <1>1, <2>0 DEF MkDir, Mknod
  <2>2. name \in Name
    BY <2>0, FileIsName
  <2>3. PICK now \in Free :
            /\ Create(father, name, now)
            /\ isDirectories' = isDirectories \/ isDirectories' = isDirectories \cup {now}
    BY <1>1, <2>0 DEF MkDir, Mknod
  <2>4. QED BY <2>1, <2>2, <2>3, CreateStep
<1>2. CASE UNCHANGED vars
  BY <1>2, <1>t, TreeKept DEF vars, tree
<1>3. QED BY <1>0, <1>1, <1>2, DeleteStep, RenameStep DEF Next, RenameLost, Resolve

\* The inductive invariant: besides the properties below, no inode is its own
\* ancestor, so that a removal never reaches the directory it starts from.
THEOREM Invariant == Spec => []IInv
<1>1. QED BY InitHolds, NextHolds, PTL DEF Spec

\* Every reachable state is well typed.
THEOREM TypeCorrect == Spec => []TypeOK
<1>1. IInv => TypeOK
  BY DEF IInv
<1>2. QED BY <1>1, Invariant, PTL

\* No inode is lost or shared: each one in use is in one list of sons, and
\* what dhmpDelete gives back is a whole subtree, however deep, although
\* dhmpDeleteALL goes by son_nums, which reset_indoe leaves as it is.
THEOREM NoInodeIsLost == Spec => []OneParent
<1>1. IInv => OneParent
  <2> SUFFICES ASSUME IInv PROVE OneParent
    OBVIOUS
  <2>1. ASSUME NEW f \in Inode
        PROVE  Cardinality({g \in used : f \in son[g]}) = IF f \in used \ {root} THEN 1 ELSE 0
    <3> DEFINE fathers == {g \in used : f \in son[g]}
    <3>t. used \subseteq Inode /\ isDirectories \subseteq used
      BY DEF IInv, TypeOK
    <3>1. CASE f \in used \ {root}
      <4>1. PICK g \in Inode : f \in son[g]
        BY <3>1 DEF IInv, HasFather
      <4>2. g \in used
        BY <3>t, <4>1 DEF IInv, ListsAreOfDirs
      <4>3. fathers = {g}
        BY <3>t, <4>1, <4>2 DEF IInv, OneFather
      <4> HIDE DEF fathers
      <4>4. Cardinality(fathers) = 1
        BY <4>3, FS_Singleton
      <4>5. QED BY <3>1, <4>4 DEF fathers
    <3>2. CASE f \notin used \ {root}
      <4>1. fathers = {}
        BY <3>t, <3>2 DEF IInv, ListsAreOfDirs
      <4> HIDE DEF fathers
      <4>2. Cardinality(fathers) = 0
        BY <4>1, FS_EmptySet
      <4>3. QED BY <3>2, <4>2 DEF fathers
    <3>3. QED BY <3>1, <3>2
  <2>2. \A f \in Inode : Cardinality(son[f]) =< son_nums[f]
    BY DEF IInv, Counted
  <2>3. QED BY <2>1, <2>2 DEF OneParent
<1>2. QED BY <1>1, Invariant, PTL

\* What a lookup finds is a son of the directory, in use, and has the name
\* that was asked for, after any creations, removals and renames.
THEOREM NamesAreOfSons == Spec => []NamesAreSons
<1>1. IInv => NamesAreSons
  BY DEF IInv
<1>2. QED BY <1>1, Invariant, PTL

-----------------------------------------------------------------------------
(* Lookups, by induction over the length of a path: a counterexample would *)
(* have one of the least length.                                           *)

Before == {p \in Nat \X Nat : p[1] < p[2]}
LEMMA Least == ASSUME NEW T \in SUBSET Nat, T # {}
               PROVE  \E n \in T : \A m \in T : ~ (m < n)
<1>1. IsWellFoundedOn(Before, Nat)
  BY NatLessThanWellFounded DEF OpToRel, Before
<1>2. \E x \in T : \A y \in T : ~(<<y, x>> \in Before)
  BY <1>1, WFMin
<1>3. QED BY <1>2 DEF Before

\* A path as a sequence, and the path of its directory.
LEMMA PathType == ASSUME NEW p \in Path
                  PROVE  p \in Seq(Name) /\ Len(p) \in 0 .. Depth /\ (Len(p) = 0 <=> p = <<>>)
<1>1. PICK n \in 0 .. Depth : p \in [1 .. n -> Name]
  BY DEF Path
<1>2. n \in Nat
  BY BoundAssumption
<1>3. QED BY <1>1, <1>2

LEMMA PathOf == ASSUME NEW p \in Seq(Name), Len(p) <= Depth PROVE p \in Path
<1>1. p \in [1 .. Len(p) -> Name] /\ Len(p) \in 0 .. Depth
  BY BoundAssumption
<1>2. QED BY <1>1 DEF Path

LEMMA FrontType ==
    ASSUME NEW p \in Paths
    PROVE  /\ Front(p) \in Path /\ Len(p) \in Nat \ {0} /\ Len(Front(p)) = Len(p) - 1
           /\ \A k \in 1 .. Len(p) - 1 : Front(p)[k] = p[k]
           /\ Last(p) = p[Len(p)] /\ Last(p) \in Name
           /\ p = Append(Front(p), Last(p))
<1>1. p \in Seq(Name) /\ Len(p) \in 0 .. Depth /\ Len(p) # 0
  BY PathType DEF Paths
<1>2. Len(p) \in Nat \ {0}
  BY <1>1, BoundAssumption
<1>3. Front(p) = [k \in 1 .. Len(p) - 1 |-> p[k]]
  BY <1>1, <1>2 DEF Front
<1>4. Front(p) \in Seq(Name) /\ Len(Front(p)) = Len(p) - 1
  BY <1>1, <1>2, <1>3
<1>5. Front(p) \in Path
  BY <1>1, <1>2, <1>4, PathOf, BoundAssumption
<1>6. Last(p) = p[Len(p)] /\ Last(p) \in Name
  BY <1>1, <1>2 DEF Last
<1>7. p = Append(Front(p), Last(p))
  BY <1>1, <1>2, <1>3, <1>4, <1>6
<1>8. QED BY <1>2, <1>3, <1>4, <1>5, <1>6, <1>7

LEMMA LeastPath == ASSUME NEW T \in SUBSET Path, T # {}
                   PROVE  \E p \in T : p = <<>> \/ (p \in Paths /\ Front(p) \in Path \ T)
<1> DEFINE lengths == {Len(p) : p \in T}
<1>1. lengths \in SUBSET Nat /\ lengths # {}
  <2>1. \A p \in T : Len(p) \in Nat
    BY PathType, BoundAssumption
  <2>2. QED BY <2>1
<1>2. \E n \in lengths : \A m \in lengths : ~(m < n)
  <2> HIDE DEF lengths
  <2>1. QED BY <1>1, Least
<1>3. PICK p \in T : \A q \in T : ~(Len(q) < Len(p))
  BY <1>2
<1>4. CASE p = <<>>
  BY <1>4
<1>5. CASE p # <<>>
  <2>1. p \in Paths
    BY <1>5 DEF Paths
  <2>2. Front(p) \in Path /\ Len(Front(p)) < Len(p)
    BY <2>1, FrontType
  <2>3. QED BY <1>3, <2>1, <2>2
<1>6. QED BY <1>4, <1>5

\* The loop over a path has the nodes g up to place n.
Walk(path, n, g) == g = [k \in 0 .. n |-> IF k = 0 THEN root ELSE step(g[k - 1], path[k])]

LEMMA Walks == ASSUME NEW path, NEW n \in Nat PROVE \E g : Walk(path, n, g)
<1> DEFINE Bad == {m \in Nat : ~ \E g : Walk(path, m, g)}
<1>1. ASSUME NEW m \in Bad, \A k \in Bad : ~(k < m) PROVE FALSE
  <2>1. CASE m = 0
    <3> DEFINE g == [k \in 0 .. 0 |-> root]
    <3>1. Walk(path, 0, g)
      BY DEF Walk
    <3>2. QED BY <1>1, <2>1, <3>1
  <2>2. CASE m # 0
    <3>1. m \in Nat /\ m - 1 \in Nat /\ m - 1 < m
      BY <2>2
    <3>2. PICK g : Walk(path, m - 1, g)
      BY <1>1, <3>1
    <3> DEFINE h == [k \in 0 .. m |-> IF k = 0 THEN root ELSE step(g[k - 1], path[k])]
    <3>3. \A k \in 0 .. m - 1 : h[k] = g[k]
      BY <3>1, <3>2 DEF Walk
    <3>4. \A k \in 0 .. m : k # 0 => k - 1 \in 0 .. m - 1
      BY <3>1
    <3>5. h = [k \in 0 .. m |-> IF k = 0 THEN root ELSE step(h[k - 1], path[k])]
      BY <3>3, <3>4
    <3> HIDE DEF h
    <3>6. Walk(path, m, h)
      BY <3>5 DEF Walk
    <3>7. QED BY <1>1, <3>6
  <2>3. QED BY <2>1, <2>2
<1>2. Bad = {}
  <2>1. Bad \in SUBSET Nat
    OBVIOUS
  <2> HIDE DEF Bad
  <2>2. QED BY <1>1, <2>1, Least
<1>3. QED BY <1>2

LEMMA SearchWalks ==
    ASSUME NEW path, Len(path) \in Nat
    PROVE  \E g : /\ search_d_hash(path) = g[Len(path)] /\ g[0] = root
                  /\ \A k \in 1 .. Len(path) : g[k] = step(g[k - 1], path[k])
<1> DEFINE g == CHOOSE g : Walk(path, Len(path), g)
<1>1. search_d_hash(path) = g[Len(path)]
  BY DEF search_d_hash, Walk
<1>2. Walk(path, Len(path), g)
  BY Walks
<1> HIDE DEF g
<1>3. g[0] = root /\ \A k \in 1 .. Len(path) : g[k] = step(g[k - 1], path[k])
  BY <1>2 DEF Walk
<1>4. QED BY <1>1, <1>3

\* A lookup is the lookup of the directory, and one step from there.
Lookup == /\ search_d_hash(<<>>) = root
          /\ \A p \in Paths : search_d_hash(p) = step(search_d_hash(Front(p)), Last(p))
LEMMA LookupHolds == Lookup
<1>1. search_d_hash(<<>>) = root
  <2>1. Len(<<>>) = 0
    OBVIOUS
  <2>2. QED BY <2>1, SearchWalks
<1>2. ASSUME NEW p \in Paths
      PROVE  search_d_hash(p) = step(search_d_hash(Front(p)), Last(p))
  <2> DEFINE q == Front(p)
             n == Len(p)
  <2>1. /\ n \in Nat \ {0} /\ Len(q) = n - 1 /\ \A k \in 1 .. n - 1 : q[k] = p[k]
        /\ Last(p) = p[n]
    BY FrontType
  <2>2. PICK g : /\ search_d_hash(p) = g[n] /\ g[0] = root
                 /\ \A k \in 1 .. n : g[k] = step(g[k - 1], p[k])
    BY <2>1, SearchWalks
  <2>3. PICK h : /\ search_d_hash(q) = h[n - 1] /\ h[0] = root
                 /\ \A k \in 1 .. n - 1 : h[k] = step(h[k - 1], q[k])
    <3> HIDE DEF q
    <3>1. Len(q) \in Nat
      BY <2>1
    <3>2. PICK h : /\ search_d_hash(q) = h[Len(q)] /\ h[0] = root
                   /\ \A k \in 1 .. Len(q) : h[k] = step(h[k - 1], q[k])
      BY <3>1, SearchWalks
    <3>3. QED BY <2>1, <3>2
  <2> HIDE DEF n, q
  <2> DEFINE Bad == {k \in Nat : k < n /\ g[k] # h[k]}
  <2>4. ASSUME NEW k \in Bad, \A m \in Bad : ~(m < k) PROVE FALSE
    <3>1. k # 0
      BY <2>2, <2>3
    <3>2. k - 1 \in Nat /\ k - 1 < n /\ k - 1 < k /\ k \in 1 .. n - 1 /\ k \in 1 .. n
      BY <2>1, <3>1
    <3>3. g[k - 1] = h[k - 1]
      BY <2>4, <3>2
    <3>4. QED BY <2>1, <2>2, <2>3, <3>2, <3>3
  <2>5. Bad = {}
    <3>1. Bad \in SUBSET Nat
      OBVIOUS
    <3> HIDE DEF Bad
    <3>2. QED BY <2>4, <3>1, Least
  <2>6. g[n - 1] = h[n - 1]
    BY <2>1, <2>5
  <2>7. QED BY <2>1, <2>2, <2>3, <2>6 DEF q
<1>3. QED BY <1>1, <1>2 DEF Lookup

LEMMA LookupNext == Lookup'
  BY LookupHolds, PTL

-----------------------------------------------------------------------------
(* What a lookup finds, and what a step leaves of it.                       *)
\* What a lookup finds is a son of what the lookup of the directory finds.
LEMMA Finds ==
    ASSUME IInv, NEW p \in Paths, search_d_hash(p) # None
    PROVE  /\ search_d_hash(Front(p)) \in isDirectories
           /\ search_d_hash(p) = d_hash[search_d_hash(Front(p))][Last(p)]
           /\ search_d_hash(p) \in son[search_d_hash(Front(p))]
           /\ filename[search_d_hash(p)] = Last(p)
           /\ search_d_hash(p) \in used \ {root}
<1> DEFINE Typed(q) == search_d_hash(q) \in Inode \cup {None}
           Bad == {q \in Path : ~Typed(q)}
<1>1. ASSUME NEW q \in Paths, Typed(Front(q)) PROVE Typed(q)
  <2>1. search_d_hash(q) = step(search_d_hash(Front(q)), Last(q)) /\ Last(q) \in Name
    BY LookupHolds, FrontType DEF Lookup
  <2>2. QED BY <1>1, <2>1 DEF step, IInv, TypeOK
<1>2. Bad = {}
  <2>1. <<>> \notin Bad
    BY LookupHolds, RootAssumption DEF Lookup
  <2>2. ASSUME NEW q \in Bad, q \in Paths, Front(q) \in Path \ Bad PROVE FALSE
    BY <1>1, <2>2
  <2>3. Bad \in SUBSET Path
    OBVIOUS
  <2> HIDE DEF Bad
  <2>4. QED BY <2>1, <2>2, <2>3, LeastPath
<1> DEFINE g == search_d_hash(Front(p))
<1>3. g \in Inode \cup {None} /\ Last(p) \in Name
  BY <1>2, FrontType
<1>4. search_d_hash(p) = step(g, Last(p))
  BY LookupHolds DEF Lookup
<1> HIDE DEF g
<1>5. g \in Inode /\ search_d_hash(p) = d_hash[g][Last(p)]
  BY <1>3, <1>4 DEF step
<1>6. search_d_hash(p) \in son[g] /\ filename[search_d_hash(p)] = Last(p)
  BY <1>3, <1>5 DEF IInv, NamesAreSons
<1>7. g \in isDirectories /\ search_d_hash(p) \in used \ {root}
  BY <1>5, <1>6 DEF IInv, ListsAreOfDirs
<1>8. QED BY <1>5, <1>6, <1>7 DEF g

\* An inode is found by one path.
LEMMA OnePath ==
    ASSUME IInv, NEW p \in Path, NEW q \in Path, search_d_hash(p) # None,
           search_d_hash(q) = search_d_hash(p)
    PROVE  p = q
<1> DEFINE Bad == {r \in Path : /\ search_d_hash(r) # None
                                /\ \E s \in Path : s # r /\ search_d_hash(s) = search_d_hash(r)}
<1>1. search_d_hash(<<>>) = root
  BY LookupHolds DEF Lookup
<1>2. <<>> \notin Bad
  <2>1. ASSUME NEW s \in Path, s # <<>>, search_d_hash(s) = root PROVE FALSE
    <3>1. s \in Paths /\ search_d_hash(s) # None
      BY <2>1, RootAssumption, NoneAssumption DEF Paths
    <3>2. QED BY <2>1, <3>1, Finds
  <2>2. QED BY <1>1, <2>1
<1>3. ASSUME NEW r \in Bad, r \in Paths, Front(r) \in Path \ Bad PROVE FALSE
  <2>1. PICK s \in Path : s # r /\ search_d_hash(s) = search_d_hash(r)
    OBVIOUS
  <2>2. search_d_hash(r) # None
    OBVIOUS
  <2>3. /\ search_d_hash(Front(r)) \in isDirectories
        /\ search_d_hash(r) \in son[search_d_hash(Front(r))]
        /\ filename[search_d_hash(r)] = Last(r) /\ search_d_hash(r) \in used \ {root}
    BY <1>3, <2>2, Finds
  <2>4. s \in Paths
    BY <1>1, <2>1, <2>3 DEF Paths
  <2>5. /\ search_d_hash(Front(s)) \in isDirectories
        /\ search_d_hash(s) \in son[search_d_hash(Front(s))]
        /\ filename[search_d_hash(s)] = Last(s)
    BY <2>1, <2>2, <2>4, Finds
  <2>6. search_d_hash(Front(r)) = search_d_hash(Front(s))
    BY <2>1, <2>3, <2>5 DEF IInv, OneFather, TypeOK
  <2>7. search_d_hash(Front(r)) # None
    BY <2>3, NoneAssumption DEF IInv, TypeOK
  <2>8. Front(s) \in Path
    BY <2>4, FrontType
  <2>9. Front(r) = Front(s)
    BY <1>3, <2>6, <2>7, <2>8
  <2>10. r = Append(Front(r), Last(r)) /\ s = Append(Front(s), Last(s))
    BY <1>3, <2>4, FrontType
  <2>11. QED BY <2>1, <2>3, <2>5, <2>9, <2>10
<1>4. Bad = {}
  <2>1. Bad \in SUBSET Path
    OBVIOUS
  <2> HIDE DEF Bad
  <2>2. QED BY <1>2, <1>3, <2>1, LeastPath
<1>5. QED BY <1>4

\* The paths below a path.
LEMMA BelowStep ==
    ASSUME NEW path \in Path, NEW p \in Path
    PROVE  p \in Promise!Below(path)
           <=> p = path \/ (p \in Paths /\ Front(p) \in Promise!Below(path))
<1>1. /\ p \in Seq(Name) /\ path \in Seq(Name) /\ Len(p) \in Nat /\ Len(path) \in Nat
  BY PathType
<1>2. ASSUME NEW q \in Path
      PROVE  q \in Promise!Below(path)
             <=> Len(path) <= Len(q) /\ \A k \in 1 .. Len(path) : path[k] = q[k]
  <2>1. q \in Seq(Name) /\ Len(q) \in Nat
    BY PathType
  <2>2. q \in Promise!Below(path) <=> Len(path) <= Len(q) /\ SubSeq(path, 1, Len(path)) = SubSeq(q, 1, Len(path))
    BY DEF Promise!Below, Promise!IsPrefix, Promise!Path, Path
  <2>3. QED BY <1>1, <2>1, <2>2
<1>3. CASE p = <<>>
  <2>1. Len(p) = 0 /\ p \notin Paths
    BY <1>3 DEF Paths
  <2>2. Len(path) = 0 <=> path = <<>>
    BY PathType
  <2>3. QED BY <1>1, <1>2, <1>3, <2>1, <2>2
<1>4. CASE p # <<>>
  <2>1. p \in Paths
    BY <1>4 DEF Paths
  <2>2. /\ Front(p) \in Path /\ Len(p) \in Nat \ {0} /\ Len(Front(p)) = Len(p) - 1
        /\ \A k \in 1 .. Len(p) - 1 : Front(p)[k] = p[k]
    BY <2>1, FrontType
  <2>3. CASE Len(path) < Len(p)
    <3>1. p # path /\ 1 .. Len(path) \subseteq 1 .. Len(p) - 1 /\ Len(path) <= Len(p) - 1
      BY <1>1, <2>2, <2>3
    <3>2. QED BY <1>1, <1>2, <2>1, <2>2, <3>1
  <2>4. CASE Len(path) >= Len(p)
    <3>1. ~(Len(path) <= Len(p) - 1)
      BY <1>1, <2>4
    <3>2. Front(p) \notin Promise!Below(path)
      BY <1>2, <2>2, <3>1
    <3>3. p \in Promise!Below(path) <=> p = path
      <4>1. Len(path) = Len(p) => (p = path <=> \A k \in 1 .. Len(path) : path[k] = p[k])
        BY <1>1
      <4>2. QED BY <1>1, <1>2, <2>4, <4>1
    <3>4. QED BY <3>2, <3>3
  <2>5. QED BY <1>1, <2>3, <2>4
<1>5. QED BY <1>3, <1>4

LEMMA RootPath == <<>> \in Path /\ Paths \subseteq Path /\ <<>> \notin Paths
<1>1. <<>> \in Seq(Name) /\ Len(<<>>) <= Depth
  BY BoundAssumption
<1>2. QED BY <1>1, PathOf DEF Paths

LEMMA NotBelowRoot == ASSUME NEW path \in Paths PROVE <<>> \notin Promise!Below(path) /\ path \in Path
<1>1. path \in Path /\ path # <<>> /\ <<>> \in Path /\ <<>> \notin Paths
  BY RootPath
<1>2. QED BY <1>1, BelowStep

\* Above and beside a path: nothing that is looked up there is below the path.
LEMMA FrontBeside ==
    ASSUME NEW path \in Paths, NEW q \in Paths, q \notin Promise!Below(path)
    PROVE  Front(q) \notin Promise!Below(path) /\ Front(q) \in Path /\ q \in Path
  BY BelowStep, FrontType DEF Paths

LEMMA FrontOut == ASSUME NEW path \in Paths
                  PROVE  Front(path) \in Path /\ Front(path) \notin Promise!Below(path)
<1>1. /\ Front(path) \in Path /\ Len(path) \in Nat \ {0} /\ Len(Front(path)) = Len(path) - 1
  BY FrontType
<1>2. ~(Len(path) <= Len(Front(path)))
  BY <1>1
<1>3. QED BY <1>1, <1>2 DEF Promise!Below, Promise!IsPrefix

\* The lookups that a step leaves alone, ...
LEMMA Kept ==
    ASSUME NEW set \in SUBSET Path,
           \A q \in set \cap Paths :
              /\ Front(q) \in set
              /\ search_d_hash(Front(q)) # None
                 => d_hash'[search_d_hash(Front(q))][Last(q)]
                    = d_hash[search_d_hash(Front(q))][Last(q)]
    PROVE  \A q \in set : search_d_hash(q)' = search_d_hash(q)
<1> DEFINE Bad == {q \in set : search_d_hash(q)' # search_d_hash(q)}
<1>1. <<>> \notin Bad
  BY LookupHolds, LookupNext DEF Lookup
<1>2. ASSUME NEW q \in Bad, q \in Paths, Front(q) \in Path \ Bad PROVE FALSE
  <2>1. search_d_hash(Front(q))' = search_d_hash(Front(q))
    BY <1>2
  <2>2. search_d_hash(q) = step(search_d_hash(Front(q)), Last(q))
    BY <1>2, LookupHolds DEF Lookup
  <2>3. search_d_hash(q)' = step(search_d_hash(Front(q)), Last(q))'
    BY <1>2, LookupNext DEF Lookup
  <2>4. QED BY <1>2, <2>1, <2>2, <2>3 DEF step
<1>3. Bad = {}
  <2>1. Bad \in SUBSET Path
    OBVIOUS
  <2> HIDE DEF Bad
  <2>2. QED BY <1>1, <1>2, <2>1, LeastPath
<1>4. QED BY <1>3

\* ... and those that find nothing after it: below a path that leads nowhere.
LEMMA Nothing ==
    ASSUME NEW path \in Path, search_d_hash(path) = None
    PROVE  \A q \in Promise!Below(path) : search_d_hash(q) = None
<1> DEFINE Bad == {q \in Promise!Below(path) : search_d_hash(q) # None}
<1>1. Bad \in SUBSET Path
  BY DEF Promise!Below, Promise!Path, Path
<1>2. <<>> \notin Bad
  <2>1. search_d_hash(<<>>) = root /\ root # None
    BY LookupHolds, RootAssumption, NoneAssumption DEF Lookup
  <2>2. CASE path = <<>>
    BY <2>1, <2>2
  <2>3. CASE path # <<>>
    <3>1. path \in Paths
      BY <2>3 DEF Paths
    <3>2. QED BY <3>1, NotBelowRoot
  <2>4. QED BY <2>2, <2>3
<1>3. ASSUME NEW q \in Bad, q \in Paths, Front(q) \in Path \ Bad PROVE FALSE
  <2>1. q \in Path /\ q # path
    BY <1>1
  <2>2. Front(q) \in Promise!Below(path)
    BY <2>1, BelowStep
  <2>3. search_d_hash(Front(q)) = None
    BY <1>3, <2>2
  <2>4. search_d_hash(q) = step(search_d_hash(Front(q)), Last(q))
    BY <1>3, LookupHolds DEF Lookup
  <2>5. QED BY <2>3, <2>4 DEF step
<1>4. Bad = {}
  <2> HIDE DEF Bad
  <2>1. QED BY <1>1, <1>2, <1>3, LeastPath
<1>5. QED BY <1>4

NothingHere == \A path \in Path : search_d_hash(path) = None
                  => \A q \in Promise!Below(path) : search_d_hash(q) = None
LEMMA NothingNext == NothingHere'
<1>1. NothingHere
  BY Nothing DEF NothingHere
<1>2. QED BY <1>1, PTL

-----------------------------------------------------------------------------
(* Each operation keeps the promise of the namespace.                       *)
\* What the namespace has at the path of an inode.
KindOf(f) == IF f = None THEN "none" ELSE IF f \in isDirectories THEN "dir" ELSE "file"
LEMMA Kinds ==
    /\ Kind = [p \in Path |-> KindOf(search_d_hash(p))]
    /\ Kind' = [p \in Path |-> KindOf(search_d_hash(p))']
    /\ Promise!Path = Path /\ \A p : Promise!Parent(p) = Front(p)
  BY DEF Kind, KindOf, Promise!Path, Path, Promise!Parent, Promise!Front, Front

\* At first there is the root only.
LEMMA PromiseInit == ASSUME Init, IInv PROVE Promise!Init
<1>1. search_d_hash(<<>>) = root /\ root # None /\ root \in isDirectories
  BY LookupHolds, RootAssumption, NoneAssumption DEF Lookup, Init
<1>2. ASSUME NEW p \in Path, p # <<>> PROVE search_d_hash(p) = None
  <2>1. p \in Paths
    BY <1>2 DEF Paths
  <2>2. ASSUME search_d_hash(p) # None PROVE FALSE
    <3>1. /\ search_d_hash(Front(p)) \in isDirectories
          /\ search_d_hash(p) = d_hash[search_d_hash(Front(p))][Last(p)]
      BY <2>1, <2>2, Finds
    <3>2. search_d_hash(Front(p)) \in Inode /\ Last(p) \in Name
      BY <2>1, <3>1, FrontType DEF IInv, TypeOK
    <3>3. d_hash[search_d_hash(Front(p))][Last(p)] = None
      BY <3>2 DEF Init, Empty
    <3>4. QED BY <2>2, <3>1, <3>3
  <2>3. QED BY <2>2
<1>3. Kind = [p \in Path |-> KindOf(search_d_hash(p))] /\ Promise!Path = Path
  BY Kinds
<1>4. \A p \in Path : KindOf(search_d_hash(p)) = IF p = <<>> THEN "dir" ELSE "none"
  BY <1>1, <1>2 DEF KindOf
<1>5. QED BY <1>3, <1>4 DEF Promise!Init

\* A new entry is at its path and changes nothing else.
LEMMA CreateKinds ==
    ASSUME IInv, NEW path \in Paths, NEW father \in isDirectories,
           father = search_d_hash(Front(path)), NEW now \in Free,
           Create(father, Last(path), now), NEW k \in {"dir", "file"},
           isDirectories' = IF k = "dir" THEN isDirectories \cup {now} ELSE isDirectories
    PROVE  Promise!Make(path, k)
<1> DEFINE name == Last(path)
           Rest == Path \ Promise!Below(path)
<1>t. /\ used \subseteq Inode /\ isDirectories \subseteq used
      /\ d_hash \in [Inode -> [Name -> Inode \cup {None}]]
      /\ father \in Inode /\ now \in Inode /\ now \notin used /\ father # now
      /\ now # None /\ father # None /\ name \in Name /\ path \in Path /\ path # <<>>
  BY FrontType, NoneAssumption DEF IInv, TypeOK, Free, Paths
<1>1. /\ d_hash[father][name] = None
      /\ d_hash' = [d_hash EXCEPT ![father][name] = now]
  BY DEF Create
<1>2. /\ d_hash'[father][name] = now
      /\ \A f \in Inode, n \in Name : f # father \/ n # name => d_hash'[f][n] = d_hash[f][n]
  BY <1>1, <1>t
<1>3. search_d_hash(path) = None
  <2>1. search_d_hash(path) = step(father, name)
    BY LookupHolds DEF Lookup
  <2>2. QED BY <1>1, <1>t, <2>1 DEF step
<1>4. \A q \in Promise!Below(path) : search_d_hash(q) = None
  BY <1>3, <1>t, Nothing
<1>5. \A q \in Rest : search_d_hash(q)' = search_d_hash(q)
  <2>1. ASSUME NEW q \in Rest, q \in Paths
        PROVE  /\ Front(q) \in Rest
               /\ search_d_hash(Front(q)) # None
                  => d_hash'[search_d_hash(Front(q))][Last(q)]
                     = d_hash[search_d_hash(Front(q))][Last(q)]
    <3>1. Front(q) \in Rest /\ q # path
      BY <2>1, FrontBeside, BelowStep, <1>t
    <3>2. ASSUME search_d_hash(Front(q)) = father, Last(q) = name PROVE FALSE
      <4>1. Front(path) \in Path
        BY FrontOut
      <4>2. Front(q) = Front(path)
        BY <1>t, <3>1, <3>2, <4>1, OnePath
      <4>3. q = Append(Front(q), Last(q)) /\ path = Append(Front(path), Last(path))
        BY <2>1, FrontType
      <4>4. QED BY <3>1, <3>2, <4>2, <4>3
    <3>3. ASSUME search_d_hash(Front(q)) # None PROVE search_d_hash(Front(q)) \in Inode
      <4>1. CASE Front(q) = <<>>
        BY <4>1, LookupHolds, RootAssumption DEF Lookup
      <4>2. CASE Front(q) # <<>>
        <5>1. Front(q) \in Paths
          BY <3>1, <4>2 DEF Paths
        <5>2. QED BY <1>t, <3>3, <5>1, Finds
      <4>3. QED BY <4>1, <4>2
    <3>4. Last(q) \in Name
      BY <2>1, FrontType
    <3>5. QED BY <1>2, <3>1, <3>2, <3>3, <3>4
  <2>2. Rest \in SUBSET Path
    OBVIOUS
  <2> HIDE DEF Rest
  <2>3. QED BY <2>1, <2>2, Kept
<1>6. search_d_hash(path)' = now
  <2>1. Front(path) \in Rest
    BY FrontOut
  <2>2. search_d_hash(Front(path))' = father
    BY <1>5, <2>1
  <2>3. search_d_hash(path)' = step(search_d_hash(Front(path)), Last(path))'
    BY LookupNext DEF Lookup
  <2>4. QED BY <1>2, <1>t, <2>2, <2>3 DEF step
<1>7. ASSUME NEW q \in Promise!Below(path), q # path PROVE search_d_hash(q)' = None
  <2>1. q \in Path
    BY DEF Promise!Below, Promise!Path, Path
  <2>2. q \in Paths /\ Front(q) \in Promise!Below(path) /\ Front(q) \in Path
    BY <1>7, <1>t, <2>1, BelowStep, FrontType
  <2>3. d_hash'[now] = Empty
    <3>1. ASSUME NEW n \in Name PROVE d_hash[now][n] = None
      <4>1. now \notin isDirectories
        BY <1>t
      <4>2. son[now] = {}
        BY <1>t, <4>1 DEF IInv, ListsAreOfDirs
      <4>3. QED BY <1>t, <4>2 DEF IInv, NamesAreSons
    <3>2. d_hash'[now] = d_hash[now] /\ d_hash[now] \in [Name -> Inode \cup {None}]
      BY <1>1, <1>t
    <3>3. QED BY <3>1, <3>2 DEF Empty
  \* The first step below the path finds nothing.
  <2>4. PICK r \in Path : /\ r \in Promise!Below(path) \ {path} /\ r \in Paths
                          /\ Front(r) = path /\ q \in Promise!Below(r)
    <3> DEFINE Bad == {u \in Promise!Below(path) \ {path} :
                         ~ \E r \in Paths : Front(r) = path /\ r \in Promise!Below(path) \ {path}
                                            /\ u \in Promise!Below(r)}
    <3>1. Bad \in SUBSET Path
      BY DEF Promise!Below, Promise!Path, Path
    <3>2. <<>> \notin Bad
      BY NotBelowRoot
    <3>3. ASSUME NEW u \in Bad, u \in Paths, Front(u) \in Path \ Bad PROVE FALSE
      <4>1. u \in Path /\ u # path /\ u \in Promise!Below(path)
        BY <3>1
      <4>2. Front(u) \in Promise!Below(path)
        BY <1>t, <4>1, BelowStep
      <4>3. CASE Front(u) = path
        <5>1. u \in Promise!Below(u)
          BY <4>1, BelowStep
        <5>2. QED BY <3>3, <4>1, <4>3, <5>1
      <4>4. CASE Front(u) # path
        <5>1. PICK r \in Paths : /\ Front(r) = path /\ r \in Promise!Below(path) \ {path}
                                 /\ Front(u) \in Promise!Below(r)
          BY <3>3, <4>2, <4>4
        <5>2. u \in Promise!Below(r)
          BY <3>3, <4>1, <5>1, BelowStep, RootPath
        <5>3. QED BY <5>1, <5>2
      <4>5. QED BY <4>3, <4>4
    <3>4. Bad = {}
      <4> HIDE DEF Bad
      <4>1. QED BY <3>1, <3>2, <3>3, LeastPath
    <3>5. QED BY <1>7, <3>4, RootPath
  <2>5. search_d_hash(r)' = None
    <3>1. search_d_hash(r)' = step(search_d_hash(Front(r)), Last(r))'
      BY <2>4, LookupNext DEF Lookup
    <3>2. search_d_hash(Front(r))' = now /\ Last(r) \in Name
      BY <1>6, <2>4, FrontType
    <3>3. QED BY <1>t, <2>3, <3>1, <3>2 DEF step, Empty
  <2>6. QED BY <2>4, <2>5, NothingNext DEF NothingHere
<1>8. Kind[path] = "none" /\ Kind[Promise!Parent(path)] = "dir"
  <2>1. Front(path) \in Path
    BY FrontOut
  <2>2. Kind[path] = KindOf(None) /\ Kind[Promise!Parent(path)] = KindOf(father)
    BY <1>3, <1>t, <2>1, Kinds
  <2>3. QED BY <1>t, <2>2 DEF KindOf
<1>9. Kind' = [Kind EXCEPT ![path] = k]
  <2>1. /\ Kind = [p \in Path |-> KindOf(search_d_hash(p))]
        /\ Kind' = [p \in Path |-> KindOf(search_d_hash(p))']
    BY Kinds
  <2>2. KindOf(search_d_hash(path))' = k
    BY <1>6, <1>t DEF KindOf
  <2>3. ASSUME NEW p \in Path, p # path
        PROVE  KindOf(search_d_hash(p))' = KindOf(search_d_hash(p))
    <3>1. CASE p \in Promise!Below(path)
      <4>1. search_d_hash(p)' = None /\ search_d_hash(p) = None
        BY <1>4, <1>7, <2>3, <3>1
      <4>2. QED BY <4>1 DEF KindOf
    <3>2. CASE p \notin Promise!Below(path)
      <4>1. search_d_hash(p)' = search_d_hash(p)
        BY <1>5, <3>2
      <4>2. search_d_hash(p) # now
        <5>1. CASE p = <<>>
          BY <5>1, <1>t, LookupHolds DEF Lookup, IInv
        <5>2. CASE p # <<>>
          <6>1. p \in Paths
            BY <5>2 DEF Paths
          <6>2. QED BY <1>t, <6>1, Finds
        <5>3. QED BY <5>1, <5>2
      <4>3. QED BY <4>1, <4>2 DEF KindOf
    <3>3. QED BY <3>1, <3>2
  <2>4. QED BY <1>t, <2>1, <2>2, <2>3
<1>10. QED BY <1>8, <1>9, <1>t DEF Promise!Make

\* What a lookup finds is in use.
LEMMA FoundUsed == ASSUME IInv, NEW q \in Path, search_d_hash(q) # None
                   PROVE  search_d_hash(q) \in used /\ search_d_hash(q) \in Inode
<1>1. CASE q = <<>>
  BY <1>1, LookupHolds, RootAssumption DEF Lookup, IInv
<1>2. CASE q # <<>>
  <2>1. q \in Paths
    BY <1>2 DEF Paths
  <2>2. QED BY <2>1, Finds DEF IInv, TypeOK
<1>3. QED BY <1>1, <1>2

\* Two paths with the directory and the name of one are one.
LEMMA SameEntry ==
    ASSUME IInv, NEW p \in Paths, NEW q \in Paths, search_d_hash(Front(p)) # None,
           search_d_hash(Front(q)) = search_d_hash(Front(p)), Last(q) = Last(p)
    PROVE  q = p
<1>1. Front(p) \in Path /\ Front(q) \in Path
  BY FrontType
<1>2. Front(p) = Front(q)
  BY <1>1, OnePath
<1>3. p = Append(Front(p), Last(p)) /\ q = Append(Front(q), Last(q))
  BY FrontType
<1>4. QED BY <1>2, <1>3

\* What is removed is what was at the path and below it, and nothing else.
LEMMA DeleteKinds ==
    ASSUME IInv, NEW path \in Paths, dhmpDelete(path)
    PROVE  /\ Kind[path] # "none"
           /\ Kind' = [p \in Path |-> IF p \in Promise!Below(path) THEN "none" ELSE Kind[p]]
<1> DEFINE Rest == Path \ Promise!Below(path)
<1>0. PICK father, to_del, gone, name :
          /\ father = search_d_hash(Front(path)) /\ name = Last(path)
          /\ to_del = d_hash[father][name] /\ gone = Gone(to_del)
  OBVIOUS
<1>1. /\ father \in isDirectories /\ to_del # None
      /\ isDirectories' = isDirectories \ gone
      /\ d_hash' = [f \in Inode |->
                      IF f \in gone THEN Empty
                      ELSE IF f = father THEN [d_hash[f] EXCEPT ![name] = None]
                      ELSE d_hash[f]]
  BY <1>0 DEF dhmpDelete, dirname, file, Gone, reset_indoe
<1>t. /\ used \subseteq Inode /\ root \in used
      /\ d_hash \in [Inode -> [Name -> Inode \cup {None}]]
      /\ father \in Inode /\ father # None /\ name \in Name /\ path \in Path /\ path # <<>>
  BY <1>0, <1>1, FrontType, NoneAssumption DEF IInv, TypeOK, Paths
<1>2. search_d_hash(path) = to_del
  <2>1. search_d_hash(path) = step(father, name)
    BY <1>0, LookupHolds DEF Lookup
  <2>2. QED BY <1>0, <1>t, <2>1 DEF step
<1>3. to_del \in son[father]
  BY <1>0, <1>1, <1>t DEF IInv, NamesAreSons
<1>4. /\ gone \subseteq used \ {root} /\ gone \subseteq Inode /\ father \notin gone
      /\ \A g \in gone \ {to_del} : \E f \in gone : g \in son[f]
  BY <1>0, <1>3, <1>t, GoneIsSubtree
<1>5. \A q \in Path : search_d_hash(q) \in gone => q \in Promise!Below(path)
  <2> DEFINE Bad == {q \in Path : search_d_hash(q) \in gone /\ q \notin Promise!Below(path)}
  <2>1. <<>> \notin Bad
    BY <1>4, LookupHolds DEF Lookup
  <2>2. ASSUME NEW q \in Bad, q \in Paths, Front(q) \in Path \ Bad PROVE FALSE
    <3>1. /\ q \in Path /\ search_d_hash(q) \in gone /\ q \notin Promise!Below(path)
          /\ search_d_hash(q) # None
      BY <1>4, NoneAssumption
    <3>2. /\ search_d_hash(Front(q)) \in isDirectories
          /\ search_d_hash(q) \in son[search_d_hash(Front(q))]
      BY <2>2, <3>1, Finds
    <3>3. CASE search_d_hash(q) = to_del
      <4>1. q = path
        BY <1>1, <1>2, <1>t, <3>1, <3>3, OnePath
      <4>2. QED BY <1>t, <3>1, <4>1, BelowStep
    <3>4. CASE search_d_hash(q) # to_del
      <4>1. PICK e \in gone : search_d_hash(q) \in son[e]
        BY <1>4, <3>1, <3>4
      <4>2. search_d_hash(Front(q)) = e
        BY <1>4, <3>1, <3>2, <4>1 DEF IInv, OneFather, TypeOK
      <4>3. Front(q) \in Promise!Below(path)
        BY <2>2, <4>1, <4>2
      <4>4. QED BY <1>t, <2>2, <3>1, <4>3, BelowStep
    <3>5. QED BY <3>3, <3>4
  <2>3. Bad = {}
    <3>1. Bad \in SUBSET Path
      OBVIOUS
    <3> HIDE DEF Bad
    <3>2. QED BY <2>1, <2>2, <3>1, LeastPath
  <2>4. QED BY <2>3
<1>6. \A q \in Rest : search_d_hash(q)' = search_d_hash(q)
  <2>1. ASSUME NEW q \in Rest, q \in Paths
        PROVE  /\ Front(q) \in Rest
               /\ search_d_hash(Front(q)) # None
                  => d_hash'[search_d_hash(Front(q))][Last(q)]
                     = d_hash[search_d_hash(Front(q))][Last(q)]
    <3>1. Front(q) \in Rest /\ q # path
      BY <1>t, <2>1, FrontBeside, BelowStep
    <3>2. ASSUME search_d_hash(Front(q)) # None
          PROVE  search_d_hash(Front(q)) \in Inode \ gone
      BY <1>5, <3>1, <3>2, FoundUsed
    <3>3. ASSUME search_d_hash(Front(q)) = father PROVE Last(q) # name
      BY <1>0, <1>t, <2>1, <3>1, <3>3, SameEntry
    <3>4. Last(q) \in Name
      BY <2>1, FrontType
    <3>5. QED BY <1>1, <1>t, <3>1, <3>2, <3>3, <3>4
  <2>2. Rest \in SUBSET Path
    OBVIOUS
  <2> HIDE DEF Rest
  <2>3. QED BY <2>1, <2>2, Kept
<1>7. search_d_hash(path)' = None
  <2>1. Front(path) \in Rest
    BY FrontOut
  <2>2. search_d_hash(Front(path))' = father
    BY <1>0, <1>6, <2>1
  <2>3. search_d_hash(path)' = step(search_d_hash(Front(path)), Last(path))'
    BY LookupNext DEF Lookup
  <2>4. d_hash'[father][name] = None
    BY <1>1, <1>4, <1>t
  <2>5. QED BY <1>0, <1>t, <2>2, <2>3, <2>4 DEF step
<1>8. \A q \in Promise!Below(path) : search_d_hash(q)' = None
  BY <1>7, <1>t, NothingNext DEF NothingHere
<1>9. Kind[path] # "none"
  <2>1. Kind[path] = KindOf(to_del)
    BY <1>2, <1>t, Kinds
  <2>2. QED BY <1>1, <2>1 DEF KindOf
<1>10. Kind' = [p \in Path |-> IF p \in Promise!Below(path) THEN "none" ELSE Kind[p]]
  <2>1. /\ Kind = [p \in Path |-> KindOf(search_d_hash(p))]
        /\ Kind' = [p \in Path |-> KindOf(search_d_hash(p))']
    BY Kinds
  <2>2. ASSUME NEW p \in Promise!Below(path) PROVE KindOf(search_d_hash(p))' = "none"
    BY <1>8 DEF KindOf
  <2>3. ASSUME NEW p \in Rest PROVE KindOf(search_d_hash(p))' = KindOf(search_d_hash(p))
    BY <1>1, <1>5, <1>6 DEF KindOf
  <2>4. QED BY <2>1, <2>2, <2>3
<1>11. QED BY <1>9, <1>10

\* A path below "new" with what is at "from" in the place of new.
Moved(from, new, p) == from \o SubSeq(p, Len(new) + 1, Len(p))
\* A sequence with its front replaced by one that is as long.
LEMMA Spliced ==
    ASSUME NEW s \in Seq(Name), NEW t \in Seq(Name), Len(s) <= Len(t)
    PROVE  /\ s \o SubSeq(t, Len(s) + 1, Len(t)) \in Seq(Name)
           /\ Len(s \o SubSeq(t, Len(s) + 1, Len(t))) = Len(t)
           /\ \A k \in 1 .. Len(t) : (s \o SubSeq(t, Len(s) + 1, Len(t)))[k]
                                     = IF k <= Len(s) THEN s[k] ELSE t[k]
<1> DEFINE n == Len(s)
           m == Len(t)
           v == SubSeq(t, n + 1, m)
           w == s \o v
<1>1. n \in Nat /\ m \in Nat /\ n <= m
  OBVIOUS
<1>2. /\ v \in Seq(Name) /\ Len(v) = m - n
      /\ \A k \in 1 .. m - n : v[k] = t[n + k]
  BY <1>1
<1>3. w \in Seq(Name) /\ Len(w) = n + Len(v)
  <2> HIDE DEF v
  <2>1. QED BY <1>2
<1>4. /\ \A k \in 1 .. n : w[k] = s[k]
      /\ \A k \in 1 .. m - n : w[n + k] = v[k]
  <2> HIDE DEF v
  <2>1. QED BY <1>1, <1>2
<1> HIDE DEF n, m, v, w
<1>5. ASSUME NEW k \in 1 .. m PROVE w[k] = IF k <= n THEN s[k] ELSE t[k]
  <2>1. CASE k <= n
    <3>1. k \in 1 .. n
      BY <1>1, <2>1
    <3>2. QED BY <1>4, <2>1, <3>1
  <2>2. CASE ~ (k <= n)
    <3>1. PICK j \in 1 .. m - n : n + j = k
      <4>1. k - n \in 1 .. m - n /\ n + (k - n) = k
        BY <1>1, <2>2
      <4>2. QED BY <4>1
    <3>2. w[n + j] = v[j] /\ v[j] = t[n + j]
      BY <1>2, <1>4
    <3>3. w[k] = t[k]
      BY <3>1, <3>2
    <3>4. QED BY <2>2, <3>3
  <2>3. QED BY <2>1, <2>2
<1>6. Len(w) = m
  BY <1>1, <1>2, <1>3
<1>7. QED BY <1>3, <1>5, <1>6 DEF n, m, v, w

LEMMA MovedPath ==
    ASSUME NEW from \in Paths, NEW new \in Path, Len(new) = Len(from),
           NEW p \in Promise!Below(new)
    PROVE  /\ p \in Path /\ Moved(from, new, p) \in Path /\ Len(Moved(from, new, p)) = Len(p)
           /\ Len(p) >= Len(from)
           /\ p = new => Moved(from, new, p) = from
           /\ p # new => /\ p \in Paths /\ Moved(from, new, p) \in Paths
                         /\ Front(p) \in Promise!Below(new)
                         /\ Front(Moved(from, new, p)) = Moved(from, new, Front(p))
                         /\ Last(Moved(from, new, p)) = Last(p)
<1> DEFINE q == Moved(from, new, p)
           n == Len(from)
<1>1. p \in Path /\ Len(new) <= Len(p)
  BY DEF Promise!Below, Promise!Path, Path, Promise!IsPrefix
<1>2. /\ from \in Path /\ from \in Seq(Name) /\ p \in Seq(Name) /\ new \in Seq(Name)
      /\ n \in Nat /\ Len(p) \in Nat /\ Len(p) <= Depth /\ n # 0
  BY <1>1, PathType, BoundAssumption DEF Paths
<1>3. /\ q \in Seq(Name) /\ Len(q) = Len(p)
      /\ \A k \in 1 .. Len(p) : q[k] = IF k <= n THEN from[k] ELSE p[k]
  <2>1. n <= Len(p)
    BY <1>1
  <2>2. q = from \o SubSeq(p, n + 1, Len(p))
    BY DEF Moved
  <2> HIDE DEF q
  <2>3. QED BY <1>2, <2>1, <2>2, Spliced
<1>4. q \in Path
  BY <1>2, <1>3, PathOf
<1>5. ASSUME p = new PROVE q = from
  <2> HIDE DEF q
  <2>1. QED BY <1>2, <1>3, <1>5
<1>6. ASSUME p # new
      PROVE  /\ p \in Paths /\ q \in Paths /\ Front(p) \in Promise!Below(new)
             /\ Front(q) = Moved(from, new, Front(p)) /\ Last(q) = Last(p)
  <2>1. p \in Paths /\ Front(p) \in Promise!Below(new)
    BY <1>1, <1>6, BelowStep
  <2>2. Len(new) <= Len(Front(p))
    BY <2>1 DEF Promise!Below, Promise!IsPrefix
  <2>3. /\ Front(p) \in Path /\ Len(p) \in Nat \ {0} /\ Len(Front(p)) = Len(p) - 1
        /\ \A k \in 1 .. Len(p) - 1 : Front(p)[k] = p[k]
        /\ Last(p) = p[Len(p)]
    BY <2>1, FrontType
  <2>4. q \in Paths
    <3> HIDE DEF q
    <3>1. QED BY <1>3, <1>4, <2>3 DEF Paths
  <2>5. /\ Front(q) \in Path /\ Len(Front(q)) = Len(q) - 1
        /\ \A k \in 1 .. Len(q) - 1 : Front(q)[k] = q[k]
        /\ Last(q) = q[Len(q)]
    BY <2>4, FrontType
  <2>6. Last(q) = Last(p)
    <3> HIDE DEF q
    <3>1. QED BY <1>2, <1>3, <2>2, <2>3, <2>5
  <2> DEFINE r == Moved(from, new, Front(p))
  <2>7. /\ r \in Seq(Name) /\ Len(r) = Len(p) - 1
        /\ \A k \in 1 .. Len(p) - 1 : r[k] = IF k <= n THEN from[k] ELSE Front(p)[k]
    <3> DEFINE u == Front(p)
    <3>1. u \in Seq(Name) /\ Len(u) = Len(p) - 1 /\ n <= Len(u)
      BY <2>2, <2>3, PathType
    <3>2. r = from \o SubSeq(u, n + 1, Len(u))
      BY DEF Moved
    <3> HIDE DEF u, r
    <3>3. /\ r \in Seq(Name) /\ Len(r) = Len(u)
          /\ \A k \in 1 .. Len(u) : r[k] = IF k <= n THEN from[k] ELSE u[k]
      BY <1>2, <3>1, <3>2, Spliced
    <3>4. QED BY <3>1, <3>3 DEF u
  <2>8. Front(q) = r
    <3>1. Front(q) \in Seq(Name)
      BY <2>5, PathType
    <3> HIDE DEF q, r
    <3>2. Len(Front(q)) = Len(r)
      BY <1>3, <2>5, <2>7
    <3>3. ASSUME NEW k \in 1 .. Len(r) PROVE Front(q)[k] = r[k]
      <4>1. k \in 1 .. Len(p) - 1 /\ k \in 1 .. Len(p) /\ k \in 1 .. Len(q) - 1
        BY <1>2, <1>3, <2>7
      <4>2. QED BY <1>3, <2>3, <2>5, <2>7, <4>1
    <3>4. QED BY <2>7, <3>1, <3>2, <3>3
  <2>9. QED BY <2>1, <2>4, <2>6, <2>8
<1>7. QED BY <1>1, <1>2, <1>3, <1>4, <1>5, <1>6

\* The entry has the new name in its directory, with all that is below it.
LEMMA RenameKinds ==
    ASSUME IInv, NEW from \in Paths, NEW to \in Paths, dhmp_fs_rename(from, to)
    PROVE  LET new == Append(Front(from), Last(to))
           IN  /\ Kind[from] # "none" /\ Kind[Front(from)] = "dir"
               /\ Kind' = [p \in Path |-> IF p \in Promise!Below(new) THEN Kind[Moved(from, new, p)]
                                          ELSE IF p \in Promise!Below(from) THEN "none" ELSE Kind[p]]
<1>0. PICK father, head, old, name, new :
          /\ father = search_d_hash(Front(from)) /\ head = d_hash[father][old]
          /\ old = Last(from) /\ name = Last(to) /\ new = Append(Front(from), name)
  OBVIOUS
<1>1. /\ father \in isDirectories /\ head # None /\ isDirectories' = isDirectories
      /\ d_hash' = [d_hash EXCEPT ![father] = [[@ EXCEPT ![old] = None] EXCEPT ![name] = head]]
  BY <1>0 DEF dhmp_fs_rename, dirname, file
<1>t. /\ d_hash \in [Inode -> [Name -> Inode \cup {None}]]
      /\ father \in Inode /\ father # None /\ old \in Name /\ name \in Name
      /\ from \in Path /\ from # <<>> /\ Front(from) \in Path /\ Len(from) \in Nat \ {0}
      /\ Len(Front(from)) = Len(from) - 1
  BY <1>0, <1>1, FrontType, NoneAssumption DEF IInv, TypeOK, Paths
<1>2. new \in Paths /\ new \in Path /\ Len(new) = Len(from) /\ Front(new) = Front(from) /\ Last(new) = name
  <2>1. Front(from) \in Seq(Name) /\ Len(from) <= Depth
    BY <1>t, PathType, BoundAssumption
  <2>2. new \in Seq(Name) /\ Len(new) = Len(from)
    BY <1>0, <1>t, <2>1
  <2>3. new \in Path
    BY <2>1, <2>2, PathOf
  <2>4. new \in Paths
    BY <1>t, <2>2, <2>3 DEF Paths
  <2>5. /\ new = Append(Front(new), Last(new)) /\ Front(new) \in Path
        /\ Len(Front(new)) = Len(new) - 1
        /\ \A k \in 1 .. Len(new) - 1 : Front(new)[k] = new[k] /\ Last(new) = new[Len(new)]
    BY <2>4, FrontType
  <2>6. Last(new) = new[Len(new)]
    BY <2>4, FrontType
  <2>7. Last(new) = name
    BY <1>0, <1>t, <2>1, <2>2, <2>6
  <2>8. Front(new) = Front(from)
    <3>1. Front(new) \in Seq(Name)
      BY <2>5, PathType
    <3>2. \A k \in 1 .. Len(from) - 1 : new[k] = Front(from)[k]
      BY <1>0, <1>t, <2>1
    <3>3. QED BY <1>t, <2>1, <2>2, <2>5, <3>1, <3>2
  <2>9. QED BY <2>2, <2>3, <2>4, <2>7, <2>8
<1>3. search_d_hash(from) = head
  <2>1. search_d_hash(from) = step(father, old)
    BY <1>0, LookupHolds DEF Lookup
  <2>2. QED BY <1>0, <1>t, <2>1 DEF step
<1> DEFINE Rest == Path \ (Promise!Below(from) \cup Promise!Below(new))
<1>4. \A q \in Rest : search_d_hash(q)' = search_d_hash(q)
  <2>1. ASSUME NEW q \in Rest, q \in Paths
        PROVE  /\ Front(q) \in Rest
               /\ search_d_hash(Front(q)) # None
                  => d_hash'[search_d_hash(Front(q))][Last(q)]
                     = d_hash[search_d_hash(Front(q))][Last(q)]
    <3>1. Front(q) \in Rest /\ q # from /\ q # new
      BY <1>2, <1>t, <2>1, FrontBeside, BelowStep
    <3>2. ASSUME search_d_hash(Front(q)) = father PROVE Last(q) # old /\ Last(q) # name
      BY <1>0, <1>2, <1>t, <2>1, <3>1, <3>2, SameEntry
    <3>3. ASSUME search_d_hash(Front(q)) # None PROVE search_d_hash(Front(q)) \in Inode
      BY <3>1, <3>3, FoundUsed
    <3>4. Last(q) \in Name
      BY <2>1, FrontType
    <3>5. QED BY <1>1, <1>t, <3>1, <3>2, <3>3, <3>4
  <2>2. Rest \in SUBSET Path
    OBVIOUS
  <2> HIDE DEF Rest
  <2>3. QED BY <2>1, <2>2, Kept
<1>5. search_d_hash(Front(from))' = father
  <2>1. Front(from) \in Rest
    BY <1>2, <1>t, FrontOut
  <2>2. QED BY <1>0, <1>4, <2>1
<1>6. /\ d_hash'[father][name] = head
      /\ old # name => d_hash'[father][old] = None
      /\ \A f \in Inode \ {father} : d_hash'[f] = d_hash[f]
  BY <1>1, <1>t
<1>7. \A p \in Promise!Below(new) : search_d_hash(p)' = search_d_hash(Moved(from, new, p))
  <2> DEFINE Bad == {p \in Promise!Below(new) :
                       search_d_hash(p)' # search_d_hash(Moved(from, new, p))}
  <2>1. Bad \in SUBSET Path
    BY DEF Promise!Below, Promise!Path, Path
  <2>2. <<>> \notin Bad
    BY <1>2, NotBelowRoot
  <2>3. ASSUME NEW p \in Bad, p \in Paths, Front(p) \in Path \ Bad PROVE FALSE
    <3>1. p \in Promise!Below(new) /\ search_d_hash(p)' # search_d_hash(Moved(from, new, p))
      OBVIOUS
    <3>2. search_d_hash(p)' = step(search_d_hash(Front(p)), Last(p))'
      BY <2>3, LookupNext DEF Lookup
    <3>3. CASE p = new
      <4>1. Moved(from, new, p) = from
        BY <1>2, <3>1, <3>3, MovedPath
      <4>2. search_d_hash(p)' = head
        BY <1>2, <1>5, <1>6, <1>t, <3>2, <3>3 DEF step
      <4>3. QED BY <1>3, <3>1, <4>1, <4>2
    <3>4. CASE p # new
      <4> DEFINE q == Moved(from, new, p)
                 u == Moved(from, new, Front(p))
      <4>1. q \in Paths /\ Front(p) \in Promise!Below(new) /\ Front(q) = u /\ Last(q) = Last(p)
        BY <1>2, <3>1, <3>4, MovedPath
      <4>2. u \in Path /\ Len(u) = Len(Front(p)) /\ Len(Front(p)) >= Len(from)
        BY <1>2, <4>1, MovedPath
      <4>3. search_d_hash(Front(p))' = search_d_hash(u)
        BY <2>3, <4>1
      <4>4. search_d_hash(q) = step(search_d_hash(u), Last(p))
        BY <4>1, LookupHolds DEF Lookup
      <4> HIDE DEF q, u
      <4>5. CASE search_d_hash(u) = None
        BY <3>1, <3>2, <4>3, <4>4, <4>5 DEF step, q
      <4>6. CASE search_d_hash(u) # None
        <5>1. search_d_hash(u) \in Inode
          BY <4>2, <4>6, FoundUsed
        <5>2. search_d_hash(u) # father
          <6>1. ASSUME search_d_hash(u) = father PROVE FALSE
            <7>1. u = Front(from)
              BY <1>0, <1>t, <4>2, <6>1, OnePath
            <7>2. Len(Front(p)) \in Nat
              BY <2>3, PathType, BoundAssumption
            <7>3. QED BY <1>t, <4>2, <7>1, <7>2
          <6>2. QED BY <6>1
        <5>3. d_hash'[search_d_hash(u)] = d_hash[search_d_hash(u)]
          BY <1>6, <5>1, <5>2
        <5>4. QED BY <3>1, <3>2, <4>3, <4>4, <5>3 DEF step, q
      <4>7. QED BY <4>5, <4>6
    <3>5. QED BY <3>3, <3>4
  <2>4. Bad = {}
    <3> HIDE DEF Bad
    <3>1. QED BY <2>1, <2>2, <2>3, LeastPath
  <2>5. QED BY <2>4
<1>8. \A p \in Promise!Below(from) : p \notin Promise!Below(new) => search_d_hash(p)' = None
  <2>1. CASE old = name
    <3>1. from = Append(Front(from), Last(from))
      BY FrontType
    <3>2. new = from
      BY <1>0, <2>1, <3>1
    <3>3. QED BY <3>2
  <2>2. CASE old # name
    <3>1. search_d_hash(from)' = step(search_d_hash(Front(from)), Last(from))'
      BY LookupNext DEF Lookup
    <3>2. search_d_hash(from)' = None
      BY <1>0, <1>5, <1>6, <1>t, <2>2, <3>1 DEF step
    <3>3. QED BY <1>t, <3>2, NothingNext DEF NothingHere
  <2>3. QED BY <2>1, <2>2
<1>9. Kind[from] # "none"
  <2>1. Kind[from] = KindOf(head)
    BY <1>3, <1>t, Kinds
  <2>2. QED BY <1>1, <2>1 DEF KindOf
<1>10. Kind' = [p \in Path |-> IF p \in Promise!Below(new) THEN Kind[Moved(from, new, p)]
                               ELSE IF p \in Promise!Below(from) THEN "none" ELSE Kind[p]]
  <2>1. /\ Kind = [p \in Path |-> KindOf(search_d_hash(p))]
        /\ Kind' = [p \in Path |-> KindOf(search_d_hash(p))']
    BY Kinds
  <2>2. ASSUME NEW p \in Promise!Below(new)
        PROVE  KindOf(search_d_hash(p))' = Kind[Moved(from, new, p)]
    <3>1. Moved(from, new, p) \in Path
      BY <1>2, MovedPath
    <3>2. Kind[Moved(from, new, p)] = KindOf(search_d_hash(Moved(from, new, p)))
      BY <2>1, <3>1
    <3>3. QED BY <1>1, <1>7, <3>2 DEF KindOf
  <2>3. ASSUME NEW p \in Promise!Below(from), p \notin Promise!Below(new)
        PROVE  KindOf(search_d_hash(p))' = "none"
    BY <1>8, <2>3 DEF KindOf
  <2>4. ASSUME NEW p \in Rest PROVE KindOf(search_d_hash(p))' = KindOf(search_d_hash(p))
    BY <1>1, <1>4 DEF KindOf
  <2>5. QED BY <2>1, <2>2, <2>3, <2>4
<1>11. Kind[Front(from)] = "dir"
  <2>1. Kind[Front(from)] = KindOf(father)
    BY <1>0, <1>t, Kinds
  <2>2. QED BY <1>1, <1>t, <2>1 DEF KindOf
<1>12. QED BY <1>0, <1>9, <1>10, <1>11

\* unlink and rmdir of an empty directory keep their promise, and a removal of
\* more than that takes nothing from elsewhere.
LEMMA DeletePromise ==
    ASSUME IInv, NEW path \in Paths, dhmpDelete(path) PROVE RemovePromised(path)
<1>1. path \in Path /\ path # <<>> /\ path \in Promise!Below(path)
  <2>1. path \in Path /\ path # <<>>
    BY DEF Paths
  <2>2. QED BY <2>1, BelowStep
<1>2. /\ Kind[path] # "none"
      /\ Kind' = [p \in Path |-> IF p \in Promise!Below(path) THEN "none" ELSE Kind[p]]
  BY DeleteKinds
<1>3. Kind = [p \in Path |-> Kind[p]] /\ Promise!Path = Path
  BY Kinds
<1>4. CASE Promise!Childless(path)
  <2>1. Kind' = [Kind EXCEPT ![path] = "none"]
    BY <1>1, <1>2, <1>3, <1>4 DEF Promise!Childless
  <2>2. QED BY <1>1, <1>2, <1>4, <2>1 DEF RemovePromised, Promise!Unmake, Promise!Exists
<1>5. CASE ~ Promise!Childless(path)
  <2>1. Promise!Within(Promise!Below(path))
    BY <1>2, <1>3 DEF Promise!Within
  <2>2. QED BY <1>5, <2>1 DEF RemovePromised
<1>6. QED BY <1>4, <1>5

\* So does a rename in its directory, and one into another directory changes
\* nothing but the old path and the new name in the old directory.
LEMMA RenamePromise ==
    ASSUME IInv, NEW from \in Paths, NEW to \in Paths, dhmp_fs_rename(from, to)
    PROVE  RenamePromised(from, to)
<1> DEFINE new == Append(Front(from), Last(to))
<1>1. /\ Kind[from] # "none" /\ Kind[Front(from)] = "dir"
      /\ Kind' = [p \in Path |-> IF p \in Promise!Below(new) THEN Kind[Moved(from, new, p)]
                                 ELSE IF p \in Promise!Below(from) THEN "none" ELSE Kind[p]]
  BY RenameKinds
<1>2. from # <<>> /\ to # <<>> /\ to = Append(Front(to), Last(to))
  BY FrontType DEF Paths
<1>3. Promise!Path = Path /\ Promise!Parent(to) = Front(to)
  BY Kinds
<1>4. Sibling(from, file(to)) = new
  BY DEF Sibling, dirname, file
<1> HIDE DEF new
<1>5. Promise!Within(Promise!Below(from) \cup Promise!Below(new))
  BY <1>1, <1>3 DEF Promise!Within
<1>6. CASE dirname(from) = dirname(to)
  <2>1. new = to /\ Front(from) = Front(to)
    BY <1>2, <1>6 DEF dirname, new
  <2>2. \A p \in Promise!Below(to) :
           from \o SubSeq(p, Len(to) + 1, Len(p)) \in Path
           => Kind'[p] = Kind[from \o SubSeq(p, Len(to) + 1, Len(p))]
    BY <1>1, <1>3, <2>1 DEF Moved, Promise!Below
  <2>3. \A p \in Promise!Below(from) \ Promise!Below(to) : Kind'[p] = "none"
    BY <1>1, <1>3, <2>1 DEF Promise!Below
  <2>4. Promise!Rename(from, to)
    BY <1>1, <1>2, <1>3, <1>5, <2>1, <2>2, <2>3 DEF Promise!Rename, Promise!Exists
  <2>5. QED BY <1>6, <2>4 DEF RenamePromised
<1>7. CASE dirname(from) # dirname(to)
  BY <1>4, <1>5, <1>7 DEF RenamePromised
<1>8. QED BY <1>6, <1>7

\* Through lookups, mkdir, mknod, unlink, rmdir of an empty directory and rename
\* in a directory do to the paths what is promised of them, whatever is below
\* them and however the inodes were used before; a rename into another
\* directory and the removal of one that is not empty, which break their
\* promises, leave all other paths alone.
THEOREM KeepsPromises == Spec => Promised
<1>1. Init => Promise!Init
  BY InitHolds, PromiseInit
<1> DEFINE Keeps == ~crashed' => \A path \in Paths :
                      /\ MkDir(path) => Promise!Make(path, "dir")
                      /\ Mknod(path) => Promise!Make(path, "file")
                      /\ dhmpDelete(path) => RemovePromised(path)
                      /\ \A to \in Paths : dhmp_fs_rename(path, to) => RenamePromised(path, to)
<1>2. IInv => Keeps
  <2> SUFFICES ASSUME IInv, ~crashed', NEW path \in Paths
               PROVE  /\ MkDir(path) => Promise!Make(path, "dir")
                      /\ Mknod(path) => Promise!Make(path, "file")
                      /\ dhmpDelete(path) => RemovePromised(path)
                      /\ \A to \in Paths : dhmp_fs_rename(path, to) => RenamePromised(path, to)
    OBVIOUS
  <2>1. ASSUME MkDir(path) PROVE Promise!Make(path, "dir")
    <3>1. PICK father : father = search_d_hash(Front(path))
      OBVIOUS
    <3>2. father \in isDirectories
      BY <2>1, <3>1 DEF MkDir, dirname
    <3>3. PICK now \in Free : /\ Create(father, Last(path), now)
                              /\ isDirectories' = isDirectories \cup {now}
      BY <2>1, <3>1 DEF MkDir, dirname, file
    <3>4. QED BY <3>1, <3>2, <3>3, CreateKinds
  <2>2. ASSUME Mknod(path) PROVE Promise!Make(path, "file")
    <3>1. PICK father : father = search_d_hash(Front(path))
      OBVIOUS
    <3>2. father \in isDirectories
      BY <2>2, <3>1 DEF Mknod, dirname, Segfault
    <3>3. PICK now \in Free : /\ Create(father, Last(path), now)
                              /\ isDirectories' = isDirectories
      BY <2>2, <3>1, <3>2 DEF Mknod, dirname, file
    <3>4. QED BY <3>1, <3>2, <3>3, CreateKinds
  <2>3. QED BY <2>1, <2>2, DeletePromise, RenamePromise
<1> HIDE DEF Keeps
<1>3. Spec => Promise!Init /\ [][Keeps]_vars
  BY <1>1, <1>2, Invariant, PTL DEF Spec
<1>4. QED BY <1>3 DEF Promised, Keeps

-----------------------------------------------------------------------------
(* The hash map of a directory: the invariant.                             *)

\* Chains are intact but while resetHashMap moves and clears the array.
Intact == mpc \notin {"realloc", "clear"}

\* The places of the array, the nodes that are linked, and the entries in use.
Places == 0 .. listSize - 1
Nodes == IF mpc = "free" THEN live \ {temp} ELSE live
Linked == Places \cup Nodes

\* Each node follows exactly one entry, and none is on a cycle.
Chained(places, nodes, nx) ==
    /\ \A e \in places \cup nodes : nx[e] \in nodes \cup {NULL}
    /\ \A e, f \in places \cup nodes : nx[e] = nx[f] /\ nx[e] # NULL => e = f
    /\ \A set \in SUBSET nodes :
          set # {} => \E e \in (places \cup nodes) \ set : nx[e] \in set

\* A chain has keys of its bucket only, and none if it is empty.
Sorted == /\ \A n \in Nodes : key[n] # NULL
          /\ \A c \in Places : IF key[c] = NULL THEN next[c] = NULL ELSE Bucket(key[c]) = c
          /\ \A e \in Linked : next[e] # NULL => Bucket(key[next[e]]) = Bucket(key[e])

\* The entries that hold a key; the copy that is left in temp does not count.
Filled == {e \in Linked : key[e] # NULL /\ ~ (mpc \in {"take_value", "take_next"} /\ e = temp)}
OneEntry == \A e, f \in Filled : key[e] = key[f] => e = f

\* Keys have values, but for one that is being put.
Valued == \A e \in Linked : key[e] # NULL => value[e] # NULL \/ (mpc = "put_value" /\ e = Bucket(mkey))

Stored == {key[e] : e \in Filled}
Has(k, v) == \E e \in Filled : key[e] = k /\ value[e] = v

\* What resetHashMap has still to put back.
Waiting == {tempList[i][1] : i \in DOMAIN tempList}
WaitsFor(k, v) == \E i \in DOMAIN tempList : tempList[i] = <<k, v>>
OneWaits == \A i, j \in DOMAIN tempList : tempList[i][1] = tempList[j][1] => i = j

\* The key that a modification is about.
Busy == IF mpc \in {"put", "put_key", "put_value", "remove", "take_key"} THEN {mkey}
        ELSE IF mpc = "take_value" THEN {key[Bucket(mkey)]} ELSE {}

\* All other keys have their values.
OthersKept == \A k \in Key \ Busy, v \in Value :
                  map[k] = v <=> (Intact /\ Has(k, v)) \/ WaitsFor(k, v)

Mapped == {k \in Key : map[k] # NULL}
CountedKeys == IF mpc = "put_key" THEN Stored \cup {mkey}
           ELSE IF mpc = "take_key" THEN Stored \ {mkey} ELSE Stored
Exact == /\ IsFiniteSet(Mapped) /\ Cardinality(Mapped) <= MaxListSize
         /\ Intact => IsFiniteSet(Stored) /\ size = Cardinality(CountedKeys)

\* The array is never full between two modifications.
Room == /\ resizing => Cardinality(Mapped) < listSize
        /\ ~resizing /\ mpc \notin {"put_key", "put_value", "grow", "copy_grow"} => size < listSize
        /\ ~resizing /\ mpc \in {"put_key", "put_value", "grow"} => size <= listSize
        /\ mpc = "copy_grow" => size = listSize
        /\ mpc = "copy_shrink" => size < listSize \div 2 /\ listSize \div 2 >= DEFAULT_MAP_SIZE
        /\ mpc # "realloc" => length = listSize

Putting == {"put", "put_key", "put_value"}
Taking == {"take_key", "take_value", "take_next", "free"}
Removing == Taking \cup {"remove", "shrink", "copy_shrink"}

\* Where a modification is.
PutAt == /\ mpc \in Putting => /\ mkey \in Key /\ mval \in Value /\ map[mkey] = mval
                               /\ mkey \notin Waiting
                               /\ resizing /\ mpc = "put" => mkey \notin Stored
         /\ mpc = "put_key" => mkey \notin Stored /\ key[Bucket(mkey)] = NULL
         /\ mpc = "put_value" => key[Bucket(mkey)] = mkey
TakeAt == /\ (mpc \in Taking \cup {"remove", "shrink"}) => (mkey \in Key /\ map[mkey] = NULL)
          /\ mpc = "remove" => mkey \in Stored
          /\ mpc = "take_key" => key[Bucket(mkey)] = mkey
          /\ mpc \in {"take_key", "take_value", "take_next"} => temp = next[Bucket(mkey)]
          /\ mpc = "take_value" => IF temp = NULL THEN key[Bucket(mkey)] = NULL
                                   ELSE /\ key[Bucket(mkey)] = key[temp]
                                        /\ map[key[temp]] = value[temp]
          /\ mpc = "take_next" => temp # NULL /\ key[Bucket(mkey)] = key[temp]
          /\ mpc = "free" => temp \in live
ResetAt == /\ resizing => mpc \in (Putting \cup {"grow", "realloc", "clear", "reput"})
           /\ ~resizing => tempList = <<>> /\ mpc \notin {"realloc", "clear", "reput"}
           /\ mpc = "reput" => tempList # <<>>
           /\ ~Intact => live = {}
           /\ OneWaits /\ (Intact => Waiting \cap Stored = {})
OpAt == mpc # "idle" => /\ changed \in Key
                        /\ ~resizing => changed = mkey
                        /\ mpc \in Removing => map[changed] = NULL
                        /\ ~resizing /\ mpc \notin Removing => map[changed] # NULL

\* What is at or after an entry of a chain.
Ahead(p, e) == \A set \in SUBSET Linked :
                   p \in set /\ (\A f \in set : next[f] # NULL => next[f] \in set) => e \in set

\* A lookup that only puts overlap with is at an entry of the chain, and has
\* not passed the entry of its key.
Points == ptr \in live \/ (ptr \in Places /\ block = hash_list)
Sound == overlap \in {"none", "put"}
ReaderAt ==
    rpc # "idle" =>
        /\ rkey \in Key
        /\ Sound =>
            /\ ~resizing /\ mpc \in (Putting \cup {"idle", "grow", "copy_grow"})
            /\ mpc # "idle" => changed # rkey
            /\ rpc # "crashed"
            /\ rpc = "exists_first" => Points /\ ptr = Bucket(rkey)
            /\ rpc \in {"exists_walk", "get_walk"} =>
                  /\ Points /\ key[ptr] # NULL
                  /\ map[rkey] # NULL => \E e \in Linked : key[e] = rkey /\ Ahead(ptr, e)
            /\ rpc \in {"get", "get_walk"} => map[rkey] # NULL
            /\ rpc = "get_value" => Points /\ key[ptr] = rkey
            /\ rpc = "done" => ret = map[rkey]

MapShape == Intact => Chained(Places, Nodes, next) /\ Sorted /\ OneEntry /\ Valued
MapAt == PutAt /\ TakeAt /\ ResetAt /\ OpAt
MapIInv == /\ MapTypeOK /\ MapShape /\ OthersKept /\ Exact /\ Room /\ MapAt /\ ReaderAt

-----------------------------------------------------------------------------
(* Chains, by induction over their length as above.                        *)

\* The array and the nodes.
LEMMA Cells ==
    ASSUME MapTypeOK
    PROVE  /\ listSize \in Nat \ {0} /\ Places \subseteq Cell /\ Places \subseteq Int
           /\ Nodes \subseteq Node /\ Nodes \cap Places = {} /\ NULL \notin Node \cup Places
           /\ Linked = Places \cup Nodes /\ Linked \subseteq Entry
           /\ \A k \in Key : Bucket(k) \in Places
<1>1. listSize \in Nat \ {0} /\ listSize <= 2 * MaxListSize /\ MaxListSize \in Nat
  BY SizeAssumption DEF MapTypeOK
<1>2. Places \subseteq Cell /\ Places \subseteq Int
  BY <1>1 DEF Places, Cell
<1>3. Nodes \subseteq Node
  BY DEF MapTypeOK, Nodes
<1>4. ASSUME NEW k \in Key PROVE Bucket(k) \in Places
  <2>1. HashCode[k] \in Nat
    BY HashAssumption
  <2>2. QED BY <1>1, <2>1 DEF Bucket, Places
<1>5. QED BY <1>1, <1>2, <1>3, <1>4, NodeAssumption, NullAssumption DEF Linked, Entry

\* The first entries of a chain, in order.
IsChain(c, s) ==
    /\ s \in Seq(Linked) /\ Len(s) # 0 /\ s[1] = c
    /\ \A i \in 2 .. Len(s) : s[i] \in Nodes /\ s[i] = next[s[i - 1]]
    /\ \A i, j \in 1 .. Len(s) : s[i] = s[j] => i = j

\* An entry that follows a chain is not on it yet.
LEMMA ChainGrows ==
    ASSUME MapTypeOK, Chained(Places, Nodes, next), NEW c \in Places,
           NEW s, IsChain(c, s), next[Last(s)] # NULL
    PROVE  IsChain(c, Append(s, next[Last(s)]))
<1> DEFINE n == Len(s)
           x == next[Last(s)]
           t == Append(s, x)
<1>1. /\ s \in Seq(Linked) /\ n \in Nat \ {0} /\ Last(s) = s[n] /\ s[n] \in Linked
      /\ \A i \in 1 .. n : s[i] \in Linked
  BY DEF IsChain, Last
<1>2. x \in Nodes /\ x \in Linked
  BY <1>1 DEF Chained, Linked
<1>3. /\ t \in Seq(Linked) /\ Len(t) = n + 1 /\ t[n + 1] = x
      /\ \A i \in 1 .. n : t[i] = s[i]
  <2> HIDE DEF x
  <2>1. QED BY <1>1, <1>2
<1> HIDE DEF x, t
<1>4. t[1] = c
  BY <1>1, <1>3 DEF IsChain
<1>5. ASSUME NEW i \in 2 .. n + 1 PROVE t[i] \in Nodes /\ t[i] = next[t[i - 1]]
  <2>1. CASE i = n + 1
    <3>1. i - 1 = n /\ t[i - 1] = s[n]
      BY <1>1, <1>3, <2>1
    <3>2. QED BY <1>1, <1>2, <1>3, <2>1, <3>1 DEF x
  <2>2. CASE i # n + 1
    <3>1. i \in 2 .. n /\ i \in 1 .. n /\ i - 1 \in 1 .. n
      BY <1>1, <2>2
    <3>2. QED BY <1>3, <3>1 DEF IsChain
  <2>3. QED BY <2>1, <2>2
<1>6. ASSUME NEW i \in 1 .. n PROVE s[i] # x
  <2>1. CASE i = 1
    <3>1. s[i] = c
      BY <2>1 DEF IsChain
    <3>2. QED BY <1>2, <3>1, Cells
  <2>2. CASE i # 1
    <3>1. i \in 2 .. n /\ i - 1 \in 1 .. n /\ n \in 1 .. n /\ i - 1 # n
      BY <1>1, <2>2
    <3>2. s[i] = next[s[i - 1]] /\ s[i] \in Nodes
      BY <3>1 DEF IsChain
    <3>3. ASSUME s[i] = x PROVE FALSE
      <4>1. next[s[i - 1]] = next[s[n]] /\ next[s[n]] # NULL
        BY <1>1, <3>2, <3>3 DEF x
      <4>2. s[i - 1] = s[n]
        BY <1>1, <3>1, <4>1 DEF Chained, Linked
      <4>3. QED BY <3>1, <4>2 DEF IsChain
    <3>4. QED BY <3>3
  <2>3. QED BY <2>1, <2>2
<1>7. ASSUME NEW i \in 1 .. n + 1, NEW j \in 1 .. n + 1, t[i] = t[j] PROVE i = j
  <2>1. CASE i = n + 1 /\ j = n + 1
    BY <2>1
  <2>2. CASE i = n + 1 /\ j # n + 1
    <3>1. j \in 1 .. n
      BY <1>1, <2>2
    <3>2. QED BY <1>3, <1>6, <1>7, <2>2, <3>1
  <2>3. CASE i # n + 1 /\ j = n + 1
    <3>1. i \in 1 .. n
      BY <1>1, <2>3
    <3>2. QED BY <1>3, <1>6, <1>7, <2>3, <3>1
  <2>4. CASE i # n + 1 /\ j # n + 1
    <3>1. i \in 1 .. n /\ j \in 1 .. n
      BY <1>1, <2>4
    <3>2. QED BY <1>3, <1>7, <3>1 DEF IsChain
  <2>5. QED BY <2>1, <2>2, <2>3, <2>4
<1>8. Len(t) # 0
  BY <1>1, <1>3
<1>9. IsChain(c, t)
  BY <1>3, <1>4, <1>5, <1>7, <1>8 DEF IsChain
<1>10. QED BY <1>9 DEF t, x

\* The loop over a chain has the sequences g.
Chains(c, n, g) ==
    g = [k \in 0 .. n |-> IF k = 0 THEN <<c>>
                          ELSE IF next[Last(g[k - 1])] = NULL THEN g[k - 1]
                          ELSE Append(g[k - 1], next[Last(g[k - 1])])]

\* The function that Chain is defined by exists.
LEMMA ChainsExist == ASSUME NEW c, NEW n \in Nat PROVE \E g : Chains(c, n, g)
<1> DEFINE Bad == {m \in Nat : ~ \E g : Chains(c, m, g)}
           longer(s) == IF next[Last(s)] = NULL THEN s ELSE Append(s, next[Last(s)])
<1>1. ASSUME NEW m \in Bad, \A k \in Bad : ~(k < m) PROVE FALSE
  <2>1. CASE m = 0
    <3> DEFINE g == [k \in 0 .. 0 |-> <<c>>]
    <3>1. Chains(c, 0, g)
      BY DEF Chains
    <3>2. QED BY <1>1, <2>1, <3>1
  <2>2. CASE m # 0
    <3>1. m \in Nat /\ m - 1 \in Nat /\ m - 1 < m
      BY <2>2
    <3>2. PICK g : Chains(c, m - 1, g)
      BY <1>1, <3>1
    <3> DEFINE h == [k \in 0 .. m |-> IF k = 0 THEN <<c>> ELSE longer(g[k - 1])]
    <3>3. \A k \in 0 .. m - 1 : h[k] = g[k]
      <4>1. g = [k \in 0 .. m - 1 |-> IF k = 0 THEN <<c>> ELSE longer(g[k - 1])]
        BY <3>2 DEF Chains
      <4> HIDE DEF longer
      <4>2. QED BY <3>1, <4>1
    <3>4. \A k \in 0 .. m : k # 0 => k - 1 \in 0 .. m - 1
      BY <3>1
    <3>5. h = [k \in 0 .. m |-> IF k = 0 THEN <<c>> ELSE longer(h[k - 1])]
      <4> HIDE DEF longer
      <4>1. QED BY <3>3, <3>4
    <3> HIDE DEF h
    <3>6. Chains(c, m, h)
      BY <3>5 DEF Chains
    <3>7. QED BY <1>1, <3>6
  <2>3. QED BY <2>1, <2>2
<1>2. Bad = {}
  <2>1. Bad \in SUBSET Nat
    OBVIOUS
  <2> HIDE DEF Bad
  <2>2. QED BY <1>1, <2>1, Least
<1>3. QED BY <1>2

\* All of a chain: Chain goes on to its end.
LEMMA WholeChain ==
    ASSUME MapTypeOK, Chained(Places, Nodes, next), NEW c \in Places
    PROVE  IsChain(c, Chain(c)) /\ next[Last(Chain(c))] = NULL
<1> DEFINE N == Cardinality(Node)
           g == CHOOSE h : Chains(c, N, h)
<1>0. N \in Nat /\ IsFiniteSet(Node)
  BY NodeAssumption, FS_CardinalityType
<1>1. Chain(c) = g[N]
  BY DEF Chain, Chains
<1>2. Chains(c, N, g)
  BY <1>0, ChainsExist
<1> HIDE DEF g, N
<1>3. g[0] = <<c>>
  BY <1>0, <1>2 DEF Chains
<1> DEFINE longer(s) == IF next[Last(s)] = NULL THEN s ELSE Append(s, next[Last(s)])
<1>4. ASSUME NEW k \in 1 .. N PROVE g[k] = longer(g[k - 1])
  <2>1. k \in 0 .. N /\ k # 0
    BY <1>0
  <2>2. g = [j \in 0 .. N |-> IF j = 0 THEN <<c>> ELSE longer(g[j - 1])]
    BY <1>2 DEF Chains
  <2> HIDE DEF longer
  <2>3. QED BY <2>1, <2>2
<1> DEFINE Good(k) == /\ IsChain(c, g[k])
                      /\ next[Last(g[k])] # NULL => Len(g[k]) = k + 1
           Bad == {k \in Nat : k <= N /\ ~Good(k)}
<1>5. ASSUME NEW k \in Bad, \A m \in Bad : ~(m < k) PROVE FALSE
  <2>1. CASE k = 0
    <3>1. g[k] \in Seq(Linked) /\ Len(g[k]) = 1 /\ g[k][1] = c
      <4>1. g[k] = <<c>> /\ c \in Linked
        BY <1>3, <2>1 DEF Linked
      <4>2. QED BY <4>1
    <3>2. IsChain(c, g[k])
      BY <3>1 DEF IsChain
    <3>3. QED BY <1>5, <2>1, <3>1, <3>2
  <2>2. CASE k # 0
    <3>1. k - 1 \in Nat /\ k - 1 < k /\ k - 1 <= N /\ k \in 1 .. N
      BY <1>0, <2>2
    <3>2. Good(k - 1)
      BY <1>5, <3>1
    <3>3. CASE next[Last(g[k - 1])] = NULL
      <4>1. g[k] = g[k - 1]
        BY <1>4, <3>1, <3>3
      <4>2. QED BY <1>5, <3>2, <3>3, <4>1
    <3>4. CASE next[Last(g[k - 1])] # NULL
      <4> DEFINE s == g[k - 1]
                 x == next[Last(s)]
      <4>1. g[k] = Append(s, x)
        BY <1>4, <3>1, <3>4
      <4>2. IsChain(c, s) /\ Len(s) = k /\ x # NULL
        BY <3>1, <3>2, <3>4
      <4>3. IsChain(c, g[k])
        <5> HIDE DEF s, Good
        <5>1. QED BY <4>1, <4>2, ChainGrows
      <4>4. x \in Linked /\ s \in Seq(Linked)
        <5>1. s \in Seq(Linked) /\ Last(s) = s[k] /\ s[k] \in Linked
          BY <2>2, <4>2 DEF IsChain, Last
        <5>2. QED BY <4>2, <5>1 DEF Chained, Linked
      <4>5. Len(g[k]) = k + 1
        <5> HIDE DEF s, x
        <5>1. QED BY <4>1, <4>2, <4>4
      <4>6. QED BY <1>5, <4>3, <4>5
    <3>5. QED BY <3>3, <3>4
  <2>3. QED BY <2>1, <2>2
<1>6. Bad = {}
  <2>1. Bad \in SUBSET Nat
    OBVIOUS
  <2> HIDE DEF Bad
  <2>2. QED BY <1>5, <2>1, Least
<1>7. Good(N)
  BY <1>0, <1>6
<1>8. ASSUME next[Last(g[N])] # NULL PROVE FALSE
  <2> DEFINE s == g[N]
             x == next[Last(s)]
             t == Append(s, x)
             f == [i \in 1 .. N + 1 |-> t[i + 1]]
  <2>1. IsChain(c, s) /\ Len(s) = N + 1 /\ x # NULL
    BY <1>7, <1>8
  <2>2. IsChain(c, t)
    <3> HIDE DEF s
    <3>1. QED BY <2>1, ChainGrows
  <2>3. Len(t) = N + 2
    <3>1. s \in Seq(Linked) /\ Last(s) = s[N + 1] /\ s[N + 1] \in Linked
      BY <1>0, <2>1 DEF IsChain, Last
    <3>2. x \in Linked
      BY <2>1, <3>1 DEF Chained, Linked
    <3> HIDE DEF s, x
    <3>3. QED BY <1>0, <2>1, <3>1, <3>2
  <2> HIDE DEF s, x, t
  <2>4. ASSUME NEW i \in 1 .. N + 1 PROVE f[i] \in Node
    <3>1. i + 1 \in 2 .. Len(t)
      BY <1>0, <2>3
    <3>2. QED BY <2>2, <3>1, Cells DEF IsChain
  <2>5. ASSUME NEW i \in 1 .. N + 1, NEW j \in 1 .. N + 1, f[i] = f[j] PROVE i = j
    <3>1. i + 1 \in 1 .. Len(t) /\ j + 1 \in 1 .. Len(t)
      BY <1>0, <2>3
    <3>2. i + 1 = j + 1
      BY <2>2, <2>5, <3>1 DEF IsChain
    <3>3. QED BY <3>2
  <2>6. IsFiniteSet(1 .. N + 1) /\ Cardinality(1 .. N + 1) = N + 1
    BY <1>0, FS_Interval
  <2>7. f \in [1 .. N + 1 -> Node]
    BY <2>4
  <2> HIDE DEF f
  <2>8. Cardinality(Node) < Cardinality(1 .. N + 1)
    BY <1>0, <2>6 DEF N
  <2>9. \E i, j \in 1 .. N + 1 : i # j /\ f[i] = f[j]
    BY <1>0, <2>6, <2>7, <2>8, FS_PigeonHole
  <2>10. QED BY <2>5, <2>9
<1>9. QED BY <1>1, <1>7, <1>8

\* Every key of a bucket is reached from its first entry.
LEMMA Reach ==
    ASSUME MapTypeOK, MapShape, Intact, NEW e \in Linked, key[e] # NULL
    PROVE  Ahead(Bucket(key[e]), e)
<1> DEFINE c == Bucket(key[e])
<1>1. \A f \in Linked : key[f] \in Key \cup {NULL}
  BY Cells DEF MapTypeOK
<1>2. c \in Places
  BY <1>1, Cells
<1>3. SUFFICES ASSUME NEW set \in SUBSET Linked, c \in set,
                      \A f \in set : next[f] # NULL => next[f] \in set
               PROVE  e \in set
  BY DEF Ahead
<1> HIDE DEF c
<1> DEFINE S == {n \in Nodes : key[n] # NULL /\ Bucket(key[n]) = c /\ n \notin set}
<1>4. ASSUME S # {} PROVE FALSE
  <2>1. PICK f \in Linked : f \notin S /\ next[f] \in S
    <3>1. S \in SUBSET Nodes
      OBVIOUS
    <3> HIDE DEF S
    <3>2. QED BY <1>4, <3>1 DEF MapShape, Chained, Linked
  <2>2. next[f] # NULL /\ next[f] \notin set /\ Bucket(key[next[f]]) = c
    BY <2>1, Cells
  <2>3. Bucket(key[f]) = c /\ key[f] # NULL
    BY <2>1, <2>2 DEF MapShape, Sorted, Linked
  <2>4. f \notin set
    BY <1>3, <2>2
  <2>5. f \in Places
    BY <2>1, <2>3, <2>4 DEF Linked
  <2>6. f = c
    BY <2>3, <2>5 DEF MapShape, Sorted
  <2>7. QED BY <1>3, <2>4, <2>6
<1>5. CASE e \in Nodes
  <2>1. e \notin S
    BY <1>4
  <2>2. QED BY <1>5, <2>1 DEF c
<1>6. CASE e \in Places
  <2>1. e = c
    BY <1>6 DEF MapShape, Sorted, c
  <2>2. QED BY <1>3, <2>1
<1>7. QED BY <1>5, <1>6 DEF Linked

\* A sequence without repetitions, of the elements of a set.
Lists(s, set) == /\ s \in Seq(set)
                 /\ \A i, j \in 1 .. Len(s) : s[i] = s[j] => i = j
                 /\ \A e \in set : \E i \in 1 .. Len(s) : s[i] = e

Keyed == {e \in Linked : key[e] # NULL}

\* A chain has the keys of its bucket.
LEMMA EntriesAre ==
    ASSUME MapTypeOK, MapShape, Intact, NEW c \in Places
    PROVE  /\ Lists(Entries(c), {e \in Keyed : Bucket(key[e]) = c})
           /\ key[c] # NULL => Lists(Chain(c), {e \in Keyed : Bucket(key[e]) = c})
<1> DEFINE set == {e \in Keyed : Bucket(key[e]) = c}
<1>1. CASE key[c] = NULL
  <2>1. ASSUME NEW e \in set PROVE FALSE
    <3>1. e \in Linked /\ key[e] # NULL /\ Bucket(key[e]) = c
      BY DEF Keyed
    <3>2. Ahead(c, e)
      BY <3>1, Reach
    <3>3. next[c] = NULL
      BY <1>1 DEF MapShape, Sorted
    <3>4. {c} \in SUBSET Linked
      BY DEF Linked
    <3>5. e \in {c}
      BY <3>2, <3>3, <3>4 DEF Ahead
    <3>6. QED BY <1>1, <3>1, <3>5
  <2>2. Entries(c) = <<>>
    BY <1>1 DEF Entries
  <2> HIDE DEF set
  <2>3. QED BY <1>1, <2>1, <2>2 DEF Lists, set
<1>2. CASE key[c] # NULL
  <2> DEFINE s == Chain(c)
  <2>1. IsChain(c, s) /\ next[Last(s)] = NULL
    BY WholeChain DEF MapShape
  <2>2. Entries(c) = s
    BY <1>2 DEF Entries
  <2> HIDE DEF s
  <2>3. Len(s) \in Nat \ {0} /\ \A i \in 1 .. Len(s) : s[i] \in Linked
    BY <2>1 DEF IsChain
  <2> DEFINE Bad == {i \in Nat : i \in 1 .. Len(s) /\ s[i] \notin set}
  <2>4. ASSUME NEW i \in Bad, \A j \in Bad : ~(j < i) PROVE FALSE
    <3>1. CASE i = 1
      <4>1. Bucket(key[c]) = c /\ c \in Keyed
        BY <1>2 DEF MapShape, Sorted, Keyed, Linked
      <4>2. QED BY <2>1, <2>4, <3>1, <4>1 DEF IsChain
    <3>2. CASE i # 1
      <4>1. i \in 2 .. Len(s) /\ i - 1 \in 1 .. Len(s) /\ i - 1 < i /\ i - 1 \in Nat
        BY <2>3, <3>2
      <4>2. s[i] \in Nodes /\ s[i] = next[s[i - 1]] /\ s[i - 1] \in Linked
        BY <2>1, <2>3, <4>1 DEF IsChain
      <4>3. s[i - 1] \in set
        BY <2>4, <4>1
      <4>4. key[s[i]] # NULL /\ Bucket(key[s[i]]) = c
        BY <4>2, <4>3, Cells DEF MapShape, Sorted
      <4>5. QED BY <2>4, <4>2, <4>4 DEF Keyed, Linked
    <3>3. QED BY <3>1, <3>2
  <2>5. Bad = {}
    <3>1. Bad \in SUBSET Nat
      OBVIOUS
    <3> HIDE DEF Bad
    <3>2. QED BY <2>4, <3>1, Least
  <2>6. \A i \in 1 .. Len(s) : s[i] \in set
    BY <2>3, <2>5
  <2>7. ASSUME NEW e \in set PROVE \E i \in 1 .. Len(s) : s[i] = e
    <3> DEFINE range == {s[i] : i \in 1 .. Len(s)}
    <3>1. Ahead(c, e)
      BY Reach DEF Keyed
    <3>2. range \in SUBSET Linked /\ c \in range
      BY <2>1, <2>3 DEF IsChain
    <3>3. ASSUME NEW i \in 1 .. Len(s), next[s[i]] # NULL PROVE next[s[i]] \in range
      <4>1. i # Len(s)
        BY <2>1, <3>3 DEF Last
      <4>2. i + 1 \in 2 .. Len(s) /\ i + 1 \in 1 .. Len(s) /\ (i + 1) - 1 = i
        BY <2>3, <4>1
      <4>3. s[i + 1] = next[s[i]]
        BY <2>1, <4>2 DEF IsChain
      <4>4. QED BY <4>2, <4>3
    <3>4. e \in range
      <4>1. \A f \in range : next[f] # NULL => next[f] \in range
        BY <3>3
      <4> HIDE DEF range
      <4>2. QED BY <3>1, <3>2, <4>1 DEF Ahead
    <3>5. QED BY <3>4
  <2> HIDE DEF set
  <2>8. s \in Seq(set)
    <3>1. s \in Seq(Linked)
      BY <2>1 DEF IsChain
    <3>2. QED BY <2>6, <3>1
  <2>9. Lists(s, set)
    BY <2>1, <2>7, <2>8 DEF Lists, IsChain
  <2>10. QED BY <2>2, <2>9 DEF s, set
<1>3. QED BY <1>1, <1>2

\* Lists of disjoint sets are joined to a list of their union.
LEMMA ListsJoin ==
    ASSUME NEW S, NEW T, S \cap T = {}, NEW s, NEW t, Lists(s, S), Lists(t, T)
    PROVE  Lists(s \o t, S \cup T)
<1> DEFINE m == Len(s)
           n == Len(t)
           u == s \o t
<1>1. m \in Nat /\ n \in Nat /\ s \in Seq(S) /\ t \in Seq(T)
      /\ s \in Seq(S \cup T) /\ t \in Seq(S \cup T)
  BY DEF Lists
<1>2. /\ u \in Seq(S \cup T) /\ Len(u) = m + n
      /\ \A i \in 1 .. m : u[i] = s[i]
      /\ \A i \in 1 .. n : u[m + i] = t[i]
  BY <1>1
<1>3. (\A i \in 1 .. m : s[i] \in S) /\ (\A i \in 1 .. n : t[i] \in T)
  BY <1>1
<1> HIDE DEF m, n, u
<1>4. ASSUME NEW i \in 1 .. m + n, ~(i <= m) PROVE \E k \in 1 .. n : i = m + k
  <2>1. i - m \in 1 .. n /\ i = m + (i - m)
    BY <1>1, <1>4
  <2>2. QED BY <2>1
<1>5. ASSUME NEW i \in 1 .. m + n, NEW j \in 1 .. m + n, u[i] = u[j] PROVE i = j
  <2>1. CASE i <= m /\ j <= m
    <3>1. i \in 1 .. m /\ j \in 1 .. m
      BY <1>1, <2>1
    <3>2. s[i] = s[j]
      BY <1>2, <1>5, <3>1
    <3>3. QED BY <3>1, <3>2 DEF Lists, m
  <2>2. CASE i <= m /\ ~(j <= m)
    <3>1. PICK k \in 1 .. n : j = m + k
      BY <1>4, <2>2
    <3>2. i \in 1 .. m
      BY <1>1, <2>2
    <3>3. u[i] \in S /\ u[j] \in T
      BY <1>2, <1>3, <3>1, <3>2
    <3>4. QED BY <1>5, <3>3
  <2>3. CASE ~(i <= m) /\ j <= m
    <3>1. PICK k \in 1 .. n : i = m + k
      BY <1>4, <2>3
    <3>2. j \in 1 .. m
      BY <1>1, <2>3
    <3>3. u[j] \in S /\ u[i] \in T
      BY <1>2, <1>3, <3>1, <3>2
    <3>4. QED BY <1>5, <3>3
  <2>4. CASE ~(i <= m) /\ ~(j <= m)
    <3>1. PICK k \in 1 .. n : i = m + k
      BY <1>4, <2>4
    <3>2. PICK l \in 1 .. n : j = m + l
      BY <1>4, <2>4
    <3>3. t[k] = t[l]
      BY <1>2, <1>5, <3>1, <3>2
    <3>4. k = l
      BY <3>3 DEF Lists, n
    <3>5. QED BY <3>1, <3>2, <3>4
  <2>5. QED
    <3>1. (i <= m \/ ~(i <= m)) /\ (j <= m \/ ~(j <= m))
      OBVIOUS
    <3>2. QED BY <2>1, <2>2, <2>3, <2>4, <3>1
<1>6. ASSUME NEW e \in S \cup T PROVE \E i \in 1 .. m + n : u[i] = e
  <2>1. CASE e \in S
    <3>1. PICK i \in 1 .. m : s[i] = e
      BY <2>1 DEF Lists, m
    <3>2. i \in 1 .. m + n
      BY <1>1
    <3>3. QED BY <1>2, <3>1, <3>2
  <2>2. CASE e \in T
    <3>1. PICK i \in 1 .. n : t[i] = e
      BY <2>2 DEF Lists, n
    <3>2. m + i \in 1 .. m + n
      BY <1>1
    <3>3. QED BY <1>2, <3>1, <3>2
  <2>3. QED BY <2>1, <2>2
<1>7. Lists(u, S \cup T)
  BY <1>2, <1>5, <1>6 DEF Lists
<1>8. QED BY <1>7 DEF u

\* The number of elements of a list.
LEMMA ListsCount ==
    ASSUME NEW S, NEW s, Lists(s, S)
    PROVE  IsFiniteSet(S) /\ Cardinality(S) = Len(s)
<1>1. Len(s) \in Nat /\ s \in [1 .. Len(s) -> S]
  BY DEF Lists
<1>2. s \in Bijection(1 .. Len(s), S)
  BY <1>1 DEF Lists, Bijection, Injection, Surjection, IsInjective
<1>3. ExistsBijection(1 .. Len(s), S)
  BY <1>2 DEF ExistsBijection
<1>4. QED BY <1>1, <1>3, FS_CountingElements, FS_NatBijection

\* The sequences g are the first ones of seqs, put together.
Joins(seqs, n, g) == g = [i \in 1 .. n |-> IF i = 1 THEN seqs[i] ELSE g[i - 1] \o seqs[i]]

\* The chains of all buckets are joined one after the other, as FlattenSeq does.
LEMMA JoinsExist == ASSUME NEW seqs, NEW n \in Nat PROVE \E g : Joins(seqs, n, g)
<1> DEFINE Bad == {m \in Nat : ~ \E g : Joins(seqs, m, g)}
<1>1. ASSUME NEW m \in Bad, \A k \in Bad : ~(k < m) PROVE FALSE
  <2>1. CASE m = 0
    <3> DEFINE g == [i \in 1 .. 0 |-> seqs[i]]
    <3>0. \A i \in 1 .. 0 : FALSE
      OBVIOUS
    <3>1. Joins(seqs, 0, g)
      BY <3>0 DEF Joins
    <3>2. QED BY <1>1, <2>1, <3>1
  <2>2. CASE m # 0
    <3>1. m \in Nat /\ m - 1 \in Nat /\ m - 1 < m
      BY <2>2
    <3>2. PICK g : Joins(seqs, m - 1, g)
      BY <1>1, <3>1
    <3> DEFINE h == [i \in 1 .. m |-> IF i = 1 THEN seqs[i] ELSE g[i - 1] \o seqs[i]]
    <3>3. \A i \in 1 .. m - 1 : h[i] = g[i]
      <4>1. \A i \in 1 .. m - 1 : i \in 1 .. m
        BY <3>1
      <4>2. QED BY <3>2, <4>1 DEF Joins
    <3>4. \A i \in 1 .. m : i # 1 => i - 1 \in 1 .. m - 1
      BY <3>1
    <3>5. h = [i \in 1 .. m |-> IF i = 1 THEN seqs[i] ELSE h[i - 1] \o seqs[i]]
      BY <3>3, <3>4
    <3> HIDE DEF h
    <3>6. Joins(seqs, m, h)
      BY <3>5 DEF Joins
    <3>7. QED BY <1>1, <3>6
  <2>3. QED BY <2>1, <2>2
<1>2. Bad = {}
  <2>1. Bad \in SUBSET Nat
    OBVIOUS
  <2> HIDE DEF Bad
  <2>2. QED BY <1>1, <2>1, Least
<1>3. QED BY <1>2

\* What resetHashMap copies: every entry once.
LEMMA AllAre ==
    ASSUME MapTypeOK, MapShape, Intact
    PROVE  Lists(All, Keyed)
<1> DEFINE seqs == [n \in 1 .. listSize |-> Entries(n - 1)]
           g == CHOOSE h : Joins(seqs, listSize, h)
<1>0. listSize \in Nat \ {0} /\ \A e \in Linked : key[e] # NULL => Bucket(key[e]) \in Places
  BY Cells DEF MapTypeOK
<1>1. All = g[listSize]
  <2>1. Len(seqs) = listSize
    BY <1>0
  <2> DEFINE s == seqs
  <2>2. All = FlattenSeq(s)
    BY DEF All
  <2> HIDE DEF s
  <2>3. FlattenSeq(s) = (CHOOSE h : Joins(s, Len(s), h))[Len(s)]
    BY <1>0, <2>1 DEF FlattenSeq, Joins, s
  <2>4. QED BY <2>1, <2>2, <2>3 DEF s
<1>2. Joins(seqs, listSize, g)
  BY <1>0, JoinsExist
<1>3. \A n \in 1 .. listSize : seqs[n] = Entries(n - 1)
  OBVIOUS
<1> HIDE DEF g, seqs
<1> DEFINE upTo(n) == {e \in Keyed : Bucket(key[e]) < n}
           at(n) == {e \in Keyed : Bucket(key[e]) = n - 1}
           Bad == {n \in Nat : n \in 1 .. listSize /\ ~Lists(g[n], upTo(n))}
<1>4. ASSUME NEW n \in 1 .. listSize PROVE Lists(seqs[n], at(n))
  <2>1. n - 1 \in Places
    BY <1>0 DEF Places
  <2>2. QED BY <1>3, <2>1, EntriesAre
<1>5. ASSUME NEW e \in Keyed PROVE Bucket(key[e]) \in Nat /\ Bucket(key[e]) < listSize
  BY <1>0 DEF Keyed, Places
<1>6. ASSUME NEW n \in Bad, \A m \in Bad : ~(m < n) PROVE FALSE
  <2>0. n \in 1 .. listSize /\ n \in Nat /\ n # 0
    OBVIOUS
  <2>1. CASE n = 1
    <3>1. g[n] = seqs[n]
      BY <1>2, <2>0, <2>1 DEF Joins
    <3>2. upTo(n) = at(n)
      <4>1. \A e \in Keyed : Bucket(key[e]) < 1 <=> Bucket(key[e]) = 1 - 1
        BY <1>5
      <4>2. QED BY <2>1, <4>1
    <3>3. QED BY <1>4, <1>6, <2>0, <3>1, <3>2
  <2>2. CASE n # 1
    <3>1. n - 1 \in 1 .. listSize /\ n - 1 < n /\ n - 1 \in Nat
      BY <1>0, <2>0, <2>2
    <3>2. Lists(g[n - 1], upTo(n - 1))
      BY <1>6, <3>1
    <3>3. g[n] = g[n - 1] \o seqs[n]
      BY <1>2, <2>0, <2>2 DEF Joins
    <3>4. Lists(seqs[n], at(n))
      BY <1>4, <2>0
    <3>5. upTo(n) = upTo(n - 1) \cup at(n) /\ upTo(n - 1) \cap at(n) = {}
      <4>1. \A e \in Keyed : /\ Bucket(key[e]) < n <=> Bucket(key[e]) < n - 1 \/ Bucket(key[e]) = n - 1
                             /\ ~ (Bucket(key[e]) < n - 1 /\ Bucket(key[e]) = n - 1)
        BY <1>5, <2>0
      <4>2. QED BY <4>1
    <3>6. Lists(g[n], upTo(n))
      <4> HIDE DEF upTo, at
      <4>1. QED BY <3>2, <3>3, <3>4, <3>5, ListsJoin
    <3>7. QED BY <1>6, <3>6
  <2>3. QED BY <2>1, <2>2
<1>7. Bad = {}
  <2>1. Bad \in SUBSET Nat
    OBVIOUS
  <2> HIDE DEF Bad
  <2>2. QED BY <1>6, <2>1, Least
<1>8. Lists(g[listSize], upTo(listSize))
  <2>1. listSize \in 1 .. listSize
    BY <1>0
  <2>2. QED BY <1>0, <1>7, <2>1
<1>9. upTo(listSize) = Keyed
  BY <1>5
<1>10. QED BY <1>1, <1>8, <1>9

\* As a set.
LEMMA ListsRange == ASSUME NEW S, NEW s, Lists(s, S) PROVE Range(s) = S /\ Len(s) \in Nat
<1>1. s \in Seq(S) /\ DOMAIN s = 1 .. Len(s) /\ Len(s) \in Nat
  BY DEF Lists
<1>2. QED BY <1>1 DEF Lists, Range

\* There are as many entries as keys.
LEMMA AllCount ==
    ASSUME MapTypeOK, MapShape, Intact, Filled = Keyed
    PROVE  /\ Len(All) \in Nat /\ Range(All) = Keyed
           /\ IsFiniteSet(Stored) /\ Cardinality(Stored) = Len(All)
<1>1. Lists(All, Keyed)
  BY AllAre
<1>2. IsFiniteSet(Keyed) /\ Cardinality(Keyed) = Len(All)
  BY <1>1, ListsCount
<1> DEFINE f == [e \in Keyed |-> key[e]]
<1>3. f \in Bijection(Keyed, Stored)
  <2>1. f \in [Keyed -> Stored]
    BY DEF Stored
  <2>2. \A e, h \in Keyed : f[e] = f[h] => e = h
    BY DEF MapShape, OneEntry
  <2>3. \A k \in Stored : \E e \in Keyed : f[e] = k
    BY DEF Stored
  <2> HIDE DEF f
  <2>4. QED BY <2>1, <2>2, <2>3 DEF Bijection, Injection, Surjection, IsInjective
<1>4. ExistsBijection(Keyed, Stored)
  BY <1>3 DEF ExistsBijection
<1>5. IsFiniteSet(Stored) /\ Cardinality(Stored) = Cardinality(Keyed)
  BY <1>2, <1>4, FS_Bijection
<1>6. QED BY <1>1, <1>2, <1>5, ListsRange

\* What every chain of a map between two modifications shows.
LEMMA ExactlyAFunction ==
    ASSUME MapTypeOK, MapShape, OthersKept, Exact, MapAt
    PROVE  MapIsFunction
<1>1. ASSUME mpc \in {"idle", "copy_grow", "copy_shrink"}
      PROVE  /\ Intact /\ Filled = Keyed /\ Linked = Places \cup live /\ size = Len(All)
             /\ Len(All) = Cardinality(Stored) /\ Range(All) = Keyed
  <2>1. Intact /\ Filled = Keyed /\ Linked = Places \cup live /\ CountedKeys = Stored
    BY <1>1 DEF Intact, Filled, Keyed, Linked, Nodes, CountedKeys
  <2>2. QED BY <2>1, AllCount DEF Exact
<1>2. ASSUME mpc = "idle"
      PROVE  /\ \A k \in Key, v \in Value :
                   map[k] = v <=> \E e \in Range(Entries(Bucket(k))) : key[e] = k /\ value[e] = v
             /\ Len(All) = Cardinality(Mapped)
             /\ live = Range(All) \cap Node
  <2>1. /\ Intact /\ Filled = Keyed /\ Linked = Places \cup live
        /\ Len(All) = Cardinality(Stored) /\ Range(All) = Keyed
    BY <1>1, <1>2
  <2>2. tempList = <<>> /\ Busy = {}
    BY <1>2 DEF MapAt, ResetAt, Busy, Putting
  <2>3. ASSUME NEW k \in Key, NEW v \in Value PROVE map[k] = v <=> Has(k, v)
    <3>1. ~WaitsFor(k, v)
      BY <2>2 DEF WaitsFor
    <3>2. QED BY <2>1, <2>2, <3>1 DEF OthersKept
  <2>4. ASSUME NEW k \in Key, NEW v \in Value
        PROVE  map[k] = v <=> \E e \in Range(Entries(Bucket(k))) : key[e] = k /\ value[e] = v
    <3>1. Bucket(k) \in Places
      BY Cells
    <3>2. Range(Entries(Bucket(k))) = {e \in Keyed : Bucket(key[e]) = Bucket(k)}
      BY <2>1, <3>1, EntriesAre, ListsRange
    <3>3. Has(k, v) <=> \E e \in Keyed : key[e] = k /\ value[e] = v
      BY <2>1 DEF Has
    <3>4. QED BY <2>3, <3>2, <3>3
  <2>5. Stored = Mapped
    <3>1. ASSUME NEW k \in Stored PROVE k \in Mapped
      <4>1. PICK e \in Keyed : key[e] = k
        BY <2>1 DEF Stored
      <4>2. k \in Key /\ value[e] \in Value
        BY <1>2, <2>1, <4>1, Cells DEF Keyed, MapTypeOK, MapShape, Valued
      <4>3. map[k] = value[e]
        BY <2>1, <2>3, <4>1, <4>2 DEF Has
      <4>4. QED BY <4>2, <4>3, NullAssumption DEF Mapped
    <3>2. ASSUME NEW k \in Mapped PROVE k \in Stored
      <4>1. k \in Key /\ map[k] \in Value
        BY DEF Mapped, MapTypeOK
      <4>2. Has(k, map[k])
        BY <2>3, <4>1
      <4>3. QED BY <4>2 DEF Has, Stored
    <3>3. QED BY <3>1, <3>2
  <2>6. live = Range(All) \cap Node
    <3>1. \A n \in live : key[n] # NULL /\ n \in Node
      BY <1>2, <2>1, Cells DEF MapShape, Sorted, Nodes
    <3>2. Places \cap Node = {}
      BY Cells, NodeAssumption
    <3>3. QED BY <2>1, <3>1, <3>2 DEF Keyed
  <2>7. QED BY <2>1, <2>4, <2>5, <2>6
<1>3. QED BY <1>1, <1>2 DEF MapIsFunction, Mapped

-----------------------------------------------------------------------------
(* The steps of the modifier keep the types.                               *)

MapCore == MapTypeOK /\ MapShape /\ OthersKept /\ Exact /\ Room /\ MapAt

\* What a search of a bucket finds.
LEMMA Find ==
    ASSUME MapTypeOK, MapShape, Intact, NEW k \in Key, NEW e
    PROVE  e \in Range(Entries(Bucket(k))) /\ key[e] = k <=> e \in Keyed /\ key[e] = k
<1>1. Bucket(k) \in Places
  BY Cells
<1>2. Range(Entries(Bucket(k))) = {h \in Keyed : Bucket(key[h]) = Bucket(k)}
  BY <1>1, EntriesAre, ListsRange
<1>3. QED BY <1>2

\* A later entry of a chain is a node that its predecessor leads to.
LEMMA FindNode ==
    ASSUME MapTypeOK, MapShape, Intact, NEW c \in Places, NEW n \in 2 .. Len(Chain(c))
    PROVE  /\ Chain(c)[n] \in Nodes /\ Chain(c)[n - 1] \in Linked
           /\ next[Chain(c)[n - 1]] = Chain(c)[n]
           /\ key[c] # NULL => Chain(c)[n] \in Keyed /\ Bucket(key[Chain(c)[n]]) = c
<1>1. IsChain(c, Chain(c))
  BY WholeChain DEF MapShape
<1> DEFINE s == Chain(c)
<1> HIDE DEF s
<1>2. Len(s) \in Nat
  BY <1>1 DEF IsChain, s
<1>3. n - 1 \in 1 .. Len(s) /\ n \in 1 .. Len(s) /\ n \in 2 .. Len(s)
  BY <1>2 DEF s
<1>4. s[n] \in Nodes /\ s[n - 1] \in Linked /\ next[s[n - 1]] = s[n]
  BY <1>1, <1>3 DEF IsChain, s
<1>5. ASSUME key[c] # NULL PROVE s[n] \in Keyed /\ Bucket(key[s[n]]) = c
  <2>1. Lists(s, {e \in Keyed : Bucket(key[e]) = c})
    BY <1>5, EntriesAre DEF s
  <2>2. s[n] \in {e \in Keyed : Bucket(key[e]) = c}
    BY <1>3, <2>1 DEF Lists
  <2>3. QED BY <2>2
<1>6. QED BY <1>4, <1>5 DEF s

\* Keys that are stored are in the map, but for one that is being changed.
LEMMA StoredMapped ==
    ASSUME MapCore, Intact
    PROVE  /\ Stored \subseteq Key /\ Stored \subseteq Mapped \cup Busy
           /\ \A k \in Mapped \ Busy : k \in Stored \cup Waiting
           /\ Waiting \ Busy \subseteq Mapped
<1>0. MapTypeOK
  BY DEF MapCore
<1>1. ASSUME NEW k \in Stored PROVE k \in Key /\ k \in Mapped \cup Busy
  <2>1. PICK e \in Filled : key[e] = k
    BY DEF Stored
  <2>2. e \in Linked /\ k \in Key
    BY <2>1, <1>0, Cells DEF Filled, MapTypeOK
  <2>3. CASE mpc = "put_value" /\ e = Bucket(mkey)
    BY <2>1, <2>2, <2>3 DEF MapCore, MapAt, PutAt, Busy
  <2>4. CASE ~(mpc = "put_value" /\ e = Bucket(mkey))
    <3>1. value[e] \in Value
      BY <1>0, <2>1, <2>2, <2>4, Cells DEF MapCore, MapShape, Valued, MapTypeOK, Filled
    <3>2. k \notin Busy => map[k] = value[e]
      BY <2>1, <2>2, <3>1 DEF MapCore, OthersKept, Has
    <3>3. QED BY <2>2, <3>1, <3>2, NullAssumption DEF Mapped
  <2>5. QED BY <2>3, <2>4
<1>2. ASSUME NEW k \in Mapped \ Busy PROVE k \in Stored \cup Waiting
  <2>1. k \in Key /\ map[k] \in Value
    BY <1>0 DEF Mapped, MapTypeOK
  <2>2. Has(k, map[k]) \/ WaitsFor(k, map[k])
    BY <2>1 DEF MapCore, OthersKept
  <2>3. QED BY <2>2 DEF Has, Stored, WaitsFor, Waiting
<1>3. ASSUME NEW k \in Waiting \ Busy PROVE k \in Mapped
  <2>1. PICK i \in DOMAIN tempList : tempList[i][1] = k
    BY DEF Waiting
  <2>2. tempList[i] \in Key \X Value
    BY <1>0, <2>1 DEF MapTypeOK
  <2>3. WaitsFor(k, tempList[i][2]) /\ k \in Key /\ tempList[i][2] \in Value
    BY <2>1, <2>2 DEF WaitsFor
  <2>4. QED BY <2>3, NullAssumption DEF MapCore, OthersKept, Mapped
<1>4. QED BY <1>1, <1>2, <1>3

\* There is room to count a key that is put.
LEMMA PutFits ==
    ASSUME MapCore, mpc = "put", mkey \notin Stored
    PROVE  /\ size + 1 \in 0 .. MaxListSize /\ size + 1 <= Cardinality(Mapped)
           /\ size + 1 = Cardinality(Stored \cup {mkey}) /\ IsFiniteSet(Stored \cup {mkey})
           /\ Cardinality(Mapped) \in Nat
<1>1. Intact /\ Busy = {mkey} /\ CountedKeys = Stored
  BY DEF Intact, Busy, CountedKeys
<1>2. IsFiniteSet(Stored) /\ size = Cardinality(Stored) /\ IsFiniteSet(Mapped)
      /\ Cardinality(Mapped) <= MaxListSize
  BY <1>1 DEF MapCore, Exact
<1>3. mkey \in Mapped
  BY NullAssumption DEF MapCore, MapAt, PutAt, Putting, Mapped
<1>4. Stored \cup {mkey} \in SUBSET Mapped
  BY <1>1, <1>3, StoredMapped
<1>5. IsFiniteSet(Stored \cup {mkey}) /\ Cardinality(Stored \cup {mkey}) = size + 1
  BY <1>2, FS_AddElement
<1>6. Cardinality(Stored \cup {mkey}) <= Cardinality(Mapped)
  BY <1>2, <1>4, FS_Subset
<1>7. Cardinality(Mapped) \in Nat /\ size \in Nat
  BY <1>2, FS_CardinalityType DEF MapCore, MapTypeOK
<1>8. QED BY <1>2, <1>5, <1>6, <1>7, SizeAssumption

\* The array that resetHashMap fills has room for all entries.
LEMMA NotNested ==
    ASSUME MapCore, mpc = "grow", resizing
    PROVE  size < listSize
<1>1. Intact /\ CountedKeys = Stored /\ Busy = {}
  BY DEF Intact, CountedKeys, Busy
<1>2. Stored \in SUBSET Mapped
  BY <1>1, StoredMapped
<1>3. size = Cardinality(Stored) /\ IsFiniteSet(Mapped) /\ Cardinality(Mapped) < listSize
  BY <1>1 DEF MapCore, Exact, Room
<1>4. Cardinality(Stored) <= Cardinality(Mapped)
  BY <1>2, <1>3, FS_Subset
<1>5. size \in Int /\ listSize \in Int /\ Cardinality(Mapped) \in Int
  BY <1>3, FS_CardinalityType, Cells DEF MapCore, MapTypeOK
<1>6. QED BY <1>3, <1>4, <1>5

\* Worse is the worse of two grades.
LEMMA GradeType == /\ Range(Grade) = {"none", "put", "move", "same"}
                   /\ \A a, b \in Range(Grade) :
                         /\ Worse(a, b) \in Range(Grade)
                         /\ Worse(a, b) \in {"none", "put"} <=> a \in {"none", "put"} /\ b \in {"none", "put"}
<1> DEFINE at(x) == CHOOSE n \in DOMAIN Grade : Grade[n] = x
<1>1. /\ DOMAIN Grade = 1 .. 4 /\ Grade[1] = "none" /\ Grade[2] = "put"
      /\ Grade[3] = "move" /\ Grade[4] = "same"
  BY DEF Grade
<1>2. DOMAIN Grade = {1, 2, 3, 4}
  BY <1>1
<1>3. Range(Grade) = {"none", "put", "move", "same"}
  BY <1>1, <1>2 DEF Range
<1>4. at("none") = 1 /\ at("put") = 2 /\ at("move") = 3 /\ at("same") = 4
  BY <1>1, <1>2
<1> HIDE DEF at
<1>5. \A a, b : Worse(a, b) = IF at(a) < at(b) THEN b ELSE a
  BY DEF Worse, at
<1>6. QED BY <1>3, <1>4, <1>5

\* The variables of a step that To leaves.
LEMMA ToType ==
    ASSUME MapTypeOK, NEW place \in Place, To(place)
    PROVE  /\ mpc' \in Place /\ mkey' \in Key \cup {NULL} /\ mval' \in Value \cup {NULL}
           /\ changed' \in Key \cup {NULL} /\ resizing' \in BOOLEAN
  BY DEF To, opVars, MapTypeOK

EntryType == /\ key \in [Entry -> Key \cup {NULL}]
             /\ value \in [Entry -> Value \cup {NULL}]
             /\ next \in [Entry -> Node \cup {NULL}]
TableType == /\ live \subseteq Node /\ hash_list \in Block /\ size \in 0 .. MaxListSize
             /\ listSize \in DEFAULT_MAP_SIZE .. 2 * MaxListSize
             /\ length \in DEFAULT_MAP_SIZE .. 2 * MaxListSize
OpType == /\ mpc \in Place /\ mkey \in Key \cup {NULL} /\ mval \in Value \cup {NULL}
          /\ changed \in Key \cup {NULL} /\ resizing \in BOOLEAN
RestType == /\ temp \in Node \cup {NULL} /\ tempList \in Seq(Key \X Value)
            /\ map \in [Key -> Value \cup {NULL}]
ReadType == /\ rpc \in {"idle", "exists", "exists_first", "exists_walk", "get", "get_walk",
                       "get_value", "done", "crashed"}
            /\ rkey \in Key \cup {NULL} /\ ret \in Value \cup {NULL}
            /\ block \in Block /\ ptr \in Entry /\ overlap \in Range(Grade)

\* The types, by what a step leaves together.
LEMMA Types == MapTypeOK <=> EntryType /\ TableType /\ OpType /\ RestType /\ ReadType
  BY DEF MapTypeOK, EntryType, TableType, OpType, RestType, ReadType
LEMMA TypesNext == MapTypeOK' <=> EntryType' /\ TableType' /\ OpType' /\ RestType' /\ ReadType'
  BY DEF MapTypeOK, EntryType, TableType, OpType, RestType, ReadType

LEMMA TypeKept ==
    ASSUME MapTypeOK
    PROVE  /\ UNCHANGED entryVars => EntryType'
           /\ UNCHANGED tableVars => TableType'
           /\ UNCHANGED readVars => ReadType'
           /\ UNCHANGED <<temp, tempList, map>> => RestType'
           /\ \A place \in Place : To(place) => OpType'
<1>1. EntryType /\ TableType /\ OpType /\ RestType /\ ReadType
  BY Types
<1>2. ASSUME NEW place \in Place, To(place) PROVE OpType'
  BY ToType, <1>2 DEF OpType
<1>3. QED BY <1>1, <1>2 DEF entryVars, tableVars, readVars, EntryType, TableType, RestType, ReadType

\* A modification of the caller begins.
LEMMA BeginType ==
    ASSUME MapTypeOK, NEW place \in {"put", "remove"}, NEW k \in Key, NEW v \in Value \cup {NULL},
           Begin(place, k, v)
    PROVE  MapTypeOK'
<1>1. EntryType' /\ TableType'
  BY TypeKept DEF Begin
<1>2. OpType'
  BY Types DEF Begin, OpType, Place
<1>3. RestType'
  BY Types DEF Begin, RestType
<1>4. ReadType'
  <2>1. overlap \in Range(Grade) /\ {"same", "put", "move"} \subseteq Range(Grade)
    BY GradeType DEF MapTypeOK
  <2>2. overlap' \in Range(Grade)
    <3> DEFINE x == IF k = rkey THEN "same" ELSE IF place = "put" THEN "put" ELSE "move"
    <3>1. x \in Range(Grade)
      BY <2>1
    <3>2. overlap' = IF rpc = "idle" THEN overlap ELSE Worse(overlap, x)
      BY DEF Begin
    <3> HIDE DEF x
    <3>3. QED BY <2>1, <3>1, <3>2, GradeType
  <2>3. QED BY <2>2, Types DEF Begin, ReadType
<1>5. QED BY <1>1, <1>2, <1>3, <1>4, TypesNext

\* What a step may make of an entry, or of several that are erased.
LEMMA WriteType ==
    ASSUME MapTypeOK
    PROVE  /\ \A e, x : x \in Key \cup {NULL} => [key EXCEPT ![e] = x] \in [Entry -> Key \cup {NULL}]
           /\ \A e, x : x \in Value \cup {NULL} => [value EXCEPT ![e] = x] \in [Entry -> Value \cup {NULL}]
           /\ \A e, x : x \in Node \cup {NULL} => [next EXCEPT ![e] = x] \in [Entry -> Node \cup {NULL}]
           /\ \A set : /\ Erase(key, set) \in [Entry -> Key \cup {NULL}]
                       /\ Erase(value, set) \in [Entry -> Value \cup {NULL}]
                       /\ Erase(next, set) \in [Entry -> Node \cup {NULL}]
<1>1. EntryType
  BY Types
<1>2. QED BY <1>1 DEF EntryType, Erase

\* The steps of defaultPut.
LEMMA PutType ==
    ASSUME MapCore, PutFirst \/ PutKey \/ PutValue \/ PutOver \/ PutNode \/ Grow
    PROVE  MapTypeOK'
<1>0. MapTypeOK
  BY DEF MapCore
<1>1. ASSUME mpc \in Putting PROVE mkey \in Key /\ mval \in Value /\ Bucket(mkey) \in Entry /\ Intact
  BY <1>0, <1>1, Cells DEF MapCore, MapAt, PutAt, Putting, Intact, Entry
<1>2. PutDone \in Place
  BY DEF PutDone, Place
<1>3. CASE PutFirst
  <2>1. mkey \notin Stored
    <3>1. mpc = "put" /\ key[Bucket(mkey)] = NULL /\ Intact /\ mkey \in Key
      BY <1>1, <1>3 DEF PutFirst, Putting
    <3>2. \A e \in Keyed : key[e] # mkey
      <4>1. Entries(Bucket(mkey)) = <<>>
        BY <3>1 DEF Entries
      <4>2. Range(Entries(Bucket(mkey))) = {}
        BY <4>1 DEF Range
      <4>3. QED BY <1>0, <3>1, <4>2, Find DEF MapCore
    <3>3. QED BY <3>2 DEF Stored, Filled, Keyed
  <2>2. TableType'
    BY <1>0, <1>3, <2>1, PutFits, Types DEF PutFirst, TableType
  <2>3. QED BY <1>0, <1>3, <2>2, TypeKept, TypesNext DEF PutFirst, Place
<1>4. CASE PutKey
  <2>1. key' \in [Entry -> Key \cup {NULL}]
    BY <1>0, <1>1, <1>4, WriteType DEF PutKey, Putting
  <2>2. EntryType'
    BY <1>0, <1>4, <2>1, Types DEF EntryType, PutKey
  <2>3. QED BY <1>0, <1>4, <2>2, TypeKept, TypesNext DEF PutKey, Place
<1>5. CASE PutValue
  <2>1. value' \in [Entry -> Value \cup {NULL}]
    BY <1>0, <1>1, <1>5, WriteType DEF PutValue, Putting
  <2>2. EntryType'
    BY <1>0, <1>5, <2>1, Types DEF EntryType, PutValue
  <2>3. QED BY <1>0, <1>5, <2>2, TypeKept, TypesNext DEF PutValue, Place
<1>6. CASE PutOver
  <2>1. value' \in [Entry -> Value \cup {NULL}]
    BY <1>0, <1>1, <1>6, WriteType DEF PutOver, Putting
  <2>2. EntryType'
    BY <1>0, <1>6, <2>1, Types DEF EntryType, PutOver
  <2>3. QED BY <1>0, <1>2, <1>6, <2>2, TypeKept, TypesNext DEF PutOver
<1>7. CASE PutNode
  <2>1. mkey \notin Stored
    <3>1. mpc = "put" /\ Intact /\ mkey \in Key
      BY <1>1, <1>7 DEF PutNode, Putting
    <3>2. \A e \in Keyed : key[e] # mkey
      BY <1>0, <1>7, <3>1, Find DEF MapCore, PutNode
    <3>3. QED BY <3>2 DEF Stored, Filled, Keyed
  <2>2. size' \in 0 .. MaxListSize
    BY <1>7, <2>1, PutFits DEF PutNode
  <2>3. live' \subseteq Node
    BY <1>0, <1>7 DEF PutNode, MapTypeOK
  <2>4. TableType'
    BY <1>0, <1>7, <2>2, <2>3, Types DEF PutNode, TableType
  <2>5. EntryType'
    <3>1. EntryType /\ mkey \in Key /\ mval \in Value /\ Bucket(mkey) \in Entry
      BY <1>0, <1>1, <1>7, Types DEF PutNode, Putting
    <3>2. PICK n \in Node \ live : /\ key' = [key EXCEPT ![n] = mkey]
                                   /\ value' = [value EXCEPT ![n] = mval]
                                   /\ next' = [next EXCEPT ![n] = next[Bucket(mkey)], ![Bucket(mkey)] = n]
      BY <1>7 DEF PutNode
    <3>3. QED BY <3>1, <3>2 DEF EntryType
  <2>6. QED BY <1>0, <1>7, <2>4, <2>5, TypeKept, TypesNext DEF PutNode, Place
<1>8. CASE Grow
  <2>1. ~(resizing /\ size >= listSize)
    <3>1. resizing => size < listSize
      BY <1>8, NotNested DEF Grow
    <3>2. size \in Int /\ listSize \in Int
      BY <1>0, Cells DEF MapTypeOK
    <3>3. QED BY <3>1, <3>2
  <2> DEFINE place == IF size < listSize THEN PutDone ELSE IF resizing THEN "nested" ELSE "copy_grow"
  <2>2. place \in Place
    <3>1. size \in Int /\ listSize \in Int
      BY <1>0, Cells DEF MapTypeOK
    <3>2. QED BY <1>2, <2>1, <3>1 DEF Place
  <2>3. To(place)
    BY <1>8 DEF Grow
  <2> HIDE DEF place
  <2>4. OpType'
    BY <1>0, <2>2, <2>3, TypeKept
  <2>5. QED BY <1>0, <1>8, <2>4, TypeKept, TypesNext DEF Grow
<1>9. QED BY <1>3, <1>4, <1>5, <1>6, <1>7, <1>8

\* The steps of defaultRemove.
LEMMA TakeType ==
    ASSUME MapCore, DropFirst \/ TakeKey \/ TakeValue \/ TakeNext \/ Unlink \/ FreeNode \/ Shrink
    PROVE  MapTypeOK'
<1>0. MapTypeOK
  BY DEF MapCore
<1>1. ASSUME mpc \in Taking \cup {"remove"} PROVE mkey \in Key /\ Bucket(mkey) \in Entry /\ Intact
                                               /\ Bucket(mkey) \in Places
  BY <1>0, <1>1, Cells DEF MapCore, MapAt, TakeAt, Taking, Intact, Entry
<1>2. temp # NULL => temp \in Entry /\ temp \in Node
  BY <1>0 DEF MapTypeOK, Entry
<1>3. ASSUME mpc = "remove" PROVE size - 1 \in 0 .. MaxListSize
  <2>1. Intact /\ CountedKeys = Stored /\ Stored # {}
    BY <1>3 DEF Intact, CountedKeys, MapCore, MapAt, TakeAt
  <2>2. IsFiniteSet(Stored) /\ size = Cardinality(Stored)
    BY <2>1 DEF MapCore, Exact
  <2>3. size # 0
    BY <2>1, <2>2, FS_EmptySet
  <2>4. QED BY <1>0, <2>3, SizeAssumption DEF MapTypeOK
<1>4. CASE DropFirst
  <2>1. TableType'
    BY <1>0, <1>3, <1>4, Types DEF DropFirst, TableType
  <2>2. temp' \in Node \cup {NULL}
    BY <1>0, <1>1, <1>4 DEF DropFirst, MapTypeOK
  <2>3. RestType'
    BY <1>0, <1>4, <2>2, Types DEF DropFirst, RestType
  <2>4. QED BY <1>0, <1>4, <2>1, <2>3, TypeKept, TypesNext DEF DropFirst, Place
<1>5. CASE TakeKey
  <2>1. (IF temp = NULL THEN NULL ELSE key[temp]) \in Key \cup {NULL}
    BY <1>0, <1>2 DEF MapTypeOK
  <2>2. key' \in [Entry -> Key \cup {NULL}]
    BY <1>0, <1>5, <2>1, WriteType DEF TakeKey
  <2>3. EntryType'
    BY <1>0, <1>5, <2>2, Types DEF EntryType, TakeKey
  <2>4. QED BY <1>0, <1>5, <2>3, TypeKept, TypesNext DEF TakeKey, Place
<1>6. CASE TakeValue
  <2>1. (IF temp = NULL THEN NULL ELSE value[temp]) \in Value \cup {NULL}
    BY <1>0, <1>2 DEF MapTypeOK
  <2>2. value' \in [Entry -> Value \cup {NULL}]
    BY <1>0, <1>6, <2>1, WriteType DEF TakeValue
  <2>3. EntryType'
    BY <1>0, <1>6, <2>2, Types DEF EntryType, TakeValue
  <2>4. QED BY <1>0, <1>6, <2>3, TypeKept, TypesNext DEF TakeValue, Place
<1>7. CASE TakeNext
  <2>1. next[temp] \in Node \cup {NULL}
    BY <1>0, <1>2, <1>7 DEF MapTypeOK, TakeNext, MapCore, MapAt, TakeAt
  <2>2. next' \in [Entry -> Node \cup {NULL}]
    BY <1>0, <1>7, <2>1, WriteType DEF TakeNext
  <2>3. EntryType'
    BY <1>0, <1>7, <2>2, Types DEF EntryType, TakeNext
  <2>4. QED BY <1>0, <1>7, <2>3, TypeKept, TypesNext DEF TakeNext, Place
<1>8. CASE Unlink
  <2> DEFINE chain == Chain(Bucket(mkey))
  <2>1. PICK n \in 2 .. Len(chain) : /\ next' = [next EXCEPT ![chain[n - 1]] = next[chain[n]]]
                                     /\ temp' = chain[n]
    BY <1>8 DEF Unlink
  <2>2. chain[n] \in Node /\ chain[n] \in Entry
    BY <1>0, <1>1, <1>8, FindNode, Cells DEF Unlink, MapCore, Entry
  <2>3. next[chain[n]] \in Node \cup {NULL}
    BY <1>0, <2>2 DEF MapTypeOK
  <2>4. next' \in [Entry -> Node \cup {NULL}] /\ temp' \in Node \cup {NULL}
    BY <1>0, <2>1, <2>2, <2>3, WriteType
  <2>5. EntryType' /\ RestType'
    BY <1>0, <1>8, <2>4, Types DEF EntryType, RestType, Unlink
  <2>6. TableType'
    BY <1>0, <1>3, <1>8, Types DEF Unlink, TableType
  <2>7. QED BY <1>0, <1>8, <2>5, <2>6, TypeKept, TypesNext DEF Unlink, Place
<1>9. CASE FreeNode
  <2>1. EntryType'
    BY <1>0, <1>9, WriteType DEF FreeNode, EntryType
  <2>2. TableType' /\ RestType'
    BY <1>0, <1>9, Types DEF FreeNode, TableType, RestType
  <2>3. QED BY <1>0, <1>9, <2>1, <2>2, TypeKept, TypesNext DEF FreeNode, Place
<1>10. CASE Shrink
  <2>1. OpType'
    <3> DEFINE place == IF size < listSize \div 2 /\ listSize \div 2 >= DEFAULT_MAP_SIZE
                        THEN "copy_shrink" ELSE "idle"
    <3>1. To(place) /\ place \in Place
      BY <1>10 DEF Shrink, Place
    <3> HIDE DEF place
    <3>2. QED BY <1>0, <3>1, TypeKept
  <2>2. QED BY <1>0, <1>10, <2>1, TypeKept, TypesNext DEF Shrink
<1>11. QED BY <1>4, <1>5, <1>6, <1>7, <1>8, <1>9, <1>10

\* The steps of resetHashMap.
LEMMA ResetType ==
    ASSUME MapCore, Copy \/ Realloc \/ ClearCells \/ PutBack
    PROVE  MapTypeOK'
<1>0. MapTypeOK
  BY DEF MapCore
<1>1. PutDone \in Place
  BY DEF PutDone, Place
<1>2. CASE Copy
  <2>0. Intact /\ Filled = Keyed
    BY <1>2 DEF Copy, Intact, Filled, Keyed
  <2>1. EntryType'
    BY <1>0, <1>2, WriteType DEF Copy, EntryType
  <2>2. listSize' \in DEFAULT_MAP_SIZE .. 2 * MaxListSize
    <3>1. CASE mpc = "copy_grow"
      <4>1. size = listSize /\ size \in 0 .. MaxListSize
        BY <1>0, <3>1 DEF MapCore, Room, MapTypeOK
      <4>2. listSize \in Nat /\ listSize >= DEFAULT_MAP_SIZE /\ listSize <= MaxListSize
        BY <1>0, <4>1, Cells, SizeAssumption DEF MapTypeOK
      <4>3. QED BY <1>2, <3>1, <4>2, SizeAssumption DEF Copy
    <3>2. CASE mpc = "copy_shrink"
      <4>1. listSize \div 2 >= DEFAULT_MAP_SIZE
        BY <3>2 DEF MapCore, Room
      <4>2. listSize \in Nat /\ listSize <= 2 * MaxListSize
        BY <1>0, Cells, SizeAssumption DEF MapTypeOK
      <4>3. listSize' = listSize \div 2
        BY <1>2, <3>2 DEF Copy
      <4>4. listSize \div 2 \in Nat /\ listSize \div 2 <= listSize
        BY <4>2
      <4>5. QED BY <4>1, <4>2, <4>3, <4>4, SizeAssumption
    <3>3. QED BY <1>2, <3>1, <3>2 DEF Copy
  <2>3. TableType'
    BY <1>0, <1>2, <2>2, Types DEF Copy, TableType
  <2>4. tempList' \in Seq(Key \X Value)
    <3>1. Lists(All, Keyed) /\ Len(All) \in Nat
      BY <1>0, <2>0, AllAre, AllCount DEF MapCore
    <3> DEFINE s == All
               t == [n \in 1 .. Len(s) |-> <<key[s[n]], value[s[n]]>>]
    <3>2. tempList' = t
      BY <1>2 DEF Copy
    <3> HIDE DEF s
    <3>3. ASSUME NEW n \in 1 .. Len(s) PROVE t[n] \in Key \X Value
      <4>1. s[n] \in Keyed
        BY <3>1, <3>3 DEF Lists, s
      <4>2. key[s[n]] \in Key /\ value[s[n]] \in Value
        BY <1>0, <1>2, <2>0, <4>1, Cells DEF Keyed, MapTypeOK, MapCore, MapShape, Valued, Copy
      <4>3. QED BY <4>2
    <3>4. t \in [1 .. Len(s) -> Key \X Value] /\ Len(s) \in Nat
      BY <3>1, <3>3 DEF s
    <3> HIDE DEF t
    <3>5. QED BY <3>2, <3>4
  <2>5. RestType'
    BY <1>0, <1>2, <2>4, Types DEF Copy, RestType
  <2>6. ReadType'
    <3>1. overlap' \in Range(Grade)
      BY <1>0, <1>2, GradeType DEF Copy, MapTypeOK
    <3>2. QED BY <1>0, <1>2, <3>1, Types DEF Copy, ReadType
  <2>7. QED BY <1>0, <1>2, <2>1, <2>3, <2>5, <2>6, TypeKept, TypesNext DEF Copy, Place
<1>3. CASE Realloc
  <2>1. EntryType'
    BY <1>0, <1>3, WriteType DEF Realloc, EntryType
  <2>2. TableType'
    BY <1>0, <1>3, Types DEF Realloc, TableType
  <2>3. QED BY <1>0, <1>3, <2>1, <2>2, TypeKept, TypesNext DEF Realloc, Place
<1>4. CASE ClearCells
  <2>1. EntryType'
    BY <1>0, <1>4, WriteType DEF ClearCells, EntryType
  <2>2. TableType'
    BY <1>0, <1>4, Types, SizeAssumption DEF ClearCells, TableType
  <2>3. QED BY <1>0, <1>1, <1>4, <2>1, <2>2, TypeKept, TypesNext DEF ClearCells
<1>5. CASE PutBack
  <2>1. tempList \in Seq(Key \X Value) /\ tempList # <<>>
    BY <1>0, <1>5 DEF PutBack, MapTypeOK, MapCore, MapAt, ResetAt
  <2>2. Head(tempList) \in Key \X Value /\ Tail(tempList) \in Seq(Key \X Value)
    BY <2>1
  <2>3. OpType'
    BY <1>0, <1>5, <2>2, Types DEF PutBack, OpType, Place
  <2>4. RestType'
    BY <1>0, <1>5, <2>2, Types DEF PutBack, RestType
  <2>5. QED BY <1>0, <1>5, <2>3, <2>4, TypeKept, TypesNext DEF PutBack
<1>6. QED BY <1>2, <1>3, <1>4, <1>5

-----------------------------------------------------------------------------
(* The steps of the modifier keep the chains.                              *)

\* A node is taken out of a chain.
LEMMA Bypass ==
    ASSUME NEW places, NEW nodes, NEW nx, Chained(places, nodes, nx),
           places \cap nodes = {}, NULL \notin nodes, NEW all, places \cup nodes \subseteq all,
           nx = [e \in all |-> nx[e]],
           NEW p \in places \cup nodes, nx[p] # NULL
    PROVE  Chained(places, nodes \ {nx[p]}, [nx EXCEPT ![p] = nx[nx[p]]])
<1> DEFINE x == nx[p]
           ny == [nx EXCEPT ![p] = nx[x]]
           rest == nodes \ {x}
<1>1. x \in nodes
  BY DEF Chained
<1>2. /\ p \in all /\ ny[p] = nx[x]
      /\ \A e \in places \cup nodes : e # p => ny[e] = nx[e]
  <2>1. p \in all /\ \A e \in places \cup nodes : e \in all
    OBVIOUS
  <2>2. QED BY <2>1
<1>3. nx[x] # x
  <2>1. ASSUME nx[x] = x PROVE FALSE
    <3>1. x = p
      BY <1>1, <2>1 DEF Chained
    <3>2. PICK e \in (places \cup nodes) \ {x} : nx[e] \in {x}
      <4> HIDE DEF x
      <4>1. {x} \in SUBSET nodes /\ {x} # {}
        BY <1>1
      <4>2. QED BY <4>1 DEF Chained
    <3>3. nx[e] = nx[x] /\ nx[e] # NULL /\ x \in places \cup nodes
      BY <1>1, <2>1, <3>2
    <3> HIDE DEF x
    <3>4. e = x
      BY <3>2, <3>3 DEF Chained
    <3>5. QED BY <3>2, <3>4
  <2>2. QED BY <2>1
<1> HIDE DEF x, ny
<1>4. ASSUME NEW e \in places \cup rest PROVE ny[e] \in rest \cup {NULL}
  <2>1. CASE e = p
    BY <1>1, <1>2, <1>3, <2>1 DEF Chained
  <2>2. CASE e # p
    <3>1. nx[e] # x
      BY <1>1, <2>2, <1>4 DEF Chained, x
    <3>2. QED BY <1>2, <2>2, <3>1 DEF Chained
  <2>3. QED BY <2>1, <2>2
<1>5. ASSUME NEW e \in places \cup rest, NEW f \in places \cup rest, ny[e] = ny[f], ny[e] # NULL
      PROVE  e = f
  <2>1. e # x /\ f # x
    BY <1>1
  <2>2. CASE e = p /\ f # p
    <3>1. nx[f] = nx[x]
      BY <1>2, <1>5, <2>2
    <3>2. f = x
      BY <1>1, <1>2, <1>5, <2>2, <3>1 DEF Chained
    <3>3. QED BY <2>1, <3>2
  <2>3. CASE e # p /\ f = p
    <3>1. nx[e] = nx[x]
      BY <1>2, <1>5, <2>3
    <3>2. e = x
      BY <1>1, <1>2, <1>5, <2>3, <3>1 DEF Chained
    <3>3. QED BY <2>1, <3>2
  <2>4. CASE e # p /\ f # p
    BY <1>2, <1>5, <2>4 DEF Chained
  <2>5. QED BY <2>2, <2>3, <2>4
<1>6. ASSUME NEW set \in SUBSET rest, set # {}
      PROVE  \E e \in (places \cup rest) \ set : ny[e] \in set
  <2>1. PICK e \in (places \cup nodes) \ set : nx[e] \in set
    BY <1>6 DEF Chained
  <2>2. CASE e = x
    <3>1. ny[p] \in set
      BY <1>2, <2>1, <2>2
    <3>2. CASE p \in set
      <4>1. PICK f \in (places \cup nodes) \ (set \cup {x}) : nx[f] \in set \cup {x}
        <5>1. set \cup {x} \in SUBSET nodes /\ set \cup {x} # {}
          BY <1>1
        <5>2. QED BY <5>1 DEF Chained
      <4>2. f # p
        BY <3>2, <4>1
      <4>3. nx[f] # x
        BY <1>1, <4>1, <4>2 DEF Chained, x
      <4>4. f \in (places \cup rest) \ set /\ ny[f] \in set
        BY <1>2, <4>1, <4>2, <4>3
      <4>5. QED BY <4>4
    <3>3. CASE p \notin set
      <4>1. p # x
        <5>1. ASSUME p = x PROVE FALSE
          <6>1. nx[x] = x
            BY <5>1 DEF x
          <6>2. QED BY <1>3, <6>1
        <5>2. QED BY <5>1
      <4>2. p \in (places \cup rest) \ set
        BY <3>3, <4>1
      <4>3. QED BY <3>1, <4>2
    <3>4. QED BY <3>2, <3>3
  <2>3. CASE e # x
    <3>1. e # p
      BY <1>6, <2>1 DEF x
    <3>2. QED BY <1>2, <2>1, <2>3, <3>1
  <2>4. QED BY <2>2, <2>3
<1>7. Chained(places, rest, ny)
  BY <1>4, <1>5, <1>6 DEF Chained
<1>8. QED BY <1>7 DEF ny, x

\* A node is linked in after an entry.
LEMMA Insert ==
    ASSUME NEW places, NEW nodes, NEW nx, Chained(places, nodes, nx),
           places \cap nodes = {}, NULL \notin nodes, NEW all, places \cup nodes \subseteq all,
           nx = [e \in all |-> nx[e]],
           NEW p \in places \cup nodes, NEW n \in all \ (places \cup nodes), n # NULL
    PROVE  Chained(places, nodes \cup {n}, [nx EXCEPT ![n] = nx[p], ![p] = n])
<1> DEFINE ny == [nx EXCEPT ![n] = nx[p], ![p] = n]
           more == nodes \cup {n}
<1>1. /\ ny[p] = n /\ ny[n] = nx[p] /\ n # p
      /\ \A e \in places \cup nodes : e # p => ny[e] = nx[e]
  <2>1. p \in all /\ n \in all /\ n # p /\ \A e \in places \cup nodes : e \in all /\ e # n
    OBVIOUS
  <2>2. QED BY <2>1
<1>2. \A e \in places \cup nodes : nx[e] # n
  BY DEF Chained
<1> HIDE DEF ny
<1>4. ASSUME NEW e \in places \cup more PROVE ny[e] \in more \cup {NULL}
  BY <1>1 DEF Chained
<1>5. ASSUME NEW e \in places \cup more, NEW f \in places \cup more, ny[e] = ny[f], ny[e] # NULL
      PROVE  e = f
  <2>1. CASE e = p
    BY <1>1, <1>2, <1>5, <2>1
  <2>2. CASE f = p
    BY <1>1, <1>2, <1>5, <2>2
  <2>3. CASE e # p /\ f # p
    <3>1. CASE e = n /\ f # n
      <4>1. nx[p] = nx[f] /\ nx[p] # NULL
        BY <1>1, <1>5, <2>3, <3>1
      <4>2. QED BY <2>3, <3>1, <4>1 DEF Chained
    <3>2. CASE e # n /\ f = n
      <4>1. nx[p] = nx[e] /\ nx[p] # NULL
        BY <1>1, <1>5, <2>3, <3>2
      <4>2. QED BY <2>3, <3>2, <4>1 DEF Chained
    <3>3. CASE e # n /\ f # n
      BY <1>1, <1>5, <2>3, <3>3 DEF Chained
    <3>4. QED BY <3>1, <3>2, <3>3
  <2>4. QED BY <2>1, <2>2, <2>3
<1>6. ASSUME NEW set \in SUBSET more, set # {}
      PROVE  \E e \in (places \cup more) \ set : ny[e] \in set
  <2>1. CASE n \in set /\ p \notin set
    BY <1>1, <2>1
  <2>2. CASE n \in set /\ p \in set
    <3>1. set \ {n} \in SUBSET nodes /\ set \ {n} # {}
      BY <1>1, <2>2
    <3>2. PICK e \in (places \cup nodes) \ (set \ {n}) : nx[e] \in set \ {n}
      BY <3>1 DEF Chained
    <3>3. e # p /\ e \notin set
      BY <1>1, <2>2, <3>2
    <3>4. QED BY <1>1, <3>2, <3>3
  <2>3. CASE n \notin set
    <3>1. PICK e \in (places \cup nodes) \ set : nx[e] \in set
      BY <1>6, <2>3 DEF Chained
    <3>2. CASE e = p
      BY <1>1, <2>3, <3>1, <3>2
    <3>3. CASE e # p
      BY <1>1, <3>1, <3>3
    <3>4. QED BY <3>2, <3>3
  <2>4. QED BY <2>1, <2>2, <2>3
<1>7. Chained(places, more, ny)
  BY <1>4, <1>5, <1>6 DEF Chained
<1>8. QED BY <1>7 DEF ny

\* Chains depend on the entries that are linked only.
LEMMA ChainedSame ==
    ASSUME NEW places, NEW nodes, NEW nx, NEW ny, Chained(places, nodes, nx),
           \A e \in places \cup nodes : ny[e] = nx[e]
    PROVE  Chained(places, nodes, ny)
<1>1. ASSUME NEW set \in SUBSET nodes, set # {}
      PROVE  \E e \in (places \cup nodes) \ set : ny[e] \in set
  BY <1>1 DEF Chained
<1>2. QED BY <1>1 DEF Chained

\* A step that leaves the entries in use leaves the chains.
LEMMA ShapeSame ==
    ASSUME MapTypeOK, MapShape, Intact, mpc # "put_value", listSize' = listSize,
           Nodes' = Nodes, Filled' = Filled,
           \A e \in Linked : key'[e] = key[e] /\ value'[e] = value[e] /\ next'[e] = next[e]
    PROVE  MapShape'
<1>1. Places' = Places /\ Linked' = Linked /\ \A k : Bucket(k)' = Bucket(k)
  BY DEF Places, Linked, Bucket
<1>2. Chained(Places, Nodes, next) /\ Sorted /\ OneEntry /\ Valued
  BY DEF MapShape
<1>3. \A e \in Linked : next[e] # NULL => next[e] \in Linked
  BY <1>2 DEF Chained, Linked
<1>4. Chained(Places', Nodes', next')
  <2>1. \A e \in Places \cup Nodes : next'[e] = next[e]
    BY DEF Linked
  <2>2. Chained(Places, Nodes, next')
    BY <1>2, <2>1, ChainedSame
  <2>3. QED BY <1>1, <2>2
<1>5. Sorted'
  <2>1. \A n \in Nodes' : key'[n] # NULL
    BY <1>2 DEF Sorted, Linked
  <2>2. ASSUME NEW c \in Places
        PROVE  (IF key[c] = NULL THEN next[c] = NULL ELSE Bucket(key[c]) = c)'
    <3>1. c \in Linked
      BY DEF Linked
    <3>2. IF key[c] = NULL THEN next[c] = NULL ELSE Bucket(key[c]) = c
      BY <1>2 DEF Sorted
    <3>3. QED BY <3>1, <3>2 DEF Bucket
  <2>3. ASSUME NEW e \in Linked, next[e] # NULL
        PROVE  (Bucket(key[next[e]]) = Bucket(key[e]))'
    <3>1. next'[e] = next[e] /\ next[e] \in Linked
      BY <1>3, <2>3
    <3>2. key'[next[e]] = key[next[e]] /\ key'[e] = key[e]
      BY <3>1
    <3>3. Bucket(key[next[e]]) = Bucket(key[e])
      BY <1>2, <2>3 DEF Sorted
    <3>4. QED BY <3>1, <3>2, <3>3 DEF Bucket
  <2>4. QED
    <3>1. \A e \in Linked : next'[e] = next[e]
      OBVIOUS
    <3>2. QED BY <1>1, <2>1, <2>2, <2>3, <3>1 DEF Sorted
<1>6. OneEntry'
  <2>1. \A e \in Filled : e \in Linked
    BY DEF Filled
  <2>2. QED BY <1>2, <2>1 DEF OneEntry
<1>7. Valued'
  BY <1>1, <1>2 DEF Valued
<1>8. QED BY <1>4, <1>5, <1>6, <1>7 DEF MapShape

\* The first entry of the bucket of a modification.
LEMMA FirstCell ==
    ASSUME MapTypeOK, mkey \in Key
    PROVE  /\ Bucket(mkey) \in Places /\ Bucket(mkey) \in Linked /\ Bucket(mkey) \in Entry
           /\ Bucket(mkey) \notin Nodes /\ Bucket(mkey) # NULL
<1>1. Bucket(mkey) \in Places
  BY Cells
<1>2. QED BY <1>1, Cells DEF Entry, Linked

\* Steps that change none of the chains.
LEMMA ShapeWaits ==
    ASSUME MapCore, \/ \E k \in Key, v \in Value \cup {NULL}, place \in {"put", "remove"} : Begin(place, k, v)
                    \/ PutFirst \/ Grow \/ DropFirst \/ Shrink \/ FreeNode \/ PutBack
    PROVE  MapShape'
<1>0. MapTypeOK /\ MapShape
  BY DEF MapCore
<1>1. ASSUME UNCHANGED <<key, value, next, live, listSize>>, Intact, Intact',
             mpc \notin {"put_value", "take_value", "take_next", "free"},
             mpc' \notin {"take_value", "take_next", "free"}
      PROVE  MapShape'
  <2>1. Nodes' = Nodes /\ Linked' = Linked
    BY <1>1 DEF Nodes, Linked, Places
  <2>2. Filled' = Filled
    BY <1>1, <2>1 DEF Filled
  <2>3. QED BY <1>0, <1>1, <2>1, <2>2, ShapeSame
<1>2. CASE \E k \in Key, v \in Value \cup {NULL}, place \in {"put", "remove"} : Begin(place, k, v)
  BY <1>1, <1>2 DEF Begin, entryVars, tableVars, Intact
<1>3. CASE PutFirst
  BY <1>1, <1>3 DEF PutFirst, To, entryVars, Intact
<1>4. CASE Grow
  BY <1>1, <1>4 DEF Grow, To, PutDone, entryVars, tableVars, Intact
<1>5. CASE DropFirst
  BY <1>1, <1>5 DEF DropFirst, To, entryVars, Intact
<1>6. CASE Shrink
  BY <1>1, <1>6 DEF Shrink, To, entryVars, tableVars, Intact
<1>7. CASE PutBack
  BY <1>1, <1>7 DEF PutBack, entryVars, tableVars, Intact
<1>8. CASE FreeNode
  <2>1. mpc = "free" /\ mpc' = "shrink" /\ live' = live \ {temp} /\ listSize' = listSize /\ Intact
    BY <1>8 DEF FreeNode, To, Intact
  <2>2. Nodes' = Nodes /\ Linked' = Linked /\ temp \notin Linked
    <3>1. temp \in Node
      BY <1>0, <2>1 DEF MapCore, MapAt, TakeAt, MapTypeOK
    <3>2. Nodes' = Nodes
      BY <2>1 DEF Nodes
    <3>3. Places' = Places
      BY <2>1 DEF Places
    <3>4. temp \notin Places
      BY <1>0, <3>1, Cells, NodeAssumption
    <3>5. QED BY <2>1, <3>2, <3>3, <3>4 DEF Linked, Nodes
  <2>3. \A e \in Linked : key'[e] = key[e] /\ value'[e] = value[e] /\ next'[e] = next[e]
    BY <1>0, <1>8, <2>2, Cells DEF FreeNode, Erase
  <2>4. Filled' = Filled
    BY <2>1, <2>2, <2>3 DEF Filled
  <2>5. QED BY <1>0, <2>1, <2>2, <2>3, <2>4, ShapeSame
<1>9. QED BY <1>2, <1>3, <1>4, <1>5, <1>6, <1>7, <1>8

\* A new value, with the key as it is.
LEMMA ShapeValue ==
    ASSUME MapCore, PutValue \/ PutOver \/ TakeValue
    PROVE  MapShape'
<1>0. MapTypeOK /\ MapShape
  BY DEF MapCore
<1>1. /\ UNCHANGED <<key, next, live, listSize, temp>> /\ Intact /\ Intact'
      /\ mpc \in {"put_value", "put", "take_value"}
      /\ mpc' \in {"grow", "idle", "reput", "shrink", "take_next"}
  BY DEF PutValue, PutOver, TakeValue, To, PutDone, tableVars, Intact
<1>2. mkey \in Key
  BY <1>1 DEF MapCore, MapAt, PutAt, TakeAt, Putting, Taking
<1>3. Nodes' = Nodes /\ Linked' = Linked /\ Places' = Places
  BY <1>1 DEF Nodes, Linked, Places
<1>4. Filled' = Filled
  <2>1. mpc = "take_value" => (mpc' = "take_next" \/ (mpc' = "shrink" /\ temp = NULL))
    BY <1>1 DEF PutValue, PutOver, TakeValue, To
  <2>2. mpc # "take_value" => mpc' # "take_next"
    BY <1>1 DEF PutValue, PutOver, TakeValue, To, PutDone
  <2>3. NULL \notin Linked
    BY <1>0, Cells
  <2>4. QED BY <1>1, <1>3, <2>1, <2>2, <2>3 DEF Filled
<1>5. Chained(Places, Nodes, next)' /\ Sorted' /\ OneEntry'
  <2>1. Chained(Places, Nodes, next) /\ Sorted /\ OneEntry
    BY <1>0, <1>1 DEF MapShape
  <2>2. Chained(Places, Nodes, next)'
    BY <1>1, <1>3, <2>1
  <2>3. Sorted'
    BY <1>1, <1>3, <2>1 DEF Sorted, Bucket
  <2>4. OneEntry'
    BY <1>1, <1>4, <2>1 DEF OneEntry
  <2>5. QED BY <2>2, <2>3, <2>4
<1>6. Valued'
  <2>1. ASSUME NEW e \in Linked, key[e] # NULL PROVE value'[e] # NULL
    <3>0. e \in Entry /\ (value[e] # NULL \/ (mpc = "put_value" /\ e = Bucket(mkey)))
      BY <1>0, <1>1, <2>1, Cells DEF MapShape, Valued
    <3>1. CASE PutValue
      <4>1. mpc = "put_value" /\ mval # NULL
        BY <3>1, NullAssumption DEF PutValue, MapCore, MapAt, PutAt, Putting
      <4>2. QED BY <1>0, <3>0, <3>1, <4>1 DEF PutValue, MapTypeOK
    <3>2. CASE PutOver
      <4>1. mpc = "put" /\ mval # NULL
        BY <3>2, NullAssumption DEF PutOver, MapCore, MapAt, PutAt, Putting
      <4>2. QED BY <1>0, <3>0, <3>2, <4>1 DEF PutOver, MapTypeOK
    <3>3. CASE TakeValue
      <4>1. mpc = "take_value"
        BY <3>3 DEF TakeValue
      <4>2. CASE temp = NULL
        <5>1. e # Bucket(mkey)
          BY <2>1, <4>1, <4>2 DEF MapCore, MapAt, TakeAt
        <5>2. QED BY <1>0, <3>0, <3>3, <4>1, <5>1 DEF TakeValue, MapTypeOK
      <4>3. CASE temp # NULL
        <5>1. temp = next[Bucket(mkey)] /\ temp \in Nodes
          BY <1>0, <1>1, <1>2, <4>1, <4>3, FirstCell DEF MapCore, MapAt, TakeAt, MapShape, Chained
        <5>2. value[temp] # NULL
          BY <1>0, <1>1, <4>1, <5>1 DEF MapShape, Sorted, Valued, Linked
        <5>3. QED BY <1>0, <3>0, <3>3, <4>1, <4>3, <5>2 DEF TakeValue, MapTypeOK
      <4>4. QED BY <4>2, <4>3
    <3>4. QED BY <3>1, <3>2, <3>3
  <2>2. QED BY <1>1, <1>3, <2>1 DEF Valued
<1>7. QED BY <1>5, <1>6 DEF MapShape

\* A new key in the first entry of a bucket.
LEMMA ShapeKey ==
    ASSUME MapCore, PutKey \/ TakeKey
    PROVE  MapShape'
<1> DEFINE c == Bucket(mkey)
<1>0. MapTypeOK /\ MapShape
  BY DEF MapCore
<1>1. /\ UNCHANGED <<value, next, live, listSize, temp, mkey>> /\ Intact /\ Intact'
      /\ mpc \in {"put_key", "take_key"} /\ mpc' \in {"put_value", "take_value"}
      /\ mpc = "put_key" <=> mpc' = "put_value"
  BY DEF PutKey, TakeKey, To, opVars, tableVars, Intact
<1>2. mkey \in Key
  BY <1>1 DEF MapCore, MapAt, PutAt, TakeAt, Putting, Taking
<1>3. c \in Places /\ c \in Linked /\ c \in Entry /\ c \notin Nodes
  BY <1>0, <1>2, FirstCell
<1>4. Nodes' = Nodes /\ Linked' = Linked /\ Places' = Places
  BY <1>1 DEF Nodes, Linked, Places
<1>5. Chained(Places, Nodes, next) /\ Sorted /\ OneEntry /\ Valued
  BY <1>0, <1>1 DEF MapShape
<1>6. /\ \A e \in Linked : e # c => key'[e] = key[e] /\ e \in Entry
      /\ mpc = "put_key" => key'[c] = mkey /\ key[c] = NULL /\ mkey \notin Stored /\ next[c] = NULL
      /\ mpc = "take_key" => /\ key[c] = mkey /\ temp = next[c]
                             /\ key'[c] = IF temp = NULL THEN NULL ELSE key[temp]
  <2>1. CASE PutKey
    <3>1. mpc = "put_key" /\ key' = [key EXCEPT ![c] = mkey]
      BY <2>1 DEF PutKey
    <3>2. key[c] = NULL /\ mkey \notin Stored
      BY <3>1 DEF MapCore, MapAt, PutAt
    <3>3. next[c] = NULL
      BY <1>3, <1>5, <3>2 DEF Sorted
    <3>4. QED BY <1>0, <1>3, <3>1, <3>2, <3>3, Cells DEF MapTypeOK
  <2>2. CASE TakeKey
    <3>1. mpc = "take_key" /\ key' = [key EXCEPT ![c] = IF temp = NULL THEN NULL ELSE key[temp]]
      BY <2>2 DEF TakeKey
    <3>2. key[c] = mkey /\ temp = next[c]
      BY <3>1 DEF MapCore, MapAt, TakeAt
    <3>3. QED BY <1>0, <1>3, <3>1, <3>2, Cells DEF MapTypeOK
  <2>3. QED BY <2>1, <2>2
<1>7. \A k : Bucket(k)' = Bucket(k)
  BY <1>1 DEF Bucket
<1>8. temp # NULL /\ mpc = "take_key" => temp \in Nodes /\ key[temp] # NULL /\ Bucket(key[temp]) = c
  <2>1. ASSUME temp # NULL, mpc = "take_key" PROVE temp \in Nodes /\ key[temp] # NULL /\ Bucket(key[temp]) = c
    <3>1. temp = next[c] /\ key[c] = mkey
      BY <1>6, <2>1
    <3>2. temp \in Nodes
      BY <1>3, <1>5, <2>1, <3>1 DEF Chained
    <3>3. Bucket(key[next[c]]) = Bucket(key[c])
      BY <1>3, <1>5, <2>1, <3>1 DEF Sorted
    <3>4. QED BY <1>5, <3>1, <3>2, <3>3 DEF Sorted
  <2>2. QED BY <2>1
<1> HIDE DEF c
<1>9. Sorted'
  <2>1. \A n \in Nodes : key'[n] # NULL
    BY <1>3, <1>5, <1>6 DEF Sorted, Linked
  <2>2. ASSUME NEW d \in Places
        PROVE  (IF key[d] = NULL THEN next[d] = NULL ELSE Bucket(key[d]) = d)'
    <3>1. CASE d # c
      <4>1. IF key[d] = NULL THEN next[d] = NULL ELSE Bucket(key[d]) = d
        BY <1>5 DEF Sorted
      <4>2. key'[d] = key[d] /\ next'[d] = next[d]
        BY <1>1, <1>6, <3>1 DEF Linked
      <4>3. QED BY <1>1, <4>1, <4>2 DEF Bucket
    <3>2. CASE d = c
      <4>1. CASE mpc = "put_key"
        <5>1. HashCode[mkey] % listSize = c
          BY DEF c, Bucket
        <5>2. key'[d] = mkey /\ key'[d] # NULL
          BY <1>2, <1>6, <3>2, <4>1, NullAssumption
        <5>3. QED BY <1>1, <3>2, <5>1, <5>2 DEF Bucket
      <4>2. CASE mpc = "take_key"
        <5>1. CASE temp = NULL
          BY <1>1, <1>6, <3>2, <4>2, <5>1
        <5>2. CASE temp # NULL
          <6>1. key'[d] = key[temp] /\ key[temp] # NULL /\ HashCode[key[temp]] % listSize = c
            BY <1>6, <1>8, <3>2, <4>2, <5>2 DEF Bucket
          <6>2. QED BY <1>1, <3>2, <6>1 DEF Bucket
        <5>3. QED BY <5>1, <5>2
      <4>3. QED BY <1>1, <4>1, <4>2
    <3>3. QED BY <3>1, <3>2
  <2>3. ASSUME NEW e \in Linked, next[e] # NULL
        PROVE  (Bucket(key[next[e]]) = Bucket(key[e]))'
    <3>1. next[e] \in Nodes /\ next[e] \in Linked /\ next[e] # c /\ next'[e] = next[e]
      BY <1>1, <1>3, <1>5, <2>3 DEF Chained, Linked
    <3>2. key'[next'[e]] = key[next[e]]
      BY <1>6, <3>1
    <3>3. Bucket(key[next[e]]) = Bucket(key[e])
      BY <1>5, <2>3 DEF Sorted
    <3>4. CASE e # c
      <4>1. key'[e] = key[e]
        BY <1>6, <3>4
      <4>2. QED BY <1>1, <3>2, <3>3, <4>1 DEF Bucket
    <3>5. CASE e = c
      <4>1. mpc = "take_key" /\ temp = next[e]
        BY <1>1, <1>6, <2>3, <3>5
      <4>2. key'[e] = key[next[e]]
        BY <1>6, <2>3, <3>5, <4>1
      <4>3. QED BY <1>1, <3>2, <4>2 DEF Bucket
    <3>6. QED BY <3>4, <3>5
  <2>4. QED BY <1>1, <1>4, <2>1, <2>2, <2>3 DEF Sorted
<1>10. OneEntry'
  <2>1. ASSUME NEW e \in Filled', NEW f \in Filled', key'[e] = key'[f], e # f PROVE FALSE
    <3>1. /\ e \in Linked /\ f \in Linked /\ key'[e] # NULL
          /\ mpc = "take_key" => e # temp /\ f # temp
      BY <1>1, <1>4, <2>1 DEF Filled
    <3>2. ASSUME NEW h \in Linked, key'[h] = key'[c], h # c, mpc = "take_key" => h # temp, key'[h] # NULL
          PROVE  FALSE
      <4>1. key[h] = key'[c] /\ h \in Filled /\ key[h] # NULL
        BY <1>1, <1>6, <3>2 DEF Filled
      <4>2. CASE mpc = "put_key"
        <5>1. key[h] = mkey
          BY <1>6, <4>1, <4>2
        <5>2. QED BY <1>6, <4>1, <4>2, <5>1 DEF Stored
      <4>3. CASE mpc = "take_key"
        <5>1. temp # NULL /\ key[h] = key[temp]
          BY <1>6, <4>1, <4>3
        <5>2. temp \in Filled
          BY <1>8, <4>3, <5>1 DEF Filled, Linked
        <5>3. h = temp
          BY <1>5, <4>1, <5>1, <5>2 DEF OneEntry
        <5>4. QED BY <3>2, <4>3, <5>3
      <4>4. QED BY <1>1, <4>2, <4>3
    <3>3. CASE e = c
      BY <2>1, <3>1, <3>2, <3>3
    <3>4. CASE f = c
      BY <2>1, <3>1, <3>2, <3>4
    <3>5. CASE e # c /\ f # c
      <4>1. key[e] = key[f] /\ key[e] # NULL
        BY <1>6, <2>1, <3>1, <3>5
      <4>2. e \in Filled /\ f \in Filled
        BY <1>1, <3>1, <4>1 DEF Filled
      <4>3. QED BY <1>5, <2>1, <4>1, <4>2 DEF OneEntry
    <3>6. QED BY <3>3, <3>4, <3>5
  <2>2. QED BY <2>1 DEF OneEntry
<1>11. Valued'
  <2>1. ASSUME NEW e \in Linked, key'[e] # NULL
        PROVE  value[e] # NULL \/ (mpc' = "put_value" /\ e = c)
    <3>1. CASE e = c
      <4>1. CASE mpc = "take_key"
        <5>1. key[c] # NULL
          BY <1>2, <1>6, <4>1, NullAssumption
        <5>2. QED BY <1>5, <3>1, <4>1, <5>1 DEF Valued
      <4>2. QED BY <1>1, <3>1, <4>1
    <3>2. CASE e # c
      BY <1>1, <1>5, <1>6, <2>1, <3>2 DEF Valued
    <3>3. QED BY <3>1, <3>2
  <2>2. Bucket(mkey)' = c
    BY <1>1 DEF c, Bucket
  <2>3. QED BY <1>1, <1>4, <2>1, <2>2 DEF Valued
<1>12. Chained(Places, Nodes, next)'
  BY <1>1, <1>4, <1>5
<1>13. QED BY <1>9, <1>10, <1>11, <1>12 DEF MapShape

\* A node leaves its chain, to be freed.
LEMMA ShapeBypass ==
    ASSUME MapTypeOK, MapShape, mpc \in {"remove", "take_next"}, mpc' = "free",
           UNCHANGED <<key, value, live, listSize>>, NEW p \in Linked, next[p] # NULL,
           temp' = next[p], next' = [next EXCEPT ![p] = next[next[p]]],
           mpc = "take_next" => temp = next[p]
    PROVE  MapShape' /\ Linked' = Linked \ {next[p]} /\ Filled' = Filled \ {next[p]}
<1> DEFINE x == next[p]
<1>1. Intact /\ Nodes = live /\ Places' = Places /\ Nodes' = Nodes \ {x}
  BY DEF Intact, Nodes, Places
<1>2. Chained(Places, Nodes, next) /\ Sorted /\ OneEntry /\ Valued
  BY <1>1 DEF MapShape
<1>3. x \in Nodes /\ x \notin Places /\ x # NULL /\ p \in Entry
  BY <1>2, Cells DEF Chained, Linked
<1>4. Linked' = Linked \ {x}
  BY <1>1, <1>3 DEF Linked
<1>5. Filled' = Filled \ {x}
  <2>1. Filled' = {e \in Linked' : key[e] # NULL}
    BY DEF Filled
  <2>2. Filled \ {x} = {e \in Linked \ {x} : key[e] # NULL}
    BY DEF Filled
  <2>3. QED BY <1>4, <2>1, <2>2
<1>6. Chained(Places', Nodes', next')
  <2>1. Chained(Places, Nodes \ {x}, next')
    <3>1. Places \cap Nodes = {} /\ NULL \notin Nodes /\ Places \cup Nodes \subseteq Entry
      BY Cells
    <3>2. next = [e \in Entry |-> next[e]] /\ p \in Places \cup Nodes
      BY DEF MapTypeOK, Linked
    <3>3. QED BY <1>2, <3>1, <3>2, Bypass
  <2>2. QED BY <1>1, <2>1
<1>7. /\ \A e \in Linked : e # p => next'[e] = next[e]
      /\ next'[p] = next[x]
  BY <1>3, Cells DEF MapTypeOK
<1> HIDE DEF x
<1>8. Sorted'
  <2>1. \A n \in Nodes' : key[n] # NULL
    BY <1>1, <1>2 DEF Sorted
  <2>2. ASSUME NEW c \in Places
        PROVE  (IF key[c] = NULL THEN next[c] = NULL ELSE Bucket(key[c]) = c)'
    <3>1. IF key[c] = NULL THEN next[c] = NULL ELSE Bucket(key[c]) = c
      BY <1>2 DEF Sorted
    <3>2. key[c] = NULL => c # p /\ c \in Linked
      BY <3>1 DEF Linked
    <3>3. QED BY <1>7, <3>1, <3>2 DEF Bucket
  <2>3. ASSUME NEW e \in Linked', next'[e] # NULL
        PROVE  (Bucket(key[next[e]]) = Bucket(key[e]))'
    <3>0. e \in Linked /\ e # x
      BY <1>4
    <3>1. CASE e = p
      <4>1. next'[e] = next[x] /\ x \in Linked /\ next[x] # NULL
        BY <1>3, <1>7, <2>3, <3>1 DEF Linked
      <4>2. Bucket(key[next[x]]) = Bucket(key[x]) /\ Bucket(key[x]) = Bucket(key[p])
        BY <1>2, <4>1 DEF Sorted, x
      <4>3. QED BY <3>1, <4>1, <4>2 DEF Bucket
    <3>2. CASE e # p
      <4>1. next'[e] = next[e]
        BY <1>7, <3>0, <3>2
      <4>2. Bucket(key[next[e]]) = Bucket(key[e])
        BY <1>2, <2>3, <3>0, <4>1 DEF Sorted
      <4>3. QED BY <4>1, <4>2 DEF Bucket
    <3>3. QED BY <3>1, <3>2
  <2>4. QED BY <1>1, <2>1, <2>2, <2>3 DEF Sorted
<1>9. OneEntry'
  BY <1>2, <1>5 DEF OneEntry
<1>10. Valued'
  <2>1. \A e \in Linked : key[e] # NULL => value[e] # NULL
    BY <1>2 DEF Valued
  <2>2. QED BY <1>4, <2>1 DEF Valued
<1>11. MapShape'
  BY <1>6, <1>8, <1>9, <1>10 DEF MapShape
<1>12. QED BY <1>4, <1>5, <1>11 DEF x

\* What Unlink takes out of a chain.
LEMMA UnlinkIs ==
    ASSUME MapCore, Unlink
    PROVE  \E p \in Linked : /\ next[p] # NULL /\ key[next[p]] = mkey /\ next[p] \in live
                             /\ temp' = next[p] /\ next' = [next EXCEPT ![p] = next[next[p]]]
<1>0. MapTypeOK /\ MapShape /\ mpc = "remove" /\ Intact /\ Nodes = live
  BY DEF MapCore, Unlink, Intact, Nodes
<1>1. mkey \in Key
  BY <1>0 DEF MapCore, MapAt, TakeAt
<1>2. Bucket(mkey) \in Places
  BY <1>0, <1>1, Cells
<1> DEFINE chain == Chain(Bucket(mkey))
<1>3. PICK n \in 2 .. Len(chain) : /\ key[chain[n]] = mkey
                                   /\ next' = [next EXCEPT ![chain[n - 1]] = next[chain[n]]]
                                   /\ temp' = chain[n]
  BY DEF Unlink
<1>4. chain[n] \in Nodes /\ chain[n - 1] \in Linked /\ next[chain[n - 1]] = chain[n]
  BY <1>0, <1>2, FindNode
<1> HIDE DEF chain
<1>5. chain[n] # NULL
  BY <1>0, <1>4, Cells
<1>6. QED BY <1>0, <1>3, <1>4, <1>5

\* What TakeNext takes out of a chain.
LEMMA TakeNextIs ==
    ASSUME MapCore, TakeNext
    PROVE  /\ Bucket(mkey) \in Linked /\ next[Bucket(mkey)] # NULL /\ temp = next[Bucket(mkey)]
           /\ temp' = temp /\ next' = [next EXCEPT ![Bucket(mkey)] = next[temp]]
           /\ temp \in live /\ key[Bucket(mkey)] = key[temp] /\ key[temp] # NULL
<1>0. MapTypeOK /\ MapShape /\ mpc = "take_next" /\ Intact /\ Nodes = live
  BY DEF MapCore, TakeNext, Intact, Nodes
<1>1. mkey \in Key /\ temp = next[Bucket(mkey)] /\ temp # NULL /\ key[Bucket(mkey)] = key[temp]
  BY <1>0 DEF MapCore, MapAt, TakeAt, Taking
<1>2. Bucket(mkey) \in Linked
  BY <1>0, <1>1, FirstCell
<1>3. temp \in live /\ key[temp] # NULL
  BY <1>0, <1>1, <1>2 DEF MapShape, Chained, Sorted, Linked
<1>4. QED BY <1>1, <1>2, <1>3 DEF TakeNext

\* Taking an entry out keeps the chains.
LEMMA ShapeTaken ==
    ASSUME MapCore, TakeNext \/ Unlink
    PROVE  MapShape'
<1>0. MapTypeOK /\ MapShape
  BY DEF MapCore
<1>1. CASE TakeNext
  BY <1>0, <1>1, TakeNextIs, ShapeBypass DEF TakeNext, To, tableVars
<1>2. CASE Unlink
  <2>1. mpc = "remove" /\ mpc' = "free" /\ UNCHANGED <<key, value, live, listSize>>
    BY <1>2 DEF Unlink, To
  <2>2. PICK p \in Linked : /\ next[p] # NULL /\ temp' = next[p]
                            /\ next' = [next EXCEPT ![p] = next[next[p]]]
    BY <1>2, UnlinkIs
  <2>3. QED BY <1>0, <2>1, <2>2, ShapeBypass
<1>3. QED BY <1>1, <1>2

\* What PutNode does, of the node that it takes.
PutsNode(n) ==
    /\ n \in Node \ live
    /\ key' = [key EXCEPT ![n] = mkey] /\ value' = [value EXCEPT ![n] = mval]
    /\ next' = [next EXCEPT ![n] = next[Bucket(mkey)], ![Bucket(mkey)] = n]
    /\ live' = live \cup {n}

\* Linking in a node at the second place keeps the chains.
LEMMA PutNodeIs ==
    ASSUME MapCore, NEW n, PutsNode(n), mpc = "put", mpc' = "grow", listSize' = listSize,
           key[Bucket(mkey)] # NULL, mkey \notin Stored
    PROVE  /\ MapShape' /\ Linked' = Linked \cup {n} /\ Filled' = Filled \cup {n} /\ n \notin Linked
           /\ \A e \in Linked : key'[e] = key[e] /\ value'[e] = value[e]
           /\ key'[n] = mkey /\ value'[n] = mval /\ next'[n] = next[Bucket(mkey)]
           /\ next'[Bucket(mkey)] = n
           /\ \A e \in Linked : e # Bucket(mkey) => next'[e] = next[e]
<1> DEFINE c == Bucket(mkey)
<1>0. MapTypeOK /\ MapShape /\ Intact
  BY DEF MapCore, Intact
<1>1. mkey \in Key /\ mval \in Value
  BY DEF MapCore, MapAt, PutAt, Putting
<1>2. c \in Places /\ c \in Linked /\ c \in Entry /\ c \notin Nodes
  BY <1>0, <1>1, FirstCell
<1>3. Nodes = live /\ Nodes' = Nodes \cup {n} /\ Places' = Places /\ Linked' = Linked \cup {n}
  BY DEF PutsNode, Nodes, Places, Linked
<1>4. n \in Node /\ n \notin Linked /\ n \in Entry /\ n # c /\ n # NULL
  <2>1. n \in Node /\ n \notin Nodes
    BY <1>3 DEF PutsNode
  <2>2. n \notin Places
    BY <1>0, <2>1, Cells, NodeAssumption
  <2>3. QED BY <1>0, <1>2, <2>1, <2>2, Cells DEF Entry, Linked
<1>5. Chained(Places, Nodes, next) /\ Sorted /\ OneEntry /\ Valued
  BY <1>0 DEF MapShape
<1>6. /\ \A e \in Linked : e \in Entry /\ e # n /\ key'[e] = key[e] /\ value'[e] = value[e]
      /\ \A e \in Linked : e # c => next'[e] = next[e]
      /\ key'[n] = mkey /\ value'[n] = mval /\ next'[n] = next[c] /\ next'[c] = n
  <2>1. \A e \in Linked : e \in Entry /\ e # n
    BY <1>0, <1>4, Cells
  <2>2. /\ key' = [key EXCEPT ![n] = mkey] /\ value' = [value EXCEPT ![n] = mval]
        /\ next' = [next EXCEPT ![n] = next[c], ![c] = n]
    BY DEF PutsNode
  <2>3. DOMAIN key = Entry /\ DOMAIN value = Entry /\ DOMAIN next = Entry
    BY <1>0 DEF MapTypeOK
  <2> HIDE DEF c
  <2>4. QED BY <1>2, <1>4, <2>1, <2>2, <2>3
<1>7. Filled' = Filled \cup {n}
  <2>1. Filled = {e \in Linked : key[e] # NULL}
    BY DEF Filled
  <2>2. Filled' = {e \in Linked' : key'[e] # NULL}
    BY DEF Filled
  <2>3. mkey # NULL
    BY <1>1, NullAssumption
  <2>4. QED BY <1>3, <1>6, <2>1, <2>2, <2>3
<1>8. Chained(Places', Nodes', next')
  <2>1. Places \cap Nodes = {} /\ NULL \notin Nodes /\ Places \cup Nodes \subseteq Entry
    BY <1>0, Cells
  <2>2. next = [e \in Entry |-> next[e]] /\ c \in Places \cup Nodes /\ n \in Entry \ (Places \cup Nodes)
    BY <1>0, <1>2, <1>4 DEF MapTypeOK, Linked
  <2>3. Chained(Places, Nodes \cup {n}, [next EXCEPT ![n] = next[c], ![c] = n])
    <3> HIDE DEF c
    <3>1. QED BY <1>4, <1>5, <2>1, <2>2, Insert
  <2>4. QED BY <1>3, <2>3 DEF PutsNode
<1>9. HashCode[mkey] % listSize = c
  BY DEF Bucket
<1>10. key[c] # NULL /\ Bucket(key[c]) = c
  BY <1>2, <1>5 DEF Sorted
<1> HIDE DEF c
<1>11. Sorted'
  <2>1. \A m \in Nodes' : key'[m] # NULL
    BY <1>1, <1>3, <1>5, <1>6, NullAssumption DEF Sorted, Linked
  <2>2. ASSUME NEW d \in Places
        PROVE  (IF key[d] = NULL THEN next[d] = NULL ELSE Bucket(key[d]) = d)'
    <3>1. IF key[d] = NULL THEN next[d] = NULL ELSE Bucket(key[d]) = d
      BY <1>5 DEF Sorted
    <3>2. d \in Linked /\ key'[d] = key[d]
      BY <1>6 DEF Linked
    <3>3. QED BY <1>6, <1>10, <3>1, <3>2 DEF Bucket
  <2>3. ASSUME NEW e \in Linked', next'[e] # NULL
        PROVE  (Bucket(key[next[e]]) = Bucket(key[e]))'
    <3>1. CASE e = c
      <4>1. next'[e] = n /\ key'[next'[e]] = mkey /\ key'[e] = key[c]
        BY <1>2, <1>6, <3>1
      <4>2. HashCode[key[c]] % listSize = c
        BY <1>10 DEF Bucket
      <4>3. QED BY <1>9, <4>1, <4>2 DEF Bucket
    <3>2. CASE e = n
      <4>1. next'[e] = next[c] /\ next[c] # NULL /\ key'[e] = mkey
        BY <1>6, <2>3, <3>2
      <4>2. next[c] \in Linked /\ Bucket(key[next[c]]) = c
        BY <1>2, <1>5, <1>10, <4>1 DEF Sorted, Chained, Linked
      <4>3. key'[next'[e]] = key[next[c]] /\ HashCode[key[next[c]]] % listSize = c
        BY <1>6, <4>1, <4>2 DEF Bucket
      <4>4. QED BY <1>9, <4>1, <4>3 DEF Bucket
    <3>3. CASE e # c /\ e # n
      <4>1. e \in Linked /\ next'[e] = next[e] /\ key'[e] = key[e]
        BY <1>3, <1>6, <3>3
      <4>2. next[e] \in Linked /\ Bucket(key[next[e]]) = Bucket(key[e])
        BY <1>5, <2>3, <4>1 DEF Sorted, Chained, Linked
      <4>3. key'[next'[e]] = key[next[e]]
        BY <1>6, <4>1, <4>2
      <4>4. QED BY <4>1, <4>2, <4>3 DEF Bucket
    <3>4. QED BY <3>1, <3>2, <3>3
  <2>4. QED BY <1>3, <2>1, <2>2, <2>3 DEF Sorted
<1>12. OneEntry'
  <2>1. \A e \in Filled : e \in Linked /\ key[e] \in Stored
    BY DEF Filled, Stored
  <2>2. QED BY <1>5, <1>6, <1>7, <2>1 DEF OneEntry
<1>13. Valued'
  <2>1. mval # NULL
    BY <1>1, NullAssumption
  <2>2. \A e \in Linked : key[e] # NULL => value[e] # NULL
    BY <1>5 DEF Valued
  <2>3. QED BY <1>3, <1>6, <2>1, <2>2 DEF Valued
<1>14. MapShape'
  BY <1>8, <1>11, <1>12, <1>13 DEF MapShape
<1>15. QED BY <1>3, <1>4, <1>6, <1>7, <1>14 DEF c

\* A key that is not stored yet.
LEMMA PutsNew ==
    ASSUME MapCore, PutFirst \/ PutNode
    PROVE  mpc = "put" /\ mkey \in Key /\ mval \in Value /\ mkey \notin Stored /\ Intact
<1>0. MapTypeOK /\ MapShape
  BY DEF MapCore
<1>1. mpc = "put" /\ Intact
  BY DEF PutFirst, PutNode, Intact
<1>2. mkey \in Key /\ mval \in Value
  BY <1>1 DEF MapCore, MapAt, PutAt, Putting
<1>3. \A e \in Range(Entries(Bucket(mkey))) : key[e] # mkey
  <2>1. CASE PutFirst
    <3>1. Entries(Bucket(mkey)) = <<>>
      BY <2>1 DEF PutFirst, Entries
    <3>2. QED BY <3>1 DEF Range
  <2>2. CASE PutNode
    BY <2>2 DEF PutNode
  <2>3. QED BY <2>1, <2>2
<1>4. \A e \in Keyed : key[e] # mkey
  BY <1>0, <1>1, <1>2, <1>3, Find
<1>5. QED BY <1>1, <1>2, <1>4 DEF Stored, Filled, Keyed

\* A cleared array has empty chains.
LEMMA ShapeCleared ==
    ASSUME MapCore, Copy \/ Realloc \/ ClearCells
    PROVE  MapShape'
<1>1. CASE Copy \/ Realloc
  BY <1>1 DEF Copy, Realloc, To, MapShape, Intact
<1>2. CASE ClearCells
  <2>1. MapTypeOK /\ mpc = "clear" /\ mpc' \in {"idle", "reput"} /\ live' = {} /\ listSize' = listSize
    BY <1>2 DEF MapCore, MapAt, ResetAt, ClearCells, To, PutDone, Intact
  <2>2. Nodes' = {} /\ Places' = Places /\ Linked' = Places
    BY <2>1 DEF Nodes, Places, Linked
  <2>3. \A e \in Places : key'[e] = NULL /\ next'[e] = NULL
    BY <1>2, <2>1, Cells DEF ClearCells, Erase, Entry
  <2>4. Filled' = {}
    BY <2>2, <2>3 DEF Filled
  <2>5. Chained(Places', Nodes', next')
    BY <2>2, <2>3 DEF Chained
  <2>6. Sorted'
    BY <2>2, <2>3 DEF Sorted
  <2>7. OneEntry' /\ Valued'
    BY <2>2, <2>3, <2>4 DEF OneEntry, Valued
  <2>8. QED BY <2>5, <2>6, <2>7 DEF MapShape
<1>3. QED BY <1>1, <1>2

-----------------------------------------------------------------------------
(* The steps of the modifier keep the keys and their values.               *)

MapKeys == OthersKept /\ Exact /\ Room /\ MapAt

\* What To does to the place and the locals of a modification.
LEMMA ToIs ==
    ASSUME MapTypeOK, NEW place \in Place, To(place)
    PROVE  /\ mpc' = place /\ rpc # "crashed" /\ resizing \in BOOLEAN
           /\ place # "idle" => mkey' = mkey /\ mval' = mval /\ changed' = changed
           /\ place # "idle" /\ place # "realloc" => resizing' = resizing
           /\ place = "idle" => resizing' = FALSE
           /\ place = "realloc" => resizing' = TRUE
  BY DEF MapTypeOK, To, opVars

\* A step that leaves the entries in use, what waits or what is mapped leaves what they say.
LEMMA Same ==
    ASSUME Filled' = Filled, \A e \in Filled : key'[e] = key[e] /\ value'[e] = value[e]
    PROVE  Stored' = Stored /\ \A k, v : Has(k, v)' <=> Has(k, v)
<1>1. Stored' = Stored
  BY DEF Stored
<1>2. ASSUME NEW k, NEW v PROVE Has(k, v)' <=> Has(k, v)
  BY DEF Has
<1>3. QED BY <1>1, <1>2

LEMMA SameWaits ==
    ASSUME UNCHANGED tempList
    PROVE  Waiting' = Waiting /\ (OneWaits' <=> OneWaits) /\ \A k, v : WaitsFor(k, v)' <=> WaitsFor(k, v)
  BY DEF Waiting, WaitsFor, OneWaits

LEMMA SameMap == ASSUME UNCHANGED map PROVE Mapped' = Mapped
  BY DEF Mapped

\* The numbers that are counted.
LEMMA Counts == ASSUME MapCore
                PROVE  /\ Cardinality(Mapped) \in Nat /\ size \in Nat /\ listSize \in Nat \ {0}
                       /\ listSize \div 2 \in Nat /\ listSize \div 2 <= listSize
<1>1. MapTypeOK /\ IsFiniteSet(Mapped)
  BY DEF MapCore, Exact
<1>2. size \in Nat /\ listSize \in Nat \ {0}
  BY <1>1, Cells DEF MapTypeOK
<1>3. QED BY <1>1, <1>2, FS_CardinalityType

\* Between two modifications.
LEMMA IdleKeys ==
    ASSUME MapCore, mpc = "idle"
    PROVE  /\ Stored = Mapped /\ tempList = <<>> /\ Waiting = {} /\ ~resizing /\ Intact
           /\ CountedKeys = Stored /\ size = Cardinality(Mapped)
           /\ \A k, v : ~WaitsFor(k, v)
           /\ \A k \in Key, v \in Value : map[k] = v <=> Has(k, v)
<1>1. Intact /\ Busy = {} /\ ~resizing /\ tempList = <<>> /\ CountedKeys = Stored
  BY DEF Intact, Busy, MapCore, MapAt, ResetAt, Putting, CountedKeys
<1>2. Waiting = {} /\ \A k, v : ~WaitsFor(k, v)
  BY <1>1 DEF Waiting, WaitsFor
<1>3. Stored = Mapped
  BY <1>1, <1>2, StoredMapped
<1>4. size = Cardinality(Mapped)
  BY <1>1, <1>3 DEF MapCore, Exact
<1>5. \A k \in Key, v \in Value : map[k] = v <=> Has(k, v)
  BY <1>1, <1>2 DEF MapCore, OthersKept
<1>6. QED BY <1>1, <1>2, <1>3, <1>4, <1>5

\* What the beginning of a modification leaves.
LEMMA BeginSame ==
    ASSUME MapCore, NEW place \in {"put", "remove"}, NEW k \in Key, NEW v \in Value \cup {NULL},
           Begin(place, k, v)
    PROVE  /\ Stored' = Stored /\ (\A j, w : Has(j, w)' <=> Has(j, w))
           /\ Waiting' = {} /\ OneWaits' /\ \A j, w : ~WaitsFor(j, w)'
           /\ Intact' /\ CountedKeys' = Stored /\ Busy' = {k}
           /\ tempList' = <<>> /\ ~resizing' /\ mpc' = place
           /\ mkey' = k /\ changed' = k
           /\ map' = [map EXCEPT ![k] = v] /\ map'[k] = v
           /\ \A j \in Key : j # k => map'[j] = map[j]
           /\ listSize' = listSize /\ size' = size /\ length' = length
<1>1. mpc = "idle" /\ UNCHANGED <<key, value, next, live, listSize, temp, tempList, resizing, size, length>>
      /\ mpc' = place /\ mkey' = k /\ changed' = k
  BY DEF Begin, entryVars, tableVars
<1>2. tempList = <<>> /\ Waiting = {} /\ ~resizing /\ \A j, w : ~WaitsFor(j, w)
  BY <1>1, IdleKeys
<1>3. Filled' = Filled
  BY <1>1 DEF Filled, Linked, Nodes, Places
<1>4. Stored' = Stored /\ \A j, w : Has(j, w)' <=> Has(j, w)
  BY <1>1, <1>3, Same
<1>5. Waiting' = {} /\ \A j, w : ~WaitsFor(j, w)'
  BY <1>1, <1>2, SameWaits
<1>6. OneWaits'
  BY <1>1, <1>2 DEF OneWaits
<1>7. map' = [map EXCEPT ![k] = v] /\ map \in [Key -> Value \cup {NULL}]
  BY DEF Begin, MapCore, MapTypeOK
<1>8. Intact' /\ CountedKeys' = Stored /\ Busy' = {k}
  BY <1>1, <1>4 DEF Intact, CountedKeys, Busy
<1>9. QED BY <1>1, <1>2, <1>4, <1>5, <1>6, <1>7, <1>8

\* The beginning of a put or a removal makes its key the only one that may differ.
LEMMA StartPutKeys ==
    ASSUME MapCore, NEW k \in Key, NEW v \in Value, Begin("put", k, v),
           map[k] # NULL \/ size < MaxListSize
    PROVE  MapKeys'
<1>0. MapTypeOK /\ mpc = "idle"
  BY DEF MapCore, Begin
<1>1. OthersKept'
  <2>1. ASSUME NEW j \in Key, j # k, NEW w \in Value
        PROVE  map'[j] = w <=> (Intact' /\ Has(j, w)') \/ WaitsFor(j, w)'
    BY <1>0, <2>1, BeginSame, IdleKeys
  <2>2. Busy' = {k}
    BY BeginSame
  <2>3. QED BY <2>1, <2>2 DEF OthersKept
<1>2. Exact'
  <2>1. Mapped' = Mapped \cup {k}
    BY BeginSame, NullAssumption DEF Mapped
  <2>2. IsFiniteSet(Mapped) /\ Cardinality(Mapped) <= MaxListSize /\ size = Cardinality(Mapped)
        /\ IsFiniteSet(Stored) /\ size = Cardinality(Stored)
    BY <1>0, IdleKeys DEF MapCore, Exact
  <2>3. IsFiniteSet(Mapped') /\ Cardinality(Mapped') <= MaxListSize
    <3>1. k \in Mapped <=> map[k] # NULL
      BY DEF Mapped
    <3>2. /\ IsFiniteSet(Mapped')
          /\ Cardinality(Mapped') = IF map[k] # NULL THEN Cardinality(Mapped) ELSE Cardinality(Mapped) + 1
      BY <2>1, <2>2, <3>1, FS_AddElement
    <3>3. size \in Int /\ MaxListSize \in Int
      BY Counts, SizeAssumption
    <3>4. Cardinality(Mapped) \in Int /\ (map[k] = NULL => size < MaxListSize)
      BY Counts
    <3>5. CASE map[k] = NULL
      <4>1. Cardinality(Mapped') = size + 1 /\ size < MaxListSize
        BY <2>2, <3>2, <3>4, <3>5
      <4>2. QED BY <3>2, <3>3, <4>1
    <3>6. CASE map[k] # NULL
      BY <2>2, <3>2, <3>6
    <3>7. QED BY <3>5, <3>6
  <2>4. Stored' = Stored /\ CountedKeys' = Stored /\ size' = size
    BY BeginSame
  <2>5. QED BY <2>2, <2>3, <2>4 DEF Exact
<1>3. Room'
  BY <1>0, BeginSame, IdleKeys DEF MapCore, Room
<1>4. MapAt'
  <2>1. mval' = v /\ map'[k] # NULL
    BY BeginSame, NullAssumption DEF Begin
  <2>2. PutAt'
    BY <2>1, BeginSame DEF PutAt, Putting
  <2>3. TakeAt'
    BY BeginSame DEF TakeAt, Taking
  <2>4. ResetAt'
    BY BeginSame DEF ResetAt, Putting
  <2>5. OpAt'
    BY <2>1, BeginSame DEF OpAt, Removing, Taking
  <2>6. QED BY <2>2, <2>3, <2>4, <2>5 DEF MapAt
<1>5. QED BY <1>1, <1>2, <1>3, <1>4 DEF MapKeys

LEMMA StartRemoveKeys ==
    ASSUME MapCore, NEW k \in Key, Begin("remove", k, NULL), map[k] # NULL
    PROVE  MapKeys'
<1>0. MapTypeOK /\ mpc = "idle"
  BY DEF MapCore, Begin
<1>1. OthersKept'
  <2>1. ASSUME NEW j \in Key, j # k, NEW w \in Value
        PROVE  map'[j] = w <=> (Intact' /\ Has(j, w)') \/ WaitsFor(j, w)'
    BY <1>0, <2>1, BeginSame, IdleKeys
  <2>2. Busy' = {k}
    BY BeginSame
  <2>3. QED BY <2>1, <2>2 DEF OthersKept
<1>2. Exact'
  <2>1. Mapped' \in SUBSET Mapped
    BY BeginSame DEF Mapped
  <2>2. IsFiniteSet(Mapped) /\ Cardinality(Mapped) <= MaxListSize
        /\ IsFiniteSet(Stored) /\ size = Cardinality(Stored)
    BY <1>0, IdleKeys DEF MapCore, Exact
  <2>3. IsFiniteSet(Mapped') /\ Cardinality(Mapped') <= Cardinality(Mapped)
    BY <2>1, <2>2, FS_Subset
  <2>4. Cardinality(Mapped') <= MaxListSize
    BY <2>2, <2>3, Counts, FS_CardinalityType, SizeAssumption
  <2>5. Stored' = Stored /\ CountedKeys' = Stored /\ size' = size
    BY BeginSame
  <2>6. QED BY <2>2, <2>3, <2>4, <2>5 DEF Exact
<1>3. Room'
  BY <1>0, BeginSame, IdleKeys DEF MapCore, Room
<1>4. MapAt'
  <2>1. k \in Stored /\ map'[k] = NULL
    BY <1>0, BeginSame, IdleKeys DEF Mapped
  <2>2. PutAt'
    BY BeginSame DEF PutAt, Putting
  <2>3. TakeAt'
    BY <2>1, BeginSame DEF TakeAt, Taking
  <2>4. ResetAt'
    BY BeginSame DEF ResetAt, Putting
  <2>5. OpAt'
    BY <2>1, BeginSame DEF OpAt, Removing, Taking
  <2>6. QED BY <2>2, <2>3, <2>4, <2>5 DEF MapAt
<1>5. QED BY <1>1, <1>2, <1>3, <1>4 DEF MapKeys

\* A put into an empty bucket, statement by statement: the count, the key, the value.
LEMMA PutFirstKeys ==
    ASSUME MapCore, PutFirst
    PROVE  MapKeys'
<1>0. MapTypeOK /\ mpc = "put" /\ mkey \in Key /\ mval \in Value /\ mkey \notin Stored /\ Intact
  BY PutsNew DEF MapCore
<1>1. /\ UNCHANGED <<key, value, next, live, listSize, length, temp, tempList, map, resizing, mkey, mval, changed>>
      /\ mpc' = "put_key" /\ size' = size + 1 /\ key[Bucket(mkey)] = NULL
  <2>1. /\ To("put_key") /\ size' = size + 1 /\ key[Bucket(mkey)] = NULL
        /\ UNCHANGED <<key, value, next, live, listSize, length, temp, tempList, map>>
    BY DEF PutFirst, entryVars
  <2>2. mpc' = "put_key" /\ UNCHANGED <<resizing, mkey, mval, changed>>
    BY <1>0, <2>1, ToIs DEF Place
  <2>3. QED BY <2>1, <2>2
<1>2. Filled' = Filled
  BY <1>0, <1>1 DEF Filled, Linked, Nodes, Places
<1>3. Stored' = Stored /\ \A k, v : Has(k, v)' <=> Has(k, v)
  BY <1>1, <1>2, Same
<1>4. Waiting' = Waiting /\ (OneWaits' <=> OneWaits) /\ \A k, v : WaitsFor(k, v)' <=> WaitsFor(k, v)
  BY <1>1, SameWaits
<1>5. Intact' /\ Busy' = Busy /\ Mapped' = Mapped /\ CountedKeys' = Stored \cup {mkey}
  BY <1>0, <1>1, <1>3, SameMap DEF Intact, Busy, CountedKeys
<1>6. OthersKept'
  BY <1>0, <1>1, <1>3, <1>4, <1>5 DEF MapCore, OthersKept
<1>7. Exact'
  BY <1>0, <1>1, <1>3, <1>5, PutFits DEF MapCore, Exact
<1>8. Room'
  <2>1. size \in Int /\ listSize \in Int
    BY Counts
  <2>2. QED BY <1>0, <1>1, <1>5, <2>1 DEF MapCore, Room
<1>9. MapAt'
  <2>1. PutAt'
    BY <1>0, <1>1, <1>3, <1>4 DEF MapCore, MapAt, PutAt, Putting, Bucket
  <2>2. TakeAt'
    BY <1>1 DEF TakeAt, Taking
  <2>3. ResetAt'
    BY <1>0, <1>1, <1>3, <1>4, <1>5 DEF MapCore, MapAt, ResetAt, Putting
  <2>4. OpAt'
    BY <1>0, <1>1 DEF MapCore, MapAt, OpAt, Removing, Taking
  <2>5. QED BY <2>1, <2>2, <2>3, <2>4 DEF MapAt
<1>10. QED BY <1>6, <1>7, <1>8, <1>9 DEF MapKeys

LEMMA PutKeyKeys ==
    ASSUME MapCore, PutKey
    PROVE  MapKeys'
<1> DEFINE c == Bucket(mkey)
<1>0. MapTypeOK /\ MapShape /\ mpc = "put_key" /\ Intact
  BY DEF MapCore, PutKey, Intact
<1>1. /\ mkey \in Key /\ mval \in Value /\ map[mkey] = mval /\ mkey \notin Waiting
      /\ mkey \notin Stored /\ key[c] = NULL
  BY <1>0 DEF MapCore, MapAt, PutAt, Putting
<1>2. /\ UNCHANGED <<value, next, live, listSize, size, length, temp, tempList, map, resizing, mkey, mval, changed>>
      /\ mpc' = "put_value" /\ key' = [key EXCEPT ![c] = mkey]
  <2>1. /\ To("put_value") /\ key' = [key EXCEPT ![c] = mkey]
        /\ UNCHANGED <<value, next, live, listSize, size, length, temp, tempList, map>>
    BY DEF PutKey, tableVars
  <2>2. mpc' = "put_value" /\ UNCHANGED <<resizing, mkey, mval, changed>>
    BY <1>0, <2>1, ToIs DEF Place
  <2>3. QED BY <2>1, <2>2
<1>3. c \in Linked /\ c \in Entry /\ Linked \subseteq Entry
  BY <1>0, <1>1, FirstCell, Cells
<1>4. /\ Filled' = Filled \cup {c} /\ c \notin Filled /\ key'[c] = mkey
      /\ \A e \in Filled : e # c /\ key'[e] = key[e] /\ value'[e] = value[e]
  <2>1. Linked' = Linked
    BY <1>0, <1>2 DEF Linked, Nodes, Places
  <2>2. key'[c] = mkey /\ mkey # NULL /\ \A e \in Linked : e # c => key'[e] = key[e]
    BY <1>0, <1>1, <1>2, <1>3, NullAssumption DEF MapTypeOK
  <2>3. Filled = {e \in Linked : key[e] # NULL} /\ Filled' = {e \in Linked : key'[e] # NULL}
    BY <1>0, <1>2, <2>1 DEF Filled
  <2> HIDE DEF c
  <2>4. QED BY <1>1, <1>2, <1>3, <2>2, <2>3
<1>5. Stored' = Stored \cup {mkey} /\ \A k, v : k # mkey => (Has(k, v)' <=> Has(k, v))
  <2> HIDE DEF c
  <2>1. Stored' = Stored \cup {mkey}
    BY <1>4 DEF Stored
  <2>2. ASSUME NEW k, NEW v, k # mkey PROVE Has(k, v)' <=> Has(k, v)
    BY <1>4, <2>2 DEF Has
  <2>3. QED BY <2>1, <2>2
<1>6. Waiting' = Waiting /\ (OneWaits' <=> OneWaits) /\ \A k, v : WaitsFor(k, v)' <=> WaitsFor(k, v)
  BY <1>2, SameWaits
<1>7. Intact' /\ Busy = {mkey} /\ Busy' = {mkey} /\ Mapped' = Mapped /\ CountedKeys' = Stored' /\ CountedKeys = Stored'
  BY <1>0, <1>2, <1>5, SameMap DEF Intact, Busy, CountedKeys
<1>8. OthersKept'
  BY <1>0, <1>2, <1>5, <1>6, <1>7 DEF MapCore, OthersKept
<1>9. Exact'
  <2>1. IsFiniteSet(Stored')
    BY <1>0, <1>5, FS_AddElement DEF MapCore, Exact
  <2>2. QED BY <1>0, <1>2, <1>7, <2>1 DEF MapCore, Exact
<1>10. Room'
  BY <1>0, <1>2, <1>7 DEF MapCore, Room
<1>11. MapAt'
  <2>1. PutAt'
    <3>1. Bucket(mkey)' = c
      BY <1>2 DEF Bucket
    <3>2. QED BY <1>1, <1>2, <1>4, <1>6, <3>1 DEF PutAt, Putting
  <2>2. TakeAt'
    BY <1>2 DEF TakeAt, Taking
  <2>3. ResetAt'
    BY <1>0, <1>1, <1>2, <1>5, <1>6, <1>7 DEF MapCore, MapAt, ResetAt, Putting
  <2>4. OpAt'
    BY <1>0, <1>2 DEF MapCore, MapAt, OpAt, Removing, Taking
  <2>5. QED BY <2>1, <2>2, <2>3, <2>4 DEF MapAt
<1>12. QED BY <1>8, <1>9, <1>10, <1>11 DEF MapKeys

\* A put of the key is complete.
LEMMA PutsWhole ==
    ASSUME MapCore, mpc \in Putting, mkey \notin Waiting, Intact', map' = map, tempList' = tempList,
           mpc' \in {"grow", "idle", "reput"},
           \A k, v : k # mkey => (Has(k, v)' <=> Has(k, v)), \A k, v : k = mkey => (Has(k, v)' <=> v = mval)
    PROVE  OthersKept'
<1>1. mkey \in Key /\ mval \in Value /\ map[mkey] = mval /\ Busy = {mkey} /\ Busy' = {} /\ Intact
  BY DEF MapCore, MapAt, PutAt, Putting, Busy, Intact
<1>2. \A k, v : WaitsFor(k, v)' <=> WaitsFor(k, v)
  BY SameWaits
<1>3. \A k, v : k = mkey => ~WaitsFor(k, v)
  BY DEF Waiting, WaitsFor
<1>4. ASSUME NEW k \in Key, NEW v \in Value
      PROVE  map'[k] = v <=> (Intact' /\ Has(k, v)') \/ WaitsFor(k, v)'
  <2>1. CASE k = mkey
    BY <1>1, <1>2, <1>3, <2>1
  <2>2. CASE k # mkey
    BY <1>1, <1>2, <2>2 DEF MapCore, OthersKept
  <2>3. QED BY <2>1, <2>2
<1>5. QED BY <1>1, <1>4 DEF OthersKept

LEMMA PutValueKeys ==
    ASSUME MapCore, PutValue
    PROVE  MapKeys'
<1> DEFINE c == Bucket(mkey)
<1>0. MapTypeOK /\ MapShape /\ mpc = "put_value" /\ Intact
  BY DEF MapCore, PutValue, Intact
<1>1. mkey \in Key /\ mval \in Value /\ map[mkey] = mval /\ mkey \notin Waiting /\ key[c] = mkey
  BY <1>0 DEF MapCore, MapAt, PutAt, Putting
<1>2. /\ UNCHANGED <<key, next, live, listSize, size, length, temp, tempList, map, resizing, mkey, mval, changed>>
      /\ mpc' = "grow" /\ value' = [value EXCEPT ![c] = mval]
  <2>1. /\ To("grow") /\ value' = [value EXCEPT ![c] = mval]
        /\ UNCHANGED <<key, next, live, listSize, size, length, temp, tempList, map>>
    BY DEF PutValue, tableVars
  <2>2. mpc' = "grow" /\ UNCHANGED <<resizing, mkey, mval, changed>>
    BY <1>0, <2>1, ToIs DEF Place
  <2>3. QED BY <2>1, <2>2
<1>3. c \in Linked /\ c \in Entry /\ Linked \subseteq Entry
  BY <1>0, <1>1, FirstCell, Cells
<1>4. Filled' = Filled /\ c \in Filled /\ value'[c] = mval
      /\ \A e \in Filled : e # c => value'[e] = value[e] /\ key[e] # mkey
  <2>1. Linked' = Linked
    BY <1>0, <1>2 DEF Linked, Nodes, Places
  <2>2. value'[c] = mval /\ \A e \in Linked : e # c => value'[e] = value[e]
    BY <1>0, <1>1, <1>2, <1>3 DEF MapTypeOK
  <2>3. Filled = {e \in Linked : key[e] # NULL} /\ Filled' = Filled
    BY <1>0, <1>2, <2>1 DEF Filled
  <2>4. c \in Filled
    BY <1>1, <1>3, <2>3, NullAssumption
  <2>5. \A e \in Filled : e # c => key[e] # mkey
    BY <1>0, <1>1, <2>4 DEF MapShape, OneEntry
  <2> HIDE DEF c
  <2>6. QED BY <2>2, <2>3, <2>4, <2>5
<1>5. /\ Stored' = Stored /\ \A k, v : k # mkey => (Has(k, v)' <=> Has(k, v))
      /\ \A k, v : k = mkey => (Has(k, v)' <=> v = mval)
  <2> HIDE DEF c
  <2>1. Stored' = Stored
    BY <1>2, <1>4 DEF Stored
  <2>2. ASSUME NEW k, NEW v, k # mkey PROVE Has(k, v)' <=> Has(k, v)
    BY <1>1, <1>2, <1>4, <2>2 DEF Has
  <2>3. ASSUME NEW k, NEW v, k = mkey PROVE Has(k, v)' <=> v = mval
    BY <1>1, <1>2, <1>4, <2>3 DEF Has
  <2>4. QED BY <2>1, <2>2, <2>3
<1>6. Waiting' = Waiting /\ (OneWaits' <=> OneWaits)
  BY <1>2, SameWaits
<1>7. Intact' /\ Mapped' = Mapped /\ CountedKeys' = Stored /\ CountedKeys = Stored
  BY <1>0, <1>2, <1>5, SameMap DEF Intact, CountedKeys
<1>8. OthersKept'
  BY <1>0, <1>1, <1>2, <1>5, <1>7, PutsWhole DEF Putting
<1>9. Exact'
  BY <1>0, <1>2, <1>5, <1>7 DEF MapCore, Exact
<1>10. Room'
  BY <1>0, <1>2, <1>7 DEF MapCore, Room
<1>11. MapAt'
  <2>1. PutAt'
    BY <1>2 DEF PutAt, Putting
  <2>2. TakeAt'
    BY <1>2 DEF TakeAt, Taking
  <2>3. ResetAt'
    BY <1>0, <1>2, <1>5, <1>6, <1>7 DEF MapCore, MapAt, ResetAt, Putting
  <2>4. OpAt'
    BY <1>0, <1>2 DEF MapCore, MapAt, OpAt, Removing, Taking
  <2>5. QED BY <2>1, <2>2, <2>3, <2>4 DEF MapAt
<1>12. QED BY <1>8, <1>9, <1>10, <1>11 DEF MapKeys

\* A put of a key that is there finds its entry.
LEMMA PutOverIs ==
    ASSUME MapCore, PutOver
    PROVE  \E e \in Filled : key[e] = mkey /\ value' = [value EXCEPT ![e] = mval]
<1>1. MapTypeOK /\ MapShape /\ mpc = "put" /\ Intact
  BY DEF MapCore, PutOver, Intact
<1>2. mkey \in Key
  BY <1>1 DEF MapCore, MapAt, PutAt, Putting
<1>3. Filled = Keyed
  BY <1>1 DEF Filled, Keyed
<1>4. PICK e \in Range(Entries(Bucket(mkey))) : key[e] = mkey /\ value' = [value EXCEPT ![e] = mval]
  BY DEF PutOver
<1>5. e \in Keyed
  BY <1>1, <1>2, <1>4, Find
<1>6. QED BY <1>3, <1>4, <1>5

LEMMA PutOverKeys ==
    ASSUME MapCore, PutOver
    PROVE  MapKeys'
<1>0. MapTypeOK /\ MapShape /\ mpc = "put" /\ Intact
  BY DEF MapCore, PutOver, Intact
<1>1. mkey \in Key /\ mval \in Value /\ map[mkey] = mval /\ mkey \notin Waiting
  BY <1>0 DEF MapCore, MapAt, PutAt, Putting
<1>2. PICK e \in Filled : key[e] = mkey /\ value' = [value EXCEPT ![e] = mval]
  BY PutOverIs
<1>3. ~resizing /\ tempList = <<>>
  <2>1. mkey \in Stored
    BY <1>2 DEF Stored
  <2>2. QED BY <1>0, <2>1 DEF MapCore, MapAt, PutAt, ResetAt, Putting
<1>4. UNCHANGED <<key, next, live, listSize, size, length, temp, tempList, map>> /\ mpc' = "idle" /\ ~resizing'
  <2>1. To("idle") /\ UNCHANGED <<key, next, live, listSize, size, length, temp, tempList, map>>
    BY <1>3 DEF PutOver, tableVars, PutDone
  <2>2. mpc' = "idle" /\ ~resizing'
    BY <1>0, <2>1, ToIs DEF Place
  <2>3. QED BY <2>1, <2>2
<1>5. /\ Filled' = Filled /\ value'[e] = mval
      /\ \A f \in Filled : f # e => value'[f] = value[f] /\ key[f] # mkey
  <2>1. Linked' = Linked /\ Filled' = Filled
    BY <1>0, <1>4 DEF Linked, Nodes, Places, Filled
  <2>2. Filled \subseteq Entry
    BY <1>0, Cells DEF Filled
  <2>3. value'[e] = mval /\ \A f \in Filled : f # e => value'[f] = value[f]
    BY <1>0, <1>2, <2>2 DEF MapTypeOK
  <2>4. \A f \in Filled : f # e => key[f] # mkey
    BY <1>0, <1>2 DEF MapShape, OneEntry
  <2>5. QED BY <2>1, <2>3, <2>4
<1>6. /\ Stored' = Stored /\ \A k, v : k # mkey => (Has(k, v)' <=> Has(k, v))
      /\ \A k, v : k = mkey => (Has(k, v)' <=> v = mval)
  <2>1. Stored' = Stored
    BY <1>4, <1>5 DEF Stored
  <2>2. ASSUME NEW k, NEW v, k # mkey PROVE Has(k, v)' <=> Has(k, v)
    BY <1>2, <1>4, <1>5, <2>2 DEF Has
  <2>3. ASSUME NEW k, NEW v, k = mkey PROVE Has(k, v)' <=> v = mval
    BY <1>2, <1>4, <1>5, <2>3 DEF Has
  <2>4. QED BY <2>1, <2>2, <2>3
<1>7. Waiting' = Waiting /\ (OneWaits' <=> OneWaits)
  BY <1>4, SameWaits
<1>8. Intact' /\ Mapped' = Mapped /\ CountedKeys' = Stored /\ CountedKeys = Stored
  BY <1>0, <1>4, <1>6, SameMap DEF Intact, CountedKeys
<1>9. OthersKept'
  BY <1>0, <1>1, <1>4, <1>6, <1>8, PutsWhole DEF Putting
<1>10. Exact'
  BY <1>0, <1>4, <1>6, <1>8 DEF MapCore, Exact
<1>11. Room'
  BY <1>0, <1>3, <1>4, <1>8 DEF MapCore, Room
<1>12. MapAt'
  <2>1. PutAt' /\ TakeAt' /\ OpAt'
    BY <1>4 DEF PutAt, Putting, TakeAt, Taking, OpAt
  <2>2. ResetAt'
    BY <1>0, <1>3, <1>4, <1>6, <1>7, <1>8 DEF MapCore, MapAt, ResetAt, Putting
  <2>3. QED BY <2>1, <2>2 DEF MapAt
<1>13. QED BY <1>9, <1>10, <1>11, <1>12 DEF MapKeys

\* A put into a bucket that is not empty.
LEMMA PutNodeKeys ==
    ASSUME MapCore, PutNode
    PROVE  MapKeys'
<1>0. /\ MapTypeOK /\ MapShape /\ mpc = "put" /\ Intact
      /\ mkey \in Key /\ mval \in Value /\ mkey \notin Stored
  BY PutsNew DEF MapCore
<1>1. map[mkey] = mval /\ mkey \notin Waiting
  BY <1>0 DEF MapCore, MapAt, PutAt, Putting
<1>2. PICK n : PutsNode(n)
  BY DEF PutNode, PutsNode
<1>3. /\ UNCHANGED <<listSize, length, temp, tempList, map, resizing, mkey, mval, changed>>
      /\ mpc' = "grow" /\ size' = size + 1 /\ key[Bucket(mkey)] # NULL
  <2>1. /\ To("grow") /\ size' = size + 1 /\ key[Bucket(mkey)] # NULL
        /\ UNCHANGED <<listSize, length, temp, tempList, map>>
    BY DEF PutNode
  <2>2. mpc' = "grow" /\ UNCHANGED <<resizing, mkey, mval, changed>>
    BY <1>0, <2>1, ToIs DEF Place
  <2>3. QED BY <2>1, <2>2
<1>4. /\ Filled' = Filled \cup {n} /\ n \notin Filled
      /\ \A e \in Filled : key'[e] = key[e] /\ value'[e] = value[e]
      /\ key'[n] = mkey /\ value'[n] = mval
  BY <1>0, <1>2, <1>3, PutNodeIs DEF Filled
<1>5. /\ Stored' = Stored \cup {mkey} /\ \A k, v : k # mkey => (Has(k, v)' <=> Has(k, v))
      /\ \A k, v : k = mkey => (Has(k, v)' <=> v = mval)
  <2>1. Stored' = Stored \cup {mkey}
    BY <1>4 DEF Stored
  <2>2. ASSUME NEW k, NEW v, k # mkey PROVE Has(k, v)' <=> Has(k, v)
    BY <1>4, <2>2 DEF Has
  <2>3. ASSUME NEW k, NEW v, k = mkey PROVE Has(k, v)' <=> v = mval
    <3>1. \A e \in Filled : key[e] # mkey
      BY <1>0 DEF Stored
    <3>2. QED BY <1>4, <2>3, <3>1 DEF Has
  <2>4. QED BY <2>1, <2>2, <2>3
<1>6. Waiting' = Waiting /\ (OneWaits' <=> OneWaits)
  BY <1>3, SameWaits
<1>7. Intact' /\ Mapped' = Mapped /\ CountedKeys' = Stored'
  BY <1>0, <1>3, <1>5, SameMap DEF Intact, CountedKeys
<1>8. OthersKept'
  BY <1>0, <1>1, <1>3, <1>5, <1>7, PutsWhole DEF Putting
<1>9. Exact'
  BY <1>0, <1>3, <1>5, <1>7, PutFits DEF MapCore, Exact
<1>10. Room'
  <2>1. size \in Int /\ listSize \in Int
    BY Counts
  <2>2. QED BY <1>0, <1>3, <1>7, <2>1 DEF MapCore, Room
<1>11. MapAt'
  <2>1. PutAt'
    BY <1>3 DEF PutAt, Putting
  <2>2. TakeAt'
    BY <1>3 DEF TakeAt, Taking
  <2>3. ResetAt'
    BY <1>0, <1>1, <1>3, <1>5, <1>6, <1>7 DEF MapCore, MapAt, ResetAt, Putting
  <2>4. OpAt'
    BY <1>0, <1>3 DEF MapCore, MapAt, OpAt, Removing, Taking
  <2>5. QED BY <2>1, <2>2, <2>3, <2>4 DEF MapAt
<1>12. QED BY <1>8, <1>9, <1>10, <1>11 DEF MapKeys

\* A put decides whether the array grows.
LEMMA GrowKeys ==
    ASSUME MapCore, Grow
    PROVE  MapKeys'
<1>0. MapTypeOK /\ MapShape /\ mpc = "grow" /\ Intact /\ Busy = {} /\ CountedKeys = Stored
  BY DEF MapCore, Grow, Intact, Busy, CountedKeys
<1> DEFINE place == IF size < listSize THEN PutDone ELSE "copy_grow"
<1>1. To(place)
  <2>1. size \in Int /\ listSize \in Int
    BY Counts
  <2>2. CASE size < listSize
    BY <2>2 DEF Grow
  <2>3. CASE size >= listSize
    BY <1>0, <2>1, <2>3, NotNested DEF Grow
  <2>4. QED BY <2>1, <2>2, <2>3
<1>2. /\ place \in {"idle", "reput", "copy_grow"}
      /\ place = "idle" <=> size < listSize /\ tempList = <<>>
      /\ place = "reput" <=> size < listSize /\ tempList # <<>>
      /\ place = "copy_grow" <=> ~(size < listSize)
  BY DEF PutDone
<1>3. UNCHANGED <<key, value, next, live, listSize, size, length, temp, tempList, map>>
  BY DEF Grow, entryVars, tableVars
<1> HIDE DEF place
<1>4. /\ mpc' = place /\ resizing \in BOOLEAN
      /\ place # "idle" => UNCHANGED <<mkey, mval, changed, resizing>>
      /\ place = "idle" => resizing' = FALSE
  <2>1. PICK p \in Place : p = place
    BY <1>2 DEF Place
  <2>2. To(p) /\ p # "realloc"
    BY <1>1, <1>2, <2>1
  <2>3. QED BY <1>0, <2>1, <2>2, ToIs
<1>5. Filled' = Filled
  BY <1>0, <1>2, <1>3, <1>4 DEF Filled, Linked, Nodes, Places
<1>6. Stored' = Stored /\ \A k, v : Has(k, v)' <=> Has(k, v)
  BY <1>3, <1>5, Same
<1>7. Waiting' = Waiting /\ (OneWaits' <=> OneWaits) /\ \A k, v : WaitsFor(k, v)' <=> WaitsFor(k, v)
  BY <1>3, SameWaits
<1>8. Intact' /\ Busy' = {} /\ Mapped' = Mapped /\ CountedKeys' = Stored
  BY <1>2, <1>3, <1>4, <1>6, SameMap DEF Intact, Busy, CountedKeys
<1>9. OthersKept'
  BY <1>0, <1>3, <1>6, <1>7, <1>8 DEF MapCore, OthersKept
<1>10. Exact'
  BY <1>0, <1>3, <1>6, <1>8 DEF MapCore, Exact
<1>11. resizing => size < listSize
  BY <1>0, NotNested
<1>12. Room'
  <2>1. size \in Int /\ listSize \in Int
    BY Counts
  <2>2. /\ resizing => Cardinality(Mapped) < listSize
        /\ ~resizing => size <= listSize
        /\ length = listSize
    BY <1>0 DEF MapCore, Room
  <2>3. resizing' => resizing
    BY <1>2, <1>4
  <2>4. (resizing' => Cardinality(Mapped') < listSize') /\ length' = listSize'
    BY <1>3, <1>8, <2>2, <2>3
  <2>5. mpc' # "copy_grow" => size' < listSize'
    BY <1>2, <1>3, <1>4
  <2>6. mpc' = "copy_grow" => size' = listSize'
    BY <1>2, <1>3, <1>4, <1>11, <2>1, <2>2
  <2>7. mpc' \in {"idle", "reput", "copy_grow"}
    BY <1>2, <1>4
  <2>8. QED BY <2>4, <2>5, <2>6, <2>7 DEF Room
<1>13. MapAt'
  <2>1. PutAt' /\ TakeAt'
    BY <1>2, <1>4 DEF PutAt, Putting, TakeAt, Taking
  <2>2. ResetAt'
    <3>1. ~resizing => tempList = <<>>
      BY DEF MapCore, MapAt, ResetAt
    <3>2. OneWaits /\ Waiting \cap Stored = {}
      BY <1>0 DEF MapCore, MapAt, ResetAt
    <3>3. resizing' => mpc' = "reput"
      BY <1>2, <1>4, <1>11
    <3>4. ~resizing' => tempList' = <<>> /\ mpc' \notin {"realloc", "clear", "reput"}
      BY <1>2, <1>3, <1>4, <3>1
    <3>5. mpc' = "reput" => tempList' # <<>>
      BY <1>2, <1>3, <1>4
    <3>6. QED BY <1>6, <1>7, <1>8, <3>2, <3>3, <3>4, <3>5 DEF ResetAt
  <2>3. OpAt'
    <3>1. place = "reput" => resizing
      BY <1>2 DEF MapCore, MapAt, ResetAt
    <3>2. CASE place = "idle"
      BY <1>4, <3>2 DEF OpAt
    <3>3. CASE place # "idle"
      BY <1>0, <1>2, <1>3, <1>4, <3>1, <3>3 DEF MapCore, MapAt, OpAt, Removing, Taking
    <3>4. QED BY <3>2, <3>3
  <2>4. QED BY <2>1, <2>2, <2>3 DEF MapAt
<1>14. QED BY <1>9, <1>10, <1>12, <1>13 DEF MapKeys

\* What holds all through a removal.
LEMMA TakingIs ==
    ASSUME MapCore, mpc \in Taking \cup {"remove", "shrink"}
    PROVE  /\ Intact /\ ~resizing /\ tempList = <<>> /\ Waiting = {} /\ \A k, v : ~WaitsFor(k, v)
           /\ mkey \in Key /\ map[mkey] = NULL /\ changed = mkey
           /\ size < listSize /\ length = listSize
           /\ \A k \in Key \ Busy, v \in Value : map[k] = v <=> Has(k, v)
           /\ IsFiniteSet(Stored) /\ size = Cardinality(CountedKeys) /\ size \in Int /\ listSize \in Int
<1>1. Intact /\ ~resizing /\ tempList = <<>>
  BY DEF MapCore, MapAt, ResetAt, Intact, Taking, Putting
<1>2. Waiting = {} /\ \A k, v : ~WaitsFor(k, v)
  BY <1>1 DEF Waiting, WaitsFor
<1>3. mkey \in Key /\ map[mkey] = NULL /\ changed = mkey
  BY <1>1 DEF MapCore, MapAt, TakeAt, OpAt, Taking
<1>4. size < listSize /\ length = listSize
  BY <1>1 DEF MapCore, Room, Taking
<1>5. \A k \in Key \ Busy, v \in Value : map[k] = v <=> Has(k, v)
  BY <1>1, <1>2 DEF MapCore, OthersKept
<1>6. IsFiniteSet(Stored) /\ size = Cardinality(CountedKeys)
  BY <1>1 DEF MapCore, Exact
<1>7. size \in Int /\ listSize \in Int
  BY Counts
<1>8. QED BY <1>1, <1>2, <1>3, <1>4, <1>5, <1>6, <1>7

\* A step of a removal leaves the rest.
LEMMA TakingKeys ==
    ASSUME MapCore, mpc \in Taking \cup {"remove"}, mpc' \in Taking \cup {"shrink"},
           UNCHANGED <<listSize, length, tempList, map, resizing, mkey, changed>>,
           size' \in {size, size - 1}, IsFiniteSet(Stored'), size' = Cardinality(CountedKeys'), TakeAt',
           \A k \in Key \ Busy', v \in Value : map[k] = v <=> Has(k, v)'
    PROVE  MapKeys'
<1>0. Intact' /\ ~resizing' /\ tempList' = <<>> /\ Mapped' = Mapped
  BY TakingIs, SameMap DEF Taking, Intact
<1>1. Waiting' = {} /\ OneWaits' /\ \A k, v : ~WaitsFor(k, v)'
  BY <1>0 DEF Waiting, WaitsFor, OneWaits
<1>2. OthersKept'
  BY <1>0, <1>1 DEF OthersKept
<1>3. Exact'
  BY <1>0 DEF MapCore, Exact
<1>4. Room'
  BY <1>0, TakingIs DEF Room, Taking
<1>5. PutAt' /\ ResetAt'
  BY <1>0, <1>1 DEF PutAt, ResetAt, Taking, Putting
<1>6. OpAt'
  BY <1>0, TakingIs DEF OpAt, Removing, Taking
<1>7. QED BY <1>2, <1>3, <1>4, <1>5, <1>6 DEF MapKeys, MapAt

\* The count without a key.
LEMMA OneLess ==
    ASSUME MapCore, mpc = "remove"
    PROVE  size - 1 = Cardinality(Stored \ {mkey}) /\ IsFiniteSet(Stored \ {mkey})
<1>1. mkey \in Stored /\ CountedKeys = Stored /\ IsFiniteSet(Stored) /\ size = Cardinality(Stored)
  BY TakingIs DEF MapCore, MapAt, TakeAt, CountedKeys
<1>2. QED BY <1>1, FS_RemoveElement

\* The second entry of a chain.
LEMMA Second ==
    ASSUME MapTypeOK, MapShape, Intact, NEW c \in Linked, next[c] # NULL
    PROVE  /\ next[c] \in Nodes /\ next[c] \in Linked /\ next[c] # NULL /\ next[c] # c
           /\ key[next[c]] # NULL /\ key[next[c]] \in Key
<1>1. next[c] \in Nodes /\ key[next[c]] # NULL
  BY DEF MapShape, Chained, Sorted, Linked
<1>2. next[c] # c
  <2>1. SUFFICES ASSUME next[c] = c PROVE FALSE
    OBVIOUS
  <2>2. {c} \in SUBSET Nodes /\ {c} # {}
    BY <1>1, <2>1
  <2>3. PICK e \in Linked \ {c} : next[e] \in {c}
    BY <2>2 DEF MapShape, Chained, Linked
  <2>4. next[e] = next[c] /\ next[e] # NULL
    BY <2>1, <2>3
  <2>5. e = c
    BY <2>3, <2>4 DEF MapShape, Chained, Linked
  <2>6. QED BY <2>3, <2>5
<1>3. next[c] \in Entry
  BY <1>1, Cells DEF Linked
<1>4. QED BY <1>1, <1>2, <1>3 DEF Linked, MapTypeOK

\* A removal of a first entry: the count, then the second entry is copied over it.
LEMMA DropFirstKeys ==
    ASSUME MapCore, DropFirst
    PROVE  MapKeys'
<1>0. mpc = "remove" /\ key[Bucket(mkey)] = mkey
  BY DEF DropFirst
<1>1. /\ UNCHANGED <<key, value, next, live, listSize, length, tempList, map, resizing, mkey, changed>>
      /\ mpc' = "take_key" /\ size' = size - 1 /\ temp' = next[Bucket(mkey)]
  <2>1. To("take_key")
    BY DEF DropFirst
  <2>2. mpc' = "take_key" /\ UNCHANGED <<resizing, mkey, changed>>
    BY <2>1, ToIs DEF Place, MapCore
  <2>3. QED BY <2>2 DEF DropFirst, entryVars
<1>2. Filled' = Filled
  BY <1>0, <1>1 DEF Filled, Linked, Nodes, Places
<1>3. Stored' = Stored /\ \A k, v : Has(k, v)' <=> Has(k, v)
  BY <1>1, <1>2, Same
<1>4. CountedKeys' = Stored \ {mkey} /\ Busy' = Busy
  BY <1>0, <1>1, <1>3 DEF CountedKeys, Busy
<1>5. TakeAt'
  <2>1. Bucket(mkey)' = Bucket(mkey)
    BY <1>1 DEF Bucket
  <2>2. mkey \in Key /\ map[mkey] = NULL
    BY <1>0, TakingIs
  <2>3. QED BY <1>0, <1>1, <2>1, <2>2 DEF TakeAt, Taking
<1>6. \A k \in Key \ Busy', v \in Value : map[k] = v <=> Has(k, v)'
  BY <1>0, <1>3, <1>4, TakingIs
<1>7. IsFiniteSet(Stored') /\ size' = Cardinality(CountedKeys')
  BY <1>0, <1>1, <1>3, <1>4, OneLess, TakingIs
<1>8. QED BY <1>0, <1>1, <1>5, <1>6, <1>7, TakingKeys DEF Taking

\* Between the key and the value the bucket holds the key of the second entry, and still
\* the value of the first.
LEMMA TakeKeyIs ==
    ASSUME MapCore, TakeKey
    PROVE  /\ mpc = "take_key" /\ key[Bucket(mkey)] = mkey /\ temp = next[Bucket(mkey)]
           /\ UNCHANGED <<value, next, live, listSize, size, length, temp, tempList, map, resizing, mkey, changed>>
           /\ mpc' = "take_value" /\ Linked' = Linked /\ Bucket(mkey) \in Linked
           /\ key'[Bucket(mkey)] = IF temp = NULL THEN NULL ELSE key[temp]
           /\ \A e \in Linked : e # Bucket(mkey) => key'[e] = key[e] /\ key[e] # mkey
           /\ Filled = {e \in Linked : key[e] # NULL}
           /\ Filled' = {e \in Linked : key'[e] # NULL /\ e # temp}
           /\ CountedKeys = Stored \ {mkey} /\ CountedKeys' = Stored' /\ Busy = {mkey}
<1> DEFINE c == Bucket(mkey)
<1>0. mpc = "take_key" /\ MapTypeOK /\ MapShape /\ Intact
  BY DEF TakeKey, MapCore, Intact
<1>1. key[c] = mkey /\ temp = next[c] /\ mkey \in Key
  BY <1>0 DEF MapCore, MapAt, TakeAt, Taking
<1>2. /\ UNCHANGED <<value, next, live, listSize, size, length, temp, tempList, map, resizing, mkey, changed>>
      /\ mpc' = "take_value" /\ key' = [key EXCEPT ![c] = IF temp = NULL THEN NULL ELSE key[temp]]
  <2>1. To("take_value")
    BY DEF TakeKey
  <2>2. mpc' = "take_value" /\ UNCHANGED <<resizing, mkey, changed>>
    BY <1>0, <2>1, ToIs DEF Place
  <2>3. QED BY <2>2 DEF TakeKey, tableVars
<1>3. c \in Linked /\ c \in Entry /\ Linked \subseteq Entry
  BY <1>0, <1>1, FirstCell, Cells
<1>4. Linked' = Linked
  BY <1>0, <1>2 DEF Linked, Nodes, Places
<1>5. /\ key'[c] = IF temp = NULL THEN NULL ELSE key[temp]
      /\ \A e \in Linked : e # c => key'[e] = key[e]
  BY <1>0, <1>2, <1>3 DEF MapTypeOK
<1>6. Filled = {e \in Linked : key[e] # NULL} /\ Filled' = {e \in Linked : key'[e] # NULL /\ e # temp}
  BY <1>0, <1>2, <1>4 DEF Filled
<1>7. \A e \in Linked : e # c => key[e] # mkey
  <2>1. mkey # NULL
    BY <1>1, NullAssumption
  <2>2. c \in Filled /\ \A e \in Linked : key[e] = mkey => e \in Filled
    BY <1>1, <1>3, <1>6, <2>1
  <2>3. QED BY <1>0, <1>1, <2>2 DEF MapShape, OneEntry
<1>8. CountedKeys = Stored \ {mkey} /\ CountedKeys' = Stored' /\ Busy = {mkey}
  BY <1>0, <1>2 DEF CountedKeys, Busy
<1>9. QED BY <1>0, <1>1, <1>2, <1>3, <1>4, <1>5, <1>6, <1>7, <1>8

LEMMA TakeKeyKeys ==
    ASSUME MapCore, TakeKey
    PROVE  MapKeys'
<1> DEFINE c == Bucket(mkey)
<1>0. MapTypeOK /\ MapShape /\ Intact /\ mpc = "take_key" /\ mkey \in Key /\ map[mkey] = NULL
  BY TakingIs, TakeKeyIs DEF MapCore, Taking
<1>1. /\ key[c] = mkey /\ temp = next[c] /\ c \in Linked
      /\ key'[c] = IF temp = NULL THEN NULL ELSE key[temp]
      /\ \A e \in Linked : e # c => key'[e] = key[e] /\ key[e] # mkey
  BY TakeKeyIs
<1>2. Filled = {e \in Linked : key[e] # NULL} /\ Filled' = {e \in Linked : key'[e] # NULL /\ e # temp}
  BY TakeKeyIs
<1>3. UNCHANGED <<value, map, temp>> /\ Busy = {mkey} /\ mpc' = "take_value"
  BY TakeKeyIs
<1>4. Bucket(mkey)' = c
  BY TakeKeyIs DEF Bucket
<1>5. mkey # NULL /\ NULL \notin Linked
  BY <1>0, NullAssumption, Cells
<1> HIDE DEF c
<1>6. CASE temp = NULL
  <2>1. Filled' = Filled \ {c} /\ c \in Filled
    BY <1>1, <1>2, <1>5, <1>6
  <2>2. Stored' = Stored \ {mkey}
    BY <1>1, <1>2, <2>1 DEF Stored
  <2>3. \A k, v : Has(k, v)' <=> Has(k, v) /\ k # mkey
    BY <1>1, <1>2, <1>3, <2>1 DEF Has
  <2>4. ASSUME NEW k \in Key \ Busy', NEW v \in Value PROVE map[k] = v <=> Has(k, v)'
    <3>1. CASE k = mkey
      BY <1>0, <2>3, <3>1, NullAssumption
    <3>2. CASE k # mkey
      BY <1>0, <1>3, <2>3, <3>2, TakingIs DEF Taking
    <3>3. QED BY <3>1, <3>2
  <2>5. TakeAt'
    BY <1>0, <1>1, <1>3, <1>4, <1>6, TakeKeyIs DEF TakeAt, Taking
  <2>6. IsFiniteSet(Stored') /\ size' = Cardinality(CountedKeys')
    BY <1>0, <2>2, TakeKeyIs, TakingIs, FS_RemoveElement DEF Taking
  <2>7. QED BY <2>4, <2>5, <2>6, TakeKeyIs, TakingKeys DEF Taking
<1>7. CASE temp # NULL
  <2>0. /\ temp \in Linked /\ temp # c /\ key[temp] # NULL /\ key[temp] \in Key /\ key[temp] # mkey
        /\ temp \in Filled
    BY <1>0, <1>1, <1>2, <1>7, Second
  <2>1. Filled' = Filled \ {temp} /\ c \in Filled /\ key'[c] = key[temp] /\ c \in Filled'
    BY <1>1, <1>2, <1>5, <1>7, <2>0
  <2>2. Stored' = Stored \ {mkey}
    <3>1. Stored' = {key'[e] : e \in Filled \ {temp}}
      BY <2>1 DEF Stored
    <3>2. \A e \in Filled \ {temp} : key'[e] \in Stored /\ key'[e] # mkey
      BY <1>1, <1>2, <2>0, <2>1 DEF Stored
    <3>3. ASSUME NEW e \in Filled, key[e] # mkey PROVE \E f \in Filled \ {temp} : key'[f] = key[e]
      <4>1. CASE e = temp
        BY <2>0, <2>1, <4>1
      <4>2. CASE e # temp
        BY <1>1, <1>2, <3>3, <4>2
      <4>3. QED BY <4>1, <4>2
    <3>4. ASSUME NEW k \in Stored \ {mkey} PROVE k \in Stored'
      <4>1. PICK e \in Filled : k = key[e]
        BY DEF Stored
      <4>2. PICK f \in Filled \ {temp} : key'[f] = key[e]
        BY <3>3, <4>1
      <4>3. QED BY <3>1, <4>1, <4>2
    <3>5. Stored' \subseteq Stored \ {mkey}
      BY <3>1, <3>2
    <3>6. QED BY <3>4, <3>5
  <2>3. \A k, v : k # key[temp] => (Has(k, v)' <=> Has(k, v) /\ k # mkey)
    BY <1>1, <1>2, <1>3, <2>0, <2>1 DEF Has
  <2>4. Busy' = {key[temp]}
    BY <1>3, <1>4, <2>1 DEF Busy
  <2>5. ASSUME NEW k \in Key \ Busy', NEW v \in Value PROVE map[k] = v <=> Has(k, v)'
    <3>1. CASE k = mkey
      BY <1>0, <2>0, <2>3, <3>1, NullAssumption
    <3>2. CASE k # mkey
      BY <1>0, <1>3, <2>3, <2>4, <3>2, TakingIs DEF Taking
    <3>3. QED BY <3>1, <3>2
  <2>6. map[key[temp]] = value[temp]
    <3>1. value[temp] # NULL /\ temp \in Entry
      BY <1>0, <2>0, Cells DEF MapShape, Valued
    <3>2. value[temp] \in Value
      BY <1>0, <3>1 DEF MapTypeOK
    <3>3. Has(key[temp], value[temp])
      BY <2>0 DEF Has
    <3>4. key[temp] \in Key \ Busy
      BY <1>3, <2>0
    <3>5. \A k \in Key \ Busy, v \in Value : map[k] = v <=> Has(k, v)
      BY <1>0, TakingIs DEF Taking
    <3>6. QED BY <3>2, <3>3, <3>4, <3>5
  <2>7. TakeAt'
    <3>1. key'[temp] = key[temp]
      BY <1>1, <2>0
    <3>2. QED BY <1>0, <1>1, <1>3, <1>4, <1>7, <2>1, <2>6, <3>1, TakeKeyIs DEF TakeAt, Taking
  <2>8. IsFiniteSet(Stored') /\ size' = Cardinality(CountedKeys')
    BY <1>0, <2>2, TakeKeyIs, TakingIs, FS_RemoveElement DEF Taking
  <2>9. QED BY <2>5, <2>7, <2>8, TakeKeyIs, TakingKeys DEF Taking
<1>8. QED BY <1>6, <1>7

LEMMA TakeValueKeys ==
    ASSUME MapCore, TakeValue
    PROVE  MapKeys'
<1> DEFINE c == Bucket(mkey)
<1>0. MapTypeOK /\ MapShape /\ Intact /\ mpc = "take_value" /\ mkey \in Key /\ map[mkey] = NULL
  BY TakingIs DEF MapCore, Taking, TakeValue
<1>1. /\ UNCHANGED <<key, next, live, listSize, size, length, temp, tempList, map, resizing, mkey, changed>>
      /\ mpc' = IF temp = NULL THEN "shrink" ELSE "take_next"
      /\ value' = [value EXCEPT ![c] = IF temp = NULL THEN NULL ELSE value[temp]]
  <2>1. To(IF temp = NULL THEN "shrink" ELSE "take_next")
    BY DEF TakeValue
  <2>2. PICK p \in Place : p = (IF temp = NULL THEN "shrink" ELSE "take_next")
    BY DEF Place
  <2>3. mpc' = p /\ UNCHANGED <<resizing, mkey, changed>>
    BY <1>0, <2>1, <2>2, ToIs
  <2>4. QED BY <2>2, <2>3 DEF TakeValue, tableVars
<1>2. c \in Linked /\ c \in Entry /\ Linked \subseteq Entry /\ NULL \notin Linked
  BY <1>0, FirstCell, Cells
<1>3. Linked' = Linked
  BY <1>0, <1>1 DEF Linked, Nodes, Places
<1>4. /\ value'[c] = IF temp = NULL THEN NULL ELSE value[temp]
      /\ \A e \in Linked : e # c => value'[e] = value[e]
  BY <1>0, <1>1, <1>2 DEF MapTypeOK
<1>5. temp = next[c] /\ Bucket(mkey)' = c
  BY <1>0, <1>1 DEF MapCore, MapAt, TakeAt, Bucket
<1>6. Filled' = Filled /\ Filled = {e \in Linked : key[e] # NULL /\ e # temp}
  BY <1>0, <1>1, <1>2, <1>3 DEF Filled
<1>7. Stored' = Stored /\ CountedKeys' = CountedKeys
  BY <1>0, <1>1, <1>6 DEF Stored, CountedKeys
<1>8. Busy = {key[c]} /\ Busy' = {}
  BY <1>0, <1>1 DEF Busy
<1>9. TakeAt'
  <2>1. temp # NULL => key[c] = key[temp]
    BY <1>0 DEF MapCore, MapAt, TakeAt
  <2>2. QED BY <1>0, <1>1, <1>5, <2>1 DEF TakeAt, Taking
<1>10. ASSUME NEW k \in Key, NEW v \in Value PROVE map[k] = v <=> Has(k, v)'
  <2>1. CASE k # key[c]
    <3>1. Has(k, v)' <=> Has(k, v)
      <4> HIDE DEF c
      <4>1. QED BY <1>1, <1>4, <1>6, <2>1 DEF Has
    <3>2. QED BY <1>0, <1>8, <2>1, <3>1, TakingIs DEF Taking
  <2>2. CASE k = key[c]
    <3>1. key[c] # NULL /\ temp # NULL
      BY <1>0, <2>2, NullAssumption DEF MapCore, MapAt, TakeAt
    <3>2. map[key[c]] = value[temp]
      BY <1>0, <3>1 DEF MapCore, MapAt, TakeAt
    <3>3. next[c] # c
      BY <1>0, <1>2, <1>5, <3>1, Second
    <3>4. c \in Filled /\ \A e \in Filled : key[e] = key[c] => e = c
      <4>1. c \in Filled
        BY <1>2, <1>5, <1>6, <3>1, <3>3
      <4>2. QED BY <1>0, <4>1 DEF MapShape, OneEntry
    <3> HIDE DEF c
    <3>5. Has(k, v)' <=> v = value[temp]
      BY <1>1, <1>4, <1>6, <2>2, <3>1, <3>4 DEF Has
    <3>6. QED BY <2>2, <3>2, <3>5
  <2>3. QED BY <2>1, <2>2
<1>11. IsFiniteSet(Stored') /\ size' = Cardinality(CountedKeys')
  BY <1>0, <1>1, <1>7, TakingIs DEF Taking
<1>12. QED BY <1>0, <1>1, <1>9, <1>10, <1>11, TakingKeys DEF Taking

LEMMA TakeNextKeys ==
    ASSUME MapCore, TakeNext
    PROVE  MapKeys'
<1> DEFINE c == Bucket(mkey)
<1>0. MapTypeOK /\ MapShape /\ Intact /\ mpc = "take_next" /\ mkey \in Key /\ map[mkey] = NULL
  BY TakingIs DEF MapCore, Taking, TakeNext
<1>1. /\ UNCHANGED <<key, value, live, listSize, size, length, temp, tempList, map, resizing, mkey, changed>>
      /\ mpc' = "free"
  <2>1. To("free")
    BY DEF TakeNext
  <2>2. mpc' = "free" /\ UNCHANGED <<resizing, mkey, changed>>
    BY <1>0, <2>1, ToIs DEF Place
  <2>3. QED BY <2>2 DEF TakeNext, tableVars
<1>2. /\ c \in Linked /\ next[c] # NULL /\ temp = next[c] /\ temp \in live
      /\ next' = [next EXCEPT ![c] = next[next[c]]]
  BY TakeNextIs
<1>3. Filled' = Filled
  <2>1. Filled' = Filled \ {next[c]}
    BY <1>0, <1>1, <1>2, ShapeBypass
  <2>2. temp \notin Filled
    BY <1>0 DEF Filled
  <2>3. QED BY <1>2, <2>1, <2>2
<1>4. Stored' = Stored /\ \A k, v : Has(k, v)' <=> Has(k, v)
  BY <1>1, <1>3, Same
<1>5. CountedKeys = Stored /\ CountedKeys' = Stored /\ Busy = {}
  BY <1>0, <1>1, <1>4 DEF CountedKeys, Busy
<1>6. TakeAt'
  BY <1>0, <1>1, <1>2 DEF TakeAt, Taking
<1>7. \A k \in Key \ Busy', v \in Value : map[k] = v <=> Has(k, v)'
  BY <1>0, <1>4, <1>5, TakingIs DEF Taking
<1>8. IsFiniteSet(Stored') /\ size' = Cardinality(CountedKeys')
  BY <1>0, <1>1, <1>4, <1>5, TakingIs DEF Taking
<1>9. QED BY <1>0, <1>1, <1>6, <1>7, <1>8, TakingKeys DEF Taking

\* A removal of a later entry.
LEMMA UnlinkKeys ==
    ASSUME MapCore, Unlink
    PROVE  MapKeys'
<1>0. MapTypeOK /\ MapShape /\ Intact /\ mpc = "remove" /\ mkey \in Key /\ map[mkey] = NULL
  BY TakingIs DEF MapCore, Taking, Unlink
<1>1. /\ UNCHANGED <<key, value, live, listSize, length, tempList, map, resizing, mkey, changed>>
      /\ mpc' = "free" /\ size' = size - 1
  <2>1. To("free")
    BY DEF Unlink
  <2>2. mpc' = "free" /\ UNCHANGED <<resizing, mkey, changed>>
    BY <1>0, <2>1, ToIs DEF Place
  <2>3. QED BY <2>2 DEF Unlink
<1>2. PICK p \in Linked : /\ next[p] # NULL /\ key[next[p]] = mkey /\ next[p] \in live
                          /\ temp' = next[p] /\ next' = [next EXCEPT ![p] = next[next[p]]]
  BY UnlinkIs
<1> DEFINE x == next[p]
<1>3. Filled' = Filled \ {x}
  BY <1>0, <1>1, <1>2, ShapeBypass
<1>4. x \in Filled /\ \A e \in Filled : e # x => key[e] # mkey
  <2>1. x \in Linked /\ key[x] # NULL
    BY <1>0, <1>2, Second
  <2>2. x \in Filled
    BY <1>0, <2>1 DEF Filled
  <2>3. QED BY <1>0, <1>2, <2>2 DEF MapShape, OneEntry
<1>5. Stored' = Stored \ {mkey}
  BY <1>1, <1>2, <1>3, <1>4 DEF Stored
<1>6. \A k, v : Has(k, v)' <=> Has(k, v) /\ k # mkey
  BY <1>1, <1>2, <1>3, <1>4 DEF Has
<1>7. CountedKeys' = Stored' /\ Busy = {mkey} /\ Busy' = {}
  BY <1>0, <1>1 DEF CountedKeys, Busy
<1>8. TakeAt'
  BY <1>0, <1>1, <1>2 DEF TakeAt, Taking
<1>9. ASSUME NEW k \in Key, NEW v \in Value PROVE map[k] = v <=> Has(k, v)'
  <2>1. CASE k = mkey
    BY <1>0, <1>6, <2>1, NullAssumption
  <2>2. CASE k # mkey
    BY <1>0, <1>6, <1>7, <2>2, TakingIs
  <2>3. QED BY <2>1, <2>2
<1>10. IsFiniteSet(Stored') /\ size' = Cardinality(CountedKeys')
  BY <1>0, <1>1, <1>5, <1>7, OneLess
<1>11. QED BY <1>0, <1>1, <1>8, <1>9, <1>10, TakingKeys DEF Taking

\* The entry that was taken out is freed, and the array may shrink.
LEMMA FreeNodeKeys ==
    ASSUME MapCore, FreeNode
    PROVE  MapKeys'
<1>0. MapTypeOK /\ MapShape /\ Intact /\ mpc = "free" /\ mkey \in Key /\ map[mkey] = NULL
  BY TakingIs DEF MapCore, Taking, FreeNode
<1>1. /\ UNCHANGED <<listSize, size, length, tempList, map, resizing, mkey, changed>>
      /\ mpc' = "shrink" /\ live' = live \ {temp}
      /\ key' = Erase(key, {temp}) /\ value' = Erase(value, {temp})
  <2>1. To("shrink")
    BY DEF FreeNode
  <2>2. mpc' = "shrink" /\ UNCHANGED <<resizing, mkey, changed>>
    BY <1>0, <2>1, ToIs DEF Place
  <2>3. QED BY <2>2 DEF FreeNode
<1>2. Nodes = live \ {temp} /\ Linked' = Linked
  BY <1>0, <1>1 DEF Linked, Nodes, Places
<1>3. temp \notin Linked /\ Linked \subseteq Entry
  <2>1. temp \in Node
    BY <1>0 DEF MapCore, MapAt, TakeAt, MapTypeOK
  <2>2. temp \notin Places
    BY <1>0, <2>1, Cells, NodeAssumption
  <2>3. QED BY <1>0, <1>2, <2>2, Cells DEF Linked
<1>4. \A e \in Linked : key'[e] = key[e] /\ value'[e] = value[e]
  BY <1>1, <1>3 DEF Erase
<1>5. Filled' = Filled
  BY <1>0, <1>1, <1>2, <1>4 DEF Filled
<1>6. \A e \in Filled : key'[e] = key[e] /\ value'[e] = value[e]
  BY <1>4 DEF Filled
<1>7. Stored' = Stored /\ \A k, v : Has(k, v)' <=> Has(k, v)
  BY <1>5, <1>6, Same
<1>8. CountedKeys = Stored /\ CountedKeys' = Stored /\ Busy = {}
  BY <1>0, <1>1, <1>7 DEF CountedKeys, Busy
<1>9. TakeAt'
  BY <1>0, <1>1 DEF TakeAt, Taking
<1>10. \A k \in Key \ Busy', v \in Value : map[k] = v <=> Has(k, v)'
  BY <1>0, <1>7, <1>8, TakingIs DEF Taking
<1>11. IsFiniteSet(Stored') /\ size' = Cardinality(CountedKeys')
  BY <1>0, <1>1, <1>7, <1>8, TakingIs DEF Taking
<1>12. QED BY <1>0, <1>1, <1>9, <1>10, <1>11, TakingKeys DEF Taking

LEMMA ShrinkKeys ==
    ASSUME MapCore, Shrink
    PROVE  MapKeys'
<1>0. MapTypeOK /\ Intact /\ mpc = "shrink" /\ mkey \in Key /\ map[mkey] = NULL /\ changed = mkey
  BY TakingIs DEF MapCore, Shrink
<1> DEFINE less == size < listSize \div 2 /\ listSize \div 2 >= DEFAULT_MAP_SIZE
<1>1. /\ UNCHANGED <<key, value, next, live, listSize, size, length, temp, tempList, map, resizing>>
      /\ mpc' = IF less THEN "copy_shrink" ELSE "idle"
      /\ less => UNCHANGED <<mkey, changed>>
  <2>1. To(IF less THEN "copy_shrink" ELSE "idle")
    BY DEF Shrink
  <2>2. PICK p \in Place : p = (IF less THEN "copy_shrink" ELSE "idle")
    BY DEF Place
  <2>3. To(p) /\ p # "realloc"
    BY <2>1, <2>2
  <2>4. resizing = FALSE
    BY <1>0, TakingIs DEF MapCore, MapTypeOK
  <2>5. mpc' = p /\ resizing' = resizing /\ (p # "idle" => UNCHANGED <<mkey, changed>>)
    BY <1>0, <2>3, <2>4, ToIs
  <2> HIDE DEF less
  <2>6. less => p # "idle"
    BY <2>2
  <2>7. QED BY <2>2, <2>5, <2>6 DEF Shrink, entryVars, tableVars
<1>2. less => size < listSize \div 2 /\ listSize \div 2 >= DEFAULT_MAP_SIZE
  OBVIOUS
<1> HIDE DEF less
<1>3. mpc' \in {"copy_shrink", "idle"} /\ (mpc' = "copy_shrink" <=> less)
  BY <1>1
<1>4. Filled' = Filled
  BY <1>0, <1>1, <1>3 DEF Filled, Linked, Nodes, Places
<1>5. Stored' = Stored /\ \A k, v : Has(k, v)' <=> Has(k, v)
  BY <1>1, <1>4, Same
<1>6. CountedKeys = Stored /\ CountedKeys' = Stored /\ Busy = {} /\ Busy' = {} /\ Intact' /\ Mapped' = Mapped
  BY <1>0, <1>1, <1>3, <1>5, SameMap DEF CountedKeys, Busy, Intact
<1>7. ~resizing' /\ tempList' = <<>> /\ Waiting' = {} /\ OneWaits' /\ \A k, v : ~WaitsFor(k, v)'
  <2>1. ~resizing' /\ tempList' = <<>>
    BY <1>0, <1>1, TakingIs
  <2>2. QED BY <2>1 DEF Waiting, WaitsFor, OneWaits
<1>8. OthersKept'
  <2>1. \A k \in Key \ Busy, v \in Value : map[k] = v <=> Has(k, v)
    BY <1>0, TakingIs
  <2>2. QED BY <1>1, <1>5, <1>6, <1>7, <2>1 DEF OthersKept
<1>9. Exact'
  BY <1>0, <1>1, <1>5, <1>6 DEF MapCore, Exact
<1>10. Room'
  <2>1. size < listSize /\ length = listSize
    BY <1>0, TakingIs
  <2>2. QED BY <1>1, <1>2, <1>3, <1>7, <2>1 DEF Room
<1>11. PutAt' /\ TakeAt' /\ ResetAt'
  BY <1>3, <1>6, <1>7 DEF PutAt, TakeAt, ResetAt, Putting, Taking
<1>12. OpAt'
  BY <1>0, <1>1, <1>3, <1>7 DEF OpAt, Removing, Taking
<1>13. QED BY <1>8, <1>9, <1>10, <1>11, <1>12 DEF MapKeys, MapAt

\* While resetHashMap is about to begin, the entries are the pairs of the map.
LEMMA CopyIs ==
    ASSUME MapCore, mpc \in {"copy_grow", "copy_shrink"}
    PROVE  /\ Intact /\ ~resizing /\ Filled = Keyed /\ Nodes = live /\ Stored = Mapped
           /\ size = Cardinality(Mapped) /\ changed \in Key
           /\ \A k \in Key, v \in Value : map[k] = v <=> Has(k, v)
<1>1. Intact /\ ~resizing /\ tempList = <<>> /\ Busy = {} /\ CountedKeys = Stored
  BY DEF MapCore, MapAt, ResetAt, Intact, Putting, Busy, CountedKeys
<1>2. Waiting = {} /\ \A k, v : ~WaitsFor(k, v)
  BY <1>1 DEF Waiting, WaitsFor
<1>3. Stored = Mapped
  BY <1>1, <1>2, StoredMapped
<1>4. size = Cardinality(Mapped) /\ changed \in Key
  BY <1>1, <1>3 DEF MapCore, Exact, MapAt, OpAt
<1>5. Filled = Keyed /\ Nodes = live
  BY DEF Filled, Keyed, Nodes
<1>6. \A k \in Key, v \in Value : map[k] = v <=> Has(k, v)
  BY <1>1, <1>2 DEF MapCore, OthersKept
<1>7. QED BY <1>1, <1>3, <1>4, <1>5, <1>6

\* resetHashMap copies the entries: what the map had is what waits.
LEMMA CopyKeys ==
    ASSUME MapCore, Copy
    PROVE  MapKeys'
<1> DEFINE s == All
<1>0. MapTypeOK /\ MapShape /\ Intact /\ mpc \in {"copy_grow", "copy_shrink"}
  BY CopyIs DEF MapCore, Copy
<1>1. /\ UNCHANGED <<map, size, changed>> /\ mpc' = "realloc" /\ resizing'
      /\ tempList' = [n \in 1 .. Len(s) |-> <<key[s[n]], value[s[n]]>>]
      /\ live' = live \ Range(s)
      /\ listSize' = IF mpc = "copy_grow" THEN 2 * listSize ELSE listSize \div 2
  <2>1. To("realloc")
    BY DEF Copy
  <2>2. mpc' = "realloc" /\ UNCHANGED changed /\ resizing'
    BY <1>0, <2>1, ToIs DEF Place
  <2>3. QED BY <2>2 DEF Copy
<1>2. Lists(s, Filled) /\ Range(s) = Filled /\ Len(s) \in Nat
  BY <1>0, AllAre, AllCount, CopyIs
<1>3. live' = {}
  <2>1. live \subseteq Filled
    BY <1>0, CopyIs DEF MapShape, Sorted, Keyed, Linked
  <2>2. QED BY <1>1, <1>2, <2>1
<1>4. /\ \A i \in 1 .. Len(s) : s[i] \in Filled
      /\ \A i, j \in 1 .. Len(s) : s[i] = s[j] => i = j
      /\ \A e \in Filled : \E i \in 1 .. Len(s) : s[i] = e
  BY <1>2 DEF Lists
<1> HIDE DEF s
<1>5. DOMAIN tempList' = 1 .. Len(s) /\ \A i \in 1 .. Len(s) : tempList'[i] = <<key[s[i]], value[s[i]]>>
  BY <1>1
<1>6. \A k, v : WaitsFor(k, v)' <=> Has(k, v)
  BY <1>4, <1>5 DEF WaitsFor, Has
<1>7. OneWaits'
  BY <1>0, <1>4, <1>5 DEF OneWaits, MapShape, OneEntry
<1>8. ~Intact' /\ Busy' = {} /\ Mapped' = Mapped
  BY <1>1, SameMap DEF Intact, Busy
<1>9. OthersKept'
  BY <1>0, <1>1, <1>6, <1>8, CopyIs DEF OthersKept
<1>10. Exact'
  BY <1>8 DEF MapCore, Exact
<1>11. Room'
  <2>1. size \in Nat /\ listSize \in Nat \ {0}
    BY Counts
  <2>2. CASE mpc = "copy_grow"
    <3>1. size = listSize /\ listSize' = 2 * listSize
      BY <1>1, <2>2 DEF MapCore, Room
    <3>2. size < listSize'
      BY <2>1, <3>1
    <3>3. QED BY <1>0, <1>1, <1>8, <3>2, CopyIs DEF Room
  <2>3. CASE mpc = "copy_shrink"
    <3>1. size < listSize \div 2 /\ listSize' = listSize \div 2
      BY <1>1, <2>3 DEF MapCore, Room
    <3>2. QED BY <1>0, <1>1, <1>8, <3>1, CopyIs DEF Room
  <2>4. QED BY <1>0, <2>2, <2>3
<1>12. PutAt' /\ TakeAt'
  BY <1>1 DEF PutAt, TakeAt, Putting, Taking
<1>13. ResetAt'
  BY <1>1, <1>3, <1>7, <1>8 DEF ResetAt
<1>14. OpAt'
  BY <1>0, <1>1, CopyIs DEF OpAt, Removing, Taking
<1>15. QED BY <1>9, <1>10, <1>11, <1>12, <1>13, <1>14 DEF MapKeys, MapAt

\* While the array is moved and cleared, all keys wait to be put back.
LEMMA MovingIs ==
    ASSUME MapCore, mpc \in {"realloc", "clear"}
    PROVE  /\ ~Intact /\ resizing /\ Busy = {} /\ live = {} /\ OneWaits /\ changed \in Key
           /\ Cardinality(Mapped) < listSize /\ IsFiniteSet(Mapped) /\ Cardinality(Mapped) <= MaxListSize
           /\ \A k \in Key, v \in Value : map[k] = v <=> WaitsFor(k, v)
<1>1. ~Intact /\ resizing /\ Busy = {} /\ live = {} /\ OneWaits /\ changed \in Key
  BY DEF MapCore, MapAt, ResetAt, OpAt, Intact, Busy
<1>2. QED BY <1>1 DEF MapCore, Room, Exact, OthersKept

\* The array is moved and cleared.
LEMMA ReallocKeys ==
    ASSUME MapCore, Realloc
    PROVE  MapKeys'
<1>0. MapTypeOK /\ mpc = "realloc"
  BY DEF MapCore, Realloc
<1>1. /\ UNCHANGED <<live, listSize, tempList, map, changed, resizing>>
      /\ mpc' = "clear" /\ length' = listSize
  <2>1. To("clear")
    BY DEF Realloc
  <2>2. mpc' = "clear" /\ UNCHANGED <<changed, resizing>>
    BY <1>0, <2>1, ToIs DEF Place
  <2>3. QED BY <2>2 DEF Realloc
<1>2. Waiting' = Waiting /\ (OneWaits' <=> OneWaits) /\ \A k, v : WaitsFor(k, v)' <=> WaitsFor(k, v)
  BY <1>1, SameWaits
<1>3. ~Intact' /\ Busy' = {} /\ Mapped' = Mapped
  BY <1>1, SameMap DEF Intact, Busy
<1>4. OthersKept' /\ Exact' /\ Room'
  BY <1>0, <1>1, <1>2, <1>3, MovingIs DEF OthersKept, Exact, Room
<1>5. MapAt'
  BY <1>0, <1>1, <1>2, <1>3, MovingIs
     DEF MapAt, PutAt, TakeAt, ResetAt, OpAt, Putting, Removing, Taking
<1>6. QED BY <1>4, <1>5 DEF MapKeys

LEMMA ClearCellsKeys ==
    ASSUME MapCore, ClearCells
    PROVE  MapKeys'
<1>0. MapTypeOK /\ mpc = "clear"
  BY DEF MapCore, ClearCells
<1>1. /\ UNCHANGED <<live, listSize, length, tempList, map>> /\ size' = 0 /\ key' = Erase(key, Cell)
      /\ mpc' = IF tempList = <<>> THEN "idle" ELSE "reput"
      /\ IF tempList = <<>> THEN ~resizing' ELSE resizing' = resizing /\ changed' = changed
  <2>1. To(PutDone) /\ PutDone = IF tempList = <<>> THEN "idle" ELSE "reput"
    BY DEF ClearCells, PutDone
  <2>2. PICK p \in Place : p = PutDone /\ To(p)
    BY <2>1 DEF Place
  <2>3. mpc' = p /\ (p = "idle" => ~resizing') /\ (p = "reput" => UNCHANGED <<changed, resizing>>)
    BY <1>0, <2>2, ToIs
  <2>4. QED BY <2>1, <2>2, <2>3 DEF ClearCells
<1>2. Waiting' = Waiting /\ (OneWaits' <=> OneWaits) /\ \A k, v : WaitsFor(k, v)' <=> WaitsFor(k, v)
  BY <1>1, SameWaits
<1>3. Filled' = {}
  <2>1. live' = {} /\ mpc' # "free"
    BY <1>0, <1>1, MovingIs
  <2>2. Linked' = Places /\ Places \subseteq Cell
    BY <1>0, <1>1, <2>1, Cells DEF Linked, Nodes, Places
  <2>3. \A e \in Places : key'[e] = NULL
    BY <1>1, <2>2 DEF Erase, Entry
  <2>4. QED BY <2>2, <2>3 DEF Filled
<1>4. Stored' = {} /\ \A k, v : ~Has(k, v)'
  BY <1>3 DEF Stored, Has
<1>5. Intact' /\ Busy' = {} /\ Mapped' = Mapped /\ CountedKeys' = {}
  BY <1>1, <1>4, SameMap DEF Intact, Busy, CountedKeys
<1>6. OthersKept'
  BY <1>0, <1>1, <1>2, <1>4, <1>5, MovingIs DEF OthersKept
<1>7. Exact'
  <2>1. IsFiniteSet({}) /\ Cardinality({}) = 0
    BY FS_EmptySet
  <2>2. QED BY <1>0, <1>1, <1>4, <1>5, <2>1, MovingIs DEF Exact
<1>8. Room'
  <2>1. 0 < listSize
    BY Counts
  <2>2. length = listSize
    BY <1>0 DEF MapCore, Room
  <2>3. QED BY <1>0, <1>1, <1>5, <2>1, <2>2, MovingIs DEF Room
<1>9. PutAt' /\ TakeAt'
  BY <1>1 DEF PutAt, TakeAt, Putting, Taking
<1>10. ResetAt'
  <2>1. CASE tempList = <<>>
    BY <1>0, <1>1, <1>2, <1>4, <1>5, <2>1, MovingIs DEF ResetAt
  <2>2. CASE tempList # <<>>
    BY <1>0, <1>1, <1>2, <1>4, <1>5, <2>2, MovingIs DEF ResetAt
  <2>3. QED BY <2>1, <2>2
<1>11. OpAt'
  BY <1>0, <1>1, MovingIs DEF OpAt, Removing, Taking
<1>12. QED BY <1>6, <1>7, <1>8, <1>9, <1>10, <1>11 DEF MapKeys, MapAt

\* A sequence without its first element.
LEMMA TailIs ==
    ASSUME NEW S, NEW s \in Seq(S), s # <<>>
    PROVE  /\ Len(s) \in Nat \ {0} /\ DOMAIN s = 1 .. Len(s) /\ DOMAIN Tail(s) = 1 .. Len(s) - 1
           /\ \A i \in DOMAIN Tail(s) : Tail(s)[i] = s[i + 1]
           /\ Head(s) = s[1] /\ s[1] \in S
  OBVIOUS

\* The next of what waits is put.
LEMMA PutBackKeys ==
    ASSUME MapCore, PutBack
    PROVE  MapKeys'
<1> DEFINE k0 == Head(tempList)[1]
           v0 == Head(tempList)[2]
<1>0. MapTypeOK /\ MapShape /\ mpc = "reput" /\ Intact
  BY DEF MapCore, PutBack, Intact
<1>1. /\ UNCHANGED <<key, value, next, live, listSize, size, length, temp, map, resizing, changed>>
      /\ mpc' = "put" /\ mkey' = k0 /\ mval' = v0 /\ tempList' = Tail(tempList)
  BY DEF PutBack, entryVars, tableVars
<1>2. /\ tempList \in Seq(Key \X Value) /\ tempList # <<>> /\ resizing /\ OneWaits
      /\ Waiting \cap Stored = {} /\ changed \in Key
  BY <1>0 DEF MapCore, MapAt, ResetAt, OpAt, MapTypeOK
<1>3. /\ DOMAIN tempList = 1 .. Len(tempList) /\ DOMAIN tempList' = 1 .. Len(tempList) - 1
      /\ Len(tempList) \in Nat \ {0}
      /\ \A i \in DOMAIN tempList' : tempList'[i] = tempList[i + 1]
      /\ tempList[1] = <<k0, v0>> /\ k0 \in Key /\ v0 \in Value
  BY <1>1, <1>2, TailIs
<1> HIDE DEF k0, v0
<1>4. /\ \A i \in DOMAIN tempList' : i + 1 \in DOMAIN tempList /\ i + 1 # 1
      /\ \A i \in DOMAIN tempList : i # 1 => i - 1 \in DOMAIN tempList' /\ (i - 1) + 1 = i
      /\ \A i, j \in DOMAIN tempList' : i + 1 = j + 1 => i = j
      /\ 1 \in DOMAIN tempList
  BY <1>3
<1>5. /\ \A k, v : k # k0 => (WaitsFor(k, v)' <=> WaitsFor(k, v))
      /\ WaitsFor(k0, v0) /\ k0 \in Waiting
  <2>1. ASSUME NEW k, NEW v, k # k0, WaitsFor(k, v) PROVE WaitsFor(k, v)'
    <3>1. PICK i \in DOMAIN tempList : tempList[i] = <<k, v>>
      BY <2>1 DEF WaitsFor
    <3>2. i # 1
      BY <1>3, <2>1, <3>1
    <3>3. i - 1 \in DOMAIN tempList' /\ tempList'[i - 1] = <<k, v>>
      BY <1>3, <1>4, <3>1, <3>2
    <3>4. QED BY <3>3 DEF WaitsFor
  <2>2. ASSUME NEW k, NEW v, WaitsFor(k, v)' PROVE WaitsFor(k, v)
    BY <1>3, <1>4, <2>2 DEF WaitsFor
  <2>3. WaitsFor(k0, v0)
    BY <1>3, <1>4 DEF WaitsFor
  <2>4. k0 \in Waiting
    <3>1. tempList[1][1] = k0
      BY <1>3
    <3>2. QED BY <1>4, <3>1 DEF Waiting
  <2>5. QED BY <2>1, <2>2, <2>3, <2>4
<1>6. OneWaits' /\ Waiting' \subseteq Waiting /\ k0 \notin Waiting'
  <2>1. OneWaits'
    BY <1>2, <1>3, <1>4 DEF OneWaits
  <2>2. Waiting' \subseteq Waiting
    BY <1>3, <1>4 DEF Waiting
  <2>3. \A i \in DOMAIN tempList' : tempList'[i][1] # k0
    BY <1>2, <1>3, <1>4 DEF OneWaits
  <2>4. QED BY <2>1, <2>2, <2>3 DEF Waiting
<1>7. Filled' = Filled
  BY <1>0, <1>1 DEF Filled, Linked, Nodes, Places
<1>8. Stored' = Stored /\ \A k, v : Has(k, v)' <=> Has(k, v)
  BY <1>1, <1>7, Same
<1>9. Intact' /\ Busy = {} /\ Busy' = {k0} /\ Mapped' = Mapped /\ CountedKeys' = CountedKeys
  BY <1>0, <1>1, <1>8, SameMap DEF Intact, Busy, CountedKeys
<1>10. OthersKept'
  BY <1>0, <1>1, <1>5, <1>8, <1>9 DEF MapCore, OthersKept
<1>11. Exact'
  BY <1>0, <1>1, <1>8, <1>9 DEF MapCore, Exact
<1>12. Room'
  BY <1>0, <1>1, <1>2, <1>9 DEF MapCore, Room
<1>13. PutAt'
  <2>1. map[k0] = v0
    BY <1>3, <1>5, <1>9 DEF MapCore, OthersKept
  <2>2. k0 \notin Stored
    BY <1>2, <1>5
  <2>3. QED BY <1>1, <1>3, <1>6, <1>8, <2>1, <2>2 DEF PutAt, Putting
<1>14. TakeAt' /\ OpAt'
  BY <1>1, <1>2 DEF TakeAt, OpAt, Taking, Removing
<1>15. ResetAt'
  BY <1>1, <1>2, <1>6, <1>8, <1>9 DEF ResetAt, Putting
<1>16. QED BY <1>10, <1>11, <1>12, <1>13, <1>14, <1>15 DEF MapKeys, MapAt

\* While only a put of another key overlaps with a lookup.
Quiet == /\ rkey \in Key /\ ~resizing /\ mpc \in (Putting \cup {"idle", "grow", "copy_grow"})
         /\ mpc # "idle" => changed # rkey

\* The entries have the key of such a lookup if the map has.
LEMMA QuietIs ==
    ASSUME MapCore, Quiet
    PROVE  /\ MapTypeOK /\ MapShape /\ Intact /\ Nodes = live /\ length = listSize
           /\ Filled = Keyed /\ rkey \notin Busy
           /\ mpc \in Putting => mkey # rkey
           /\ \A v \in Value : map[rkey] = v <=> Has(rkey, v)
<1>1. /\ MapTypeOK /\ MapShape /\ Intact /\ Nodes = live /\ tempList = <<>> /\ length = listSize
      /\ Filled = Keyed
  BY DEF MapCore, MapAt, ResetAt, Room, Quiet, Intact, Nodes, Putting, Filled, Keyed
<1>2. mpc \in Putting => mkey # rkey
  BY DEF MapCore, MapAt, OpAt, Quiet, Putting
<1>3. rkey \notin Busy
  BY <1>2 DEF Busy, Quiet, Putting
<1>4. \A v : ~WaitsFor(rkey, v)
  BY <1>1 DEF WaitsFor
<1>5. QED BY <1>1, <1>2, <1>3, <1>4 DEF MapCore, OthersKept, Quiet

\* The entry of the key has its value.
LEMMA ReaderSees ==
    ASSUME MapCore, Quiet, NEW e \in Linked, key[e] = rkey
    PROVE  map[rkey] = value[e] /\ map[rkey] # NULL
<1>1. rkey \in Key /\ rkey # NULL
  BY NullAssumption DEF Quiet
<1>2. ~ (mpc = "put_value" /\ e = Bucket(mkey))
  BY QuietIs DEF MapCore, MapAt, PutAt, Putting
<1>3. value[e] # NULL /\ e \in Entry
  BY <1>1, <1>2, QuietIs, Cells DEF MapShape, Valued
<1>4. value[e] \in Value
  BY <1>3, QuietIs DEF MapTypeOK
<1>5. Has(rkey, value[e])
  BY <1>1, QuietIs DEF Has, Keyed
<1>6. QED BY <1>3, <1>4, <1>5, QuietIs

\* A key that the map has is on the chain of its bucket.
LEMMA ReaderFinds ==
    ASSUME MapCore, Quiet, map[rkey] # NULL
    PROVE  /\ \E e \in Linked : key[e] = rkey /\ Ahead(Bucket(rkey), e)
           /\ key[Bucket(rkey)] # NULL
<1> DEFINE c == Bucket(rkey)
<1>1. MapTypeOK /\ MapShape /\ Intact /\ rkey \in Key /\ rkey # NULL
  BY QuietIs, NullAssumption DEF Quiet
<1>2. map[rkey] \in Value
  BY <1>1 DEF MapTypeOK
<1>3. PICK e \in Filled : key[e] = rkey
  BY <1>2, QuietIs DEF Has
<1>4. e \in Linked
  BY DEF Filled
<1>5. Ahead(c, e)
  BY <1>1, <1>3, <1>4, Reach
<1>6. key[c] # NULL
  <2>1. SUFFICES ASSUME key[c] = NULL PROVE FALSE
    OBVIOUS
  <2>2. c \in Places /\ c \in Linked
    BY <1>1, Cells
  <2>3. next[c] = NULL
    BY <1>1, <2>1, <2>2 DEF MapShape, Sorted
  <2>4. e \in {c}
    BY <1>5, <2>2, <2>3 DEF Ahead
  <2>5. QED BY <1>1, <1>3, <2>1, <2>4
<1>7. QED BY <1>3, <1>4, <1>5, <1>6

\* What the reader is at is linked, and may be read.
LEMMA ReaderReads ==
    ASSUME MapCore, Quiet, Points
    PROVE  ptr \in Linked /\ Valid
<1>1. Places \cap Node = {} /\ Nodes = live /\ length = listSize /\ live \subseteq Node
  <2>1. Places \subseteq Cell
    BY QuietIs, Cells
  <2>2. QED BY <2>1, QuietIs, NodeAssumption DEF MapTypeOK
<1>2. CASE ptr \in live
  BY <1>1, <1>2 DEF Linked, Valid
<1>3. CASE ptr \in Places /\ block = hash_list
  <2>1. ptr < listSize
    <3>1. listSize \in Nat
      BY QuietIs, Cells
    <3>2. QED BY <1>3, <3>1 DEF Places
  <2>2. QED BY <1>1, <1>3, <2>1 DEF Linked, Valid
<1>4. QED BY <1>2, <1>3 DEF Points

\* What follows from ReaderAt for a lookup under way.
ReaderIs == /\ rpc # "crashed"
            /\ rpc = "exists_first" => Points /\ ptr = Bucket(rkey)
            /\ rpc \in {"exists_walk", "get_walk"} =>
                  /\ Points /\ key[ptr] # NULL
                  /\ map[rkey] # NULL => \E e \in Linked : key[e] = rkey /\ Ahead(ptr, e)
            /\ rpc \in {"get", "get_walk"} => map[rkey] # NULL
            /\ rpc = "get_value" => Points /\ key[ptr] = rkey
            /\ rpc = "done" => ret = map[rkey]

\* ReaderAt in these terms.
LEMMA ReaderSplit == ReaderAt <=> (rpc # "idle" => rkey \in Key /\ (Sound => Quiet /\ ReaderIs))
  BY DEF ReaderAt, Quiet, ReaderIs

LEMMA ReaderSplitNext ==
    ReaderAt' <=> (rpc' # "idle" => rkey' \in Key /\ (Sound' => Quiet' /\ ReaderIs'))
  BY DEF ReaderAt, Quiet, ReaderIs

-----------------------------------------------------------------------------
(* The steps of the modifier keep what a lookup relies on.                 *)

\* A step that leaves what a lookup relies on.
LEMMA ReaderKept ==
    ASSUME MapCore, ReaderAt, UNCHANGED <<rpc, rkey, ret, block, ptr>>,
           rpc # "idle" /\ Sound' =>
              /\ Sound /\ Quiet' /\ map'[rkey] = map[rkey]
              /\ UNCHANGED <<listSize, hash_list>> /\ live \subseteq live' /\ Linked \subseteq Linked'
              /\ \A e \in Linked : /\ key[e] # NULL => key'[e] # NULL
                                   /\ key[e] = rkey => key'[e] = rkey
              /\ \A p, e \in Linked : Ahead(p, e) => Ahead(p, e)'
    PROVE  ReaderAt'
<1>1. SUFFICES ASSUME rpc # "idle", Sound' PROVE Quiet' /\ ReaderIs'
  BY ReaderSplit, ReaderSplitNext
<1>2. Quiet /\ ReaderIs /\ Quiet'
  BY <1>1, ReaderSplit
<1>3. Places' = Places /\ \A k : Bucket(k)' = Bucket(k)
  BY <1>1 DEF Places, Bucket
<1>4. Points => Points' /\ ptr \in Linked
  BY <1>1, <1>2, <1>3, ReaderReads DEF Points
<1>5. rpc' = "exists_first" => Points' /\ ptr' = Bucket(rkey)'
  BY <1>2, <1>3, <1>4 DEF ReaderIs
<1>6. ASSUME rpc \in {"exists_walk", "get_walk"}
      PROVE  /\ Points' /\ key'[ptr] # NULL
             /\ map'[rkey] # NULL => \E e \in Linked' : key'[e] = rkey /\ Ahead(ptr, e)'
  <2>1. Points' /\ ptr \in Linked /\ key'[ptr] # NULL
    BY <1>1, <1>2, <1>4, <1>6 DEF ReaderIs
  <2>2. ASSUME map'[rkey] # NULL PROVE \E e \in Linked' : key'[e] = rkey /\ Ahead(ptr, e)'
    <3>1. PICK e \in Linked : key[e] = rkey /\ Ahead(ptr, e)
      BY <1>1, <1>2, <1>6, <2>2 DEF ReaderIs
    <3>2. PICK p \in Linked : p = ptr
      BY <2>1
    <3>3. Ahead(p, e)'
      BY <1>1, <3>1, <3>2
    <3>4. Ahead(ptr, e)'
      BY <3>2, <3>3 DEF Ahead
    <3>5. QED BY <1>1, <3>1, <3>4
  <2>3. QED BY <2>1, <2>2
<1>7. rpc \in {"get", "get_walk"} => map'[rkey] # NULL
  BY <1>1, <1>2 DEF ReaderIs
<1>8. rpc = "get_value" => Points' /\ key'[ptr] = rkey
  BY <1>1, <1>2, <1>4 DEF ReaderIs
<1>9. rpc = "done" => ret = map'[rkey]
  BY <1>1, <1>2 DEF ReaderIs
<1>10. rpc # "crashed"
  BY <1>2 DEF ReaderIs
<1>11. QED BY <1>2, <1>5, <1>6, <1>7, <1>8, <1>9, <1>10 DEF ReaderIs

\* A step that leaves the links leaves the order of a chain.
LEMMA AheadSame ==
    ASSUME Linked' = Linked, next' = next
    PROVE  \A p, e : Ahead(p, e)' <=> Ahead(p, e)
  BY DEF Ahead

\* A step of a put of another key, but for the one that links a node in.
LEMMA ReaderWaits ==
    ASSUME MapCore, ReaderAt, UNCHANGED readVars, UNCHANGED <<next, live, hash_list, listSize, map>>,
           rpc # "idle" /\ Sound =>
              /\ ~resizing' /\ mpc' \in Putting \cup {"idle", "grow", "copy_grow"}
              /\ mpc' # "idle" => changed' = changed /\ mpc # "idle"
              /\ \A e \in Linked : /\ key[e] # NULL => key'[e] # NULL
                                   /\ key[e] = rkey => key'[e] = rkey
    PROVE  ReaderAt'
<1>1. UNCHANGED <<rpc, rkey, ret, block, ptr, overlap>> /\ (Sound' <=> Sound)
  BY DEF readVars, Sound
<1>2. ASSUME rpc # "idle", Sound
      PROVE  /\ Quiet' /\ Linked' = Linked /\ \A p, e : Ahead(p, e)' <=> Ahead(p, e)
  <2>1. Quiet
    BY <1>2, ReaderSplit
  <2>2. Quiet'
    BY <1>1, <1>2, <2>1 DEF Quiet
  <2>3. Linked' = Linked
    BY <2>1, <2>2 DEF Quiet, Linked, Nodes, Places, Putting
  <2>4. QED BY <2>2, <2>3, AheadSame
<1>3. QED BY <1>1, <1>2, ReaderKept

\* A put that begins, of another key.
LEMMA ReaderBegin ==
    ASSUME MapCore, ReaderAt, NEW k \in Key, NEW v \in Value \cup {NULL}, NEW place \in {"put", "remove"},
           Begin(place, k, v)
    PROVE  ReaderAt'
<1>1. /\ UNCHANGED <<rpc, rkey, ret, block, ptr, key, next, live, hash_list, listSize, resizing>>
      /\ mpc = "idle" /\ mpc' = place /\ changed' = k /\ map' = [map EXCEPT ![k] = v]
  BY DEF Begin, entryVars, tableVars
<1>2. ASSUME rpc # "idle", Sound'
      PROVE  Sound /\ place = "put" /\ k # rkey
  <2> DEFINE x == IF k = rkey THEN "same" ELSE IF place = "put" THEN "put" ELSE "move"
  <2>1. overlap' = Worse(overlap, x)
    BY <1>2 DEF Begin
  <2>2. x \in Range(Grade) /\ overlap \in Range(Grade)
    BY GradeType DEF MapCore, MapTypeOK
  <2>3. x \in {"none", "put"} <=> k # rkey /\ place = "put"
    OBVIOUS
  <2> HIDE DEF x
  <2>4. overlap \in {"none", "put"} /\ x \in {"none", "put"}
    BY <1>2, <2>1, <2>2, GradeType DEF Sound
  <2>5. QED BY <2>3, <2>4 DEF Sound
<1>3. ASSUME rpc # "idle", Sound'
      PROVE  /\ Quiet' /\ map'[rkey] = map[rkey] /\ Linked' = Linked
             /\ \A p, e : Ahead(p, e)' <=> Ahead(p, e)
  <2>1. Quiet /\ place = "put" /\ k # rkey
    BY <1>2, <1>3, ReaderSplit
  <2>2. Quiet'
    BY <1>1, <2>1 DEF Quiet, Putting
  <2>3. map'[rkey] = map[rkey]
    BY <1>1, <2>1 DEF MapCore, MapTypeOK, Quiet
  <2>4. Linked' = Linked
    BY <1>1, <2>1 DEF Linked, Nodes, Places
  <2>5. QED BY <1>1, <2>2, <2>3, <2>4, AheadSame
<1>4. QED BY <1>1, <1>2, <1>3, ReaderKept

\* The steps of a put, but for PutNode.
LEMMA ReaderPutFirst == ASSUME MapCore, ReaderAt, PutFirst PROVE ReaderAt'
<1>1. UNCHANGED readVars /\ UNCHANGED <<key, next, live, hash_list, listSize, map>> /\ mpc = "put"
  BY DEF PutFirst, entryVars
<1>2. mpc' = "put_key" /\ resizing' = resizing /\ changed' = changed
  BY ToIs DEF MapCore, PutFirst, Place
<1>3. rpc # "idle" /\ Sound => ~resizing
  BY DEF ReaderAt
<1>4. QED BY <1>1, <1>2, <1>3, ReaderWaits DEF Putting

LEMMA ReaderPutKey == ASSUME MapCore, ReaderAt, PutKey PROVE ReaderAt'
<1> DEFINE c == Bucket(mkey)
<1>1. /\ UNCHANGED readVars /\ UNCHANGED <<next, live, hash_list, listSize, map>> /\ mpc = "put_key"
      /\ key' = [key EXCEPT ![c] = mkey]
  BY DEF PutKey, tableVars
<1>2. mpc' = "put_value" /\ resizing' = resizing /\ changed' = changed
  BY ToIs DEF MapCore, PutKey, Place
<1>3. rpc # "idle" /\ Sound => ~resizing /\ rkey \in Key
  BY DEF ReaderAt
<1>4. mkey \in Key /\ key[c] = NULL
  BY <1>1 DEF MapCore, MapAt, PutAt, Putting
<1>5. ASSUME NEW e \in Linked, rkey \in Key
      PROVE  /\ key[e] # NULL => key'[e] # NULL
             /\ key[e] = rkey => key'[e] = rkey
  <2>1. e \in Entry /\ key \in [Entry -> Key \cup {NULL}]
    BY Cells DEF MapCore, MapTypeOK
  <2>2. CASE e = c
    BY <1>4, <1>5, <2>2, NullAssumption
  <2>3. CASE e # c
    BY <1>1, <2>1, <2>3
  <2>4. QED BY <2>2, <2>3
<1>6. QED BY <1>1, <1>2, <1>3, <1>5, ReaderWaits DEF Putting

LEMMA ReaderPutValue == ASSUME MapCore, ReaderAt, PutValue PROVE ReaderAt'
<1>1. UNCHANGED readVars /\ UNCHANGED <<key, next, live, hash_list, listSize, map>> /\ mpc = "put_value"
  BY DEF PutValue, tableVars
<1>2. mpc' = "grow" /\ resizing' = resizing /\ changed' = changed
  BY ToIs DEF MapCore, PutValue, Place
<1>3. rpc # "idle" /\ Sound => ~resizing
  BY DEF ReaderAt
<1>4. QED BY <1>1, <1>2, <1>3, ReaderWaits DEF Putting

LEMMA ReaderPutOver == ASSUME MapCore, ReaderAt, PutOver PROVE ReaderAt'
<1>1. /\ UNCHANGED readVars /\ UNCHANGED <<key, next, live, hash_list, listSize, map>> /\ mpc = "put"
      /\ To(PutDone)
  BY DEF PutOver, tableVars
<1>2. ASSUME rpc # "idle", Sound
      PROVE  mpc' = "idle" /\ ~resizing'
  <2>1. ~resizing /\ tempList = <<>>
    BY <1>2 DEF ReaderAt, MapCore, MapAt, ResetAt
  <2>2. To("idle")
    BY <1>1, <2>1 DEF PutDone
  <2>3. QED BY <2>2, ToIs DEF MapCore, Place
<1>3. QED BY <1>1, <1>2, ReaderWaits

LEMMA ReaderGrow == ASSUME MapCore, ReaderAt, Grow PROVE ReaderAt'
<1>1. UNCHANGED readVars /\ UNCHANGED <<key, next, live, hash_list, listSize, map>> /\ mpc = "grow"
  BY DEF Grow, entryVars, tableVars
<1>2. ASSUME rpc # "idle", Sound
      PROVE  mpc' \in {"idle", "copy_grow"} /\ ~resizing' /\ (mpc' # "idle" => changed' = changed)
  <2>1. ~resizing /\ tempList = <<>>
    BY <1>2 DEF ReaderAt, MapCore, MapAt, ResetAt
  <2>2. To(IF size < listSize THEN "idle" ELSE "copy_grow")
    BY <2>1 DEF Grow, PutDone
  <2>3. PICK p \in Place : p = (IF size < listSize THEN "idle" ELSE "copy_grow")
    BY DEF Place
  <2>4. p \in {"idle", "copy_grow"} /\ To(p)
    BY <2>2, <2>3
  <2>5. QED BY <2>1, <2>4, ToIs DEF MapCore
<1>3. QED BY <1>1, <1>2, ReaderWaits

\* The node that is linked in is off the way to the entries behind it.
LEMMA ReaderPutNode == ASSUME MapCore, ReaderAt, PutNode PROVE ReaderAt'
<1> DEFINE c == Bucket(mkey)
<1>1. /\ UNCHANGED readVars /\ UNCHANGED <<hash_list, listSize, map>> /\ mpc = "put" /\ size' = size + 1
      /\ key[c] # NULL
  BY DEF PutNode
<1>2. mpc' = "grow" /\ resizing' = resizing /\ changed' = changed
  BY ToIs DEF MapCore, PutNode, Place
<1>3. PICK n : PutsNode(n)
  BY DEF PutNode, PutsNode
<1>4. /\ Linked' = Linked \cup {n} /\ n \notin Linked
      /\ \A e \in Linked : key'[e] = key[e]
      /\ next'[n] = next[c] /\ next'[c] = n
      /\ \A e \in Linked : e # c => next'[e] = next[e]
  BY <1>1, <1>2, <1>3, PutsNew, PutNodeIs
<1>5. n # NULL /\ live' = live \cup {n} /\ NULL \notin Linked
  <2>1. n \in Node
    BY <1>3 DEF PutsNode
  <2>2. QED BY <1>3, <2>1, Cells DEF MapCore, PutsNode
<1>6. /\ \A e \in Linked : next[e] # NULL => next[e] \in Linked
      /\ c \in Linked
  BY PutsNew, FirstCell DEF MapCore, MapShape, Chained, Linked
<1>7. Sound' <=> Sound
  BY <1>1 DEF readVars, Sound
<1> HIDE DEF c
<1>8. ASSUME NEW p \in Linked, NEW e \in Linked, Ahead(p, e) PROVE Ahead(p, e)'
  <2>1. SUFFICES ASSUME NEW set \in SUBSET Linked', p \in set,
                        \A f \in set : next'[f] # NULL => next'[f] \in set
                 PROVE  e \in set
    BY DEF Ahead
  <2>2. ASSUME NEW f \in set \ {n}, next[f] # NULL PROVE next[f] \in set \ {n}
    <3>1. f \in Linked /\ next[f] # n
      BY <1>4, <1>6, <2>2
    <3>2. CASE f = c
      BY <1>4, <1>5, <2>1, <2>2, <3>1, <3>2
    <3>3. CASE f # c
      BY <1>4, <2>1, <2>2, <3>1, <3>3
    <3>4. QED BY <3>2, <3>3
  <2>3. set \ {n} \in SUBSET Linked /\ p \in set \ {n}
    BY <1>4, <2>1
  <2>4. e \in set \ {n}
    BY <1>8, <2>2, <2>3 DEF Ahead
  <2>5. QED BY <2>4
<1>9. ASSUME rpc # "idle", Sound PROVE Quiet'
  <2>1. Quiet
    BY <1>9, ReaderSplit
  <2>2. QED BY <1>1, <1>2, <2>1 DEF Quiet, readVars
<1>10. UNCHANGED <<rpc, rkey, ret, block, ptr>>
  BY <1>1 DEF readVars
<1>11. QED BY <1>1, <1>4, <1>5, <1>7, <1>8, <1>9, <1>10, ReaderKept

\* Removals and resizing do not overlap with such a lookup.
LEMMA ReaderOut ==
    ASSUME MapCore, ReaderAt, \/ DropFirst \/ TakeKey \/ TakeValue \/ TakeNext \/ Unlink \/ FreeNode
                              \/ Shrink \/ Realloc \/ ClearCells \/ PutBack \/ Copy
    PROVE  ReaderAt'
<1>1. UNCHANGED <<rpc, rkey, ret, block, ptr>>
  BY DEF DropFirst, TakeKey, TakeValue, TakeNext, Unlink, FreeNode, Shrink, Realloc, ClearCells,
         PutBack, Copy, readVars
<1>2. CASE Copy
  <2>1. ASSUME rpc # "idle" PROVE ~Sound'
    <3>1. overlap' = Worse(overlap, "move")
      BY <1>2, <2>1 DEF Copy
    <3>2. overlap \in Range(Grade) /\ "move" \in Range(Grade)
      BY GradeType DEF MapCore, MapTypeOK
    <3>3. QED BY <3>1, <3>2, GradeType DEF Sound
  <2>2. QED BY <1>1, <2>1, ReaderKept
<1>3. CASE ~Copy
  <2>1. overlap' = overlap
    BY <1>3 DEF DropFirst, TakeKey, TakeValue, TakeNext, Unlink, FreeNode, Shrink, Realloc, ClearCells,
                PutBack, readVars
  <2>2. mpc \notin Putting \cup {"idle", "grow", "copy_grow"}
    BY <1>3 DEF DropFirst, TakeKey, TakeValue, TakeNext, Unlink, FreeNode, Shrink, Realloc, ClearCells,
                PutBack, Putting
  <2>3. ASSUME rpc # "idle" PROVE ~Sound'
    BY <2>1, <2>2, <2>3, ReaderSplit DEF Quiet, Sound
  <2>4. QED BY <1>1, <2>3, ReaderKept
<1>4. QED BY <1>2, <1>3

-----------------------------------------------------------------------------
(* The steps of the reader keep it too.                                    *)

\* The steps of the reader keep the types, and leave the map.
LEMMA ReadTypes ==
    ASSUME MapCore, ReaderAt, Read
    PROVE  MapTypeOK'
<1>0. MapTypeOK /\ UNCHANGED others
  BY DEF MapCore, Read, StartGet, FirstEntry, ExistsFirst, Found, Step, GetValue, FinishGet, Crash
<1>1. EntryType' /\ TableType' /\ OpType' /\ RestType'
  BY <1>0, Types DEF others, entryVars, tableVars, opVars, EntryType, TableType, OpType, RestType
<1>2. ReadType /\ {"none", "same", "put", "move"} \subseteq Range(Grade)
  BY <1>0, Types, GradeType
<1>3. ReadType'
  <2>1. CASE StartGet
    BY <1>2, <2>1 DEF StartGet, ReadType
  <2>2. CASE FirstEntry
    <3>1. rkey \in Key
      BY <2>2 DEF FirstEntry, ReaderAt
    <3>2. Bucket(rkey) \in Entry
      BY <1>0, <3>1, Cells DEF Entry
    <3>3. hash_list \in Block
      BY <1>0 DEF MapTypeOK
    <3>4. QED BY <1>2, <2>2, <3>2, <3>3 DEF FirstEntry, ReadType
  <2>3. CASE ExistsFirst
    BY <1>2, <2>3 DEF ExistsFirst, Return, ReadType
  <2>4. CASE Found
    BY <1>2, <2>4 DEF Found, ReadType
  <2>5. CASE Step
    <3>1. next[ptr] # NULL => next[ptr] \in Entry
      BY <1>0 DEF MapTypeOK, Entry
    <3>2. QED BY <1>2, <2>5, <3>1 DEF Step, Return, ReadType
  <2>6. CASE GetValue
    <3>1. value[ptr] \in Value \cup {NULL}
      BY <1>0 DEF MapTypeOK
    <3>2. QED BY <1>2, <2>6, <3>1 DEF GetValue, Return, ReadType
  <2>7. CASE FinishGet
    <3>1. 0 \in Entry
      BY SizeAssumption DEF Entry, Cell
    <3>2. QED BY <1>2, <2>7, <3>1 DEF FinishGet, ReadType, Block
  <2>8. CASE Crash
    BY <1>2, <2>8 DEF Crash, ReadType
  <2>9. QED BY <2>1, <2>2, <2>3, <2>4, <2>5, <2>6, <2>7, <2>8 DEF Read
<1>4. QED BY <1>1, <1>3, TypesNext

\* A step that leaves the map alone.
LEMMA CoreSame ==
    ASSUME MapCore, UNCHANGED others, MapTypeOK'
    PROVE  MapCore'
<1>1. UNCHANGED <<key, value, next, live, hash_list, length, listSize, size, mpc, mkey, mval, changed,
                  resizing, temp, tempList, map>>
  BY DEF others, entryVars, tableVars, opVars
<1>2. /\ Places' = Places /\ Nodes' = Nodes /\ Linked' = Linked /\ (Intact' <=> Intact)
      /\ \A k : Bucket(k)' = Bucket(k)
  BY <1>1 DEF Places, Nodes, Linked, Intact, Bucket
<1>3. Filled' = Filled
  BY <1>1, <1>2 DEF Filled
<1>4. /\ Stored' = Stored /\ (\A k, v : Has(k, v)' <=> Has(k, v)) /\ Mapped' = Mapped
      /\ Waiting' = Waiting /\ (OneWaits' <=> OneWaits) /\ (\A k, v : WaitsFor(k, v)' <=> WaitsFor(k, v))
  BY <1>1, <1>3, Same, SameWaits, SameMap
<1>5. Busy' = Busy /\ CountedKeys' = CountedKeys
  BY <1>1, <1>2, <1>4 DEF Busy, CountedKeys
<1>6. MapShape'
  <2>1. Sorted => Sorted'
    BY <1>1, <1>2 DEF Sorted, Bucket
  <2>2. OneEntry => OneEntry'
    BY <1>1, <1>3 DEF OneEntry
  <2>3. Valued => Valued'
    BY <1>1, <1>2 DEF Valued, Bucket
  <2>4. Chained(Places, Nodes, next) => Chained(Places', Nodes', next')
    BY <1>1, <1>2
  <2>5. QED BY <1>2, <2>1, <2>2, <2>3, <2>4 DEF MapCore, MapShape
<1>7. OthersKept'
  BY <1>1, <1>2, <1>4, <1>5 DEF MapCore, OthersKept
<1>8. Exact' /\ Room'
  BY <1>1, <1>2, <1>4, <1>5 DEF MapCore, Exact, Room
<1>9. PutAt' /\ TakeAt'
  BY <1>1, <1>4 DEF MapCore, MapAt, PutAt, TakeAt, Bucket
<1>10. ResetAt' /\ OpAt'
  BY <1>1, <1>2, <1>4 DEF MapCore, MapAt, ResetAt, OpAt
<1>11. QED BY <1>6, <1>7, <1>8, <1>9, <1>10 DEF MapCore, MapAt

LEMMA ReadCore ==
    ASSUME MapCore, ReaderAt, Read
    PROVE  MapCore'
<1>1. UNCHANGED others
  BY DEF Read, StartGet, FirstEntry, ExistsFirst, Found, Step, GetValue, FinishGet, Crash
<1>2. QED BY <1>1, CoreSame, ReadTypes

\* What the reader relies on besides where it is stays.
LEMMA ReadLeaves ==
    ASSUME UNCHANGED others
    PROVE  /\ UNCHANGED <<key, value, next, live, hash_list, listSize, length, map>>
           /\ Linked' = Linked /\ Places' = Places /\ \A k : Bucket(k)' = Bucket(k)
           /\ \A p, e : Ahead(p, e)' <=> Ahead(p, e)
           /\ rkey' = rkey => (Quiet' <=> Quiet)
<1>1. UNCHANGED <<key, value, next, live, hash_list, length, listSize, size, mpc, mkey, mval, changed,
                  resizing, temp, tempList, map>>
  BY DEF others, entryVars, tableVars, opVars
<1>2. Places' = Places /\ Nodes' = Nodes /\ Linked' = Linked /\ \A k : Bucket(k)' = Bucket(k)
  BY <1>1 DEF Places, Nodes, Linked, Bucket
<1>3. QED BY <1>1, <1>2, AheadSame DEF Quiet

\* A lookup starts, of a key that no modification under way is about.
LEMMA StartGetReads == ASSUME MapCore, StartGet PROVE ReaderAt'
<1>1. PICK k \in Key :
          /\ rkey' = k
          /\ overlap' = IF mpc = "idle" THEN "none"
                        ELSE IF k = changed THEN "same"
                        ELSE IF map[changed] # NULL /\ ~resizing THEN "put"
                        ELSE "move"
  BY DEF StartGet
<1>2. rpc' = "exists" /\ UNCHANGED <<mpc, changed, resizing>>
  BY DEF StartGet, others, opVars
<1>3. ASSUME Sound' PROVE Quiet'
  <2>1. CASE mpc = "idle"
    BY <1>1, <1>2, <2>1 DEF Quiet, MapCore, MapAt, ResetAt, Putting
  <2>2. CASE mpc # "idle"
    <3>1. k # changed /\ map[changed] # NULL /\ ~resizing
      BY <1>1, <1>3, <2>2 DEF Sound
    <3>2. mpc \notin Removing /\ mpc \notin {"realloc", "clear", "reput"} /\ mpc \in Place
      BY <2>2, <3>1 DEF MapCore, MapAt, OpAt, ResetAt, MapTypeOK
    <3>3. mpc \in Putting \cup {"idle", "grow", "copy_grow"}
      BY <3>2 DEF Place, Removing, Taking, Putting
    <3>4. QED BY <1>1, <1>2, <3>1, <3>3 DEF Quiet
  <2>3. QED BY <2>1, <2>2
<1>4. ReaderIs'
  BY <1>2 DEF ReaderIs
<1>5. QED BY <1>1, <1>3, <1>4, ReaderSplitNext

\* It starts at the first entry of its bucket, which the entry of its key is behind.
LEMMA FirstEntryReads == ASSUME MapCore, ReaderAt, FirstEntry PROVE ReaderAt'
<1>1. /\ rpc \in {"exists", "get"} /\ rpc' = IF rpc = "exists" THEN "exists_first" ELSE "get_walk"
      /\ block' = hash_list /\ ptr' = Bucket(rkey) /\ rkey' = rkey /\ overlap' = overlap /\ UNCHANGED others
  BY DEF FirstEntry
<1>2. rkey' \in Key
  BY <1>1 DEF ReaderAt
<1>3. SUFFICES ASSUME Sound' PROVE Quiet' /\ ReaderIs'
  BY <1>2, ReaderSplitNext
<1>4. Quiet /\ ReaderIs /\ Quiet'
  BY <1>1, <1>3, ReaderSplit, ReadLeaves DEF Sound
<1>5. Points' /\ ptr' = Bucket(rkey)'
  <2>1. ptr' \in Places /\ Places' = Places /\ hash_list' = hash_list /\ Bucket(rkey)' = Bucket(rkey)
    BY <1>1, <1>4, QuietIs, Cells, ReadLeaves DEF Quiet, Bucket
  <2>2. QED BY <1>1, <2>1 DEF Points
<1>6. ASSUME rpc = "get"
      PROVE  /\ map'[rkey] # NULL /\ key'[ptr'] # NULL
             /\ \E e \in Linked' : key'[e] = rkey /\ Ahead(ptr, e)'
  <2>1. map[rkey] # NULL
    BY <1>4, <1>6 DEF ReaderIs
  <2>2. PICK e \in Linked : key[e] = rkey /\ Ahead(Bucket(rkey), e)
    BY <1>4, <2>1, ReaderFinds
  <2>3. PICK p : p = Bucket(rkey)
    OBVIOUS
  <2>4. Ahead(p, e)'
    BY <1>1, <2>2, <2>3, ReadLeaves
  <2>5. Ahead(ptr, e)'
    BY <1>1, <2>3, <2>4 DEF Ahead
  <2>6. key[Bucket(rkey)] # NULL
    BY <1>4, <2>1, ReaderFinds
  <2>7. QED BY <1>1, <2>1, <2>2, <2>5, <2>6, ReadLeaves
<1>7. QED BY <1>1, <1>4, <1>5, <1>6 DEF ReaderIs

\* An empty first entry means that the map has not the key.
LEMMA ExistsFirstReads == ASSUME MapCore, ReaderAt, ExistsFirst PROVE ReaderAt'
<1>1. /\ rpc = "exists_first" /\ UNCHANGED <<rkey, block, ptr, overlap>> /\ UNCHANGED others
      /\ IF key[ptr] = NULL THEN rpc' = "done" /\ ret' = NULL ELSE rpc' = "exists_walk"
  BY DEF ExistsFirst, Return
<1>2. rkey' \in Key
  BY <1>1 DEF ReaderAt
<1>3. SUFFICES ASSUME Sound' PROVE Quiet' /\ ReaderIs'
  BY <1>2, ReaderSplitNext
<1>4. Quiet /\ ReaderIs /\ Quiet'
  BY <1>1, <1>3, ReaderSplit, ReadLeaves DEF Sound
<1>5. Points' /\ ptr = Bucket(rkey)
  <2>1. Points /\ ptr = Bucket(rkey)
    BY <1>1, <1>4 DEF ReaderIs
  <2>2. QED BY <1>1, <2>1, ReadLeaves DEF Points
<1>6. CASE key[ptr] = NULL
  <2>1. map[rkey] = NULL
    BY <1>4, <1>5, <1>6, ReaderFinds
  <2>2. QED BY <1>1, <1>4, <1>6, <2>1, ReadLeaves DEF ReaderIs
<1>7. CASE key[ptr] # NULL
  <2>1. ASSUME map'[rkey'] # NULL PROVE \E e \in Linked' : key'[e] = rkey' /\ Ahead(ptr, e)'
    <3>1. map[rkey] # NULL
      BY <1>1, <2>1, ReadLeaves
    <3>2. PICK e \in Linked : key[e] = rkey /\ Ahead(Bucket(rkey), e)
      BY <1>4, <3>1, ReaderFinds
    <3>3. PICK p : p = Bucket(rkey)
      OBVIOUS
    <3>4. Ahead(p, e)'
      BY <1>1, <3>2, <3>3, ReadLeaves
    <3>5. Ahead(ptr, e)'
      BY <1>1, <1>5, <3>3, <3>4 DEF Ahead
    <3>6. QED BY <1>1, <3>2, <3>5, ReadLeaves
  <2>2. key'[ptr'] # NULL
    BY <1>1, <1>7, ReadLeaves
  <2>3. QED BY <1>1, <1>4, <1>5, <1>7, <2>1, <2>2 DEF ReaderIs
<1>8. QED BY <1>6, <1>7

\* The entry that has the key has it in the map too.
LEMMA FoundReads == ASSUME MapCore, ReaderAt, Found PROVE ReaderAt'
<1>1. /\ rpc \in {"exists_walk", "get_walk"} /\ UNCHANGED <<rkey, block, ptr, overlap>> /\ UNCHANGED others
      /\ rpc' = IF rpc = "exists_walk" THEN "get" ELSE "get_value"
      /\ key[ptr] = rkey
  BY DEF Found
<1>2. rkey' \in Key
  BY <1>1 DEF ReaderAt
<1>3. SUFFICES ASSUME Sound' PROVE Quiet' /\ ReaderIs'
  BY <1>2, ReaderSplitNext
<1>4. Quiet /\ ReaderIs /\ Quiet'
  BY <1>1, <1>3, ReaderSplit, ReadLeaves DEF Sound
<1>5. Points /\ ptr \in Linked
  BY <1>1, <1>4, ReaderReads DEF ReaderIs
<1>6. map'[rkey'] # NULL
  BY <1>1, <1>4, <1>5, ReaderSees, ReadLeaves
<1>7. Points' /\ key'[ptr'] = rkey'
  BY <1>1, <1>5, ReadLeaves DEF Points
<1>8. QED BY <1>1, <1>4, <1>6, <1>7 DEF ReaderIs

\* The entry of the key is not passed.
LEMMA StepReads == ASSUME MapCore, ReaderAt, Step PROVE ReaderAt'
<1>1. /\ rpc \in {"exists_walk", "get_walk"} /\ UNCHANGED <<rkey, block, overlap>> /\ UNCHANGED others
      /\ key[ptr] \notin {rkey, NULL}
      /\ IF next[ptr] = NULL THEN rpc' = "done" /\ ret' = NULL ELSE ptr' = next[ptr] /\ rpc' = rpc
  BY DEF Step, Return
<1>2. rkey' \in Key
  BY <1>1 DEF ReaderAt
<1>3. SUFFICES ASSUME Sound' PROVE Quiet' /\ ReaderIs'
  BY <1>2, ReaderSplitNext
<1>4. Quiet /\ ReaderIs /\ Quiet'
  BY <1>1, <1>3, ReaderSplit, ReadLeaves DEF Sound
<1>5. ptr \in Linked
  BY <1>1, <1>4, ReaderReads DEF ReaderIs
<1>6. CASE next[ptr] = NULL
  <2>1. map[rkey] = NULL
    <3>1. SUFFICES ASSUME map[rkey] # NULL PROVE FALSE
      OBVIOUS
    <3>2. PICK e \in Linked : key[e] = rkey /\ Ahead(ptr, e)
      BY <1>1, <1>4, <3>1 DEF ReaderIs
    <3>3. e \in {ptr}
      BY <1>5, <1>6, <3>2 DEF Ahead
    <3>4. QED BY <1>1, <3>2, <3>3
  <2>2. QED BY <1>1, <1>4, <1>6, <2>1, ReadLeaves DEF ReaderIs
<1>7. CASE next[ptr] # NULL
  <2> DEFINE q == next[ptr]
  <2>1. q \in Nodes /\ q \in Linked /\ key[q] # NULL
    BY <1>4, <1>5, <1>7, QuietIs, Second
  <2>2. Points'
    BY <1>1, <1>4, <1>7, <2>1, QuietIs, ReadLeaves DEF Points
  <2>3. key'[ptr'] # NULL
    BY <1>1, <1>7, <2>1, ReadLeaves
  <2>4. ASSUME map'[rkey'] # NULL PROVE \E e \in Linked' : key'[e] = rkey' /\ Ahead(ptr, e)'
    <3>1. map[rkey] # NULL
      BY <1>1, <2>4, ReadLeaves
    <3>2. PICK e \in Linked : key[e] = rkey /\ Ahead(ptr, e)
      BY <1>1, <1>4, <3>1 DEF ReaderIs
    <3>3. Ahead(q, e)
      <4>1. SUFFICES ASSUME NEW set \in SUBSET Linked, q \in set,
                            \A f \in set : next[f] # NULL => next[f] \in set
                     PROVE  e \in set
        BY DEF Ahead
      <4>2. /\ set \cup {ptr} \in SUBSET Linked
            /\ \A f \in set \cup {ptr} : next[f] # NULL => next[f] \in set \cup {ptr}
        BY <1>5, <4>1
      <4>3. e \in set \cup {ptr}
        BY <3>2, <4>2 DEF Ahead
      <4>4. QED BY <1>1, <3>2, <4>3
    <3>4. PICK p : p = q
      OBVIOUS
    <3>5. Ahead(p, e)'
      <4>1. Ahead(p, e)
        BY <3>3, <3>4
      <4>2. QED BY <1>1, <4>1, ReadLeaves
    <3>6. Ahead(ptr, e)'
      BY <1>1, <1>7, <3>4, <3>5 DEF Ahead
    <3>7. QED BY <1>1, <3>2, <3>6, ReadLeaves
  <2>5. rpc' = "get_walk" => map'[rkey'] # NULL
    BY <1>1, <1>4, <1>7, ReadLeaves DEF ReaderIs
  <2>6. QED BY <1>1, <1>4, <1>7, <2>2, <2>3, <2>4, <2>5 DEF ReaderIs
<1>8. QED BY <1>6, <1>7

\* The value of that entry is the value of the map.
LEMMA GetValueReads == ASSUME MapCore, ReaderAt, GetValue PROVE ReaderAt'
<1>1. /\ rpc = "get_value" /\ UNCHANGED <<rkey, overlap>> /\ UNCHANGED others
      /\ rpc' = "done" /\ ret' = value[ptr]
  BY DEF GetValue, Return
<1>2. rkey' \in Key
  BY <1>1 DEF ReaderAt
<1>3. SUFFICES ASSUME Sound' PROVE Quiet' /\ ReaderIs'
  BY <1>2, ReaderSplitNext
<1>4. Quiet /\ ReaderIs /\ Quiet'
  BY <1>1, <1>3, ReaderSplit, ReadLeaves DEF Sound
<1>5. ptr \in Linked /\ key[ptr] = rkey
  BY <1>1, <1>4, ReaderReads DEF ReaderIs
<1>6. map[rkey] = value[ptr]
  BY <1>4, <1>5, ReaderSees
<1>7. QED BY <1>1, <1>4, <1>6, ReadLeaves DEF ReaderIs

\* It never reads what was freed.
LEMMA CrashReads == ASSUME MapCore, ReaderAt, Crash PROVE ReaderAt'
<1>1. UNCHANGED <<rkey, overlap>> /\ rpc # "idle"
  BY DEF Crash
<1>2. rkey' \in Key
  BY <1>1 DEF ReaderAt
<1>3. SUFFICES ASSUME Sound' PROVE FALSE
  BY <1>2, ReaderSplitNext
<1>4. Quiet /\ ReaderIs
  BY <1>1, <1>3, ReaderSplit DEF Sound
<1>5. rpc \in {"exists_first", "exists_walk", "get_walk", "get_value"} => Valid
  BY <1>4, ReaderReads DEF ReaderIs
<1>6. rpc \in {"exists_walk", "get_walk"} => key[ptr] # NULL
  BY <1>4 DEF ReaderIs
<1>7. QED BY <1>5, <1>6 DEF Crash

-----------------------------------------------------------------------------
(* The theorems.                                                           *)

\* The invariant holds in an empty map, and every step keeps it.
LEMMA MapInit == createHashMap => MapIInv
<1> SUFFICES ASSUME createHashMap PROVE MapIInv
  OBVIOUS
<1>0. DEFAULT_MAP_SIZE \in 1 .. 2 * MaxListSize /\ MaxListSize \in Nat
  BY SizeAssumption
<1>1. MapTypeOK
  <2>1. 0 \in Entry
    BY <1>0 DEF Entry, Cell
  <2>2. EntryType
    BY DEF createHashMap, EntryType
  <2>3. TableType
    BY <1>0 DEF createHashMap, TableType, Block
  <2>4. OpType
    BY DEF createHashMap, OpType, Place
  <2>5. RestType
    BY DEF createHashMap, RestType
  <2>6. ReadType
    BY <2>1, GradeType DEF createHashMap, ReadType, Block
  <2>7. QED BY <2>2, <2>3, <2>4, <2>5, <2>6, Types
<1>2. /\ mpc = "idle" /\ rpc = "idle" /\ ~resizing /\ tempList = <<>> /\ live = {} /\ size = 0
      /\ \A k \in Key : map[k] = NULL
      /\ \A e \in Entry : key[e] = NULL /\ next[e] = NULL
      /\ listSize = DEFAULT_MAP_SIZE /\ length = DEFAULT_MAP_SIZE
  BY DEF createHashMap
<1>3. Nodes = {} /\ Linked = Places /\ Places \subseteq Entry
  BY <1>1, <1>2, Cells DEF Nodes, Linked
<1>4. Filled = {} /\ Stored = {} /\ CountedKeys = {} /\ Mapped = {} /\ Waiting = {} /\ Busy = {} /\ OneWaits
  BY <1>2, <1>3 DEF Filled, Stored, CountedKeys, Mapped, Waiting, Busy, OneWaits
<1>5. MapShape
  BY <1>2, <1>3, <1>4 DEF MapShape, Chained, Sorted, OneEntry, Valued
<1>6. OthersKept
  <2>1. \A k, v : ~Has(k, v) /\ ~WaitsFor(k, v)
    BY <1>2, <1>4 DEF Has, WaitsFor
  <2>2. QED BY <1>2, <2>1, NullAssumption DEF OthersKept
<1>7. Exact
  <2>1. IsFiniteSet({}) /\ Cardinality({}) = 0
    BY FS_EmptySet
  <2>2. QED BY <1>0, <1>2, <1>4, <2>1 DEF Exact
<1>8. Room
  BY <1>0, <1>2 DEF Room
<1>9. MapAt
  BY <1>2, <1>4 DEF MapAt, PutAt, TakeAt, ResetAt, OpAt, Putting, Taking, Intact
<1>10. ReaderAt
  BY <1>2 DEF ReaderAt
<1>11. QED BY <1>1, <1>5, <1>6, <1>7, <1>8, <1>9, <1>10 DEF MapIInv

\* Every step of the modifier keeps the map in order.
LEMMA ModifyCore ==
    ASSUME MapCore, Modify
    PROVE  MapCore'
<1>1. CASE StartPut
  <2>1. PICK k \in Key, v \in Value : (map[k] # NULL \/ size < MaxListSize) /\ Begin("put", k, v)
    BY <1>1 DEF StartPut
  <2>2. MapTypeOK'
    BY <2>1, BeginType DEF MapCore
  <2>3. MapShape'
    BY <2>1, ShapeWaits
  <2>4. MapKeys'
    BY <2>1, StartPutKeys
  <2>5. QED BY <2>2, <2>3, <2>4 DEF MapCore, MapKeys
<1>2. CASE StartRemove
  <2>1. PICK k \in Key : map[k] # NULL /\ Begin("remove", k, NULL)
    BY <1>2 DEF StartRemove
  <2>2. MapTypeOK'
    BY <2>1, BeginType DEF MapCore
  <2>3. MapShape'
    BY <2>1, ShapeWaits
  <2>4. MapKeys'
    BY <2>1, StartRemoveKeys
  <2>5. QED BY <2>2, <2>3, <2>4 DEF MapCore, MapKeys
<1>3. CASE PutFirst \/ PutKey \/ PutValue \/ PutOver \/ PutNode \/ Grow
  <2>1. MapTypeOK'
    BY <1>3, PutType
  <2>2. MapShape'
    <3>1. CASE PutNode
      <4>1. PICK n : PutsNode(n)
        BY <3>1 DEF PutNode, PutsNode
      <4>2. mpc = "put" /\ mpc' = "grow" /\ listSize' = listSize /\ key[Bucket(mkey)] # NULL
        BY <3>1 DEF PutNode, To
      <4>3. QED BY <3>1, <4>1, <4>2, PutsNew, PutNodeIs
    <3>2. QED BY <1>3, <3>1, ShapeWaits, ShapeValue, ShapeKey
  <2>3. MapKeys'
    BY <1>3, PutFirstKeys, PutKeyKeys, PutValueKeys, PutOverKeys, PutNodeKeys, GrowKeys
  <2>4. QED BY <2>1, <2>2, <2>3 DEF MapCore, MapKeys
<1>4. CASE DropFirst \/ TakeKey \/ TakeValue \/ TakeNext \/ Unlink \/ FreeNode \/ Shrink
  <2>1. MapTypeOK'
    BY <1>4, TakeType
  <2>2. MapShape'
    BY <1>4, ShapeWaits, ShapeValue, ShapeKey, ShapeTaken
  <2>3. MapKeys'
    BY <1>4, DropFirstKeys, TakeKeyKeys, TakeValueKeys, TakeNextKeys, UnlinkKeys, FreeNodeKeys,
       ShrinkKeys
  <2>4. QED BY <2>1, <2>2, <2>3 DEF MapCore, MapKeys
<1>5. CASE Copy \/ Realloc \/ ClearCells \/ PutBack
  <2>1. MapTypeOK'
    BY <1>5, ResetType
  <2>2. MapShape'
    BY <1>5, ShapeWaits, ShapeCleared
  <2>3. MapKeys'
    BY <1>5, CopyKeys, ReallocKeys, ClearCellsKeys, PutBackKeys
  <2>4. QED BY <2>1, <2>2, <2>3 DEF MapCore, MapKeys
<1>6. QED BY <1>1, <1>2, <1>3, <1>4, <1>5 DEF Modify

LEMMA MapStutter == ASSUME MapIInv, UNCHANGED mapVars PROVE MapIInv'
<1>1. UNCHANGED <<key, value, next, live, hash_list, length, listSize, size, mpc, mkey, mval, changed,
                  resizing, temp, tempList, rpc, rkey, ret, block, ptr, overlap, map>>
  BY DEF mapVars, entryVars, tableVars, opVars, readVars
<1>2. MapTypeOK'
  BY <1>1 DEF MapIInv, MapTypeOK
<1>3. MapCore'
  BY <1>1, <1>2, CoreSame DEF MapIInv, MapCore, others, entryVars, tableVars, opVars
<1>4. ReaderAt'
  <2>1. UNCHANGED readVars
    BY <1>1 DEF readVars
  <2>2. QED BY <1>1, <2>1, ReaderWaits DEF MapIInv, MapCore, ReaderAt
<1>5. QED BY <1>3, <1>4 DEF MapIInv, MapCore

LEMMA MapStep == MapIInv /\ [MapNext]_mapVars => MapIInv'
<1> SUFFICES ASSUME MapIInv, [MapNext]_mapVars PROVE MapIInv'
  OBVIOUS
<1>1. MapCore /\ ReaderAt
  BY DEF MapIInv, MapCore
<1>2. CASE Modify
  <2>1. MapCore'
    BY <1>1, <1>2, ModifyCore
  <2>2. ReaderAt'
    <3>1. CASE StartPut \/ StartRemove
      <4>1. PICK place \in {"put", "remove"}, k \in Key, v \in Value \cup {NULL} : Begin(place, k, v)
        BY <3>1 DEF StartPut, StartRemove
      <4>2. QED BY <1>1, <4>1, ReaderBegin
    <3>2. CASE ~ (StartPut \/ StartRemove)
      BY <1>1, <1>2, <3>2, ReaderPutFirst, ReaderPutKey, ReaderPutValue, ReaderPutOver, ReaderPutNode,
         ReaderGrow, ReaderOut DEF Modify
    <3>3. QED BY <3>1, <3>2
  <2>3. QED BY <2>1, <2>2 DEF MapIInv, MapCore
<1>3. CASE Read
  <2>1. MapCore'
    BY <1>1, <1>3, ReadCore
  <2>2. ReaderAt'
    <3>1. CASE FinishGet
      BY <3>1 DEF FinishGet, ReaderAt
    <3>2. CASE ~FinishGet
      BY <1>1, <1>3, <3>2, StartGetReads, FirstEntryReads, ExistsFirstReads, FoundReads, StepReads,
         GetValueReads, CrashReads DEF Read
    <3>3. QED BY <3>1, <3>2
  <2>3. QED BY <2>1, <2>2 DEF MapIInv, MapCore
<1>4. CASE UNCHANGED mapVars
  BY <1>4, MapStutter
<1>5. QED BY <1>2, <1>3, <1>4 DEF MapNext

LEMMA MapInOrder == MapSpec => []MapIInv
  BY MapInit, MapStep, PTL DEF MapSpec

\* The array of a directory map keeps its bounds, size counts no more keys than it
\* may, and resetHashMap is not entered again from the puts it makes
\* (src/src/dhmp_fs_hashmap.c, defaultPut and resetHashMap).
THEOREM MapTypesHold == MapSpec => []MapTypeOK
<1>1. MapIInv => MapTypeOK
  BY DEF MapIInv
<1>2. QED BY <1>1, MapInOrder, PTL

\* After any history of puts, removals, growing and shrinking the entries are
\* exactly the pairs of a function, in the buckets of their keys, and no node leaks
\* or is used after it was freed (defaultPut, defaultRemove, resetHashMap).
THEOREM MapsAreFunctions == MapSpec => []MapIsFunction
<1>1. MapIInv => MapIsFunction
  BY ExactlyAFunction DEF MapIInv
<1>2. QED BY <1>1, MapInOrder, PTL

\* defaultExists and defaultGet of a thread that holds no lock find what the map
\* has for their key while another thread puts other keys (defaultPut fills an
\* entry before it links it in).
THEOREM PutsKeepLookups == MapSpec => []PutsDoNotDisturb
<1>1. MapIInv => PutsDoNotDisturb
  BY DEF MapIInv, ReaderAt, Sound, PutsDoNotDisturb
<1>2. QED BY <1>1, MapInOrder, PTL
=============================================================================
