------------------------------ MODULE HashMap ------------------------------
(***************************************************************************)
(* The hash map of a directory (src/src/dhmp_fs_hashmap.c): an array of    *)
(* entries that start the chains of their buckets, which grows and shrinks *)
(* with the number of keys.                                                *)
(*                                                                         *)
(* The kernel lets one thread modify a directory at a time (the modifier), *)
(* but threads that resolve a path below it read its map meanwhile (the    *)
(* reader), without a lock: search_d_hash takes none.  The modifier's      *)
(* writes to shared memory are separate steps, and so are the reader's     *)
(* loads.                                                                  *)
(***************************************************************************)
EXTENDS Integers, Sequences, FiniteSets, SequencesExt

CONSTANTS Key,                \* file names
          Value,              \* inodes
          HashCode,           \* defaultHashCode before the modulus
          DEFAULT_MAP_SIZE,
          MaxListSize,        \* bound on the number of keys
          Node,               \* the entries that malloc may return
          NULL                \* no entry, no name and no inode

\* The array of createHashMap is within the bound on the array.
ASSUME SizeAssumption == /\ DEFAULT_MAP_SIZE \in Nat \ {0} /\ MaxListSize \in Nat
                         /\ DEFAULT_MAP_SIZE <= 2 * MaxListSize
ASSUME HashAssumption == HashCode \in [Key -> Nat]

Block == {1, 2}    \* where hash_list may be: realloc moves it or does not
Cell == 0 .. 2 * MaxListSize - 1    \* the places of the array
Entry == Cell \cup Node

\* Memory is finite, and a node is not a place of the array.
ASSUME NodeAssumption == IsFiniteSet(Node) /\ Node \cap Cell = {}
ASSUME NullAssumption == NULL \notin Key \cup Value \cup Entry

VARIABLES key, value, next,      \* the fields of an entry
          live,                  \* the nodes that are allocated
          hash_list, length,     \* the block in use, and its cells
          listSize, size,
          mpc, mkey, mval,       \* the modifier: its place, key and value
          temp,                  \* the entry that it is about to free
          resizing, tempList,    \* whether it is in resetHashMap, and what it has
                                 \* still to put back
          rpc, rkey, ret,        \* the reader: its place, key and result,
          block, ptr,            \* and the block and the entry it is at
          map,                   \* the function that the map stands for
          changed,               \* the key that a modification is about
          overlap                \* the worst that overlapped with the lookup, see Worse

entryVars == <<key, value, next>>
tableVars == <<live, hash_list, length, listSize, size>>
opVars == <<mkey, mval, changed>>
readVars == <<rpc, rkey, ret, block, ptr, overlap>>
mapVars == <<entryVars, tableVars, mpc, opVars, resizing, temp, tempList, readVars, map>>

\* An empty map.
createHashMap ==
    /\ key = [e \in Entry |-> NULL]
    /\ value = [e \in Entry |-> NULL]
    /\ next = [e \in Entry |-> NULL]
    /\ live = {}
    /\ hash_list = 1 /\ length = DEFAULT_MAP_SIZE
    /\ listSize = DEFAULT_MAP_SIZE /\ size = 0
    /\ mpc = "idle" /\ mkey = NULL /\ mval = NULL /\ changed = NULL
    /\ temp = NULL /\ resizing = FALSE /\ tempList = <<>>
    /\ rpc = "idle" /\ rkey = NULL /\ ret = NULL /\ block = 1 /\ ptr = 0
    /\ map = [k \in Key |-> NULL]
    /\ overlap = "none"

\* The first entry of the bucket of a key.
Bucket(k) == HashCode[k] % listSize

\* The entries of a chain, in order.
Chain(e) ==
    LET at[n \in 0 .. Cardinality(Node)] ==
            IF n = 0 THEN <<e>>
            ELSE IF next[Last(at[n - 1])] = NULL THEN at[n - 1]
            ELSE Append(at[n - 1], next[Last(at[n - 1])])
    IN  at[Cardinality(Node)]

\* The entries of the chain that starts at e, as an empty first one has none.
Entries(e) == IF key[e] = NULL THEN <<>> ELSE Chain(e)
All == FlattenSeq([n \in 1 .. listSize |-> Entries(n - 1)])

\* What a freed node holds, or a cell that the array does not have: undefined,
\* and NULL here since the reader goes by Valid.
Erase(f, set) == [e \in Entry |-> IF e \in set THEN NULL ELSE f[e]]

-----------------------------------------------------------------------------
(* The modifier.                                                           *)

\* What may overlap with a lookup: nothing, a put of another key that does not
\* resize the array, a removal of another key or a resizing, a modification
\* of the same key.
Grade == <<"none", "put", "move", "same">>
Worse(a, b) == LET at(x) == CHOOSE n \in DOMAIN Grade : Grade[n] = x
               IN  IF at(a) < at(b) THEN b ELSE a

\* Unless the reader has crashed the program.  The locals of a modification are
\* dead after it.
To(place) == /\ rpc # "crashed"
             /\ mpc' = place
             /\ IF place # "idle" THEN UNCHANGED opVars
                ELSE mkey' = NULL /\ mval' = NULL /\ changed' = NULL
             /\ resizing' = (place = "realloc" \/ (resizing /\ place # "idle"))

Begin(place, k, v) ==
    /\ rpc # "crashed" /\ mpc = "idle" /\ mpc' = place
    /\ mkey' = k /\ mval' = v /\ changed' = k
    /\ map' = [map EXCEPT ![k] = v]
    /\ overlap' = IF rpc = "idle" THEN overlap
                  ELSE Worse(overlap, IF k = rkey THEN "same"
                                      ELSE IF place = "put" THEN "put" ELSE "move")
    /\ UNCHANGED <<entryVars, tableVars, resizing, temp, tempList, rpc, rkey, ret, block, ptr>>

StartPut == \E k \in Key, v \in Value :
                (map[k] # NULL \/ size < MaxListSize) /\ Begin("put", k, v)

\* The map of a directory is asked to remove only what it holds.
StartRemove == \E k \in Key : map[k] # NULL /\ Begin("remove", k, NULL)

\* A put, of the caller or of resetHashMap, is done.
PutDone == IF tempList = <<>> THEN "idle" ELSE "reput"

PutFirst == /\ mpc = "put" /\ key[Bucket(mkey)] = NULL
            /\ size' = size + 1
            /\ To("put_key")
            /\ UNCHANGED <<entryVars, live, hash_list, length, listSize, temp,
                           tempList, readVars, map>>

PutKey == /\ mpc = "put_key"
          /\ key' = [key EXCEPT ![Bucket(mkey)] = mkey]
          /\ To("put_value")
          /\ UNCHANGED <<value, next, tableVars, temp, tempList, readVars, map>>

PutValue == /\ mpc = "put_value"
            /\ value' = [value EXCEPT ![Bucket(mkey)] = mval]
            /\ To("grow")
            /\ UNCHANGED <<key, next, tableVars, temp, tempList, readVars, map>>

\* A mistake: a new value counts as a new key.
Bug_PutOver == /\ mpc = "put"
               /\ \E e \in Range(Entries(Bucket(mkey))) :
                     key[e] = mkey /\ value' = [value EXCEPT ![e] = mval]
               /\ size' = size + 1
               /\ To(PutDone)
               /\ UNCHANGED <<key, next, live, hash_list, length, listSize, temp, tempList,
                              readVars, map>>

\* A key that is there already gets the value.
PutOver == /\ mpc = "put"
           /\ \E e \in Range(Entries(Bucket(mkey))) :
                 key[e] = mkey /\ value' = [value EXCEPT ![e] = mval]
           /\ To(PutDone)
           /\ UNCHANGED <<key, next, tableVars, temp, tempList, readVars, map>>

\* The node is complete when it is linked in.
PutNode ==
    LET first == Bucket(mkey)
    IN  /\ mpc = "put" /\ key[first] # NULL
        /\ \A e \in Range(Entries(first)) : key[e] # mkey
        /\ \E n \in Node \ live :
              /\ key' = [key EXCEPT ![n] = mkey]
              /\ value' = [value EXCEPT ![n] = mval]
              /\ next' = [next EXCEPT ![n] = next[first], ![first] = n]
              /\ live' = live \cup {n}
        /\ size' = size + 1
        /\ To("grow")
        /\ UNCHANGED <<hash_list, length, listSize, temp, tempList, readVars, map>>

\* Growing while resetHashMap puts the entries back would nest.
Grow == /\ mpc = "grow"
        /\ To(IF size < listSize THEN PutDone
              ELSE IF resizing THEN "nested" ELSE "copy_grow")
        /\ UNCHANGED <<entryVars, tableVars, temp, tempList, readVars, map>>

\* The first entry of a bucket takes over the second one, or gets empty.
DropFirst == /\ mpc = "remove" /\ key[Bucket(mkey)] = mkey
             /\ size' = size - 1
             /\ temp' = next[Bucket(mkey)]
             /\ To("take_key")
             /\ UNCHANGED <<entryVars, live, hash_list, length, listSize, tempList,
                            readVars, map>>

TakeKey == /\ mpc = "take_key"
           /\ key' = [key EXCEPT ![Bucket(mkey)] = IF temp = NULL THEN NULL ELSE key[temp]]
           /\ To("take_value")
           /\ UNCHANGED <<value, next, tableVars, temp, tempList, readVars, map>>

TakeValue == /\ mpc = "take_value"
             /\ value' = [value EXCEPT ![Bucket(mkey)] = IF temp = NULL THEN NULL ELSE value[temp]]
             /\ To(IF temp = NULL THEN "shrink" ELSE "take_next")
             /\ UNCHANGED <<key, next, tableVars, temp, tempList, readVars, map>>

TakeNext == /\ mpc = "take_next"
            /\ next' = [next EXCEPT ![Bucket(mkey)] = next[temp]]
            /\ To("free")
            /\ UNCHANGED <<key, value, tableVars, temp, tempList, readVars, map>>

\* A mistake: the node is not freed.
Bug_Unlink == /\ mpc = "remove"
              /\ \E n \in 2 .. Len(Chain(Bucket(mkey))) :
                    LET chain == Chain(Bucket(mkey))
                    IN  /\ key[chain[n]] = mkey
                        /\ next' = [next EXCEPT ![chain[n - 1]] = next[chain[n]]]
              /\ size' = size - 1
              /\ To("shrink")
              /\ UNCHANGED <<key, value, live, hash_list, length, listSize, temp, tempList,
                             readVars, map>>

Unlink == /\ mpc = "remove"
          /\ \E n \in 2 .. Len(Chain(Bucket(mkey))) :
                LET chain == Chain(Bucket(mkey))
                IN  /\ key[chain[n]] = mkey
                    /\ next' = [next EXCEPT ![chain[n - 1]] = next[chain[n]]]
                    /\ temp' = chain[n]
          /\ size' = size - 1
          /\ To("free")
          /\ UNCHANGED <<key, value, live, hash_list, length, listSize, tempList,
                         readVars, map>>

FreeNode == /\ mpc = "free"
            /\ live' = live \ {temp}
            /\ key' = Erase(key, {temp}) /\ value' = Erase(value, {temp})
            /\ next' = Erase(next, {temp})
            /\ temp' = NULL
            /\ To("shrink")
            /\ UNCHANGED <<hash_list, length, listSize, size, tempList,
                           readVars, map>>

\* A mistake: the array gets smaller than DEFAULT_MAP_SIZE.
Bug_Shrink == /\ mpc = "shrink"
              /\ To(IF size < listSize \div 2 THEN "copy_shrink" ELSE "idle")
              /\ UNCHANGED <<entryVars, tableVars, temp, tempList, readVars, map>>

Shrink == /\ mpc = "shrink"
          /\ To(IF size < listSize \div 2 /\ listSize \div 2 >= DEFAULT_MAP_SIZE
                THEN "copy_shrink" ELSE "idle")
          /\ UNCHANGED <<entryVars, tableVars, temp, tempList, readVars, map>>

\* A mistake: only the first entries of the buckets are copied.
Bug_Copy ==
    LET firsts == SelectSeq([n \in 1 .. listSize |-> n - 1], LAMBDA e : key[e] # NULL)
    IN  /\ mpc \in {"copy_grow", "copy_shrink"}
        /\ tempList' = [n \in 1 .. Len(firsts) |-> <<key[firsts[n]], value[firsts[n]]>>]
        /\ live' = live \ Range(All)
        /\ key' = Erase(key, Range(All) \cap Node)
        /\ value' = Erase(value, Range(All) \cap Node)
        /\ next' = Erase(next, Range(All) \cap Node)
        /\ listSize' = IF mpc = "copy_grow" THEN 2 * listSize ELSE listSize \div 2
        /\ To("realloc")
        /\ overlap' = IF rpc = "idle" THEN overlap ELSE Worse(overlap, "move")
        /\ UNCHANGED <<hash_list, length, size, temp, rpc, rkey, ret, block, ptr, map>>

\* resetHashMap: all entries are copied, and the nodes freed; listSize changes
\* before the array does; the array is cleared; the entries are put back.
Copy == /\ mpc \in {"copy_grow", "copy_shrink"}
        /\ tempList' = [n \in 1 .. Len(All) |-> <<key[All[n]], value[All[n]]>>]
        /\ live' = live \ Range(All)
        /\ key' = Erase(key, Range(All) \cap Node)
        /\ value' = Erase(value, Range(All) \cap Node)
        /\ next' = Erase(next, Range(All) \cap Node)
        /\ listSize' = IF mpc = "copy_grow" THEN 2 * listSize ELSE listSize \div 2
        /\ To("realloc")
        /\ overlap' = IF rpc = "idle" THEN overlap ELSE Worse(overlap, "move")
        /\ UNCHANGED <<hash_list, length, size, temp, rpc, rkey, ret, block, ptr, map>>

Realloc == /\ mpc = "realloc"
           /\ hash_list' \in Block
           /\ length' = listSize
           /\ key' = Erase(key, Cell \ 0 .. listSize - 1)
           /\ value' = Erase(value, Cell \ 0 .. listSize - 1)
           /\ next' = Erase(next, Cell \ 0 .. listSize - 1)
           /\ To("clear")
           /\ UNCHANGED <<live, listSize, size, temp, tempList, readVars, map>>

ClearCells == /\ mpc = "clear"
              /\ key' = Erase(key, Cell) /\ value' = Erase(value, Cell)
              /\ next' = Erase(next, Cell)
              /\ size' = 0
              /\ To(PutDone)
              /\ UNCHANGED <<live, hash_list, length, listSize, temp, tempList,
                             readVars, map>>

PutBack == /\ rpc # "crashed" /\ mpc = "reput" /\ mpc' = "put"
           /\ mkey' = Head(tempList)[1] /\ mval' = Head(tempList)[2]
           /\ tempList' = Tail(tempList)
           /\ UNCHANGED <<entryVars, tableVars, resizing, temp, changed, readVars, map>>

Modify == \/ StartPut \/ PutFirst \/ PutKey \/ PutValue \/ PutOver \/ PutNode \/ Grow
          \/ StartRemove \/ DropFirst \/ TakeKey \/ TakeValue \/ TakeNext \/ Unlink \/ FreeNode
          \/ Shrink \/ Copy \/ Realloc \/ ClearCells \/ PutBack

-----------------------------------------------------------------------------
(* The reader.                                                             *)

\* The fields of entries, the table and the modifier.
others == <<entryVars, tableVars, mpc, opVars, resizing, temp, tempList, map>>

StartGet == /\ rpc = "idle" /\ rpc' = "exists"
            /\ \E k \in Key : /\ rkey' = k
                             /\ overlap' = IF mpc = "idle" THEN "none"
                                           ELSE IF k = changed THEN "same"
                                           ELSE IF map[changed] # NULL /\ ~resizing THEN "put"
                                           ELSE "move"
            /\ UNCHANGED <<ret, block, ptr, others>>

\* exists and get compute the index and take the address of the first entry.
FirstEntry == /\ rpc \in {"exists", "get"}
              /\ rpc' = IF rpc = "exists" THEN "exists_first" ELSE "get_walk"
              /\ block' = hash_list /\ ptr' = Bucket(rkey)
              /\ UNCHANGED <<rkey, ret, overlap, others>>

\* The entry that ptr points to may have been freed since.
Valid == IF ptr \in Node THEN ptr \in live ELSE block = hash_list /\ ptr < length

Return(v) == rpc' = "done" /\ ret' = v

ExistsFirst == /\ rpc = "exists_first" /\ Valid
               /\ IF key[ptr] = NULL THEN Return(NULL) ELSE rpc' = "exists_walk" /\ UNCHANGED ret
               /\ UNCHANGED <<rkey, block, ptr, overlap, others>>

\* The loops compare the key of an entry and go on to the next one.
Found == /\ rpc \in {"exists_walk", "get_walk"} /\ Valid /\ key[ptr] = rkey
         /\ rpc' = IF rpc = "exists_walk" THEN "get" ELSE "get_value"
         /\ UNCHANGED <<rkey, block, ptr, ret, overlap, others>>

\* A mistake: the loops look at the first entry only.
Bug_Step == /\ rpc \in {"exists_walk", "get_walk"} /\ Valid /\ key[ptr] \notin {rkey, NULL}
            /\ Return(NULL)
            /\ UNCHANGED <<rkey, block, ptr, overlap, others>>

Step == /\ rpc \in {"exists_walk", "get_walk"} /\ Valid /\ key[ptr] \notin {rkey, NULL}
        /\ IF next[ptr] = NULL THEN Return(NULL) /\ UNCHANGED ptr
           ELSE ptr' = next[ptr] /\ UNCHANGED <<rpc, ret>>
        /\ UNCHANGED <<rkey, block, overlap, others>>

GetValue == /\ rpc = "get_value" /\ Valid
            /\ Return(value[ptr])
            /\ UNCHANGED <<rkey, block, ptr, overlap, others>>

FinishGet == /\ rpc = "done" /\ rpc' = "idle"
             /\ rkey' = NULL /\ ret' = NULL /\ block' = 1 /\ ptr' = 0 /\ overlap' = "none"
             /\ UNCHANGED others

\* Memory that was freed, or strcmp of NULL: undefined.
Crash == /\ \/ rpc \in {"exists_first", "exists_walk", "get_walk", "get_value"} /\ ~Valid
            \/ rpc \in {"exists_walk", "get_walk"} /\ Valid /\ key[ptr] = NULL
         /\ rpc' = "crashed"
         /\ UNCHANGED <<rkey, block, ptr, ret, overlap, others>>

Read == StartGet \/ FirstEntry \/ ExistsFirst \/ Found \/ Step \/ GetValue \/ FinishGet \/ Crash

MapNext == Modify \/ Read

MapSpec == createHashMap /\ [][MapNext]_mapVars

-----------------------------------------------------------------------------
(* Properties.                                                             *)

Place == {"idle", "put", "put_key", "put_value", "grow", "remove", "take_key", "take_value",
          "take_next", "free", "shrink", "copy_grow", "copy_shrink", "realloc", "clear", "reput"}

\* resetHashMap is not entered again from the puts it makes ("nested").
MapTypeOK == /\ key \in [Entry -> Key \cup {NULL}]
             /\ value \in [Entry -> Value \cup {NULL}]
             /\ next \in [Entry -> Node \cup {NULL}]
             /\ live \subseteq Node
             /\ hash_list \in Block /\ size \in 0 .. MaxListSize
             /\ listSize \in DEFAULT_MAP_SIZE .. 2 * MaxListSize
             /\ length \in DEFAULT_MAP_SIZE .. 2 * MaxListSize
             /\ mpc \in Place /\ mkey \in Key \cup {NULL} /\ mval \in Value \cup {NULL}
             /\ temp \in Node \cup {NULL} /\ tempList \in Seq(Key \X Value)
             /\ rpc \in {"idle", "exists", "exists_first", "exists_walk", "get", "get_walk",
                        "get_value", "done", "crashed"}
             /\ rkey \in Key \cup {NULL} /\ ret \in Value \cup {NULL}
             /\ block \in Block /\ ptr \in Entry
             /\ map \in [Key -> Value \cup {NULL}] /\ changed \in Key \cup {NULL}
             /\ resizing \in BOOLEAN /\ overlap \in Range(Grade)

\* Between two modifications the entries are exactly the pairs of a function,
\* each in the bucket of its key, after any history of growing and shrinking;
\* no node leaks and none is linked after it was freed.
\* size counts the entries, so that the array of resetHashMap, which has that
\* many places, is filled exactly.
MapIsFunction ==
    /\ mpc = "idle" =>
        /\ \A k \in Key, v \in Value :
              map[k] = v <=> \E e \in Range(Entries(Bucket(k))) : key[e] = k /\ value[e] = v
        /\ Len(All) = Cardinality({k \in Key : map[k] # NULL})
        /\ live = Range(All) \cap Node
    /\ mpc \in {"idle", "copy_grow", "copy_shrink"} => size = Len(All)

\* A lookup is right unless a modification of its key, a removal or a resizing
\* overlaps with it: the entries of a put are filled and linked in an order
\* that a reader without a lock can stand.
PutsDoNotDisturb ==
    overlap \in {"none", "put"} =>
        /\ rpc # "crashed"
        /\ rpc = "done" => ret = map[rkey]

\* Looking up a name that nobody changes meanwhile finds its inode: "get the
\* attributes of a file by its path" (src/src/dhmp_fs_dir_ops.c:257).  No run
\* checks this, as it is false: see README.
LookupIsRight ==
    overlap # "same" =>
        /\ rpc # "crashed"
        /\ rpc = "done" => ret = map[rkey]

=============================================================================
