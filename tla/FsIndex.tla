------------------------------ MODULE FsIndex ------------------------------
(***************************************************************************)
(* Inodes and the chunks of files: the inode slab, the chunk bitmap, the   *)
(* index of a file and its sizes (src/src/dhmp_fs_index.c), and the loops  *)
(* over the chunks in dhmp_fs_write and dhmp_fs_read                       *)
(* (src/src/dhmp_fs_io.c), run by the worker threads of FUSE.              *)
(*                                                                         *)
(* The four levels of the index (see LevelIndex) are one array of          *)
(* SLOT_NUM pointers; what the bytes are is left to the cache (DramCache). *)
(* The path locks of libfuse, outside this repository, keep the removal    *)
(* of a file apart from every other operation on it.                       *)
(***************************************************************************)
EXTENDS Integers, Sequences, FiniteSets, Functions

CONSTANTS Worker,       \* threads
          Inode,        \* the inodes malloc_inode may ever return
          SLAB,         \* the ones in the slab initially, a sequence
          CHUNK_NUM, CHUNK_SIZE,
          SLOT_NUM,     \* chunks a file may have
          MaxOffset, MaxSize,   \* bounds on the arguments of reads and writes
          SIZE_T,       \* size_t counts modulo this
          None          \* NULL

ASSUME ChunkAssumption == CHUNK_NUM \in Nat \ {0} /\ CHUNK_SIZE \in Nat \ {0}
ASSUME SlotAssumption == SLOT_NUM \in Nat \ {0}
ASSUME ArgAssumption == MaxOffset \in Nat /\ MaxSize \in Nat \ {0}
ASSUME SizeTAssumption ==
    SIZE_T \in Nat /\ SIZE_T > MaxOffset + MaxSize + CHUNK_NUM * CHUNK_SIZE
ASSUME SlabAssumption == /\ SLAB \in Seq(Inode)
                         /\ \A i, j \in 1 .. Len(SLAB) : SLAB[i] = SLAB[j] => i = j

Chunk == 0 .. CHUNK_NUM - 1
Slot == 0 .. SLOT_NUM - 1
Place == Inode \X Slot    \* the address of a pointer in a file's index
ASSUME NoneAssumption == None \notin Chunk \cup Place \cup Inode \cup Worker

VARIABLES linked,     \* linked[f]: the inode is in a directory
          slab,       \* free_inode_slab
          fresh,      \* inodes that malloc_inode has not returned yet
          slot,       \* slot[<<f, k>>]: the context in place k of f's index
          ctx,        \* ctx[f]: the chunks in the list f->context
          size,       \* size[f]
          bitmap, which, csize,   \* of a chunk: its bit, which_inode_it_is, size
          i,          \* the static cursor of getFreeChunk
          count,      \* and its local of that name
          file_lock,  \* file_lock[f]: its holder
          context_lock,
          pc, op, head, off, un, cnt, rest,   \* of a worker: its place, what it
                      \* does, the inode, offset, bytes left, the context, and
                      \* the chunks a removal has still to free
          req, got,   \* of a reader: the size asked for and read_size
          crashed     \* how a NULL context was used

diskVars == <<slot, ctx, size, bitmap, which, csize, i, count>>
lockVars == <<file_lock, context_lock>>
inodeVars == <<linked, slab, fresh>>
argVars == <<op, head, req>>
loopVars == <<off, un, cnt, rest, got>>
vars == <<inodeVars, diskVars, lockVars, pc, argVars, loopVars, crashed>>

Init == /\ linked = [f \in Inode |-> FALSE]
        /\ slab = SLAB
        /\ fresh = {f \in Inode : \A j \in 1 .. Len(SLAB) : SLAB[j] # f}
        /\ slot = [p \in Place |-> None]
        /\ ctx = [f \in Inode |-> {}]
        /\ size = [f \in Inode |-> 0]
        /\ bitmap = [c \in Chunk |-> 0]
        /\ which = [c \in Chunk |-> None]
        /\ csize = [c \in Chunk |-> 0]
        /\ i = 0 /\ count = 0
        /\ file_lock = [f \in Inode |-> None]
        /\ context_lock = None
        /\ pc = [w \in Worker |-> "idle"]
        /\ op = [w \in Worker |-> "none"]
        /\ head = [w \in Worker |-> None]
        /\ off = [w \in Worker |-> 0]
        /\ un = [w \in Worker |-> 0]
        /\ cnt = [w \in Worker |-> None]
        /\ rest = [w \in Worker |-> {}]
        /\ req = [w \in Worker |-> 0]
        /\ got = [w \in Worker |-> 0]
        /\ crashed = "no"

Goto(w, p) == pc' = [pc EXCEPT ![w] = p]

\* The place in the index and the offset in the chunk that level3_local_index
\* finds for the offset of w.
At(w) == <<head[w], off[w] \div CHUNK_SIZE>>
chunk_offset(w) == off[w] % CHUNK_SIZE
Room(w) == CHUNK_SIZE - chunk_offset(w)
end_offset(w) == un[w] + chunk_offset(w)

\* Back to FUSE; the locals are dead.
Return(w) == /\ pc' = [pc EXCEPT ![w] = "idle"]
             /\ op' = [op EXCEPT ![w] = "none"]
             /\ head' = [head EXCEPT ![w] = None]
             /\ off' = [off EXCEPT ![w] = 0]
             /\ un' = [un EXCEPT ![w] = 0]
             /\ cnt' = [cnt EXCEPT ![w] = None]
             /\ rest' = [rest EXCEPT ![w] = {}]
             /\ req' = [req EXCEPT ![w] = 0]
             /\ got' = [got EXCEPT ![w] = 0]

-----------------------------------------------------------------------------
(* Plausible mistakes in the steps below (Bug_...), each of which breaks a *)
(* property of this module.                                                *)

\* The pointer is not tested again under the lock.
Bug_Recheck(w) ==
    /\ pc[w] = "recheck" /\ crashed = "no"
    /\ Goto(w, "get")
    /\ UNCHANGED <<file_lock, inodeVars, diskVars, context_lock, argVars, loopVars, crashed>>

\* The cursor does not wrap round.
\* The chunk is not put into the list of the inode.
Bug_Link(w) ==
    /\ pc[w] = "link" /\ crashed = "no"
    /\ slot' = [slot EXCEPT ![At(w)] = cnt[w]]
    /\ which' = [which EXCEPT ![cnt[w]] = At(w)]
    /\ file_lock' = [file_lock EXCEPT ![head[w]] = None]
    /\ Goto(w, "take")
    /\ UNCHANGED <<ctx, size, bitmap, csize, i, count, inodeVars, context_lock, argVars,
                   loopVars, crashed>>

\* The size of the chunk is not tested again under the lock.
Bug_Grow(w) ==
    /\ pc[w] = "grow" /\ file_lock[head[w]] = None /\ crashed = "no"
    /\ size' = [size EXCEPT ![head[w]] = @ + end_offset(w)]
    /\ csize' = [csize EXCEPT ![cnt[w]] = end_offset(w)]
    /\ Return(w)
    /\ UNCHANGED <<slot, ctx, bitmap, which, i, count, inodeVars, lockVars, crashed>>

\* The bit is cleared before the pointer in the index.
Bug_FreeChunk(w) ==
    /\ pc[w] = "free" /\ crashed = "no"
    /\ \E c \in rest[w] :
          /\ bitmap' = [bitmap EXCEPT ![c] = 0]
          /\ IF bitmap[c] = 1 THEN UNCHANGED <<slot, which, csize, rest>>
             ELSE /\ slot' = [slot EXCEPT ![which[c]] = None]
                  /\ which' = [which EXCEPT ![c] = None]
                  /\ csize' = [csize EXCEPT ![c] = 0]
                  /\ rest' = [rest EXCEPT ![w] = @ \ {c}]
    /\ UNCHANGED <<ctx, size, i, count, inodeVars, lockVars, pc, argVars, off, un, cnt,
                   got, crashed>>

\* The inode goes back to the slab before its chunks are freed.
Bug_StartDelete(w, f) ==
    /\ pc[w] = "idle" /\ linked[f] /\ crashed = "no"
    /\ \A v \in Worker : head[v] # f
    /\ linked' = [linked EXCEPT ![f] = FALSE]
    /\ slab' = Append(slab, f)
    /\ size' = [size EXCEPT ![f] = 0]
    /\ rest' = [rest EXCEPT ![w] = ctx[f]]
    /\ ctx' = [ctx EXCEPT ![f] = {}]
    /\ op' = [op EXCEPT ![w] = "delete"]
    /\ head' = [head EXCEPT ![w] = f]
    /\ Goto(w, "free")
    /\ UNCHANGED <<slot, bitmap, which, csize, i, count, fresh, lockVars, off, un, cnt,
                   req, got, crashed>>

-----------------------------------------------------------------------------
(* The inode slab.                                                         *)

\* get_free_inode, and the link to the directory: the first inode of the slab,
\* or a new one when the slab is empty.
Create(f) ==
    /\ crashed = "no"
    /\ \/ slab # <<>> /\ f = Head(slab) /\ slab' = Tail(slab) /\ UNCHANGED fresh
       \/ slab = <<>> /\ f \in fresh /\ fresh' = fresh \ {f} /\ UNCHANGED slab
    /\ linked' = [linked EXCEPT ![f] = TRUE]
    /\ UNCHANGED <<diskVars, lockVars, pc, argVars, loopVars, crashed>>

\* reset_indoe of a file that was unlinked: no operation on it is under way.
StartDelete(w, f) ==
    /\ pc[w] = "idle" /\ linked[f] /\ crashed = "no"
    /\ \A v \in Worker : head[v] # f
    /\ linked' = [linked EXCEPT ![f] = FALSE]
    /\ size' = [size EXCEPT ![f] = 0]
    /\ rest' = [rest EXCEPT ![w] = ctx[f]]
    /\ ctx' = [ctx EXCEPT ![f] = {}]
    /\ op' = [op EXCEPT ![w] = "delete"]
    /\ head' = [head EXCEPT ![w] = f]
    /\ Goto(w, "free")
    /\ UNCHANGED <<slot, bitmap, which, csize, i, count, slab, fresh, lockVars, off, un,
                   cnt, req, got, crashed>>

\* One chunk of the list is given back, without any lock; the bit comes last.
FreeChunk(w) ==
    /\ pc[w] = "free" /\ crashed = "no"
    /\ \E c \in rest[w] :
          /\ slot' = [slot EXCEPT ![which[c]] = None]
          /\ which' = [which EXCEPT ![c] = None]
          /\ csize' = [csize EXCEPT ![c] = 0]
          /\ bitmap' = [bitmap EXCEPT ![c] = 0]
          /\ rest' = [rest EXCEPT ![w] = @ \ {c}]
    /\ UNCHANGED <<ctx, size, i, count, inodeVars, lockVars, pc, argVars, off, un, cnt,
                   got, crashed>>

FinishDelete(w) ==
    /\ pc[w] = "free" /\ rest[w] = {} /\ crashed = "no"
    /\ slab' = Append(slab, head[w])
    /\ Return(w)
    /\ UNCHANGED <<linked, fresh, diskVars, lockVars, crashed>>

-----------------------------------------------------------------------------
(* The loops of dhmp_fs_write and dhmp_fs_read, and level3_local_index.    *)

StartAccess(w, o, f, offset, bytes) ==
    /\ pc[w] = "idle" /\ linked[f] /\ crashed = "no"
    /\ op' = [op EXCEPT ![w] = o]
    /\ head' = [head EXCEPT ![w] = f]
    /\ off' = [off EXCEPT ![w] = offset]
    /\ un' = [un EXCEPT ![w] = bytes]
    /\ req' = [req EXCEPT ![w] = bytes]
    /\ Goto(w, "locate")
    /\ UNCHANGED <<inodeVars, diskVars, lockVars, cnt, rest, got, crashed>>

\* The test of the pointer without the lock: it is there, or the reader stops,
\* or the writer goes for the lock.
Locate(w) ==
    /\ pc[w] = "locate" /\ off[w] \div CHUNK_SIZE < SLOT_NUM /\ crashed = "no"
    /\ Goto(w, IF slot[At(w)] # None THEN "take"
               ELSE IF op[w] = "read" THEN "done" ELSE "lock")
    /\ UNCHANGED <<inodeVars, diskVars, lockVars, argVars, loopVars, crashed>>

\* Beyond the largest file there is no context: dhmp_fs_read stops,
\* dhmp_fs_write uses the NULL.
BeyondIndex(w) ==
    /\ pc[w] = "locate" /\ off[w] \div CHUNK_SIZE >= SLOT_NUM /\ crashed = "no"
    /\ IF op[w] = "read" THEN Goto(w, "done") /\ UNCHANGED crashed
       ELSE crashed' = "offset" /\ UNCHANGED pc
    /\ UNCHANGED <<inodeVars, diskVars, lockVars, argVars, loopVars>>

LockFile(w) ==
    /\ pc[w] = "lock" /\ file_lock[head[w]] = None /\ crashed = "no"
    /\ file_lock' = [file_lock EXCEPT ![head[w]] = w]
    /\ Goto(w, "recheck")
    /\ UNCHANGED <<inodeVars, diskVars, context_lock, argVars, loopVars, crashed>>

\* The second test, with the lock.
Recheck(w) ==
    /\ pc[w] = "recheck" /\ crashed = "no"
    /\ IF slot[At(w)] = None
       THEN Goto(w, "get") /\ UNCHANGED file_lock
       ELSE Goto(w, "take") /\ file_lock' = [file_lock EXCEPT ![head[w]] = None]
    /\ UNCHANGED <<inodeVars, diskVars, context_lock, argVars, loopVars, crashed>>

\* get_free_context and getFreeChunk.
LockContext(w) ==
    /\ pc[w] = "get" /\ context_lock = None /\ crashed = "no"
    /\ context_lock' = w
    /\ count' = 0
    /\ Goto(w, "scan")
    /\ UNCHANGED <<slot, ctx, size, bitmap, which, csize, i, inodeVars, file_lock, argVars,
                   loopVars, crashed>>

Scan(w) ==
    /\ pc[w] = "scan" /\ count < CHUNK_NUM /\ bitmap[i] = 1 /\ crashed = "no"
    /\ i' = (i + 1) % CHUNK_NUM
    /\ count' = count + 1
    /\ UNCHANGED <<slot, ctx, size, bitmap, which, csize, inodeVars, lockVars, pc, argVars,
                   loopVars, crashed>>

Found(w) ==
    /\ pc[w] = "scan" /\ count < CHUNK_NUM /\ bitmap[i] = 0 /\ crashed = "no"
    /\ bitmap' = [bitmap EXCEPT ![i] = 1]
    /\ cnt' = [cnt EXCEPT ![w] = i]
    /\ context_lock' = None
    /\ Goto(w, "link")
    /\ UNCHANGED <<slot, ctx, size, which, csize, i, count, inodeVars, file_lock, argVars,
                   off, un, rest, got, crashed>>

\* No free chunk: level3_local_index uses the NULL it gets.
NoSpace(w) ==
    /\ pc[w] = "scan" /\ count = CHUNK_NUM /\ crashed = "no"
    /\ crashed' = "full"
    /\ UNCHANGED <<inodeVars, diskVars, lockVars, pc, argVars, loopVars>>

Link(w) ==
    /\ pc[w] = "link" /\ crashed = "no"
    /\ slot' = [slot EXCEPT ![At(w)] = cnt[w]]
    /\ which' = [which EXCEPT ![cnt[w]] = At(w)]
    /\ ctx' = [ctx EXCEPT ![head[w]] = @ \cup {cnt[w]}]
    /\ file_lock' = [file_lock EXCEPT ![head[w]] = None]
    /\ Goto(w, "take")
    /\ UNCHANGED <<size, bitmap, csize, i, count, inodeVars, context_lock, argVars,
                   loopVars, crashed>>

\* The pointer is read again, without the lock.
Take(w) ==
    /\ pc[w] = "take" /\ crashed = "no"
    /\ cnt' = [cnt EXCEPT ![w] = slot[At(w)]]
    /\ Goto(w, IF op[w] = "read" THEN "test" ELSE "store")
    /\ UNCHANGED <<inodeVars, diskVars, lockVars, argVars, off, un, rest, got, crashed>>

\* dhmp_fs_write_to_cache: up to the end of the chunk, or all that is left.
Store(w) ==
    /\ pc[w] = "store" /\ crashed = "no"
    /\ Goto(w, IF un[w] >= Room(w) THEN "fill" ELSE "tail")
    /\ UNCHANGED <<inodeVars, diskVars, lockVars, argVars, loopVars, crashed>>

\* The chunk is full now: sizes, with the lock, and the next chunk.
Fill(w) ==
    /\ pc[w] = "fill" /\ file_lock[head[w]] = None /\ crashed = "no"
    /\ size' = [size EXCEPT ![head[w]] = @ + (CHUNK_SIZE - csize[cnt[w]])]
    /\ csize' = [csize EXCEPT ![cnt[w]] = CHUNK_SIZE]
    /\ IF un[w] = Room(w) THEN Return(w)
       ELSE /\ un' = [un EXCEPT ![w] = @ - Room(w)]
            /\ off' = [off EXCEPT ![w] = @ + Room(w)]
            /\ Goto(w, "locate")
            /\ UNCHANGED <<argVars, cnt, rest, got>>
    /\ UNCHANGED <<slot, ctx, bitmap, which, i, count, inodeVars, lockVars, crashed>>

\* The last piece: the size of the chunk is tested without the lock ...
Tail_(w) ==
    /\ pc[w] = "tail" /\ crashed = "no"
    /\ IF end_offset(w) > csize[cnt[w]]
       THEN Goto(w, "grow") /\ UNCHANGED <<argVars, loopVars>>
       ELSE Return(w)
    /\ UNCHANGED <<inodeVars, diskVars, lockVars, crashed>>

\* ... and again with it.
Grow(w) ==
    /\ pc[w] = "grow" /\ file_lock[head[w]] = None /\ crashed = "no"
    /\ IF csize[cnt[w]] < end_offset(w)
       THEN /\ size' = [size EXCEPT ![head[w]] = @ + (end_offset(w) - csize[cnt[w]])]
            /\ csize' = [csize EXCEPT ![cnt[w]] = end_offset(w)]
       ELSE UNCHANGED <<size, csize>>
    /\ Return(w)
    /\ UNCHANGED <<slot, ctx, bitmap, which, i, count, inodeVars, lockVars, crashed>>

\* dhmp_fs_read compares what is left with the rest of the chunk ...
Test(w) ==
    /\ pc[w] = "test" /\ crashed = "no"
    /\ Goto(w, IF un[w] >= (csize[cnt[w]] - chunk_offset(w)) % SIZE_T
               THEN "part" ELSE "last")
    /\ UNCHANGED <<inodeVars, diskVars, lockVars, argVars, loopVars, crashed>>

\* ... and reads the rest of the chunk, by a size that it loads again, ...
ReadPart(w) ==
    LET now_read_size == (csize[cnt[w]] - chunk_offset(w)) % SIZE_T IN
    /\ pc[w] = "part" /\ crashed = "no"
    /\ IF now_read_size = 0
       THEN Goto(w, "done") /\ UNCHANGED <<off, un, got>>
       ELSE /\ got' = [got EXCEPT ![w] = (@ + now_read_size) % SIZE_T]
            /\ un' = [un EXCEPT ![w] = (@ - now_read_size) % SIZE_T]
            /\ off' = [off EXCEPT ![w] = @ + now_read_size]
            /\ Goto(w, IF un'[w] > 0 THEN "locate" ELSE "done")
    /\ UNCHANGED <<inodeVars, diskVars, lockVars, argVars, cnt, rest, crashed>>

\* ... or all that is left to read.
ReadLast(w) ==
    /\ pc[w] = "last" /\ crashed = "no"
    /\ got' = [got EXCEPT ![w] = (@ + un[w]) % SIZE_T]
    /\ un' = [un EXCEPT ![w] = 0]
    /\ Goto(w, "done")
    /\ UNCHANGED <<inodeVars, diskVars, lockVars, argVars, off, cnt, rest, crashed>>

FinishRead(w) ==
    /\ pc[w] = "done" /\ crashed = "no"
    /\ Return(w)
    /\ UNCHANGED <<inodeVars, diskVars, lockVars, crashed>>

Access(w) == \/ Locate(w) \/ BeyondIndex(w) \/ LockFile(w) \/ Recheck(w)
             \/ LockContext(w) \/ Scan(w) \/ Found(w) \/ NoSpace(w) \/ Link(w) \/ Take(w)
             \/ Store(w) \/ Fill(w) \/ Tail_(w) \/ Grow(w)
             \/ Test(w) \/ ReadPart(w) \/ ReadLast(w) \/ FinishRead(w)

Next == \/ \E f \in Inode : Create(f)
        \/ \E w \in Worker : \/ \E f \in Inode : StartDelete(w, f)
                             \/ FreeChunk(w) \/ FinishDelete(w)
                             \/ \E o \in {"read", "write"}, f \in Inode,
                                   offset \in 0 .. MaxOffset, bytes \in 1 .. MaxSize :
                                      StartAccess(w, o, f, offset, bytes)
                             \/ Access(w)

Spec == Init /\ [][Next]_vars

-----------------------------------------------------------------------------
Holding == {"recheck", "get", "scan", "link"}   \* with file_lock
Chosen == {"store", "fill", "tail", "grow", "test", "part", "last"}   \* with a context
PC == {"idle", "locate", "lock", "take", "done", "free"} \cup Holding \cup Chosen

\* Type invariant.
TypeOK ==
    /\ linked \in [Inode -> BOOLEAN]
    /\ slab \in Seq(Inode)
    /\ fresh \in SUBSET Inode
    /\ slot \in [Place -> Chunk \cup {None}]
    /\ ctx \in [Inode -> SUBSET Chunk]
    /\ size \in [Inode -> Int]
    /\ bitmap \in [Chunk -> {0, 1}]
    /\ which \in [Chunk -> Place \cup {None}]
    /\ csize \in [Chunk -> 0 .. CHUNK_SIZE]
    /\ i \in Chunk /\ count \in 0 .. CHUNK_NUM
    /\ file_lock \in [Inode -> Worker \cup {None}]
    /\ context_lock \in Worker \cup {None}
    /\ pc \in [Worker -> PC]
    /\ op \in [Worker -> {"none", "read", "write", "delete"}]
    /\ head \in [Worker -> Inode \cup {None}]
    /\ off \in [Worker -> Nat]
    /\ un \in [Worker -> 0 .. SIZE_T - 1]
    /\ cnt \in [Worker -> Chunk \cup {None}]
    /\ rest \in [Worker -> SUBSET Chunk]
    /\ req \in [Worker -> 0 .. MaxSize]
    /\ got \in [Worker -> 0 .. SIZE_T - 1]
    /\ crashed \in {"no", "full", "offset"}

\* The index of the files and the chunks agree: the pointer in a place and the
\* back pointer of the chunk (which reset_indoe goes by) name each other, so no
\* chunk is in two places, however many writers race to fill the same place.
OneOwner == \A p \in Place, c \in Chunk : slot[p] = c <=> which[c] = p

\* The bitmap is exact: a chunk is marked when it is in a file or on its way
\* into one, and otherwise free; nothing leaks and nothing is given twice.
BitmapExact == \A c \in Chunk :
    bitmap[c] = 1 <=> \/ which[c] # None
                      \/ \E w \in Worker : pc[w] = "link" /\ cnt[w] = c

\* A writer or reader that has looked a context up works on the chunk that is
\* in that place of that file, whatever the others do meanwhile.
StableTarget == \A w \in Worker :
    pc[w] \in Chosen => cnt[w] # None /\ slot[At(w)] = cnt[w]

\* The list of an inode has the chunks of its index, all of them and no others
\* (of which a removal has freed some): removing the file frees them all.
ListIsIndex == \A c \in Chunk :
    /\ \A f \in Inode : c \in ctx[f] => which[c] # None /\ which[c][1] = f
    /\ \A w \in Worker : c \in rest[w] => which[c] # None /\ which[c][1] = head[w]
    /\ which[c] # None => \/ c \in ctx[which[c][1]]
                          \/ \E w \in Worker : c \in rest[w]

\* A chunk is found in the same file through the index, by which it is read
\* and written, through its back pointer and through the list of the inode,
\* by both of which it is removed (level3_local_index, reset_indoe).
ChunksBelong == OneOwner /\ ListIsIndex

\* An inode is in one place only: linked in a directory, in the slab (once),
\* being removed, or not malloc'ed yet; outside the directories its chunks are
\* gone by the time it can be handed out again.
SlabIsUnused ==
    /\ \A j, k \in 1 .. Len(slab) : slab[j] = slab[k] => j = k
    /\ \A j \in 1 .. Len(slab) : /\ ~linked[slab[j]] /\ slab[j] \notin fresh
                                 /\ size[slab[j]] = 0
                                 /\ \A k \in Slot : slot[<<slab[j], k>>] = None
                                 /\ \A w \in Worker : head[w] # slab[j]
    /\ \A f \in fresh : ~linked[f] /\ \A w \in Worker : head[w] # f

\* What is written of the chunks in the places of a file.
Sizes(f) == [k \in Slot |-> IF slot[<<f, k>>] = None THEN 0 ELSE csize[slot[<<f, k>>]]]

\* size is "the size really written" (dhmp_fs.h:131): the sum of the sizes of
\* the chunks, though writers update both under racing tests.
SizeIsSum == \A f \in Inode : linked[f] => size[f] = SumFunction(Sizes(f))

\* dhmp_fs_io.c:318 "read_size, the length read": dhmp_fs_read returns no more
\* than it was asked for, which is what the buffer has room for.
ReadFits == \A w \in Worker : got[w] <= req[w]

\* Inductive strengthening: who holds the locks, ...
LockHolders ==
    /\ \A w \in Worker : pc[w] \in Holding => file_lock[head[w]] = w
    /\ \A w \in Worker : pc[w] = "scan" => context_lock = w

\* ... which inode a worker is at (nobody else is at one that is removed), ...
Heads ==
    /\ \A w \in Worker : pc[w] = "idle" <=> head[w] = None
    /\ \A w \in Worker : pc[w] \notin {"idle", "free"} => linked[head[w]]
    /\ \A w \in Worker : pc[w] = "free" => ~linked[head[w]]
    /\ \A v, w \in Worker : pc[w] = "free" /\ head[v] = head[w] => v = w
    /\ \A w \in Worker : rest[w] # {} => pc[w] = "free"
    /\ \A f \in Inode : ~linked[f] => ctx[f] = {}

\* ... and what it knows of the place and the chunk it is at.
Knows == \A w \in Worker :
    /\ pc[w] \in {"lock", "take"} \cup Holding \cup Chosen => At(w) \in Place
    /\ pc[w] \in {"get", "scan", "link"} => slot[At(w)] = None
    /\ pc[w] = "take" => slot[At(w)] # None
    /\ pc[w] = "link" => cnt[w] # None /\ which[cnt[w]] = None
    /\ \A v \in Worker : pc[v] = "link" /\ pc[w] = "link" /\ cnt[v] = cnt[w] => v = w
    /\ pc[w] = "fill" => un[w] >= Room(w)
    /\ pc[w] \in {"tail", "grow"} => un[w] < Room(w)

\* An inode that is in no directory has no bytes.
Emptied == \A f \in Inode : ~linked[f] => size[f] = 0

\* A chunk that is in no file has no size: the next file it gets into has not
\* grown by it yet.
Unsized == \A c \in Chunk : which[c] = None => csize[c] = 0

Core == OneOwner /\ BitmapExact /\ StableTarget /\ ListIsIndex
IInv == TypeOK /\ LockHolders /\ Heads /\ Knows /\ Core /\ Emptied /\ SlabIsUnused
SizeInv == IInv /\ Unsized /\ SizeIsSum

\* The files' index implements the abstract ownership of chunks.
Owners == INSTANCE ChunkOwners WITH owner <- which, NoPlace <- None
Owned == Owners!Spec

=============================================================================
