--------------------------- MODULE FsIndexProofs ---------------------------
(***************************************************************************)
(* Proofs about FsIndex, for any number of workers, inodes, chunks and     *)
(* places, and any sizes.                                                  *)
(***************************************************************************)
EXTENDS FsIndex, TLAPS, WellFoundedInduction, FiniteSetTheorems

\* The place and the offset in the chunk that an offset stands for.
LEMMA DivMod == ASSUME NEW x \in Nat
                PROVE  x \div CHUNK_SIZE \in Nat /\ x % CHUNK_SIZE \in 0 .. CHUNK_SIZE - 1
  BY ChunkAssumption

\* size_t arithmetic stays in its range.
LEMMA SizeT == ASSUME NEW x \in Int PROVE x % SIZE_T \in 0 .. SIZE_T - 1
  BY SizeTAssumption, ArgAssumption, ChunkAssumption

\* The argument of a call is a size_t.
LEMMA ArgRange == ASSUME NEW n \in 1 .. MaxSize
                  PROVE  n \in 0 .. SIZE_T - 1 /\ n \in 0 .. MaxSize /\ n > 0
  <1>1. CHUNK_NUM * CHUNK_SIZE \in Nat
    BY ChunkAssumption
  <1> QED BY <1>1, SizeTAssumption, ArgAssumption

\* Zero is in every range.
LEMMA Zero == /\ 0 \in 0 .. SIZE_T - 1 /\ 0 \in 0 .. MaxSize /\ 0 \in 0 .. CHUNK_SIZE
              /\ CHUNK_SIZE \in 0 .. CHUNK_SIZE /\ 0 \in 0 .. CHUNK_NUM
  <1>1. CHUNK_NUM * CHUNK_SIZE \in Nat
    BY ChunkAssumption
  <1> QED BY <1>1, ChunkAssumption, SizeTAssumption, ArgAssumption

\* The room in a chunk and the end of a write in it.
LEMMA RoomType == ASSUME TypeOK, NEW w \in Worker
                  PROVE  /\ chunk_offset(w) \in 0 .. CHUNK_SIZE - 1
                         /\ Room(w) \in 1 .. CHUNK_SIZE
                         /\ end_offset(w) \in Nat
                         /\ un[w] < Room(w) => end_offset(w) \in 0 .. CHUNK_SIZE
  <1>1. off[w] % CHUNK_SIZE \in 0 .. CHUNK_SIZE - 1
    BY DivMod DEF TypeOK
  <1>2. un[w] \in Nat
    BY SizeTAssumption DEF TypeOK
  <1> QED BY <1>1, <1>2, ChunkAssumption DEF chunk_offset, Room, end_offset

\* A return leaves well-typed locals.
LEMMA ReturnType == ASSUME TypeOK, NEW w \in Worker, Return(w)
                    PROVE  /\ pc' \in [Worker -> PC]
                           /\ op' \in [Worker -> {"none", "read", "write", "delete"}]
                           /\ head' \in [Worker -> Inode \cup {None}]
                           /\ off' \in [Worker -> Nat]
                           /\ un' \in [Worker -> 0 .. SIZE_T - 1]
                           /\ cnt' \in [Worker -> Chunk \cup {None}]
                           /\ rest' \in [Worker -> SUBSET Chunk]
                           /\ req' \in [Worker -> 0 .. MaxSize]
                           /\ got' \in [Worker -> 0 .. SIZE_T - 1]
  <1>1. /\ pc' \in [Worker -> PC] /\ op' \in [Worker -> {"none", "read", "write", "delete"}]
        /\ head' \in [Worker -> Inode \cup {None}]
    BY DEF Return, TypeOK, PC
  <1>2. off' \in [Worker -> Nat] /\ un' \in [Worker -> 0 .. SIZE_T - 1]
        /\ req' \in [Worker -> 0 .. MaxSize] /\ got' \in [Worker -> 0 .. SIZE_T - 1]
    BY Zero DEF Return, TypeOK
  <1> QED BY <1>1, <1>2 DEF Return, TypeOK

\* Every step preserves the types.
LEMMA TypeStep == TypeOK /\ Knows /\ StableTarget /\ Heads /\ [Next]_vars => TypeOK'
<1> SUFFICES ASSUME TypeOK /\ Knows /\ StableTarget /\ Heads, [Next]_vars PROVE TypeOK'
  OBVIOUS
<1>1. CASE UNCHANGED vars
  BY <1>1 DEF TypeOK, Holding, Chosen, PC, Knows, diskVars, lockVars, inodeVars, argVars,
      loopVars, vars
<1>2. ASSUME NEW f \in Inode, Create(f) PROVE TypeOK'
  <2>1. slab' \in Seq(Inode) /\ fresh' \in SUBSET Inode
    <3>1. CASE slab # <<>> /\ f = Head(slab) /\ slab' = Tail(slab) /\ UNCHANGED fresh
      BY <3>1 DEF TypeOK
    <3>2. CASE slab = <<>> /\ f \in fresh /\ fresh' = fresh \ {f} /\ UNCHANGED slab
      BY <3>2 DEF TypeOK
    <3> QED BY <1>2, <3>1, <3>2 DEF Create
  <2>2. linked' \in [Inode -> BOOLEAN]
    BY <1>2 DEF Create, TypeOK
  <2> QED BY <1>2, <2>1, <2>2 DEF Create, TypeOK, diskVars, lockVars, inodeVars, argVars,
      loopVars, vars
<1>3. ASSUME NEW w \in Worker, NEW f \in Inode, StartDelete(w, f) PROVE TypeOK'
  <2>1. linked' \in [Inode -> BOOLEAN] /\ size' \in [Inode -> Int]
    BY <1>3 DEF StartDelete, TypeOK
  <2>2. rest' \in [Worker -> SUBSET Chunk] /\ ctx' \in [Inode -> SUBSET Chunk]
    BY <1>3 DEF StartDelete, TypeOK
  <2>3. op' \in [Worker -> {"none", "read", "write", "delete"}]
        /\ head' \in [Worker -> Inode \cup {None}] /\ pc' \in [Worker -> PC]
    BY <1>3 DEF StartDelete, Goto, TypeOK, Holding, Chosen, PC
  <2> QED BY <1>3, <2>1, <2>2, <2>3 DEF StartDelete, TypeOK, diskVars, lockVars, inodeVars,
      argVars, loopVars, vars
<1>4. ASSUME NEW w \in Worker, NEW o \in {"read", "write"}, NEW f \in Inode,
            NEW offset \in 0 .. MaxOffset, NEW bytes \in 1 .. MaxSize,
            StartAccess(w, o, f, offset, bytes) PROVE TypeOK'
  <2>1. un' \in [Worker -> 0 .. SIZE_T - 1] /\ req' \in [Worker -> 0 .. MaxSize]
    BY <1>4, ArgRange DEF StartAccess, TypeOK
  <2>2. off' \in [Worker -> Nat]
    BY <1>4, ArgAssumption DEF StartAccess, TypeOK
  <2>3. op' \in [Worker -> {"none", "read", "write", "delete"}]
        /\ head' \in [Worker -> Inode \cup {None}] /\ pc' \in [Worker -> PC]
    BY <1>4 DEF StartAccess, Goto, TypeOK, Holding, Chosen, PC
  <2> QED BY <1>4, <2>1, <2>2, <2>3 DEF StartAccess, TypeOK, diskVars, lockVars, inodeVars,
      argVars, loopVars, vars
<1>5. ASSUME NEW w \in Worker, Locate(w) PROVE TypeOK'
  BY <1>5 DEF Locate, Goto, TypeOK, Holding, Chosen, PC, Knows, diskVars, lockVars,
      inodeVars, argVars, loopVars, vars
<1>6. ASSUME NEW w \in Worker, BeyondIndex(w) PROVE TypeOK'
  BY <1>6 DEF BeyondIndex, Goto, TypeOK, Holding, Chosen, PC, Knows, diskVars, lockVars,
      inodeVars, argVars, loopVars, vars
<1>7. ASSUME NEW w \in Worker, LockFile(w) PROVE TypeOK'
  BY <1>7 DEF LockFile, Goto, TypeOK, Holding, Chosen, PC, Knows, diskVars, lockVars,
      inodeVars, argVars, loopVars, vars
<1>8. ASSUME NEW w \in Worker, Recheck(w) PROVE TypeOK'
  BY <1>8 DEF Recheck, Goto, TypeOK, Holding, Chosen, PC, Knows, diskVars, lockVars,
      inodeVars, argVars, loopVars, vars
<1>9. ASSUME NEW w \in Worker, LockContext(w) PROVE TypeOK'
  <2>1. pc' \in [Worker -> PC]
    BY <1>9 DEF LockContext, Goto, TypeOK, Holding, Chosen, PC
  <2> QED BY <1>9, <2>1, Zero DEF LockContext, TypeOK, diskVars, lockVars, inodeVars,
      argVars, loopVars, vars
<1>10. ASSUME NEW w \in Worker, Scan(w) PROVE TypeOK'
  <2>1. i' \in Chunk /\ count' \in 0 .. CHUNK_NUM
    BY <1>10, ChunkAssumption DEF Scan, TypeOK, Chunk
  <2> QED BY <1>10, <2>1 DEF Scan, TypeOK, diskVars, lockVars, inodeVars, argVars, loopVars,
      vars
<1>11. ASSUME NEW w \in Worker, Found(w) PROVE TypeOK'
  BY <1>11 DEF Found, Goto, TypeOK, Holding, Chosen, PC, Knows, diskVars, lockVars,
      inodeVars, argVars, loopVars, vars
<1>12. ASSUME NEW w \in Worker, NoSpace(w) PROVE TypeOK'
  BY <1>12 DEF NoSpace, TypeOK, Holding, Chosen, PC, Knows, diskVars, lockVars, inodeVars,
      argVars, loopVars, vars
<1>13. ASSUME NEW w \in Worker, Link(w) PROVE TypeOK'
  <2>1. At(w) \in Place
    BY <1>13 DEF Link, Knows, Holding
  <2>2. cnt[w] \in Chunk /\ slot' \in [Place -> Chunk \cup {None}]
    BY <1>13, <2>1 DEF Link, Knows, TypeOK
  <2>3. which' \in [Chunk -> Place \cup {None}]
    BY <1>13, <2>1, <2>2 DEF Link, TypeOK
  <2>4. ctx' \in [Inode -> SUBSET Chunk] /\ file_lock' \in [Inode -> Worker \cup {None}]
    BY <1>13, <2>2 DEF Link, TypeOK
  <2>5. pc' \in [Worker -> PC]
    BY <1>13 DEF Link, Goto, TypeOK, Holding, Chosen, PC
  <2> QED BY <1>13, <2>2, <2>3, <2>4, <2>5 DEF Link, TypeOK, diskVars, lockVars, inodeVars,
      argVars, loopVars, vars
<1>14. ASSUME NEW w \in Worker, Take(w) PROVE TypeOK'
  BY <1>14 DEF Take, Goto, TypeOK, Holding, Chosen, PC, Knows, diskVars, lockVars, inodeVars,
      argVars, loopVars, vars
<1>15. ASSUME NEW w \in Worker, Store(w) PROVE TypeOK'
  BY <1>15 DEF Store, Goto, TypeOK, Holding, Chosen, PC, Knows, diskVars, lockVars,
      inodeVars, argVars, loopVars, vars
<1>16. ASSUME NEW w \in Worker, Fill(w) PROVE TypeOK'
  <2>1. csize' \in [Chunk -> 0 .. CHUNK_SIZE]
    BY <1>16, Zero DEF Fill, TypeOK
  <2>2. cnt[w] \in Chunk
    BY <1>16 DEF Fill, StableTarget, Chosen, TypeOK
  <2>3. CHUNK_SIZE - csize[cnt[w]] \in Int
    BY <2>2, ChunkAssumption DEF TypeOK
  <2> DEFINE more == CHUNK_SIZE - csize[cnt[w]]
  <2>a. head[w] \in Inode
    BY <1>16 DEF Fill, Heads, TypeOK
  <2>b. size[head[w]] + more \in Int
    BY <2>3, <2>a DEF TypeOK
  <2>4. size' \in [Inode -> Int]
    <3>1. size' = [size EXCEPT ![head[w]] = size[head[w]] + more]
      BY <1>16 DEF Fill
    <3> HIDE DEF more
    <3> QED BY <3>1, <2>b DEF TypeOK
  <2>5. CASE un[w] = Room(w)
    BY <1>16, <2>1, <2>4, <2>5, ReturnType DEF Fill, TypeOK, diskVars, lockVars, inodeVars,
        argVars, loopVars, vars
  <2>6. CASE un[w] # Room(w)
    <3>0. un[w] \in 0 .. SIZE_T - 1 /\ off[w] \in Nat /\ un[w] >= Room(w)
      BY <1>16 DEF Fill, Knows, TypeOK
    <3>1. un[w] - Room(w) \in 0 .. SIZE_T - 1 /\ off[w] + Room(w) \in Nat
      BY <3>0, RoomType, SizeTAssumption, ChunkAssumption
    <3>2. un' \in [Worker -> 0 .. SIZE_T - 1] /\ off' \in [Worker -> Nat]
      BY <1>16, <2>6, <3>1 DEF Fill, TypeOK
    <3>3. pc' = [pc EXCEPT ![w] = "locate"] /\ UNCHANGED <<argVars, cnt, rest, got>>
      BY <1>16, <2>6 DEF Fill, Goto
    <3>4. pc' \in [Worker -> PC]
      BY <3>3 DEF TypeOK, Holding, Chosen, PC
    <3> QED BY <1>16, <2>1, <2>4, <3>2, <3>3, <3>4 DEF Fill, TypeOK, diskVars, lockVars,
        inodeVars, argVars, loopVars, vars
  <2> QED BY <2>5, <2>6
<1>17. ASSUME NEW w \in Worker, Tail_(w) PROVE TypeOK'
  <2>1. CASE end_offset(w) > csize[cnt[w]]
    BY <1>17, <2>1 DEF Tail_, Goto, TypeOK, Holding, Chosen, PC, diskVars, lockVars,
        inodeVars, argVars, loopVars, vars
  <2>2. CASE ~(end_offset(w) > csize[cnt[w]])
    BY <1>17, <2>2, ReturnType DEF Tail_, TypeOK, diskVars, lockVars, inodeVars, argVars,
        loopVars, vars
  <2> QED BY <2>1, <2>2
<1>18. ASSUME NEW w \in Worker, Grow(w) PROVE TypeOK'
  <2>1. cnt[w] \in Chunk /\ end_offset(w) \in 0 .. CHUNK_SIZE
    BY <1>18, RoomType DEF Grow, Knows, StableTarget, Chosen, TypeOK
  <2>2. end_offset(w) - csize[cnt[w]] \in Int
    BY <2>1, ChunkAssumption DEF TypeOK
  <2> DEFINE more == end_offset(w) - csize[cnt[w]]
  <2>a. head[w] \in Inode
    BY <1>18 DEF Grow, Heads, TypeOK
  <2>b. size[head[w]] + more \in Int
    BY <2>2, <2>a DEF TypeOK
  <2>3. csize' \in [Chunk -> 0 .. CHUNK_SIZE] /\ size' \in [Inode -> Int]
    <3>1. \/ /\ size' = [size EXCEPT ![head[w]] = size[head[w]] + more]
             /\ csize' = [csize EXCEPT ![cnt[w]] = end_offset(w)]
          \/ UNCHANGED <<size, csize>>
      BY <1>18 DEF Grow
    <3> HIDE DEF more
    <3>2. size' \in [Inode -> Int]
      BY <3>1, <2>b DEF TypeOK
    <3>3. csize' \in [Chunk -> 0 .. CHUNK_SIZE]
      BY <3>1, <2>1 DEF TypeOK
    <3> QED BY <3>2, <3>3
  <2> QED BY <1>18, <2>3, ReturnType DEF Grow, TypeOK, diskVars, lockVars, inodeVars,
      argVars, loopVars, vars
<1>19. ASSUME NEW w \in Worker, Test(w) PROVE TypeOK'
  BY <1>19 DEF Test, Goto, TypeOK, Holding, Chosen, PC, Knows, diskVars, lockVars, inodeVars,
      argVars, loopVars, vars
<1>20. ASSUME NEW w \in Worker, ReadPart(w) PROVE TypeOK'
  <2>0. cnt[w] \in Chunk /\ csize[cnt[w]] \in Int /\ chunk_offset(w) \in Int
    <3>1. cnt[w] \in Chunk
      BY <1>20 DEF ReadPart, StableTarget, Chosen, TypeOK
    <3> QED BY <3>1, RoomType, ChunkAssumption DEF TypeOK
  <2> DEFINE now == (csize[cnt[w]] - chunk_offset(w)) % SIZE_T
  <2>1. now \in Nat /\ SIZE_T \in Nat
    BY <2>0, SizeT, SizeTAssumption
  <2>2. /\ (got[w] + now) % SIZE_T \in 0 .. SIZE_T - 1
        /\ (un[w] - now) % SIZE_T \in 0 .. SIZE_T - 1
        /\ off[w] + now \in Nat
    <3>1. got[w] + now \in Int /\ un[w] - now \in Int
      BY <2>1 DEF TypeOK
    <3>2. off[w] + now \in Nat
      BY <2>1 DEF TypeOK
    <3> HIDE DEF now
    <3> QED BY <3>1, <3>2, SizeT
  <2>3. pc' \in [Worker -> PC]
    BY <1>20 DEF ReadPart, Goto, TypeOK, Holding, Chosen, PC
  <2>4. CASE now = 0
    BY <1>20, <2>3, <2>4 DEF ReadPart, TypeOK, diskVars, lockVars, inodeVars, argVars,
        loopVars, vars
  <2>5. CASE now # 0
    <3>1. /\ got' \in [Worker -> 0 .. SIZE_T - 1] /\ un' \in [Worker -> 0 .. SIZE_T - 1]
          /\ off' \in [Worker -> Nat]
      <4>1. /\ got' = [got EXCEPT ![w] = (@ + now) % SIZE_T]
            /\ un' = [un EXCEPT ![w] = (@ - now) % SIZE_T]
            /\ off' = [off EXCEPT ![w] = @ + now]
        BY <1>20, <2>5 DEF ReadPart
      <4> HIDE DEF now
      <4> QED BY <2>2, <4>1 DEF TypeOK
    <3> QED BY <1>20, <2>3, <2>5, <3>1 DEF ReadPart, TypeOK, diskVars, lockVars, inodeVars,
        argVars, loopVars, vars
  <2> QED BY <2>4, <2>5
<1>21. ASSUME NEW w \in Worker, ReadLast(w) PROVE TypeOK'
  <2>1. (got[w] + un[w]) % SIZE_T \in 0 .. SIZE_T - 1
    <3>1. got[w] + un[w] \in Int
      BY SizeTAssumption DEF TypeOK
    <3> QED BY <3>1, SizeT
  <2>2. got' \in [Worker -> 0 .. SIZE_T - 1] /\ un' \in [Worker -> 0 .. SIZE_T - 1]
    BY <1>21, <2>1, Zero DEF ReadLast, TypeOK
  <2>3. pc' \in [Worker -> PC]
    BY <1>21 DEF ReadLast, Goto, TypeOK, Holding, Chosen, PC
  <2> QED BY <1>21, <2>2, <2>3 DEF ReadLast, TypeOK, diskVars, lockVars, inodeVars, argVars,
      loopVars, vars
<1>22. ASSUME NEW w \in Worker, FinishRead(w) PROVE TypeOK'
  BY <1>22, ReturnType DEF FinishRead, TypeOK, diskVars, lockVars, inodeVars, argVars,
      loopVars, vars
<1>23. ASSUME NEW w \in Worker, FreeChunk(w) PROVE TypeOK'
  <2>1. PICK c \in rest[w] :
           /\ slot' = [slot EXCEPT ![which[c]] = None]
           /\ which' = [which EXCEPT ![c] = None]
           /\ csize' = [csize EXCEPT ![c] = 0]
           /\ bitmap' = [bitmap EXCEPT ![c] = 0]
           /\ rest' = [rest EXCEPT ![w] = @ \ {c}]
    BY <1>23 DEF FreeChunk
  <2>2. csize' \in [Chunk -> 0 .. CHUNK_SIZE] /\ bitmap' \in [Chunk -> {0, 1}]
    BY <2>1, Zero DEF TypeOK
  <2>3. rest' \in [Worker -> SUBSET Chunk] /\ which' \in [Chunk -> Place \cup {None}]
    BY <2>1 DEF TypeOK
  <2>4. slot' \in [Place -> Chunk \cup {None}]
    BY <2>1 DEF TypeOK
  <2> QED BY <1>23, <2>2, <2>3, <2>4 DEF FreeChunk, TypeOK, diskVars, lockVars, inodeVars,
      argVars, loopVars, vars
<1>24. ASSUME NEW w \in Worker, FinishDelete(w) PROVE TypeOK'
  <2>1. head[w] \in Inode
    BY <1>24 DEF FinishDelete, Heads, TypeOK
  <2>2. slab' \in Seq(Inode)
    BY <1>24, <2>1 DEF FinishDelete, TypeOK
  <2> QED BY <1>24, <2>2, ReturnType DEF FinishDelete, TypeOK, diskVars, lockVars, inodeVars,
      argVars, loopVars, vars
<1> QED
  BY <1>1, <1>2, <1>3, <1>4, <1>5, <1>6, <1>7, <1>8, <1>9, <1>10, <1>11, <1>12, <1>13, <1>14,
      <1>15, <1>16, <1>17, <1>18, <1>19, <1>20, <1>21, <1>22, <1>23, <1>24 DEF Next, Access

\* The shapes of the steps of an access, without their arithmetic: the worker
\* goes on to another place, with file and locals as they are, or returns.
AccessPC == PC \ {"idle", "free"}
Moves(w) == /\ pc[w] \in AccessPC
            /\ \E q \in AccessPC : pc' = [pc EXCEPT ![w] = q]
            /\ UNCHANGED <<inodeVars, argVars, rest>>
Returns(w) == pc[w] \in AccessPC /\ Return(w) /\ UNCHANGED <<inodeVars>>
Lists(w) == ctx' = ctx \/ \E c \in Chunk : ctx' = [ctx EXCEPT ![head[w]] = @ \cup {c}]
Quiet(w) == /\ pc[w] \notin Holding /\ UNCHANGED lockVars
            /\ \E q \in PC \ Holding : pc' = [pc EXCEPT ![w] = q]
            /\ UNCHANGED head \/ head' = [head EXCEPT ![w] = None]

\* Every step of an access has such a shape.
LEMMA Shapes == ASSUME TypeOK, Knows, NEW w \in Worker, Access(w)
                PROVE  (Moves(w) \/ Returns(w)) /\ Lists(w)
<1> USE DEF TypeOK, AccessPC, Moves, Returns, Lists, PC, Holding, Chosen, inodeVars, argVars,
            loopVars, diskVars
<1>1. CASE Locate(w)
  BY <1>1 DEF Locate, Goto
<1>2. CASE BeyondIndex(w)
  <2>1. CASE op[w] = "read"
    BY <1>2, <2>1 DEF BeyondIndex, Goto
  <2>2. CASE ~(op[w] = "read")
    BY <1>2, <2>2 DEF BeyondIndex, Goto
  <2> QED BY <2>1, <2>2
<1>3. CASE LockFile(w)
  BY <1>3 DEF LockFile, Goto
<1>4. CASE Recheck(w)
  <2>1. CASE slot[At(w)] = None
    BY <1>4, <2>1 DEF Recheck, Goto
  <2>2. CASE ~(slot[At(w)] = None)
    BY <1>4, <2>2 DEF Recheck, Goto
  <2> QED BY <2>1, <2>2
<1>5. CASE LockContext(w)
  BY <1>5 DEF LockContext, Goto
<1>6. CASE Scan(w)
  BY <1>6 DEF Scan
<1>7. CASE Found(w)
  BY <1>7 DEF Found, Goto
<1>8. CASE NoSpace(w)
  BY <1>8 DEF NoSpace
<1>9. CASE Link(w)
  <2>1. cnt[w] \in Chunk
    BY <1>9 DEF Link, Knows
  <2> QED BY <1>9, <2>1 DEF Link, Goto
<1>10. CASE Take(w)
  BY <1>10 DEF Take, Goto
<1>11. CASE Store(w)
  BY <1>11 DEF Store, Goto
<1>12. CASE Fill(w)
  <2>1. CASE un[w] = Room(w)
    BY <1>12, <2>1 DEF Fill, Goto
  <2>2. CASE ~(un[w] = Room(w))
    BY <1>12, <2>2 DEF Fill, Goto
  <2> QED BY <2>1, <2>2
<1>13. CASE Tail_(w)
  <2>1. CASE end_offset(w) > csize[cnt[w]]
    BY <1>13, <2>1 DEF Tail_, Goto
  <2>2. CASE ~(end_offset(w) > csize[cnt[w]])
    BY <1>13, <2>2 DEF Tail_, Goto
  <2> QED BY <2>1, <2>2
<1>14. CASE Grow(w)
  BY <1>14 DEF Grow
<1>15. CASE Test(w)
  BY <1>15 DEF Test, Goto
<1>16. CASE ReadPart(w)
  <2>1. CASE (csize[cnt[w]] - chunk_offset(w)) % SIZE_T = 0
    BY <1>16, <2>1 DEF ReadPart, Goto
  <2>2. CASE ~((csize[cnt[w]] - chunk_offset(w)) % SIZE_T = 0)
    BY <1>16, <2>2 DEF ReadPart, Goto
  <2> QED BY <2>1, <2>2
<1>17. CASE ReadLast(w)
  BY <1>17 DEF ReadLast, Goto
<1>18. CASE FinishRead(w)
  BY <1>18 DEF FinishRead
<1> QED
  BY <1>1, <1>2, <1>3, <1>4, <1>5, <1>6, <1>7, <1>8, <1>9, <1>10, <1>11, <1>12, <1>13, <1>14,
      <1>15, <1>16, <1>17, <1>18 DEF Access

\* All but five of them have nothing to do with locks.
LEMMA QuietShapes ==
    ASSUME TypeOK, NEW w \in Worker,
           Locate(w) \/ BeyondIndex(w) \/ Take(w) \/ Store(w) \/ Fill(w) \/ Tail_(w)
           \/ Grow(w) \/ Test(w) \/ ReadPart(w) \/ ReadLast(w) \/ FinishRead(w)
    PROVE  Quiet(w)
<1> USE DEF TypeOK, Quiet, Return, PC, Holding, Chosen, lockVars, argVars, loopVars
<1>1. CASE Locate(w)
  BY <1>1 DEF Locate, Goto
<1>2. CASE BeyondIndex(w)
  <2>1. CASE op[w] = "read"
    BY <1>2, <2>1 DEF BeyondIndex, Goto
  <2>2. CASE ~(op[w] = "read")
    BY <1>2, <2>2 DEF BeyondIndex, Goto
  <2> QED BY <2>1, <2>2
<1>3. CASE Take(w)
  BY <1>3 DEF Take, Goto
<1>4. CASE Store(w)
  BY <1>4 DEF Store, Goto
<1>5. CASE Fill(w)
  <2>1. CASE un[w] = Room(w)
    BY <1>5, <2>1 DEF Fill, Goto
  <2>2. CASE ~(un[w] = Room(w))
    BY <1>5, <2>2 DEF Fill, Goto
  <2> QED BY <2>1, <2>2
<1>6. CASE Tail_(w)
  <2>1. CASE end_offset(w) > csize[cnt[w]]
    BY <1>6, <2>1 DEF Tail_, Goto
  <2>2. CASE ~(end_offset(w) > csize[cnt[w]])
    BY <1>6, <2>2 DEF Tail_, Goto
  <2> QED BY <2>1, <2>2
<1>7. CASE Grow(w)
  BY <1>7 DEF Grow
<1>8. CASE Test(w)
  BY <1>8 DEF Test, Goto
<1>9. CASE ReadPart(w)
  <2>1. CASE (csize[cnt[w]] - chunk_offset(w)) % SIZE_T = 0
    BY <1>9, <2>1 DEF ReadPart, Goto
  <2>2. CASE ~((csize[cnt[w]] - chunk_offset(w)) % SIZE_T = 0)
    BY <1>9, <2>2 DEF ReadPart, Goto
  <2> QED BY <2>1, <2>2
<1>10. CASE ReadLast(w)
  BY <1>10 DEF ReadLast, Goto
<1>11. CASE FinishRead(w)
  BY <1>11 DEF FinishRead
<1> QED
  BY <1>1, <1>2, <1>3, <1>4, <1>5, <1>6, <1>7, <1>8, <1>9, <1>10, <1>11

\* Every step keeps the locks with their holders.
LEMMA LockStep == TypeOK /\ LockHolders /\ Heads /\ [Next]_vars => LockHolders'
<1> SUFFICES ASSUME TypeOK /\ LockHolders /\ Heads, [Next]_vars PROVE LockHolders'
  OBVIOUS
<1>1. CASE UNCHANGED vars
  BY NoneAssumption, <1>1 DEF TypeOK, LockHolders, Heads, Holding, diskVars, lockVars,
      inodeVars, argVars, loopVars, vars
<1>2. ASSUME NEW f \in Inode, Create(f) PROVE LockHolders'
  BY NoneAssumption, <1>2 DEF Create, TypeOK, LockHolders, Heads, Holding, diskVars,
      lockVars, inodeVars, argVars, loopVars, vars
<1>3. ASSUME NEW w \in Worker, NEW f \in Inode, StartDelete(w, f) PROVE LockHolders'
  BY NoneAssumption, <1>3 DEF StartDelete, Goto, TypeOK, LockHolders, Heads, Holding,
      diskVars, lockVars, inodeVars, argVars, loopVars, vars
<1>4. ASSUME NEW w \in Worker, NEW o \in {"read", "write"}, NEW f \in Inode,
            NEW offset \in 0 .. MaxOffset, NEW bytes \in 1 .. MaxSize,
            StartAccess(w, o, f, offset, bytes) PROVE LockHolders'
  BY NoneAssumption, <1>4 DEF StartAccess, Goto, TypeOK, LockHolders, Heads, Holding,
      diskVars, lockVars, inodeVars, argVars, loopVars, vars
<1>5. ASSUME NEW w \in Worker, LockFile(w) PROVE LockHolders'
  BY NoneAssumption, <1>5 DEF LockFile, Goto, TypeOK, LockHolders, Heads, Holding, diskVars,
      lockVars, inodeVars, argVars, loopVars, vars
<1>6. ASSUME NEW w \in Worker, Recheck(w) PROVE LockHolders'
  <2>0. \A v \in Worker : v # w /\ pc[v] \in Holding => head[v] # head[w]
    BY <1>6 DEF Recheck, LockHolders, Holding
  <2>1. CASE slot[At(w)] = None
    <3>1. pc' = [pc EXCEPT ![w] = "get"] /\ UNCHANGED <<head, lockVars>> /\ pc[w] = "recheck"
      BY <1>6, <2>1 DEF Recheck, Goto, argVars, lockVars
    <3> QED BY <3>1 DEF TypeOK, LockHolders, Holding, lockVars
  <2>2. CASE slot[At(w)] # None
    <3>1. /\ pc' = [pc EXCEPT ![w] = "take"] /\ UNCHANGED <<head, context_lock>>
          /\ file_lock' = [file_lock EXCEPT ![head[w]] = None] /\ pc[w] = "recheck"
      BY <1>6, <2>2 DEF Recheck, Goto, argVars
    <3> QED BY <2>0, <3>1 DEF TypeOK, LockHolders, Holding
  <2> QED BY <2>1, <2>2
<1>7. ASSUME NEW w \in Worker, LockContext(w) PROVE LockHolders'
  BY NoneAssumption, <1>7 DEF LockContext, Goto, TypeOK, LockHolders, Heads, Holding,
      diskVars, lockVars, inodeVars, argVars, loopVars, vars
<1>8. ASSUME NEW w \in Worker, Scan(w) PROVE LockHolders'
  BY NoneAssumption, <1>8 DEF Scan, TypeOK, LockHolders, Heads, Holding, diskVars, lockVars,
      inodeVars, argVars, loopVars, vars
<1>9. ASSUME NEW w \in Worker, Found(w) PROVE LockHolders'
  BY NoneAssumption, <1>9 DEF Found, Goto, TypeOK, LockHolders, Heads, Holding, diskVars,
      lockVars, inodeVars, argVars, loopVars, vars
<1>10. ASSUME NEW w \in Worker, NoSpace(w) PROVE LockHolders'
  BY NoneAssumption, <1>10 DEF NoSpace, TypeOK, LockHolders, Heads, Holding, diskVars,
      lockVars, inodeVars, argVars, loopVars, vars
<1>11. ASSUME NEW w \in Worker, Link(w) PROVE LockHolders'
  BY NoneAssumption, <1>11 DEF Link, Goto, TypeOK, LockHolders, Heads, Holding, diskVars,
      lockVars, inodeVars, argVars, loopVars, vars
<1>12. ASSUME NEW w \in Worker, FreeChunk(w) PROVE LockHolders'
  BY NoneAssumption, <1>12 DEF FreeChunk, TypeOK, LockHolders, Heads, Holding, diskVars,
      lockVars, inodeVars, argVars, loopVars, vars
<1>13. ASSUME NEW w \in Worker, FinishDelete(w) PROVE LockHolders'
  BY NoneAssumption, <1>13 DEF FinishDelete, Return, TypeOK, LockHolders, Heads, Holding,
      diskVars, lockVars, inodeVars, argVars, loopVars, vars
<1>14. ASSUME NEW w \in Worker,
              Locate(w) \/ BeyondIndex(w) \/ Take(w) \/ Store(w) \/ Fill(w) \/ Tail_(w)
              \/ Grow(w) \/ Test(w) \/ ReadPart(w) \/ ReadLast(w) \/ FinishRead(w)
       PROVE  LockHolders'
  BY <1>14, QuietShapes DEF Quiet, TypeOK, LockHolders, Holding, lockVars
<1> QED
  BY <1>1, <1>2, <1>3, <1>4, <1>5, <1>6, <1>7, <1>8, <1>9, <1>10, <1>11, <1>12, <1>13,
      <1>14 DEF Next, Access

\* Going on and returning keep removals apart.
LEMMA ShapeHeads == ASSUME TypeOK, Heads, NEW w \in Worker, Moves(w) \/ Returns(w), Lists(w)
                    PROVE  Heads'
<1>a. linked[head[w]] /\ head[w] \in Inode
  BY DEF TypeOK, Heads, Moves, Returns, AccessPC, PC
<1>1. \A f \in Inode : ~linked[f] => ctx'[f] = {}
  BY <1>a DEF Lists, TypeOK, Heads
<1>2. CASE Moves(w)
  BY <1>1, <1>2 DEF Moves, Heads, TypeOK, AccessPC, inodeVars, argVars
<1>3. CASE Returns(w)
  BY <1>1, <1>3, NoneAssumption DEF Returns, Return, Heads, TypeOK, AccessPC, PC, inodeVars
<1> QED BY <1>2, <1>3

\* Every step keeps removals apart.
LEMMA HeadStep == TypeOK /\ Knows /\ Heads /\ SlabIsUnused /\ [Next]_vars => Heads'
<1> SUFFICES ASSUME TypeOK /\ Knows /\ Heads /\ SlabIsUnused, [Next]_vars PROVE Heads'
  OBVIOUS
<1>1. CASE UNCHANGED vars
  BY NoneAssumption, <1>1 DEF TypeOK, Heads, SlabIsUnused, PC, diskVars, lockVars, inodeVars,
      argVars, loopVars, vars
<1>2. ASSUME NEW f \in Inode, Create(f) PROVE Heads'
  <2>1. \A w \in Worker : head[w] # f
    <3>1. CASE slab # <<>> /\ f = Head(slab)
      <4>1. slab \in Seq(Inode)
        BY DEF TypeOK
      <4>2. 1 \in 1 .. Len(slab) /\ f = slab[1]
        BY <3>1, <4>1
      <4> QED BY <4>2 DEF SlabIsUnused
    <3>2. CASE f \in fresh
      BY <3>2 DEF SlabIsUnused
    <3> QED BY <1>2, <3>1, <3>2 DEF Create
  <2>2. linked' = [linked EXCEPT ![f] = TRUE] /\ UNCHANGED <<pc, head, rest, ctx>>
    BY <1>2 DEF Create, diskVars, lockVars, inodeVars, argVars, loopVars, vars
  <2> QED BY <2>1, <2>2 DEF TypeOK, Heads
<1>3. ASSUME NEW w \in Worker, NEW f \in Inode, StartDelete(w, f) PROVE Heads'
  BY NoneAssumption, <1>3 DEF StartDelete, Goto, TypeOK, Heads, SlabIsUnused, PC, diskVars,
      lockVars, inodeVars, argVars, loopVars, vars
<1>4. ASSUME NEW w \in Worker, NEW o \in {"read", "write"}, NEW f \in Inode,
            NEW offset \in 0 .. MaxOffset, NEW bytes \in 1 .. MaxSize,
            StartAccess(w, o, f, offset, bytes) PROVE Heads'
  BY NoneAssumption, <1>4 DEF StartAccess, Goto, TypeOK, Heads, SlabIsUnused, PC, diskVars,
      lockVars, inodeVars, argVars, loopVars, vars
<1>5. ASSUME NEW w \in Worker, Access(w) PROVE Heads'
  BY <1>5, Shapes, ShapeHeads
<1>6. ASSUME NEW w \in Worker, FreeChunk(w) PROVE Heads'
  BY NoneAssumption, <1>6 DEF FreeChunk, TypeOK, Heads, SlabIsUnused, PC, diskVars, lockVars,
      inodeVars, argVars, loopVars, vars
<1>7. ASSUME NEW w \in Worker, FinishDelete(w) PROVE Heads'
  BY NoneAssumption, <1>7 DEF FinishDelete, Return, TypeOK, Heads, SlabIsUnused, PC,
      diskVars, lockVars, inodeVars, argVars, loopVars, vars
<1> QED BY <1>1, <1>2, <1>3, <1>4, <1>5, <1>6, <1>7 DEF Next

\* What a step of w leaves alone: the locals of the others, ...
Frame(w) == \A v \in Worker \ {w} :
    /\ pc'[v] = pc[v] /\ head'[v] = head[v] /\ off'[v] = off[v]
    /\ un'[v] = un[v] /\ cnt'[v] = cnt[v] /\ rest'[v] = rest[v]

\* ... and, but for four kinds of steps, all that relates files to chunks.
Still(w) == /\ Frame(w)
            /\ slot' = slot /\ which' = which /\ bitmap' = bitmap /\ ctx' = ctx
            /\ pc[w] # "link" /\ pc'[w] # "link"
            /\ rest[w] = {} /\ rest'[w] = {}

\* A return is a step of that kind.
LEMMA ReturnStill ==
    ASSUME TypeOK, NEW w \in Worker, Return(w), pc[w] # "link", rest[w] = {},
           UNCHANGED <<slot, which, bitmap, ctx>>
    PROVE  Still(w)
  BY DEF TypeOK, Still, Frame, Return

\* Most steps are of that kind.
LEMMA Stills ==
    ASSUME TypeOK, Heads, NEW w \in Worker,
           Locate(w) \/ BeyondIndex(w) \/ LockFile(w) \/ Recheck(w) \/ LockContext(w) \/ Scan(w)
           \/ NoSpace(w) \/ Take(w) \/ Store(w) \/ Fill(w) \/ Tail_(w) \/ Grow(w)
           \/ Test(w) \/ ReadPart(w) \/ ReadLast(w) \/ FinishRead(w) \/ FinishDelete(w)
    PROVE  Still(w)
<1> USE DEF TypeOK, Heads, Still, Frame, Return, diskVars, lockVars, inodeVars, argVars, loopVars
<1>1. CASE Locate(w)
  BY <1>1 DEF Locate, Goto
<1>2. CASE BeyondIndex(w)
  <2>1. CASE op[w] = "read"
    BY <1>2, <2>1 DEF BeyondIndex, Goto
  <2>2. CASE ~(op[w] = "read")
    BY <1>2, <2>2 DEF BeyondIndex, Goto
  <2> QED BY <2>1, <2>2
<1>3. CASE LockFile(w)
  BY <1>3 DEF LockFile, Goto
<1>4. CASE Recheck(w)
  <2>1. CASE slot[At(w)] = None
    BY <1>4, <2>1 DEF Recheck, Goto
  <2>2. CASE ~(slot[At(w)] = None)
    BY <1>4, <2>2 DEF Recheck, Goto
  <2> QED BY <2>1, <2>2
<1>5. CASE LockContext(w)
  BY <1>5 DEF LockContext, Goto
<1>6. CASE Scan(w)
  BY <1>6 DEF Scan
<1>7. CASE NoSpace(w)
  BY <1>7 DEF NoSpace
<1>8. CASE Take(w)
  BY <1>8 DEF Take, Goto
<1>9. CASE Store(w)
  BY <1>9 DEF Store, Goto
<1>10. CASE Fill(w)
  <2>1. CASE un[w] = Room(w)
    <3>1. Return(w) /\ pc[w] # "link" /\ UNCHANGED <<slot, which, bitmap, ctx>> /\ rest[w] = {}
      BY <1>10, <2>1 DEF Fill
    <3> QED BY <3>1, ReturnStill
  <2>2. CASE ~(un[w] = Room(w))
    <3>1. /\ pc[w] # "link" /\ UNCHANGED <<slot, which, bitmap, ctx, rest, head, cnt>>
          /\ \E q \in {"locate", "grow"} : pc' = [pc EXCEPT ![w] = q]
          /\ rest[w] = {} /\ \A v \in Worker \ {w} : off'[v] = off[v] /\ un'[v] = un[v]
      BY <1>10, <2>2 DEF Fill, Goto
    <3> QED BY <3>1
  <2> QED BY <2>1, <2>2
<1>11. CASE Tail_(w)
  <2>1. CASE ~(end_offset(w) > csize[cnt[w]])
    <3>1. Return(w) /\ pc[w] # "link" /\ UNCHANGED <<slot, which, bitmap, ctx>> /\ rest[w] = {}
      BY <1>11, <2>1 DEF Tail_
    <3> QED BY <3>1, ReturnStill
  <2>2. CASE ~(~(end_offset(w) > csize[cnt[w]]))
    <3>1. /\ pc[w] # "link" /\ UNCHANGED <<slot, which, bitmap, ctx, rest, head, cnt>>
          /\ \E q \in {"locate", "grow"} : pc' = [pc EXCEPT ![w] = q]
          /\ rest[w] = {} /\ \A v \in Worker \ {w} : off'[v] = off[v] /\ un'[v] = un[v]
      BY <1>11, <2>2 DEF Tail_, Goto
    <3> QED BY <3>1
  <2> QED BY <2>1, <2>2
<1>12. CASE Grow(w)
  <2>1. Return(w) /\ pc[w] # "link" /\ UNCHANGED <<slot, which, bitmap, ctx>> /\ rest[w] = {}
    BY <1>12 DEF Grow
  <2> QED BY <2>1, ReturnStill
<1>13. CASE Test(w)
  BY <1>13 DEF Test, Goto
<1>14. CASE ReadPart(w)
  <2> DEFINE now == (csize[cnt[w]] - chunk_offset(w)) % SIZE_T
  <2>1. /\ pc[w] = "part" /\ UNCHANGED <<slot, which, bitmap, ctx, rest, head, cnt>>
        /\ \E q \in {"locate", "done"} : pc' = [pc EXCEPT ![w] = q]
    BY <1>14 DEF ReadPart, Goto
  <2>2. \A v \in Worker \ {w} : off'[v] = off[v] /\ un'[v] = un[v]
    <3>1. CASE now = 0
      BY <1>14, <3>1 DEF ReadPart
    <3>2. CASE now # 0
      <4>1. /\ un' = [un EXCEPT ![w] = (@ - now) % SIZE_T]
            /\ off' = [off EXCEPT ![w] = @ + now]
        BY <1>14, <3>2 DEF ReadPart
      <4> HIDE DEF now
      <4> QED BY <4>1
    <3> QED BY <3>1, <3>2
  <2> HIDE DEF now
  <2> QED BY <2>1, <2>2
<1>15. CASE ReadLast(w)
  BY <1>15 DEF ReadLast, Goto
<1>16. CASE FinishRead(w)
  <2>1. Return(w) /\ pc[w] # "link" /\ UNCHANGED <<slot, which, bitmap, ctx>> /\ rest[w] = {}
    BY <1>16 DEF FinishRead
  <2> QED BY <2>1, ReturnStill
<1>17. CASE FinishDelete(w)
  <2>1. Return(w) /\ pc[w] # "link" /\ UNCHANGED <<slot, which, bitmap, ctx>> /\ rest[w] = {}
    BY <1>17 DEF FinishDelete
  <2> QED BY <2>1, ReturnStill
<1> QED
  BY <1>1, <1>2, <1>3, <1>4, <1>5, <1>6, <1>7, <1>8, <1>9, <1>10, <1>11, <1>12, <1>13, <1>14,
      <1>15, <1>16, <1>17

\* So are the steps that start an access.
LEMMA StartStill ==
    ASSUME TypeOK, Heads, NEW w \in Worker, NEW o \in {"read", "write"}, NEW f \in Inode,
           NEW offset \in 0 .. MaxOffset, NEW bytes \in 1 .. MaxSize,
           StartAccess(w, o, f, offset, bytes)
    PROVE  Still(w)
  BY DEF TypeOK, Heads, Still, Frame, StartAccess, Goto, diskVars, argVars, loopVars

\* The four others touch no locals but those of the worker either.
LEMMA Frames ==
    ASSUME TypeOK, NEW w \in Worker, NEW f \in Inode,
           Found(w) \/ Link(w) \/ FreeChunk(w) \/ StartDelete(w, f)
    PROVE  Frame(w)
<1>1. CASE Found(w)
  BY <1>1 DEF Found, Goto, TypeOK, Frame, argVars
<1>2. CASE Link(w)
  BY <1>2 DEF Link, Goto, TypeOK, Frame, argVars, loopVars
<1>3. CASE FreeChunk(w)
  BY <1>3 DEF FreeChunk, TypeOK, Frame, argVars
<1>4. CASE StartDelete(w, f)
  BY <1>4 DEF StartDelete, Goto, TypeOK, Frame
<1> QED BY <1>1, <1>2, <1>3, <1>4

\* What a chunk that is being freed is to the others.
LEMMA FreedPlace ==
    ASSUME TypeOK, Heads, OneOwner, ListIsIndex, NEW w \in Worker, NEW c \in rest[w]
    PROVE  /\ c \in Chunk /\ which[c] \in Place /\ which[c] # None /\ slot[which[c]] = c
           /\ which[c][1] = head[w] /\ pc[w] = "free"
           /\ \A v \in Worker \ {w} : At(v) # which[c]
<1>1. c \in Chunk /\ which[c] # None /\ which[c][1] = head[w]
  BY DEF TypeOK, ListIsIndex
<1>2. which[c] \in Place /\ slot[which[c]] = c
  BY <1>1 DEF TypeOK, OneOwner
<1>3. pc[w] = "free" /\ \A v \in Worker \ {w} : head[v] # head[w]
  BY DEF Heads
<1>4. \A v \in Worker \ {w} : At(v) # which[c]
  BY <1>1, <1>3 DEF At
<1> QED BY <1>1, <1>2, <1>3, <1>4

\* The effect of freeing a chunk, for some chunk of those left.
LEMMA FreeEffect ==
    ASSUME TypeOK, NEW w \in Worker, FreeChunk(w)
    PROVE  \E c \in rest[w] :
              /\ slot' = [slot EXCEPT ![which[c]] = None]
              /\ which' = [which EXCEPT ![c] = None]
              /\ bitmap' = [bitmap EXCEPT ![c] = 0]
              /\ rest' = [rest EXCEPT ![w] = @ \ {c}]
              /\ UNCHANGED <<pc, head, off, un, cnt, ctx>>
  BY DEF FreeChunk, argVars

\* The effect of a link, at a place that is empty and with a chunk that is in
\* no file.
LEMMA LinkEffect ==
    ASSUME TypeOK, Heads, Knows, NEW w \in Worker, Link(w)
    PROVE  /\ At(w) \in Place /\ At(w) # None /\ At(w)[1] = head[w] /\ head[w] \in Inode
           /\ cnt[w] \in Chunk /\ slot[At(w)] = None /\ which[cnt[w]] = None
           /\ slot' = [slot EXCEPT ![At(w)] = cnt[w]]
           /\ which' = [which EXCEPT ![cnt[w]] = At(w)]
           /\ ctx' = [ctx EXCEPT ![head[w]] = @ \cup {cnt[w]}]
           /\ bitmap' = bitmap /\ UNCHANGED <<head, off, un, cnt, rest>>
           /\ pc[w] = "link" /\ pc' = [pc EXCEPT ![w] = "take"]
<1>1. At(w) \in Place /\ cnt[w] \in Chunk /\ slot[At(w)] = None /\ which[cnt[w]] = None
  BY DEF Link, Knows, Holding, TypeOK
<1>2. At(w) # None
  BY <1>1, NoneAssumption
<1>3. At(w)[1] = head[w] /\ head[w] \in Inode
  BY DEF At, Link, Heads, TypeOK
<1> QED BY <1>1, <1>2, <1>3 DEF Link, Goto, argVars, loopVars

\* OneOwner, BitmapExact and ListIsIndex under the four steps and the others.
LEMMA CoreStill == ASSUME TypeOK, OneOwner, BitmapExact, ListIsIndex, NEW w \in Worker, Still(w)
                   PROVE  OneOwner' /\ BitmapExact' /\ ListIsIndex'
<1>1. OneOwner'
  BY DEF Still, OneOwner
<1>2. \A v \in Worker, c \in Chunk :
         (pc[v] = "link" /\ cnt[v] = c) <=> (pc'[v] = "link" /\ cnt'[v] = c)
  BY DEF Still, Frame
<1>3. BitmapExact'
  BY <1>2 DEF Still, BitmapExact
<1>4. \A v \in Worker : rest'[v] = rest[v] /\ (rest[v] # {} => head'[v] = head[v])
  BY DEF Still, Frame
<1>5. ListIsIndex'
  BY <1>4 DEF Still, ListIsIndex
<1> QED BY <1>1, <1>3, <1>5

\* Taking a chunk out of the bitmap does not disturb the index.
LEMMA CoreFound == ASSUME TypeOK, OneOwner, BitmapExact, ListIsIndex, NEW w \in Worker, Found(w)
                   PROVE  OneOwner' /\ BitmapExact' /\ ListIsIndex'
<1>1. UNCHANGED <<slot, which, ctx, rest, head>>
  BY DEF Found, argVars
<1>2. OneOwner' /\ ListIsIndex'
  BY <1>1 DEF OneOwner, ListIsIndex
<1>3. /\ bitmap' = [bitmap EXCEPT ![i] = 1] /\ cnt' = [cnt EXCEPT ![w] = i]
      /\ pc[w] = "scan" /\ pc' = [pc EXCEPT ![w] = "link"] /\ i \in Chunk
  BY DEF Found, Goto, TypeOK
<1>4. BitmapExact'
  BY <1>1, <1>3 DEF BitmapExact, TypeOK
<1> QED BY <1>2, <1>4

\* Linking a chunk to a place makes the three views of it agree again.
LEMMA CoreLink == ASSUME TypeOK, Heads, Knows, OneOwner, BitmapExact, ListIsIndex,
                         NEW w \in Worker, Link(w)
                  PROVE  OneOwner' /\ BitmapExact' /\ ListIsIndex'
<1> DEFINE p == At(w)
           d == cnt[w]
<1>0. /\ p \in Place /\ p # None /\ p[1] = head[w] /\ head[w] \in Inode
      /\ d \in Chunk /\ slot[p] = None /\ which[d] = None /\ None \notin Chunk
      /\ slot' = [slot EXCEPT ![p] = d]
      /\ which' = [which EXCEPT ![d] = p]
      /\ ctx' = [ctx EXCEPT ![head[w]] = @ \cup {d}]
      /\ bitmap' = bitmap /\ UNCHANGED <<head, off, un, cnt, rest>>
      /\ pc[w] = "link" /\ pc' = [pc EXCEPT ![w] = "take"]
  BY LinkEffect, NoneAssumption
<1>a. bitmap[d] = 1
  BY <1>0 DEF BitmapExact
<1>b. \A v \in Worker : pc[v] = "link" /\ cnt[v] = d => v = w
  BY <1>0 DEF Knows
<1> HIDE DEF p, d
<1>1. OneOwner'
  <2> SUFFICES ASSUME NEW q \in Place, NEW c \in Chunk PROVE slot'[q] = c <=> which'[c] = q
    BY DEF OneOwner
  <2>1. slot'[q] = (IF q = p THEN d ELSE slot[q]) /\ which'[c] = (IF c = d THEN p ELSE which[c])
    BY <1>0 DEF TypeOK
  <2>2. slot[p] # c /\ which[d] # q /\ q # None
    BY <1>0, NoneAssumption
  <2>3. slot[q] = c <=> which[c] = q
    BY DEF OneOwner
  <2> QED BY <2>1, <2>2, <2>3
<1>2. BitmapExact'
  <2> SUFFICES ASSUME NEW c \in Chunk
               PROVE  bitmap'[c] = 1 <=> \/ which'[c] # None
                                         \/ \E v \in Worker : pc'[v] = "link" /\ cnt'[v] = c
    BY DEF BitmapExact
  <2>1. CASE c = d
    BY <2>1, <1>0, <1>a DEF TypeOK
  <2>2. CASE c # d
    <3>1. which'[c] = which[c]
      BY <2>2, <1>0 DEF TypeOK
    <3>2. \A v \in Worker : (pc[v] = "link" /\ cnt[v] = c) <=> (pc'[v] = "link" /\ cnt'[v] = c)
      BY <2>2, <1>0 DEF TypeOK, d
    <3> QED BY <3>1, <3>2, <1>0 DEF BitmapExact
  <2> QED BY <2>1, <2>2
<1>3. ListIsIndex'
  <2> SUFFICES ASSUME NEW c \in Chunk
               PROVE  /\ \A f \in Inode : c \in ctx'[f] => which'[c] # None /\ which'[c][1] = f
                      /\ \A v \in Worker : c \in rest'[v] => /\ which'[c] # None
                                                             /\ which'[c][1] = head'[v]
                      /\ which'[c] # None => \/ c \in ctx'[which'[c][1]]
                                             \/ \E v \in Worker : c \in rest'[v]
    BY DEF ListIsIndex
  <2>1. CASE c = d
    <3>1. \A f \in Inode : c \in ctx'[f] <=> f = head[w]
      BY <2>1, <1>0 DEF ListIsIndex, TypeOK
    <3>2. \A v \in Worker : c \notin rest'[v]
      BY <2>1, <1>0 DEF ListIsIndex
    <3>3. which'[c] = p
      BY <2>1, <1>0 DEF TypeOK
    <3> QED BY <1>0, <3>1, <3>2, <3>3
  <2>2. CASE c # d
    <3>1. which'[c] = which[c]
      BY <2>2, <1>0 DEF TypeOK
    <3>2. \A f \in Inode : c \in ctx'[f] <=> c \in ctx[f]
      BY <2>2, <1>0 DEF TypeOK
    <3>3. which[c] # None => which[c][1] \in Inode
      BY DEF TypeOK, Place
    <3>4. rest' = rest /\ head' = head
      BY <1>0
    <3> QED BY <3>1, <3>2, <3>3, <3>4 DEF ListIsIndex
  <2> QED BY <2>1, <2>2
<1> QED BY <1>1, <1>2, <1>3

\* Freeing a chunk removes it from the three views together.
LEMMA CoreFree == ASSUME TypeOK, Heads, Knows, OneOwner, BitmapExact, ListIsIndex,
                         NEW w \in Worker, FreeChunk(w)
                  PROVE  OneOwner' /\ BitmapExact' /\ ListIsIndex'
<1>1. PICK c \in rest[w] :
              /\ slot' = [slot EXCEPT ![which[c]] = None]
              /\ which' = [which EXCEPT ![c] = None]
              /\ bitmap' = [bitmap EXCEPT ![c] = 0]
              /\ rest' = [rest EXCEPT ![w] = @ \ {c}]
              /\ UNCHANGED <<pc, head, off, un, cnt, ctx>>
  BY FreeEffect
<1>2. c \in Chunk /\ which[c] \in Place /\ which[c] # None /\ slot[which[c]] = c
      /\ which[c][1] = head[w] /\ pc[w] = "free"
  BY FreedPlace
<1>3. OneOwner'
  BY <1>1, <1>2, NoneAssumption DEF OneOwner, TypeOK
<1>4. \A v \in Worker : ~(pc[v] = "link" /\ cnt[v] = c)
  BY <1>2 DEF Knows
<1>5. BitmapExact'
  <2> SUFFICES ASSUME NEW d \in Chunk
               PROVE  bitmap'[d] = 1 <=> \/ which'[d] # None
                                         \/ \E v \in Worker : pc'[v] = "link" /\ cnt'[v] = d
    BY DEF BitmapExact
  <2>1. CASE d = c
    BY <1>1, <1>2, <1>4, <2>1 DEF TypeOK
  <2>2. CASE d # c
    BY <1>1, <2>2 DEF BitmapExact, TypeOK
  <2> QED BY <2>1, <2>2
<1>6. ~linked[head[w]] /\ head[w] \in Inode /\ ctx[head[w]] = {}
  BY <1>2 DEF Heads, TypeOK
<1>7. ListIsIndex'
  <2> SUFFICES ASSUME NEW d \in Chunk
               PROVE  /\ \A f \in Inode : d \in ctx'[f] => which'[d] # None /\ which'[d][1] = f
                      /\ \A v \in Worker : d \in rest'[v] => /\ which'[d] # None
                                                             /\ which'[d][1] = head'[v]
                      /\ which'[d] # None => \/ d \in ctx'[which'[d][1]]
                                             \/ \E v \in Worker : d \in rest'[v]
    BY DEF ListIsIndex
  <2>1. CASE d = c
    <3>1. \A f \in Inode : d \notin ctx[f]
      BY <1>2, <1>6, <2>1 DEF ListIsIndex
    <3>2. \A v \in Worker : v # w => d \notin rest[v]
      BY <1>2, <2>1 DEF ListIsIndex, Heads
    <3> QED BY <1>1, <1>2, <2>1, <3>1, <3>2 DEF TypeOK
  <2>2. CASE d # c
    <3>1. which'[d] = which[d] /\ ctx' = ctx /\ head' = head
      BY <1>1, <2>2 DEF TypeOK
    <3>2. \A v \in Worker : d \in rest'[v] <=> d \in rest[v]
      BY <1>1, <2>2 DEF TypeOK
    <3> QED BY <3>1, <3>2 DEF ListIsIndex
  <2> QED BY <2>1, <2>2
<1> QED BY <1>3, <1>5, <1>7

\* Starting a removal moves the list of the inode to the worker.
LEMMA CoreDelete == ASSUME TypeOK, Heads, OneOwner, BitmapExact, ListIsIndex,
                           NEW w \in Worker, NEW f \in Inode, StartDelete(w, f)
                    PROVE  OneOwner' /\ BitmapExact' /\ ListIsIndex'
<1>1. /\ UNCHANGED <<slot, which, bitmap, cnt>>
      /\ rest' = [rest EXCEPT ![w] = ctx[f]] /\ ctx' = [ctx EXCEPT ![f] = {}]
      /\ head' = [head EXCEPT ![w] = f] /\ pc[w] = "idle" /\ pc' = [pc EXCEPT ![w] = "free"]
  BY DEF StartDelete, Goto
<1>2. rest[w] = {}
  BY <1>1 DEF Heads
<1>3. OneOwner'
  BY <1>1 DEF OneOwner
<1>4. BitmapExact'
  BY <1>1 DEF BitmapExact, TypeOK
<1>5. ListIsIndex'
  <2> SUFFICES ASSUME NEW c \in Chunk
               PROVE  /\ \A g \in Inode : c \in ctx'[g] => which'[c] # None /\ which'[c][1] = g
                      /\ \A v \in Worker : c \in rest'[v] => /\ which'[c] # None
                                                             /\ which'[c][1] = head'[v]
                      /\ which'[c] # None => \/ c \in ctx'[which'[c][1]]
                                             \/ \E v \in Worker : c \in rest'[v]
    BY DEF ListIsIndex
  <2>1. \A g \in Inode : c \in ctx'[g] <=> g # f /\ c \in ctx[g]
    BY <1>1 DEF TypeOK
  <2>2. \A v \in Worker : c \in rest'[v] <=> IF v = w THEN c \in ctx[f] ELSE c \in rest[v]
    BY <1>1 DEF TypeOK
  <2>3. \A v \in Worker : head'[v] = IF v = w THEN f ELSE head[v]
    BY <1>1 DEF TypeOK
  <2>4. which' = which
    BY <1>1
  <2>5. which[c] # None => which[c][1] \in Inode
    BY DEF TypeOK, Place
  <2> QED BY <1>2, <2>1, <2>2, <2>3, <2>4, <2>5 DEF ListIsIndex
<1> QED BY <1>3, <1>4, <1>5

\* Every step keeps the index, the back pointers, the bitmap and the lists in
\* agreement.
LEMMA CoreStep == TypeOK /\ Heads /\ Knows /\ OneOwner /\ BitmapExact /\ ListIsIndex /\ [Next]_vars
                     => OneOwner' /\ BitmapExact' /\ ListIsIndex'
<1> SUFFICES ASSUME TypeOK, Heads, Knows, OneOwner, BitmapExact, ListIsIndex, [Next]_vars
             PROVE  OneOwner' /\ BitmapExact' /\ ListIsIndex'
  OBVIOUS
<1>1. CASE UNCHANGED vars
  BY <1>1 DEF OneOwner, BitmapExact, ListIsIndex, vars, inodeVars, diskVars, argVars, loopVars
<1>2. ASSUME NEW f \in Inode, Create(f) PROVE OneOwner' /\ BitmapExact' /\ ListIsIndex'
  BY <1>2 DEF Create, OneOwner, BitmapExact, ListIsIndex, diskVars, argVars, loopVars
<1>3. ASSUME NEW w \in Worker, NEW f \in Inode, StartDelete(w, f)
      PROVE  OneOwner' /\ BitmapExact' /\ ListIsIndex'
  BY <1>3, CoreDelete
<1>4. ASSUME NEW w \in Worker, NEW o \in {"read", "write"}, NEW f \in Inode,
             NEW offset \in 0 .. MaxOffset, NEW bytes \in 1 .. MaxSize,
             StartAccess(w, o, f, offset, bytes)
      PROVE  OneOwner' /\ BitmapExact' /\ ListIsIndex'
  BY <1>4, StartStill, CoreStill
<1>5. ASSUME NEW w \in Worker, FreeChunk(w) PROVE OneOwner' /\ BitmapExact' /\ ListIsIndex'
  BY <1>5, CoreFree
<1>6. ASSUME NEW w \in Worker, FinishDelete(w) \/ Access(w)
      PROVE  OneOwner' /\ BitmapExact' /\ ListIsIndex'
  <2>1. CASE Found(w)
    BY <2>1, CoreFound
  <2>2. CASE Link(w)
    BY <2>2, CoreLink
  <2>3. CASE ~Found(w) /\ ~Link(w)
    <3>1. Still(w)
      BY <1>6, <2>3, Stills DEF Access
    <3> QED BY <3>1, CoreStill
  <2> QED BY <2>1, <2>2, <2>3
<1> QED BY <1>1, <1>2, <1>3, <1>4, <1>5, <1>6 DEF Next

\* Knows and StableTarget, of one worker ...
Mine(v) ==
    /\ pc[v] \in {"lock", "take"} \cup Holding \cup Chosen => At(v) \in Place
    /\ pc[v] \in {"get", "scan", "link"} => slot[At(v)] = None
    /\ pc[v] = "take" => slot[At(v)] # None
    /\ pc[v] = "link" => cnt[v] # None /\ which[cnt[v]] = None
    /\ pc[v] = "fill" => un[v] >= Room(v)
    /\ pc[v] \in {"tail", "grow"} => un[v] < Room(v)
    /\ pc[v] \in Chosen => cnt[v] # None /\ slot[At(v)] = cnt[v]

\* ... and of two that are about to link a chunk.
Links == \A v, w \in Worker :
    pc[v] = "link" /\ pc[w] = "link" /\ cnt[v] = cnt[w] => v = w

\* Knows and StableTarget in these terms.
LEMMA KnowsIsMine == (Knows /\ StableTarget) <=> (Links /\ \A v \in Worker : Mine(v))
  BY DEF Knows, StableTarget, Mine, Links

\* A worker is at the same place as before when its inode and offset are.
LEMMA AtSame == ASSUME NEW v \in Worker, head'[v] = head[v], off'[v] = off[v]
                PROVE  At(v)' = At(v) /\ Room(v)' = Room(v)
  BY DEF At, Room, chunk_offset

\* What the others know stays true in a step that changes no file.
LEMMA MineStill == ASSUME NEW w \in Worker, Still(w), NEW v \in Worker \ {w}, Mine(v)
                   PROVE  Mine(v)'
<1>1. pc'[v] = pc[v] /\ head'[v] = head[v] /\ off'[v] = off[v] /\ un'[v] = un[v]
      /\ cnt'[v] = cnt[v] /\ slot' = slot /\ which' = which
  BY DEF Still, Frame
<1>2. At(v)' = At(v) /\ Room(v)' = Room(v)
  BY <1>1, AtSame
<1> QED BY <1>1, <1>2 DEF Mine

\* A worker that has nothing in hand knows nothing.
LEMMA MineNothing == ASSUME NEW v \in Worker, pc'[v] \in {"idle", "locate", "done", "free"}
                     PROVE  Mine(v)'
  BY DEF Mine, Holding, Chosen

\* What a worker knows after a step of its own.
LEMMA MineOwn ==
    ASSUME TypeOK, Heads, BitmapExact, NEW w \in Worker, Mine(w), Access(w)
    PROVE  Mine(w)'
<1> DEFINE Same == head'[w] = head[w] /\ off'[w] = off[w] /\ un'[w] = un[w]
<1>0. Same => At(w)' = At(w) /\ Room(w)' = Room(w)
  BY AtSame
<1>1. CASE Locate(w)
  <2>1. At(w) \in Place
    <3>1. head[w] \in Inode
      BY <1>1 DEF Locate, Heads, TypeOK
    <3>2. off[w] \div CHUNK_SIZE \in Nat /\ off[w] \div CHUNK_SIZE < SLOT_NUM
      BY <1>1, DivMod DEF Locate, TypeOK
    <3>3. off[w] \div CHUNK_SIZE \in Slot
      BY <3>2, SlotAssumption DEF Slot
    <3> QED BY <3>1, <3>3 DEF At, Place
  <2>2. Same /\ slot' = slot /\ which' = which
    BY <1>1 DEF Locate, diskVars, argVars, loopVars
  <2>3. \/ slot[At(w)] # None /\ pc' = [pc EXCEPT ![w] = "take"]
        \/ \E q \in {"done", "lock"} : pc' = [pc EXCEPT ![w] = q]
    BY <1>1 DEF Locate, Goto
  <2> QED BY <1>0, <2>1, <2>2, <2>3 DEF Mine, Holding, Chosen, TypeOK
<1>2. CASE BeyondIndex(w)
  <2>1. CASE op[w] = "read"
    <3>1. pc'[w] = "done"
      BY <1>2, <2>1 DEF BeyondIndex, Goto, TypeOK
    <3> QED BY <3>1, MineNothing
  <2>2. CASE op[w] # "read"
    <3>1. pc'[w] = "locate"
      BY <1>2, <2>2 DEF BeyondIndex, Goto, TypeOK
    <3> QED BY <3>1, MineNothing
  <2> QED BY <2>1, <2>2
<1>3. CASE LockFile(w)
  <2>1. Same /\ pc[w] = "lock" /\ pc' = [pc EXCEPT ![w] = "recheck"]
    BY <1>3 DEF LockFile, Goto, argVars, loopVars
  <2> QED BY <1>0, <2>1 DEF Mine, Holding, Chosen, TypeOK
<1>4. CASE Recheck(w)
  <2>1. Same /\ pc[w] = "recheck" /\ slot' = slot
    BY <1>4 DEF Recheck, argVars, loopVars, diskVars
  <2>2. CASE slot[At(w)] = None
    <3>1. pc' = [pc EXCEPT ![w] = "get"]
      BY <1>4, <2>2 DEF Recheck, Goto
    <3> QED BY <1>0, <2>1, <2>2, <3>1 DEF Mine, Holding, Chosen, TypeOK
  <2>3. CASE slot[At(w)] # None
    <3>1. pc' = [pc EXCEPT ![w] = "take"]
      BY <1>4, <2>3 DEF Recheck, Goto
    <3> QED BY <1>0, <2>1, <2>3, <3>1 DEF Mine, Holding, Chosen, TypeOK
  <2> QED BY <2>2, <2>3
<1>5. CASE LockContext(w)
  <2>1. Same /\ pc[w] = "get" /\ pc' = [pc EXCEPT ![w] = "scan"] /\ slot' = slot
    BY <1>5 DEF LockContext, Goto, argVars, loopVars
  <2> QED BY <1>0, <2>1 DEF Mine, Holding, Chosen, TypeOK
<1>6. CASE Scan(w)
  <2>1. Same /\ pc[w] = "scan" /\ pc' = pc /\ slot' = slot
    BY <1>6 DEF Scan, argVars, loopVars
  <2> QED BY <1>0, <2>1 DEF Mine, Holding, Chosen, TypeOK
<1>7. CASE Found(w)
  <2>1. /\ Same /\ pc[w] = "scan" /\ pc' = [pc EXCEPT ![w] = "link"] /\ slot' = slot
        /\ which' = which /\ cnt' = [cnt EXCEPT ![w] = i] /\ bitmap[i] = 0 /\ i \in Chunk
    BY <1>7 DEF Found, Goto, argVars, TypeOK
  <2>2. which[i] = None /\ i # None
    BY <2>1, NoneAssumption DEF BitmapExact
  <2> QED BY <1>0, <2>1, <2>2 DEF Mine, Holding, Chosen, TypeOK
<1>8. CASE NoSpace(w)
  <2>1. Same /\ pc[w] = "scan" /\ pc' = pc /\ slot' = slot
    BY <1>8 DEF NoSpace, argVars, loopVars, diskVars
  <2> QED BY <1>0, <2>1 DEF Mine, Holding, Chosen, TypeOK
<1>9. CASE Link(w)
  <2>1. /\ Same /\ pc[w] = "link" /\ pc' = [pc EXCEPT ![w] = "take"]
        /\ slot' = [slot EXCEPT ![At(w)] = cnt[w]]
    BY <1>9 DEF Link, Goto, argVars, loopVars
  <2>2. At(w) \in Place /\ cnt[w] # None
    BY <2>1 DEF Mine, Holding
  <2>3. slot'[At(w)] # None
    BY <2>1, <2>2 DEF TypeOK
  <2> QED BY <1>0, <2>1, <2>2, <2>3 DEF Mine, Holding, Chosen, TypeOK
<1>10. CASE Take(w)
  <2>1. /\ Same /\ pc[w] = "take" /\ \E q \in {"test", "store"} : pc' = [pc EXCEPT ![w] = q]
        /\ slot' = slot /\ cnt' = [cnt EXCEPT ![w] = slot[At(w)]]
    BY <1>10 DEF Take, Goto, argVars, diskVars
  <2> QED BY <1>0, <2>1 DEF Mine, Holding, Chosen, TypeOK
<1>11. CASE Store(w)
  <2>1. Same /\ pc[w] = "store" /\ slot' = slot /\ cnt' = cnt
    BY <1>11 DEF Store, Goto, argVars, diskVars, loopVars
  <2>2. CASE un[w] >= Room(w)
    <3>1. pc' = [pc EXCEPT ![w] = "fill"]
      BY <1>11, <2>2 DEF Store, Goto
    <3> QED BY <1>0, <2>1, <2>2, <3>1 DEF Mine, Holding, Chosen, TypeOK
  <2>3. CASE ~(un[w] >= Room(w))
    <3>1. pc' = [pc EXCEPT ![w] = "tail"]
      BY <1>11, <2>3 DEF Store, Goto
    <3>2. un[w] < Room(w)
      <4>1. un[w] \in Int /\ Room(w) \in Int
        BY RoomType DEF TypeOK
      <4> HIDE DEF Same
      <4> QED BY <2>3, <4>1
    <3> QED BY <1>0, <2>1, <3>1, <3>2 DEF Mine, Holding, Chosen, TypeOK
  <2> QED BY <2>2, <2>3
<1>12. CASE Fill(w)
  <2>1. CASE un[w] = Room(w)
    <3>1. pc'[w] = "idle"
      BY <1>12, <2>1 DEF Fill, Return, TypeOK
    <3> QED BY <3>1, MineNothing
  <2>2. CASE un[w] # Room(w)
    <3>1. pc'[w] = "locate"
      BY <1>12, <2>2 DEF Fill, Goto, TypeOK
    <3> QED BY <3>1, MineNothing
  <2> QED BY <2>1, <2>2
<1>13. CASE Tail_(w)
  <2>1. CASE end_offset(w) > csize[cnt[w]]
    <3>1. /\ Same /\ pc[w] = "tail" /\ pc' = [pc EXCEPT ![w] = "grow"]
          /\ slot' = slot /\ cnt' = cnt
      BY <1>13, <2>1 DEF Tail_, Goto, argVars, diskVars, loopVars
    <3> QED BY <1>0, <3>1 DEF Mine, Holding, Chosen, TypeOK
  <2>2. CASE ~(end_offset(w) > csize[cnt[w]])
    <3>1. pc'[w] = "idle"
      BY <1>13, <2>2 DEF Tail_, Return, TypeOK
    <3> QED BY <3>1, MineNothing
  <2> QED BY <2>1, <2>2
<1>14. CASE Grow(w) \/ FinishRead(w)
  <2>1. pc'[w] = "idle"
    BY <1>14 DEF Grow, FinishRead, Return, TypeOK
  <2> QED BY <2>1, MineNothing
<1>15. CASE Test(w)
  <2>1. /\ Same /\ pc[w] = "test" /\ \E q \in {"part", "last"} : pc' = [pc EXCEPT ![w] = q]
        /\ slot' = slot /\ cnt' = cnt
    BY <1>15 DEF Test, Goto, argVars, diskVars, loopVars
  <2> QED BY <1>0, <2>1 DEF Mine, Holding, Chosen, TypeOK
<1>16. CASE ReadPart(w) \/ ReadLast(w)
  <2>1. pc'[w] \in {"locate", "done"}
    BY <1>16 DEF ReadPart, ReadLast, Goto, TypeOK
  <2> QED BY <2>1, MineNothing
<1> QED
  BY <1>1, <1>2, <1>3, <1>4, <1>5, <1>6, <1>7, <1>8, <1>9, <1>10, <1>11, <1>12, <1>13, <1>14,
     <1>15, <1>16 DEF Access

\* What the others know stays true when w links a chunk: those at the same
\* place have found it taken, or wait for the lock that w holds.
LEMMA MineLink == ASSUME TypeOK, Heads, LockHolders, Knows, NEW w \in Worker, Link(w),
                         NEW v \in Worker \ {w}, Mine(v)
                  PROVE  Mine(v)'
<1>1. /\ At(w) \in Place /\ At(w) # None /\ At(w)[1] = head[w] /\ head[w] \in Inode
      /\ cnt[w] \in Chunk /\ slot[At(w)] = None /\ which[cnt[w]] = None
      /\ slot' = [slot EXCEPT ![At(w)] = cnt[w]]
      /\ which' = [which EXCEPT ![cnt[w]] = At(w)]
      /\ pc[w] = "link"
  BY LinkEffect
<1>2. pc'[v] = pc[v] /\ head'[v] = head[v] /\ off'[v] = off[v] /\ un'[v] = un[v]
      /\ cnt'[v] = cnt[v]
  BY <1>1, Frames DEF Frame
<1>3. At(v)' = At(v) /\ Room(v)' = Room(v) /\ At(v)[1] = head[v]
  BY <1>2, AtSame DEF At
<1>4. pc[v] \in Holding => At(v) # At(w)
  BY <1>1, <1>3 DEF LockHolders, Holding
<1>5. pc[v] \in Chosen => At(v) # At(w)
  BY <1>1 DEF Mine
<1>6. At(v) \in Place /\ At(v) # At(w) => slot'[At(v)] = slot[At(v)]
  BY <1>1 DEF TypeOK
<1>7. At(v) \in Place /\ slot[At(v)] # None => slot'[At(v)] # None
  BY <1>1, NoneAssumption DEF TypeOK
<1>8. pc[v] = "link" => cnt[v] # cnt[w]
  BY <1>1 DEF Knows
<1>9. pc[v] = "link" => cnt[v] # None /\ which'[cnt[v]] = None
  <2> SUFFICES ASSUME pc[v] = "link" PROVE cnt[v] # None /\ which'[cnt[v]] = None
    OBVIOUS
  <2>1. cnt[v] # None /\ which[cnt[v]] = None /\ cnt[v] \in Chunk
    BY DEF Mine, TypeOK
  <2> QED BY <1>1, <1>8, <2>1 DEF TypeOK
<1>10. pc[v] \in {"get", "scan", "link"} => slot'[At(v)] = None
  BY <1>4, <1>6 DEF Mine, Holding
<1>11. pc[v] = "take" => slot'[At(v)] # None
  BY <1>7 DEF Mine
<1>12. pc[v] \in Chosen => cnt[v] # None /\ slot'[At(v)] = cnt[v]
  BY <1>5, <1>6 DEF Mine
<1> QED BY <1>2, <1>3, <1>9, <1>10, <1>11, <1>12 DEF Mine

\* What the others know stays true when a chunk is freed, since nobody is at a
\* place of a file that is being removed.
LEMMA MineFree == ASSUME TypeOK, Heads, OneOwner, ListIsIndex, NEW w \in Worker,
                         FreeChunk(w), NEW v \in Worker \ {w}, Mine(v)
                  PROVE  Mine(v)'
<1>1. PICK c \in rest[w] :
              /\ slot' = [slot EXCEPT ![which[c]] = None]
              /\ which' = [which EXCEPT ![c] = None]
              /\ UNCHANGED <<pc, head, off, un, cnt, ctx>>
  BY FreeEffect
<1>2. c \in Chunk /\ which[c] \in Place /\ At(v) # which[c]
  BY FreedPlace
<1>3. At(v)' = At(v) /\ Room(v)' = Room(v)
  BY <1>1, AtSame
<1>4. At(v) \in Place => slot'[At(v)] = slot[At(v)]
  BY <1>1, <1>2 DEF TypeOK
<1>5. pc[v] = "link" => cnt[v] # None /\ which'[cnt[v]] = None
  <2> SUFFICES ASSUME pc[v] = "link" PROVE cnt[v] # None /\ which'[cnt[v]] = None
    OBVIOUS
  <2>1. cnt[v] # None /\ which[cnt[v]] = None /\ cnt[v] \in Chunk
    BY DEF Mine, TypeOK
  <2> QED BY <1>1, <2>1 DEF TypeOK
<1> QED BY <1>1, <1>3, <1>4, <1>5 DEF Mine, Holding

\* No two workers link the same chunk, since the bit of a chunk is set in the
\* section of context_lock that finds it.
LEMMA LinksStep ==
    ASSUME TypeOK, Heads, Knows, BitmapExact, Links, NEW w \in Worker,
           Access(w) \/ FinishDelete(w)
    PROVE  Links'
<1>1. CASE Found(w)
  <2>1. /\ cnt' = [cnt EXCEPT ![w] = i] /\ pc' = [pc EXCEPT ![w] = "link"]
        /\ i \in Chunk /\ bitmap[i] = 0
    BY <1>1 DEF Found, Goto, TypeOK
  <2>2. \A v \in Worker : ~(pc[v] = "link" /\ cnt[v] = i)
    BY <2>1 DEF BitmapExact
  <2> QED BY <2>1, <2>2 DEF Links, TypeOK
<1>2. CASE Link(w)
  <2>1. pc' = [pc EXCEPT ![w] = "take"] /\ cnt' = cnt
    BY <1>2, LinkEffect
  <2> QED BY <2>1 DEF Links, TypeOK
<1>3. CASE ~Found(w) /\ ~Link(w)
  <2>1. Still(w)
    BY <1>3, Stills DEF Access
  <2> QED BY <2>1 DEF Still, Frame, Links
<1> QED BY <1>1, <1>2, <1>3

\* The worker's own knowledge and that of the others, together.
LEMMA KnowsStep ==
    TypeOK /\ LockHolders /\ Heads /\ Knows /\ Core /\ [Next]_vars => (Knows /\ StableTarget)'
<1> SUFFICES ASSUME TypeOK, LockHolders, Heads, Knows, Core, [Next]_vars
             PROVE  Links' /\ \A v \in Worker : Mine(v)'
  BY KnowsIsMine DEF Knows, StableTarget, Mine, Links
<1>0. /\ OneOwner /\ BitmapExact /\ ListIsIndex
      /\ Links /\ \A v \in Worker : Mine(v)
  BY KnowsIsMine DEF Core
<1>1. CASE UNCHANGED vars
  <2>1. UNCHANGED <<pc, slot, which, cnt, un, head, off>>
    BY <1>1 DEF vars, diskVars, argVars, loopVars
  <2>2. \A v \in Worker : At(v)' = At(v) /\ Room(v)' = Room(v)
    BY <2>1, AtSame
  <2> QED BY <1>0, <2>1, <2>2 DEF Links, Mine
<1>2. ASSUME NEW f \in Inode, Create(f) PROVE Links' /\ \A v \in Worker : Mine(v)'
  <2>1. UNCHANGED <<pc, slot, which, cnt, un, head, off>>
    BY <1>2 DEF Create, diskVars, argVars, loopVars
  <2>2. \A v \in Worker : At(v)' = At(v) /\ Room(v)' = Room(v)
    BY <2>1, AtSame
  <2> QED BY <1>0, <2>1, <2>2 DEF Links, Mine
<1>3. ASSUME NEW w \in Worker, NEW f \in Inode, StartDelete(w, f)
      PROVE  Links' /\ \A v \in Worker : Mine(v)'
  <2>1. /\ UNCHANGED <<slot, which, cnt, un, off>>
        /\ pc' = [pc EXCEPT ![w] = "free"] /\ head' = [head EXCEPT ![w] = f]
    BY <1>3 DEF StartDelete, Goto
  <2>2. Links'
    BY <1>0, <2>1 DEF Links, TypeOK
  <2>3. Mine(w)'
    <3>1. pc'[w] = "free"
      BY <2>1 DEF TypeOK
    <3> QED BY <3>1, MineNothing
  <2>4. ASSUME NEW v \in Worker \ {w} PROVE Mine(v)'
    <3>1. pc'[v] = pc[v] /\ head'[v] = head[v]
      BY <2>1 DEF TypeOK
    <3>2. At(v)' = At(v) /\ Room(v)' = Room(v)
      BY <2>1, <3>1, AtSame
    <3> QED BY <1>0, <2>1, <3>1, <3>2 DEF Mine
  <2> QED BY <2>2, <2>3, <2>4
<1>4. ASSUME NEW w \in Worker, NEW o \in {"read", "write"}, NEW f \in Inode,
             NEW offset \in 0 .. MaxOffset, NEW bytes \in 1 .. MaxSize,
             StartAccess(w, o, f, offset, bytes)
      PROVE  Links' /\ \A v \in Worker : Mine(v)'
  <2>1. Still(w)
    BY <1>4, StartStill
  <2>2. pc'[w] = "locate"
    BY <1>4 DEF StartAccess, Goto, TypeOK
  <2>3. Links'
    BY <1>0, <2>1 DEF Links, Still, Frame
  <2> QED BY <1>0, <2>1, <2>2, <2>3, MineStill, MineNothing
<1>5. ASSUME NEW w \in Worker, FreeChunk(w) PROVE Links' /\ \A v \in Worker : Mine(v)'
  <2>1. pc' = pc /\ cnt' = cnt /\ pc[w] = "free"
    BY <1>5 DEF FreeChunk
  <2>2. Links'
    BY <1>0, <2>1 DEF Links
  <2> QED BY <1>0, <1>5, <2>1, <2>2, MineFree, MineNothing
<1>6. ASSUME NEW w \in Worker, FinishDelete(w) \/ Access(w)
      PROVE  Links' /\ \A v \in Worker : Mine(v)'
  <2>1. Links'
    BY <1>0, <1>6, LinksStep
  <2>2. Mine(w)'
    <3>1. CASE Access(w)
      BY <1>0, <3>1, MineOwn
    <3>2. CASE FinishDelete(w)
      <4>1. pc'[w] = "idle"
        BY <3>2 DEF FinishDelete, Return, TypeOK
      <4> QED BY <4>1, MineNothing
    <3> QED BY <1>6, <3>1, <3>2
  <2>3. ASSUME NEW v \in Worker \ {w} PROVE Mine(v)'
    <3>1. CASE Link(w)
      BY <1>0, <3>1, MineLink
    <3>2. CASE Found(w)
      <4>1. UNCHANGED <<slot, which>>
        BY <3>2 DEF Found
      <4>2. \E f \in Inode : TRUE
        BY <3>2 DEF Found, Heads, TypeOK
      <4>3. pc'[v] = pc[v] /\ head'[v] = head[v] /\ off'[v] = off[v] /\ un'[v] = un[v]
            /\ cnt'[v] = cnt[v]
        BY <3>2, <4>2, Frames DEF Frame
      <4>4. At(v)' = At(v) /\ Room(v)' = Room(v)
        BY <4>3, AtSame
      <4> QED BY <1>0, <4>1, <4>3, <4>4 DEF Mine
    <3>3. CASE ~Link(w) /\ ~Found(w)
      <4>1. Still(w)
        BY <1>6, <3>3, Stills DEF Access
      <4> QED BY <1>0, <4>1, MineStill
    <3> QED BY <3>1, <3>2, <3>3
  <2> QED BY <2>1, <2>2, <2>3
<1> QED BY <1>1, <1>2, <1>3, <1>4, <1>5, <1>6 DEF Next

\* An inode that is neither linked nor being freed owns no place of the index.
LEMMA NoChunks ==
    ASSUME TypeOK, Heads, OneOwner, ListIsIndex, NEW f \in Inode, ctx[f] = {},
           \A w \in Worker : head[w] = f => rest[w] = {}
    PROVE  \A k \in Slot : slot[<<f, k>>] = None
<1> SUFFICES ASSUME NEW k \in Slot, slot[<<f, k>>] # None PROVE FALSE
  OBVIOUS
<1>1. <<f, k>> \in Place
  BY DEF Place
<1>2. slot[<<f, k>>] \in Chunk
  BY <1>1 DEF TypeOK
<1>3. which[slot[<<f, k>>]] = <<f, k>>
  BY <1>1, <1>2 DEF OneOwner
<1>4. which[slot[<<f, k>>]] # None
  BY <1>1, <1>3, NoneAssumption
<1>5. \E w \in Worker : slot[<<f, k>>] \in rest[w]
  BY <1>2, <1>3, <1>4 DEF ListIsIndex
<1>6. PICK w \in Worker : slot[<<f, k>>] \in rest[w]
  BY <1>5
<1>7. head[w] = f
  BY <1>2, <1>3, <1>6 DEF ListIsIndex
<1> QED BY <1>6, <1>7

\* A step of an access touches the size and the places of its own inode only,
\* which is linked.
LEMMA AccessOwn ==
    ASSUME TypeOK, Heads, Knows, NEW w \in Worker, Access(w)
    PROVE  /\ UNCHANGED inodeVars /\ head[w] \in Inode /\ linked[head[w]]
           /\ \A f \in Inode \ {head[w]} : /\ size'[f] = size[f]
                                           /\ \A k \in Slot : slot'[<<f, k>>] = slot[<<f, k>>]
<1>1. Moves(w) \/ Returns(w)
  BY Shapes
<1>2. UNCHANGED inodeVars /\ head[w] \in Inode /\ linked[head[w]]
  BY <1>1 DEF Moves, Returns, AccessPC, PC, Heads, TypeOK
<1>3. \A f \in Inode \ {head[w]} : size'[f] = size[f]
  <2>1. \/ size' = size
        \/ \E n : size' = [size EXCEPT ![head[w]] = n]
    BY DEF Access, Locate, BeyondIndex, LockFile, Recheck, LockContext, Scan, Found, NoSpace,
           Link, Take, Store, Fill, Tail_, Grow, Test, ReadPart, ReadLast, FinishRead, diskVars
  <2> QED BY <2>1 DEF TypeOK
<1>4. slot' = slot \/ \E c : slot' = [slot EXCEPT ![At(w)] = c]
  BY DEF Access, Locate, BeyondIndex, LockFile, Recheck, LockContext, Scan, Found, NoSpace,
         Link, Take, Store, Fill, Tail_, Grow, Test, ReadPart, ReadLast, FinishRead, diskVars
<1>5. ASSUME NEW f \in Inode \ {head[w]}, NEW k \in Slot
      PROVE  slot'[<<f, k>>] = slot[<<f, k>>]
  <2>1. <<f, k>> \in Place /\ <<f, k>> # At(w)
    BY DEF Place, At
  <2> QED BY <1>4, <2>1 DEF TypeOK
<1> QED BY <1>2, <1>3, <1>5

\* The bytes of an inode are gone as long as it is in no directory.
LEMMA EmptiedStep == TypeOK /\ Heads /\ Knows /\ Emptied /\ [Next]_vars => Emptied'
<1> SUFFICES ASSUME TypeOK, Heads, Knows, Emptied, [Next]_vars PROVE Emptied'
  OBVIOUS
<1>1. CASE UNCHANGED vars
  BY <1>1 DEF Emptied, vars, diskVars, inodeVars
<1>2. ASSUME NEW f \in Inode, Create(f) PROVE Emptied'
  BY <1>2 DEF Create, Emptied, TypeOK, diskVars
<1>3. ASSUME NEW w \in Worker, NEW f \in Inode, StartDelete(w, f) PROVE Emptied'
  BY <1>3 DEF StartDelete, Emptied, TypeOK
<1>4. ASSUME NEW w \in Worker, NEW o \in {"read", "write"}, NEW f \in Inode,
             NEW offset \in 0 .. MaxOffset, NEW bytes \in 1 .. MaxSize,
             StartAccess(w, o, f, offset, bytes)
      PROVE  Emptied'
  BY <1>4 DEF StartAccess, Emptied, diskVars, inodeVars
<1>5. ASSUME NEW w \in Worker, FreeChunk(w) \/ FinishDelete(w) PROVE Emptied'
  BY <1>5 DEF FreeChunk, FinishDelete, Emptied, diskVars, inodeVars
<1>6. ASSUME NEW w \in Worker, Access(w) PROVE Emptied'
  BY <1>6, AccessOwn DEF Emptied, inodeVars
<1> QED BY <1>1, <1>2, <1>3, <1>4, <1>5, <1>6 DEF Next

\* A step that leaves the slab and the fresh inodes alone, and changes only
\* inodes in directories or those removed by the worker, leaves the slab unused.
LEMMA SlabKept ==
    ASSUME TypeOK, SlabIsUnused, slab' = slab, fresh' = fresh,
           \A f \in Inode : ~linked[f] => ~linked'[f],
           \A f \in Inode : (\E j \in 1 .. Len(slab) : slab[j] = f) =>
                               /\ size'[f] = size[f]
                               /\ \A k \in Slot : slot'[<<f, k>>] \in {slot[<<f, k>>], None},
           \A w \in Worker : \/ head'[w] \in {None, head[w]}
                             \/ head'[w] \in Inode /\ linked[head'[w]]
    PROVE  SlabIsUnused'
<1>1. \A j \in 1 .. Len(slab) : slab[j] \in Inode
  BY DEF TypeOK
<1>2. \A f \in fresh : f \in Inode
  BY DEF TypeOK
<1>3. \A f \in Inode, w \in Worker : ~linked[f] /\ head[w] # f => head'[w] # f
  BY NoneAssumption
<1> QED BY <1>1, <1>2, <1>3 DEF SlabIsUnused

\* Taking an inode out of the slab, or a fresh one, leaves the rest unused.
LEMMA SlabCreate == ASSUME TypeOK, SlabIsUnused, NEW f \in Inode, Create(f) PROVE SlabIsUnused'
<1>1. /\ linked' = [linked EXCEPT ![f] = TRUE] /\ size' = size /\ slot' = slot /\ head' = head
      /\ linked \in [Inode -> BOOLEAN] /\ slab \in Seq(Inode) /\ fresh \in SUBSET Inode
  BY DEF Create, diskVars, argVars, TypeOK
<1>2. CASE slab # <<>> /\ f = Head(slab) /\ slab' = Tail(slab) /\ UNCHANGED fresh
  <2>1. /\ \A j \in 1 .. Len(slab') : j + 1 \in 1 .. Len(slab) /\ slab'[j] = slab[j + 1]
        /\ f = slab[1] /\ 1 \in 1 .. Len(slab)
    BY <1>1, <1>2
  <2>2. \A j \in 1 .. Len(slab') : slab'[j] # f /\ slab'[j] \in Inode
    <3> SUFFICES ASSUME NEW j \in 1 .. Len(slab') PROVE slab'[j] # f /\ slab'[j] \in Inode
      OBVIOUS
    <3>1. j + 1 # 1 /\ j + 1 \in 1 .. Len(slab)
      BY <2>1
    <3>2. slab[j + 1] # slab[1]
      BY <2>1, <3>1 DEF SlabIsUnused
    <3> QED BY <1>1, <2>1, <3>1, <3>2
  <2>3. \A j, k \in 1 .. Len(slab') : slab'[j] = slab'[k] => j = k
    <3> SUFFICES ASSUME NEW j \in 1 .. Len(slab'), NEW k \in 1 .. Len(slab'),
                        slab'[j] = slab'[k]
                 PROVE  j = k
      OBVIOUS
    <3>1. j + 1 = k + 1
      BY <2>1 DEF SlabIsUnused
    <3> QED BY <3>1
  <2>4. \A g \in fresh : g # f /\ g \in Inode
    BY <1>1, <2>1 DEF SlabIsUnused
  <2> QED BY <1>1, <1>2, <2>1, <2>2, <2>3, <2>4 DEF SlabIsUnused
<1>3. CASE slab = <<>> /\ f \in fresh /\ fresh' = fresh \ {f} /\ UNCHANGED slab
  BY <1>1, <1>3 DEF SlabIsUnused
<1> QED BY <1>2, <1>3 DEF Create

\* A removed inode goes back to the slab when its chunks are gone.
LEMMA SlabFinish ==
    ASSUME TypeOK, Heads, OneOwner, ListIsIndex, Emptied, SlabIsUnused,
           NEW w \in Worker, FinishDelete(w)
    PROVE  SlabIsUnused'
<1> DEFINE f == head[w]
<1>1. /\ slab' = Append(slab, f) /\ head' = [head EXCEPT ![w] = None]
      /\ UNCHANGED <<linked, fresh, slot, size>> /\ pc[w] = "free" /\ rest[w] = {}
  BY DEF FinishDelete, Return, diskVars
<1>2. f \in Inode /\ ~linked[f] /\ ctx[f] = {} /\ \A v \in Worker : head[v] = f => v = w
  BY <1>1 DEF Heads, TypeOK
<1>3. \A k \in Slot : slot[<<f, k>>] = None
  BY <1>1, <1>2, NoChunks
<1>4. size[f] = 0
  BY <1>2 DEF Emptied
<1>5. f \notin fresh /\ \A j \in 1 .. Len(slab) : slab[j] # f
  BY DEF SlabIsUnused
<1>6. \A v \in Worker : head'[v] # f /\ \A g \in Inode : head[v] # g => head'[v] # g
  BY <1>1, <1>2, NoneAssumption DEF TypeOK
<1> HIDE DEF f
<1>7. /\ slab \in Seq(Inode) /\ Len(slab') = Len(slab) + 1 /\ Len(slab) \in Nat
      /\ slab'[Len(slab) + 1] = f /\ \A j \in 1 .. Len(slab) : slab'[j] = slab[j]
  BY <1>1, <1>2 DEF TypeOK
<1>8. \A j \in 1 .. Len(slab') : j \in 1 .. Len(slab) \/ j = Len(slab) + 1
  BY <1>7
<1>9. \A j, k \in 1 .. Len(slab') : slab'[j] = slab'[k] => j = k
  BY <1>5, <1>7, <1>8 DEF SlabIsUnused
<1>10. ASSUME NEW j \in 1 .. Len(slab')
       PROVE  /\ ~linked'[slab'[j]] /\ slab'[j] \notin fresh' /\ size'[slab'[j]] = 0
              /\ \A k \in Slot : slot'[<<slab'[j], k>>] = None
              /\ \A v \in Worker : head'[v] # slab'[j]
  <2>1. CASE j \in 1 .. Len(slab)
    <3>1. slab'[j] = slab[j] /\ slab[j] \in Inode
      BY <1>7, <2>1
    <3> QED BY <1>1, <1>6, <2>1, <3>1 DEF SlabIsUnused
  <2>2. CASE j = Len(slab) + 1
    BY <1>1, <1>2, <1>3, <1>4, <1>5, <1>6, <1>7, <2>2
  <2> QED BY <1>8, <2>1, <2>2
<1>11. \A g \in fresh' : ~linked'[g] /\ \A v \in Worker : head'[v] # g
  BY <1>1, <1>6 DEF SlabIsUnused, TypeOK
<1> QED BY <1>9, <1>10, <1>11 DEF SlabIsUnused

\* Every step keeps the slab unused.
LEMMA SlabStep ==
    TypeOK /\ Heads /\ Knows /\ Core /\ Emptied /\ SlabIsUnused /\ [Next]_vars => SlabIsUnused'
<1> SUFFICES ASSUME TypeOK, Heads, Knows, Core, Emptied, SlabIsUnused, [Next]_vars
             PROVE  SlabIsUnused'
  OBVIOUS
<1>0. OneOwner /\ ListIsIndex
  BY DEF Core
<1>00. \A j \in 1 .. Len(slab) : slab[j] \in Inode
  BY DEF TypeOK
<1>1. CASE UNCHANGED vars
  BY <1>1 DEF SlabIsUnused, vars, diskVars, inodeVars, argVars
<1>2. ASSUME NEW f \in Inode, Create(f) PROVE SlabIsUnused'
  BY <1>2, SlabCreate
<1>3. ASSUME NEW w \in Worker, NEW f \in Inode, StartDelete(w, f) PROVE SlabIsUnused'
  <2>1. /\ slab' = slab /\ fresh' = fresh /\ slot' = slot /\ linked[f]
        /\ linked' = [linked EXCEPT ![f] = FALSE] /\ size' = [size EXCEPT ![f] = 0]
        /\ head' = [head EXCEPT ![w] = f]
    BY <1>3 DEF StartDelete
  <2>2. \A g \in Inode : (\E j \in 1 .. Len(slab) : slab[j] = g) => size'[g] = size[g]
    BY <2>1 DEF SlabIsUnused, TypeOK
  <2> QED BY <2>1, <2>2, SlabKept DEF TypeOK
<1>4. ASSUME NEW w \in Worker, NEW o \in {"read", "write"}, NEW f \in Inode,
             NEW offset \in 0 .. MaxOffset, NEW bytes \in 1 .. MaxSize,
             StartAccess(w, o, f, offset, bytes)
      PROVE  SlabIsUnused'
  <2>1. /\ UNCHANGED <<slab, fresh, slot, linked, size>> /\ linked[f]
        /\ head' = [head EXCEPT ![w] = f]
    BY <1>4 DEF StartAccess, inodeVars, diskVars
  <2> QED BY <2>1, SlabKept DEF TypeOK
<1>5. ASSUME NEW w \in Worker, FreeChunk(w) PROVE SlabIsUnused'
  <2>1. UNCHANGED <<slab, fresh, linked, size, head>>
    BY <1>5 DEF FreeChunk, inodeVars, argVars
  <2>2. PICK c \in rest[w] : slot' = [slot EXCEPT ![which[c]] = None]
    BY <1>5 DEF FreeChunk
  <2>3. \A g \in Inode, k \in Slot : slot'[<<g, k>>] \in {slot[<<g, k>>], None}
    <3> SUFFICES ASSUME NEW g \in Inode, NEW k \in Slot
                 PROVE  slot'[<<g, k>>] \in {slot[<<g, k>>], None}
      OBVIOUS
    <3>1. <<g, k>> \in Place
      BY DEF Place
    <3> QED BY <2>2, <3>1 DEF TypeOK
  <2> QED BY <2>1, <2>3, SlabKept
<1>6. ASSUME NEW w \in Worker, FinishDelete(w) PROVE SlabIsUnused'
  BY <1>0, <1>6, SlabFinish
<1>7. ASSUME NEW w \in Worker, Access(w) PROVE SlabIsUnused'
  <2>1. UNCHANGED <<slab, fresh, linked>> /\ head[w] \in Inode /\ linked[head[w]]
        /\ \A f \in Inode \ {head[w]} : /\ size'[f] = size[f]
                                        /\ \A k \in Slot : slot'[<<f, k>>] = slot[<<f, k>>]
    BY <1>7, AccessOwn DEF inodeVars
  <2>2. \A f \in Inode : (\E j \in 1 .. Len(slab) : slab[j] = f) => f # head[w]
    BY <2>1 DEF SlabIsUnused
  <2>3. \A v \in Worker : head'[v] \in {None, head[v]}
    <3>1. Moves(w) \/ Returns(w)
      BY <1>7, Shapes
    <3> QED BY <3>1 DEF Moves, Returns, Return, argVars, TypeOK
  <2> QED BY <2>1, <2>2, <2>3, SlabKept
<1> QED BY <1>1, <1>2, <1>3, <1>4, <1>5, <1>6, <1>7 DEF Next

-----------------------------------------------------------------------------
\* The initial states satisfy the strengthened invariant, ...
LEMMA InitInv == Init => IInv
<1> SUFFICES ASSUME Init PROVE IInv
  OBVIOUS
<1>1. TypeOK
  <2>1. 0 \in Chunk
    BY ChunkAssumption DEF Chunk
  <2> QED BY <2>1, Zero, SlabAssumption DEF Init, TypeOK, PC
<1>2. LockHolders /\ Heads /\ Knows /\ Emptied
  BY DEF Init, LockHolders, Heads, Knows, Holding, Chosen, Emptied
<1>3. OneOwner /\ BitmapExact /\ StableTarget /\ ListIsIndex
  <2>1. \A p \in Place, c \in Chunk : p # None /\ c # None
    BY NoneAssumption
  <2> QED BY <2>1 DEF Init, OneOwner, BitmapExact, StableTarget, ListIsIndex, Chosen
<1>4. SlabIsUnused
  <2>1. \A j \in 1 .. Len(SLAB) : SLAB[j] \in Inode
    BY SlabAssumption
  <2>2. \A f \in Inode, k \in Slot : slot[<<f, k>>] = None
    BY DEF Init, Place
  <2> QED BY <2>1, <2>2, SlabAssumption, NoneAssumption DEF Init, SlabIsUnused
<1> QED BY <1>1, <1>2, <1>3, <1>4 DEF IInv, Core

\* ... which every step preserves.
LEMMA StepInv == IInv /\ [Next]_vars => IInv'
<1> SUFFICES ASSUME IInv, [Next]_vars PROVE IInv'
  OBVIOUS
<1>1. /\ TypeOK /\ LockHolders /\ Heads /\ Knows /\ Core /\ Emptied /\ SlabIsUnused
      /\ OneOwner /\ BitmapExact /\ StableTarget /\ ListIsIndex
  BY DEF IInv, Core
<1>2. TypeOK'
  BY <1>1, TypeStep
<1>3. LockHolders' /\ Heads'
  BY <1>1, LockStep, HeadStep
<1>4. Knows' /\ StableTarget'
  BY <1>1, KnowsStep
<1>5. OneOwner' /\ BitmapExact' /\ ListIsIndex'
  BY <1>1, CoreStep
<1>6. Emptied' /\ SlabIsUnused'
  BY <1>1, EmptiedStep, SlabStep
<1> QED BY <1>2, <1>3, <1>4, <1>5, <1>6 DEF IInv, Core

\* The strengthened invariant holds in every execution.
THEOREM Invariance == Spec => []IInv
  BY InitInv, StepInv, PTL DEF Spec

\* Type correctness of the inodes, the index and the workers.
THEOREM TypeCorrect == Spec => []TypeOK
<1>1. IInv => TypeOK
  BY DEF IInv
<1> QED BY <1>1, Invariance, PTL

\* A chunk is in one place of one file, and that place and the chunk name each
\* other, however many writers race to fill a place.
THEOREM ChunksAreOwned == Spec => []OneOwner
<1>1. IInv => OneOwner
  BY DEF IInv, Core
<1> QED BY <1>1, Invariance, PTL

\* The bitmap neither leaks a chunk nor gives one twice, though removals clear
\* bits without the lock of the allocator.
THEOREM BitmapIsExact == Spec => []BitmapExact
<1>1. IInv => BitmapExact
  BY DEF IInv, Core
<1> QED BY <1>1, Invariance, PTL

\* What a reader or writer has looked up is the chunk of its place, until it is
\* done with it.
THEOREM TargetsAreStable == Spec => []StableTarget
<1>1. IInv => StableTarget
  BY DEF IInv, Core
<1> QED BY <1>1, Invariance, PTL

\* The list of an inode has exactly the chunks of its index.
THEOREM ListsAreIndexes == Spec => []ListIsIndex
<1>1. IInv => ListIsIndex
  BY DEF IInv, Core
<1> QED BY <1>1, Invariance, PTL

\* Both together, which the run checks.
THEOREM ChunksHaveOneFile == Spec => []ChunksBelong
<1>1. IInv => ChunksBelong
  BY DEF IInv, Core, ChunksBelong
<1> QED BY <1>1, Invariance, PTL

\* Inodes that get_free_inode can hand out are empty and in nobody's hands.
THEOREM SlabUnused == Spec => []SlabIsUnused
<1>1. IInv => SlabIsUnused
  BY DEF IInv
<1> QED BY <1>1, Invariance, PTL

\* Every step of the index takes a chunk from nobody, gives one back to nobody
\* or is none of the allocator's business: the index implements ChunkOwners.
LEMMA OwnersStep == IInv /\ [Next]_vars => [Owners!Next]_which
<1> SUFFICES ASSUME IInv, [Next]_vars PROVE [Owners!Next]_which
  OBVIOUS
<1>0. TypeOK /\ Heads /\ Knows /\ OneOwner /\ BitmapExact /\ ListIsIndex
  BY DEF IInv, Core
<1>1. ASSUME NEW w \in Worker, Link(w) PROVE Owners!Next
  <2>1. /\ At(w) \in Place /\ cnt[w] \in Chunk /\ slot[At(w)] = None /\ which[cnt[w]] = None
        /\ which' = [which EXCEPT ![cnt[w]] = At(w)]
    BY <1>0, <1>1, LinkEffect
  <2>2. \A d \in Chunk : which[d] # At(w)
    BY <1>0, <2>1, NoneAssumption DEF OneOwner
  <2>3. Owners!Allocate(cnt[w], At(w))
    BY <2>1, <2>2 DEF Owners!Allocate
  <2> QED BY <2>1, <2>3 DEF Owners!Next
<1>2. ASSUME NEW w \in Worker, FreeChunk(w) PROVE Owners!Next
  <2>1. PICK c \in rest[w] : which' = [which EXCEPT ![c] = None]
    BY <1>2 DEF FreeChunk
  <2>2. c \in Chunk /\ which[c] # None
    BY <1>0, FreedPlace
  <2>3. Owners!Release(c)
    BY <2>1, <2>2 DEF Owners!Release
  <2> QED BY <2>2, <2>3 DEF Owners!Next
<1>3. CASE UNCHANGED which
  BY <1>3
<1>4. CASE UNCHANGED vars
  BY <1>4 DEF vars, diskVars
<1>5. ASSUME NEW w \in Worker, Access(w), ~Link(w) PROVE UNCHANGED which
  BY <1>5 DEF Access, Locate, BeyondIndex, LockFile, Recheck, LockContext, Scan, Found, NoSpace,
              Take, Store, Fill, Tail_, Grow, Test, ReadPart, ReadLast, FinishRead, diskVars
<1>6. ASSUME NEW f \in Inode, Create(f) PROVE UNCHANGED which
  BY <1>6 DEF Create, diskVars
<1>7. ASSUME NEW w \in Worker, FinishDelete(w) \/ \E f \in Inode : StartDelete(w, f)
      PROVE  UNCHANGED which
  BY <1>7 DEF FinishDelete, StartDelete, diskVars
<1>8. ASSUME NEW w \in Worker, NEW o \in {"read", "write"}, NEW f \in Inode,
             NEW offset \in 0 .. MaxOffset, NEW bytes \in 1 .. MaxSize,
             StartAccess(w, o, f, offset, bytes)
      PROVE  UNCHANGED which
  BY <1>8 DEF StartAccess, diskVars
<1> QED BY <1>1, <1>2, <1>3, <1>4, <1>5, <1>6, <1>7, <1>8 DEF Next

\* The index of the files implements the ownership that ChunkOwners promises.
THEOREM ImplementsOwners == Spec => Owned
<1>1. Init => Owners!Init
  BY DEF Init, Owners!Init
<1>2. IInv /\ [Next]_vars => [Owners!Next]_which
  BY OwnersStep
<1> QED BY <1>1, <1>2, Invariance, PTL DEF Spec, Owned, Owners!Spec

-----------------------------------------------------------------------------
(* Sums over a finite set, by the recursion of FoldFunction.  What holds   *)
(* for all finite sets is shown by a counterexample that is smallest.      *)

\* A set of natural numbers that is not empty has a least one.
Before == {p \in Nat \X Nat : p[1] < p[2]}
LEMMA Least == ASSUME NEW T \in SUBSET Nat, T # {}
               PROVE  \E n \in T : \A m \in T : ~ (m < n)
  <1>1. IsWellFoundedOn(Before, Nat)
    BY NatLessThanWellFounded DEF OpToRel, Before
  <1>2. \E x \in T : \A y \in T : ~(<<y, x>> \in Before)
    BY <1>1, WFMin
  <1> QED BY <1>2 DEF Before

\* Of the subsets of a finite set there is a smallest one.
LEMMA LeastSet == ASSUME NEW S, IsFiniteSet(S), NEW T \in SUBSET (SUBSET S), T # {}
                  PROVE  \E s \in T : IsFiniteSet(s) /\ \A x \in s : s \ {x} \notin T
  <1>1. IsWellFoundedOn(StrictSubsetOrdering(S), FiniteSubsetsOf(S))
    BY FS_StrictSubsetOrderingWellFounded
  <1>2. T \subseteq FiniteSubsetsOf(S)
    BY FS_Subset DEF FiniteSubsetsOf
  <1>3. PICK s \in T : \A y \in T : <<y, s>> \notin StrictSubsetOrdering(S)
    <2> HIDE DEF StrictSubsetOrdering
    <2> QED BY <1>1, <1>2, WFMin
  <1>4. IsFiniteSet(s)
    BY FS_Subset
  <1>5. ASSUME NEW x \in s PROVE s \ {x} \notin T
    BY <1>3 DEF StrictSubsetOrdering
  <1> QED BY <1>4, <1>5

\* The element that the sum of Functions takes off a set first, and what its
\* recursion makes of the sum g of a smaller set.
First(s) == CHOOSE x \in s : TRUE
Summand(f, g, s) == IF s = {} THEN 0 ELSE f[First(s)] + g[s \ {First(s)}]

\* The recursion has a solution on the subsets with at most n elements, ...
Small(S, n) == {s \in SUBSET S : Cardinality(s) <= n}
LEMMA SmallSums == ASSUME NEW f, NEW S, IsFiniteSet(S), NEW n \in Nat
                   PROVE  \E g : g = [s \in Small(S, n) |-> Summand(f, g, s)]
  <1> DEFINE Sums(m) == \E g : g = [s \in Small(S, m) |-> Summand(f, g, s)]
             Bad == {m \in Nat : ~Sums(m)}
  <1>1. ASSUME NEW s \in SUBSET S, s # {}
        PROVE  /\ First(s) \in s /\ s \ {First(s)} \in SUBSET S
               /\ Cardinality(s) \in Nat
               /\ Cardinality(s \ {First(s)}) = Cardinality(s) - 1
    <2>1. First(s) \in s
      BY <1>1 DEF First
    <2>2. IsFiniteSet(s)
      BY FS_Subset
    <2> QED BY <2>1, <2>2, FS_RemoveElement, FS_CardinalityType
  <1>2. ASSUME NEW m \in Bad, \A k \in Bad : ~(k < m) PROVE FALSE
    <2>1. PICK g : m # 0 => g = [s \in Small(S, m - 1) |-> Summand(f, g, s)]
      <3>1. CASE m = 0
        BY <3>1
      <3>2. CASE m # 0
        <4>1. m - 1 \in Nat /\ m - 1 < m /\ m - 1 \notin Bad
          BY <3>2, <1>2
        <4> QED BY <4>1
      <3> QED BY <3>1, <3>2
    <2> DEFINE h == [s \in Small(S, m) |-> Summand(f, g, s)]
    <2>2. ASSUME NEW s \in Small(S, m) PROVE Summand(f, g, s) = Summand(f, h, s)
      <3>1. CASE s = {}
        BY <3>1 DEF Summand
      <3>2. CASE s # {}
        <4> DEFINE u == s \ {First(s)}
        <4>0. s \in SUBSET S /\ Cardinality(s) <= m /\ m \in Nat
          BY DEF Small
        <4>1. u \in SUBSET S /\ Cardinality(u) = Cardinality(s) - 1 /\ Cardinality(s) \in Nat
          BY <4>0, <1>1, <3>2
        <4>2. Cardinality(u) \in Nat
          BY <4>0, <4>1, FS_Subset, FS_CardinalityType
        <4>3. m # 0 /\ Cardinality(u) <= m - 1 /\ Cardinality(u) <= m
          BY <4>0, <4>1, <4>2
        <4>4. m # 0 /\ u \in Small(S, m - 1) /\ u \in Small(S, m)
          <5> HIDE DEF u
          <5> QED BY <4>1, <4>3 DEF Small
        <4>5. g[u] = Summand(f, g, u) /\ h[u] = Summand(f, g, u)
          BY <4>4, <2>1
        <4> HIDE DEF h
        <4> QED BY <4>5, <3>2 DEF Summand
      <3> QED BY <3>1, <3>2
    <2>3. h = [s \in Small(S, m) |-> Summand(f, h, s)]
      BY <2>2
    <2> HIDE DEF h
    <2>4. Sums(m)
      BY <2>3
    <2> QED BY <2>4
  <1>3. Bad = {}
    <2> HIDE DEF Bad
    <2>1. Bad \in SUBSET Nat
      BY DEF Bad
    <2> QED BY <1>2, <2>1, Least
  <1> QED BY <1>3

\* ... and so on all of them: the sum of a function on a finite set is what the
\* recursion says.
LEMMA SumUnfolds ==
    ASSUME NEW f, IsFiniteSet(DOMAIN f)
    PROVE  \E g : /\ SumFunction(f) = g[DOMAIN f]
                  /\ \A s \in SUBSET DOMAIN f : g[s] = Summand(f, g, s)
  <1> DEFINE S == DOMAIN f
             Rec(g) == g = [s \in SUBSET S |-> Summand(f, g, s)]
  <1>1. SumFunction(f) = (CHOOSE g : Rec(g))[S]
    BY DEF SumFunction, SumFunctionOnSet, FoldFunctionOnSet, MapThenFoldSet, Summand, First
  <1>2. Cardinality(S) \in Nat
    BY FS_CardinalityType
  <1>3. Small(S, Cardinality(S)) = SUBSET S
    BY FS_Subset DEF Small
  <1>4. \E g : Rec(g)
    <2>1. \E g : g = [s \in Small(S, Cardinality(S)) |-> Summand(f, g, s)]
      BY <1>2, SmallSums
    <2> QED BY <2>1, <1>3
  <1>5. Rec(CHOOSE g : Rec(g))
    <2> HIDE DEF Rec
    <2> QED BY <1>4
  <1> DEFINE g == CHOOSE g : Rec(g)
  <1>6. SumFunction(f) = g[S] /\ Rec(g)
    BY <1>1, <1>5
  <1> HIDE DEF g
  <1> QED BY <1>6

\* The sum after a change at one place.
LEMMA SumChange ==
    ASSUME NEW S, IsFiniteSet(S), NEW f \in [S -> Int], NEW h \in [S -> Int],
           NEW k \in S, \A x \in S \ {k} : h[x] = f[x]
    PROVE  SumFunction(f) \in Int /\ SumFunction(h) = SumFunction(f) + (h[k] - f[k])
  <1>1. PICK g : /\ SumFunction(f) = g[S]
                 /\ \A s \in SUBSET S : g[s] = Summand(f, g, s)
    <2>1. DOMAIN f = S
      OBVIOUS
    <2> QED BY <2>1, SumUnfolds
  <1>2. PICK e : /\ SumFunction(h) = e[S]
                 /\ \A s \in SUBSET S : e[s] = Summand(h, e, s)
    <2>1. DOMAIN h = S
      OBVIOUS
    <2> QED BY <2>1, SumUnfolds
  <1> DEFINE Moved(s) == g[s] \in Int /\ e[s] = g[s] + (IF k \in s THEN h[k] - f[k] ELSE 0)
             Bad == {s \in SUBSET S : ~Moved(s)}
  <1>3. ASSUME NEW s \in SUBSET S, \A x \in s : s \ {x} \notin Bad PROVE Moved(s)
    <2>1. g[s] = Summand(f, g, s) /\ e[s] = Summand(h, e, s)
      BY <1>1, <1>2
    <2>2. CASE s = {}
      BY <2>1, <2>2 DEF Summand
    <2>3. CASE s # {}
      <3> DEFINE x == First(s)
                 u == s \ {x}
      <3>1. x \in s /\ u \in SUBSET S
        BY <2>3 DEF First
      <3> HIDE DEF x
      <3>2. Moved(u)
        BY <3>1, <1>3
      <3>3. g[s] = f[x] + g[u] /\ e[s] = h[x] + e[u]
        BY <2>1, <2>3 DEF Summand, x
      <3>4. f[x] \in Int /\ h[x] \in Int /\ f[k] \in Int /\ h[k] \in Int /\ (x # k => h[x] = f[x])
        BY <3>1
      <3>5. CASE x = k
        <4>1. k \in s /\ k \notin u
          BY <3>1, <3>5
        <4>2. g[u] \in Int /\ e[u] = g[u] + 0
          BY <4>1, <3>2
        <4> QED BY <4>1, <4>2, <3>3, <3>4, <3>5
      <3>6. CASE x # k
        <4>1. k \in s <=> k \in u
          BY <3>1, <3>6
        <4>2. h[x] = f[x]
          BY <3>4, <3>6
        <4> QED BY <4>1, <4>2, <3>2, <3>3, <3>4
      <3> QED BY <3>5, <3>6
    <2> QED BY <2>2, <2>3
  <1>4. Bad = {}
    <2>1. ASSUME NEW s \in Bad, \A x \in s : s \ {x} \notin Bad PROVE FALSE
      BY <1>3, <2>1
    <2>2. Bad \in SUBSET (SUBSET S)
      OBVIOUS
    <2> HIDE DEF Bad
    <2> QED BY <2>1, <2>2, LeastSet
  <1>5. Moved(S)
    BY <1>4
  <1> QED BY <1>1, <1>2, <1>5

\* The sum of zeros.
LEMMA SumZero == ASSUME NEW S, IsFiniteSet(S), NEW f \in [S -> {0}]
                 PROVE  SumFunction(f) = 0
  <1>1. PICK g : /\ SumFunction(f) = g[S]
                 /\ \A s \in SUBSET S : g[s] = Summand(f, g, s)
    <2>1. DOMAIN f = S
      OBVIOUS
    <2> QED BY <2>1, SumUnfolds
  <1> DEFINE Bad == {s \in SUBSET S : g[s] # 0}
  <1>2. ASSUME NEW s \in SUBSET S, \A x \in s : s \ {x} \notin Bad PROVE g[s] = 0
    <2>1. g[s] = Summand(f, g, s)
      BY <1>1
    <2>2. CASE s = {}
      BY <2>1, <2>2 DEF Summand
    <2>3. CASE s # {}
      <3>1. First(s) \in s
        BY <2>3 DEF First
      <3>2. f[First(s)] = 0 /\ g[s \ {First(s)}] = 0
        BY <3>1, <1>2
      <3> QED BY <2>1, <2>3, <3>2 DEF Summand
    <2> QED BY <2>2, <2>3
  <1>3. Bad = {}
    <2>1. ASSUME NEW s \in Bad, \A x \in s : s \ {x} \notin Bad PROVE FALSE
      BY <1>2, <2>1
    <2>2. Bad \in SUBSET (SUBSET S)
      OBVIOUS
    <2> HIDE DEF Bad
    <2> QED BY <2>1, <2>2, LeastSet
  <1> QED BY <1>1, <1>3

-----------------------------------------------------------------------------
(* The size of a file.                                                     *)

\* The places of a file are finitely many, and have sizes.
LEMMA SlotFinite == IsFiniteSet(Slot)
  BY FS_Interval, SlotAssumption DEF Slot

LEMMA SizesType == ASSUME TypeOK, NEW f \in Inode PROVE Sizes(f) \in [Slot -> Int]
<1>1. ASSUME NEW k \in Slot, slot[<<f, k>>] # None PROVE csize[slot[<<f, k>>]] \in Int
  <2>1. <<f, k>> \in Place
    BY DEF Place
  <2>2. slot[<<f, k>>] \in Chunk
    BY <1>1, <2>1 DEF TypeOK
  <2> QED BY <2>2, ChunkAssumption DEF TypeOK
<1> QED BY <1>1 DEF Sizes

\* The sizes of a file whose places and chunks are left alone.
LEMMA SizesSame ==
    ASSUME NEW f \in Inode,
           \A k \in Slot : /\ slot'[<<f, k>>] = slot[<<f, k>>]
                           /\ slot[<<f, k>>] # None => csize'[slot[<<f, k>>]] = csize[slot[<<f, k>>]]
    PROVE  Sizes(f)' = Sizes(f)
<1>1. Sizes(f)' = [k \in Slot |-> IF slot'[<<f, k>>] = None THEN 0 ELSE csize'[slot'[<<f, k>>]]]
  BY DEF Sizes
<1>2. ASSUME NEW k \in Slot
      PROVE  (IF slot'[<<f, k>>] = None THEN 0 ELSE csize'[slot'[<<f, k>>]])
             = (IF slot[<<f, k>>] = None THEN 0 ELSE csize[slot[<<f, k>>]])
  OBVIOUS
<1> QED BY <1>1, <1>2 DEF Sizes

\* A step that only resizes the chunk in a place of a file does not touch the
\* sizes of the others.
LEMMA SizesOthers ==
    ASSUME TypeOK, OneOwner, NEW p \in Place, NEW c \in Chunk, slot[p] = c, NEW n,
           csize' = [csize EXCEPT ![c] = n], NEW f \in Inode \ {p[1]},
           \A k \in Slot : slot'[<<f, k>>] = slot[<<f, k>>]
    PROVE  Sizes(f)' = Sizes(f)
<1>1. ASSUME NEW k \in Slot, slot[<<f, k>>] # None
      PROVE  csize'[slot[<<f, k>>]] = csize[slot[<<f, k>>]]
  <2>1. <<f, k>> \in Place
    BY DEF Place
  <2>2. slot[<<f, k>>] \in Chunk
    BY <1>1, <2>1 DEF TypeOK
  <2>3. slot[<<f, k>>] # c
    <3>1. SUFFICES ASSUME slot[<<f, k>>] = c PROVE FALSE
      OBVIOUS
    <3>2. which[c] = <<f, k>> /\ which[c] = p
      BY <2>1, <3>1 DEF OneOwner
    <3> QED BY <3>2
  <2> QED BY <2>2, <2>3 DEF TypeOK
<1> QED BY <1>1, SizesSame

\* What Fill and Grow do to the size of a file and the chunk in one of its
\* places: both by the same number of bytes.
Resize(w, n) == /\ size' = [size EXCEPT ![head[w]] = @ + (n - csize[cnt[w]])]
                /\ csize' = [csize EXCEPT ![cnt[w]] = n]
                /\ UNCHANGED <<slot, which, linked>>
LEMMA ResizeSizes ==
    ASSUME TypeOK, OneOwner, StableTarget, Heads, Knows, Unsized, SizeIsSum,
           NEW w \in Worker, pc[w] \in {"fill", "grow"}, NEW n \in 0 .. CHUNK_SIZE, Resize(w, n)
    PROVE  Unsized' /\ SizeIsSum'
<1> DEFINE c == cnt[w]
           g == head[w]
           j == off[w] \div CHUNK_SIZE
<1>1. /\ g \in Inode /\ j \in Slot /\ At(w) = <<g, j>> /\ At(w) \in Place
      /\ c \in Chunk /\ slot[<<g, j>>] = c /\ c # None
  <2>1. pc[w] \in Chosen
    BY DEF Chosen
  <2>2. At(w) \in Place /\ slot[At(w)] = c /\ c # None
    BY <2>1 DEF Knows, StableTarget
  <2>3. c \in Chunk
    BY <2>2 DEF TypeOK
  <2> QED BY <2>2, <2>3 DEF At, Place
<1>2. n \in Int /\ csize[c] \in Int
  BY <1>1, ChunkAssumption DEF TypeOK
<1>3. Unsized'
  <2>1. which[c] = <<g, j>> /\ <<g, j>> # None
    <3>1. <<g, j>> \in Place
      BY <1>1
    <3> QED BY <1>1, <3>1, NoneAssumption DEF OneOwner
  <2> QED BY <1>1, <2>1 DEF Unsized, Resize, TypeOK
<1>4. ASSUME NEW f \in Inode, linked[f] PROVE size'[f] = SumFunction(Sizes(f)')
  <2>1. CASE f # g
    <3>1. Sizes(f)' = Sizes(f)
      <4>1. f \in Inode \ {At(w)[1]}
        BY <1>1, <2>1
      <4>2. slot[At(w)] = c /\ \A k \in Slot : slot'[<<f, k>>] = slot[<<f, k>>]
        BY <1>1 DEF Resize
      <4>3. csize' = [csize EXCEPT ![c] = n]
        BY DEF Resize
      <4> HIDE DEF c, g
      <4> QED BY <1>1, <4>1, <4>2, <4>3, SizesOthers
    <3>2. size'[f] = size[f]
      BY <2>1 DEF Resize, TypeOK
    <3> QED BY <3>1, <3>2, <1>4 DEF SizeIsSum
  <2>2. CASE f = g
    <3>1. Sizes(f) \in [Slot -> Int] /\ Sizes(f)[j] = csize[c]
      BY <1>1, <2>2, SizesType DEF Sizes
    <3>2. csize'[c] = n /\ \A d \in Chunk \ {c} : csize'[d] = csize[d]
      BY <1>1 DEF Resize, TypeOK
    <3>3. Sizes(f)' = [k \in Slot |-> IF slot[<<f, k>>] = None THEN 0 ELSE csize'[slot[<<f, k>>]]]
      BY DEF Sizes, Resize
    <3>4. ASSUME NEW k \in Slot \ {j}, slot[<<f, k>>] # None
          PROVE  csize'[slot[<<f, k>>]] = csize[slot[<<f, k>>]]
      <4>1. <<f, k>> \in Place /\ <<f, j>> \in Place /\ <<f, k>> # <<f, j>>
        BY <1>1 DEF Place
      <4>2. slot[<<f, k>>] \in Chunk
        BY <3>4, <4>1 DEF TypeOK
      <4>3. slot[<<f, k>>] # c
        BY <1>1, <2>2, <4>1 DEF OneOwner
      <4> QED BY <3>2, <4>2, <4>3
    <3>5. Sizes(f)' \in [Slot -> Int] /\ Sizes(f)'[j] = n /\ \A k \in Slot \ {j} : Sizes(f)'[k] = Sizes(f)[k]
      <4> DEFINE z(k) == IF slot[<<f, k>>] = None THEN 0 ELSE csize'[slot[<<f, k>>]]
      <4>1. z(j) = n
        BY <1>1, <2>2, <3>2
      <4>2. \A k \in Slot \ {j} : z(k) = Sizes(f)[k]
        BY <3>4 DEF Sizes
      <4>3. \A k \in Slot : z(k) \in Int
        BY <1>2, <3>1, <4>1, <4>2
      <4>4. Sizes(f)' = [k \in Slot |-> z(k)]
        BY <3>3
      <4> HIDE DEF z, j
      <4> QED BY <1>1, <4>1, <4>2, <4>3, <4>4
    <3>6. SumFunction(Sizes(f)) \in Int /\ SumFunction(Sizes(f)') = SumFunction(Sizes(f)) + (n - csize[c])
      <4> DEFINE old == Sizes(f)
                 new == Sizes(f)'
      <4>1. /\ old \in [Slot -> Int] /\ new \in [Slot -> Int] /\ j \in Slot
            /\ \A k \in Slot \ {j} : new[k] = old[k]
            /\ old[j] = csize[c] /\ new[j] = n
        BY <1>1, <3>1, <3>5
      <4> HIDE DEF old, new, j
      <4>2. SumFunction(old) \in Int /\ SumFunction(new) = SumFunction(old) + (new[j] - old[j])
        BY <4>1, SlotFinite, SumChange
      <4>3. SumFunction(old) \in Int /\ SumFunction(new) = SumFunction(old) + (n - csize[c])
        BY <4>1, <4>2
      <4> QED BY <4>3 DEF old, new
    <3>7. size'[f] = size[f] + (n - csize[c])
      BY <2>2 DEF Resize, TypeOK
    <3>8. size[f] = SumFunction(Sizes(f))
      BY <1>4 DEF SizeIsSum
    <3> QED BY <3>6, <3>7, <3>8
  <2> QED BY <2>1, <2>2
<1>5. \A f \in Inode : linked'[f] => size'[f] = SumFunction(Sizes(f)')
  BY <1>4 DEF Resize
<1>6. SizeIsSum'
  BY <1>5 DEF SizeIsSum
<1> QED BY <1>3, <1>6

\* A step that leaves the sizes, the places and the chunks alone.
LEMMA SizesStill ==
    ASSUME Unsized, SizeIsSum, UNCHANGED <<slot, which, csize, size, linked>>
    PROVE  Unsized' /\ SizeIsSum'
<1>1. ASSUME NEW f \in Inode PROVE Sizes(f)' = Sizes(f)
  BY SizesSame
<1> QED BY <1>1 DEF Unsized, SizeIsSum

\* A chunk that a file gets has no size yet.
LEMMA SizesLink ==
    ASSUME TypeOK, Heads, Knows, Unsized, SizeIsSum, NEW w \in Worker, Link(w)
    PROVE  Unsized' /\ SizeIsSum'
<1>1. /\ At(w) \in Place /\ At(w) # None /\ cnt[w] \in Chunk /\ slot[At(w)] = None
      /\ which[cnt[w]] = None
      /\ slot' = [slot EXCEPT ![At(w)] = cnt[w]] /\ which' = [which EXCEPT ![cnt[w]] = At(w)]
  BY LinkEffect
<1>2. csize' = csize /\ size' = size /\ linked' = linked
  BY DEF Link, inodeVars
<1>3. csize[cnt[w]] = 0 /\ cnt[w] # None
  BY <1>1, NoneAssumption DEF Unsized
<1>4. Unsized'
  BY <1>1, <1>2 DEF Unsized, TypeOK
<1>5. ASSUME NEW f \in Inode PROVE Sizes(f)' = Sizes(f)
  <2>1. Sizes(f)' = [k \in Slot |-> IF slot'[<<f, k>>] = None THEN 0 ELSE csize[slot'[<<f, k>>]]]
    BY <1>2 DEF Sizes
  <2>2. ASSUME NEW k \in Slot
        PROVE  (IF slot'[<<f, k>>] = None THEN 0 ELSE csize[slot'[<<f, k>>]])
               = (IF slot[<<f, k>>] = None THEN 0 ELSE csize[slot[<<f, k>>]])
    <3>1. <<f, k>> \in Place
      BY DEF Place
    <3>2. CASE <<f, k>> = At(w)
      <4>1. slot[<<f, k>>] = None /\ slot'[<<f, k>>] = cnt[w]
        BY <1>1, <3>1, <3>2 DEF TypeOK
      <4> QED BY <4>1, <1>3
    <3>3. CASE <<f, k>> # At(w)
      <4>1. slot'[<<f, k>>] = slot[<<f, k>>]
        BY <1>1, <3>1, <3>3 DEF TypeOK
      <4> QED BY <4>1
    <3> QED BY <3>2, <3>3
  <2> QED BY <2>1, <2>2 DEF Sizes
<1> QED BY <1>2, <1>4, <1>5 DEF SizeIsSum

\* The chunk that a removal frees is in no linked file.
LEMMA SizesFree ==
    ASSUME TypeOK, Heads, OneOwner, ListIsIndex, Unsized, SizeIsSum, NEW w \in Worker,
           FreeChunk(w)
    PROVE  Unsized' /\ SizeIsSum'
<1>1. PICK c \in rest[w] : /\ slot' = [slot EXCEPT ![which[c]] = None]
                           /\ which' = [which EXCEPT ![c] = None]
                           /\ csize' = [csize EXCEPT ![c] = 0]
                           /\ UNCHANGED <<size, linked>>
  BY DEF FreeChunk, inodeVars
<1>2. /\ c \in Chunk /\ which[c] \in Place /\ slot[which[c]] = c
      /\ which[c][1] = head[w] /\ ~linked[head[w]]
  BY FreedPlace DEF Heads
<1>3. Unsized'
  BY <1>1, <1>2 DEF Unsized, TypeOK
<1>4. ASSUME NEW f \in Inode, linked[f] PROVE Sizes(f)' = Sizes(f)
  <2>1. f \in Inode \ {which[c][1]}
    BY <1>2, <1>4
  <2>2. ASSUME NEW k \in Slot PROVE slot'[<<f, k>>] = slot[<<f, k>>]
    <3>1. <<f, k>> \in Place /\ <<f, k>> # which[c]
      BY <2>1 DEF Place
    <3> QED BY <1>1, <1>2, <3>1 DEF TypeOK
  <2> QED BY <1>1, <1>2, <2>1, <2>2, SizesOthers
<1> QED BY <1>1, <1>3, <1>4 DEF SizeIsSum

\* A file that is created is empty.
LEMMA SizesCreate ==
    ASSUME IInv, Unsized, SizeIsSum, NEW f \in Inode, Create(f)
    PROVE  Unsized' /\ SizeIsSum'
<1>1. /\ TypeOK /\ Heads /\ OneOwner /\ ListIsIndex /\ Emptied /\ SlabIsUnused
  BY DEF IInv, Core
<1>2. /\ linked' = [linked EXCEPT ![f] = TRUE]
      /\ UNCHANGED <<slot, which, csize, size>>
  BY DEF Create, diskVars
<1>3. ~linked[f] /\ \A w \in Worker : head[w] # f
  <2>1. CASE f \in fresh
    BY <1>1, <2>1 DEF SlabIsUnused
  <2>2. CASE slab # <<>> /\ f = Head(slab)
    <3>1. 1 \in 1 .. Len(slab) /\ f = slab[1]
      BY <1>1, <2>2 DEF TypeOK
    <3> QED BY <1>1, <3>1 DEF SlabIsUnused
  <2> QED BY <2>1, <2>2 DEF Create
<1>4. size[f] = 0 /\ ctx[f] = {}
  BY <1>1, <1>3 DEF Emptied, Heads
<1>5. \A k \in Slot : slot[<<f, k>>] = None
  BY <1>1, <1>3, <1>4, NoChunks
<1>6. ASSUME NEW g \in Inode PROVE Sizes(g)' = Sizes(g)
  BY <1>2, SizesSame
<1>7. SumFunction(Sizes(f)) = 0
  <2>1. Sizes(f) \in [Slot -> {0}]
    BY <1>5 DEF Sizes
  <2> QED BY <2>1, SlotFinite, SumZero
<1>8. Unsized'
  BY <1>2 DEF Unsized
<1>9. ASSUME NEW g \in Inode, linked'[g] PROVE size'[g] = SumFunction(Sizes(g)')
  <2>1. CASE g = f
    BY <1>2, <1>4, <1>6, <1>7, <2>1
  <2>2. CASE g # f
    <3>1. linked[g]
      BY <1>1, <1>2, <1>9, <2>2 DEF TypeOK
    <3> QED BY <1>2, <1>6, <3>1 DEF SizeIsSum
  <2> QED BY <2>1, <2>2
<1>10. SizeIsSum'
  BY <1>9 DEF SizeIsSum
<1> QED BY <1>8, <1>10

\* A write adds to the size of the file what it adds to the size of the chunk.
LEMMA SizesFill == ASSUME TypeOK, Knows, StableTarget, NEW w \in Worker, Fill(w)
                   PROVE  pc[w] = "fill" /\ Resize(w, CHUNK_SIZE)
  BY DEF Fill, Resize, inodeVars

LEMMA SizesGrow ==
    ASSUME TypeOK, Knows, Unsized, SizeIsSum, NEW w \in Worker, Grow(w)
    PROVE  \/ pc[w] = "grow" /\ end_offset(w) \in 0 .. CHUNK_SIZE /\ Resize(w, end_offset(w))
           \/ UNCHANGED <<slot, which, csize, size, linked>>
<1>1. pc[w] = "grow" /\ end_offset(w) \in 0 .. CHUNK_SIZE
  BY RoomType DEF Grow, Knows
<1>2. CASE csize[cnt[w]] < end_offset(w)
  BY <1>1, <1>2 DEF Grow, Resize, inodeVars
<1>3. CASE ~(csize[cnt[w]] < end_offset(w))
  BY <1>1, <1>3 DEF Grow, inodeVars
<1> QED BY <1>2, <1>3

\* The sizes stay the sums of those of the chunks.
LEMMA SizesStep == SizeInv /\ [Next]_vars => SizeInv'
<1> SUFFICES ASSUME IInv, Unsized, SizeIsSum, [Next]_vars PROVE Unsized' /\ SizeIsSum'
  BY StepInv DEF SizeInv
<1>0. /\ TypeOK /\ Heads /\ Knows /\ OneOwner /\ ListIsIndex /\ StableTarget /\ Emptied
      /\ SlabIsUnused
  BY DEF IInv, Core
<1>1. CASE UNCHANGED vars
  BY <1>1, SizesStill DEF vars, diskVars, inodeVars
<1>2. ASSUME NEW f \in Inode, Create(f) PROVE Unsized' /\ SizeIsSum'
  BY <1>2, SizesCreate
<1>3. ASSUME NEW w \in Worker, NEW f \in Inode, StartDelete(w, f) PROVE Unsized' /\ SizeIsSum'
  <2>1. /\ linked' = [linked EXCEPT ![f] = FALSE] /\ size' = [size EXCEPT ![f] = 0]
        /\ UNCHANGED <<slot, which, csize>>
    BY <1>3 DEF StartDelete
  <2>2. ASSUME NEW g \in Inode PROVE Sizes(g)' = Sizes(g)
    BY <2>1, SizesSame
  <2>3. ASSUME NEW g \in Inode, linked'[g] PROVE size'[g] = size[g] /\ linked[g]
    BY <2>1, <2>3, <1>0 DEF TypeOK
  <2> QED BY <2>1, <2>2, <2>3 DEF Unsized, SizeIsSum
<1>4. ASSUME NEW w \in Worker, NEW o \in {"read", "write"}, NEW f \in Inode,
             NEW offset \in 0 .. MaxOffset, NEW bytes \in 1 .. MaxSize,
             StartAccess(w, o, f, offset, bytes)
      PROVE  Unsized' /\ SizeIsSum'
  BY <1>4, SizesStill DEF StartAccess, diskVars, inodeVars
<1>5. ASSUME NEW w \in Worker, FreeChunk(w) PROVE Unsized' /\ SizeIsSum'
  BY <1>0, <1>5, SizesFree
<1>6. ASSUME NEW w \in Worker, FinishDelete(w) PROVE Unsized' /\ SizeIsSum'
  BY <1>6, SizesStill DEF FinishDelete, diskVars
<1>7. ASSUME NEW w \in Worker, Access(w) PROVE Unsized' /\ SizeIsSum'
  <2>1. CASE Link(w)
    BY <1>0, <2>1, SizesLink
  <2>2. CASE Fill(w)
    <3>1. pc[w] = "fill" /\ Resize(w, CHUNK_SIZE) /\ CHUNK_SIZE \in 0 .. CHUNK_SIZE
      BY <1>0, <2>2, SizesFill, ChunkAssumption
    <3> QED BY <1>0, <3>1, ResizeSizes
  <2>3. CASE Grow(w)
    <3>1. \/ pc[w] = "grow" /\ end_offset(w) \in 0 .. CHUNK_SIZE /\ Resize(w, end_offset(w))
          \/ UNCHANGED <<slot, which, csize, size, linked>>
      BY <1>0, <2>3, SizesGrow
    <3> QED BY <1>0, <3>1, ResizeSizes, SizesStill
  <2>4. CASE Locate(w) \/ BeyondIndex(w) \/ LockFile(w) \/ Recheck(w) \/ LockContext(w)
             \/ Scan(w) \/ NoSpace(w) \/ Take(w) \/ Store(w) \/ Tail_(w) \/ Test(w)
             \/ ReadPart(w) \/ ReadLast(w) \/ FinishRead(w) \/ Found(w)
    <3>1. UNCHANGED <<slot, which, csize, size, linked>>
      BY <2>4 DEF Locate, BeyondIndex, LockFile, Recheck, LockContext, Scan, NoSpace, Take,
                  Store, Tail_, Test, ReadPart, ReadLast, FinishRead, Found, diskVars, inodeVars
    <3> QED BY <3>1, SizesStill
  <2> QED BY <1>7, <2>1, <2>2, <2>3, <2>4 DEF Access
<1> QED BY <1>1, <1>2, <1>3, <1>4, <1>5, <1>6, <1>7 DEF Next

\* The size of a file is what has been written of its chunks, under all races
\* of the writers' tests with and without the lock.
THEOREM SizesAreSums == Spec => []SizeIsSum
<1>1. Init => SizeInv
  <2> SUFFICES ASSUME Init PROVE Unsized /\ SizeIsSum
    BY InitInv DEF SizeInv
  <2> QED BY DEF Init, Unsized, SizeIsSum
<1>2. SizeInv => SizeIsSum
  BY DEF SizeInv
<1> QED BY <1>1, <1>2, SizesStep, PTL DEF Spec

=============================================================================
