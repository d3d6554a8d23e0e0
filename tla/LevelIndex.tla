----------------------------- MODULE LevelIndex -----------------------------
(***************************************************************************)
(* The levels of a file's index (dhmp_fs_index.c): the places for chunks   *)
(* in the inode itself, in a table of places, a table of tables and a      *)
(* table of those.  level3_local_index finds the place of an offset and    *)
(* makes what is missing: each pointer is tested without the inode's lock  *)
(* and, when it is NULL, again under it.                                   *)
(*                                                                         *)
(* A place is <<0, a>>, <<1, a>>, <<2, b, a>> or <<3, c, b, a>>.  FsIndex  *)
(* has the levels as one array and the search for a free chunk in detail;  *)
(* here a chunk is any unused one, and there are enough of them (what a    *)
(* full disk does is in FsIndex).                                          *)
(***************************************************************************)
EXTENDS Integers, Sequences

CONSTANTS
    DIRECT_INDEX_NUMS, INDIRECT_INDEX_NUMS, CHUNK_SIZE,
    Worker, Chunk, None,
    Offsets      \* the offsets that threads ask for

ASSUME SizeAssumption ==
    /\ DIRECT_INDEX_NUMS \in Nat \ {0}
    /\ INDIRECT_INDEX_NUMS \in Nat \ {0}
    /\ CHUNK_SIZE \in Nat \ {0}
ASSUME OffsetAssumption == Offsets \subseteq Nat
ASSUME NoneAssumption ==
    /\ None \notin Chunk
    /\ None \notin [off : Nat, read : BOOLEAN]
    /\ None \notin [cnt : Chunk \union {None}, rest : Nat]

D == DIRECT_INDEX_NUMS
N == INDIRECT_INDEX_NUMS

SIZE_FIRST_DIRECT_UNIT == CHUNK_SIZE
SIZE_SECOND_DIRECT_UNIT == CHUNK_SIZE * N
SIZE_THIRD_DIRECT_UNIT == CHUNK_SIZE * N * N
SIZE_DIRECT_END == D * CHUNK_SIZE
SIZE_FIRST_DIRECT_END == SIZE_DIRECT_END + N * CHUNK_SIZE
SIZE_SECOND_DIRECT_END == SIZE_FIRST_DIRECT_END + N * N * CHUNK_SIZE
SIZE_THIRD_DIRECT_END == SIZE_SECOND_DIRECT_END + N * N * N * CHUNK_SIZE

Index == 0 .. N - 1
Direct == {<<0, a>> : a \in 0 .. D - 1}
Under1 == {<<1, a>> : a \in Index}
Under2 == {<<2, b, a>> : b, a \in Index}
Under3 == {<<3, c, b, a>> : c, b, a \in Index}
Place == Direct \union Under1 \union Under2 \union Under3

\* level3_local_index: which level an offset belongs to, the place there, and
\* the offset within the chunk.
Level(o) ==
    CASE o < SIZE_DIRECT_END -> 0
      [] SIZE_DIRECT_END <= o /\ o < SIZE_FIRST_DIRECT_END -> 1
      [] SIZE_FIRST_DIRECT_END <= o /\ o < SIZE_SECOND_DIRECT_END -> 2
      [] SIZE_SECOND_DIRECT_END <= o /\ o < SIZE_THIRD_DIRECT_END -> 3
      [] SIZE_THIRD_DIRECT_END <= o -> 4

Where0(o) == [at |-> <<0, o \div CHUNK_SIZE>>, rest |-> o % CHUNK_SIZE]

Where1(o) ==
    LET p == o - SIZE_DIRECT_END IN
    [at |-> <<1, p \div SIZE_FIRST_DIRECT_UNIT>>, rest |-> p % SIZE_FIRST_DIRECT_UNIT]

Where2(o) ==
    LET p == o - SIZE_FIRST_DIRECT_END
        q == p % SIZE_SECOND_DIRECT_UNIT IN
    [at |-> <<2, p \div SIZE_SECOND_DIRECT_UNIT, q \div SIZE_FIRST_DIRECT_UNIT>>,
     rest |-> q % SIZE_FIRST_DIRECT_UNIT]

Bug_Where3(o) ==     \* the places of the lower levels are not skipped
    LET p == o - SIZE_FIRST_DIRECT_END
        q == p % SIZE_THIRD_DIRECT_UNIT
        r == q % SIZE_SECOND_DIRECT_UNIT IN
    [at |-> <<3, (p \div SIZE_THIRD_DIRECT_UNIT) % N, q \div SIZE_SECOND_DIRECT_UNIT,
              r \div SIZE_FIRST_DIRECT_UNIT>>,
     rest |-> r % SIZE_FIRST_DIRECT_UNIT]
Where3(o) ==
    LET p == o - SIZE_SECOND_DIRECT_END
        q == p % SIZE_THIRD_DIRECT_UNIT
        r == q % SIZE_SECOND_DIRECT_UNIT IN
    [at |-> <<3, p \div SIZE_THIRD_DIRECT_UNIT, q \div SIZE_SECOND_DIRECT_UNIT,
              r \div SIZE_FIRST_DIRECT_UNIT>>,
     rest |-> r % SIZE_FIRST_DIRECT_UNIT]

Where(o) == CASE Level(o) = 0 -> Where0(o)
              [] Level(o) = 1 -> Where1(o)
              [] Level(o) = 2 -> Where2(o)
              [] Level(o) = 3 -> Where3(o)

VARIABLES
    made,     \* the levels whose tables there are (in1addr, in2addr, in3addr)
    cell,     \* the pointer at each place
    which,    \* which_inode_it_is: the place a chunk was put at
    context,  \* the chunks in the inode's list
    pc, asked, answer    \* of each thread in level3_local_index

vars == <<made, cell, which, context, pc, asked, answer>>

\* malloc_inode: only the third level is left to its first use.
Init ==
    /\ made = {0, 1, 2}
    /\ cell = [p \in Place |-> None]
    /\ which = [c \in Chunk |-> None]
    /\ context = {}
    /\ pc = [w \in Worker |-> "idle"]
    /\ asked = [w \in Worker |-> None]
    /\ answer = [w \in Worker |-> None]

Off(w) == asked[w].off
At(w) == Where(Off(w)).at
Goto(w, next) == pc' = [pc EXCEPT ![w] = next]
Result(w, cnt, rest) ==
    /\ answer' = [answer EXCEPT ![w] = [cnt |-> cnt, rest |-> rest]]
    /\ Goto(w, "done")

Call(w) ==
    /\ pc[w] = "idle"
    /\ \E o \in Offsets, r \in BOOLEAN : asked' = [asked EXCEPT ![w] = [off |-> o, read |-> r]]
    /\ Goto(w, "table")
    /\ UNCHANGED <<made, cell, which, context, answer>>

TooFar(w) ==
    /\ pc[w] = "table" /\ Level(Off(w)) = 4
    /\ Result(w, None, Off(w))
    /\ UNCHANGED <<made, cell, which, context, asked>>

TestTable(w) ==
    /\ pc[w] = "table" /\ Level(Off(w)) # 4
    /\ \/ /\ Level(Off(w)) \in made
          /\ Goto(w, "cell") /\ UNCHANGED answer
       \/ /\ Level(Off(w)) \notin made /\ asked[w].read
          /\ Result(w, None, Off(w))
       \/ /\ Level(Off(w)) \notin made /\ ~asked[w].read
          /\ Goto(w, "make") /\ UNCHANGED answer
    /\ UNCHANGED <<made, cell, which, context, asked>>

\* Under file_lock: init_indirect_class3, if it is still missing.
Bug_MakeTable(w) ==      \* the pointer is not tested again under the lock
    /\ pc[w] = "make"
    /\ made' = made \union {Level(Off(w))}
    /\ cell' = [p \in Place |-> IF p[1] = Level(Off(w)) THEN None ELSE cell[p]]
    /\ Goto(w, "cell")
    /\ UNCHANGED <<which, context, asked, answer>>
MakeTable(w) ==
    /\ pc[w] = "make"
    /\ \/ /\ Level(Off(w)) \notin made
          /\ made' = made \union {Level(Off(w))}
          /\ cell' = [p \in Place |-> IF p[1] = Level(Off(w)) THEN None ELSE cell[p]]
       \/ /\ Level(Off(w)) \in made
          /\ UNCHANGED <<made, cell>>
    /\ Goto(w, "cell")
    /\ UNCHANGED <<which, context, asked, answer>>

TestCell(w) ==
    /\ pc[w] = "cell"
    /\ \/ /\ cell[At(w)] # None
          /\ Goto(w, "load") /\ UNCHANGED answer
       \/ /\ cell[At(w)] = None /\ asked[w].read
          /\ Result(w, None, Where(Off(w)).rest)
       \/ /\ cell[At(w)] = None /\ ~asked[w].read
          /\ Goto(w, "fill") /\ UNCHANGED answer
    /\ UNCHANGED <<made, cell, which, context, asked>>

Bug_Fill(w) ==           \* the pointer is not tested again under the lock
    /\ pc[w] = "fill"
    /\ \E c \in Chunk \ context :
           /\ cell' = [cell EXCEPT ![At(w)] = c]
           /\ which' = [which EXCEPT ![c] = At(w)]
           /\ context' = context \union {c}
    /\ Goto(w, "load")
    /\ UNCHANGED <<made, asked, answer>>
\* Under file_lock: get_free_context and insert_list, if it is still missing.
Fill(w) ==
    /\ pc[w] = "fill"
    /\ \/ /\ cell[At(w)] = None
          /\ \E c \in Chunk \ context :
                 /\ cell' = [cell EXCEPT ![At(w)] = c]
                 /\ which' = [which EXCEPT ![c] = At(w)]
                 /\ context' = context \union {c}
       \/ /\ cell[At(w)] # None
          /\ UNCHANGED <<cell, which, context>>
    /\ Goto(w, "load")
    /\ UNCHANGED <<made, asked, answer>>

Load(w) ==
    /\ pc[w] = "load"
    /\ Result(w, cell[At(w)], Where(Off(w)).rest)
    /\ UNCHANGED <<made, cell, which, context, asked>>

Return(w) ==
    /\ pc[w] = "done"
    /\ Goto(w, "idle")
    /\ asked' = [asked EXCEPT ![w] = None]
    /\ answer' = [answer EXCEPT ![w] = None]
    /\ UNCHANGED <<made, cell, which, context>>

\* reset_indoe: the chunks are taken out through their back pointers; the
\* tables stay.  Nobody uses a file that is removed.
Reset ==
    /\ \A w \in Worker : pc[w] = "idle"
    /\ cell' = [p \in Place |-> IF \E c \in context : which[c] = p THEN None ELSE cell[p]]
    /\ which' = [c \in Chunk |-> IF c \in context THEN None ELSE which[c]]
    /\ context' = {}
    /\ UNCHANGED <<made, pc, asked, answer>>

Step(w) == \/ Call(w) \/ TooFar(w) \/ TestTable(w) \/ MakeTable(w) \/ TestCell(w)
           \/ Fill(w) \/ Load(w) \/ Return(w)
Next == Reset \/ \E w \in Worker : Step(w)
Spec == Init /\ [][Next]_vars

----------------------------------------------------------------------------
\* Pointers and back pointers hold what they are declared to hold, places lie
\* within the tables of their level.
TypeOK ==
    /\ made \subseteq 0..3 /\ {0, 1, 2} \subseteq made
    /\ cell \in [Place -> Chunk \union {None}]
    /\ which \in [Chunk -> Place \union {None}]
    /\ context \subseteq Chunk
    /\ pc \in [Worker -> {"idle", "table", "make", "cell", "fill", "load", "done"}]
    /\ asked \in [Worker -> [off : Nat, read : BOOLEAN] \union {None}]
    /\ answer \in [Worker -> [cnt : Chunk \union {None}, rest : Nat] \union {None}]

\* Place and offset follow from one another: the flat number of a place.
Number(p) ==
    CASE p[1] = 0 -> p[2]
      [] p[1] = 1 -> D + p[2]
      [] p[1] = 2 -> D + N + p[2] * N + p[3]
      [] p[1] = 3 -> D + N + N * N + (p[2] * N + p[3]) * N + p[4]
Places == D + N + N * N + N * N * N
PlaceAt(k) == CHOOSE p \in Place : Number(p) = k

\* Every chunk of the file is at the place its back pointer names and nowhere
\* else, and no place has a chunk that the file does not own: removing the
\* file through the back pointers empties its index (level3_local_index with
\* two threads on one place or one missing table, then reset_indoe).
BackPointers ==
    /\ \A c \in context : which[c] \in Place /\ cell[which[c]] = c
    /\ \A p \in Place : cell[p] # None => cell[p] \in context /\ which[cell[p]] = p

\* No chunk hides in a table that is not there yet: making the table would
\* drop it.
NothingHidden == \A p \in Place : p[1] \notin made => cell[p] = None

\* The levels are one array: what threads get from level3_local_index, in
\* whatever order its steps interleave, is what they would get from an array
\* that is indexed by offset / CHUNK_SIZE.
Cells == [k \in 0 .. Places - 1 |-> cell[PlaceAt(k)]]
Flat == INSTANCE FlatIndex WITH flat <- Cells, ChunkSize <- CHUNK_SIZE
OneArray == Flat!FlatSpec
=============================================================================
