------------------------------- MODULE Buddy -------------------------------
(***************************************************************************)
(* The memory of a server: areas that are registered with the RDMA device  *)
(* and split by a buddy system (dhmp_client/src/dhmp_server.c and the      *)
(* handlers of malloc and free requests in                                 *)
(* dhmp_client/src/dhmp_transport.c).  One thread of the server handles    *)
(* the requests, so each is one step.                                      *)
(*                                                                         *)
(* Sizes and addresses are multiples of buddy_size[0], and addresses are   *)
(* relative to their area.  The order of a free list is left out: any of   *)
(* its blocks may be the first.                                            *)
(***************************************************************************)
EXTENDS Integers, FiniteSets, FiniteSetsExt

CONSTANTS MAX_ORDER,
          buddy_size,  \* the table of the sizes of blocks, by order
          Area,        \* the areas that numa_alloc_onnode can return
          Size         \* the sizes that clients ask for

ASSUME OrderAssumption == MAX_ORDER \in Nat \ {0, 1}
ASSUME BuddySizeAssumption ==
    /\ buddy_size \in [0 .. MAX_ORDER - 1 -> Nat] /\ buddy_size[0] = 1
    /\ \A i \in 0 .. MAX_ORDER - 2 : buddy_size[i + 1] = 2 * buddy_size[i]
ASSUME SizeAssumption == Size \subseteq Nat \ {0}

Order == 0 .. MAX_ORDER - 1
SINGLE_AREA_SIZE == 2 * buddy_size[MAX_ORDER - 1]
Addr == 0 .. SINGLE_AREA_SIZE - 1

VARIABLES kind,         \* kind[a]: "free" memory, a "buddy" area of area_list, or an
                        \* area of more_area_list, "more", which a client has as a whole
          block_head,   \* block_head[a][i]: the addresses in the free list of order i
          max_index,    \* max_index[a]
          cur_area,
          held          \* what clients have: records of an area, an address and a length

vars == <<kind, block_head, max_index, cur_area, held>>

NoBlocks == [i \in Order |-> {}]

\* dhmp_buddy_system_build: two blocks of order 0 and one of every other order.
Built == [i \in Order |-> IF i = 0 THEN {0, 1} ELSE {buddy_size[i]}]

\* dhmp_server_init makes the first area.
Init == \E a \in Area :
            /\ kind = [b \in Area |-> IF b = a THEN "buddy" ELSE "free"]
            /\ block_head = [b \in Area |-> IF b = a THEN Built ELSE NoBlocks]
            /\ max_index = [b \in Area |-> IF b = a THEN MAX_ORDER - 1 ELSE -2]
            /\ cur_area = a
            /\ held = {}

\* The order that a request or a block of this size is of.
Fitting(size) == Min({i \in Order : size =< buddy_size[i]})

Nonempty(blocks) == {i \in Order : blocks[i] # {}}
Largest(blocks) == Max(Nonempty(blocks) \cup {-1})

-----------------------------------------------------------------------------
(* malloc requests.                                                        *)

\* dhmp_get_free_block splits the first block b of the smallest order k that
\* has one, again and again: it takes the left half and frees the right one.
Split(blocks, b, k, index) ==
    [i \in Order |-> IF index =< i /\ i < k THEN blocks[i] \cup {b + buddy_size[i]}
                     ELSE IF i = k THEN blocks[i] \ {b} ELSE blocks[i]]

\* The new max_index is searched for from the old one downwards.
dhmp_get_free_block(a, blocks, old_index, index) ==
    LET larger == {i \in Nonempty(blocks) : i >= index}
    IN  \E b \in blocks[Min(larger)] :
            LET left == Split(blocks, b, Min(larger), index)
            IN  /\ block_head' = [block_head EXCEPT ![a] = left]
                /\ max_index' = [max_index EXCEPT ![a] =
                                    Max({i \in Nonempty(left) : i =< old_index} \cup {-1})]
                /\ held' = held \cup {[area |-> a, addr |-> b, length |-> buddy_size[index]]}

Serves(a, index) == kind[a] = "buddy" /\ max_index[a] >= index

\* From cur_area or else from another area, which gets cur_area.
MallocBlock(size) ==
    LET index == Fitting(size)
    IN  \E a \in Area :
            /\ Serves(a, index) /\ (Serves(cur_area, index) => a = cur_area)
            /\ cur_area' = a
            /\ dhmp_get_free_block(a, block_head[a], max_index[a], index)
            /\ UNCHANGED kind

\* No area serves the request: dhmp_area_create makes one.
MallocNewArea(size) ==
    /\ \A a \in Area : ~Serves(a, Fitting(size))
    /\ \E a \in Area : /\ kind[a] = "free"
                       /\ kind' = [kind EXCEPT ![a] = "buddy"]
                       /\ cur_area' = a
                       /\ dhmp_get_free_block(a, Built, MAX_ORDER - 1, Fitting(size))

\* dhmp_malloc_more_area
MallocArea(size) ==
    \E a \in Area :
        /\ kind[a] = "free"
        /\ kind' = [kind EXCEPT ![a] = "more"]
        /\ held' = held \cup {[area |-> a, addr |-> 0, length |-> size]}
        /\ UNCHANGED <<block_head, max_index, cur_area>>

\* dhmp_malloc_request_handler.  With no memory left the client gets an error.
Malloc == \E size \in Size : IF size =< buddy_size[MAX_ORDER - 1]
                             THEN MallocBlock(size) \/ MallocNewArea(size)
                             ELSE MallocArea(IF size =< SINGLE_AREA_SIZE
                                             THEN SINGLE_AREA_SIZE ELSE size)

-----------------------------------------------------------------------------
(* free requests.                                                          *)

\* A mistake: the buddy is always the right neighbour.
Bug_Buddy(addr, i) == addr + buddy_size[i]

\* A mistake: the area is not given back.
Bug_FreeMoreArea(mr) ==
    /\ kind[mr.area] = "more"
    /\ UNCHANGED <<kind, block_head, max_index, cur_area>>

\* The block of order i that an address is in, and the buddy of that block.
At(addr, i) == addr - (addr % buddy_size[i])
Buddy_(addr, i) == IF At(addr, i) % buddy_size[i + 1] = 0 THEN At(addr, i) + buddy_size[i]
                   ELSE At(addr, i) - buddy_size[i]

\* A mistake: blocks are merged once.
Bug_Merge(blocks, addr, index) ==
    LET buddy == Buddy_(addr, index)
    IN  IF index < MAX_ORDER - 1 /\ buddy \in blocks[index]
        THEN [blocks EXCEPT ![index] = @ \ {buddy},
                            ![index + 1] = @ \cup {At(addr, index + 1)}]
        ELSE [blocks EXCEPT ![index] = @ \cup {addr}]

\* dhmp_recycle_free_block, repeated: the block is merged with its buddy as long
\* as that one is free, but not beyond the highest order.
Merge(blocks, addr, index) ==
    LET k == Min({i \in Order : i >= index
                    /\ (i = MAX_ORDER - 1 \/ Buddy_(addr, i) \notin blocks[i])})
    IN  [i \in Order |-> IF index =< i /\ i < k THEN blocks[i] \ {Buddy_(addr, i)}
                         ELSE IF i = k THEN blocks[i] \cup {At(addr, i)} ELSE blocks[i]]

\* A mistake: max_index stays.
Bug_FreeBlock(mr) ==
    /\ kind[mr.area] = "buddy"
    /\ block_head' = [block_head EXCEPT ![mr.area] = Merge(@, mr.addr, Fitting(mr.length))]
    /\ UNCHANGED <<kind, max_index, cur_area>>

FreeBlock(mr) ==
    /\ kind[mr.area] = "buddy"
    /\ LET blocks == Merge(block_head[mr.area], mr.addr, Fitting(mr.length))
       IN  /\ block_head' = [block_head EXCEPT ![mr.area] = blocks]
           /\ max_index' = [max_index EXCEPT ![mr.area] = Largest(blocks)]
    /\ UNCHANGED <<kind, cur_area>>

\* A single area is kept for the buddy system.
FreeOneArea(mr) ==
    /\ kind[mr.area] = "more"
    /\ kind' = [kind EXCEPT ![mr.area] = "buddy"]
    /\ block_head' = [block_head EXCEPT ![mr.area] = Built]
    /\ max_index' = [max_index EXCEPT ![mr.area] = MAX_ORDER - 1]
    /\ UNCHANGED cur_area

FreeMoreArea(mr) ==
    /\ kind[mr.area] = "more"
    /\ kind' = [kind EXCEPT ![mr.area] = "free"]
    /\ UNCHANGED <<block_head, max_index, cur_area>>

\* dhmp_free_request_handler goes by the length.
Free == \E mr \in held :
            /\ held' = held \ {mr}
            /\ IF mr.length =< buddy_size[MAX_ORDER - 1] THEN FreeBlock(mr)
               ELSE IF mr.length =< SINGLE_AREA_SIZE THEN FreeOneArea(mr)
               ELSE FreeMoreArea(mr)

Next == Malloc \/ Free

Spec == Init /\ [][Next]_vars

-----------------------------------------------------------------------------
(* Properties.                                                             *)

TypeOK == /\ kind \in [Area -> {"free", "buddy", "more"}]
          /\ block_head \in [Area -> [Order -> SUBSET Addr]]
          /\ max_index \in [Area -> -2 .. MAX_ORDER - 1]
          /\ cur_area \in Area /\ kind[cur_area] = "buddy"
          /\ held \subseteq [area : Area, addr : Addr, length : Nat \ {0}]

FreeBlocks(a) ==
    UNION {{[area |-> a, addr |-> b, length |-> buddy_size[i]] : b \in block_head[a][i]} :
           i \in Order}

Bytes(mr) == mr.addr .. mr.addr + mr.length - 1
Held(a) == {mr \in held : mr.area = a}
Pieces(a) == FreeBlocks(a) \cup Held(a)

\* Every byte of a buddy area is in exactly one block that is free or held: no
\* client gets memory of another one, and none is lost.  Memory outside the
\* buddy areas has one owner, who holds all of it.
Partition ==
    \A a \in Area :
        IF kind[a] = "buddy"
        THEN /\ FreeBlocks(a) \cap Held(a) = {}
             /\ UNION {Bytes(p) : p \in Pieces(a)} = Addr
             /\ \A p, q \in Pieces(a) : p.addr \in Bytes(q) => p = q
        ELSE Cardinality(Held(a)) = IF kind[a] = "free" THEN 0 ELSE 1

\* max_index, by which areas are chosen, is the largest order that is free.
\* A chosen area has a block for the request, and none is passed over.
MaxIndexIsExact == \A a \in Area : kind[a] = "buddy" => max_index[a] = Largest(block_head[a])

\* Buddies do not stay free side by side, which would keep a larger request
\* from being served; but for the first two blocks of a new area.
Coalesced ==
    \A a \in Area, i \in 0 .. MAX_ORDER - 2 : \A b \in block_head[a][i] :
        Buddy_(b, i) \in block_head[a][i] => i = 0 /\ b \in {0, 1}

=============================================================================
