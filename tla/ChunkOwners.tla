---------------------------- MODULE ChunkOwners ----------------------------
(***************************************************************************)
(* What the chunk allocator promises the files: a chunk belongs to one     *)
(* place of one file or to nobody, a place has at most one chunk, and a    *)
(* chunk goes from one place to another only by way of nobody.             *)
(***************************************************************************)
CONSTANTS Chunk, Place, NoPlace

VARIABLE owner    \* owner[c]: the place chunk c belongs to, or NoPlace

Init == owner = [c \in Chunk |-> NoPlace]

Allocate(c, p) == /\ owner[c] = NoPlace
                  /\ \A d \in Chunk : owner[d] # p
                  /\ owner' = [owner EXCEPT ![c] = p]

Release(c) == /\ owner[c] # NoPlace
              /\ owner' = [owner EXCEPT ![c] = NoPlace]

Next == \E c \in Chunk : Release(c) \/ \E p \in Place : Allocate(c, p)

Spec == Init /\ [][Next]_owner

=============================================================================
