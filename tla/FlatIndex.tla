------------------------------ MODULE FlatIndex ------------------------------
(***************************************************************************)
(* What the index of a file promises, whatever its levels: an array of     *)
(* places.  A thread asks for the place of an offset; it gets the chunk    *)
(* that is there, or, when it writes and nothing is, an unused one, which  *)
(* then is there for everybody.  Removing the file empties the array.      *)
(***************************************************************************)
EXTENDS Integers

CONSTANTS Worker, Chunk, None, Places, ChunkSize

VARIABLES
    flat,      \* the chunk of each place
    asked,     \* what a thread asks for: [off, read], None when it is not here
    answer     \* what it got: [cnt, rest], None before

fvars == <<flat, asked, answer>>

Place(w) == asked[w].off \div ChunkSize

FlatInit ==
    /\ flat = [k \in 0..Places - 1 |-> None]
    /\ asked = [w \in Worker |-> None]
    /\ answer = [w \in Worker |-> None]

Ask(w) ==
    /\ asked[w] = None
    /\ asked'[w] \in [off : Nat, read : BOOLEAN]
    /\ asked' = [asked EXCEPT ![w] = asked'[w]]
    /\ UNCHANGED <<flat, answer>>

Make(w) ==
    /\ asked[w] # None /\ answer[w] = None
    /\ ~asked[w].read /\ Place(w) < Places /\ flat[Place(w)] = None
    /\ \E c \in Chunk :
           /\ \A k \in 0..Places - 1 : flat[k] # c
           /\ flat' = [flat EXCEPT ![Place(w)] = c]
    /\ UNCHANGED <<asked, answer>>

Tell(w) ==
    /\ asked[w] # None /\ answer[w] = None
    /\ \/ /\ Place(w) < Places
          /\ asked[w].read \/ flat[Place(w)] # None
          /\ answer'[w] \in [cnt : {flat[Place(w)]}, rest : Nat]
          /\ flat[Place(w)] # None => answer'[w].rest = asked[w].off % ChunkSize
          /\ answer' = [answer EXCEPT ![w] = answer'[w]]
       \/ /\ Place(w) >= Places
          /\ answer' = [answer EXCEPT ![w] = [cnt |-> None, rest |-> asked[w].off]]
    /\ UNCHANGED <<flat, asked>>

Leave(w) ==
    /\ answer[w] # None
    /\ asked' = [asked EXCEPT ![w] = None]
    /\ answer' = [answer EXCEPT ![w] = None]
    /\ UNCHANGED flat

Empty ==
    /\ \A w \in Worker : asked[w] = None
    /\ flat' = [k \in 0..Places - 1 |-> None]
    /\ UNCHANGED <<asked, answer>>

FlatNext == Empty \/ \E w \in Worker : Ask(w) \/ Make(w) \/ Tell(w) \/ Leave(w)

FlatSpec == FlatInit /\ [][FlatNext]_fvars
==============================================================================
