----------------------------- MODULE BankStore -----------------------------
(***************************************************************************)
(* What the storage layer of the file system promises to dhmp_fs_read and  *)
(* dhmp_fs_write: an array of banks that changes only when a write a       *)
(* caller has asked for takes effect, one word at a time and at most once, *)
(* for as long as some memory server can be reached.  Eviction,            *)
(* write-back and refill do not appear here: DramCache has to hide them.   *)
(* A write may be dropped (the code loses those that miss), and nothing    *)
(* ties it to the bank it was meant for (see StoreHitsItsBank).            *)
(***************************************************************************)
CONSTANTS Bank,     \* bank numbers
          Word,     \* addressable units of a bank
          Val,      \* contents of a word
          Zero,     \* content of fresh memory
          Thread    \* callers

VARIABLES mem,      \* logical content of every bank
          up,       \* some server has been reachable all along
          pending   \* pending[t]: the write t has asked for, if any

storeVars == <<mem, up, pending>>

StoreInit == /\ mem = [b \in Bank |-> [w \in Word |-> Zero]]
             /\ up = TRUE
             /\ pending = [t \in Thread |-> {}]

Ask(t) == /\ pending[t] = {}
          /\ \E w \in Word, v \in Val : pending' = [pending EXCEPT ![t] = {<<w, v>>}]
          /\ UNCHANGED <<mem, up>>

Drop(t) == /\ pending' = [pending EXCEPT ![t] = {}]
           /\ UNCHANGED <<mem, up>>

Apply(t, b, w, v) == /\ pending[t] = {<<w, v>>}
                     /\ mem' = [mem EXCEPT ![b][w] = v]
                     /\ pending' = [pending EXCEPT ![t] = {}]
                     /\ UNCHANGED up

\* Once no server is left nothing is promised about the contents.
Lose == /\ up' = FALSE
        /\ mem' \in [Bank -> [Word -> Val]]
        /\ pending' \in [Thread -> SUBSET (Word \X Val)]

StoreNext == \/ \E t \in Thread : Ask(t) \/ Drop(t)
             \/ \E t \in Thread, b \in Bank, w \in Word, v \in Val : Apply(t, b, w, v)
             \/ Lose

StoreSpec == StoreInit /\ [][StoreNext]_storeVars
=============================================================================
