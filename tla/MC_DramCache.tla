--------------------------- MODULE MC_DramCache ---------------------------
(* DramCache on a small instance: CacheSize slots and more banks, so that  *)
(* some banks compete for a slot.                                          *)
EXTENDS DramCache

CONSTANT BankNum

VARIABLE single    \* fuse -s: a call begins when no other one is going on

MCBank == 0 .. BankNum - 1

MCInit == Init /\ single \in BOOLEAN
MCNext == /\ Next
          /\ single => \A t \in Thread : pc[t] = "idle" /\ pc'[t] # "idle"
                                           => \A u \in Thread : pc[u] = "idle"
          /\ UNCHANGED single
MCSpec == MCInit /\ [][MCNext]_<<vars, single>> /\ Fairness

\* With one worker, which fuse has with -s, a store hits its bank and a read
\* is current, in spite of the flusher (try_visit_cache, expel_cache_rewrite).
SingleIsCurrent == single => StoreHitsItsBank /\ ReadIsCurrent
=============================================================================
