----------------------------- MODULE DramCache -----------------------------
(***************************************************************************)
(* The DRAM cache between the FUSE handlers and the memory servers         *)
(* (src/src/dhmp_fs_io.c).  A bank lives in slot bank_id & (CACHE_SIZE-1). *)
(* A slot carries two labels, the one of the hash table                    *)
(* (cache_hash[i]->bank_id, here hash) and the one of the buffer           *)
(* (cache->bank_Id, here bank_Id), its data, its dirty flag and its        *)
(* rewrite_lock.  FUSE runs multithreaded: Thread is the set of its        *)
(* workers, and rewrite_dirty_cache is one more thread, Flusher.           *)
(*                                                                         *)
(* One step is what lies between two points where another thread can       *)
(* observe a difference: the labels and the data are read without the      *)
(* lock, so each store to them is a step of its own.  A transfer of a bank *)
(* to or from the servers is one step: only the holder of the slot's lock  *)
(* touches the remote copy of a bank of that slot.  One cut off by the     *)
(* loss of a connection hangs for good (CutOff).                           *)
(***************************************************************************)
EXTENDS Integers

CONSTANTS Bank,       \* 0 .. BANK_NUM-1, or some of them
          CacheSize,  \* CACHE_SIZE, the number of slots
          Word,       \* addressable units of a bank (a chunk, say)
          Val,        \* what a word can hold
          Zero,       \* content of fresh memory
          Thread,     \* FUSE worker threads
          Flusher,    \* the rewrite_dirty_cache thread
          Free        \* "owner" of a lock nobody holds

ASSUME SizeAssumption == CacheSize \in Nat \ {0}
ASSUME BankAssumption == Bank \subseteq Nat /\ 0 .. CacheSize - 1 \subseteq Bank
ASSUME WordAssumption == Word # {}
ASSUME ValAssumption == Zero \in Val
ASSUME ThreadAssumption == /\ Flusher \notin Thread
                           /\ Free \notin Thread \cup {Flusher}

VARIABLES hash,     \* hash[s]: bank the hash table believes to be in slot s
          bank_Id,  \* bank_Id[s]: bank the buffer of slot s belongs to
          data,     \* data[s]: content of the buffer of slot s
          dirty,    \* dirty[s]: the buffer is newer than the servers
          lock,     \* lock[s]: holder of rewrite_lock of slot s
          remote,   \* remote[b]: content of bank b on the servers
          up,       \* some server is reachable
          hung,     \* threads that spin for good in a transfer that was cut off
          pc,       \* pc[t]: where worker t is
          req,      \* req[t]: the access worker t performs
          buf,      \* buf[t]: what the access left in the caller's buffer
          fpc,      \* where the flusher is
          fi        \* the slot the flusher looks at

slotVars   == <<hash, bank_Id, data, dirty, lock>>
threadVars == <<pc, req, buf>>
flushVars  == <<fpc, fi>>
vars == <<hash, bank_Id, data, dirty, lock, remote, up, hung, pc, req, buf, fpc, fi>>

Slot == 0 .. CacheSize - 1

\* bank_id & (CACHE_SIZE - 1); CACHE_SIZE is a power of two.
cache_key(b) == b % CacheSize

Content == [Word -> Val]
Request == [op : {"write"}, bank : Bank, word : Word, val : Val]
           \cup [op : {"read"}, bank : Bank, word : Word, val : {Zero}]
NoRequest == [op |-> "read", bank |-> 0, word |-> CHOOSE w \in Word : TRUE, val |-> Zero]

\* Places inside expel_cache_rewrite where the lock is held.
Expelling == {"writeback", "relabel_hash", "relabel_bank", "refill", "done_expel"}
Places == {"idle", "visit", "copy", "lock_write", "store", "expel",
           "lock_expel", "revisit", "return"} \cup Expelling

MySlot(t) == cache_key(req[t].bank)
Goto(t, place) == pc' = [pc EXCEPT ![t] = place]

Init == /\ hash = [s \in Slot |-> s]
        /\ bank_Id = [s \in Slot |-> s]
        /\ data = [s \in Slot |-> [w \in Word |-> Zero]]
        /\ dirty = [s \in Slot |-> FALSE]
        /\ lock = [s \in Slot |-> Free]
        /\ remote = [b \in Bank |-> [w \in Word |-> Zero]]
        /\ up = TRUE
        /\ hung = {}
        /\ pc = [t \in Thread |-> "idle"]
        /\ req = [t \in Thread |-> NoRequest]
        /\ buf = [t \in Thread |-> Zero]
        /\ fpc = "scan"
        /\ fi = 0

-----------------------------------------------------------------------------
(* The servers.  When none is left, write_to_remote logs an error and      *)
(* returns, read_from_remote returns and leaves the buffer alone: both are *)
(* void and their callers go on.  A transfer that the loss of a connection *)
(* cuts off never ends: its completion comes with an error, for which no   *)
(* handler sets the flag that the transfer waits for.  It hangs with the   *)
(* rewrite_lock of its slot held.  All transfers go through one work       *)
(* thread of the client, so the later ones wait behind it for good.        *)

LoseServers == /\ up
               /\ up' = FALSE
               /\ UNCHANGED <<slotVars, remote, hung, threadVars, flushVars>>

\* Thread t is in a transfer (or is about to begin it).
Transferring(t) ==
    \/ t = Flusher /\ fpc = "flush"
    \/ t \in Thread /\ pc[t] = "writeback" /\ dirty[MySlot(t)]
    \/ t \in Thread /\ pc[t] = "refill"

\* A connection is lost under the transfer of t, or t waits behind one that
\* is cut off.  What the servers got of it nobody reads any more.
CutOff(t) == /\ up /\ t \notin hung /\ Transferring(t)
             /\ hung' = hung \cup {t}
             /\ UNCHANGED <<slotVars, remote, up, threadVars, flushVars>>

\* The transfer of t comes to its end, done or (with no server left) refused.
Transfers(t) == t \notin hung /\ (up => hung = {})

write_to_remote(s) ==
    remote' = IF up THEN [remote EXCEPT ![bank_Id[s]] = data[s]] ELSE remote

read_from_remote(b, s) ==
    data' = IF up THEN [data EXCEPT ![s] = remote[b]] ELSE data

-----------------------------------------------------------------------------
(* Plausible mistakes in the steps below (Bug_...), each of which breaks a *)
(* property of this module.                                                *)

\* The hit test compares slots instead of banks.
Bug_Visit(t) ==
    /\ pc[t] = "visit"
    /\ Goto(t, IF cache_key(hash[MySlot(t)]) # MySlot(t) THEN "expel"
               ELSE IF req[t].op = "read" THEN "copy" ELSE "lock_write")
    /\ UNCHANGED <<slotVars, remote, up, hung, req, buf, flushVars>>

\* The store forgets to mark the buffer dirty.
Bug_Store(t) ==
    /\ pc[t] = "store"
    /\ data' = [data EXCEPT ![MySlot(t)][req[t].word] = buf[t]]
    /\ lock' = [lock EXCEPT ![MySlot(t)] = Free]
    /\ Goto(t, "return")
    /\ UNCHANGED <<hash, bank_Id, dirty, remote, up, hung, req, buf, flushVars>>

\* The victim is dropped without being written back.
Bug_WriteBack(t) ==
    /\ pc[t] = "writeback"
    /\ Goto(t, "relabel_hash")
    /\ UNCHANGED <<slotVars, remote, up, hung, req, buf, flushVars>>

\* The hash table keeps the label of the victim.
Bug_RelabelHash(t) ==
    /\ pc[t] = "relabel_hash"
    /\ Goto(t, "relabel_bank")
    /\ UNCHANGED <<slotVars, remote, up, hung, req, buf, flushVars>>

\* After an eviction the access returns without a second visit.
Bug_Revisit(t) ==
    /\ pc[t] = "revisit"
    /\ Goto(t, "return")
    /\ UNCHANGED <<slotVars, remote, up, hung, req, buf, flushVars>>

\* The scan runs off the end of the table.
\* The result of trylock is not looked at.
Bug_FlushTryLock ==
    /\ fpc = "trylock"
    /\ lock' = [lock EXCEPT ![fi] = Flusher]
    /\ fpc' = "flush"
    /\ UNCHANGED <<hash, bank_Id, data, dirty, remote, up, hung, threadVars, fi>>

\* The flusher forgets to unlock.
Bug_FlushClear ==
    /\ fpc = "clear"
    /\ dirty' = [dirty EXCEPT ![fi] = FALSE]
    /\ fpc' = "scan"
    /\ fi' = (fi + 1) % CacheSize
    /\ UNCHANGED <<hash, bank_Id, data, lock, remote, up, hung, threadVars>>

-----------------------------------------------------------------------------
(* A worker in dhmp_fs_read_from_cache or dhmp_fs_write_to_cache.          *)

\* A handler asks for a word of a bank; a write brings the word along in buf.
Call(t, r) == /\ pc[t] = "idle"
              /\ req' = [req EXCEPT ![t] = r]
              /\ buf' = [buf EXCEPT ![t] = r.val]
              /\ Goto(t, "visit")
              /\ UNCHANGED <<slotVars, remote, up, hung, flushVars>>

\* try_visit_cache(..., type 1 or 2): the label is looked at without a lock.
Visit(t) == /\ pc[t] = "visit"
            /\ Goto(t, IF hash[MySlot(t)] # req[t].bank THEN "expel"
                       ELSE IF req[t].op = "read" THEN "copy" ELSE "lock_write")
            /\ UNCHANGED <<slotVars, remote, up, hung, req, buf, flushVars>>

\* Type 1: memcpy out of the buffer, without a lock.
CopyOut(t) == /\ pc[t] = "copy"
              /\ buf' = [buf EXCEPT ![t] = data[MySlot(t)][req[t].word]]
              /\ Goto(t, "return")
              /\ UNCHANGED <<slotVars, remote, up, hung, req, flushVars>>

\* Type 2: pthread_mutex_lock(&cache->rewrite_lock).
LockWrite(t) == /\ pc[t] = "lock_write"
                /\ lock[MySlot(t)] = Free
                /\ lock' = [lock EXCEPT ![MySlot(t)] = t]
                /\ Goto(t, "store")
                /\ UNCHANGED <<hash, bank_Id, data, dirty, remote, up, hung, req, buf, flushVars>>

\* Type 2: memcpy into the buffer, dirty = 1, unlock.
Store(t) == /\ pc[t] = "store"
            /\ data' = [data EXCEPT ![MySlot(t)][req[t].word] = buf[t]]
            /\ dirty' = [dirty EXCEPT ![MySlot(t)] = TRUE]
            /\ lock' = [lock EXCEPT ![MySlot(t)] = Free]
            /\ Goto(t, "return")
            /\ UNCHANGED <<hash, bank_Id, remote, up, hung, req, buf, flushVars>>

\* expel_cache_rewrite: nothing to do if the buffer has the bank by now.
ExpelCheck(t) == /\ pc[t] = "expel"
                 /\ Goto(t, IF bank_Id[MySlot(t)] = req[t].bank
                            THEN "revisit" ELSE "lock_expel")
                 /\ UNCHANGED <<slotVars, remote, up, hung, req, buf, flushVars>>

LockExpel(t) == /\ pc[t] = "lock_expel"
                /\ lock[MySlot(t)] = Free
                /\ lock' = [lock EXCEPT ![MySlot(t)] = t]
                /\ Goto(t, "writeback")
                /\ UNCHANGED <<hash, bank_Id, data, dirty, remote, up, hung, req, buf, flushVars>>

\* if(cache->dirty == 1) write the whole bank back, under its old label.
WriteBack(t) == /\ pc[t] = "writeback"
                /\ IF dirty[MySlot(t)] THEN Transfers(t) /\ write_to_remote(MySlot(t))
                                       ELSE UNCHANGED remote
                /\ Goto(t, "relabel_hash")
                /\ UNCHANGED <<slotVars, up, hung, req, buf, flushVars>>

\* cache_hash[cache->bank_Id & (CACHE_SIZE - 1)]->bank_id = new_bank_id
RelabelHash(t) ==
    /\ pc[t] = "relabel_hash"
    /\ hash' = [hash EXCEPT ![cache_key(bank_Id[MySlot(t)])] = req[t].bank]
    /\ Goto(t, "relabel_bank")
    /\ UNCHANGED <<bank_Id, data, dirty, lock, remote, up, hung, req, buf, flushVars>>

\* cache->bank_Id = new_bank_id
RelabelBank(t) ==
    /\ pc[t] = "relabel_bank"
    /\ bank_Id' = [bank_Id EXCEPT ![MySlot(t)] = req[t].bank]
    /\ Goto(t, "refill")
    /\ UNCHANGED <<hash, data, dirty, lock, remote, up, hung, req, buf, flushVars>>

Refill(t) == /\ pc[t] = "refill"
             /\ Transfers(t)
             /\ read_from_remote(req[t].bank, MySlot(t))
             /\ Goto(t, "done_expel")
             /\ UNCHANGED <<hash, bank_Id, dirty, lock, remote, up, hung, req, buf, flushVars>>

\* dirty = 0, unlock.
DoneExpel(t) == /\ pc[t] = "done_expel"
                /\ dirty' = [dirty EXCEPT ![MySlot(t)] = FALSE]
                /\ lock' = [lock EXCEPT ![MySlot(t)] = Free]
                /\ Goto(t, "revisit")
                /\ UNCHANGED <<hash, bank_Id, data, remote, up, hung, req, buf, flushVars>>

\* The second try_visit_cache has type 1 for a read and for a write alike,
\* and its result is not looked at: on another miss the access just returns.
Revisit(t) == /\ pc[t] = "revisit"
              /\ Goto(t, IF hash[MySlot(t)] = req[t].bank THEN "copy" ELSE "return")
              /\ UNCHANGED <<slotVars, remote, up, hung, req, buf, flushVars>>

\* Back in the handler; the request is over.
Return(t) == /\ pc[t] = "return"
             /\ req' = [req EXCEPT ![t] = NoRequest]
             /\ buf' = [buf EXCEPT ![t] = Zero]
             /\ Goto(t, "idle")
             /\ UNCHANGED <<slotVars, remote, up, hung, flushVars>>

Worker(t) == \/ \E r \in Request : Call(t, r)
             \/ Visit(t) \/ CopyOut(t) \/ LockWrite(t) \/ Store(t)
             \/ ExpelCheck(t) \/ LockExpel(t) \/ WriteBack(t) \/ RelabelHash(t)
             \/ RelabelBank(t) \/ Refill(t) \/ DoneExpel(t) \/ Revisit(t) \/ Return(t)

-----------------------------------------------------------------------------
(* rewrite_dirty_cache: round and round over the slots.                    *)

NextSlot == (fi + 1) % CacheSize

\* if(cache->dirty == 1), without the lock.
FlushScan == /\ fpc = "scan"
             /\ IF dirty[fi] THEN fpc' = "trylock" /\ UNCHANGED fi
                             ELSE fi' = NextSlot /\ UNCHANGED fpc
             /\ UNCHANGED <<slotVars, remote, up, hung, threadVars>>

\* pthread_mutex_trylock: go on to the next slot when it is taken.
FlushTryLock == /\ fpc = "trylock"
                /\ IF lock[fi] = Free
                   THEN /\ lock' = [lock EXCEPT ![fi] = Flusher]
                        /\ fpc' = "flush"
                        /\ UNCHANGED fi
                   ELSE /\ fpc' = "scan"
                        /\ fi' = NextSlot
                        /\ UNCHANGED lock
                /\ UNCHANGED <<hash, bank_Id, data, dirty, remote, up, hung, threadVars>>

FlushWrite == /\ fpc = "flush"
              /\ Transfers(Flusher)
              /\ write_to_remote(fi)
              /\ fpc' = "clear"
              /\ UNCHANGED <<slotVars, up, hung, threadVars, fi>>

\* dirty = 0, unlock.
FlushClear == /\ fpc = "clear"
              /\ dirty' = [dirty EXCEPT ![fi] = FALSE]
              /\ lock' = [lock EXCEPT ![fi] = Free]
              /\ fpc' = "scan"
              /\ fi' = NextSlot
              /\ UNCHANGED <<hash, bank_Id, data, remote, up, hung, threadVars>>

rewrite_dirty_cache == FlushScan \/ FlushTryLock \/ FlushWrite \/ FlushClear

Next == \/ \E t \in Thread : Worker(t)
        \/ rewrite_dirty_cache
        \/ LoseServers
        \/ \E t \in Thread \cup {Flusher} : CutOff(t)

Spec == Init /\ [][Next]_vars

-----------------------------------------------------------------------------
\* Type invariant: labels are banks, a lock is free or has one holder, and
\* workers and flusher are at a known place.
TypeOK == /\ hash \in [Slot -> Bank]
          /\ bank_Id \in [Slot -> Bank]
          /\ data \in [Slot -> Content]
          /\ dirty \in [Slot -> BOOLEAN]
          /\ lock \in [Slot -> Thread \cup {Flusher, Free}]
          /\ remote \in [Bank -> Content]
          /\ up \in BOOLEAN
          /\ hung \subseteq Thread \cup {Flusher}
          /\ pc \in [Thread -> Places]
          /\ req \in [Thread -> Request]
          /\ buf \in [Thread -> Val]
          /\ fpc \in {"scan", "trylock", "flush", "clear"}
          /\ fi \in Slot

\* rewrite_lock works: whoever is inside the critical section of
\* try_visit_cache, expel_cache_rewrite or rewrite_dirty_cache for a slot is
\* recorded as its holder, hence alone.
LockOwner == /\ \A t \in Thread :
                   pc[t] \in Expelling \cup {"store"} <=> lock[MySlot(t)] = t
             /\ \A t \in Thread, s \in Slot : lock[s] = t => s = MySlot(t)
             /\ \A s \in Slot : lock[s] = Flusher <=> fpc \in {"flush", "clear"} /\ s = fi

\* The expelling worker of slot s is past "place".
ExpellerAt(s, places) == \E t \in Thread : lock[s] = t /\ pc[t] \in places

\* A slot never gets a bank that hashes elsewhere, and the label the hash
\* table shows and the label under which the slot is written back agree
\* except inside the one critical section that changes both.
LabelsAgree == \A s \in Slot :
    /\ cache_key(bank_Id[s]) = s
    /\ cache_key(hash[s]) = s
    /\ ~ExpellerAt(s, {"relabel_bank"}) => hash[s] = bank_Id[s]

\* Whoever changes a slot has its lock, and the labels that the others go by
\* without it agree but for his one critical section: eviction, write-back
\* and refill of a slot (expel_cache_rewrite, rewrite_dirty_cache) are never
\* mixed with those of another bank.
SlotDiscipline == LockOwner /\ LabelsAgree

\* What the place of a worker says: it relabels for its own request, and only
\* a write gets to the writing branch of try_visit_cache.
Placed == \A t \in Thread :
    /\ pc[t] = "relabel_bank" => hash[MySlot(t)] = req[t].bank
    /\ pc[t] \in {"refill", "done_expel"} => bank_Id[MySlot(t)] = req[t].bank
    /\ pc[t] \in {"lock_write", "store"} => req[t].op = "write"

\* A clean buffer nobody works on equals the servers' copy of the bank it is
\* labelled with: dropping it in an eviction loses nothing.
CleanIsRemote == \A s \in Slot :
    up /\ lock[s] = Free /\ ~dirty[s] => data[s] = remote[bank_Id[s]]

\* Buffer s holds the content of the bank it is labelled with: not so
\* between the relabelling and the end of the refill.
Filled(s) == ~ExpellerAt(s, {"refill"})

\* Inductive strengthening of CleanIsRemote over the critical sections.
Coherent == up => \A s \in Slot :
    /\ ~dirty[s] /\ Filled(s) => data[s] = remote[bank_Id[s]]
    /\ ExpellerAt(s, {"relabel_hash", "relabel_bank", "done_expel"})
          => data[s] = remote[bank_Id[s]]
    /\ lock[s] = Flusher /\ fpc = "clear" => data[s] = remote[bank_Id[s]]

\* The logical content of a bank: the buffer if the slot is labelled with it
\* and filled, the servers' copy otherwise.
mem == [b \in Bank |-> IF bank_Id[cache_key(b)] = b /\ Filled(cache_key(b))
                       THEN data[cache_key(b)] ELSE remote[b]]

\* The write a worker has asked for and that may still take effect.
pending == [t \in Thread |->
               IF pc[t] \in {"visit", "lock_write", "store"} /\ req[t].op = "write"
               THEN {<<req[t].word, buf[t]>>} ELSE {}]

Abstract == INSTANCE BankStore

\* The refinement: whatever the workers and the flusher do, in any
\* interleaving, the logical content of the banks changes only when a write
\* some worker asked for takes effect; eviction, write-back, refill and
\* flush are invisible.
Hidden == Abstract!StoreSpec

\* The slot a write stores into is labelled with the bank the write is for:
\* the label looked up before the lock was taken still holds after it.
StoreHitsItsBank == \A t \in Thread :
    pc[t] = "store" => bank_Id[MySlot(t)] = req[t].bank

\* A read returns the logical content of the word it asks for, hit or miss.
ReadIsCurrent == \A t \in Thread :
    up /\ pc[t] = "return" /\ req[t].op = "read"
       => buf[t] = mem[req[t].bank][req[t].word]

\* Both hold with one worker (fuse -s), and with more of them neither does.
OneWorker == \A t, u \in Thread : t = u
LoneStoreHitsItsBank == OneWorker => StoreHitsItsBank
LoneReadIsCurrent == OneWorker => ReadIsCurrent

\* dhmp_fs_write_to_cache returns with the word it was given in the bank.
WriteTakesEffect == \A t \in Thread :
    up /\ pc[t] = "return" /\ req[t].op = "write"
       => mem[req[t].bank][req[t].word] = req[t].val

-----------------------------------------------------------------------------
\* Fairness: every thread keeps running.  A mutex need not be handed out
\* fairly and none is assumed: weak fairness of a whole thread only says
\* that it moves when it can move for good.
WorkerStep(t) == Worker(t) /\ pc[t] # "idle"
Fairness == /\ \A t \in Thread : WF_vars(WorkerStep(t))
            /\ WF_vars(rewrite_dirty_cache)
FairSpec == Spec /\ Fairness

\* Once the file system gets no more accesses, every pending one returns
\* (expel_cache_rewrite and rewrite_dirty_cache do not block each other for
\* good) and the flusher gets every buffer clean, unless a transfer is cut
\* off: that one never ends, and the lock of its slot stays taken.
NoNewCall == [][\A t \in Thread : pc[t] = "idle" => pc'[t] = "idle"]_vars
SettlesClean ==
    <>NoNewCall => \/ <>[](/\ \A t \in Thread : pc[t] = "idle"
                          /\ \A s \in Slot : ~dirty[s])
                   \/ <>(hung # {})

=============================================================================
