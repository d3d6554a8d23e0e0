-------------------------- MODULE DramCacheProofs --------------------------
(* Proofs about DramCache for any number of banks, slots, words and        *)
(* workers, and about the scenes of MC_DramCache.                          *)
EXTENDS MC_DramCache, TLAPS

\* A transfer of some thread is cut off.
Cuts == \E t \in Thread \cup {Flusher} : CutOff(t)

LEMMA KeyType == \A b \in Bank : cache_key(b) \in Slot
  BY SizeAssumption, BankAssumption DEF cache_key, Slot

LEMMA KeyOfSlot == \A s \in Slot : cache_key(s) = s /\ s \in Bank
  BY SizeAssumption, BankAssumption DEF cache_key, Slot

LEMMA RequestType == /\ NoRequest \in Request
                     /\ \A r \in Request : /\ r.bank \in Bank /\ r.word \in Word
                                           /\ r.val \in Val
                                           /\ r.op \in {"read", "write"}
  BY SizeAssumption, BankAssumption, WordAssumption, ValAssumption
     DEF Request, NoRequest

LEMMA MySlotType == TypeOK => \A t \in Thread : MySlot(t) \in Slot
  BY KeyType, RequestType DEF TypeOK, MySlot

LEMMA TypeStep == TypeOK /\ [Next]_vars => TypeOK'
<1> SUFFICES ASSUME TypeOK, [Next]_vars PROVE TypeOK'
  OBVIOUS
<1> USE DEF TypeOK, slotVars, threadVars, flushVars, Goto
<1>s. \A t \in Thread : MySlot(t) \in Slot
  BY MySlotType
<1>n. NextSlot \in Slot
  BY SizeAssumption DEF NextSlot, Slot
<1>0. CASE UNCHANGED vars
  BY <1>0 DEF vars
<1>1. CASE LoseServers \/ Cuts
  BY <1>1 DEF LoseServers, Cuts, CutOff
<1>2. ASSUME NEW t \in Thread, NEW r \in Request, Call(t, r) PROVE TypeOK'
  BY <1>2, RequestType DEF Call, Places
<1>3. ASSUME NEW t \in Thread, Visit(t) PROVE TypeOK'
  BY <1>3 DEF Visit, Places
<1>4. ASSUME NEW t \in Thread, CopyOut(t) PROVE TypeOK'
  BY <1>4, <1>s, RequestType DEF CopyOut, Places, Content
<1>5. ASSUME NEW t \in Thread, LockWrite(t) PROVE TypeOK'
  BY <1>5 DEF LockWrite, Places
<1>6. ASSUME NEW t \in Thread, Store(t) PROVE TypeOK'
  <2>1. data' \in [Slot -> Content]
    BY <1>6, <1>s, RequestType DEF Store, Content
  <2>2. QED BY <1>6, <2>1 DEF Store, Places
<1>7. ASSUME NEW t \in Thread, ExpelCheck(t) PROVE TypeOK'
  BY <1>7 DEF ExpelCheck, Places
<1>8. ASSUME NEW t \in Thread, LockExpel(t) PROVE TypeOK'
  BY <1>8 DEF LockExpel, Places, Expelling
<1>9. ASSUME NEW t \in Thread, WriteBack(t) PROVE TypeOK'
  BY <1>9, <1>s DEF WriteBack, write_to_remote, Places, Expelling
<1>10. ASSUME NEW t \in Thread, RelabelHash(t) PROVE TypeOK'
  BY <1>10, RequestType DEF RelabelHash, Places, Expelling
<1>11. ASSUME NEW t \in Thread, RelabelBank(t) PROVE TypeOK'
  BY <1>11, RequestType DEF RelabelBank, Places, Expelling
<1>12. ASSUME NEW t \in Thread, Refill(t) PROVE TypeOK'
  BY <1>12, <1>s, RequestType DEF Refill, read_from_remote, Places, Expelling
<1>13. ASSUME NEW t \in Thread, DoneExpel(t) PROVE TypeOK'
  BY <1>13 DEF DoneExpel, Places
<1>14. ASSUME NEW t \in Thread, Revisit(t) PROVE TypeOK'
  BY <1>14 DEF Revisit, Places
<1>15. ASSUME NEW t \in Thread, Return(t) PROVE TypeOK'
  BY <1>15, RequestType, ValAssumption DEF Return, Places
<1>16. CASE FlushScan
  BY <1>16, <1>n DEF FlushScan
<1>17. CASE FlushTryLock
  BY <1>17, <1>n DEF FlushTryLock
<1>18. CASE FlushWrite
  BY <1>18 DEF FlushWrite, write_to_remote
<1>19. CASE FlushClear
  BY <1>19, <1>n DEF FlushClear
<1>20. QED
  BY <1>0, <1>1, <1>2, <1>3, <1>4, <1>5, <1>6, <1>7, <1>8, <1>9, <1>10, <1>11,
     <1>12, <1>13, <1>14, <1>15, <1>16, <1>17, <1>18, <1>19
     DEF Next, Cuts, Worker, rewrite_dirty_cache

-----------------------------------------------------------------------------
\* The inductive invariant: lock discipline, labels and coherence need one
\* another.  Without LockOwner two threads could rewrite a slot at once, and
\* without LabelsAgree a bank could be cached in two slots.
IInv == TypeOK /\ LockOwner /\ LabelsAgree /\ Placed /\ Coherent

LEMMA InitIInv == Init => IInv
<1> SUFFICES ASSUME Init PROVE IInv
  OBVIOUS
<1>1. TypeOK
  BY KeyOfSlot, RequestType, ValAssumption, SizeAssumption
     DEF Init, TypeOK, Content, Places, Slot
<1>2. LockOwner
  <2>1. \A s \in Slot : lock[s] = Free
    BY DEF Init
  <2>2. \A t \in Thread : pc[t] = "idle" /\ MySlot(t) \in Slot
    BY <1>1, MySlotType DEF Init
  <2>3. QED BY <2>1, <2>2, ThreadAssumption DEF LockOwner, Expelling, Init
<1>3. LabelsAgree
  BY KeyOfSlot DEF LabelsAgree, Init
<1>6. Placed
  BY DEF Placed, Init
<1>4. Coherent
  BY KeyOfSlot, ThreadAssumption DEF Coherent, Init, Filled, ExpellerAt
<1>5. QED BY <1>1, <1>2, <1>3, <1>4, <1>6 DEF IInv

\* Each step keeps the lock discipline.
LEMMA LockStep == IInv /\ TypeOK' /\ [Next]_vars => LockOwner'
<1> SUFFICES ASSUME IInv, TypeOK', [Next]_vars PROVE LockOwner'
  OBVIOUS
<1> USE ThreadAssumption
    DEF IInv, TypeOK, LockOwner, slotVars, threadVars, flushVars, Goto, MySlot
<1>s. \A t \in Thread : cache_key(req[t].bank) \in Slot
  BY MySlotType
<1>0. CASE UNCHANGED vars
  BY <1>0 DEF vars
<1>1. CASE LoseServers \/ Cuts
  BY <1>1 DEF LoseServers, Cuts, CutOff
<1>2. ASSUME NEW t \in Thread, NEW r \in Request, Call(t, r) PROVE LockOwner'
  BY <1>2, RequestType, KeyType, <1>s DEF Call, Expelling
<1>3. ASSUME NEW t \in Thread, Visit(t) PROVE LockOwner'
  BY <1>3 DEF Visit, Expelling
<1>4. ASSUME NEW t \in Thread, CopyOut(t) PROVE LockOwner'
  BY <1>4 DEF CopyOut, Expelling
<1>5. ASSUME NEW t \in Thread, LockWrite(t) PROVE LockOwner'
  BY <1>5, <1>s DEF LockWrite, Expelling
<1>6. ASSUME NEW t \in Thread, Store(t) PROVE LockOwner'
  BY <1>6, <1>s DEF Store, Expelling
<1>7. ASSUME NEW t \in Thread, ExpelCheck(t) PROVE LockOwner'
  BY <1>7 DEF ExpelCheck, Expelling
<1>8. ASSUME NEW t \in Thread, LockExpel(t) PROVE LockOwner'
  BY <1>8, <1>s DEF LockExpel, Expelling
<1>9. ASSUME NEW t \in Thread, WriteBack(t) PROVE LockOwner'
  BY <1>9 DEF WriteBack, Expelling
<1>10. ASSUME NEW t \in Thread, RelabelHash(t) PROVE LockOwner'
  BY <1>10 DEF RelabelHash, Expelling
<1>11. ASSUME NEW t \in Thread, RelabelBank(t) PROVE LockOwner'
  BY <1>11 DEF RelabelBank, Expelling
<1>12. ASSUME NEW t \in Thread, Refill(t) PROVE LockOwner'
  BY <1>12 DEF Refill, Expelling
<1>13. ASSUME NEW t \in Thread, DoneExpel(t) PROVE LockOwner'
  BY <1>13, <1>s DEF DoneExpel, Expelling
<1>14. ASSUME NEW t \in Thread, Revisit(t) PROVE LockOwner'
  BY <1>14 DEF Revisit, Expelling
<1>15. ASSUME NEW t \in Thread, Return(t) PROVE LockOwner'
  BY <1>15, RequestType, KeyType, <1>s DEF Return, Expelling
<1>16. CASE FlushScan
  BY <1>16 DEF FlushScan
<1>17. CASE FlushTryLock
  BY <1>17, <1>s DEF FlushTryLock
<1>18. CASE FlushWrite
  BY <1>18 DEF FlushWrite
<1>19. CASE FlushClear
  BY <1>19, <1>s DEF FlushClear
<1>20. QED
  BY <1>0, <1>1, <1>2, <1>3, <1>4, <1>5, <1>6, <1>7, <1>8, <1>9, <1>10, <1>11,
     <1>12, <1>13, <1>14, <1>15, <1>16, <1>17, <1>18, <1>19
     DEF Next, Cuts, Worker, rewrite_dirty_cache

\* Each step keeps the two labels of a slot in agreement.
LEMMA LabelStep == IInv /\ TypeOK' /\ LockOwner' /\ [Next]_vars => LabelsAgree' /\ Placed'
<1> SUFFICES ASSUME IInv, TypeOK', LockOwner', [Next]_vars PROVE LabelsAgree' /\ Placed'
  OBVIOUS
<1> USE ThreadAssumption
    DEF IInv, TypeOK, LockOwner, LabelsAgree, Placed, ExpellerAt, slotVars, threadVars,
        flushVars, Goto, MySlot
<1>s. \A t \in Thread : cache_key(req[t].bank) \in Slot
  BY MySlotType
<1>0. CASE UNCHANGED vars
  BY <1>0, <1>s DEF vars
<1>1. CASE LoseServers \/ Cuts
  BY <1>1, <1>s DEF LoseServers, Cuts, CutOff
<1>2. ASSUME NEW t \in Thread, NEW r \in Request, Call(t, r) PROVE LabelsAgree' /\ Placed'
  BY <1>2, <1>s DEF Call
<1>3. ASSUME NEW t \in Thread, Visit(t) PROVE LabelsAgree' /\ Placed'
  BY <1>3, <1>s, RequestType DEF Visit
<1>4. ASSUME NEW t \in Thread, CopyOut(t) PROVE LabelsAgree' /\ Placed'
  BY <1>4, <1>s DEF CopyOut
<1>5. ASSUME NEW t \in Thread, LockWrite(t) PROVE LabelsAgree' /\ Placed'
  BY <1>5, <1>s DEF LockWrite
<1>6. ASSUME NEW t \in Thread, Store(t) PROVE LabelsAgree' /\ Placed'
  BY <1>6, <1>s DEF Store
<1>7. ASSUME NEW t \in Thread, ExpelCheck(t) PROVE LabelsAgree' /\ Placed'
  BY <1>7, <1>s DEF ExpelCheck
<1>8. ASSUME NEW t \in Thread, LockExpel(t) PROVE LabelsAgree' /\ Placed'
  BY <1>8, <1>s DEF LockExpel
<1>9. ASSUME NEW t \in Thread, WriteBack(t) PROVE LabelsAgree' /\ Placed'
  BY <1>9, <1>s DEF WriteBack, Expelling, write_to_remote
<1>10. ASSUME NEW t \in Thread, RelabelHash(t) PROVE LabelsAgree' /\ Placed'
  BY <1>10, <1>s DEF RelabelHash, Expelling
<1>11. ASSUME NEW t \in Thread, RelabelBank(t) PROVE LabelsAgree' /\ Placed'
  BY <1>11, <1>s DEF RelabelBank, Expelling
<1>12. ASSUME NEW t \in Thread, Refill(t) PROVE LabelsAgree' /\ Placed'
  BY <1>12, <1>s DEF Refill, Expelling, read_from_remote
<1>13. ASSUME NEW t \in Thread, DoneExpel(t) PROVE LabelsAgree' /\ Placed'
  BY <1>13, <1>s DEF DoneExpel, Expelling
<1>14. ASSUME NEW t \in Thread, Revisit(t) PROVE LabelsAgree' /\ Placed'
  BY <1>14, <1>s DEF Revisit
<1>15. ASSUME NEW t \in Thread, Return(t) PROVE LabelsAgree' /\ Placed'
  BY <1>15, <1>s DEF Return
<1>16. CASE FlushScan
  BY <1>16, <1>s DEF FlushScan
<1>17. CASE FlushTryLock
  BY <1>17, <1>s DEF FlushTryLock
<1>18. CASE FlushWrite
  BY <1>18, <1>s DEF FlushWrite, write_to_remote
<1>19. CASE FlushClear
  BY <1>19, <1>s DEF FlushClear
<1>20. QED
  BY <1>0, <1>1, <1>2, <1>3, <1>4, <1>5, <1>6, <1>7, <1>8, <1>9, <1>10, <1>11, <1>12, <1>13, <1>14, <1>15, <1>16, <1>17, <1>18, <1>19
     DEF Next, Cuts, Worker, rewrite_dirty_cache

\* Each step keeps clean and written-back buffers equal to the servers' copy.
LEMMA CoherenceStep == IInv /\ TypeOK' /\ LockOwner' /\ [Next]_vars => Coherent'
<1> SUFFICES ASSUME IInv, TypeOK', LockOwner', [Next]_vars PROVE Coherent'
  OBVIOUS
<1> USE ThreadAssumption
    DEF IInv, TypeOK, LockOwner, LabelsAgree, Placed, Coherent, Filled, ExpellerAt, slotVars,
        threadVars, flushVars, Goto, MySlot
<1>s. \A t \in Thread : cache_key(req[t].bank) \in Slot /\ req[t].bank \in Bank
  BY MySlotType, RequestType
<1>0. CASE UNCHANGED vars
  BY <1>0, <1>s DEF vars
<1>1. CASE LoseServers \/ Cuts
  <2>1. CASE LoseServers
    BY <2>1 DEF LoseServers
  <2>2. CASE Cuts
    BY <2>2, <1>s DEF Cuts, CutOff
  <2>3. QED BY <1>1, <2>1, <2>2
<1>2. ASSUME NEW t \in Thread, NEW r \in Request, Call(t, r) PROVE Coherent'
  BY <1>2, <1>s DEF Call
<1>3. ASSUME NEW t \in Thread, Visit(t) PROVE Coherent'
  BY <1>3, <1>s DEF Visit
<1>4. ASSUME NEW t \in Thread, CopyOut(t) PROVE Coherent'
  BY <1>4, <1>s DEF CopyOut
<1>5. ASSUME NEW t \in Thread, LockWrite(t) PROVE Coherent'
  BY <1>5, <1>s DEF LockWrite
<1>6. ASSUME NEW t \in Thread, Store(t) PROVE Coherent'
  BY <1>6, <1>s DEF Store
<1>7. ASSUME NEW t \in Thread, ExpelCheck(t) PROVE Coherent'
  BY <1>7, <1>s DEF ExpelCheck
<1>8. ASSUME NEW t \in Thread, LockExpel(t) PROVE Coherent'
  BY <1>8, <1>s DEF LockExpel
<1>9. ASSUME NEW t \in Thread, WriteBack(t) PROVE Coherent'
  BY <1>9, <1>s DEF WriteBack, Expelling, write_to_remote
<1>10. ASSUME NEW t \in Thread, RelabelHash(t) PROVE Coherent'
  BY <1>10, <1>s DEF RelabelHash, Expelling
<1>11. ASSUME NEW t \in Thread, RelabelBank(t) PROVE Coherent'
  BY <1>11, <1>s DEF RelabelBank, Expelling
<1>12. ASSUME NEW t \in Thread, Refill(t) PROVE Coherent'
  BY <1>12, <1>s DEF Refill, Expelling, read_from_remote
<1>13. ASSUME NEW t \in Thread, DoneExpel(t) PROVE Coherent'
  BY <1>13, <1>s DEF DoneExpel, Expelling
<1>14. ASSUME NEW t \in Thread, Revisit(t) PROVE Coherent'
  BY <1>14, <1>s DEF Revisit
<1>15. ASSUME NEW t \in Thread, Return(t) PROVE Coherent'
  BY <1>15, <1>s DEF Return
<1>16. CASE FlushScan
  BY <1>16, <1>s DEF FlushScan
<1>17. CASE FlushTryLock
  BY <1>17, <1>s DEF FlushTryLock
<1>18. CASE FlushWrite
  BY <1>18, <1>s DEF FlushWrite, write_to_remote
<1>19. CASE FlushClear
  BY <1>19, <1>s DEF FlushClear
<1>20. QED
  BY <1>0, <1>1, <1>2, <1>3, <1>4, <1>5, <1>6, <1>7, <1>8, <1>9, <1>10, <1>11, <1>12, <1>13, <1>14, <1>15, <1>16, <1>17, <1>18, <1>19
     DEF Next, Cuts, Worker, rewrite_dirty_cache

LEMMA InvariantStep == IInv /\ [Next]_vars => IInv'
<1> SUFFICES ASSUME IInv, [Next]_vars PROVE IInv'
  OBVIOUS
<1>1. TypeOK' BY TypeStep DEF IInv
<1>2. LockOwner' BY <1>1, LockStep
<1>3. LabelsAgree' /\ Placed' BY <1>1, <1>2, LabelStep
<1>4. Coherent' BY <1>1, <1>2, CoherenceStep
<1>5. QED BY <1>1, <1>2, <1>3, <1>4 DEF IInv

LEMMA Invariance == Spec => []IInv
  BY InitIInv, InvariantStep, PTL DEF Spec

\* Every reachable state is well typed.
THEOREM TypeCorrect == Spec => []TypeOK
<1>1. IInv => TypeOK BY DEF IInv
<1>2. QED BY <1>1, Invariance, PTL

\* rewrite_lock excludes: a thread inside a critical section of a slot is the
\* holder of its lock, whatever the number of workers.
THEOREM LockDiscipline == Spec => []LockOwner
<1>1. IInv => LockOwner BY DEF IInv
<1>2. QED BY <1>1, Invariance, PTL

\* The two labels of a slot agree outside the critical section of
\* expel_cache_rewrite, and a bank is never cached in a foreign slot.
THEOREM LabelDiscipline == Spec => []LabelsAgree
<1>1. IInv => LabelsAgree BY DEF IInv
<1>2. QED BY <1>1, Invariance, PTL

\* Both together, which the run checks.
THEOREM SlotsAreDisciplined == Spec => []SlotDiscipline
<1>1. IInv => SlotDiscipline BY DEF IInv, SlotDiscipline
<1>2. QED BY <1>1, Invariance, PTL

\* A clean buffer nobody works on equals the servers' copy of its bank, so
\* expel_cache_rewrite may drop it without writing it back.
THEOREM CleanCoherence == Spec => []CleanIsRemote
<1>1. IInv => CleanIsRemote
  <2> SUFFICES ASSUME IInv, up, NEW s \in Slot, lock[s] = Free, ~dirty[s]
               PROVE data[s] = remote[bank_Id[s]]
    BY DEF CleanIsRemote
  <2>1. Filled(s) BY ThreadAssumption DEF Filled, ExpellerAt
  <2>2. QED BY <2>1 DEF IInv, Coherent
<1>2. QED BY <1>1, Invariance, PTL

-----------------------------------------------------------------------------
LEMMA MemType == TypeOK => mem \in [Bank -> Content]
  BY KeyType DEF TypeOK, mem

\* Store changes one word of the bank its slot is labelled with.
LEMMA MemStore ==
  ASSUME IInv, NEW t \in Thread, Store(t)
  PROVE  mem' = [mem EXCEPT ![bank_Id[MySlot(t)]][req[t].word] = buf[t]]
<1> DEFINE s == MySlot(t)
           b0 == bank_Id[s]
           new == [data[s] EXCEPT ![req[t].word] = buf[t]]
<1>1. s \in Slot /\ pc[t] = "store" /\ lock[s] = t
  BY MySlotType DEF IInv, LockOwner, Store
<1>2. b0 \in Bank /\ cache_key(b0) = s
  BY <1>1 DEF IInv, TypeOK, LabelsAgree
<1>3. /\ lock' = [lock EXCEPT ![s] = Free]
      /\ pc' = [pc EXCEPT ![t] = "return"]
      /\ data' = [data EXCEPT ![s] = new]
      /\ bank_Id' = bank_Id
      /\ remote' = remote
  BY DEF Store, Goto
<1>4. \A x \in Slot : lock[x] = t => x = s
  BY DEF IInv, LockOwner
<1>5. /\ lock \in [Slot -> Thread \cup {Flusher, Free}]
      /\ pc \in [Thread -> Places]
      /\ data \in [Slot -> Content]
  BY DEF IInv, TypeOK
<1> HIDE DEF s, new
<1>6. Filled(s)
  BY <1>1 DEF Filled, ExpellerAt
<1>7. ASSUME NEW x \in Slot, x = s PROVE Filled(x)'
  BY <1>3, <1>5, <1>7, ThreadAssumption DEF Filled, ExpellerAt
<1>8. ASSUME NEW x \in Slot, x # s PROVE Filled(x)' <=> Filled(x)
  BY <1>3, <1>4, <1>5, <1>8 DEF Filled, ExpellerAt
<1>9. mem[b0] = data[s]
  BY <1>2, <1>6 DEF mem
<1>10. ASSUME NEW b \in Bank
       PROVE  mem'[b] = IF b = b0 THEN new ELSE mem[b]
  <2>1. cache_key(b) \in Slot
    BY KeyType
  <2>2. CASE cache_key(b) = s
    <3>1. Filled(cache_key(b)) /\ Filled(cache_key(b))'
      BY <1>6, <1>7, <2>1, <2>2
    <3>2. QED BY <1>1, <1>2, <1>3, <1>5, <2>2, <3>1 DEF mem
  <2>3. CASE cache_key(b) # s
    <3>1. Filled(cache_key(b))' <=> Filled(cache_key(b))
      BY <1>8, <2>1, <2>3
    <3>2. b # b0
      BY <1>2, <2>3
    <3>3. QED BY <1>1, <1>3, <1>5, <2>1, <2>3, <3>1, <3>2 DEF mem
  <2>4. QED BY <2>2, <2>3
<1>11. mem' = [mem EXCEPT ![b0] = new]
  BY <1>2, <1>10 DEF mem
<1>12. QED
  BY <1>9, <1>11 DEF s, new

\* While a server is reachable, no step but Store changes the logical content
\* of the banks.
LEMMA MemStep ==
  ASSUME IInv, IInv', [Next]_vars, up'
  PROVE  \/ mem' = mem
         \/ \E t \in Thread :
              /\ Store(t)
              /\ mem' = [mem EXCEPT ![bank_Id[MySlot(t)]][req[t].word] = buf[t]]
<1> USE ThreadAssumption
    DEF IInv, TypeOK, LockOwner, LabelsAgree, Placed, Coherent, Filled,
        ExpellerAt, slotVars, threadVars, flushVars, Goto, MySlot
<1>s. \A t \in Thread : cache_key(req[t].bank) \in Slot /\ req[t].bank \in Bank
  BY MySlotType, RequestType
<1>k. \A b \in Bank : cache_key(b) \in Slot
  BY KeyType
<1>0. CASE UNCHANGED vars
  BY <1>0, <1>s, <1>k DEF vars, mem
<1>1. CASE LoseServers \/ Cuts
  <2>1. CASE LoseServers
    BY <2>1 DEF LoseServers
  <2>2. CASE Cuts
    BY <2>2, <1>s, <1>k DEF Cuts, CutOff, mem
  <2>3. QED BY <1>1, <2>1, <2>2
<1>2. ASSUME NEW t \in Thread, NEW r \in Request, Call(t, r) PROVE mem' = mem
  BY <1>2, <1>s, <1>k DEF Call, mem
<1>3. ASSUME NEW t \in Thread, Visit(t) PROVE mem' = mem
  BY <1>3, <1>s, <1>k DEF Visit, mem
<1>4. ASSUME NEW t \in Thread, CopyOut(t) PROVE mem' = mem
  BY <1>4, <1>s, <1>k DEF CopyOut, mem
<1>5. ASSUME NEW t \in Thread, LockWrite(t) PROVE mem' = mem
  BY <1>5, <1>s, <1>k DEF LockWrite, mem
<1>6. ASSUME NEW t \in Thread, ExpelCheck(t) PROVE mem' = mem
  BY <1>6, <1>s, <1>k DEF ExpelCheck, mem
<1>7. ASSUME NEW t \in Thread, LockExpel(t) PROVE mem' = mem
  BY <1>7, <1>s, <1>k DEF LockExpel, mem
<1>8. ASSUME NEW t \in Thread, WriteBack(t) PROVE mem' = mem
  BY <1>8, <1>s, <1>k DEF WriteBack, Expelling, write_to_remote, mem
<1>9. ASSUME NEW t \in Thread, RelabelHash(t) PROVE mem' = mem
  BY <1>9, <1>s, <1>k DEF RelabelHash, Expelling, mem
<1>10. ASSUME NEW t \in Thread, RelabelBank(t) PROVE mem' = mem
  BY <1>10, <1>s, <1>k DEF RelabelBank, Expelling, mem
<1>11. ASSUME NEW t \in Thread, Refill(t) PROVE mem' = mem
  BY <1>11, <1>s, <1>k DEF Refill, Expelling, read_from_remote, mem
<1>12. ASSUME NEW t \in Thread, DoneExpel(t) PROVE mem' = mem
  BY <1>12, <1>s, <1>k DEF DoneExpel, Expelling, mem
<1>13. ASSUME NEW t \in Thread, Revisit(t) PROVE mem' = mem
  BY <1>13, <1>s, <1>k DEF Revisit, mem
<1>14. ASSUME NEW t \in Thread, Return(t) PROVE mem' = mem
  BY <1>14, <1>s, <1>k DEF Return, mem
<1>15. ASSUME FlushScan PROVE mem' = mem
  BY <1>15, <1>s, <1>k DEF FlushScan, mem
<1>16. ASSUME FlushTryLock PROVE mem' = mem
  BY <1>16, <1>s, <1>k DEF FlushTryLock, mem
<1>17. ASSUME FlushWrite PROVE mem' = mem
  BY <1>17, <1>s, <1>k DEF FlushWrite, write_to_remote, mem
<1>18. ASSUME FlushClear PROVE mem' = mem
  BY <1>18, <1>s, <1>k DEF FlushClear, mem
<1>19. ASSUME NEW t \in Thread, Store(t)
       PROVE  mem' = [mem EXCEPT ![bank_Id[MySlot(t)]][req[t].word] = buf[t]]
  BY <1>19, MemStore
<1>20. QED
  BY <1>0, <1>1, <1>2, <1>3, <1>4, <1>5, <1>6, <1>7, <1>8, <1>9, <1>10, <1>11, <1>12, <1>13, <1>14, <1>15, <1>16, <1>17, <1>18, <1>19
     DEF Next, Cuts, Worker, rewrite_dirty_cache

\* The writes asked for change only by a call, by a visit and by a store.
LEMMA PendingStep ==
  ASSUME IInv, IInv', [Next]_vars, \A t \in Thread : ~Store(t)
  PROVE  \/ pending' = pending
         \/ \E t \in Thread : pending' = [pending EXCEPT ![t] = {}]
         \/ \E t \in Thread, w \in Word, v \in Val :
              pending[t] = {} /\ pending' = [pending EXCEPT ![t] = {<<w, v>>}]
<1> USE DEF IInv, TypeOK, Placed, slotVars, threadVars, flushVars, Goto
<1>0. CASE UNCHANGED vars \/ LoseServers \/ Cuts \/ rewrite_dirty_cache
  BY <1>0 DEF pending, vars, LoseServers, Cuts, CutOff, rewrite_dirty_cache, FlushScan,
     FlushTryLock, FlushWrite, FlushClear
<1>1. ASSUME NEW t \in Thread, NEW r \in Request, Call(t, r)
      PROVE  \/ pending' = pending
             \/ \E w \in Word, v \in Val :
                  pending[t] = {} /\ pending' = [pending EXCEPT ![t] = {<<w, v>>}]
  <2>1. pending[t] = {}
    BY <1>1 DEF Call, pending
  <2>2. r.word \in Word /\ r.val \in Val
    BY RequestType
  <2>3. CASE r.op = "write"
    <3>1. pending' = [pending EXCEPT ![t] = {<<r.word, r.val>>}]
      BY <1>1, <2>3 DEF Call, pending
    <3>2. QED BY <2>1, <2>2, <3>1
  <2>4. CASE r.op # "write"
    BY <1>1, <2>1, <2>4 DEF Call, pending
  <2>5. QED BY <2>3, <2>4
<1>2. ASSUME NEW t \in Thread, Visit(t)
      PROVE  pending' = pending \/ pending' = [pending EXCEPT ![t] = {}]
  BY <1>2 DEF Visit, pending
<1>3. ASSUME NEW t \in Thread, CopyOut(t) \/ Return(t) PROVE pending' = pending
  BY <1>3 DEF CopyOut, Return, pending
<1>4. ASSUME NEW t \in Thread, LockWrite(t) PROVE pending' = pending
  BY <1>4 DEF LockWrite, pending
<1>5. ASSUME NEW t \in Thread, ExpelCheck(t) PROVE pending' = pending
  BY <1>5 DEF ExpelCheck, pending
<1>6. ASSUME NEW t \in Thread, LockExpel(t) PROVE pending' = pending
  BY <1>6 DEF LockExpel, pending
<1>7. ASSUME NEW t \in Thread, WriteBack(t) PROVE pending' = pending
  BY <1>7 DEF WriteBack, pending
<1>8. ASSUME NEW t \in Thread, RelabelHash(t) PROVE pending' = pending
  BY <1>8 DEF RelabelHash, pending
<1>9. ASSUME NEW t \in Thread, RelabelBank(t) PROVE pending' = pending
  BY <1>9 DEF RelabelBank, pending
<1>10. ASSUME NEW t \in Thread, Refill(t) PROVE pending' = pending
  BY <1>10 DEF Refill, pending
<1>11. ASSUME NEW t \in Thread, DoneExpel(t) PROVE pending' = pending
  BY <1>11 DEF DoneExpel, pending
<1>12. ASSUME NEW t \in Thread, Revisit(t) PROVE pending' = pending
  BY <1>12 DEF Revisit, pending
<1>13. QED
  BY <1>0, <1>1, <1>2, <1>3, <1>4, <1>5, <1>6, <1>7, <1>8, <1>9, <1>10, <1>11, <1>12
     DEF Next, Cuts, Worker

\* DramCache implements BankStore: with any number of workers, eviction,
\* write-back, refill and flush never change what a bank contains.
THEOREM CacheIsHidden == Spec => Hidden
<1>1. Init => Abstract!StoreInit
  <2> SUFFICES ASSUME Init PROVE Abstract!StoreInit
    OBVIOUS
  <2>1. \A b \in Bank : cache_key(b) \in Slot
    BY KeyType
  <2>2. mem = [b \in Bank |-> [w \in Word |-> Zero]]
    BY <2>1 DEF Init, mem
  <2>3. pending = [t \in Thread |-> {}]
    BY DEF Init, pending
  <2>4. QED BY <2>2, <2>3 DEF Init, Abstract!StoreInit
<1>2. IInv /\ IInv' /\ [Next]_vars => [Abstract!StoreNext]_(Abstract!storeVars)
  <2> SUFFICES ASSUME IInv, IInv', [Next]_vars
               PROVE  [Abstract!StoreNext]_(Abstract!storeVars)
    OBVIOUS
  <2>1. CASE ~up'
    <3>1. mem' \in [Bank -> [Word -> Val]]
      <4>1. TypeOK' => mem' \in [Bank -> Content]
        BY KeyType DEF TypeOK, mem
      <4>2. QED BY <4>1 DEF IInv, Content
    <3>2. up' = FALSE
      BY <2>1 DEF IInv, TypeOK
    <3>3. pending' \in [Thread -> SUBSET (Word \X Val)]
      <4>1. \A t \in Thread : req'[t].word \in Word /\ buf'[t] \in Val
        BY RequestType DEF IInv, TypeOK
      <4>2. QED BY <4>1 DEF pending
    <3>4. QED BY <3>1, <3>2, <3>3 DEF Abstract!StoreNext, Abstract!Lose
  <2>2. CASE up'
    <3>1. up' = up
      BY <2>2 DEF IInv, TypeOK, Next, Worker, rewrite_dirty_cache, vars, LoseServers, Cuts, CutOff,
         Call, Visit, CopyOut, LockWrite, Store, ExpelCheck, LockExpel, WriteBack,
         RelabelHash, RelabelBank, Refill, DoneExpel, Revisit, Return, FlushScan,
         FlushTryLock, FlushWrite, FlushClear
    <3>2. CASE \A t \in Thread : ~Store(t)
      <4>1. mem' = mem
        BY <2>2, <3>2, MemStep
      <4>2. QED
        BY <3>1, <3>2, <4>1, PendingStep
           DEF Abstract!storeVars, Abstract!StoreNext, Abstract!Ask, Abstract!Drop
    <3>3. ASSUME NEW t \in Thread, Store(t) PROVE Abstract!StoreNext
      <4>1. /\ bank_Id[MySlot(t)] \in Bank
            /\ req[t].word \in Word
            /\ buf[t] \in Val
        BY MySlotType, RequestType DEF IInv, TypeOK
      <4>2. mem' = [mem EXCEPT ![bank_Id[MySlot(t)]][req[t].word] = buf[t]]
        BY <3>3, MemStore
      <4>3. /\ pending[t] = {<<req[t].word, buf[t]>>}
            /\ pending' = [pending EXCEPT ![t] = {}]
        BY <3>3 DEF Store, Goto, pending, IInv, TypeOK, Placed
      <4>4. QED
        BY <3>1, <4>1, <4>2, <4>3 DEF Abstract!StoreNext, Abstract!Apply
    <3>4. QED BY <3>2, <3>3
  <2>3. QED BY <2>1, <2>2
<1>3. QED BY <1>1, <1>2, Invariance, PTL DEF Spec, Hidden, Abstract!StoreSpec

-----------------------------------------------------------------------------
\* Calls come one after the other: of one worker, or of many in turn.
InTurn == \A t, u \in Thread : pc[t] # "idle" /\ pc[u] # "idle" => t = u

\* What a worker on its own knows: the label it found is still there when it
\* gets to use the slot, and what it copied out is the word it was asked for.
LabelHolds == \A t \in Thread :
    pc[t] \in {"copy", "lock_write", "store", "revisit"}
       => hash[MySlot(t)] = req[t].bank

\* A worker on its own between its visits finds buffer and hash labelled alike.
LEMMA LoneLabel ==
  ASSUME IInv, InTurn, NEW t \in Thread, pc[t] \notin {"idle", "relabel_bank"}
  PROVE  hash[MySlot(t)] = bank_Id[MySlot(t)]
<1>1. MySlot(t) \in Slot
  BY MySlotType DEF IInv
<1>2. ~ExpellerAt(MySlot(t), {"relabel_bank"})
  BY DEF InTurn, ExpellerAt
<1>3. QED BY <1>1, <1>2 DEF IInv, LabelsAgree

LEMMA LoneStep == IInv /\ InTurn /\ LabelHolds /\ [Next]_vars => LabelHolds'
<1> SUFFICES ASSUME IInv, InTurn, LabelHolds, [Next]_vars PROVE LabelHolds'
  OBVIOUS
<1> USE DEF IInv, TypeOK, LabelHolds, InTurn, Placed, slotVars,
            threadVars, flushVars, Goto, MySlot
<1>0. CASE UNCHANGED vars
  BY <1>0 DEF vars
<1>1. CASE LoseServers \/ Cuts
  BY <1>1 DEF LoseServers, Cuts, CutOff
<1>2. ASSUME NEW t \in Thread, NEW r \in Request, Call(t, r) PROVE LabelHolds'
  BY <1>2 DEF Call
<1>3. ASSUME NEW t \in Thread, CopyOut(t) PROVE LabelHolds'
  BY <1>3 DEF CopyOut
<1>4. ASSUME NEW t \in Thread, Visit(t) PROVE LabelHolds'
  BY <1>4 DEF Visit
<1>5. ASSUME NEW t \in Thread, LockWrite(t) PROVE LabelHolds'
  BY <1>5 DEF LockWrite
<1>6. ASSUME NEW t \in Thread, Store(t) PROVE LabelHolds'
  BY <1>6 DEF Store
<1>7. ASSUME NEW t \in Thread, ExpelCheck(t) PROVE LabelHolds'
  BY <1>7, LoneLabel DEF ExpelCheck
<1>8. ASSUME NEW t \in Thread, LockExpel(t) PROVE LabelHolds'
  BY <1>8 DEF LockExpel
<1>9. ASSUME NEW t \in Thread, WriteBack(t) PROVE LabelHolds'
  BY <1>9 DEF WriteBack
<1>10. ASSUME NEW t \in Thread, RelabelHash(t) PROVE LabelHolds'
  BY <1>10 DEF RelabelHash
<1>11. ASSUME NEW t \in Thread, RelabelBank(t) PROVE LabelHolds'
  BY <1>11 DEF RelabelBank
<1>12. ASSUME NEW t \in Thread, Refill(t) PROVE LabelHolds'
  BY <1>12 DEF Refill
<1>13. ASSUME NEW t \in Thread, DoneExpel(t) PROVE LabelHolds'
  BY <1>13, LoneLabel DEF DoneExpel
<1>14. ASSUME NEW t \in Thread, Revisit(t) PROVE LabelHolds'
  BY <1>14 DEF Revisit
<1>15. ASSUME NEW t \in Thread, Return(t) PROVE LabelHolds'
  BY <1>15 DEF Return
<1>16. CASE FlushScan
  BY <1>16 DEF FlushScan
<1>17. CASE FlushTryLock
  BY <1>17 DEF FlushTryLock
<1>18. CASE FlushWrite
  BY <1>18 DEF FlushWrite
<1>19. CASE FlushClear
  BY <1>19 DEF FlushClear
<1>20. QED
  BY <1>0, <1>1, <1>2, <1>3, <1>4, <1>5, <1>6, <1>7, <1>8, <1>9, <1>10, <1>11, <1>12, <1>13, <1>14, <1>15, <1>16, <1>17, <1>18, <1>19
     DEF Next, Cuts, Worker, rewrite_dirty_cache

LEMMA ReadStep ==
  IInv /\ IInv' /\ InTurn /\ LabelHolds /\ ReadIsCurrent /\ [Next]_vars => ReadIsCurrent'
<1> SUFFICES ASSUME IInv, IInv', InTurn, LabelHolds, ReadIsCurrent, [Next]_vars,
                    up', NEW t \in Thread, pc'[t] = "return", req'[t].op = "read"
             PROVE  buf'[t] = mem'[req'[t].bank][req'[t].word]
  BY DEF ReadIsCurrent
<1>1. CASE CopyOut(t)
  <2>1. MySlot(t) \in Slot /\ req[t].bank \in Bank /\ req' = req
    BY <1>1, MySlotType, RequestType DEF IInv, TypeOK, CopyOut
  <2>2. bank_Id[MySlot(t)] = req[t].bank
    BY <1>1, LoneLabel DEF CopyOut, LabelHolds
  <2>3. Filled(MySlot(t))
    BY <1>1 DEF CopyOut, InTurn, Filled, ExpellerAt
  <2>4. mem[req[t].bank] = data[MySlot(t)]
    BY <2>1, <2>2, <2>3 DEF mem, MySlot
  <2>5. mem' = mem
    <3>1. \A u \in Thread : ~Store(u)
      BY <1>1 DEF CopyOut, Store, InTurn
    <3>2. QED BY <3>1, MemStep
  <2>6. buf'[t] = data[MySlot(t)][req[t].word]
    BY <1>1 DEF CopyOut, IInv, TypeOK
  <2>7. QED BY <2>1, <2>4, <2>5, <2>6
<1>2. CASE pc[t] = "return" /\ req'[t] = req[t] /\ buf'[t] = buf[t]
  <2>1. \A u \in Thread : ~Store(u)
    BY <1>2 DEF Store, InTurn
  <2>2. mem' = mem
    BY <2>1, MemStep
  <2>3. up
    BY DEF IInv, TypeOK, Next, Worker, rewrite_dirty_cache, vars, LoseServers, Cuts, CutOff,
       Call, Visit, CopyOut, LockWrite, Store, ExpelCheck, LockExpel, WriteBack,
       RelabelHash, RelabelBank, Refill, DoneExpel, Revisit, Return, FlushScan,
       FlushTryLock, FlushWrite, FlushClear
  <2>4. QED BY <1>2, <2>2, <2>3 DEF ReadIsCurrent
<1>3. \/ CopyOut(t)
      \/ pc[t] = "return" /\ req'[t] = req[t] /\ buf'[t] = buf[t]
  <2> USE DEF IInv, TypeOK, Placed, LabelHolds, InTurn, slotVars,
              threadVars, flushVars, Goto
  <2>0. CASE UNCHANGED vars \/ LoseServers \/ Cuts \/ rewrite_dirty_cache
    BY <2>0 DEF vars, LoseServers, Cuts, CutOff, rewrite_dirty_cache, FlushScan, FlushTryLock,
       FlushWrite, FlushClear
  <2>1. CASE \E r \in Request : Call(t, r)
    BY <2>1 DEF Call
  <2>2. CASE Visit(t) \/ LockWrite(t) \/ ExpelCheck(t) \/ LockExpel(t) \/ WriteBack(t)
    BY <2>2 DEF Visit, LockWrite, ExpelCheck, LockExpel, WriteBack
  <2>3. CASE Store(t)
    BY <2>3 DEF Store
  <2>4. CASE RelabelHash(t) \/ RelabelBank(t) \/ Refill(t) \/ DoneExpel(t) \/ Return(t)
    BY <2>4 DEF RelabelHash, RelabelBank, Refill, DoneExpel, Return
  <2>5. CASE Revisit(t)
    BY <2>5 DEF Revisit
  <2>6. ASSUME NEW u \in Thread, u # t, Worker(u)
        PROVE  pc[t] = "return" /\ req'[t] = req[t] /\ buf'[t] = buf[t]
    BY <2>6 DEF Worker, Call, Visit, CopyOut, LockWrite, Store, ExpelCheck, LockExpel, WriteBack,
       RelabelHash, RelabelBank, Refill, DoneExpel, Revisit, Return
  <2>7. QED
    BY <2>0, <2>1, <2>2, <2>3, <2>4, <2>5, <2>6 DEF Next, Cuts, Worker
<1>4. QED BY <1>1, <1>2, <1>3

LEMMA LoneInit == Init => InTurn /\ LabelHolds /\ ReadIsCurrent
  BY DEF Init, InTurn, LabelHolds, ReadIsCurrent

LEMMA OwnStore == ASSUME IInv, InTurn, LabelHolds PROVE StoreHitsItsBank
  BY LoneLabel DEF LabelHolds, StoreHitsItsBank

\* A step is one thread's.
LEMMA OneMoves ==
  ASSUME TypeOK, [Next]_vars, NEW t \in Thread, NEW u \in Thread, t # u
  PROVE  pc'[t] = pc[t] \/ pc'[u] = pc[u]
<1>1. CASE UNCHANGED pc
  BY <1>1
<1>2. ASSUME NEW v \in Thread, NEW place, pc' = [pc EXCEPT ![v] = place]
      PROVE  pc'[t] = pc[t] \/ pc'[u] = pc[u]
  BY <1>2 DEF TypeOK
<1>3. (UNCHANGED pc) \/ \E v \in Thread : \E place : pc' = [pc EXCEPT ![v] = place]
  BY DEF Next, vars, LoseServers, Cuts, CutOff, threadVars, rewrite_dirty_cache, FlushScan, FlushTryLock,
     FlushWrite, FlushClear, Worker, Goto, Call, Visit, CopyOut, LockWrite, Store, ExpelCheck,
     LockExpel, WriteBack, RelabelHash, RelabelBank, Refill, DoneExpel, Revisit, Return
<1>4. QED BY <1>1, <1>2, <1>3

\* With one worker a write stores into the buffer of the bank it is for: the
\* window between the hit test and the lock in try_visit_cache is harmless.
THEOREM LoneStore == Spec => []LoneStoreHitsItsBank
<1>1. OneWorker => InTurn /\ InTurn'
  BY DEF OneWorker, InTurn
<1>2. Init => (OneWorker => LabelHolds)
  BY LoneInit
<1>3. IInv /\ (OneWorker => LabelHolds) /\ [Next]_vars => (OneWorker => LabelHolds)'
  BY <1>1, LoneStep DEF OneWorker
<1>4. IInv /\ (OneWorker => LabelHolds) => LoneStoreHitsItsBank
  BY <1>1, OwnStore DEF LoneStoreHitsItsBank
<1>5. QED BY <1>2, <1>3, <1>4, Invariance, PTL DEF Spec

\* With one worker every read, hit or miss, returns the logical content of
\* the word, in spite of the flusher running beside it.
THEOREM LoneRead == Spec => []LoneReadIsCurrent
<1>1. OneWorker => InTurn /\ InTurn'
  BY DEF OneWorker, InTurn
<1>2. Init => (OneWorker => LabelHolds) /\ LoneReadIsCurrent
  BY LoneInit DEF LoneReadIsCurrent
<1>3. IInv /\ IInv' /\ (OneWorker => LabelHolds) /\ LoneReadIsCurrent /\ [Next]_vars
        => (OneWorker => LabelHolds)' /\ LoneReadIsCurrent'
  BY <1>1, LoneStep, ReadStep DEF LoneReadIsCurrent, OneWorker
<1>4. QED BY <1>2, <1>3, Invariance, PTL DEF Spec

\* The same for any number of workers whose calls do not overlap: where none is
\* in the cache while another one is, a store hits its bank and a read is
\* current, whatever the flusher does (try_visit_cache, expel_cache_rewrite).
THEOREM CallsInTurn == MCSpec => []SingleIsCurrent
<1> DEFINE J == single => InTurn /\ LabelHolds /\ ReadIsCurrent
<1>1. MCInit => IInv /\ J
  BY InitIInv, LoneInit DEF MCInit
<1>2. IInv /\ J /\ [MCNext]_<<vars, single>> => IInv' /\ J'
  <2>1. SUFFICES ASSUME IInv, J, [MCNext]_<<vars, single>> PROVE IInv' /\ J'
    OBVIOUS
  <2>2. [Next]_vars /\ single' = single
    BY <2>1 DEF MCNext
  <2>3. IInv'
    BY <2>1, <2>2, InvariantStep
  <2>4. ASSUME single PROVE InTurn' /\ LabelHolds' /\ ReadIsCurrent'
    <3>1. InTurn /\ LabelHolds /\ ReadIsCurrent
      BY <2>1, <2>4
    <3>2. LabelHolds' /\ ReadIsCurrent'
      BY <2>1, <2>2, <2>3, <3>1, LoneStep, ReadStep
    <3>3. InTurn'
      <4>1. CASE MCNext
        <5>1. ASSUME NEW t \in Thread, NEW u \in Thread, pc'[t] # "idle", pc'[u] # "idle", t # u
              PROVE  FALSE
          <6>1. TypeOK /\ (pc'[t] = pc[t] \/ pc'[u] = pc[u])
            BY <2>1, <2>2, <5>1, OneMoves DEF IInv
          <6>2. pc[t] = "idle" \/ pc[u] = "idle"
            BY <3>1, <5>1 DEF InTurn
          <6>3. \A v \in Thread : pc[v] = "idle" /\ pc'[v] # "idle"
                                   => \A w \in Thread : pc[w] = "idle"
            BY <2>4, <4>1 DEF MCNext
          <6>4. QED BY <5>1, <6>1, <6>2, <6>3
        <5>2. QED BY <5>1 DEF InTurn
      <4>2. CASE UNCHANGED <<vars, single>>
        BY <3>1, <4>2 DEF InTurn, vars
      <4>3. QED BY <2>1, <4>1, <4>2
    <3>4. QED BY <3>2, <3>3
  <2>5. QED BY <2>2, <2>3, <2>4
<1>3. IInv /\ J => SingleIsCurrent
  BY OwnStore DEF SingleIsCurrent
<1> HIDE DEF J
<1>4. QED BY <1>1, <1>2, <1>3, PTL DEF MCSpec

=============================================================================
