------------------------- MODULE ReplicationProofs -------------------------
(* Proofs about Replication for any number of servers, banks, writes and   *)
(* broken connections.                                                     *)
EXTENDS Replication, WellFoundedInduction, TLAPS

\* Servers are the numbers below SERVERNUM, which stands for "no server".
LEMMA Bounds == /\ SERVERNUM \in Nat \ {0} /\ MaxWrites \in Nat /\ MaxDrops \in Nat
                /\ Server = 0 .. SERVERNUM - 1 /\ None = SERVERNUM /\ Version = 0 .. MaxWrites
                /\ 0 \in Server /\ 0 \in Version /\ None \notin Server
  BY ServerAssumption, BoundAssumption DEF Server, None, Version

LEMMA ZeroVersion == 0 \in Version
  BY BoundAssumption DEF Version

\* find_alive_server returns a CONNECTED server, or None.
LEMMA AliveServer ==
  ASSUME NEW st
  PROVE  \/ find_alive_server(st) = None
         \/ find_alive_server(st) \in Server /\ st[find_alive_server(st)] = "CONNECTED"
<1> DEFINE T == {s \in Server : st[s] = "CONNECTED"}
<1> SUFFICES ASSUME T # {}
             PROVE  find_alive_server(st) \in Server /\ st[find_alive_server(st)] = "CONNECTED"
  BY DEF find_alive_server
<1>1. T \subseteq Nat
  BY Bounds
<1>2. IsWellFoundedOn(OpToRel(<, Nat), Nat)
  BY NatLessThanWellFounded
<1>3. PICK x \in T : \A y \in T : ~(<<y, x>> \in OpToRel(<, Nat))
  <2> HIDE DEF T
  <2> QED BY <1>1, <1>2, WFMin
<1>4. ASSUME NEW r \in T PROVE ~(r < x)
  <2>1. ~(<<r, x>> \in OpToRel(<, Nat)) /\ r \in Nat /\ x \in Nat
    BY <1>1, <1>3
  <2>2. QED BY <2>1 DEF OpToRel
<1>a. \A m, n \in Nat : ~(n < m) => m <= n
  OBVIOUS
<1>b. \A r \in T : x <= r
  <2> HIDE DEF T
  <2> QED BY <1>1, <1>3, <1>4, <1>a, Zenon
<1> DEFINE First(s) == /\ st[s] = "CONNECTED"
                       /\ \A r \in Server : st[r] = "CONNECTED" => s <= r
<1>5. x \in Server /\ First(x)
  BY <1>3, <1>b
<1>6. find_alive_server(st) = CHOOSE s \in Server : First(s)
  BY <1>5 DEF find_alive_server
<1>7. (CHOOSE s \in Server : First(s)) \in Server /\ First(CHOOSE s \in Server : First(s))
  <2> HIDE DEF First
  <2> QED BY <1>5
<1>8. QED BY <1>6, <1>7

LEMMA InitInv == Init => IInv
<1> SUFFICES ASSUME Init PROVE IInv
  OBVIOUS
<1>1. TypeOK
  <2>1. tasks \in [Server -> Seq(Bank)] /\ i \in [Bank -> 0 .. SERVERNUM] /\ drops \in 0 .. MaxDrops
    BY ServerAssumption, BoundAssumption DEF Init
  <2>2. QED BY <2>1, Bounds DEF Init, TypeOK, ServerState, ThreadState
<1>2. IntactServes /\ IntactMapped /\ ReadIsCurrent
  BY DEF Init, IntactServes, IntactMapped, ReadIsCurrent
<1>3. RecoveryPlaced
  BY DEF Init, RecoveryPlaced, Helped
<1>4. IntactProgress
  BY DEF Init, IntactProgress
<1>5. QED BY <1>1, <1>2, <1>3, <1>4 DEF IInv

LEMMA TypeStep == TypeOK /\ RecoveryPlaced /\ [Next]_vars => TypeOK'
<1> SUFFICES ASSUME TypeOK, RecoveryPlaced, [Next]_vars PROVE TypeOK'
  OBVIOUS
<1> USE DEF TypeOK
<1>0. CASE UNCHANGED vars
  BY <1>0 DEF vars, procVars, recVars, recLocals
<1>1. ASSUME NEW x \in Server, Drop(x) PROVE TypeOK'
  <2>1. drops' \in 0 .. MaxDrops
    BY <1>1, BoundAssumption DEF Drop
  <2>2. th' \in [Bank -> [Server -> ThreadState]]
    BY <1>1 DEF Drop, ThreadState
  <2>3. UNCHANGED recLocals \/ NewRecovery(x)
    BY <1>1 DEF Drop, recLocals
  <2>4. /\ rsrv' \in Server /\ active' \in Server /\ single' \in BOOLEAN
        /\ k' \in Nat /\ context' \in Version
    <3>1. CASE UNCHANGED recLocals
      BY <3>1 DEF recLocals
    <3>2. CASE NewRecovery(x)
      BY <3>2, ZeroVersion DEF NewRecovery
    <3>3. QED BY <2>3, <3>1, <3>2
  <2>5. pc' \in [Bank -> {"idle", "fan", "join", "hung"} \cup Reading]
    BY <1>1 DEF Drop
  <2>6. QED BY <1>1, <2>1, <2>2, <2>4, <2>5 DEF Drop
<1>2. CASE GetStuck
  BY <1>2, Bounds DEF GetStuck, procVars, recVars, recLocals
<1>3. ASSUME NEW c \in Bank, StartWrite(c) PROVE TypeOK'
  <2>1. i' \in [Bank -> 0 .. SERVERNUM]
    BY <1>3, ServerAssumption DEF StartWrite, Goto, clientUnchanged, recVars, recLocals
  <2>2. last' \in [Bank -> Version]
    BY <1>3, BoundAssumption DEF StartWrite, Goto, clientUnchanged, recVars, recLocals, Version
  <2>3. QED BY <1>3, <2>1, <2>2 DEF StartWrite, Goto, clientUnchanged, recVars, recLocals
<1>4. ASSUME NEW c \in Bank, SkipServer(c) PROVE TypeOK'
  <2>1. i' \in [Bank -> 0 .. SERVERNUM]
    BY <1>4, ServerAssumption DEF SkipServer, NextServer, clientUnchanged, recVars, recLocals
  <2>2. QED BY <1>4, <2>1 DEF SkipServer, NextServer, clientUnchanged, recVars, recLocals
<1>5. ASSUME NEW c \in Bank, QueueTask(c) PROVE TypeOK'
  <2>1. i' \in [Bank -> 0 .. SERVERNUM]
    BY <1>5, ServerAssumption DEF QueueTask, NextServer, clientUnchanged, recVars, recLocals
  <2>2. i[c] \in Server
    BY <1>5, ServerAssumption DEF QueueTask, NextServer, clientUnchanged, recVars, recLocals, Server
  <2>3. tasks' \in [Server -> Seq(Bank)]
    BY <1>5, <2>2 DEF QueueTask, NextServer, clientUnchanged, recVars, recLocals
  <2>4. QED BY <1>5, <2>1, <2>2, <2>3 DEF QueueTask, NextServer, clientUnchanged, recVars, recLocals
<1>6. ASSUME NEW c \in Bank, StartThread(c) PROVE TypeOK'
  <2>1. i' \in [Bank -> 0 .. SERVERNUM]
    BY <1>6, ServerAssumption DEF StartThread, NextServer, clientUnchanged, recVars, recLocals
  <2>2. i[c] \in Server
    BY <1>6, ServerAssumption DEF StartThread, NextServer, clientUnchanged, recVars, recLocals, Server
  <2>3. th' \in [Bank -> [Server -> ThreadState]]
    BY <1>6, <2>2 DEF StartThread, NextServer, clientUnchanged, recVars, recLocals, ThreadState
  <2>4. QED BY <1>6, <2>1, <2>2, <2>3 DEF StartThread, NextServer, clientUnchanged, recVars, recLocals
<1>7. ASSUME NEW c \in Bank, NEW x \in Server, PostWrite(c, x) PROVE TypeOK'
  <2>1. th' \in [Bank -> [Server -> ThreadState]]
    BY <1>7 DEF PostWrite, clientUnchanged, recVars, recLocals, ThreadState
  <2>2. QED BY <1>7, <2>1 DEF PostWrite, clientUnchanged, recVars, recLocals
<1>8. ASSUME NEW c \in Bank, NEW x \in Server, CompleteWrite(c, x) PROVE TypeOK'
  BY <1>8, Bounds DEF CompleteWrite, clientUnchanged, recVars, recLocals, ThreadState
<1>9. ASSUME NEW c \in Bank, StartJoin(c) PROVE TypeOK'
  <2>1. i' \in [Bank -> 0 .. SERVERNUM]
    BY <1>9, ServerAssumption DEF StartJoin, Goto, clientUnchanged, recVars, recLocals
  <2>2. QED BY <1>9, <2>1 DEF StartJoin, Goto, clientUnchanged, recVars, recLocals
<1>10. ASSUME NEW c \in Bank, Join(c) PROVE TypeOK'
  <2>1. i' \in [Bank -> 0 .. SERVERNUM]
    BY <1>10, ServerAssumption DEF Join, NextServer, clientUnchanged, recVars, recLocals
  <2>2. i[c] \in Server
    BY <1>10, ServerAssumption DEF Join, NextServer, clientUnchanged, recVars, recLocals, Server
  <2>3. QED BY <1>10, <2>1, <2>2 DEF Join, NextServer, clientUnchanged, recVars, recLocals, ServerState
<1>11. ASSUME NEW c \in Bank, JoinGarbage(c) PROVE TypeOK'
  <2>1. i' \in [Bank -> 0 .. SERVERNUM]
    BY <1>11, ServerAssumption DEF JoinGarbage, NextServer, clientUnchanged, recVars, recLocals
  <2>2. i[c] \in Server
    BY <1>11, ServerAssumption DEF JoinGarbage, NextServer, clientUnchanged, recVars, recLocals, Server
  <2>3. QED BY <1>11, <2>1, <2>2 DEF JoinGarbage, NextServer, clientUnchanged, recVars, recLocals, ServerState
<1>12. ASSUME NEW c \in Bank, FinishWrite(c) PROVE TypeOK'
  <2>1. i' \in [Bank -> 0 .. SERVERNUM]
    BY <1>12, ServerAssumption DEF FinishWrite, Goto, clientUnchanged, recVars, recLocals
  <2>2. th' \in [Bank -> [Server -> ThreadState]]
    BY <1>12 DEF FinishWrite, Goto, clientUnchanged, recVars, recLocals, ThreadState
  <2>3. QED BY <1>12, <2>1, <2>2 DEF FinishWrite, Goto, clientUnchanged, recVars, recLocals
<1>13. ASSUME NEW c \in Bank, NEW x \in Server, StartRead(c, x) PROVE TypeOK'
  BY <1>13, Bounds DEF StartRead, Goto, clientUnchanged, recVars, recLocals, Reading
<1>14. ASSUME NEW c \in Bank, ChooseServer(c) PROVE TypeOK'
  BY <1>14, Bounds, AliveServer DEF ChooseServer, ReadFrom, Goto, clientUnchanged, recVars, recLocals, Reading
<1>15. ASSUME NEW c \in Bank, PostRead(c) PROVE TypeOK'
  BY <1>15, Bounds DEF PostRead, Goto, clientUnchanged, recVars, recLocals, Reading
<1>16. ASSUME NEW c \in Bank, FailRead(c) PROVE TypeOK'
  BY <1>16, Bounds, AliveServer DEF FailRead, ReadFrom, Goto, clientUnchanged, recVars, recLocals, ServerState, Reading
<1>17. ASSUME NEW c \in Bank, NEW v \in Version, CompleteRead(c, v) PROVE TypeOK'
  BY <1>17, Bounds DEF CompleteRead, Goto, clientUnchanged, recVars, recLocals, Reading
<1>18. ASSUME NEW c \in Bank, FinishRead(c) PROVE TypeOK'
  BY <1>18, Bounds DEF FinishRead, Goto, clientUnchanged, recVars, recLocals
<1>19. CASE Reconnect
  BY <1>19, Bounds DEF Reconnect, recUnchanged, recLocals
<1>20. CASE EnterRecover
  BY <1>20, Bounds DEF EnterRecover, recUnchanged, recLocals, ServerState
<1>21. CASE CountAlive
  BY <1>21, Bounds DEF CountAlive, recUnchanged, recLocals
<1>22. CASE Remalloc
  BY <1>22, Bounds DEF Remalloc, recUnchanged, recLocals, ThreadState
<1>23. CASE ChooseActive
  <2>1. active' \in Server /\ state' \in [Server -> ServerState]
    BY <1>23, AliveServer DEF ChooseActive, recUnchanged, recLocals, ServerState
  <2>2. QED BY <1>23, <2>1 DEF ChooseActive, recUnchanged, recLocals, Helped
<1>24. CASE CopyBanks
  BY <1>24, Bounds DEF CopyBanks, recUnchanged, recLocals, Helped
<1>25. ASSUME NEW x \in Server, ReplayFail(x) PROVE TypeOK'
  BY <1>25, Bounds DEF ReplayFail, recUnchanged, recLocals, ServerState
<1>26. ASSUME NEW x \in Server, WaitForever(x) PROVE TypeOK'
  BY <1>26, Bounds DEF WaitForever, recUnchanged, recLocals
<1>27. ASSUME NEW x \in Server, rpc = "replay", k < Len(tasks[active]), ReplayRead(x) PROVE TypeOK'
  <2>1. Task \in Bank
    BY <1>27 DEF ReplayRead, recUnchanged, recLocals, Task
  <2>2. context' \in Version
    BY <1>27, <2>1 DEF ReplayRead, recUnchanged, recLocals
  <2>3. QED BY <1>27, <2>1, <2>2 DEF ReplayRead, recUnchanged, recLocals, Helped
<1>28. CASE ReplayCrash
  BY <1>28, Bounds DEF ReplayCrash, recUnchanged, recLocals
<1>29. CASE ReplayActive
  <2>1. CASE ReplayFail(active) BY <2>1, <1>25
  <2>2. CASE WaitForever(active) BY <2>2, <1>26
  <2>3. Task \in Bank
    BY <1>29 DEF ReplayActive, Task, RecoveryPlaced
  <2>4. [copy EXCEPT ![active][Task] = context] \in [Server -> [Bank -> Version]]
    BY <2>3
  <2>5. QED BY <1>29, <2>1, <2>2, <2>4 DEF ReplayActive, recUnchanged, recLocals, Helped
<1>30. CASE ReplayServer
  <2>1. CASE ReplayFail(rsrv) BY <2>1, <1>25
  <2>2. CASE WaitForever(rsrv) BY <2>2, <1>26
  <2>3. Task \in Bank
    BY <1>30 DEF ReplayServer, Task, RecoveryPlaced
  <2>4. [copy EXCEPT ![rsrv][Task] = context] \in [Server -> [Bank -> Version]]
    BY <2>3
  <2>5. k + 1 \in Nat
    OBVIOUS
  <2>6. QED BY <1>30, <2>1, <2>2, <2>4, <2>5 DEF ReplayServer, recUnchanged, recLocals, Helped
<1>31. CASE EndReplay
  BY <1>31, Bounds DEF EndReplay, recUnchanged, recLocals, Helped
<1>32. CASE FreeTasks
  BY <1>32, Bounds DEF FreeTasks, recUnchanged, recLocals, Helped
<1>33. CASE ServeActive
  BY <1>33, Bounds DEF ServeActive, Serve, recUnchanged, recLocals, ServerState, Helped
<1>34. CASE ServeRecovered
  BY <1>34, Bounds DEF ServeRecovered, Serve, recUnchanged, recLocals, ServerState
<1>35. CASE CleanRecover
  BY <1>35, Bounds DEF CleanRecover, recUnchanged, recLocals
<1>36. CASE LeaveRecovery
  BY <1>36, Bounds DEF LeaveRecovery, NewRecovery, recUnchanged, recLocals
<1>37. QED
  BY <1>0, <1>1, <1>2, <1>3, <1>4, <1>5, <1>6, <1>7, <1>8, <1>9, <1>10, <1>11, <1>12, <1>13, <1>14, <1>15, <1>16, <1>17, <1>18, <1>19, <1>20, <1>21, <1>22, <1>23, <1>24, <1>25, <1>26, <1>27, <1>28, <1>29, <1>30, <1>31, <1>32, <1>33, <1>34, <1>35, <1>36
     DEF Next, Write, Read, FanOut, Recovery, ReplayTask, ReplayActive, ReplayServer, RemallocCutOff

\* The steps that change the state or the connection of a server.
LEMMA ServerFrame ==
  ASSUME Next
  PROVE  \/ UNCHANGED <<state, conn, intact>>
         \/ \E c \in Bank : Join(c) \/ JoinGarbage(c) \/ FailRead(c)
         \/ \E x \in Server : Drop(x)
         \/ Reconnect \/ EnterRecover \/ ChooseActive \/ ServeActive \/ ServeRecovered
         \/ ReplayTask \/ ReplayActive \/ ReplayServer
<1>1. ASSUME NEW c \in Bank, Write(c)
      PROVE  UNCHANGED <<state, conn, intact>> \/ Join(c) \/ JoinGarbage(c)
  BY <1>1 DEF Write, StartWrite, FanOut, SkipServer, QueueTask, StartThread, PostWrite,
              CompleteWrite, StartJoin, FinishWrite, clientUnchanged
<1>2. ASSUME NEW c \in Bank, Read(c)
      PROVE  UNCHANGED <<state, conn, intact>> \/ FailRead(c)
  BY <1>2 DEF Read, StartRead, ChooseServer, PostRead, CompleteRead, FinishRead, clientUnchanged
<1>3. ASSUME Recovery
      PROVE  \/ UNCHANGED <<state, conn, intact>>
             \/ Reconnect \/ EnterRecover \/ ChooseActive \/ ServeActive \/ ServeRecovered
             \/ ReplayTask \/ ReplayActive \/ ReplayServer
  BY <1>3 DEF Recovery, CountAlive, Remalloc, RemallocCutOff, WaitForever, CopyBanks, EndReplay,
              FreeTasks, CleanRecover, LeaveRecovery
<1>4. GetStuck => UNCHANGED <<state, conn, intact>>
  BY DEF GetStuck
<1>5. QED BY <1>1, <1>2, <1>3, <1>4 DEF Next

LEMMA ServesStep == IInv /\ [Next]_vars => IntactServes'
<1> SUFFICES ASSUME TypeOK, IntactServes, IntactMapped, RecoveryPlaced, IntactProgress,
                    [Next]_vars
             PROVE  IntactServes'
  BY DEF IInv
<1> USE DEF IntactServes
<1>q. CASE UNCHANGED <<state, conn, intact>>
  BY <1>q
<1>0. ASSUME NEW s \in Server, ~conn[Trans(s)] PROVE ~intact[s]
  BY <1>0 DEF Trans, IntactMapped
<1>1. ASSUME NEW c \in Bank, Join(c) PROVE IntactServes'
  <2>1. i[c] \in Server
    BY <1>1, ServerAssumption DEF Join, TypeOK, Server
  <2>2. th[c][i[c]] = "fail" => ~intact[i[c]]
    BY <1>1, <2>1 DEF Join, IntactProgress, Started
  <2>3. QED BY <1>1, <2>1, <2>2 DEF Join, clientUnchanged, TypeOK
<1>2. ASSUME NEW c \in Bank, JoinGarbage(c) PROVE IntactServes'
  <2>1. i[c] \in Server
    BY <1>2, ServerAssumption DEF JoinGarbage, TypeOK, Server
  <2>2. ~intact[i[c]]
    BY <1>2, <2>1 DEF JoinGarbage, IntactProgress, Started
  <2>3. QED BY <1>2, <2>1, <2>2 DEF JoinGarbage, clientUnchanged, TypeOK
<1>3. ASSUME NEW c \in Bank, FailRead(c) PROVE IntactServes'
  <2>1. srv[c] \in Server /\ ~intact[srv[c]]
    BY <1>3, <1>0 DEF FailRead, TypeOK
  <2>2. QED BY <1>3, <2>1 DEF FailRead, clientUnchanged, TypeOK
<1>4. ASSUME NEW x \in Server, Drop(x) PROVE IntactServes'
  BY <1>4 DEF Drop, TypeOK
<1>5. CASE Reconnect
  BY <1>5 DEF Reconnect, TypeOK
<1>6. CASE EnterRecover
  <2>1. ~intact[rsrv]
    BY <1>6 DEF EnterRecover, RecoveryPlaced
  <2>2. QED BY <1>6, <2>1 DEF EnterRecover, TypeOK
<1>7. CASE ChooseActive
  BY <1>7, AliveServer DEF ChooseActive, TypeOK
<1>8. CASE ServeActive
  BY <1>8 DEF ServeActive, Serve, TypeOK
<1>9. CASE ServeRecovered
  BY <1>9 DEF ServeRecovered, Serve, TypeOK
<1>10. ASSUME NEW x \in Server, ReplayFail(x) PROVE IntactServes'
  <2>1. ~intact[x]
    BY <1>10, <1>0 DEF ReplayFail
  <2>2. QED BY <1>10, <2>1 DEF ReplayFail, TypeOK
<1>11. CASE ReplayTask
  BY <1>11, <1>10, <1>q DEF ReplayTask, ReplayCrash, ReplayRead, WaitForever
<1>12. CASE ReplayActive
  BY <1>12, <1>10, <1>q DEF ReplayActive, WaitForever, TypeOK
<1>13. CASE ReplayServer
  BY <1>13, <1>10, <1>q DEF ReplayServer, WaitForever, TypeOK
<1>14. CASE UNCHANGED vars
  BY <1>14, <1>q DEF vars
<1>15. QED
  BY ServerFrame, <1>q, <1>1, <1>2, <1>3, <1>4, <1>5, <1>6, <1>7, <1>8, <1>9, <1>11, <1>12,
     <1>13, <1>14

LEMMA PlacedStep == IInv /\ [Next]_vars => RecoveryPlaced'
<1> SUFFICES ASSUME TypeOK, RecoveryPlaced, [Next]_vars PROVE RecoveryPlaced'
  BY DEF IInv
<1> USE DEF RecoveryPlaced, TypeOK
<1>q. CASE UNCHANGED <<rpc, rsrv, active, k, tasks, intact>>
  BY <1>q
<1>r. ASSUME UNCHANGED <<rsrv, active, k, tasks, intact>>, rpc # "none",
             rpc' \notin {"replay_active", "replay_server"}, rpc' \in Helped => rpc \in Helped
      PROVE  RecoveryPlaced'
  BY <1>r
<1>1. ASSUME NEW x \in Server, Drop(x) PROVE RecoveryPlaced'
  <2>1. CASE in_recovery
    BY <1>1, <2>1 DEF Drop, recLocals
  <2>2. CASE ~in_recovery
    BY <1>1, <2>2 DEF Drop, NewRecovery, Helped
  <2>3. QED BY <2>1, <2>2
<1>2. ASSUME NEW c \in Bank, QueueTask(c) PROVE RecoveryPlaced'
  <2>1. i[c] \in Server
    BY <1>2, ServerAssumption DEF QueueTask, Server
  <2>2. Len(tasks'[active]) >= Len(tasks[active])
    BY <1>2, <2>1 DEF QueueTask
  <2>3. Len(tasks[active]) \in Nat /\ Len(tasks'[active]) \in Nat
    BY <1>2, <2>1 DEF QueueTask
  <2>4. UNCHANGED <<rpc, rsrv, active, k, intact>>
    BY <1>2 DEF QueueTask, clientUnchanged, recVars, recLocals
  <2>5. QED BY <2>2, <2>3, <2>4
<1>3. ASSUME NEW c \in Bank, Write(c) PROVE RecoveryPlaced'
  BY <1>2, <1>3, <1>q
     DEF Write, StartWrite, FanOut, SkipServer, StartThread, PostWrite, CompleteWrite, StartJoin,
         Join, JoinGarbage, FinishWrite, clientUnchanged, recVars, recLocals
<1>4. ASSUME NEW c \in Bank, Read(c) PROVE RecoveryPlaced'
  BY <1>4, <1>q DEF Read, StartRead, ChooseServer, PostRead, FailRead, CompleteRead, FinishRead,
                    clientUnchanged, recVars, recLocals
<1>5. CASE ChooseActive
  <2>1. CASE find_alive_server(state) = None
    BY <1>5, <2>1, <1>q DEF ChooseActive
  <2>2. CASE find_alive_server(state) # None
    <3>1. /\ find_alive_server(state) \in Server
          /\ rpc' = "copy" /\ active' = find_alive_server(state) /\ rsrv' = rsrv
          /\ intact' = [intact EXCEPT ![find_alive_server(state)] = FALSE]
      BY <1>5, <2>2, AliveServer DEF ChooseActive
    <3>2. ~intact[rsrv]
      BY <1>5 DEF ChooseActive
    <3>3. QED BY <3>1, <3>2
  <2>3. QED BY <2>1, <2>2
<1>6. CASE ReplayTask
  BY <1>6, <1>q, <1>r
     DEF ReplayTask, ReplayCrash, ReplayRead, ReplayFail, WaitForever, recLocals, Helped
<1>7. CASE ReplayActive
  BY <1>7 DEF ReplayActive, ReplayFail, WaitForever, recLocals, Helped
<1>8. CASE ReplayServer
  BY <1>8 DEF ReplayServer, ReplayFail, WaitForever, recLocals, Helped
<1>9. CASE Reconnect \/ EnterRecover \/ CountAlive \/ Remalloc \/ RemallocCutOff
  BY <1>9, <1>r DEF Reconnect, EnterRecover, CountAlive, Remalloc, RemallocCutOff, WaitForever,
                    recLocals, Helped
<1>10. CASE CopyBanks \/ EndReplay \/ FreeTasks \/ ServeActive \/ ServeRecovered \/ CleanRecover
  BY <1>10, <1>r DEF CopyBanks, EndReplay, FreeTasks, ServeActive, ServeRecovered, Serve,
                     CleanRecover, recLocals, Helped
<1>11. CASE LeaveRecovery
  BY <1>11 DEF LeaveRecovery, Helped
<1>12. CASE GetStuck \/ UNCHANGED vars
  BY <1>12, <1>q DEF GetStuck, vars, recVars, recLocals
<1>13. QED
  BY <1>1, <1>3, <1>4, <1>5, <1>6, <1>7, <1>8, <1>9, <1>10, <1>11, <1>12 DEF Next, Recovery

LEMMA MappedStep == IInv /\ [Next]_vars => IntactMapped'
<1> SUFFICES ASSUME TypeOK, IntactMapped, RecoveryPlaced, [Next]_vars PROVE IntactMapped'
  BY DEF IInv
<1> USE DEF IntactMapped
<1>1. CASE Remalloc
  BY <1>1 DEF Remalloc, RecoveryPlaced, TypeOK
<1>2. ASSUME NEW x \in Server, Drop(x) PROVE IntactMapped'
  BY <1>2 DEF Drop, TypeOK
<1>3. CASE ChooseActive
  BY <1>3, AliveServer DEF ChooseActive, TypeOK
<1>q. CASE UNCHANGED <<nobank, intact>>
  BY <1>q
<1>4. ASSUME NEW c \in Bank, Write(c) PROVE IntactMapped'
  BY <1>4, <1>q DEF Write, StartWrite, FanOut, SkipServer, QueueTask, StartThread, PostWrite,
                    CompleteWrite, StartJoin, Join, JoinGarbage, FinishWrite, clientUnchanged
<1>5. ASSUME NEW c \in Bank, Read(c) PROVE IntactMapped'
  BY <1>5, <1>q DEF Read, StartRead, ChooseServer, PostRead, FailRead, CompleteRead, FinishRead,
                    clientUnchanged
<1>6. CASE ReplayTask \/ ReplayActive \/ ReplayServer
  BY <1>6, <1>q DEF ReplayTask, ReplayActive, ReplayServer, ReplayCrash, ReplayRead, ReplayFail,
                    WaitForever
<1>7. CASE \/ Reconnect \/ EnterRecover \/ CountAlive \/ RemallocCutOff \/ CopyBanks \/ EndReplay
           \/ FreeTasks \/ ServeActive \/ ServeRecovered \/ CleanRecover \/ LeaveRecovery
  BY <1>7, <1>q DEF Reconnect, EnterRecover, CountAlive, RemallocCutOff, WaitForever, CopyBanks,
                    EndReplay, FreeTasks, ServeActive, ServeRecovered, Serve, CleanRecover,
                    LeaveRecovery
<1>8. CASE GetStuck \/ UNCHANGED vars
  BY <1>8, <1>q DEF GetStuck, vars
<1>9. QED
  BY <1>1, <1>2, <1>3, <1>4, <1>5, <1>6, <1>7, <1>8 DEF Next, Recovery

\* Steps that leave the writing of banks to intact servers alone.
LEMMA ProgressFrame ==
  ASSUME IntactProgress, UNCHANGED <<pc, i, th, copy, last, intact>>
  PROVE  IntactProgress'
  BY DEF IntactProgress

LEMMA ProgressStep == IInv /\ [Next]_vars => IntactProgress'
<1> SUFFICES ASSUME TypeOK, IntactServes, IntactMapped, RecoveryPlaced, IntactProgress,
                    [Next]_vars
             PROVE  IntactProgress'
  BY DEF IInv
<1> USE DEF IntactProgress, TypeOK, Started
<1>a. ASSUME NEW c \in Bank, i[c] < SERVERNUM PROVE i[c] \in Server
  BY <1>a, ServerAssumption DEF Server
<1>b. \A s \in Server : s \in Nat /\ s < SERVERNUM
  BY ServerAssumption DEF Server
<1>1. ASSUME NEW x \in Server, Drop(x) PROVE IntactProgress'
  BY <1>1 DEF Drop
<1>2. ASSUME NEW c \in Bank, StartWrite(c) PROVE IntactProgress'
  BY <1>2, <1>b DEF StartWrite, Goto, clientUnchanged
<1>3. ASSUME NEW c \in Bank, SkipServer(c) PROVE IntactProgress'
  <2>1. i[c] \in Server /\ ~intact[i[c]]
    BY <1>3, <1>a DEF SkipServer, IntactServes
  <2>2. QED BY <1>3, <2>1, <1>b DEF SkipServer, NextServer, clientUnchanged
<1>4. ASSUME NEW c \in Bank, QueueTask(c) PROVE IntactProgress'
  <2>1. i[c] \in Server /\ ~intact[i[c]]
    BY <1>4, <1>a DEF QueueTask, IntactServes
  <2>2. QED BY <1>4, <2>1, <1>b DEF QueueTask, NextServer, clientUnchanged
<1>5. ASSUME NEW c \in Bank, StartThread(c) PROVE IntactProgress'
  <2>1. i[c] \in Server
    BY <1>5, <1>a DEF StartThread
  <2>2. QED BY <1>5, <2>1, <1>b DEF StartThread, NextServer, clientUnchanged
<1>6. ASSUME NEW c \in Bank, NEW x \in Server, PostWrite(c, x) PROVE IntactProgress'
  <2>1. PICK r \in {"fail", "posted", "ok"} :
           /\ r = "fail" <=> ~conn[Trans(x)]
           /\ r = "ok" => nobank[x] \/ th[c][x] = "stale"
           /\ th' = [th EXCEPT ![c][x] = r]
    BY <1>6 DEF PostWrite
  <2>a. th[c][x] \in {"start", "stale"} /\ (x < i[c] \/ i[c] <= x)
    BY <1>6, <1>b DEF PostWrite
  <2>b. intact[x] => th[c][x] = "start"
    BY <2>a
  <2>2. intact[x] => th[c][x] = "start" /\ r = "posted"
    BY <2>1, <2>b DEF Trans, IntactServes, IntactMapped
  <2>3. UNCHANGED <<pc, i, copy, last, intact>>
    BY <1>6 DEF PostWrite, clientUnchanged
  <2>4. QED BY <1>6, <2>1, <2>2, <2>3 DEF PostWrite
<1>7. ASSUME NEW c \in Bank, NEW x \in Server, CompleteWrite(c, x) PROVE IntactProgress'
  BY <1>7 DEF CompleteWrite, clientUnchanged
<1>8. ASSUME NEW c \in Bank, StartJoin(c) PROVE IntactProgress'
  BY <1>8, <1>b DEF StartJoin, Goto, clientUnchanged
<1>9. ASSUME NEW c \in Bank, Join(c) PROVE IntactProgress'
  <2>1. i[c] \in Server
    BY <1>9, <1>a DEF Join
  <2>2. intact[i[c]] => th[c][i[c]] = "ok"
    BY <1>9, <2>1 DEF Join
  <2>3. /\ UNCHANGED <<pc, th, copy, last, intact>>
        /\ i' = [i EXCEPT ![c] = @ + 1] /\ pc[c] = "join"
    BY <1>9 DEF Join, NextServer, clientUnchanged
  <2>4. i[c] + 1 \in Nat /\ \A s \in Server : s < i[c] + 1 => s < i[c] \/ s = i[c]
    BY <2>1, <1>b
  <2>5. \A s \in Server : intact[s] /\ s < i'[c] => th[c][s] = "ok"
    BY <2>2, <2>3, <2>4
  <2>6. QED BY <2>3, <2>5
<1>10. ASSUME NEW c \in Bank, JoinGarbage(c) PROVE IntactProgress'
  <2>1. i[c] \in Server
    BY <1>10, <1>a DEF JoinGarbage
  <2>2. /\ UNCHANGED <<pc, th, copy, last, intact>>
        /\ i' = [i EXCEPT ![c] = @ + 1] /\ pc[c] = "join" /\ 4 * i[c] >= SERVERNUM
        /\ th[c][i[c]] = "none"
    BY <1>10 DEF JoinGarbage, NextServer, clientUnchanged
  <2>3. i[c] + 1 \in Nat /\ \A s \in Server : s < i[c] + 1 => s < i[c] \/ s = i[c]
    BY <2>1, <1>b
  <2>4. QED BY <2>1, <2>2, <2>3, <1>b
<1>11. ASSUME NEW c \in Bank, FinishWrite(c) PROVE IntactProgress'
  BY <1>11, <1>b DEF FinishWrite, Goto, clientUnchanged
<1>12. ASSUME NEW c \in Bank, Read(c) PROVE IntactProgress'
  <2>1. /\ UNCHANGED <<i, th, copy, last, intact>>
        /\ pc[c] \notin {"join", "fan"}
        /\ \E p : p \notin {"join", "fan"} /\ pc' = [pc EXCEPT ![c] = p]
    BY <1>12 DEF Read, StartRead, ChooseServer, ReadFrom, PostRead, FailRead, CompleteRead,
                 FinishRead, Goto, clientUnchanged
  <2>2. QED BY <2>1
<1>13. CASE Remalloc
  BY <1>13 DEF Remalloc, RecoveryPlaced, recUnchanged
<1>14. CASE ChooseActive
  <2>1. UNCHANGED <<pc, i, th, copy, last>> /\ \A s \in Server : intact'[s] => intact[s]
    <3>1. CASE find_alive_server(state) = None
      BY <1>14, <3>1 DEF ChooseActive, recUnchanged
    <3>2. CASE find_alive_server(state) # None
      <4>1. /\ UNCHANGED <<pc, i, th, copy, last>>
            /\ intact' = [intact EXCEPT ![find_alive_server(state)] = FALSE]
        BY <1>14, <3>2 DEF ChooseActive, recUnchanged
      <4>2. QED BY <4>1
    <3>3. QED BY <3>1, <3>2
  <2>2. QED BY <2>1
<1>15. ASSUME NEW x \in Server, ~intact[x], \A s \in Server : s # x => copy'[s] = copy[s],
              UNCHANGED <<pc, i, th, last, intact>>
       PROVE  IntactProgress'
  <2>1. \A s \in Server : intact[s] => copy'[s] = copy[s]
    BY <1>15
  <2>2. QED BY <1>15, <2>1
<1>16. CASE ReplayActive
  <2>1. ~intact[active]
    BY <1>16 DEF ReplayActive, RecoveryPlaced, Helped
  <2>2. /\ \A s \in Server : s # active => copy'[s] = copy[s]
        /\ UNCHANGED <<pc, i, th, last, intact>>
    BY <1>16 DEF ReplayActive, ReplayFail, WaitForever, recUnchanged
  <2>3. QED BY <2>1, <2>2, <1>15
<1>17. CASE ReplayServer
  <2>1. ~intact[rsrv]
    BY <1>17 DEF ReplayServer, RecoveryPlaced
  <2>2. /\ \A s \in Server : s # rsrv => copy'[s] = copy[s]
        /\ UNCHANGED <<pc, i, th, last, intact>>
    BY <1>17 DEF ReplayServer, ReplayFail, WaitForever, recUnchanged
  <2>3. QED BY <2>1, <2>2, <1>15
<1>18. CASE ReplayTask
  BY <1>18, ProgressFrame DEF ReplayTask, ReplayCrash, ReplayRead, ReplayFail, WaitForever,
                              recUnchanged
<1>19. CASE \/ Reconnect \/ EnterRecover \/ CountAlive \/ RemallocCutOff \/ CopyBanks \/ EndReplay
            \/ FreeTasks \/ ServeActive \/ ServeRecovered \/ CleanRecover \/ LeaveRecovery
  BY <1>19, ProgressFrame
     DEF Reconnect, EnterRecover, CountAlive, RemallocCutOff, WaitForever, CopyBanks, EndReplay,
         FreeTasks, ServeActive, ServeRecovered, Serve, CleanRecover, LeaveRecovery, recUnchanged
<1>20. CASE GetStuck \/ UNCHANGED vars
  BY <1>20, ProgressFrame DEF GetStuck, vars, procVars
<1>21. QED
  BY <1>1, <1>2, <1>3, <1>4, <1>5, <1>6, <1>7, <1>8, <1>9, <1>10, <1>11, <1>12, <1>13, <1>14,
     <1>16, <1>17, <1>18, <1>19, <1>20 DEF Next, Write, FanOut, Recovery

LEMMA ReadStep == IInv /\ [Next]_vars => ReadIsCurrent'
<1> SUFFICES ASSUME TypeOK, IntactMapped, IntactProgress, ReadIsCurrent, [Next]_vars
             PROVE  ReadIsCurrent'
  BY DEF IInv
<1> USE DEF ReadIsCurrent, TypeOK
<1>q. ASSUME UNCHANGED <<srv, got, last>>, \A s \in Server : intact'[s] => intact[s],
             \A b \in Bank : pc'[b] = "got" => pc[b] = "got"
      PROVE  ReadIsCurrent'
  BY <1>q
<1>1. ASSUME NEW c \in Bank, NEW v \in Version, CompleteRead(c, v) PROVE ReadIsCurrent'
  <2>1. intact[srv[c]] => v = last[c]
    <3>1. srv[c] \in Server /\ pc[c] \notin {"join", "fan"}
      BY <1>1 DEF CompleteRead
    <3>2. intact[srv[c]] => copy[srv[c]][c] = last[c]
      BY <3>1 DEF IntactProgress
    <3>3. intact[srv[c]] => v = copy[srv[c]][c]
      BY <1>1, <3>1 DEF CompleteRead, IntactMapped
    <3>4. QED BY <3>2, <3>3
  <2>2. QED BY <1>1, <2>1 DEF CompleteRead, Goto, clientUnchanged
<1>2. ASSUME NEW c \in Bank,
             \/ \E s \in Server : StartRead(c, s)
             \/ ChooseServer(c) \/ PostRead(c) \/ FailRead(c) \/ FinishRead(c)
      PROVE  ReadIsCurrent'
  <2>1. /\ UNCHANGED <<last, intact>>
        /\ \E p : p # "got" /\ pc' = [pc EXCEPT ![c] = p]
        /\ \A b \in Bank \ {c} : srv'[b] = srv[b] /\ got'[b] = got[b]
    BY <1>2 DEF StartRead, ChooseServer, ReadFrom, PostRead, FailRead, FinishRead, Goto,
                clientUnchanged
  <2>2. QED BY <2>1
<1>3. ASSUME NEW c \in Bank, StartWrite(c) PROVE ReadIsCurrent'
  BY <1>3 DEF StartWrite, Goto, clientUnchanged
<1>4. ASSUME NEW c \in Bank, Write(c) PROVE ReadIsCurrent'
  BY <1>3, <1>4, <1>q
     DEF Write, FanOut, SkipServer, QueueTask, StartThread, PostWrite, CompleteWrite, StartJoin,
         Join, JoinGarbage, FinishWrite, Goto, clientUnchanged
<1>5. ASSUME NEW x \in Server, Drop(x) PROVE ReadIsCurrent'
  BY <1>5 DEF Drop
<1>6. CASE Recovery
  <2>1. UNCHANGED <<pc, srv, got, last>>
    BY <1>6 DEF Recovery, Reconnect, EnterRecover, CountAlive, Remalloc, RemallocCutOff,
        ChooseActive, CopyBanks, ReplayTask, ReplayActive, ReplayServer, ReplayCrash, ReplayRead,
        ReplayFail, WaitForever, EndReplay, FreeTasks, ServeActive, ServeRecovered, Serve,
        CleanRecover, LeaveRecovery, recUnchanged
  <2>2. CASE ChooseActive
    BY <2>1, <2>2, <1>q, AliveServer DEF ChooseActive
  <2>3. CASE ~ChooseActive
    <3>1. UNCHANGED intact
      BY <1>6, <2>3 DEF Recovery, Reconnect, EnterRecover, CountAlive, Remalloc, RemallocCutOff,
        CopyBanks, ReplayTask, ReplayActive, ReplayServer, ReplayCrash, ReplayRead,
        ReplayFail, WaitForever, EndReplay, FreeTasks, ServeActive, ServeRecovered, Serve,
        CleanRecover, LeaveRecovery
    <3>2. QED BY <2>1, <3>1, <1>q
  <2>4. QED BY <2>2, <2>3
<1>7. CASE GetStuck \/ UNCHANGED vars
  BY <1>7, <1>q DEF GetStuck, vars, procVars
<1>8. QED
  BY <1>1, <1>2, <1>4, <1>5, <1>6, <1>7 DEF Next, Read

LEMMA Inductive == Spec => []IInv
<1>1. IInv /\ [Next]_vars => IInv'
  BY TypeStep, ServesStep, MappedStep, PlacedStep, ProgressStep, ReadStep DEF IInv
<1>2. QED BY InitInv, <1>1, PTL DEF Spec

\* Every reachable state of the replicas, of their readers and writers and of
\* the recovery thread is well typed: no index of write_to_remote or
\* fuse_recover leaves the server table.
THEOREM TypeCorrect == Spec => []TypeOK
  BY Inductive, PTL DEF IInv

\* Trouble with one server never takes an intact one out of service.
THEOREM Serves == Spec => []IntactServes
  BY Inductive, PTL DEF IInv

\* An intact server has every write that write_to_remote is done with.
THEOREM Current == Spec => []IntactIsCurrent
<1>1. IInv => IntactIsCurrent
  <2> SUFFICES ASSUME TypeOK, IntactProgress PROVE IntactIsCurrent
    BY DEF IInv
  <2>1. \A s \in Server : s \in Nat
    BY ServerAssumption DEF Server
  <2>2. QED BY <2>1, ServerAssumption DEF IntactProgress, IntactIsCurrent, TypeOK
<1>2. QED BY Inductive, <1>1, PTL

\* What read_from_remote gets from an intact server is the latest content.
THEOREM Reads == Spec => []ReadIsCurrent
  BY Inductive, PTL DEF IInv

LEMMA FlagsStep == FlagsMatchThread /\ [Next]_vars => FlagsMatchThread'
<1> SUFFICES ASSUME FlagsMatchThread, [Next]_vars PROVE FlagsMatchThread'
  OBVIOUS
<1> USE DEF FlagsMatchThread, Helped
<1>1. CASE UNCHANGED <<rpc, in_recovery, recovery_in_use>>
  BY <1>1
<1>2. ASSUME NEW c \in Bank, Write(c) \/ Read(c) PROVE FlagsMatchThread'
  BY <1>1, <1>2 DEF Write, Read, FanOut, StartWrite, SkipServer, QueueTask, StartThread, PostWrite,
     CompleteWrite, StartJoin, Join, JoinGarbage, FinishWrite, StartRead, ChooseServer, PostRead,
     FailRead, CompleteRead, FinishRead, clientUnchanged, recVars
<1>3. ASSUME NEW s \in Server, Drop(s) PROVE FlagsMatchThread'
  BY <1>3 DEF Drop
<1>4. CASE GetStuck
  BY <1>4 DEF GetStuck, recVars
<1>5. CASE Recovery
  <2>1. CASE Reconnect \/ EnterRecover \/ CountAlive \/ Remalloc \/ ChooseActive \/ CopyBanks
    BY <2>1 DEF Reconnect, EnterRecover, CountAlive, Remalloc, ChooseActive, CopyBanks
  <2>2. CASE RemallocCutOff
    BY <2>2 DEF RemallocCutOff, WaitForever
  <2>3. CASE ReplayTask
    <3>1. ASSUME rpc = "replay", NEW s \in Server, ReplayRead(s) \/ ReplayFail(s) \/ WaitForever(s)
          PROVE  FlagsMatchThread'
      BY <3>1 DEF ReplayRead, ReplayFail, WaitForever
    <3>2. ASSUME ReplayCrash PROVE FlagsMatchThread'
      BY <1>1, <3>2 DEF ReplayCrash
    <3>3. QED BY <2>3, <3>1, <3>2 DEF ReplayTask
  <2>4. CASE ReplayActive \/ ReplayServer
    BY <2>4 DEF ReplayActive, ReplayServer, ReplayFail, WaitForever
  <2>5. CASE EndReplay \/ FreeTasks \/ ServeActive \/ ServeRecovered
    BY <2>5 DEF EndReplay, FreeTasks, ServeActive, ServeRecovered, Serve
  <2>6. CASE CleanRecover \/ LeaveRecovery
    BY <2>6 DEF CleanRecover, LeaveRecovery
  <2>7. QED BY <1>5, <2>1, <2>2, <2>3, <2>4, <2>5, <2>6 DEF Recovery
<1>6. CASE UNCHANGED vars
  BY <1>1, <1>6 DEF vars, recVars
<1>7. QED BY <1>2, <1>3, <1>4, <1>5, <1>6 DEF Next

(* There is one recovery thread at most, and it holds recovery_in_use from *)
(* its test on to cleanRecover, whatever breaks meanwhile.                 *)
THEOREM FlagsFollowThread == Spec => []FlagsMatchThread
<1>1. Init => FlagsMatchThread
  BY DEF Init, FlagsMatchThread, Helped
<1>2. QED BY <1>1, FlagsStep, PTL DEF Spec
=============================================================================
