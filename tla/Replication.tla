---------------------------- MODULE Replication ----------------------------
(***************************************************************************)
(* The replicas of the banks on the memory servers: writing to all of      *)
(* them and reading from one (dhmp_fs_write_to_remote and                  *)
(* dhmp_fs_read_from_remote in src/src/dhmp_fs_io.c), the loss of a        *)
(* connection (on_cm_disconnected in dhmp_client/src/dhmp_transport.c) and *)
(* the recovery of a server (fuse_recover in src/src/dhmp_fs_recovery.c).  *)
(*                                                                         *)
(* Accesses to one bank are serialised by the rewrite_lock of its cache    *)
(* slot (see DramCache), so there is one client process per bank.  All     *)
(* transfers are of a whole bank, whose content is a value.                *)
(***************************************************************************)
EXTENDS Integers, Sequences, FiniteSets

CONSTANTS SERVERNUM,  \* number of servers
          Bank,
          MaxWrites,  \* bound on the writes to one bank
          MaxDrops    \* bound on the lost connections

ASSUME ServerAssumption == SERVERNUM \in Nat \ {0}
ASSUME BoundAssumption == MaxWrites \in Nat /\ MaxDrops \in Nat

Server == 0 .. SERVERNUM - 1
None == SERVERNUM        \* no server
Version == 0 .. MaxWrites    \* 0 is fresh memory; a write brings the next one

VARIABLES state,     \* state[s]: server_state
          conn,      \* conn[s]: the transport to s is CONNECTED
          copy,      \* copy[s][b]: content of bank b on s
          nobank,    \* nobank[s]: the bank pointers of s are NULL
          tasks,     \* tasks[s]: rw_task list, the banks to be written again
          dangling,  \* dangling[s]: the list has nodes that were freed
          pc, i, srv, got,  \* of the process that reads or writes bank b: its
                            \* place, loop index, read_server and what it read
          th,        \* th[b][s]: its write_pthread for s
          rpc, rsrv, active, single, k, context,   \* of the recovery thread: its
                     \* place, recover_server, active_recover_server,
                     \* single_node_recovery, replayed tasks, recover_bank_context
          in_recovery,      \* client->in_recovery
          recovery_in_use,
          stuck,     \* the work thread waits for a completion that never comes
          crashed,   \* a NULL server or a freed list node was used
          drops,     \* connections lost so far
          last,      \* last[b]: content the file system gave to bank b last
          intact     \* intact[s]: s never lost its connection nor helped in a recovery

procVars == <<pc, i, srv, got, th>>
recLocals == <<rsrv, active, single, k, context>>
recVars  == <<rpc, recLocals, in_recovery, recovery_in_use>>
vars == <<state, conn, copy, nobank, tasks, dangling, procVars, recVars, stuck, crashed,
          drops, last, intact>>

ServerState == {"CONNECTED", "DISCONNECT", "RECOVERING", "RECONNECT"}
ThreadState == {"none", "start", "stale", "posted", "ok", "fail", "hung"}
Reading == {"choose", "read", "reading", "got"}
Helped == {"copy", "replay", "replay_active", "replay_server", "free_tasks",
           "serve_active", "serve_srv"}

Init == /\ state = [s \in Server |-> "CONNECTED"]
        /\ conn = [s \in Server |-> TRUE]
        /\ copy = [s \in Server |-> [b \in Bank |-> 0]]
        /\ nobank = [s \in Server |-> FALSE]
        /\ tasks = [s \in Server |-> <<>>]
        /\ dangling = [s \in Server |-> FALSE]
        /\ pc = [b \in Bank |-> "idle"]
        /\ i = [b \in Bank |-> 0]
        /\ srv = [b \in Bank |-> 0]
        /\ got = [b \in Bank |-> 0]
        /\ th = [b \in Bank |-> [s \in Server |-> "none"]]
        /\ rpc = "none" /\ rsrv = 0 /\ active = 0
        /\ single = FALSE /\ k = 0 /\ context = 0
        /\ in_recovery = FALSE
        /\ recovery_in_use = FALSE
        /\ stuck = FALSE
        /\ crashed = FALSE
        /\ drops = 0
        /\ last = [b \in Bank |-> 0]
        /\ intact = [s \in Server |-> TRUE]

\* The first CONNECTED server, None if there is none.
find_alive_server(st) ==
    IF \E s \in Server : st[s] = "CONNECTED"
    THEN CHOOSE s \in Server : /\ st[s] = "CONNECTED"
                               /\ \A r \in Server : st[r] = "CONNECTED" => s <= r
    ELSE None

\* The transport dhmp_read and dhmp_write look at: its number is in the
\* address, and a NULL address has number 0.
Trans(s) == IF nobank[s] THEN 0 ELSE s

Goto(b, p) == pc' = [pc EXCEPT ![b] = p]

\* The locals of a recovery thread at its start; at its end they are dead.
\* (Dead locals of a process are 0 too, for the sake of fewer states.)
NewRecovery(s) == /\ rsrv' = s /\ active' = s
                  /\ single' = FALSE /\ k' = 0 /\ context' = 0

-----------------------------------------------------------------------------
(* Connections.                                                            *)

\* A connection breaks.  Transfers handed to the work thread never complete:
\* the error completion does not set done_flag.  on_cm_disconnected starts a
\* recovery thread unless there is one already.
Drop(s) ==
    /\ conn[s] /\ drops < MaxDrops /\ ~crashed
    /\ drops' = drops + 1
    /\ conn' = [conn EXCEPT ![s] = FALSE]
    /\ th' = [b \in Bank |-> [th[b] EXCEPT ![s] = IF @ = "posted" THEN "hung" ELSE @]]
    /\ pc' = [b \in Bank |-> IF pc[b] = "reading" /\ srv[b] = s THEN "hung" ELSE pc[b]]
    /\ intact' = [intact EXCEPT ![s] = FALSE]
    /\ IF in_recovery THEN UNCHANGED <<rpc, recLocals, in_recovery>>
       ELSE in_recovery' = TRUE /\ rpc' = "reconnect" /\ NewRecovery(s)
    /\ UNCHANGED <<state, copy, nobank, tasks, dangling, i, srv, got, recovery_in_use,
                   stuck, crashed, last>>

Hung(b) == pc[b] = "hung" \/ \E s \in Server : th[b][s] = "hung"

\* The one work thread of the client gets to such a transfer and spins on it:
\* nothing that was queued behind it, for whatever server, is done any more.
GetStuck ==
    /\ ~stuck /\ \E b \in Bank : Hung(b) /\ ~crashed
    /\ stuck' = TRUE
    /\ UNCHANGED <<state, conn, copy, nobank, tasks, dangling, procVars, recVars, crashed,
                   drops, last, intact>>

-----------------------------------------------------------------------------
(* Plausible mistakes in the steps below (Bug_...), each of which breaks a *)
(* property of this module.                                                *)

\* What no step of a reading or writing process changes.
clientUnchanged == UNCHANGED <<conn, nobank, dangling, recVars, stuck, drops, intact>>

\* The index is advanced in the body of the loop as well.
\* The result of a thread is looked at before the thread has ended.
Bug_Join(b) ==
    /\ pc[b] = "join" /\ i[b] < SERVERNUM /\ ~crashed
    /\ state' = IF th[b][i[b]] = "fail"
                THEN [state EXCEPT ![i[b]] = "DISCONNECT"] ELSE state
    /\ i' = [i EXCEPT ![b] = @ + 1]
    /\ UNCHANGED <<copy, tasks, pc, srv, got, th, crashed, last>> /\ clientUnchanged

\* read_server is replaced first and marked DISCONNECT then.
Bug_FailRead(b) ==
    /\ pc[b] = "read" /\ ~conn[Trans(srv[b])] /\ ~crashed
    /\ \E next \in Server :
          /\ next = find_alive_server(state)
          /\ state' = [state EXCEPT ![next] = "DISCONNECT"]
          /\ Goto(b, "choose")
          /\ srv' = [srv EXCEPT ![b] = next]
    /\ UNCHANGED <<copy, tasks, i, got, th, crashed, last>> /\ clientUnchanged

\* The server that failed is not marked and may be chosen again and again.
Bug_FailReadRetry(b) ==
    /\ pc[b] = "read" /\ ~conn[Trans(srv[b])] /\ ~crashed
    /\ \E next \in Server :
          /\ next = find_alive_server(state)
          /\ Goto(b, "choose")
          /\ srv' = [srv EXCEPT ![b] = next]
    /\ UNCHANGED <<state, copy, tasks, i, got, th, crashed, last>> /\ clientUnchanged

\* The bank of the first server is read, whichever was chosen.
Bug_CompleteRead(b, v) ==
    /\ pc[b] = "reading" /\ ~stuck /\ ~crashed
    /\ v = copy[0][b]
    /\ Goto(b, "got")
    /\ got' = [got EXCEPT ![b] = v]
    /\ UNCHANGED <<state, copy, tasks, i, srv, th, crashed, last>> /\ clientUnchanged

\* recovery_thread does not reset in_recovery.
Bug_LeaveRecovery ==
    /\ rpc = "leave" /\ ~crashed
    /\ rpc' = "none"
    /\ UNCHANGED <<state, conn, copy, nobank, tasks, dangling, procVars, recLocals, in_recovery,
                   recovery_in_use, stuck, crashed, drops, last, intact>>

-----------------------------------------------------------------------------
(* dhmp_fs_write_to_remote(b).                                             *)

NextServer(b) == i' = [i EXCEPT ![b] = @ + 1]

StartWrite(b) ==
    /\ pc[b] = "idle" /\ last[b] < MaxWrites /\ ~crashed
    /\ last' = [last EXCEPT ![b] = @ + 1]
    /\ Goto(b, "fan")
    /\ i' = [i EXCEPT ![b] = 0]
    /\ UNCHANGED <<state, copy, tasks, srv, got, th, crashed>> /\ clientUnchanged

\* One iteration of the first loop: skip the server, ...
SkipServer(b) ==
    /\ pc[b] = "fan" /\ i[b] < SERVERNUM /\ ~crashed
    /\ state[i[b]] \in {"DISCONNECT", "RECONNECT"}
    /\ NextServer(b)
    /\ UNCHANGED <<state, copy, tasks, pc, srv, got, th, crashed, last>> /\ clientUnchanged

\* ... queue the bank for it (fatal perhaps if the list has freed nodes), ...
QueueTask(b) ==
    /\ pc[b] = "fan" /\ i[b] < SERVERNUM /\ ~crashed
    /\ state[i[b]] = "RECOVERING"
    /\ tasks' = [tasks EXCEPT ![i[b]] = Append(@, b)]
    /\ crashed' \in {FALSE, dangling[i[b]]}
    /\ NextServer(b)
    /\ UNCHANGED <<state, copy, pc, srv, got, th, last>> /\ clientUnchanged

\* ... or start a thread that writes to it.
StartThread(b) ==
    /\ pc[b] = "fan" /\ i[b] < SERVERNUM /\ ~crashed
    /\ state[i[b]] = "CONNECTED"
    /\ th' = [th EXCEPT ![b][i[b]] = "start"]
    /\ NextServer(b)
    /\ UNCHANGED <<state, copy, tasks, pc, srv, got, crashed, last>> /\ clientUnchanged

FanOut(b) == SkipServer(b) \/ QueueTask(b) \/ StartThread(b)

\* write_pthread: dhmp_write looks at the transport and queues the transfer.
\* An address the client does not know (NULL, or freed by a recovery since
\* the thread was started and not handed out again) counts as written.
PostWrite(b, s) ==
    /\ th[b][s] \in {"start", "stale"} /\ ~crashed
    /\ \E r \in {"fail", "posted", "ok"} :
          /\ r = "fail" <=> ~conn[Trans(s)]
          /\ r = "posted" => ~nobank[s]
          /\ r = "ok" => ~stuck /\ (nobank[s] \/ th[b][s] = "stale")
          /\ th' = [th EXCEPT ![b][s] = r]
    /\ UNCHANGED <<state, copy, tasks, pc, i, srv, got, crashed, last>> /\ clientUnchanged

CompleteWrite(b, s) ==
    /\ th[b][s] = "posted" /\ ~stuck /\ ~crashed
    /\ copy' = [copy EXCEPT ![s][b] = last[b]]
    /\ th' = [th EXCEPT ![b][s] = "ok"]
    /\ UNCHANGED <<state, tasks, pc, i, srv, got, crashed, last>> /\ clientUnchanged

StartJoin(b) ==
    /\ pc[b] = "fan" /\ i[b] = SERVERNUM /\ ~crashed
    /\ Goto(b, "join")
    /\ i' = [i EXCEPT ![b] = 0]
    /\ UNCHANGED <<state, copy, tasks, srv, got, th, crashed, last>> /\ clientUnchanged

\* One iteration of the second loop: pthread_join, and DISCONNECT on failure.
Join(b) ==
    /\ pc[b] = "join" /\ i[b] < SERVERNUM /\ ~crashed
    /\ th[b][i[b]] \in {"none", "ok", "fail"}
    /\ state' = IF th[b][i[b]] = "fail"
                THEN [state EXCEPT ![i[b]] = "DISCONNECT"] ELSE state
    /\ NextServer(b)
    /\ UNCHANGED <<copy, tasks, pc, srv, got, th, crashed, last>> /\ clientUnchanged

\* The same for a server that was skipped, when the uninitialised element of
\* actual_write_servers happens to be 1 (memset clears SERVERNUM bytes, the
\* array has SERVERNUM ints): a thread and arguments that do not exist are
\* joined, read and freed.
JoinGarbage(b) ==
    /\ pc[b] = "join" /\ i[b] < SERVERNUM /\ ~crashed
    /\ th[b][i[b]] = "none" /\ 4 * i[b] >= SERVERNUM
    /\ state' = [state EXCEPT ![i[b]] = "DISCONNECT"]
    /\ crashed' \in BOOLEAN
    /\ NextServer(b)
    /\ UNCHANGED <<copy, tasks, pc, srv, got, th, last>> /\ clientUnchanged

\* The return value of write_to_remote is void: no success is only logged.
FinishWrite(b) ==
    /\ pc[b] = "join" /\ i[b] = SERVERNUM /\ ~crashed
    /\ Goto(b, "idle")
    /\ i' = [i EXCEPT ![b] = 0]
    /\ th' = [th EXCEPT ![b] = [s \in Server |-> "none"]]
    /\ UNCHANGED <<state, copy, tasks, srv, got, crashed, last>> /\ clientUnchanged

-----------------------------------------------------------------------------
(* dhmp_fs_read_from_remote(b).                                            *)

\* fuse_sList[rand() % SERVERNUM]
StartRead(b, s) ==
    /\ pc[b] = "idle" /\ ~crashed
    /\ Goto(b, "choose")
    /\ srv' = [srv EXCEPT ![b] = s]
    /\ UNCHANGED <<state, copy, tasks, i, got, th, crashed, last>> /\ clientUnchanged

\* Go on with server s, or return if there is none.
ReadFrom(b, s, place) ==
    /\ Goto(b, IF s = None THEN "idle" ELSE place)
    /\ srv' = [srv EXCEPT ![b] = IF s = None THEN 0 ELSE s]

\* A RECONNECT or RECOVERING server is replaced by an alive one; without one
\* the read returns and leaves the buffer alone.
ChooseServer(b) ==
    /\ pc[b] = "choose" /\ ~crashed
    /\ ReadFrom(b, IF state[srv[b]] \in {"RECONNECT", "RECOVERING"}
                   THEN find_alive_server(state) ELSE srv[b], "read")
    /\ UNCHANGED <<state, copy, tasks, i, got, th, crashed, last>> /\ clientUnchanged

\* dhmp_read hands the transfer over ...
PostRead(b) ==
    /\ pc[b] = "read" /\ conn[Trans(srv[b])] /\ ~crashed
    /\ Goto(b, "reading")
    /\ UNCHANGED <<state, copy, tasks, i, srv, got, th, crashed, last>> /\ clientUnchanged

\* ... or fails: the server is DISCONNECT and the next one is tried.
FailRead(b) ==
    /\ pc[b] = "read" /\ ~conn[Trans(srv[b])] /\ ~crashed
    /\ state' = [state EXCEPT ![srv[b]] = "DISCONNECT"]
    /\ ReadFrom(b, find_alive_server(state'), "choose")
    /\ UNCHANGED <<copy, tasks, i, got, th, crashed, last>> /\ clientUnchanged

\* With a NULL address the read succeeds and leaves in the buffer what was there.
CompleteRead(b, v) ==
    /\ pc[b] = "reading" /\ ~stuck /\ ~crashed
    /\ nobank[srv[b]] \/ v = copy[srv[b]][b]
    /\ Goto(b, "got")
    /\ got' = [got EXCEPT ![b] = v]
    /\ UNCHANGED <<state, copy, tasks, i, srv, th, crashed, last>> /\ clientUnchanged

FinishRead(b) ==
    /\ pc[b] = "got" /\ ~crashed
    /\ Goto(b, "idle")
    /\ srv' = [srv EXCEPT ![b] = 0]
    /\ got' = [got EXCEPT ![b] = 0]
    /\ UNCHANGED <<state, copy, tasks, i, th, crashed, last>> /\ clientUnchanged

-----------------------------------------------------------------------------
(* recovery_thread and fuse_recover.                                       *)

recUnchanged == UNCHANGED <<pc, i, srv, got, drops, last>>

\* The loop around reconnect(): the server answers again.
Reconnect ==
    /\ rpc = "reconnect" /\ ~crashed
    /\ conn' = [conn EXCEPT ![rsrv] = TRUE]
    /\ rpc' = "enter"
    /\ UNCHANGED <<state, copy, nobank, tasks, dangling, th, recLocals, in_recovery,
                   recovery_in_use, stuck, crashed, intact>> /\ recUnchanged

EnterRecover ==
    /\ rpc = "enter" /\ ~crashed
    /\ recovery_in_use' = TRUE
    /\ IF recovery_in_use
       THEN rpc' = "leave" /\ UNCHANGED state
       ELSE rpc' = "count" /\ state' = [state EXCEPT ![rsrv] = "RECONNECT"]
    /\ UNCHANGED <<conn, copy, nobank, tasks, dangling, th, recLocals, in_recovery, stuck,
                   crashed, intact>> /\ recUnchanged

\* alive_num; with no server alive fuse_recover returns at once.
CountAlive ==
    /\ rpc = "count" /\ ~crashed
    /\ LET alive_num == Cardinality({s \in Server : state[s] = "CONNECTED"})
       IN /\ rpc' = IF alive_num = 0 THEN "leave" ELSE "remalloc"
          /\ single' = (alive_num = 1)
    /\ UNCHANGED <<state, conn, copy, nobank, tasks, dangling, th, rsrv, active, k, context,
                   in_recovery, recovery_in_use, stuck, crashed, intact>> /\ recUnchanged

\* dhmp_free and dhmp_malloc of every bank: the server maps fresh memory,
\* or the bank pointers are NULL when the connection is gone again.  The work
\* thread does the transfers that are queued for the server first; a
\* write_pthread that has not queued its transfer keeps the old address.
Remalloc ==
    /\ rpc = "remalloc" /\ ~crashed
    /\ conn[rsrv] => ~stuck /\ \A b \in Bank : /\ th[b][rsrv] # "posted"
                                               /\ ~(pc[b] = "reading" /\ srv[b] = rsrv)
    /\ copy' = IF conn[rsrv] THEN [copy EXCEPT ![rsrv] = [b \in Bank |-> 0]] ELSE copy
    /\ nobank' = [nobank EXCEPT ![rsrv] = ~conn[rsrv]]
    /\ th' = [b \in Bank |-> [th[b] EXCEPT ![rsrv] = IF @ = "start" THEN "stale" ELSE @]]
    /\ rpc' = "choose_active"
    /\ UNCHANGED <<state, conn, tasks, dangling, recLocals, in_recovery, recovery_in_use,
                   stuck, crashed, intact>> /\ recUnchanged

\* find_alive_server again, used without a test for NULL.
ChooseActive ==
    /\ rpc = "choose_active" /\ ~crashed
    /\ LET a == find_alive_server(state) IN
       IF a = None
       THEN crashed' = TRUE /\ UNCHANGED <<rpc, active, state, intact>>
       ELSE /\ rpc' = "copy" /\ active' = a
            /\ state' = [state EXCEPT ![a] = "RECOVERING"]
            /\ intact' = [intact EXCEPT ![a] = FALSE]
            /\ UNCHANGED crashed
    /\ UNCHANGED <<conn, copy, nobank, tasks, dangling, th, rsrv, single, k, context,
                   in_recovery, recovery_in_use, stuck>> /\ recUnchanged

\* use_bank_len stays 0 and the journal stays empty: no bank is copied.  A
\* recovery with a single alive server is all but over now.
CopyBanks ==
    /\ rpc = "copy" /\ ~crashed
    /\ rpc' = IF single THEN "serve_active" ELSE "replay"
    /\ UNCHANGED <<state, conn, copy, nobank, tasks, dangling, th, recLocals, in_recovery,
                   recovery_in_use, stuck, crashed, intact>> /\ recUnchanged

Task == tasks[active][k + 1]

\* A transfer of fuse_recover to or from s fails: s is DISCONNECT and the
\* recovery given up.
ReplayFail(s) ==
    /\ ~conn[Trans(s)]
    /\ state' = [state EXCEPT ![s] = "DISCONNECT"]
    /\ rpc' = "clean"
    /\ UNCHANGED <<conn, copy, nobank, tasks, dangling, th, recLocals, in_recovery,
                   recovery_in_use, stuck, crashed, intact>> /\ recUnchanged

\* A connection broke after fuse_recover had handed a request over: it waits
\* for good, and so does the work thread.
WaitForever(s) ==
    /\ ~conn[s] /\ ~stuck
    /\ stuck' = TRUE
    /\ rpc' = "hung"
    /\ UNCHANGED <<state, conn, copy, nobank, tasks, dangling, th, recLocals, in_recovery,
                   recovery_in_use, crashed, intact>> /\ recUnchanged

\* The next rw_task: read the bank from a third server; a NULL server or a
\* freed task is fatal.
ReplayRead(third) ==
    /\ conn[Trans(third)] /\ ~stuck
    /\ context' = IF nobank[third] THEN context ELSE copy[third][Task]
    /\ rpc' = "replay_active"
    /\ UNCHANGED <<state, conn, copy, nobank, tasks, dangling, th, rsrv, active, single, k,
                   in_recovery, recovery_in_use, stuck, crashed, intact>> /\ recUnchanged

ReplayCrash ==
    /\ crashed' = TRUE
    /\ UNCHANGED <<state, conn, copy, nobank, tasks, dangling, th, rpc, recLocals, in_recovery,
                   recovery_in_use, stuck, intact>> /\ recUnchanged

ReplayTask ==
    /\ rpc = "replay" /\ k < Len(tasks[active]) /\ ~crashed
    /\ \/ dangling[active] /\ ReplayCrash
       \/ find_alive_server(state) = None /\ ReplayCrash
       \/ \E s \in Server : /\ s = find_alive_server(state)
                            /\ ReplayRead(s) \/ ReplayFail(s) \/ WaitForever(s)

\* ... and write it to the helping server ...
ReplayActive ==
    /\ rpc = "replay_active" /\ ~crashed
    /\ \/ ReplayFail(active) \/ WaitForever(active)
       \/ /\ conn[Trans(active)] /\ ~stuck
          /\ copy' = IF nobank[active] THEN copy ELSE [copy EXCEPT ![active][Task] = context]
          /\ rpc' = "replay_server"
          /\ UNCHANGED <<state, conn, nobank, tasks, dangling, th, recLocals, in_recovery,
                         recovery_in_use, stuck, crashed, intact>> /\ recUnchanged

\* ... and to the recovered one.
ReplayServer ==
    /\ rpc = "replay_server" /\ ~crashed
    /\ \/ ReplayFail(rsrv) \/ WaitForever(rsrv)
       \/ /\ conn[Trans(rsrv)] /\ ~stuck
          /\ copy' = IF nobank[rsrv] THEN copy ELSE [copy EXCEPT ![rsrv][Task] = context]
          /\ rpc' = "replay" /\ k' = k + 1
          /\ UNCHANGED <<state, conn, nobank, tasks, dangling, th, rsrv, active, single, context,
                         in_recovery, recovery_in_use, stuck, crashed, intact>> /\ recUnchanged

\* Every request of the remalloc loops may be cut off as well.
RemallocCutOff == rpc = "remalloc" /\ ~crashed /\ WaitForever(rsrv)

EndReplay ==
    /\ rpc = "replay" /\ k = Len(tasks[active]) /\ ~crashed
    /\ rpc' = "free_tasks"
    /\ UNCHANGED <<state, conn, copy, nobank, tasks, dangling, th, recLocals, in_recovery,
                   recovery_in_use, stuck, crashed, intact>> /\ recUnchanged

\* Every task in the list, one added after the last look at it too, is freed
\* and stays linked; to free one again may be fatal.
FreeTasks ==
    /\ rpc = "free_tasks" /\ ~crashed
    /\ crashed' \in {FALSE, dangling[active]}
    /\ dangling' = [dangling EXCEPT ![active] = tasks[active] # <<>>]
    /\ rpc' = "serve_active"
    /\ UNCHANGED <<state, conn, copy, nobank, tasks, th, recLocals, in_recovery,
                   recovery_in_use, stuck, intact>> /\ recUnchanged

\* The helping server, then the recovered one, serve again.
Serve(s, place) ==
    /\ state' = [state EXCEPT ![s] = "CONNECTED"]
    /\ rpc' = place
    /\ UNCHANGED <<conn, copy, nobank, tasks, dangling, th, recLocals, in_recovery,
                   recovery_in_use, stuck, crashed, intact>> /\ recUnchanged

ServeActive == rpc = "serve_active" /\ ~crashed /\ Serve(active, "serve_srv")
ServeRecovered == rpc = "serve_srv" /\ ~crashed /\ Serve(rsrv, "clean")

CleanRecover ==
    /\ rpc = "clean" /\ ~crashed
    /\ recovery_in_use' = FALSE
    /\ rpc' = "leave"
    /\ UNCHANGED <<state, conn, copy, nobank, tasks, dangling, th, recLocals, in_recovery,
                   stuck, crashed, intact>> /\ recUnchanged

LeaveRecovery ==
    /\ rpc = "leave" /\ ~crashed
    /\ in_recovery' = FALSE
    /\ rpc' = "none"
    /\ NewRecovery(0)
    /\ UNCHANGED <<state, conn, copy, nobank, tasks, dangling, th, recovery_in_use, stuck,
                   crashed, intact>> /\ recUnchanged

Recovery == \/ Reconnect \/ EnterRecover \/ CountAlive \/ Remalloc \/ RemallocCutOff
            \/ ChooseActive \/ CopyBanks \/ ReplayTask \/ ReplayActive \/ ReplayServer
            \/ EndReplay \/ FreeTasks \/ ServeActive \/ ServeRecovered
            \/ CleanRecover \/ LeaveRecovery

Write(b) == \/ StartWrite(b) \/ FanOut(b) \/ StartJoin(b) \/ Join(b) \/ JoinGarbage(b)
            \/ FinishWrite(b)
            \/ \E s \in Server : PostWrite(b, s) \/ CompleteWrite(b, s)

Read(b) == \/ \E s \in Server : StartRead(b, s)
           \/ ChooseServer(b) \/ PostRead(b) \/ FailRead(b)
           \/ \E v \in Version : CompleteRead(b, v)
           \/ FinishRead(b)

Next == \/ \E b \in Bank : Write(b) \/ Read(b)
        \/ \E s \in Server : Drop(s)
        \/ GetStuck
        \/ Recovery

Spec == Init /\ [][Next]_vars

-----------------------------------------------------------------------------
\* Type invariant.
TypeOK ==
    /\ state \in [Server -> ServerState]
    /\ conn \in [Server -> BOOLEAN]
    /\ copy \in [Server -> [Bank -> Version]]
    /\ nobank \in [Server -> BOOLEAN]
    /\ tasks \in [Server -> Seq(Bank)]
    /\ dangling \in [Server -> BOOLEAN]
    /\ pc \in [Bank -> {"idle", "fan", "join", "hung"} \cup Reading]
    /\ i \in [Bank -> 0 .. SERVERNUM]
    /\ srv \in [Bank -> Server]
    /\ got \in [Bank -> Version]
    /\ th \in [Bank -> [Server -> ThreadState]]
    /\ rpc \in {"none", "reconnect", "enter", "count", "remalloc", "choose_active",
                "clean", "leave", "hung"} \cup Helped
    /\ rsrv \in Server /\ active \in Server
    /\ single \in BOOLEAN /\ k \in Nat /\ context \in Version
    /\ in_recovery \in BOOLEAN /\ recovery_in_use \in BOOLEAN
    /\ stuck \in BOOLEAN /\ crashed \in BOOLEAN
    /\ drops \in 0 .. MaxDrops
    /\ last \in [Bank -> Version]
    /\ intact \in [Server -> BOOLEAN]

\* A replica whose connection never broke and that never helped in a recovery
\* has taken every write: whatever happens to the other servers, it holds the
\* latest content of a bank as soon as write_to_remote has joined its thread.
IntactIsCurrent == \A s \in Server, b \in Bank :
    intact[s] /\ ~(pc[b] = "fan" \/ (pc[b] = "join" /\ i[b] <= s))
        => copy[s][b] = last[b]

\* Until the first connection breaks, read_from_remote returns the content
\* written last, from whichever server; afterwards at least from an intact one.
ReadIsCurrent == \A b \in Bank :
    pc[b] = "got" /\ intact[srv[b]] => got[b] = last[b]

\* recovery_thread and fuse_recover keep their two flags in step with the
\* thread: in_recovery exactly while it runs, so that there is only one, and
\* recovery_in_use whenever it is between the test and cleanRecover.
FlagsMatchThread ==
    /\ in_recovery <=> rpc # "none"
    /\ rpc \in Helped \cup {"count", "remalloc", "choose_active"} => recovery_in_use

\* Trouble with one server never takes another one out of service: a server
\* whose own connection is fine and that does not help in a recovery stays
\* CONNECTED, whatever failed reads, failed writes and recoveries do.
IntactServes == \A s \in Server : intact[s] => state[s] = "CONNECTED" /\ conn[s]

\* Inductive strengthening.  The recovery thread works on broken servers and
\* its helper only ...
RecoveryPlaced ==
    /\ rpc # "none" => ~intact[rsrv]
    /\ rpc \in Helped => ~intact[active]
    /\ rpc \in {"replay_active", "replay_server"} => k < Len(tasks[active])

\* ... and the thread that writes to an intact server was started, cannot
\* fail, and has transferred the bank when it ends.
Started == {"start", "posted", "ok"}
IntactMapped == \A s \in Server : intact[s] => ~nobank[s]
IntactProgress == \A s \in Server, b \in Bank : intact[s] =>
    /\ pc[b] = "join" \/ (pc[b] = "fan" /\ s < i[b]) => th[b][s] \in Started
    /\ pc[b] = "join" /\ s < i[b] => th[b][s] = "ok"
    /\ pc[b] \notin {"join", "fan"} => th[b][s] = "none" /\ copy[s][b] = last[b]
    /\ pc[b] = "fan" /\ i[b] <= s => th[b][s] = "none"
    /\ th[b][s] = "ok" => copy[s][b] = last[b]

IInv == /\ TypeOK /\ IntactServes /\ IntactMapped /\ RecoveryPlaced /\ IntactProgress
        /\ ReadIsCurrent

-----------------------------------------------------------------------------
(* What the comments and messages of the code say.                         *)

\* dhmp_fs_recovery.c:219 "Recovery sucess!": a recovered server that serves
\* again holds the content of every bank that is not being written.
RecoveredIsCurrent == \A b \in Bank :
    rpc = "clean" /\ state[rsrv] = "CONNECTED" /\ pc[b] \notin {"fan", "join"}
       => copy[rsrv][b] = last[b]

-----------------------------------------------------------------------------
\* The FUSE threads and write_pthreads keep running.
ClientStep(b) == (Write(b) \/ Read(b)) /\ pc[b] # "idle"
FairSpec == Spec /\ \A b \in Bank : WF_vars(ClientStep(b))

\* An access to the servers ends, unless some transfer was cut off by a
\* broken connection: then the work thread may be stuck.  (Time and again there
\* is none going on: each one leads to its end.)
AccessEnds == \A b \in Bank :
    []<>(pc[b] = "idle" \/ crashed \/ stuck \/ \E c \in Bank : Hung(c))

=============================================================================
