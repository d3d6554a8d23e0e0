---------------------------- MODULE Connections ----------------------------
(***************************************************************************)
(* How the client's connections are made, lost, made again and closed      *)
(* (dhmp_client_init, dhmp_client_destroy, the handlers of the connection  *)
(* manager's events in dhmp_transport.c and the recovery thread), and what *)
(* a server knows of them (client_list, cur_connections, watcher_trans).   *)
(*                                                                         *)
(* A transport <<s, p>> is the normal (p = FALSE) or the poll (p = TRUE)   *)
(* link to server s.  Every call of dhmp_transport_connect makes a new     *)
(* cm_id, here an attempt: events name the attempt they belong to, but     *)
(* the handlers use the transport's latest one, cm[t].                     *)
(*                                                                         *)
(* Attempts are reused once nothing refers to them.  Bounds: MaxAttempt    *)
(* attempts at a time, MaxFault faults.                                    *)
(***************************************************************************)
EXTENDS Integers, FiniteSets, SequencesExt

CONSTANTS
    ServerNum,    \* config.nets_cnt
    MaxAttempt,   \* attempts that are remembered at a time
    Faults,       \* a subset of {"crash", "lose", "fail", "error", "start", "accept"}
    MaxFault,     \* how many faults happen
    Watchers,     \* what watcher_trans may hold when a server starts
    Destroys,     \* the program calls dhmp_client_destroy
    None,         \* NULL
    Taken         \* a watcher_trans that is none of this client's attempts

ASSUME ServerNumAssumption == ServerNum \in Nat \ {0}
ASSUME BoundAssumption == MaxAttempt \in Nat \ {0} /\ MaxFault \in Nat
ASSUME FlagAssumption ==
    /\ Destroys \in BOOLEAN
    /\ Watchers \subseteq {None, Taken} /\ Watchers # {}
ASSUME ValueAssumption ==
    None # Taken /\ None \notin 1..MaxAttempt /\ Taken \notin 1..MaxAttempt

Server == 0 .. ServerNum - 1
Attempt == 1 .. MaxAttempt
Trans == Server \X BOOLEAN
ASSUME NullAssumption == None \notin Trans

\* What dhmp_client_init and dhmp_client_destroy do, in their order.
For(p, do) == [k \in 1..ServerNum |-> [do |-> do, t |-> <<k - 1, p>>]]
InitPart ==
    For(FALSE, "connect") \o For(FALSE, "see") \o For(TRUE, "connect") \o For(TRUE, "see")
DestroyPart ==
    <<[do |-> "prepare", t |-> None]>>
        \o For(FALSE, "close") \o For(TRUE, "close") \o For(FALSE, "gone") \o For(TRUE, "gone")
        \o <<[do |-> "stop", t |-> None], [do |-> "join", t |-> None]>>
Program == InitPart \o DestroyPart

VARIABLES
    main,        \* the step of Program that the application's thread is at
    begun,       \* that step is a dhmp_transport_connect that has begun
    state,       \* trans_state of each transport
    cm,          \* cm_id: the latest attempt of a transport, None before any
    qp,          \* the attempt that the transport's qp was created for
    deaf,        \* the transports whose event channel is out of the event loop
    chan,        \* the events that wait in a transport's channel
    att,         \* attempts: who made it, how far it is, at both ends
    loop,        \* the event loop's thread, "crashed" with the process
    stop,        \* ctx.stop
    inRecovery,  \* client->in_recovery
    threads,     \* where a transport's recovery thread is, "none" without one
    prepare,     \* client->prepare_destroy
    alive,       \* whether the server's process runs
    list,        \* server->client_list
    count,       \* server->cur_connections
    watcher,     \* server->watcher_trans
    faults,      \* how many faults there have been
    races        \* the races that there have been, for the properties

client == <<main, begun, state, cm, qp, deaf, loop, stop, inRecovery, threads, prepare>>
server == <<alive, list, count, watcher>>
past == <<faults, races>>
vars == <<client, chan, att, server, past>>

(***************************************************************************)
(* Attempts                                                                *)
(*                                                                         *)
(* phase: "resolving" (rdma_resolve_addr), "addr", "routing"               *)
(* (rdma_resolve_route), "route", "asking" (rdma_connect), "up", "closing" *)
(* (up, and the client's DHMP_MSG_CLOSE_CONNECTION is on its way), "down"; *)
(* "nodevice" and "dead" when it failed before and after an address was    *)
(* found.  peer: the server's end, "none", "accepted", "known" (its        *)
(* peer_addr is filled in), "stale" (rdma_accept failed) or "gone".        *)
(***************************************************************************)
Phase == {"none", "resolving", "addr", "routing", "route", "asking", "up", "closing",
          "down", "nodevice", "dead"}
NoAttempt == [by |-> None, phase |-> "none", bound |-> FALSE, peer |-> "none", poll |-> FALSE]
Event == {"ADDR_RESOLVED", "ROUTE_RESOLVED", "ESTABLISHED", "DISCONNECTED", "CONNECT_ERROR"}

At(i) == att[i].by[1]
Open(i) == att[i].phase \in {"up", "closing"}
Served(i) == att[i].peer \in {"accepted", "known"}
Held(i) == Served(i) \/ att[i].peer = "stale"
Normal(s) == <<s, FALSE>>

Pending(i) == \E t \in Trans : \E k \in DOMAIN chan[t] : chan[t][k].id = i
Referred(i) ==
    \/ \E t \in Trans : i \in {cm[t], qp[t]}
    \/ \E s \in Server : watcher[s] = i \/ \E k \in DOMAIN list[s] : list[s][k] = i
    \/ Pending(i) \/ Held(i)
Unused(i) == att[i].phase \in {"none", "down", "nodevice", "dead"} /\ ~Referred(i)

Put(i, kind) == [chan EXCEPT ![att[i].by] = Append(@, [kind |-> kind, id |-> i])]

Fault(kind) == kind \in Faults /\ faults < MaxFault /\ faults' = faults + 1
Race(kind, happens) == races' = IF happens THEN races \union {kind} ELSE races

\* Nothing of the transport's latest attempt is under way or up.
Ended(t) ==
    \/ cm[t] = None
    \/ ~Pending(cm[t]) /\ ~Open(cm[t]) /\ att[cm[t]].phase \notin {"resolving", "routing", "asking"}

\* dhmp_transport_connect: rdma_create_id and rdma_resolve_addr, ...
Start(t) ==
    \E i \in Attempt :
        /\ Unused(i)
        /\ \A j \in Attempt : Unused(j) => i <= j
        /\ att' = [att EXCEPT ![i] = [NoAttempt EXCEPT !.by = t, !.phase = "resolving"]]
        /\ cm' = [cm EXCEPT ![t] = i]

\* ... one of which may fail, ...
StartFails(t) ==
    /\ Fault("start")
    /\ cm' = [cm EXCEPT ![t] = None]
    /\ UNCHANGED att

\* ... and trans_state, which the event loop may have written by then.
Record(t) ==
    /\ state' = [state EXCEPT ![t] = "CONNECTING"]
    /\ Race("late", state[t] = "CONNECTED")

----------------------------------------------------------------------------
(***************************************************************************)
(* The application: dhmp_client_init, then dhmp_client_destroy             *)
(***************************************************************************)
AtStep(do) == main <= Len(Program) /\ Program[main].do = do
Arg == Program[main].t
Advance == main' = main + 1

Connect ==
    /\ AtStep("connect") /\ ~begun
    /\ \/ Start(Arg) /\ begun' = TRUE /\ UNCHANGED <<main, faults>>
       \/ StartFails(Arg) /\ Advance /\ UNCHANGED begun
    /\ UNCHANGED <<state, qp, deaf, chan, loop, stop, inRecovery, threads, prepare, server, races>>

Connecting ==
    /\ AtStep("connect") /\ begun
    /\ Record(Arg) /\ begun' = FALSE /\ Advance
    /\ UNCHANGED <<cm, qp, deaf, chan, att, loop, stop, inRecovery, threads, prepare, server, faults>>

\* Connected or not: the spin ends as soon as the state is CONNECTED or beyond.
See == /\ AtStep("see") /\ state[Arg] \in {"CONNECTED", "DISCONNECTED", "ERROR"}
       /\ Advance
       /\ UNCHANGED <<begun, state, cm, qp, deaf, chan, att, loop, stop, inRecovery, threads, prepare,
                      server, past>>

Prepare == /\ AtStep("prepare") /\ Destroys
           /\ prepare' = TRUE /\ Advance
           /\ UNCHANGED <<begun, state, cm, qp, deaf, chan, att, loop, stop, inRecovery, threads, server,
                          past>>

\* dhmp_close_connection: through the work thread, which posts the message
\* without an answer.
Close == /\ AtStep("close") /\ Advance
         /\ att' = IF state[Arg] = "CONNECTED" /\ qp[Arg] # None /\ att[qp[Arg]].phase = "up"
                   THEN [att EXCEPT ![qp[Arg]].phase = "closing"] ELSE att
         /\ UNCHANGED <<begun, state, cm, qp, deaf, chan, loop, stop, inRecovery, threads, prepare,
                        server, past>>

Gone == /\ AtStep("gone") /\ state[Arg] # "CONNECTED" /\ Advance
        /\ UNCHANGED <<begun, state, cm, qp, deaf, chan, att, loop, stop, inRecovery, threads, prepare,
                       server, past>>

Stop == /\ AtStep("stop") /\ stop' = TRUE /\ Advance
        /\ UNCHANGED <<begun, state, cm, qp, deaf, chan, att, loop, inRecovery, threads, prepare, server,
                       past>>

Join == /\ AtStep("join") /\ loop = "done" /\ Advance
        /\ UNCHANGED <<begun, state, cm, qp, deaf, chan, att, loop, stop, inRecovery, threads, prepare,
                       server, past>>

MainStep ==
    loop # "crashed" /\ (Connect \/ Connecting \/ See \/ Prepare \/ Close \/ Gone \/ Stop \/ Join)

----------------------------------------------------------------------------
(***************************************************************************)
(* The event loop: dhmp_context_run and the handlers it calls              *)
(***************************************************************************)
\* dhmp_qp_create fails for an attempt without a device or with a qp already;
\* rdma_connect for one whose route is not known, and then the whole loop is
\* told to stop.
Bug_Bindable(i) ==          \* none either for a transport that has had one
    ~att[i].bound /\ att[i].phase \notin {"resolving", "nodevice"} /\ qp[att[i].by] = None
Bindable(i) == ~att[i].bound /\ att[i].phase \notin {"resolving", "nodevice"}
Bug_RouteResolved(t) ==     \* the qp of the lost connection is kept
    LET c == cm[t] IN
    /\ \/ /\ ~Bindable(c)
          /\ UNCHANGED <<att, qp, stop, state>>
       \/ /\ Bindable(c) /\ att[c].phase = "route"
          /\ qp' = [qp EXCEPT ![t] = IF @ = None THEN c ELSE @]
          /\ att' = [att EXCEPT ![c].bound = TRUE, ![c].phase = "asking"]
          /\ UNCHANGED <<stop, state>>
    /\ UNCHANGED <<deaf, inRecovery, threads>>
RouteResolved(t) ==
    LET c == cm[t] IN
    /\ \/ /\ ~Bindable(c)
          /\ UNCHANGED <<att, qp, stop, state>>
       \/ /\ Bindable(c)
          /\ qp' = [qp EXCEPT ![t] = c]
          /\ \/ /\ att[c].phase = "route"
                /\ att' = [att EXCEPT ![c].bound = TRUE, ![c].phase = "asking"]
                /\ UNCHANGED <<stop, state>>
             \/ /\ att[c].phase # "route"
                /\ att' = [att EXCEPT ![c].bound = TRUE]
                /\ stop' = TRUE
                /\ state' = [state EXCEPT ![t] = "ERROR"]
    /\ UNCHANGED <<deaf, inRecovery, threads>>

Bug_AddrResolved(t) == RouteResolved(t)     \* the case falls through to the next
AddrResolved(t) ==
    /\ att' = IF att[cm[t]].phase = "addr" THEN [att EXCEPT ![cm[t]].phase = "routing"] ELSE att
    /\ UNCHANGED <<state, qp, deaf, stop, inRecovery, threads>>

Established(t) ==
    /\ state' = [state EXCEPT ![t] = "CONNECTED"]
    /\ UNCHANGED <<att, qp, deaf, stop, inRecovery, threads>>

Bug_Disconnected(t) ==      \* recovery is started again for every loss
    /\ state' = [state EXCEPT ![t] = "DISCONNECTED"]
    /\ inRecovery' = TRUE
    /\ threads' = [threads EXCEPT ![t] = "loop"]
    /\ UNCHANGED <<deaf, att, qp, stop>>
Disconnected(t) ==
    /\ state' = [state EXCEPT ![t] = "DISCONNECTED"]
    /\ \/ /\ prepare
          /\ deaf' = deaf \union {t}
          /\ UNCHANGED <<inRecovery, threads>>
       \/ /\ ~prepare /\ ~inRecovery
          /\ inRecovery' = TRUE
          /\ threads' = [threads EXCEPT ![t] = "loop"]
          /\ UNCHANGED deaf
       \/ /\ ~prepare /\ inRecovery
          /\ UNCHANGED <<deaf, inRecovery, threads>>
    /\ UNCHANGED <<att, qp, stop>>

ConnectError(t) ==
    /\ state' = [state EXCEPT ![t] = "ERROR"]
    /\ deaf' = deaf \union {t}
    /\ UNCHANGED <<att, qp, stop, inRecovery, threads>>

\* The handlers use cm_id (rdma_resolve_route, rdma_create_qp, its route,
\* rdma_destroy_qp) without a test for NULL.  The connections of a process
\* that crashes end with it.
NoId(t) == cm[t] = None /\ (Head(chan[t]).kind = "DISCONNECTED" => prepare)
Segfault ==
    /\ loop' = "crashed"
    /\ att' = [i \in Attempt |->
                 [att[i] EXCEPT !.phase = IF Open(i) THEN "down"
                                          ELSE IF @ \in {"none", "down", "nodevice"} THEN @
                                          ELSE "dead"]]
    /\ UNCHANGED <<state, qp, deaf, stop, inRecovery, threads>>

HandleEvent(t) ==
    /\ loop' = "handle"
    /\ CASE Head(chan[t]).kind = "ADDR_RESOLVED" -> AddrResolved(t)
         [] Head(chan[t]).kind = "ROUTE_RESOLVED" -> RouteResolved(t)
         [] Head(chan[t]).kind = "ESTABLISHED" -> Established(t)
         [] Head(chan[t]).kind = "DISCONNECTED" -> Disconnected(t)
         [] Head(chan[t]).kind = "CONNECT_ERROR" -> ConnectError(t)

Handle(t) ==
    /\ loop \notin {"done", "crashed"} /\ t \notin deaf /\ chan[t] # <<>>
    /\ chan' = [chan EXCEPT ![t] = Tail(@)]
    /\ \/ NoId(t) /\ Segfault
       \/ ~NoId(t) /\ HandleEvent(t)
    /\ UNCHANGED <<main, begun, cm, prepare, server, past>>

\* ctx->stop is looked at after events only: epoll_wait has no timeout.
LoopCheck ==
    /\ loop = "handle"
    /\ loop' = IF stop THEN "done" ELSE "wait"
    /\ UNCHANGED <<main, begun, state, cm, qp, deaf, chan, att, stop, inRecovery, threads, prepare,
                   server, past>>

----------------------------------------------------------------------------
(***************************************************************************)
(* The recovery thread                                                     *)
(***************************************************************************)
Loop(t, next) == threads' = [threads EXCEPT ![t] = next]

\* Nothing tells the thread how far the attempt before is.
Reconnect(t) ==
    /\ threads[t] = "loop" /\ state[t] # "CONNECTED"
    /\ \/ Start(t) /\ Loop(t, "connecting") /\ UNCHANGED faults
       \/ StartFails(t) /\ Loop(t, "sleep")
    /\ Race("retry", ~Ended(t))
    /\ UNCHANGED <<main, begun, state, qp, deaf, chan, loop, stop, inRecovery, prepare, server>>

Reconnecting(t) ==
    /\ threads[t] = "connecting"
    /\ Record(t)
    /\ Loop(t, "sleep")
    /\ UNCHANGED <<main, begun, cm, qp, deaf, chan, att, loop, stop, inRecovery, prepare, server,
                   faults>>

\* sleep(1), which waits for nothing but the clock.
Wake(t) ==
    /\ threads[t] = "sleep"
    /\ Loop(t, "loop")
    /\ UNCHANGED <<main, begun, state, cm, qp, deaf, chan, att, loop, stop, inRecovery, prepare, server,
                   past>>

\* client->recovery is fuse_recover (Replication): here only that it runs.
CallRecovery(t) ==
    /\ threads[t] = "loop" /\ state[t] = "CONNECTED"
    /\ Loop(t, "call")
    /\ UNCHANGED <<main, begun, state, cm, qp, deaf, chan, att, loop, stop, inRecovery, prepare, server,
                   past>>

EndRecovery(t) ==
    /\ threads[t] = "call"
    /\ Loop(t, "none")
    /\ inRecovery' = FALSE
    /\ UNCHANGED <<main, begun, state, cm, qp, deaf, chan, att, loop, stop, prepare, server, past>>

\* dhmp_client_destroy frees what the thread uses and does not wait for it:
\* nothing is said of it from then on.
RecoveryStep(t) ==
    /\ main <= Len(Program) /\ loop # "crashed"
    /\ Reconnect(t) \/ Reconnecting(t) \/ Wake(t) \/ CallRecovery(t) \/ EndRecovery(t)

----------------------------------------------------------------------------
(***************************************************************************)
(* A server: the same handlers with server # NULL                          *)
(***************************************************************************)
\* dhmp_is_exist_connection: the first listed transport with the peer's
\* address.  The address of one that is not established has not been written.
Bug_Exists(s) == IF list[s] = <<>> THEN {FALSE} ELSE BOOLEAN
Exists(s) ==
    IF \E k \in DOMAIN list[s] : att[list[s][k]].peer = "known" THEN {TRUE}
    ELSE IF list[s] = <<>> THEN {FALSE} ELSE BOOLEAN

Take(i) ==
    LET s == At(i) IN
    \/ /\ watcher[s] = None
       /\ watcher' = [watcher EXCEPT ![s] = i]
       /\ UNCHANGED <<list, count>>
    \/ /\ watcher[s] # None
       /\ list' = [list EXCEPT ![s] = Append(@, i)]
       /\ count' = [count EXCEPT ![s] = @ + 1]
       /\ UNCHANGED watcher

Asks(i) == att[i].phase = "asking" /\ att[i].peer = "none" /\ alive[At(i)]

\* The established event of an earlier connection may be still to come.
ConnectRequest(i) ==
    /\ Asks(i)
    /\ \E exist \in Exists(At(i)) :
           att' = [att EXCEPT ![i].peer = "accepted", ![i].poll = exist]
    /\ Take(i)
    /\ Race("request",
            \E j \in Attempt : att[j].peer = "accepted" /\ Open(j) /\ At(j) = At(i))
    /\ UNCHANGED <<client, chan, alive, faults>>

\* rdma_accept fails once the transport is listed, dhmp_transport_create or
\* dhmp_qp_create before.
RequestFails(i) ==
    /\ Asks(i) /\ Fault("accept")
    /\ \/ att' = [att EXCEPT ![i].peer = "stale"] /\ Take(i)
       \/ att' = [att EXCEPT ![i].peer = "gone"] /\ UNCHANGED <<list, count, watcher>>
    /\ UNCHANGED <<client, chan, alive, races>>

ServerEstablished(i) ==
    /\ att[i].peer = "accepted" /\ Open(i)
    /\ att' = [att EXCEPT ![i].peer = "known"]
    /\ UNCHANGED <<client, chan, server, past>>

Bug_UnlistKeeps(i) ==    \* list_del is forgotten
    LET s == At(i) IN
    /\ count' = [count EXCEPT ![s] = IF watcher[s] = i THEN @ ELSE @ - 1]
    /\ UNCHANGED list
Unlist(i) ==
    LET s == At(i) IN
    \/ watcher[s] = i /\ UNCHANGED <<list, count>>
    \/ /\ watcher[s] # i
       /\ count' = [count EXCEPT ![s] = @ - 1]
       /\ \E k \in DOMAIN list[s] :
              list[s][k] = i /\ list' = [list EXCEPT ![s] = RemoveAt(@, k)]

\* on_cm_disconnected, or on_cm_error when the client gave up before it
\* heard of the answer (other events that tell so are ignored).
ServerDisconnected(i) ==
    /\ Served(i) /\ att[i].phase \in {"down", "dead"}
    /\ att[i].phase = "dead" => "error" \in Faults
    /\ att' = [att EXCEPT ![i].peer = "gone"]
    /\ Unlist(i)
    /\ UNCHANGED <<client, chan, alive, watcher, past>>

\* The handler of DHMP_MSG_CLOSE_CONNECTION: rdma_disconnect.
ServerClose(i) ==
    /\ att[i].phase = "closing" /\ Served(i)
    /\ att' = [att EXCEPT ![i].phase = "down"]
    /\ chan' = Put(i, "DISCONNECTED")
    /\ UNCHANGED <<client, server, past>>

ServerStep(i) ==
    ConnectRequest(i) \/ ServerEstablished(i) \/ ServerDisconnected(i) \/ ServerClose(i)

----------------------------------------------------------------------------
(***************************************************************************)
(* The connection manager and its network (external), and faults           *)
(***************************************************************************)
Move(i, from, to, kind) ==
    /\ att[i].phase = from
    /\ att' = [att EXCEPT ![i].phase = to]
    /\ chan' = Put(i, kind)
    /\ UNCHANGED <<client, server, past>>

AddrFound(i) == Move(i, "resolving", "addr", "ADDR_RESOLVED")
RouteFound(i) == Move(i, "routing", "route", "ROUTE_RESOLVED")
Accepted(i) == att[i].peer = "accepted" /\ Move(i, "asking", "up", "ESTABLISHED")

\* There is nobody to connect to, or no answer: REJECTED, UNREACHABLE and the
\* like, which the handler ignores.
Refused(i) ==
    /\ att[i].phase = "asking"
    /\ att[i].peer \in {"stale", "gone"} \/ (att[i].peer = "none" /\ ~alive[At(i)])
    /\ att' = [att EXCEPT ![i].phase = "dead"]
    /\ UNCHANGED <<client, chan, server, past>>

NetworkStep(i) == AddrFound(i) \/ RouteFound(i) \/ Accepted(i) \/ Refused(i)

\* ADDR_ERROR, ROUTE_ERROR: ignored as well.
Fail(i) ==
    /\ Fault("fail")
    /\ att[i].phase \in {"resolving", "routing"}
    /\ att' = [att EXCEPT ![i].phase = IF @ = "resolving" THEN "nodevice" ELSE "dead"]
    /\ UNCHANGED <<client, chan, server, races>>

\* CONNECT_ERROR is not.
Error(i) ==
    /\ Fault("error")
    /\ att[i].phase = "asking"
    /\ att' = [att EXCEPT ![i].phase = "dead"]
    /\ chan' = Put(i, "CONNECT_ERROR")
    /\ UNCHANGED <<client, server, races>>

Lose(i) ==
    /\ Fault("lose")
    /\ Open(i)
    /\ att' = [att EXCEPT ![i].phase = "down"]
    /\ chan' = Put(i, "DISCONNECTED")
    /\ UNCHANGED <<client, server, races>>

\* The server's process ends: its connections with it.
Crash(s) ==
    /\ Fault("crash") /\ alive[s]
    /\ alive' = [alive EXCEPT ![s] = FALSE]
    /\ att' = [i \in Attempt |->
                 IF att[i].by = None \/ att[i].by[1] # s THEN att[i]
                 ELSE [att[i] EXCEPT !.peer = IF Held(i) THEN "gone" ELSE @,
                                     !.phase = IF Open(i) THEN "down"
                                               ELSE IF Held(i) /\ @ = "asking" THEN "dead"
                                               ELSE @]]
    /\ chan' = [t \in Trans |->
                 IF t[1] # s THEN chan[t]
                 ELSE chan[t] \o SetToSeq({[kind |-> "DISCONNECTED", id |-> i] :
                                             i \in {j \in Attempt : att[j].by = t /\ Open(j)}})]
    /\ UNCHANGED <<client, list, count, watcher, races>>

\* dhmp_server_init does not set watcher_trans.
Restart(s) ==
    /\ ~alive[s]
    /\ alive' = [alive EXCEPT ![s] = TRUE]
    /\ list' = [list EXCEPT ![s] = <<>>]
    /\ count' = [count EXCEPT ![s] = 0]
    /\ \E w \in Watchers : watcher' = [watcher EXCEPT ![s] = w]
    /\ UNCHANGED <<client, chan, att, past>>

FaultStep ==
    (\E i \in Attempt : RequestFails(i) \/ Fail(i) \/ Error(i) \/ Lose(i)) \/ \E s \in Server : Crash(s)

----------------------------------------------------------------------------
Init ==
    /\ main = 1 /\ begun = FALSE
    /\ state = [t \in Trans |-> "INIT"]
    /\ cm = [t \in Trans |-> None] /\ qp = [t \in Trans |-> None]
    /\ deaf = {}
    /\ chan = [t \in Trans |-> <<>>]
    /\ att = [i \in Attempt |-> NoAttempt]
    /\ loop = "wait" /\ stop = FALSE
    /\ inRecovery = FALSE /\ threads = [t \in Trans |-> "none"]
    /\ prepare = FALSE
    /\ alive = [s \in Server |-> TRUE]
    /\ list = [s \in Server |-> <<>>]
    /\ count = [s \in Server |-> 0]
    /\ watcher \in [Server -> Watchers]
    /\ faults = 0 /\ races = {}

Next ==
    \/ MainStep
    \/ \E t \in Trans : Handle(t) \/ RecoveryStep(t)
    \/ LoopCheck
    \/ \E i \in Attempt : ServerStep(i) \/ NetworkStep(i)
    \/ FaultStep
    \/ \E s \in Server : Restart(s)

Spec == Init /\ [][Next]_vars

\* Threads that can run do, a server answers, what was sent arrives, and a
\* server that ended is started again.  Faults and the call of
\* dhmp_client_destroy may stay away.
Fairness ==
    /\ WF_vars(MainStep /\ ~AtStep("prepare"))
    /\ \A t \in Trans : WF_vars(Handle(t)) /\ WF_vars(RecoveryStep(t))
    /\ WF_vars(LoopCheck)
    /\ \A i \in Attempt : WF_vars(ServerStep(i)) /\ WF_vars(NetworkStep(i))
    /\ \A s \in Server : WF_vars(Restart(s))

FairSpec == Spec /\ Fairness

----------------------------------------------------------------------------
(***************************************************************************)
(* Properties                                                              *)
(***************************************************************************)
\* cur_connections counts connections, and handles, threads and lists hold
\* what they are declared to hold.
TypeOK ==
    /\ main \in 1 .. Len(Program) + 1 /\ begun \in BOOLEAN
    /\ state \in [Trans -> {"INIT", "CONNECTING", "CONNECTED", "DISCONNECTED", "ERROR"}]
    /\ cm \in [Trans -> Attempt \union {None}] /\ qp \in [Trans -> Attempt \union {None}]
    /\ deaf \subseteq Trans
    /\ chan \in [Trans -> Seq([kind : Event, id : Attempt])]
    /\ att \in [Attempt -> [by : Trans \union {None}, phase : Phase, bound : BOOLEAN,
                            peer : {"none", "accepted", "known", "stale", "gone"}, poll : BOOLEAN]]
    /\ loop \in {"wait", "handle", "done", "crashed"} /\ stop \in BOOLEAN
    /\ inRecovery \in BOOLEAN /\ prepare \in BOOLEAN
    /\ threads \in [Trans -> {"none", "loop", "connecting", "sleep", "call"}]
    /\ alive \in [Server -> BOOLEAN]
    /\ list \in [Server -> Seq(Attempt)]
    /\ count \in [Server -> Nat]
    /\ watcher \in [Server -> Attempt \union {None, Taken}]
    /\ faults \in 0..MaxFault /\ races \subseteq {"retry", "late", "request"}

\* A server's client_list holds the connections that it serves, each once,
\* but for the first, which it takes for the watcher's, and beside them only
\* those that it listed and then failed to accept, which stay;
\* cur_connections is their number.  It has to hold through crashes, losses
\* in any order and retries that overlap (dhmp_transport.c,
\* on_cm_connect_request, on_cm_disconnected and on_cm_error).
ServerLists ==
    \A s \in Server : alive[s] =>
        /\ count[s] = Len(list[s])
        /\ \A k, l \in DOMAIN list[s] : list[s][k] = list[s][l] => k = l
        /\ \A k \in DOMAIN list[s] :
               watcher[s] # list[s][k] /\ Held(list[s][k]) /\ At(list[s][k]) = s
        /\ \A i \in Attempt :
               Held(i) /\ At(i) = s => watcher[s] = i \/ \E k \in DOMAIN list[s] : list[s][k] = i

\* fuse_recover never runs twice at a time: there is one recovery thread, from
\* the loss it was started for until the callback returned, and in_recovery
\* says so (on_cm_disconnected, recovery_thread).
OneRecovery ==
    /\ \A t, u \in Trans : threads[t] # "none" /\ threads[u] # "none" => t = u
    /\ inRecovery <=> \E t \in Trans : threads[t] # "none"

\* The event loop, which every connection and every answer needs, ends for
\* dhmp_client_destroy only, as long as the recovery thread's sleep(1) has
\* outlasted its attempts: no order of losses, failures and events makes
\* on_cm_route_resolved connect an attempt without a route, the error path of
\* which sets ctx->stop, or a handler use a cm_id that is NULL.
LoopRuns == "retry" \notin races => (stop \/ loop \in {"done", "crashed"} => prepare)

\* A transport that says CONNECTED has its qp on a connection that is up, or
\* the event that says otherwise is in its channel: a request that is posted
\* because of trans_state is not posted to a qp that never was connected.  A
\* retry that overtook the attempt before is the one exception: the event of
\* one attempt is then taken for the other's.
ConnectedIsUsable ==
    "retry" \notin races =>
        \A t \in Trans : state[t] = "CONNECTED" =>
            /\ qp[t] # None
            /\ \/ Open(qp[t])
               \/ \E k \in DOMAIN chan[t] : chan[t][k] = [kind |-> "DISCONNECTED", id |-> qp[t]]

\* Client and server agree which connection is the poll link, although the
\* server guesses it from the addresses of the connections it knows (and the
\* buffers it posts for a link depend on it), as long as nothing failed, the
\* watcher has its own connection and no request came to the server before
\* the established event of the connection it had accepted before.
KindsAgree ==
    faults = 0 /\ "request" \notin races /\ (\A s \in Server : watcher[s] = Taken) =>
        \A i \in Attempt : Served(i) => att[i].poll = att[i].by[2]

\* A recovery that has begun gets to its callback: the lost link is connected
\* again once the server is back, whichever attempts could not be begun or
\* got no answer before.  The exceptions are the end of the program, an
\* attempt that ended with CONNECT_ERROR, after which nobody listens to the
\* transport's events, and the races of the thread with the event loop: a
\* retry that overtook an attempt, a CONNECTED written over.
RecoveryEnds ==
    \A t \in Trans :
        threads[t] = "loop" ~>
            threads[t] = "call" \/ prepare \/ t \in deaf \/ races \intersect {"retry", "late"} # {}

----------------------------------------------------------------------------
(***************************************************************************)
(* What the documentation says and the code does not do (see README).      *)
(***************************************************************************)
\* dhmp.h on dhmp_client_init: "client connect the all server".  An attempt
\* that ends with CONNECT_ERROR ends the wait of dhmp_client_init too.
ClientConnectsAll ==
    [][main <= Len(InitPart) /\ main' > Len(InitPart) => \A t \in Trans : state[t] # "ERROR"]_vars

\* dhmp_fs_recovery.c: the callback allocates the banks of the recovered
\* server anew, which takes the normal link.  When the poll link's event comes
\* first it takes the recovery slot, and the normal link's is ignored.
RecoveredIsReachable ==
    [][\A t \in Trans : threads[t] = "loop" /\ threads'[t] = "call"
                          => state[Normal(t[1])] = "CONNECTED"]_vars

\* dhmp.h on dhmp_client_destroy: "clean RDMA resources".  It joins the event
\* loop, which looks at stop after events only.
DestroyReturns == prepare ~> main > Len(Program)
=============================================================================
