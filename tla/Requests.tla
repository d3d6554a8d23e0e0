------------------------------ MODULE Requests ------------------------------
(***************************************************************************)
(* The client of DHMP and the servers it talks to: dhmp_malloc, dhmp_free, *)
(* dhmp_read, dhmp_write, dhmp_send (src/dhmp_client/src/dhmp_client.c),   *)
(* the thread that works on them (dhmp_work.c), the transfers and the      *)
(* event loops that end them (dhmp_transport.c).                           *)
(*                                                                         *)
(* A caller appends a work to work_list and spins on its done_flag.  The   *)
(* work thread takes works in order, posts messages and transfers on the   *)
(* queue pair of a server, and spins on flags which the client's event     *)
(* loop sets.  dhmp_send does all of this in the caller's own thread.  A   *)
(* queue pair is a FIFO `wire' to the server and a FIFO `back' of answers  *)
(* and completions; `inbox' holds what the server's event loop has yet to  *)
(* handle.  The server's choice of a block is free here: see Buddy.        *)
(*                                                                         *)
(* A connection may be lost at any time, with the server's memory or       *)
(* without.  What was under way then is dropped, and nobody tells the      *)
(* threads that spin: dhmp_wc_error_handler sets no flag.                  *)
(***************************************************************************)
EXTENDS Integers, Sequences, FiniteSets

CONSTANTS Caller,     \* threads that call the client
          Server,     \* node ids
          Block,      \* addresses of blocks within a server
          Value,      \* contents of a block, or of what a transfer covers
          Zero,       \* content of fresh memory
          Null,       \* NULL, and "no answer" where there is none to give
          Junk,       \* an address field that was never written
          Pending,    \* the request has not taken effect
          NoCall,     \* the caller waits for nothing
          Hash,       \* Hash[<<s, b>>]: bucket of an address, dhmp_hash_in_client
          Length,     \* lengths of transfers
          Threshold,  \* RDMA_SEND_THREASHOLD: longer ones use the caller's buffer
          Op,         \* operations the callers use
          MaxInfo,    \* bound: structs dhmp_addr_info that fit in the heap
          MaxSmr,     \* bound: registered buffers
          MaxLosses   \* bound: connections to a server lost

Address == Server \X Block
Info    == 1 .. MaxInfo
Own     == 0                    \* the buffer of a long transfer: the caller's
Smr     == 1 .. MaxSmr

Request ==
  [op : {"malloc"} \cap Op, srv : Server, blk : {Null}, val : {Zero}, len : {0}]
  \cup [op : {"free"} \cap Op, srv : Server, blk : Block, val : {Zero}, len : {0}]
  \cup [op : {"read"} \cap Op, srv : Server, blk : Block, val : {Zero}, len : Length]
  \cup [op : {"write"} \cap Op, srv : Server, blk : Block, val : Value, len : Length]
  \cup [op : {"fetch"} \cap Op, srv : Server, blk : Block, val : {Zero}, len : {0}]
  \cup [op : {"send"} \cap Op, srv : Server, blk : Block, val : Value, len : {0}]

ASSUME ServerAssumption == Server # {}
ASSUME ValueAssumption == Zero \in Value /\ Pending \notin Value /\ Null \notin Value
ASSUME MarkAssumption == "absent" \notin Value /\ "gone" \notin Value
ASSUME BlockAssumption == Null \notin Block /\ Junk \notin Block /\ Junk # Null
ASSUME AnswerAssumption == /\ Pending # Null /\ Pending \notin Address
                           /\ Null \notin Address /\ NoCall \notin Request
ASSUME LengthAssumption == Length \subseteq Nat \ {0} /\ Threshold \in Nat
ASSUME BoundsAssumption == MaxInfo \in Nat /\ MaxSmr \in Nat /\ MaxLosses \in Nat
ASSUME OpAssumption == Op \subseteq {"malloc", "free", "read", "write", "fetch", "send"}

VARIABLES call,     \* call[c]: the request of c
          st,       \* st[c]: where c is
          sat,      \* sat[c]: the addr_info that dhmp_send of c uses
          res,      \* res[c]: outcome of the request, from its effect on
          works,    \* work_list
          pc, who, at, smr,  \* work thread: place, caller served, addr_info, buffer
          flags,    \* task flags the event loop has set for the work thread
          inf,      \* the structs dhmp_addr_info
          table,    \* addr_info_ht: all entries, newest first
          pool,     \* send_mr_list
          buf,      \* buf[m]: registered length and content of buffer m
          conn,     \* conn[s]: "up", "error" (connected, queue pair in error), "down"
          recov,    \* recovery thread: "none", "connect" or "callback", for server
          losses,   \* losses[s]: connections to s lost so far
          wire, inbox, back, \* per server, see above
          hand,     \* what the client's event loop has in hand
          alloc,    \* alloc[s]: blocks server s has given out
          mem,      \* mem[s]: content of its memory
          epoch,    \* epoch[s]: how often s started; its keys are of this epoch
          past      \* history: what has gone wrong so far, see Remember

callVars   == <<call, st, sat, res>>
threadVars == <<pc, who, at, smr, flags>>
tableVars  == <<inf, table>>
poolVars   == <<pool, buf>>
connVars   == <<conn, recov, losses>>
wireVars   == <<wire, inbox, back>>
serverVars == <<alloc, mem, epoch>>
vars == <<callVars, works, threadVars, tableVars, poolVars, connVars, wireVars,
          hand, serverVars>>

\* A struct as malloc returns it; `live' is for the heap.  `key' is the key
\* the server gave, `keyed' whether the client has got it yet.
NoInfo    == [live |-> FALSE, srv |-> 0, addr |-> Null, len |-> FALSE,
              key |-> 0, keyed |-> FALSE, wflag |-> FALSE]
Idle      == [m |-> "nothing"]
NoServer  == [phase |-> "none", srv |-> 0]
FirstOf(S) == CHOOSE x \in S : \A y \in S : x =< y
Drop(s, k) == SubSeq(s, 1, k - 1) \o SubSeq(s, k + 1, Len(s))
Running   == \A c \in Caller : st[c] # "crashed"
InRecovery == recov.phase # "none"
\* trans_state is CONNECTED: the client does not see a queue pair in error.
Connected(s) == conn[s] \in {"up", "error"}

Init == /\ call = [c \in Caller |-> NoCall]
        /\ st = [c \in Caller |-> "idle"]
        /\ sat = [c \in Caller |-> 0]
        /\ res = [c \in Caller |-> Pending]
        /\ works = <<>>
        /\ pc = "take" /\ who = Null /\ at = 0 /\ smr = Own /\ flags = {}
        /\ inf = [i \in Info |-> NoInfo]
        /\ table = <<>>
        /\ pool = <<>>
        /\ buf = [m \in Smr \cup {Own} |-> [len |-> 0, data |-> Zero]]
        /\ conn = [s \in Server |-> "up"]
        /\ recov = NoServer
        /\ losses = [s \in Server |-> 0]
        /\ wire = [s \in Server |-> <<>>]
        /\ inbox = [s \in Server |-> <<>>]
        /\ back = [s \in Server |-> <<>>]
        /\ hand = Idle
        /\ alloc = [s \in Server |-> {}]
        /\ mem = [s \in Server |-> [b \in Block |-> Zero]]
        /\ epoch = [s \in Server |-> 0]

-----------------------------------------------------------------------------
(* Callers.                                                                *)

\* c asks for r.  Without a connection the code returns at once, which
\* changes nothing.
Asks(c, r) == /\ st[c] = "idle" /\ Connected(r.srv)
              /\ call' = [call EXCEPT ![c] = r]
              /\ UNCHANGED <<res, threadVars, table, poolVars, connVars, wireVars, hand,
                             serverVars>>
Queued(c) == /\ st' = [st EXCEPT ![c] = "waiting"]
             /\ works' = Append(works, c)

\* dhmp_malloc; the addr_info is fresh from the heap.
CallMalloc(c, r) ==
  /\ r.op = "malloc" /\ Asks(c, r) /\ Queued(c)
  /\ \E i \in Info : ~inf[i].live
  /\ LET i == FirstOf({j \in Info : ~inf[j].live}) IN
     /\ inf' = [inf EXCEPT ![i] = [NoInfo EXCEPT !.live = TRUE, !.srv = r.srv, !.addr = Junk]]
     /\ sat' = [sat EXCEPT ![c] = i]

\* dhmp_free, dhmp_read, dhmp_write
CallWork(c, r) ==
  /\ r.op \in {"free", "read", "write"} /\ Asks(c, r) /\ Queued(c)
  /\ UNCHANGED <<inf, sat>>

\* dhmp_send keeps its work to itself.
CallSend(c, r) ==
  /\ r.op \in {"send", "fetch"} /\ Asks(c, r)
  /\ st' = [st EXCEPT ![c] = "lookup"]
  /\ UNCHANGED <<works, inf, sat>>

Call(c) == \E r \in Request : CallMalloc(c, r) \/ CallWork(c, r) \/ CallSend(c, r)

\* done_flag is seen.
Return(c) ==
  /\ st[c] = "done"
  /\ st' = [st EXCEPT ![c] = "idle"]
  /\ call' = [call EXCEPT ![c] = NoCall]
  /\ res' = [res EXCEPT ![c] = Pending]
  /\ sat' = [sat EXCEPT ![c] = 0]
  /\ UNCHANGED <<works, threadVars, tableVars, poolVars, connVars, wireVars, hand, serverVars>>

\* dhmp_post_send and ibv_post_send: without a connection, or on a queue
\* pair in error, nothing happens, and nobody is told.
Post(s, msgs) == wire' = [wire EXCEPT ![s] = IF conn[s] = "up" THEN @ \o msgs ELSE @]

\* dhmp_get_addr_info_from_ht compares only the address within the server.
Hits(s, b) == {k \in DOMAIN table :
                 /\ inf[table[k]].addr = b
                 /\ Hash[<<inf[table[k]].srv, b>>] = Hash[<<s, b>>]}
Found(s, b) == Hits(s, b) # {}
Entry(s, b) == FirstOf(Hits(s, b))

-----------------------------------------------------------------------------
(* The work thread.                                                        *)

MyCall == call[who]
Goto(place) == pc' = place
\* rkey of an entry, as the client has it.
KeyOf(i) == IF inf[i].keyed THEN <<inf[i].srv, inf[i].key>> ELSE <<>>
FreeInfo(i) == inf' = [inf EXCEPT ![i] = NoInfo]
Told(x) == res' = [res EXCEPT ![who] = x]

Bug_TakeWork ==   \* the work stays in the list
  /\ pc = "take" /\ works # <<>>
  /\ who' = Head(works) /\ pc' = call[Head(works)].op
  /\ UNCHANGED <<callVars, works, at, smr, flags, tableVars, poolVars, connVars, wireVars,
                 hand, serverVars>>

TakeWork ==
  /\ pc = "take" /\ works # <<>>
  /\ who' = Head(works) /\ works' = Tail(works)
  /\ pc' = call[Head(works)].op
  /\ UNCHANGED <<callVars, at, smr, flags, tableVars, poolVars, connVars, wireVars,
                 hand, serverVars>>

\* dhmp_malloc_work_handler
PostMalloc ==
  /\ pc = "malloc"
  /\ Post(MyCall.srv, <<[m |-> "malloc", i |-> sat[who]]>>)
  /\ at' = sat[who]
  /\ Goto("await_malloc")
  /\ UNCHANGED <<callVars, works, who, smr, flags, tableVars, poolVars, connVars,
                 inbox, back, hand, serverVars>>

Bug_AwaitMallocTail ==   \* new entries at the end of their bucket
  /\ pc = "await_malloc" /\ inf[at].len
  /\ IF inf[at].addr = Null
     THEN FreeInfo(at) /\ Told(Null) /\ UNCHANGED table
     ELSE /\ inf' = [inf EXCEPT ![at].wflag = FALSE]
          /\ table' = Append(table, at)
          /\ Told(<<MyCall.srv, inf[at].addr>>)
  /\ Goto("finish")
  /\ UNCHANGED <<call, st, sat, works, who, at, smr, flags, poolVars, connVars, wireVars,
                 hand, serverVars>>

\* The thread has seen a length, and a as the address.
Take(x, a) ==
  /\ IF a = Null
     THEN FreeInfo(at) /\ Told(Null) /\ UNCHANGED table
     ELSE /\ inf' = [inf EXCEPT ![at] = [x EXCEPT !.addr = a, !.wflag = FALSE]]
          /\ table' = <<at>> \o table
          /\ Told(<<MyCall.srv, a>>)
  /\ Goto("finish")
  /\ UNCHANGED <<call, st, sat, works, who, at, smr, flags, poolVars, connVars, wireVars,
                 serverVars>>

AwaitMalloc ==
  /\ pc = "await_malloc" /\ inf[at].len
  /\ Take(inf[at], inf[at].addr)
  /\ UNCHANGED hand

\* The same while the event loop writes the answer: address and length of a
\* block are there, its keys are not; or the length of a refusal is, its
\* address is not.  What is left for the event loop to write stays in hand.
AwaitTorn ==
  /\ pc = "await_malloc" /\ ~inf[at].len
  /\ hand.m \in {"malloc", "error"} /\ hand.i = at
  /\ \/ /\ hand.m = "malloc"
        /\ Take([inf[at] EXCEPT !.len = TRUE, !.key = hand.key], hand.b)
        /\ hand' = [m |-> "keys", i |-> at]
     \/ /\ hand.m = "error"
        /\ \E a \in Block \cup {Null} : Take([inf[at] EXCEPT !.len = TRUE], a)
        /\ hand' = [m |-> "null", i |-> at]

\* dhmp_free_work_handler: the entry goes first.
FreeLookup ==
  /\ pc = "free"
  /\ IF Found(MyCall.srv, MyCall.blk)
     THEN LET k == Entry(MyCall.srv, MyCall.blk) IN
          /\ at' = table[k]
          /\ table' = Drop(table, k)
          /\ Goto("free_post")
     ELSE Goto("finish") /\ UNCHANGED <<at, table>>
  /\ Told(Null)
  /\ UNCHANGED <<call, st, sat, works, who, smr, flags, inf, poolVars, connVars, wireVars,
                 hand, serverVars>>

Bug_FreePost ==   \* never asks the server
  /\ pc = "free_post"
  /\ FreeInfo(at) /\ Goto("finish")
  /\ UNCHANGED <<callVars, works, who, at, smr, flags, table, poolVars, connVars, wireVars,
                 hand, serverVars>>

FreePost ==
  /\ pc = "free_post"
  /\ IF InRecovery
     THEN FreeInfo(at) /\ Goto("finish") /\ UNCHANGED wire
     ELSE /\ Post(MyCall.srv, <<[m |-> "free", i |-> at, b |-> inf[at].addr,
                                 key |-> KeyOf(at)]>>)
          /\ Goto("await_free") /\ UNCHANGED inf
  /\ UNCHANGED <<callVars, works, who, at, smr, flags, table, poolVars, connVars,
                 inbox, back, hand, serverVars>>

AwaitFree ==
  /\ pc = "await_free" /\ inf[at].addr = Null
  /\ FreeInfo(at)
  /\ Goto("finish")
  /\ UNCHANGED <<callVars, works, who, at, smr, flags, table, poolVars, connVars,
                 wireVars, hand, serverVars>>

\* dhmp_read_work_handler, dhmp_write_work_handler
Lookup ==
  /\ pc \in {"read", "write"}
  /\ IF Found(MyCall.srv, MyCall.blk)
     THEN /\ at' = table[Entry(MyCall.srv, MyCall.blk)]
          /\ Goto(IF pc = "read" THEN "read_spin" ELSE "write_spin")
          /\ UNCHANGED res
     ELSE Goto("finish") /\ Told(Null) /\ UNCHANGED at
  /\ UNCHANGED <<call, st, sat, works, who, smr, flags, tableVars, poolVars, connVars,
                 wireVars, hand, serverVars>>

Bug_TakeBuffer(len) ==   \* the buffer stays in the list
  LET fit == {k \in DOMAIN pool : buf[pool[k]].len >= len}
      new == {m \in Smr : buf[m].len = 0} IN
  \/ len > Threshold /\ smr' = Own /\ UNCHANGED pool
  \/ len =< Threshold /\ fit # {} /\ smr' = pool[FirstOf(fit)] /\ UNCHANGED pool
  \/ len =< Threshold /\ fit = {} /\ new # {} /\ smr' = FirstOf(new) /\ UNCHANGED pool

\* dhmp_get_mr_from_send_list: the first buffer that is long enough, or a new one.
TakeBuffer(len) ==
  LET fit == {k \in DOMAIN pool : buf[pool[k]].len >= len}
      new == {m \in Smr : buf[m].len = 0} IN
  \/ len > Threshold /\ smr' = Own /\ UNCHANGED pool
  \/ /\ len =< Threshold /\ fit # {}
     /\ smr' = pool[FirstOf(fit)]
     /\ pool' = Drop(pool, FirstOf(fit))
  \/ /\ len =< Threshold /\ fit = {} /\ new # {}
     /\ smr' = FirstOf(new)
     /\ UNCHANGED pool

Filled(len, x) == buf' = [buf EXCEPT ![smr'] =
                    [len |-> IF buf[smr'].len = 0 THEN len ELSE buf[smr'].len, data |-> x]]

\* dhmp_rdma_read
ReadPost ==
  /\ pc = "read_spin" /\ ~inf[at].wflag
  /\ TakeBuffer(MyCall.len)
  /\ Filled(MyCall.len, buf[smr'].data)
  /\ flags' = {}
  /\ Post(MyCall.srv, <<[m |-> "read", b |-> inf[at].addr, key |-> KeyOf(at), smr |-> smr']>>)
  /\ Goto("await_read")
  /\ UNCHANGED <<callVars, works, who, at, tableVars, connVars, inbox, back, hand, serverVars>>

\* A buffer of the pool is copied and put back, the caller's is released.
AwaitRead ==
  /\ pc = "await_read" /\ "read" \in flags
  /\ Told(buf[smr].data)
  /\ IF smr = Own THEN /\ buf' = [buf EXCEPT ![Own] = [len |-> 0, data |-> Zero]]
                       /\ UNCHANGED pool
                  ELSE pool' = <<smr>> \o pool /\ UNCHANGED buf
  /\ smr' = Own
  /\ Goto("finish")
  /\ UNCHANGED <<call, st, sat, works, who, at, flags, tableVars, connVars, wireVars,
                 hand, serverVars>>

WriteCheck ==
  /\ pc = "write_spin" /\ ~inf[at].wflag
  /\ Goto("write_post")
  /\ UNCHANGED <<callVars, works, who, at, smr, flags, tableVars, poolVars, connVars,
                 wireVars, hand, serverVars>>

\* The flag, then dhmp_rdma_write: the transfer and a read behind it.
WritePost ==
  /\ pc = "write_post"
  /\ inf' = [inf EXCEPT ![at].wflag = TRUE]
  /\ TakeBuffer(MyCall.len)
  /\ Filled(MyCall.len, MyCall.val)
  /\ flags' = {}
  /\ Post(MyCall.srv, <<[m |-> "write", b |-> inf[at].addr, key |-> KeyOf(at), smr |-> smr', i |-> at],
                        [m |-> "check", key |-> KeyOf(at)]>>)
  /\ Goto("await_write")
  /\ UNCHANGED <<callVars, works, who, at, table, connVars, inbox, back, hand, serverVars>>

AwaitWrite ==
  /\ pc = "await_write" /\ {"write", "check"} \subseteq flags
  /\ IF smr = Own THEN buf' = [buf EXCEPT ![Own] = [len |-> 0, data |-> Zero]]
                  ELSE UNCHANGED buf
  /\ smr' = Own
  /\ Goto("finish")
  /\ UNCHANGED <<callVars, works, who, at, flags, tableVars, pool, connVars, wireVars,
                 hand, serverVars>>

\* done_flag is the last thing the thread writes to the caller's work.
Finish ==
  /\ pc = "finish"
  /\ st' = [st EXCEPT ![who] = "done"]
  /\ pc' = "take" /\ who' = Null /\ at' = 0 /\ flags' = {}
  /\ UNCHANGED <<call, sat, res, works, smr, tableVars, poolVars, connVars, wireVars,
                 hand, serverVars>>

ThreadStep == \/ TakeWork \/ PostMalloc \/ AwaitMalloc \/ FreeLookup \/ FreePost \/ AwaitFree
              \/ Lookup \/ ReadPost \/ AwaitRead \/ WriteCheck \/ WritePost \/ AwaitWrite
              \/ Finish

-----------------------------------------------------------------------------
(* dhmp_send, in the thread of the caller.                                 *)

SendLookup(c) ==
  /\ st[c] = "lookup"
  /\ IF Found(call[c].srv, call[c].blk)
     THEN /\ sat' = [sat EXCEPT ![c] = table[Entry(call[c].srv, call[c].blk)]]
          /\ st' = [st EXCEPT ![c] = "check"]
     ELSE st' = [st EXCEPT ![c] = "crashed"] /\ UNCHANGED sat   \* NULL->write_flag
  /\ UNCHANGED <<call, res, works, threadVars, tableVars, poolVars, connVars, wireVars,
                 hand, serverVars>>

SendCheck(c) ==
  /\ st[c] = "check" /\ ~inf[sat[c]].wflag
  /\ st' = [st EXCEPT ![c] = "post"]
  /\ UNCHANGED <<call, sat, res, works, threadVars, tableVars, poolVars, connVars, wireVars,
                 hand, serverVars>>

SendPost(c) ==
  /\ st[c] = "post"
  /\ inf' = [inf EXCEPT ![sat[c]].wflag = TRUE]
  /\ Post(call[c].srv, <<[m |-> "send", c |-> c, b |-> inf[sat[c]].addr]>>)
  /\ st' = [st EXCEPT ![c] = "await"]
  /\ UNCHANGED <<call, sat, res, works, threadVars, table, poolVars, connVars, inbox, back,
                 hand, serverVars>>

\* recv_flag is seen.
SendOut(c) ==
  /\ st[c] = "received"
  /\ inf' = [inf EXCEPT ![sat[c]].wflag = FALSE]
  /\ st' = [st EXCEPT ![c] = "done"]
  /\ UNCHANGED <<call, sat, res, works, threadVars, table, poolVars, connVars, wireVars,
                 hand, serverVars>>

-----------------------------------------------------------------------------
(* Queue pair, server, event loop of the client.                           *)

Answer(s, x) == back' = [back EXCEPT ![s] = IF conn[s] = "up" THEN Append(@, x) ELSE @]
Arrived(s) == wire' = [wire EXCEPT ![s] = Tail(@)]
\* A transfer with a wrong key puts the queue pair in error.
Allowed(s, w) == w.key = <<s, epoch[s]>>
Refuse(s) == /\ conn' = [conn EXCEPT ![s] = "error"]
             /\ wire' = [wire EXCEPT ![s] = <<>>]
             /\ UNCHANGED <<inbox, back, mem, buf, res>>

\* Messages go to the server's program; its network card does the
\* transfers.  (res is history here: the transfer has taken effect.)
Transfer(s) ==
  /\ conn[s] = "up" /\ wire[s] # <<>>
  /\ LET w == Head(wire[s]) IN
     \/ /\ w.m \in {"malloc", "free", "send"}
        /\ inbox' = [inbox EXCEPT ![s] = Append(@, w)]
        /\ Arrived(s) /\ UNCHANGED <<conn, back, mem, buf, res>>
     \/ w.m \in {"write", "read", "check"} /\ ~Allowed(s, w) /\ Refuse(s)
     \/ /\ w.m = "write" /\ Allowed(s, w)
        /\ mem' = [mem EXCEPT ![s][w.b] = buf[w.smr].data]
        /\ res' = [res EXCEPT ![who] = Null]
        /\ Answer(s, [m |-> "write", i |-> w.i, smr |-> w.smr])
        /\ Arrived(s) /\ UNCHANGED <<conn, inbox, buf>>
     \/ /\ w.m = "read" /\ Allowed(s, w)
        /\ buf' = [buf EXCEPT ![w.smr].data = mem[s][w.b]]
        /\ res' = [res EXCEPT ![who] = mem[s][w.b]]
        /\ Answer(s, [m |-> "read"])
        /\ Arrived(s) /\ UNCHANGED <<conn, inbox, mem>>
     \/ /\ w.m = "check" /\ Allowed(s, w)
        /\ Answer(s, [m |-> "check"])
        /\ Arrived(s) /\ UNCHANGED <<conn, inbox, mem, buf, res>>
  /\ UNCHANGED <<call, st, sat, works, threadVars, tableVars, pool, recov, losses, hand,
                 alloc, epoch>>

Handled(s) == inbox' = [inbox EXCEPT ![s] = Tail(@)]

\* dhmp_malloc_request_handler: a block nobody has (it is scribbled on), or an error.
ServeMalloc(s) ==
  /\ inbox[s] # <<>> /\ Head(inbox[s]).m = "malloc"
  /\ LET w == Head(inbox[s]) IN
     \/ \E b \in Block \ alloc[s], v \in Value :
          /\ alloc' = [alloc EXCEPT ![s] = @ \cup {b}]
          /\ mem' = [mem EXCEPT ![s][b] = v]
          /\ Answer(s, [m |-> "malloc", i |-> w.i, b |-> b, key |-> epoch[s]])
     \/ /\ alloc[s] = Block
        /\ Answer(s, [m |-> "error", i |-> w.i])
        /\ UNCHANGED <<alloc, mem>>
  /\ Handled(s)
  /\ UNCHANGED <<callVars, works, threadVars, tableVars, poolVars, connVars, wire, hand, epoch>>

\* dhmp_free_request_handler: found by the key of its area.
ServeFree(s) ==
  /\ inbox[s] # <<>> /\ Head(inbox[s]).m = "free"
  /\ LET w == Head(inbox[s]) IN
     /\ alloc' = [alloc EXCEPT ![s] = IF Allowed(s, w) THEN @ \ {w.b} ELSE @]
     /\ Answer(s, [m |-> "free", i |-> w.i])
  /\ Handled(s)
  /\ UNCHANGED <<callVars, works, threadVars, tableVars, poolVars, connVars, wire, hand,
                 mem, epoch>>

Bug_ServeSend(s) ==   \* copies out of memory in any case
  /\ inbox[s] # <<>> /\ Head(inbox[s]).m = "send"
  /\ LET w == Head(inbox[s]) IN
     /\ res' = [res EXCEPT ![w.c] = mem[s][w.b]]
     /\ Answer(s, [m |-> "send", c |-> w.c])
  /\ Handled(s)
  /\ UNCHANGED <<call, st, sat, works, threadVars, tableVars, poolVars, connVars, wire, hand,
                 serverVars>>

\* dhmp_send_request_handler
ServeSend(s) ==
  /\ inbox[s] # <<>> /\ Head(inbox[s]).m = "send"
  /\ LET w == Head(inbox[s]) IN
     /\ \/ /\ call[w.c].op = "send"
           /\ mem' = [mem EXCEPT ![s][w.b] = call[w.c].val]
           /\ res' = [res EXCEPT ![w.c] = Null]
        \/ /\ call[w.c].op = "fetch"
           /\ res' = [res EXCEPT ![w.c] = mem[s][w.b]]
           /\ UNCHANGED mem
     /\ Answer(s, [m |-> "send", c |-> w.c])
  /\ Handled(s)
  /\ UNCHANGED <<call, st, sat, works, threadVars, tableVars, poolVars, connVars, wire, hand,
                 alloc, epoch>>

\* The client's event loop takes the next completion of a queue pair.
Complete(s) ==
  /\ hand = Idle /\ back[s] # <<>>
  /\ hand' = Head(back[s])
  /\ back' = [back EXCEPT ![s] = Tail(@)]
  /\ UNCHANGED <<callVars, works, threadVars, tableVars, poolVars, connVars, wire, inbox,
                 serverVars>>

InHand(kind) == hand.m = kind
\* A struct that was freed meanwhile is not ours to model.
SetInfo(i, x) == inf' = IF inf[i].live THEN [inf EXCEPT ![i] = x] ELSE inf

\* dhmp_malloc_response_handler: memcpy of a struct ibv_mr.
HandleMalloc ==
  /\ InHand("malloc")
  /\ SetInfo(hand.i, [inf[hand.i] EXCEPT !.addr = hand.b, !.len = TRUE, !.key = hand.key,
                                         !.keyed = TRUE])
  /\ hand' = Idle
  /\ UNCHANGED <<callVars, works, threadVars, table, poolVars, connVars, wireVars, serverVars>>

\* The rest of that, when the thread did not wait for it.
HandleKeys ==
  /\ InHand("keys")
  /\ SetInfo(hand.i, [inf[hand.i] EXCEPT !.keyed = TRUE])
  /\ hand' = Idle
  /\ UNCHANGED <<callVars, works, threadVars, table, poolVars, connVars, wireVars, serverVars>>

\* dhmp_malloc_error_handler: the length first, then the address.
HandleError ==
  /\ InHand("error")
  /\ SetInfo(hand.i, [inf[hand.i] EXCEPT !.len = TRUE, !.addr = Null])
  /\ hand' = Idle
  /\ UNCHANGED <<callVars, works, threadVars, table, poolVars, connVars, wireVars, serverVars>>

\* dhmp_free_response_handler, and the rest of the error handler.
HandleNull ==
  /\ hand.m \in {"null", "free"}
  /\ SetInfo(hand.i, [inf[hand.i] EXCEPT !.addr = Null])
  /\ hand' = Idle
  /\ UNCHANGED <<callVars, works, threadVars, table, poolVars, connVars, wireVars, serverVars>>

\* IBV_WC_RDMA_WRITE: the buffer goes back before the flags are set.
HandleWrite ==
  /\ InHand("write")
  /\ pool' = IF hand.smr = Own THEN pool ELSE <<hand.smr>> \o pool
  /\ hand' = [m |-> "written", i |-> hand.i]
  /\ UNCHANGED <<callVars, works, threadVars, tableVars, buf, connVars, wireVars, serverVars>>

Bug_HandleWritten ==   \* write_flag is not reset
  /\ InHand("written")
  /\ flags' = flags \cup {"write"}
  /\ hand' = Idle
  /\ UNCHANGED <<callVars, works, pc, who, at, smr, tableVars, poolVars, connVars, wireVars,
                 serverVars>>

HandleWritten ==
  /\ InHand("written")
  /\ SetInfo(hand.i, [inf[hand.i] EXCEPT !.wflag = FALSE])
  /\ flags' = flags \cup {"write"}
  /\ hand' = Idle
  /\ UNCHANGED <<callVars, works, pc, who, at, smr, table, poolVars, connVars, wireVars,
                 serverVars>>

\* IBV_WC_RDMA_READ
HandleRead ==
  /\ hand.m \in {"read", "check"}
  /\ flags' = flags \cup {hand.m}
  /\ hand' = Idle
  /\ UNCHANGED <<callVars, works, pc, who, at, smr, tableVars, poolVars, connVars, wireVars,
                 serverVars>>

\* dhmp_send_response_handler
HandleSend ==
  /\ InHand("send")
  /\ st' = [st EXCEPT ![hand.c] = "received"]
  /\ hand' = Idle
  /\ UNCHANGED <<call, sat, res, works, threadVars, tableVars, poolVars, connVars, wireVars,
                 serverVars>>

LoopStep == \/ HandleMalloc \/ HandleKeys \/ HandleError \/ HandleNull
            \/ HandleWrite \/ HandleWritten \/ HandleRead \/ HandleSend

-----------------------------------------------------------------------------
(* Connections.                                                            *)

\* on_cm_disconnected.  What the server had not handled is dropped, and of
\* its answers only some have arrived; its memory goes if it failed.
Lose(s) ==
  /\ Connected(s) /\ losses[s] < MaxLosses
  /\ losses' = [losses EXCEPT ![s] = @ + 1]
  /\ conn' = [conn EXCEPT ![s] = "down"]
  /\ recov' = IF InRecovery THEN recov ELSE [phase |-> "connect", srv |-> s]
  /\ wire' = [wire EXCEPT ![s] = <<>>]
  /\ inbox' = [inbox EXCEPT ![s] = <<>>]
  /\ \E n \in 0 .. Len(back[s]) : back' = [back EXCEPT ![s] = SubSeq(@, 1, n)]
  /\ \/ /\ alloc' = [alloc EXCEPT ![s] = {}]
        /\ mem' = [mem EXCEPT ![s] = [b \in Block |-> Zero]]
        /\ epoch' = [epoch EXCEPT ![s] = @ + 1]
     \/ UNCHANGED serverVars
  /\ UNCHANGED <<callVars, works, threadVars, tableVars, poolVars, hand>>

\* recovery_thread: reconnect until CONNECTED, call client->recovery (whose
\* frees and mallocs are those of one more caller), clear in_recovery.
Reconnect ==
  /\ recov.phase = "connect"
  /\ conn' = [conn EXCEPT ![recov.srv] = "up"]
  /\ recov' = [recov EXCEPT !.phase = "callback"]
  /\ UNCHANGED <<callVars, works, threadVars, tableVars, poolVars, losses, wireVars, hand,
                 serverVars>>

Recovered ==
  /\ recov.phase = "callback"
  /\ recov' = NoServer
  /\ UNCHANGED <<callVars, works, threadVars, tableVars, poolVars, conn, losses, wireVars,
                 hand, serverVars>>

SendStep(c) == SendLookup(c) \/ SendCheck(c) \/ SendPost(c) \/ SendOut(c)
ServerStep(s) == ServeMalloc(s) \/ ServeFree(s) \/ ServeSend(s)

Next == /\ Running
        /\ \/ \E c \in Caller : Call(c) \/ Return(c) \/ SendStep(c)
           \/ ThreadStep \/ AwaitTorn
           \/ \E s \in Server : Transfer(s) \/ ServerStep(s) \/ Complete(s) \/ Lose(s)
           \/ LoopStep
           \/ Reconnect \/ Recovered

\* A lookup finds another server's entry: of the same address, in the same
\* bucket.
Foreign(r) == Found(r.srv, r.blk) /\ inf[table[Entry(r.srv, r.blk)]].srv # r.srv
Strays == \E c \in Caller :
            /\ \/ st[c] = "lookup" /\ st'[c] # "lookup"
               \/ who = c /\ pc \in {"free", "read", "write"} /\ pc' # pc
            /\ Foreign(call[c])

\* The thread went on with an answer that the event loop still writes.
Torn == hand.m \in {"keys", "null"}

\* dhmp_send, whose messages carry no key, is under way to a block that
\* somebody frees, or with an entry of an earlier life of its server.
Sent == {"check", "post", "await"}
Frees(d, r) == call[d] # NoCall /\ call[d].op = "free" /\ call[d].srv = r.srv /\ call[d].blk = r.blk
Wild == \E c \in Caller :
          /\ call[c] # NoCall /\ call[c].op \in {"send", "fetch"}
          /\ \/ \E d \in Caller : Frees(d, call[c])
             \/ st[c] \in Sent /\ inf[sat[c]].key # epoch[call[c].srv]

\* What of this has happened.
Remember == past' = past \cup (IF Torn' THEN {"torn"} ELSE {})
                         \cup (IF Strays THEN {"stray"} ELSE {})
                         \cup (IF Wild' THEN {"wild"} ELSE {})

Spec == Init /\ past = {} /\ [][Next /\ Remember]_<<vars, past>>

\* Threads, event loops and network cards go on (no thread has to be so quick
\* as to see an answer half written); callers need not call
\* again, connections need not be lost or come back, and the callback of a
\* recovery need not return.
Fairness == /\ WF_vars(Running /\ ThreadStep)
            /\ WF_vars(Running /\ LoopStep)
            /\ \A c \in Caller : WF_vars(Running /\ (Return(c) \/ SendStep(c)))
            /\ \A s \in Server : /\ WF_vars(Running /\ Transfer(s))
                                 /\ WF_vars(Running /\ ServerStep(s))
                                 /\ WF_vars(Running /\ Complete(s))
FairSpec == Spec /\ Fairness
-----------------------------------------------------------------------------
(* Properties.                                                             *)

Place == {"take", "malloc", "await_malloc", "free", "free_post", "await_free", "read",
          "read_spin", "await_read", "write", "write_spin", "write_post", "await_write",
          "finish"}
InfoType == [live : BOOLEAN, srv : Server \cup {0}, addr : Block \cup {Null, Junk},
             len : BOOLEAN, key : Nat, keyed : BOOLEAN, wflag : BOOLEAN]

\* Every variable has a value of its kind.
TypeOK ==
  /\ call \in [Caller -> Request \cup {NoCall}]
  /\ st \in [Caller -> {"idle", "waiting", "done", "lookup", "check", "post", "await",
                        "received", "crashed"}]
  /\ sat \in [Caller -> Info \cup {0}]
  /\ res \in [Caller -> Value \cup Address \cup {Null, Pending}]
  /\ works \in Seq(Caller)
  /\ pc \in Place /\ who \in Caller \cup {Null} /\ at \in Info \cup {0}
  /\ smr \in Smr \cup {Own} /\ flags \subseteq {"write", "read", "check"}
  /\ inf \in [Info -> InfoType]
  /\ table \in Seq(Info)
  /\ pool \in Seq(Smr)
  /\ buf \in [Smr \cup {Own} -> [len : Nat, data : Value]]
  /\ conn \in [Server -> {"up", "error", "down"}]
  /\ recov \in [phase : {"none", "connect", "callback"}, srv : Server \cup {0}]
  /\ losses \in [Server -> 0 .. MaxLosses]
  /\ alloc \in [Server -> SUBSET Block]
  /\ mem \in [Server -> [Block -> Value]]
  /\ epoch \in [Server -> Nat]
  /\ past \subseteq {"torn", "stray", "wild"}

\* The work thread only touches works whose caller still waits: a work lies
\* on the stack of its caller and is gone when the caller returns
\* (dhmp_malloc and the others spin on done_flag, then return).
WorkIsLive ==
  /\ pc # "take" => st[who] = "waiting"
  /\ \A k \in DOMAIN works : st[works[k]] = "waiting" /\ (pc # "take" => works[k] # who)
  /\ \A j, k \in DOMAIN works : works[j] = works[k] => j = k

\* A registered buffer is in send_mr_list once, or in use, never both; and
\* no two buffers there have one length, so that the registered memory is
\* bounded (dhmp_get_mr_from_send_list, dhmp_wc_success_handler).
BuffersAreExclusive ==
  /\ \A j, k \in DOMAIN pool : buf[pool[j]].len = buf[pool[k]].len => j = k
  /\ \A k \in DOMAIN pool : pool[k] = smr => pc \in {"await_write", "finish"}
  /\ \A k \in DOMAIN pool, s \in Server : \A n \in DOMAIN wire[s] :
       wire[s][n].m \in {"write", "read"} => wire[s][n].smr # pool[k]

\* Entry k of the table is of the present life of its server.
Valid(k) == inf[table[k]].key = epoch[inf[table[k]].srv]

\* An entry of the table whose server still runs names a block that the
\* server has given out, and of the entries of its server it is the first
\* that a lookup of its address comes to, whatever stale ones are left of the
\* server's earlier lives.  Until an answer is read half written (see
\* ResultIsWhole) or a lookup finds another server's entry (LookupFindsOwn).
EntriesAreFound ==
  past \cap {"torn", "stray"} = {} =>
    \A k \in DOMAIN table :
      Valid(k) => LET x == inf[table[k]] IN
                  /\ x.addr \in alloc[x.srv] /\ k \in Hits(x.srv, x.addr)
                  /\ \A j \in Hits(x.srv, x.addr) : inf[table[j]].srv = x.srv => k =< j

\* While no connection is lost, a server has given out no block that the
\* client does not know of, or is about to be told of (the malloc and free
\* handlers of both sides).  Until one of the same two things happens.
InFlight(s) == {back[s][n] : n \in DOMAIN back[s]} \cup {hand}
NothingLeaks ==
  past \cap {"torn", "stray"} = {} /\ (\A s \in Server : losses[s] = 0 /\ conn[s] = "up") =>
    \A s \in Server : \A b \in alloc[s] :
      \/ \E i \in Info : inf[i].live /\ inf[i].srv = s /\ inf[i].addr = b
      \/ \E w \in InFlight(s) : w.m = "malloc" /\ w.b = b

\* A connection to s was lost, or its queue pair is in error.
Failed(s) == losses[s] > 0 \/ conn[s] = "error"

\* Requests behave as those of one memory on which each takes effect at
\* once (RemoteMemory).  An address is in the books as long as the table has
\* an entry for it, and its newest entry counts.  Until one of the same two
\* things happens, or a dhmp_send is wild.
Listed(s, b) == {k \in DOMAIN table : inf[table[k]].srv = s /\ inf[table[k]].addr = b}
Content(s, b) == IF Listed(s, b) = {} THEN "absent"
                 ELSE IF Valid(FirstOf(Listed(s, b))) THEN mem[s][b] ELSE "gone"
Promise == INSTANCE RemoteMemory WITH
  Absent <- "absent", Gone <- "gone",
  store <- [a \in Address |-> Content(a[1], a[2])],
  ask <- call, answer <- res
OneMemory == Promise!MemInit /\ [][past' = {} => Promise!MemNext]_(Promise!memVars)

\* Every request is answered in the end, unless a connection fails, or
\* dhmp_send, which shares write_flag with the work thread and may take it
\* time and again, is used without an end or crashes on an unknown address.
Sending == \E d \in Caller : st[d] \in {"lookup", "check", "post", "await", "received", "crashed"}
Answered == \A c \in Caller :
  []<>(st[c] # "waiting" \/ Sending \/ \E s \in Server : Failed(s))

\* "check no the same addr write task in qp" (dhmp_work.c): no two transfers
\* are under way to one entry.
OneWritePerAddress ==
  \A i \in Info :
    Cardinality({c \in Caller : st[c] = "await" /\ sat[c] = i}
                \cup (IF pc = "await_write" /\ at = i /\ "write" \notin flags
                      THEN {who} ELSE {})) =< 1

\* "wait for the server return result" (dhmp_work.c): a malloc that returns
\* an address has got all of the server's answer, and the server gave one.
ResultIsWhole ==
  pc = "finish" /\ MyCall.op = "malloc" /\ res[who] # Null =>
    inf[at].keyed /\ (inf[at].addr \in alloc[MyCall.srv] \/ Failed(MyCall.srv))

\* "according to addr, find corresponding addr info" (dhmp_work.c): looking
\* up the address of an entry finds an entry of the same server.
LookupFindsOwn ==
  \A k \in DOMAIN table : LET x == inf[table[k]] IN
    inf[table[Entry(x.srv, x.addr)]].srv = x.srv
=============================================================================
