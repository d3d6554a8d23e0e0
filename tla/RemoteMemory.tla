--------------------------- MODULE RemoteMemory ---------------------------
(***************************************************************************)
(* What the DHMP client promises to the threads that call dhmp_malloc,     *)
(* dhmp_free, dhmp_read, dhmp_write and dhmp_send: one memory, spread over *)
(* servers, on which every request takes effect at once and at most once,  *)
(* some time between its call and its return.  A malloc gives memory that  *)
(* nobody has, a read returns what was written last.  When a server fails  *)
(* the content of its memory is gone; nothing is promised about requests   *)
(* for memory that is gone, not even an answer.                            *)
(***************************************************************************)
CONSTANTS Caller,   \* threads that call the client
          Server,
          Block,    \* addresses of memory within a server
          Value,    \* contents
          Absent,   \* "content" of an address nobody has
          Gone,     \* "content" of an address whose server failed
          Null,     \* answer of a malloc that got nothing
          Pending,  \* no answer yet
          NoCall,
          Request   \* records with the fields op, srv, blk, val

VARIABLES store,    \* store[a]: content of address a
          ask,      \* ask[c]: what c waits for
          answer    \* answer[c]: the outcome, once the request took effect

memVars == <<store, ask, answer>>

Address == Server \X Block
Target(r) == <<r.srv, r.blk>>

MemInit == /\ store = [a \in Address |-> Absent]
           /\ ask = [c \in Caller |-> NoCall]
           /\ answer = [c \in Caller |-> Pending]

Ask(c) == /\ ask[c] = NoCall
          /\ \E r \in Request : ask' = [ask EXCEPT ![c] = r]
          /\ UNCHANGED <<store, answer>>

\* c waits for the outcome of one of these.
Wants(c, ops) == ask[c] # NoCall /\ ask[c].op \in ops

\* The request of c takes effect: the content of address a becomes `new'
\* and c is going to be told `told'.
Effect(c, a, new, told) == /\ answer[c] = Pending
                           /\ store' = [store EXCEPT ![a] = new]
                           /\ answer' = [answer EXCEPT ![c] = told]
                           /\ UNCHANGED ask

NoEffect(c, told) == /\ answer[c] = Pending
                     /\ answer' = [answer EXCEPT ![c] = told]
                     /\ UNCHANGED <<store, ask>>

Malloc(c) == /\ Wants(c, {"malloc"})
             /\ \/ \E b \in Block, v \in Value \cup {Gone} :
                     /\ store[<<ask[c].srv, b>>] \notin Value
                     /\ Effect(c, <<ask[c].srv, b>>, v, <<ask[c].srv, b>>)
                \/ NoEffect(c, Null)

\* An address freed may still be in the books as one of a failed server.
Free(c) == /\ Wants(c, {"free"})
           /\ IF store[Target(ask[c])] = Absent
              THEN NoEffect(c, Null)
              ELSE \E x \in {Absent, Gone} : Effect(c, Target(ask[c]), x, Null)

Read(c) == /\ Wants(c, {"read", "fetch"})
           /\ LET x == store[Target(ask[c])] IN
              \/ x \in Value /\ NoEffect(c, x)
              \/ x = Absent /\ NoEffect(c, Null)

Write(c) == /\ Wants(c, {"write", "send"})
            /\ LET a == Target(ask[c]) IN
               \/ store[a] \in Value /\ Effect(c, a, ask[c].val, Null)
               \/ store[a] = Absent /\ NoEffect(c, Null)

Reply(c) == /\ answer[c] # Pending
            /\ ask' = [ask EXCEPT ![c] = NoCall]
            /\ answer' = [answer EXCEPT ![c] = Pending]
            /\ UNCHANGED store

Fail(s) == /\ store' = [a \in Address |-> IF a[1] = s /\ store[a] \in Value
                                          THEN Gone ELSE store[a]]
           /\ UNCHANGED <<ask, answer>>

MemNext == \/ \E c \in Caller : \/ Ask(c) \/ Reply(c)
                                \/ Malloc(c) \/ Free(c) \/ Read(c) \/ Write(c)
           \/ \E s \in Server : Fail(s)

MemSpec == MemInit /\ [][MemNext]_memVars
=============================================================================
