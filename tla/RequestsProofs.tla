--------------------------- MODULE RequestsProofs ---------------------------
(* Proofs about Requests for any number of callers, servers, blocks,       *)
(* structs, buffers and lost connections.                                  *)
EXTENDS Requests, SequenceTheorems, WellFoundedInduction, TLAPS

-----------------------------------------------------------------------------
(* Messages and what they are about.                                       *)

In(q) == {q[n] : n \in DOMAIN q}
IsSeq(q) == q \in Seq(In(q))

\* The messages of which at most one is on the way, whatever happens; and
\* those of which this holds while no answer is seen half written.
Lasting == {"send", "read", "write", "written"}
Every == Lasting \cup {"malloc", "error", "free"}

\* What a message is about: the same for a request and its answer.
MarkOf(x) == IF x.m = "send" THEN <<"send", x.c>>
             ELSE IF x.m = "read" THEN <<"read", 0>>
             ELSE IF x.m \in {"write", "written"} THEN <<"write", x.i>>
             ELSE IF x.m = "free" THEN <<"free", x.i>>
             ELSE <<"malloc", x.i>>

\* The marks of message x, or of the messages of queue q, of the kinds K.
Marks(K, x) == IF x.m \in K THEN {MarkOf(x)} ELSE {}
MarksIn(K, q) == UNION {Marks(K, q[n]) : n \in DOMAIN q}
Once(K, q) == /\ IsSeq(q)
              /\ \A j, k \in DOMAIN q : Marks(K, q[j]) \cap Marks(K, q[k]) # {} => j = k

\* The queues of all servers, by their stages.
Stage == {"wire", "inbox", "back"} \X Server
Queue(k) == IF k[1] = "wire" THEN wire[k[2]]
            ELSE IF k[1] = "inbox" THEN inbox[k[2]] ELSE back[k[2]]

\* What callers of dhmp_send and the work thread wait for.
SendsDue == {<<"send", c>> : c \in {d \in Caller : st[d] = "await"}}
ThreadDue(K) ==
    (IF pc = "await_read" /\ "read" \notin flags THEN {<<"read", 0>>} ELSE {})
    \cup (IF pc = "await_write" /\ "write" \notin flags THEN {<<"write", at>>} ELSE {})
    \cup (IF "free" \in K /\ pc = "await_free" /\ inf[at].addr # Null
          THEN {<<"free", at>>} ELSE {})
    \cup (IF "malloc" \in K /\ pc = "await_malloc" /\ ~inf[at].len
          THEN {<<"malloc", at>>} ELSE {})
Expected(K) == SendsDue \cup ThreadDue(K)

\* Every message on the way is the only one with its mark, and somebody
\* waits for it.
Outstanding(K) ==
    /\ \A k \in Stage : /\ Once(K, Queue(k))
                        /\ MarksIn(K, Queue(k)) \subseteq Expected(K)
                        /\ MarksIn(K, Queue(k)) \cap Marks(K, hand) = {}
    /\ \A j, k \in Stage : j # k => MarksIn(K, Queue(j)) \cap MarksIn(K, Queue(k)) = {}
    /\ Marks(K, hand) \subseteq Expected(K)

State == {"idle", "waiting", "done", "lookup", "check", "post", "await", "received", "crashed"}

Typed == /\ st \in [Caller -> State]
         /\ works \in Seq(Caller)
         /\ pc # "take" => who \in Caller
         /\ wire = [s \in Server |-> wire[s]]
         /\ inbox = [s \in Server |-> inbox[s]]
         /\ back = [s \in Server |-> back[s]]

-----------------------------------------------------------------------------
(* What the operations on queues do to the messages in them.               *)

LEMMA SeqOf ==
    ASSUME NEW S, NEW q \in Seq(S)
    PROVE  IsSeq(q)
<1> DEFINE T == In(q)
<1>1. Len(q) \in Nat /\ q \in [1 .. Len(q) -> S] /\ DOMAIN q = 1 .. Len(q)
  OBVIOUS
<1>2. q \in [1 .. Len(q) -> T]
  BY <1>1 DEF In
<1> HIDE DEF T
<1>3. q \in Seq(T)
  BY <1>1, <1>2
<1>4. QED BY <1>3 DEF IsSeq, T

LEMMA Emptied ==
    ASSUME NEW K
    PROVE  Once(K, <<>>) /\ MarksIn(K, <<>>) = {}
<1>1. <<>> \in Seq({}) /\ DOMAIN <<>> = {}
  OBVIOUS
<1>2. IsSeq(<<>>)
  BY <1>1, SeqOf
<1>3. QED BY <1>1, <1>2 DEF Once, MarksIn

LEMMA Tailed ==
    ASSUME NEW K, NEW q, Once(K, q), q # <<>>
    PROVE  /\ Once(K, Tail(q))
           /\ MarksIn(K, Tail(q)) = MarksIn(K, q) \ Marks(K, Head(q))
           /\ Marks(K, Head(q)) \subseteq MarksIn(K, q)
<1> DEFINE T == In(q)
<1>1. q \in Seq(T)
  BY DEF Once, IsSeq
<1>p. \A j, k \in DOMAIN q : Marks(K, q[j]) \cap Marks(K, q[k]) # {} => j = k
  BY DEF Once
<1> HIDE DEF T
<1>2. /\ Tail(q) \in Seq(T) /\ Len(q) \in Nat \ {0}
      /\ DOMAIN Tail(q) = 1 .. Len(q) - 1 /\ DOMAIN q = 1 .. Len(q)
      /\ \A n \in 1 .. Len(q) - 1 : Tail(q)[n] = q[n + 1]
      /\ Head(q) = q[1]
  BY <1>1
<1>3. Once(K, Tail(q))
  <2>1. IsSeq(Tail(q))
    BY <1>2, SeqOf
  <2>2. ASSUME NEW j \in DOMAIN Tail(q), NEW k \in DOMAIN Tail(q),
               Marks(K, Tail(q)[j]) \cap Marks(K, Tail(q)[k]) # {}
        PROVE  j = k
    <3>1. j + 1 \in DOMAIN q /\ k + 1 \in DOMAIN q /\ j \in Int /\ k \in Int
      BY <1>2
    <3>2. Marks(K, q[j + 1]) \cap Marks(K, q[k + 1]) # {}
      BY <1>2, <2>2
    <3>3. j + 1 = k + 1
      BY <1>p, <3>1, <3>2
    <3>4. QED BY <3>1, <3>3
  <2>3. QED BY <2>1, <2>2 DEF Once
<1>4. Marks(K, Head(q)) \subseteq MarksIn(K, q)
  BY <1>2 DEF MarksIn
<1>5. MarksIn(K, Tail(q)) \subseteq MarksIn(K, q) \ Marks(K, Head(q))
  <2> SUFFICES ASSUME NEW n \in DOMAIN Tail(q), NEW c \in Marks(K, Tail(q)[n])
               PROVE  c \in MarksIn(K, q) /\ c \notin Marks(K, Head(q))
    BY DEF MarksIn
  <2>1. n + 1 \in DOMAIN q /\ Tail(q)[n] = q[n + 1] /\ n + 1 # 1 /\ 1 \in DOMAIN q
    BY <1>2
  <2>2. QED BY <1>p, <1>2, <2>1 DEF MarksIn
<1>6. MarksIn(K, q) \ Marks(K, Head(q)) \subseteq MarksIn(K, Tail(q))
  <2> SUFFICES ASSUME NEW n \in DOMAIN q, NEW c \in Marks(K, q[n]), c \notin Marks(K, Head(q))
               PROVE  c \in MarksIn(K, Tail(q))
    BY DEF MarksIn
  <2>1. n # 1
    BY <1>2
  <2>2. n - 1 \in DOMAIN Tail(q) /\ Tail(q)[n - 1] = q[n]
    BY <1>2, <2>1
  <2>3. QED BY <2>2 DEF MarksIn
<1>7. QED BY <1>3, <1>4, <1>5, <1>6

LEMMA Appended ==
    ASSUME NEW K, NEW q, NEW x, Once(K, q), Marks(K, x) \cap MarksIn(K, q) = {}
    PROVE  /\ Once(K, Append(q, x))
           /\ MarksIn(K, Append(q, x)) = MarksIn(K, q) \cup Marks(K, x)
<1> DEFINE T == In(q)
           U == T \cup {x}
<1>1. q \in Seq(T)
  BY DEF Once, IsSeq
<1>p. \A j, k \in DOMAIN q : Marks(K, q[j]) \cap Marks(K, q[k]) # {} => j = k
  BY DEF Once
<1>u. T \subseteq U /\ x \in U
  OBVIOUS
<1> HIDE DEF T, U
<1>2. q \in Seq(U)
  BY <1>1, <1>u
<1>3. /\ Append(q, x) \in Seq(U) /\ Len(q) \in Nat
      /\ DOMAIN Append(q, x) = 1 .. Len(q) + 1 /\ DOMAIN q = 1 .. Len(q)
      /\ \A n \in 1 .. Len(q) : Append(q, x)[n] = q[n]
      /\ Append(q, x)[Len(q) + 1] = x
  BY <1>2, <1>u
<1>4. IsSeq(Append(q, x))
  BY <1>3, SeqOf
<1>5. \A n \in DOMAIN q : Marks(K, x) \cap Marks(K, q[n]) = {}
  BY DEF MarksIn
<1>6. ASSUME NEW j \in DOMAIN Append(q, x), NEW k \in DOMAIN Append(q, x),
             Marks(K, Append(q, x)[j]) \cap Marks(K, Append(q, x)[k]) # {}
      PROVE  j = k
  <2>1. CASE j \in DOMAIN q /\ k \in DOMAIN q
    BY <1>p, <1>3, <1>6, <2>1
  <2>2. CASE j \in DOMAIN q /\ k = Len(q) + 1
    BY <1>3, <1>5, <1>6, <2>2
  <2>3. CASE k \in DOMAIN q /\ j = Len(q) + 1
    BY <1>3, <1>5, <1>6, <2>3
  <2>4. QED BY <1>3, <2>1, <2>2, <2>3
<1>7. MarksIn(K, Append(q, x)) \subseteq MarksIn(K, q) \cup Marks(K, x)
  <2> SUFFICES ASSUME NEW n \in DOMAIN Append(q, x), NEW c \in Marks(K, Append(q, x)[n])
               PROVE  c \in MarksIn(K, q) \cup Marks(K, x)
    BY DEF MarksIn
  <2>1. CASE n \in DOMAIN q
    BY <1>3, <2>1 DEF MarksIn
  <2>2. CASE n = Len(q) + 1
    BY <1>3, <2>2
  <2>3. QED BY <1>3, <2>1, <2>2
<1>8. MarksIn(K, q) \subseteq MarksIn(K, Append(q, x))
  <2> SUFFICES ASSUME NEW n \in DOMAIN q, NEW c \in Marks(K, q[n])
               PROVE  c \in MarksIn(K, Append(q, x))
    BY DEF MarksIn
  <2>1. n \in DOMAIN Append(q, x) /\ Append(q, x)[n] = q[n]
    BY <1>3
  <2>2. QED BY <2>1 DEF MarksIn
<1>9. Marks(K, x) \subseteq MarksIn(K, Append(q, x))
  <2>1. Len(q) + 1 \in DOMAIN Append(q, x)
    BY <1>3
  <2>2. QED BY <1>3, <2>1 DEF MarksIn
<1>10. QED BY <1>4, <1>6, <1>7, <1>8, <1>9 DEF Once

LEMMA Prefixed ==
    ASSUME NEW K, NEW q, Once(K, q), NEW n \in 0 .. Len(q)
    PROVE  Once(K, SubSeq(q, 1, n)) /\ MarksIn(K, SubSeq(q, 1, n)) \subseteq MarksIn(K, q)
<1> DEFINE T == In(q)
           r == SubSeq(q, 1, n)
<1>1. q \in Seq(T)
  BY DEF Once, IsSeq
<1>p. \A j, k \in DOMAIN q : Marks(K, q[j]) \cap Marks(K, q[k]) # {} => j = k
  BY DEF Once
<1> HIDE DEF T
<1>2. /\ r \in Seq(T) /\ Len(q) \in Nat /\ DOMAIN r = 1 .. n /\ DOMAIN q = 1 .. Len(q)
      /\ \A k \in 1 .. n : r[k] = q[k]
  BY <1>1
<1> HIDE DEF r
<1>3. IsSeq(r)
  BY <1>2, SeqOf
<1>4. \A k \in DOMAIN r : k \in DOMAIN q /\ r[k] = q[k]
  BY <1>2
<1>5. QED BY <1>p, <1>3, <1>4 DEF Once, MarksIn, r
LEMMA InQueue ==
    ASSUME NEW q, IsSeq(q)
    PROVE  /\ q # <<>> => Head(q) \in In(q) /\ In(Tail(q)) \subseteq In(q)
           /\ \A x : In(Append(q, x)) = In(q) \cup {x} /\ IsSeq(Append(q, x))
           /\ \A x : q \o <<x>> = Append(q, x)
           /\ \A x, y : q \o <<x, y>> = Append(Append(q, x), y)
           /\ \A n \in 0 .. Len(q) : In(SubSeq(q, 1, n)) \subseteq In(q)
<1> DEFINE T == In(q)
<1>1. q \in Seq(T)
  BY DEF IsSeq
<1>t. \A n \in DOMAIN q : q[n] \in T
  BY DEF In
<1> HIDE DEF T
<1>2. q # <<>> => Head(q) \in T /\ \A n \in DOMAIN Tail(q) : Tail(q)[n] \in T
  BY <1>1, <1>t
<1>3. ASSUME NEW x
      PROVE  In(Append(q, x)) = T \cup {x} /\ IsSeq(Append(q, x)) /\ q \o <<x>> = Append(q, x)
  <2> DEFINE U == T \cup {x}
  <2>0. T \subseteq U /\ x \in U
    OBVIOUS
  <2> HIDE DEF U
  <2>1. q \in Seq(U)
    BY <1>1, <2>0
  <2>2. /\ Append(q, x) \in Seq(U) /\ q \o <<x>> = Append(q, x)
        /\ DOMAIN Append(q, x) = 1 .. Len(q) + 1 /\ DOMAIN q = 1 .. Len(q) /\ Len(q) \in Nat
        /\ \A n \in 1 .. Len(q) : Append(q, x)[n] = q[n]
        /\ Append(q, x)[Len(q) + 1] = x
    BY <2>0, <2>1
  <2>3. IsSeq(Append(q, x))
    BY <2>2, SeqOf
  <2>4. \A n \in DOMAIN Append(q, x) : Append(q, x)[n] = x \/ (n \in DOMAIN q /\ Append(q, x)[n] = q[n])
    BY <2>2
  <2>5. \A n \in DOMAIN q : n \in DOMAIN Append(q, x) /\ Append(q, x)[n] = q[n]
    BY <2>2
  <2>6. Len(q) + 1 \in DOMAIN Append(q, x)
    BY <2>2
  <2>7. In(Append(q, x)) = In(q) \cup {x}
    BY <2>2, <2>4, <2>5, <2>6 DEF In
  <2>8. QED BY <2>2, <2>3, <2>7 DEF T
<1>4. ASSUME NEW x, NEW y
      PROVE  q \o <<x, y>> = Append(Append(q, x), y)
  <2> DEFINE U == T \cup {x, y}
  <2>0. T \subseteq U /\ x \in U /\ y \in U
    OBVIOUS
  <2> HIDE DEF U
  <2>1. q \in Seq(U)
    BY <1>1, <2>0
  <2>2. QED BY <2>0, <2>1
<1>5. ASSUME NEW n \in 0 .. Len(q)
      PROVE  \A k \in DOMAIN SubSeq(q, 1, n) : SubSeq(q, 1, n)[k] \in T
  BY <1>1, <1>t
<1>6. /\ In(q) = T /\ \A r : (\A k \in DOMAIN r : r[k] \in T) => In(r) \subseteq T
  BY DEF In, T
<1>7. QED BY <1>2, <1>3, <1>4, <1>5, <1>6

LEMMA MarksOfIn ==
    ASSUME NEW K, NEW q, NEW x \in In(q)
    PROVE  Marks(K, x) \subseteq MarksIn(K, q)
  BY DEF In, MarksIn

-----------------------------------------------------------------------------
(* The queues of a step.                                                   *)

\* Queues that change at stage k only, or at k and the one it comes from.
LEMMA Stages ==
    /\ \A s \in Server : /\ <<"wire", s>> \in Stage /\ Queue(<<"wire", s>>) = wire[s]
                         /\ <<"inbox", s>> \in Stage /\ Queue(<<"inbox", s>>) = inbox[s]
                         /\ <<"back", s>> \in Stage /\ Queue(<<"back", s>>) = back[s]
    /\ \A k \in Stage : \E s \in Server : \/ k = <<"wire", s>>
                                          \/ k = <<"inbox", s>>
                                          \/ k = <<"back", s>>
  BY DEF Stage, Queue

LEMMA StagesNext ==
    \A s \in Server : /\ Queue(<<"wire", s>>)' = wire'[s]
                      /\ Queue(<<"inbox", s>>)' = inbox'[s]
                      /\ Queue(<<"back", s>>)' = back'[s]
  BY DEF Queue

\* Nothing new is on the way.
LEMMA Fewer ==
    ASSUME NEW K, Outstanding(K), Expected(K) \subseteq Expected(K)',
           \A k \in Stage : Once(K, Queue(k)') /\ MarksIn(K, Queue(k)') \subseteq MarksIn(K, Queue(k)),
           Marks(K, hand') \subseteq Marks(K, hand)
    PROVE  Outstanding(K)'
<1> DEFINE S(k) == MarksIn(K, Queue(k))
           T(k) == MarksIn(K, Queue(k)')
<1>1. /\ \A k \in Stage : S(k) \subseteq Expected(K) /\ S(k) \cap Marks(K, hand) = {}
      /\ \A j, k \in Stage : j # k => S(j) \cap S(k) = {}
      /\ Marks(K, hand) \subseteq Expected(K)
  BY DEF Outstanding
<1>2. \A k \in Stage : T(k) \subseteq S(k)
  OBVIOUS
<1> HIDE DEF S, T
<1>3. /\ \A k \in Stage : T(k) \subseteq Expected(K)' /\ T(k) \cap Marks(K, hand') = {}
      /\ \A j, k \in Stage : j # k => T(j) \cap T(k) = {}
      /\ Marks(K, hand') \subseteq Expected(K)'
  BY <1>1, <1>2
<1>4. QED BY <1>3 DEF Outstanding, T

\* The message x goes from queue i to the end of queue k, or is lost.
LEMMA Moved ==
    ASSUME NEW K, Outstanding(K), Expected(K) \subseteq Expected(K)', hand' = hand,
           NEW i \in Stage, NEW k \in Stage, i # k, NEW x, Queue(i) # <<>>, x = Head(Queue(i)),
           Queue(i)' = Tail(Queue(i)),
           Queue(k)' = Queue(k) \/ \E y : Queue(k)' = Append(Queue(k), y) /\ Marks(K, y) \subseteq Marks(K, x),
           \A j \in Stage : j # i /\ j # k => Queue(j)' = Queue(j)
    PROVE  Outstanding(K)'
<1> DEFINE S(j) == MarksIn(K, Queue(j))
           T(j) == MarksIn(K, Queue(j)')
<1>1. /\ \A j \in Stage : S(j) \subseteq Expected(K) /\ S(j) \cap Marks(K, hand) = {}
      /\ \A j, l \in Stage : j # l => S(j) \cap S(l) = {}
      /\ Marks(K, hand) \subseteq Expected(K)
      /\ \A j \in Stage : Once(K, Queue(j))
  BY DEF Outstanding
<1>2. Once(K, Queue(i)') /\ T(i) = S(i) \ Marks(K, x) /\ Marks(K, x) \subseteq S(i)
  BY <1>1, Tailed
<1>3. Once(K, Queue(k)') /\ T(k) \subseteq S(k) \cup Marks(K, x)
  <2>1. CASE Queue(k)' = Queue(k)
    BY <1>1, <2>1
  <2>2. CASE Queue(k)' # Queue(k)
    <3>1. PICK y : Queue(k)' = Append(Queue(k), y) /\ Marks(K, y) \subseteq Marks(K, x)
      BY <2>2
    <3>2. Marks(K, y) \cap MarksIn(K, Queue(k)) = {}
      BY <1>1, <1>2, <3>1
    <3>3. QED BY <1>1, <3>1, <3>2, Appended
  <2>3. QED BY <2>1, <2>2
<1>4. \A j \in Stage : j # i /\ j # k => Once(K, Queue(j)') /\ T(j) = S(j)
  BY <1>1
<1>5. \A j \in Stage : Once(K, Queue(j)')
  BY <1>2, <1>3, <1>4
<1> HIDE DEF S, T
<1>6. /\ \A j \in Stage : T(j) \subseteq Expected(K)' /\ T(j) \cap Marks(K, hand) = {}
      /\ \A j, l \in Stage : j # l => T(j) \cap T(l) = {}
      /\ Marks(K, hand) \subseteq Expected(K)'
  BY <1>1, <1>2, <1>3, <1>4
<1>7. QED BY <1>5, <1>6 DEF Outstanding, T

\* A step that touches no queue and ends nobody's wait.
LEMMA Untouched ==
    ASSUME NEW K, Outstanding(K), UNCHANGED wireVars, Expected(K) \subseteq Expected(K)',
           Marks(K, hand') \subseteq Marks(K, hand)
    PROVE  Outstanding(K)'
<1>1. \A k \in Stage : Queue(k)' = Queue(k)
  BY DEF Queue, wireVars
<1>2. \A k \in Stage : Once(K, Queue(k)') /\ MarksIn(K, Queue(k)') \subseteq MarksIn(K, Queue(k))
  BY <1>1 DEF Outstanding
<1>3. QED BY <1>2, Fewer

\* The message in hand has been handled, and ends the wait for it.
LEMMA Consumed ==
    ASSUME NEW K, Outstanding(K), UNCHANGED wireVars, Marks(K, hand') = {},
           Expected(K) \ Marks(K, hand) \subseteq Expected(K)'
    PROVE  Outstanding(K)'
<1> DEFINE S(j) == MarksIn(K, Queue(j))
           T(j) == MarksIn(K, Queue(j)')
<1>1. /\ \A j \in Stage : S(j) \subseteq Expected(K) /\ S(j) \cap Marks(K, hand) = {}
      /\ \A i, j \in Stage : i # j => S(i) \cap S(j) = {}
      /\ \A j \in Stage : Once(K, Queue(j))
  BY DEF Outstanding
<1>2. \A j \in Stage : Queue(j)' = Queue(j)
  BY DEF Queue, wireVars
<1>3. \A j \in Stage : T(j) = S(j) /\ Once(K, Queue(j)')
  BY <1>1, <1>2
<1> HIDE DEF S, T
<1>4. /\ \A j \in Stage : T(j) \subseteq Expected(K)' /\ T(j) \cap Marks(K, hand') = {}
      /\ \A i, j \in Stage : i # j => T(i) \cap T(j) = {}
      /\ Marks(K, hand') \subseteq Expected(K)'
  BY <1>1, <1>3
<1>5. QED BY <1>3, <1>4 DEF Outstanding, T

\* Only the queue of one stage changes, by losing messages.
LEMMA OneQueue ==
    ASSUME NEW K, Outstanding(K), Expected(K) \subseteq Expected(K)', hand' = hand,
           NEW k \in Stage,
           \A j \in Stage : j # k => Queue(j)' = Queue(j),
           Once(K, Queue(k)') /\ MarksIn(K, Queue(k)') \subseteq MarksIn(K, Queue(k))
    PROVE  Outstanding(K)'
<1>1. \A j \in Stage : /\ Once(K, Queue(j)')
                       /\ MarksIn(K, Queue(j)') \subseteq MarksIn(K, Queue(j))
  BY DEF Outstanding
<1>2. QED BY <1>1, Fewer

\* The message x is posted, or not: nobody waited for it, and now somebody does.
LEMMA Posted ==
    ASSUME NEW K, Outstanding(K), Typed, NEW s, NEW x, NEW y,
           Marks(K, y) = {}, Marks(K, x) \cap Expected(K) = {},
           Expected(K) \cup Marks(K, x) \subseteq Expected(K)',
           Post(s, <<x>>) \/ Post(s, <<x, y>>),
           UNCHANGED <<inbox, back, hand>>
    PROVE  Outstanding(K)'
<1> DEFINE k == <<"wire", s>>
<1>1. CASE wire' = wire
  BY <1>1, Untouched DEF wireVars
<1>2. CASE wire' # wire
  <2>1. /\ wire'[s] = wire[s] \o <<x>> \/ wire'[s] = wire[s] \o <<x, y>>
        /\ \A t \in Server \ {s} : wire'[t] = wire[t]
    BY <1>2 DEF Post, Typed
  <2>s. s \in Server
    BY <1>2 DEF Post, Typed
  <2>2. k \in Stage /\ Queue(k) = wire[s] /\ Queue(k)' = wire'[s]
    BY <2>s, Stages, StagesNext
  <2>3. \A j \in Stage : j # k => Queue(j)' = Queue(j)
    BY <2>1 DEF Stage, Queue
  <2>4. /\ \A j \in Stage : /\ Once(K, Queue(j)) /\ MarksIn(K, Queue(j)) \subseteq Expected(K)
                            /\ MarksIn(K, Queue(j)) \cap Marks(K, hand) = {}
        /\ \A i, j \in Stage : i # j => MarksIn(K, Queue(i)) \cap MarksIn(K, Queue(j)) = {}
        /\ Marks(K, hand) \subseteq Expected(K)
    BY DEF Outstanding
  <2> HIDE DEF k
  <2>5. /\ IsSeq(wire[s]) /\ Once(K, wire[s])
        /\ wire[s] \o <<x>> = Append(wire[s], x)
        /\ wire[s] \o <<x, y>> = Append(Append(wire[s], x), y)
    BY <2>2, <2>4, InQueue DEF Once
  <2>6. /\ Once(K, Append(wire[s], x))
        /\ MarksIn(K, Append(wire[s], x)) = MarksIn(K, wire[s]) \cup Marks(K, x)
    BY <2>2, <2>4, Appended
  <2>7. /\ Once(K, Append(Append(wire[s], x), y))
        /\ MarksIn(K, Append(Append(wire[s], x), y)) = MarksIn(K, wire[s]) \cup Marks(K, x)
    BY <2>6, Appended
  <2>8. Once(K, Queue(k)') /\ MarksIn(K, Queue(k)') = MarksIn(K, Queue(k)) \cup Marks(K, x)
    BY <2>1, <2>2, <2>5, <2>6, <2>7
  <2> DEFINE S(j) == MarksIn(K, Queue(j))
             T(j) == MarksIn(K, Queue(j)')
  <2>9. /\ \A j \in Stage : S(j) \subseteq Expected(K) /\ S(j) \cap Marks(K, hand) = {}
        /\ \A i, j \in Stage : i # j => S(i) \cap S(j) = {}
        /\ T(k) = S(k) \cup Marks(K, x)
        /\ \A j \in Stage : j # k => T(j) = S(j)
        /\ \A j \in Stage : Once(K, Queue(j)')
    BY <2>3, <2>4, <2>8
  <2> HIDE DEF S, T
  <2>10. /\ \A j \in Stage : T(j) \subseteq Expected(K)' /\ T(j) \cap Marks(K, hand) = {}
         /\ \A i, j \in Stage : i # j => T(i) \cap T(j) = {}
         /\ Marks(K, hand) \subseteq Expected(K)'
    BY <2>2, <2>4, <2>9
  <2>11. QED BY <2>9, <2>10 DEF Outstanding, T
<1>3. QED BY <1>1, <1>2

\* The first message of queue i of server s goes to the end of queue k, or an
\* answer to it does, or nothing.
LEMMA Forwarded ==
    ASSUME NEW K, Outstanding(K), NEW s \in Server, hand' = hand,
           Expected(K) \subseteq Expected(K)',
           \A t \in Server \ {s} : wire'[t] = wire[t] /\ inbox'[t] = inbox[t] /\ back'[t] = back[t],
           NEW i \in {"wire", "inbox"}, NEW k \in {"wire", "inbox", "back"}, i # k,
           Queue(<<i, s>>) # <<>>, Queue(<<i, s>>)' = Tail(Queue(<<i, s>>)),
           \/ Queue(<<k, s>>)' = Queue(<<k, s>>)
           \/ \E y : /\ Queue(<<k, s>>)' = Append(Queue(<<k, s>>), y)
                    /\ Marks(K, y) \subseteq Marks(K, Head(Queue(<<i, s>>))),
           \A j \in {"wire", "inbox", "back"} \ {i, k} : Queue(<<j, s>>)' = Queue(<<j, s>>)
    PROVE  Outstanding(K)'
<1>1. <<i, s>> \in Stage /\ <<k, s>> \in Stage /\ <<i, s>> # <<k, s>>
  BY DEF Stage
<1>2. \A j \in Stage : j # <<i, s>> /\ j # <<k, s>> => Queue(j)' = Queue(j)
  <2> TAKE j \in Stage
  <2> HAVE j # <<i, s>> /\ j # <<k, s>>
  <2>1. PICK l \in {"wire", "inbox", "back"}, t \in Server : j = <<l, t>>
    BY DEF Stage
  <2>2. CASE t = s
    BY <2>1, <2>2
  <2>3. CASE t # s
    BY <2>1, <2>3 DEF Queue
  <2>4. QED BY <2>2, <2>3
<1>3. QED BY <1>1, <1>2, Moved

\* The event loop takes the first completion of server s; nothing was in hand.
LEMMA Completed ==
    ASSUME NEW K, Outstanding(K), Typed, NEW s \in Server, back[s] # <<>>,
           hand' = Head(back[s]), back' = [back EXCEPT ![s] = Tail(@)],
           UNCHANGED <<wire, inbox>>, Expected(K) \subseteq Expected(K)'
    PROVE  Outstanding(K)'
<1> DEFINE k == <<"back", s>>
<1>3. k \in Stage /\ Queue(k) = back[s] /\ Queue(k)' = Tail(back[s])
  BY Stages, StagesNext DEF Typed
<1>4. \A j \in Stage : j # k => Queue(j)' = Queue(j)
  BY DEF Stage, Queue, Typed
<1>5. /\ \A j \in Stage : Once(K, Queue(j)) /\ MarksIn(K, Queue(j)) \subseteq Expected(K)
      /\ \A i, j \in Stage : i # j => MarksIn(K, Queue(i)) \cap MarksIn(K, Queue(j)) = {}
  BY DEF Outstanding
<1> HIDE DEF k
<1>6. /\ Once(K, Queue(k)') /\ MarksIn(K, Queue(k)') = MarksIn(K, Queue(k)) \ Marks(K, hand')
      /\ Marks(K, hand') \subseteq MarksIn(K, Queue(k))
  BY <1>3, <1>5, Tailed
<1> DEFINE S(j) == MarksIn(K, Queue(j))
           T(j) == MarksIn(K, Queue(j)')
<1>7. /\ \A j \in Stage : S(j) \subseteq Expected(K)
      /\ \A i, j \in Stage : i # j => S(i) \cap S(j) = {}
      /\ T(k) = S(k) \ Marks(K, hand') /\ Marks(K, hand') \subseteq S(k)
      /\ \A j \in Stage : j # k => T(j) = S(j)
      /\ \A j \in Stage : Once(K, Queue(j)')
  BY <1>4, <1>5, <1>6
<1> HIDE DEF S, T
<1>8. /\ \A j \in Stage : T(j) \subseteq Expected(K)' /\ T(j) \cap Marks(K, hand') = {}
      /\ \A i, j \in Stage : i # j => T(i) \cap T(j) = {}
      /\ Marks(K, hand') \subseteq Expected(K)'
  BY <1>3, <1>7
<1>9. QED BY <1>7, <1>8 DEF Outstanding, T

-----------------------------------------------------------------------------
(* Steps and the messages on the way.  K is one of the two sets of kinds;  *)
(* for the larger one no answer may be half written.                       *)

Whole == hand.m \notin {"keys", "null"}

\* What is needed of structs for the larger set.
Readable == /\ Whole
            /\ inf \in [Info -> InfoType]
            /\ pc = "malloc" => sat[who] \in Info /\ ~inf[sat[who]].len
            /\ pc = "free_post" => inf[at].addr # Null
Sound(K) == K = Lasting \/ (K = Every /\ Readable)

LEMMA KindFacts ==
    ASSUME NEW K, Sound(K)
    PROVE  /\ Lasting \subseteq K
           /\ {"check", "keys", "null", "nothing"} \cap K = {}
           /\ ("malloc" \in K <=> K = Every) /\ ("error" \in K <=> K = Every)
           /\ ("free" \in K <=> K = Every)
           /\ K = Every => Readable
<1>1. Lasting # Every
  <2>1. "free" \in Every /\ "free" \notin Lasting
    BY DEF Every, Lasting
  <2>2. QED BY <2>1
<1>2. QED BY <1>1 DEF Sound, Lasting, Every

LEMMA MarkFacts ==
    ASSUME NEW K, Sound(K), NEW x
    PROVE  /\ x.m \in {"check", "keys", "null", "nothing"} => Marks(K, x) = {}
           /\ x.m = "send" => Marks(K, x) = {<<"send", x.c>>}
           /\ x.m = "read" => Marks(K, x) = {<<"read", 0>>}
           /\ x.m \in {"write", "written"} => Marks(K, x) = {<<"write", x.i>>}
           /\ x.m \in {"malloc", "error"} =>
                Marks(K, x) = IF K = Every THEN {<<"malloc", x.i>>} ELSE {}
           /\ x.m = "free" => Marks(K, x) = IF K = Every THEN {<<"free", x.i>>} ELSE {}
  BY KindFacts DEF Marks, MarkOf, Lasting

\* The work thread goes on waiting for what it waits for.
LEMMA ThreadWaits ==
    ASSUME NEW K, Sound(K), UNCHANGED <<pc, at, flags>>,
           K = Every => /\ pc = "await_free" /\ inf[at].addr # Null => inf'[at].addr # Null
                        /\ pc = "await_malloc" /\ ~inf[at].len => ~inf'[at].len
    PROVE  ThreadDue(K) \subseteq ThreadDue(K)'
  BY KindFacts DEF ThreadDue

\* It waits for nothing.
LEMMA ThreadIsFree ==
    ASSUME NEW K, pc \notin {"await_read", "await_write", "await_free", "await_malloc"}
    PROVE  ThreadDue(K) = {}
  BY DEF ThreadDue

\* Only the flag of a struct changes.
LEMMA FlagOnly ==
    ASSUME NEW K, Sound(K), NEW i, NEW b, inf' = [inf EXCEPT ![i].wflag = b]
    PROVE  K = Every => \A j : inf'[j].addr = inf[j].addr /\ inf'[j].len = inf[j].len
<1> SUFFICES ASSUME K = Every, NEW j
             PROVE  inf'[j].addr = inf[j].addr /\ inf'[j].len = inf[j].len
  OBVIOUS
<1>1. inf \in [Info -> InfoType]
  BY KindFacts DEF Readable
<1>2. CASE i \in Info /\ j = i
  BY <1>1, <1>2 DEF InfoType
<1>3. CASE i \in Info /\ j # i
  BY <1>1, <1>3
<1>4. CASE i \notin Info
  BY <1>1, <1>4
<1>5. QED BY <1>2, <1>3, <1>4

\* The struct of a malloc that begins.
Fresh(s) == [NoInfo EXCEPT !.live = TRUE, !.srv = s, !.addr = Junk]
LEMMA FreshFields ==
    ASSUME NEW s
    PROVE  /\ Fresh(s).live /\ Fresh(s).srv = s /\ Fresh(s).addr = Junk /\ ~Fresh(s).len
           /\ s \in Server => Fresh(s) \in InfoType
  BY DEF Fresh, NoInfo, InfoType

LEMMA CallerMarks ==
    ASSUME NEW K, Sound(K), Typed, Outstanding(K), NEW c \in Caller,
           Call(c) \/ Return(c) \/ SendLookup(c) \/ SendCheck(c) \/ SendOut(c)
    PROVE  Outstanding(K)'
<1>1. /\ UNCHANGED <<pc, at, flags, wireVars, hand>>
      /\ st[c] # "await" /\ \A d \in Caller \ {c} : st'[d] = st[d]
  BY DEF Call, CallMalloc, CallWork, CallSend, Asks, Queued, Return, SendLookup, SendCheck,
         SendOut, threadVars, Typed
<1>2. K = Every => /\ pc = "await_free" /\ inf[at].addr # Null => inf'[at].addr # Null
                   /\ pc = "await_malloc" /\ ~inf[at].len => ~inf'[at].len
  <2>1. CASE inf' = inf
    BY <2>1
  <2>2. CASE \E r \in Request : CallMalloc(c, r)
    <3>0. PICK r \in Request : CallMalloc(c, r)
      BY <2>2
    <3>1. PICK i, x : inf' = [inf EXCEPT ![i] = x] /\ x = Fresh(r.srv)
      BY <3>0 DEF CallMalloc, Fresh
    <3>x. x.addr = Junk /\ ~x.len
      BY <3>1, FreshFields
    <3> SUFFICES ASSUME K = Every
                 PROVE  /\ pc = "await_free" /\ inf[at].addr # Null => inf'[at].addr # Null
                        /\ pc = "await_malloc" /\ ~inf[at].len => ~inf'[at].len
      OBVIOUS
    <3>2. inf \in [Info -> InfoType]
      BY KindFacts DEF Readable
    <3>3. CASE i = at /\ at \in Info
      <4>1. inf'[at] = x
        BY <3>1, <3>2, <3>3
      <4>2. QED BY <3>x, <4>1, BlockAssumption
    <3>4. CASE ~(i = at /\ at \in Info)
      <4>1. inf'[at] = inf[at]
        <5>1. CASE at \in Info
          BY <3>1, <3>2, <3>4, <5>1
        <5>2. CASE at \notin Info /\ i # at
          BY <3>1, <3>2, <5>2
        <5>3. CASE at \notin Info /\ i = at
          BY <3>1, <3>2, <5>3
        <5>4. QED BY <5>1, <5>2, <5>3
      <4>2. QED BY <4>1
    <3>5. QED BY <3>3, <3>4
  <2>3. CASE SendOut(c)
    <3>1. inf' = [inf EXCEPT ![sat[c]].wflag = FALSE]
      BY <2>3 DEF SendOut
    <3>2. QED BY <3>1, FlagOnly
  <2>4. QED BY <2>1, <2>2, <2>3 DEF Call, CallWork, CallSend, Return, SendLookup, SendCheck,
               tableVars
<1>3. SendsDue \subseteq SendsDue'
  BY <1>1 DEF SendsDue
<1>4. Expected(K) \subseteq Expected(K)'
  BY <1>1, <1>2, <1>3, ThreadWaits DEF Expected
<1>5. QED BY <1>1, <1>4, Untouched

LEMMA SendPostMarks ==
    ASSUME NEW K, Sound(K), Typed, Outstanding(K), NEW c \in Caller, SendPost(c)
    PROVE  Outstanding(K)'
<1>1. PICK s, x : s = call[c].srv /\ x = [m |-> "send", c |-> c, b |-> inf[sat[c]].addr]
  OBVIOUS
<1>2. x.m = "send" /\ x.c = c
  BY <1>1
<1>3. /\ Post(s, <<x>>) /\ UNCHANGED <<pc, at, flags, inbox, back, hand>>
      /\ st[c] = "post" /\ st' = [st EXCEPT ![c] = "await"]
      /\ inf' = [inf EXCEPT ![sat[c]].wflag = TRUE]
  BY <1>1 DEF SendPost, threadVars
<1>4. Marks(K, x) = {<<"send", c>>}
  BY <1>2, MarkFacts
<1>5. <<"send", c>> \notin Expected(K)
  BY <1>3 DEF Expected, SendsDue, ThreadDue
<1>6. SendsDue' = SendsDue \cup {<<"send", c>>}
  BY <1>3 DEF SendsDue, Typed
<1>7. ThreadDue(K) \subseteq ThreadDue(K)'
  BY <1>3, FlagOnly, ThreadWaits
<1>8. Expected(K) \cup Marks(K, x) \subseteq Expected(K)'
  BY <1>4, <1>6, <1>7 DEF Expected
<1>9. PICK y : Marks(K, y) = {}
  <2>1. Idle.m = "nothing"
    BY DEF Idle
  <2>2. QED BY <2>1, MarkFacts
<1>10. QED BY <1>3, <1>4, <1>5, <1>8, <1>9, Posted

\* The thread takes an answer that is half written.
LEMMA TornFacts ==
    ASSUME AwaitTorn
    PROVE  /\ pc = "await_malloc" /\ pc' = "finish" /\ ~inf[at].len
           /\ UNCHANGED <<call, st, sat, works, who, at, smr, flags, poolVars, connVars, wireVars,
                          serverVars>>
           /\ hand.m \in {"malloc", "error"} /\ hand.i = at
           /\ hand'.m \in {"keys", "null"}
<1>1. \E x, a : Take(x, a)
  BY DEF AwaitTorn
<1>2. hand'.m \in {"keys", "null"}
  BY DEF AwaitTorn
<1>3. QED BY <1>1, <1>2 DEF AwaitTorn, Take, Goto

LEMMA TornMarks ==
    ASSUME NEW K, Sound(K), Typed, Outstanding(K), AwaitTorn
    PROVE  Outstanding(K)'
<1>1. /\ UNCHANGED <<st, at, flags, wireVars>> /\ pc = "await_malloc"
      /\ hand.m \in {"malloc", "error"} /\ hand.i = at /\ hand'.m \in {"keys", "null"}
  BY TornFacts
<1>2. Marks(K, hand') = {}
  BY <1>1, MarkFacts
<1>3. Marks(K, hand) = IF K = Every THEN {<<"malloc", at>>} ELSE {}
  BY <1>1, MarkFacts
<1>4. ThreadDue(K) \subseteq Marks(K, hand)
  BY <1>1, <1>3, KindFacts DEF ThreadDue
<1>5. Expected(K) \ Marks(K, hand) \subseteq Expected(K)'
  BY <1>1, <1>4 DEF Expected, SendsDue
<1>6. QED BY <1>1, <1>2, <1>5, Consumed

\* The steps of the thread that post nothing.
LEMMA ThreadMarks ==
    ASSUME NEW K, Sound(K), Typed, WorkIsLive, Outstanding(K),
           TakeWork \/ AwaitMalloc \/ FreeLookup \/ AwaitFree \/ Lookup \/ AwaitRead
           \/ WriteCheck \/ AwaitWrite \/ Finish
    PROVE  Outstanding(K)'
<1>1. UNCHANGED <<wireVars, hand>>
  BY DEF TakeWork, AwaitMalloc, Take, FreeLookup, AwaitFree, Lookup, AwaitRead, WriteCheck, AwaitWrite,
         Finish
<1>2. SendsDue \subseteq SendsDue'
  <2>1. CASE Finish
    <3>1. st[who] = "waiting" /\ who \in Caller /\ st' = [st EXCEPT ![who] = "done"]
      BY <2>1 DEF Finish, WorkIsLive, Typed
    <3>2. QED BY <3>1 DEF SendsDue, Typed
  <2>2. CASE st' = st
    BY <2>2 DEF SendsDue
  <2>3. QED BY <2>1, <2>2 DEF TakeWork, AwaitMalloc, Take, FreeLookup, AwaitFree, Lookup, AwaitRead,
               WriteCheck, AwaitWrite, callVars
<1>3. ThreadDue(K) = {}
  <2>1. CASE pc \notin {"await_read", "await_write", "await_free", "await_malloc"}
    BY <2>1, ThreadIsFree
  <2>2. CASE AwaitMalloc
    BY <2>2 DEF AwaitMalloc, Take, ThreadDue
  <2>3. CASE AwaitFree
    BY <2>3 DEF AwaitFree, ThreadDue
  <2>4. CASE AwaitRead
    BY <2>4 DEF AwaitRead, ThreadDue
  <2>5. CASE AwaitWrite
    BY <2>5 DEF AwaitWrite, ThreadDue
  <2>6. QED BY <2>1, <2>2, <2>3, <2>4, <2>5 DEF TakeWork, FreeLookup, Lookup, WriteCheck, Finish
<1>4. Expected(K) \subseteq Expected(K)'
  BY <1>2, <1>3 DEF Expected
<1>5. QED BY <1>1, <1>4, Untouched

\* The steps of the thread that post a message.
LEMMA PostMarks ==
    ASSUME NEW K, Sound(K), Typed, Outstanding(K),
           PostMalloc \/ FreePost \/ ReadPost \/ WritePost
    PROVE  Outstanding(K)'
<1>1. /\ UNCHANGED <<st, inbox, back, hand>>
      /\ pc \in {"malloc", "free_post", "read_spin", "write_post"}
  BY DEF PostMalloc, FreePost, ReadPost, WritePost, callVars
<1>2. ThreadDue(K) = {} /\ SendsDue' = SendsDue
  BY <1>1, ThreadIsFree DEF SendsDue
<1>3. \A t \in SendsDue : t[1] = "send"
  BY DEF SendsDue
<1>n. PICK z : Marks(K, z) = {}
  <2>1. Idle.m = "nothing"
    BY DEF Idle
  <2>2. QED BY <2>1, MarkFacts
<1>4. CASE wire' = wire
  <2>1. Expected(K) \subseteq Expected(K)'
    BY <1>2 DEF Expected
  <2>2. QED BY <1>1, <1>4, <2>1, Untouched DEF wireVars
<1>5. CASE wire' # wire
  <2>1. CASE PostMalloc
    <3>1. PICK x : x = [m |-> "malloc", i |-> sat[who]]
      OBVIOUS
    <3>x. x.m = "malloc" /\ x.i = sat[who]
      BY <3>1
    <3>2. Post(MyCall.srv, <<x>>) /\ at' = sat[who] /\ pc' = "await_malloc" /\ inf' = inf
          /\ pc = "malloc"
      BY <2>1, <3>1 DEF PostMalloc, Goto, tableVars
    <3>3. Marks(K, x) = IF K = Every THEN {<<"malloc", sat[who]>>} ELSE {}
      BY <3>x, MarkFacts
    <3>4. ThreadDue(K)' = Marks(K, x)
      BY <3>2, <3>3, KindFacts DEF ThreadDue, Readable
    <3>5. Marks(K, x) \cap Expected(K) = {}
      BY <1>2, <1>3, <3>3 DEF Expected
    <3>6. Expected(K) \cup Marks(K, x) \subseteq Expected(K)'
      BY <1>2, <3>4 DEF Expected
    <3>7. QED BY <1>1, <1>n, <3>2, <3>5, <3>6, Posted
  <2>2. CASE FreePost
    <3>1. PICK x : x = [m |-> "free", i |-> at, b |-> inf[at].addr, key |-> KeyOf(at)]
      OBVIOUS
    <3>x. x.m = "free" /\ x.i = at
      BY <3>1
    <3>2. Post(MyCall.srv, <<x>>) /\ at' = at /\ pc' = "await_free" /\ inf' = inf
          /\ pc = "free_post"
      BY <1>5, <2>2, <3>1 DEF FreePost, Goto
    <3>3. Marks(K, x) = IF K = Every THEN {<<"free", at>>} ELSE {}
      BY <3>x, MarkFacts
    <3>4. ThreadDue(K)' = Marks(K, x)
      BY <3>2, <3>3, KindFacts DEF ThreadDue, Readable
    <3>5. Marks(K, x) \cap Expected(K) = {}
      BY <1>2, <1>3, <3>3 DEF Expected
    <3>6. Expected(K) \cup Marks(K, x) \subseteq Expected(K)'
      BY <1>2, <3>4 DEF Expected
    <3>7. QED BY <1>1, <1>n, <3>2, <3>5, <3>6, Posted
  <2>3. CASE ReadPost
    <3>1. PICK x : x = [m |-> "read", b |-> inf[at].addr, key |-> KeyOf(at), smr |-> smr']
      OBVIOUS
    <3>x. x.m = "read"
      BY <3>1
    <3>2. Post(MyCall.srv, <<x>>) /\ pc' = "await_read" /\ flags' = {}
      BY <2>3, <3>1 DEF ReadPost, Goto
    <3>3. Marks(K, x) = {<<"read", 0>>}
      BY <3>x, MarkFacts
    <3>4. ThreadDue(K)' = Marks(K, x)
      BY <3>2, <3>3 DEF ThreadDue
    <3>5. Marks(K, x) \cap Expected(K) = {}
      BY <1>2, <1>3, <3>3 DEF Expected
    <3>6. Expected(K) \cup Marks(K, x) \subseteq Expected(K)'
      BY <1>2, <3>4 DEF Expected
    <3>7. QED BY <1>1, <1>n, <3>2, <3>5, <3>6, Posted
  <2>4. CASE WritePost
    <3>1. PICK x, y : /\ x = [m |-> "write", b |-> inf[at].addr, key |-> KeyOf(at),
                              smr |-> smr', i |-> at]
                      /\ y = [m |-> "check", key |-> KeyOf(at)]
      OBVIOUS
    <3>x. x.m = "write" /\ x.i = at /\ y.m = "check"
      BY <3>1
    <3>2. Post(MyCall.srv, <<x, y>>) /\ pc' = "await_write" /\ flags' = {} /\ at' = at
      BY <2>4, <3>1 DEF WritePost, Goto
    <3>3. Marks(K, x) = {<<"write", at>>} /\ Marks(K, y) = {}
      BY <3>x, MarkFacts
    <3>4. ThreadDue(K)' = Marks(K, x)
      BY <3>2, <3>3 DEF ThreadDue
    <3>5. Marks(K, x) \cap Expected(K) = {}
      BY <1>2, <1>3, <3>3 DEF Expected
    <3>6. Expected(K) \cup Marks(K, x) \subseteq Expected(K)'
      BY <1>2, <3>4 DEF Expected
    <3>7. QED BY <1>1, <3>2, <3>3, <3>5, <3>6, Posted
  <2>5. QED BY <2>1, <2>2, <2>3, <2>4
<1>6. QED BY <1>4, <1>5

-----------------------------------------------------------------------------
(* The network, the servers and the client's event loop.                   *)

\* A message reaches the server, or the network does the transfer, or refuses it.
LEMMA TransferMarks ==
    ASSUME NEW K, Sound(K), Typed, Outstanding(K), NEW s \in Server, Transfer(s)
    PROVE  Outstanding(K)'
<1>w. PICK w : w = Head(wire[s])
  OBVIOUS
<1>1. wire[s] # <<>> /\ UNCHANGED <<st, pc, at, flags, inf, hand>>
  BY DEF Transfer, threadVars, tableVars
<1>2. Expected(K)' = Expected(K)
  BY <1>1 DEF Expected, SendsDue, ThreadDue
<1>q. /\ Queue(<<"wire", s>>) = wire[s] /\ Queue(<<"wire", s>>)' = wire'[s]
      /\ Queue(<<"inbox", s>>) = inbox[s] /\ Queue(<<"inbox", s>>)' = inbox'[s]
      /\ Queue(<<"back", s>>) = back[s] /\ Queue(<<"back", s>>)' = back'[s]
  BY Stages, StagesNext
<1>3. CASE Refuse(s)
  <2>1. wire' = [wire EXCEPT ![s] = <<>>] /\ UNCHANGED <<inbox, back>>
    BY <1>3 DEF Refuse
  <2>2. \A j \in Stage : j # <<"wire", s>> => Queue(j)' = Queue(j)
    BY <2>1 DEF Stage, Queue, Typed
  <2>3. <<"wire", s>> \in Stage /\ wire'[s] = <<>>
    BY <2>1 DEF Stage, Typed
  <2>4. QED BY <1>1, <1>2, <1>q, <2>2, <2>3, Emptied, OneQueue
<1>4. CASE /\ w.m \in {"malloc", "free", "send"} /\ Arrived(s)
           /\ inbox' = [inbox EXCEPT ![s] = Append(@, w)] /\ back' = back
  <2>1. wire'[s] = Tail(wire[s]) /\ inbox'[s] = Append(inbox[s], w)
    BY <1>4 DEF Typed, Arrived
  <2>2. \A t \in Server \ {s} : wire'[t] = wire[t] /\ inbox'[t] = inbox[t] /\ back'[t] = back[t]
    BY <1>4 DEF Typed, Arrived
  <2>3. \E y : Queue(<<"inbox", s>>)' = Append(Queue(<<"inbox", s>>), y)
              /\ Marks(K, y) \subseteq Marks(K, Head(Queue(<<"wire", s>>)))
    BY <1>q, <1>w, <2>1
  <2>4. \A j \in {"wire", "inbox", "back"} \ {"wire", "inbox"} : Queue(<<j, s>>)' = Queue(<<j, s>>)
    BY <1>4, <1>q
  <2>5. QED BY <1>1, <1>2, <1>q, <2>1, <2>2, <2>3, <2>4, Forwarded
<1>5. CASE /\ Arrived(s) /\ inbox' = inbox
           /\ \E y : Answer(s, y) /\ Marks(K, y) \subseteq Marks(K, w)
  <2>0. PICK y : Answer(s, y) /\ Marks(K, y) \subseteq Marks(K, w)
    BY <1>5
  <2>1. wire'[s] = Tail(wire[s]) /\ (back'[s] = back[s] \/ back'[s] = Append(back[s], y))
    BY <1>5, <2>0 DEF Typed, Arrived, Answer
  <2>2. \A t \in Server \ {s} : wire'[t] = wire[t] /\ inbox'[t] = inbox[t] /\ back'[t] = back[t]
    BY <1>5, <2>0 DEF Typed, Arrived, Answer
  <2>3. \/ Queue(<<"back", s>>)' = Queue(<<"back", s>>)
        \/ \E z : Queue(<<"back", s>>)' = Append(Queue(<<"back", s>>), z)
              /\ Marks(K, z) \subseteq Marks(K, Head(Queue(<<"wire", s>>)))
    BY <1>q, <1>w, <2>0, <2>1
  <2>4. \A j \in {"wire", "inbox", "back"} \ {"wire", "back"} : Queue(<<j, s>>)' = Queue(<<j, s>>)
    BY <1>5, <1>q
  <2>5. QED BY <1>1, <1>2, <1>q, <2>1, <2>2, <2>3, <2>4, Forwarded
<1>6. CASE /\ w.m = "write" /\ Arrived(s) /\ inbox' = inbox
           /\ Answer(s, [m |-> "write", i |-> w.i, smr |-> w.smr])
  <2>1. PICK y : y = [m |-> "write", i |-> w.i, smr |-> w.smr]
    OBVIOUS
  <2>2. y.m = "write" /\ y.i = w.i
    BY <2>1
  <2>3. Marks(K, y) = Marks(K, w)
    BY <1>6, <2>2 DEF Marks, MarkOf
  <2>4. QED BY <1>5, <1>6, <2>1, <2>3
<1>7. CASE /\ w.m = "read" /\ Arrived(s) /\ inbox' = inbox /\ Answer(s, [m |-> "read"])
  <2>1. PICK y : y = [m |-> "read"]
    OBVIOUS
  <2>2. y.m = "read"
    BY <2>1
  <2>3. Marks(K, y) = Marks(K, w)
    BY <1>7, <2>2 DEF Marks, MarkOf
  <2>4. QED BY <1>5, <1>7, <2>1, <2>3
<1>8. CASE /\ w.m = "check" /\ Arrived(s) /\ inbox' = inbox /\ Answer(s, [m |-> "check"])
  <2>1. PICK y : y = [m |-> "check"]
    OBVIOUS
  <2>2. y.m = "check"
    BY <2>1
  <2>3. Marks(K, y) = {}
    BY <2>2, MarkFacts
  <2>4. QED BY <1>5, <1>8, <2>1, <2>3
<1>9. QED BY <1>w, <1>3, <1>4, <1>6, <1>7, <1>8 DEF Transfer

\* The server answers a request.
LEMMA ServerMarks ==
    ASSUME NEW K, Sound(K), Typed, Outstanding(K), NEW s \in Server, ServerStep(s)
    PROVE  Outstanding(K)'
<1>w. PICK w : w = Head(inbox[s])
  OBVIOUS
<1>1. /\ inbox[s] # <<>> /\ inbox' = [inbox EXCEPT ![s] = Tail(@)]
      /\ UNCHANGED <<st, pc, at, flags, inf, wire, hand>>
  BY DEF ServerStep, ServeMalloc, ServeFree, ServeSend, Handled, callVars, threadVars, tableVars
<1>2. Expected(K)' = Expected(K)
  BY <1>1 DEF Expected, SendsDue, ThreadDue
<1>q. /\ Queue(<<"wire", s>>) = wire[s] /\ Queue(<<"wire", s>>)' = wire'[s]
      /\ Queue(<<"inbox", s>>) = inbox[s] /\ Queue(<<"inbox", s>>)' = inbox'[s]
      /\ Queue(<<"back", s>>) = back[s] /\ Queue(<<"back", s>>)' = back'[s]
  BY Stages, StagesNext
<1>3. \E y : Answer(s, y) /\ Marks(K, y) \subseteq Marks(K, w)
  <2>1. CASE \E b : w.m = "malloc" /\ Answer(s, [m |-> "malloc", i |-> w.i, b |-> b, key |-> epoch[s]])
    <3>1. PICK b : w.m = "malloc" /\ Answer(s, [m |-> "malloc", i |-> w.i, b |-> b, key |-> epoch[s]])
      BY <2>1
    <3>2. PICK y : y = [m |-> "malloc", i |-> w.i, b |-> b, key |-> epoch[s]]
      OBVIOUS
    <3>3. y.m = "malloc" /\ y.i = w.i
      BY <3>2
    <3>4. Marks(K, y) = Marks(K, w)
      BY <3>1, <3>3 DEF Marks, MarkOf
    <3>5. QED BY <3>1, <3>2, <3>4
  <2>2. CASE w.m = "malloc" /\ Answer(s, [m |-> "error", i |-> w.i])
    <3>2. PICK y : y = [m |-> "error", i |-> w.i]
      OBVIOUS
    <3>3. y.m = "error" /\ y.i = w.i
      BY <3>2
    <3>4. Marks(K, y) = Marks(K, w)
      BY <2>2, <3>3, MarkFacts
    <3>5. QED BY <2>2, <3>2, <3>4
  <2>3. CASE w.m = "free" /\ Answer(s, [m |-> "free", i |-> w.i])
    <3>2. PICK y : y = [m |-> "free", i |-> w.i]
      OBVIOUS
    <3>3. y.m = "free" /\ y.i = w.i
      BY <3>2
    <3>4. Marks(K, y) = Marks(K, w)
      BY <2>3, <3>3 DEF Marks, MarkOf
    <3>5. QED BY <2>3, <3>2, <3>4
  <2>4. CASE w.m = "send" /\ Answer(s, [m |-> "send", c |-> w.c])
    <3>2. PICK y : y = [m |-> "send", c |-> w.c]
      OBVIOUS
    <3>3. y.m = "send" /\ y.c = w.c
      BY <3>2
    <3>4. Marks(K, y) = Marks(K, w)
      BY <2>4, <3>3 DEF Marks, MarkOf
    <3>5. QED BY <2>4, <3>2, <3>4
  <2>5. QED BY <1>w, <2>1, <2>2, <2>3, <2>4 DEF ServerStep, ServeMalloc, ServeFree, ServeSend
<1>4. PICK y : Answer(s, y) /\ Marks(K, y) \subseteq Marks(K, w)
  BY <1>3
<1>5. inbox'[s] = Tail(inbox[s]) /\ (back'[s] = back[s] \/ back'[s] = Append(back[s], y))
  BY <1>1, <1>4 DEF Typed, Answer
<1>6. \A t \in Server \ {s} : wire'[t] = wire[t] /\ inbox'[t] = inbox[t] /\ back'[t] = back[t]
  BY <1>1, <1>4 DEF Typed, Answer
<1>7. \/ Queue(<<"back", s>>)' = Queue(<<"back", s>>)
      \/ \E z : Queue(<<"back", s>>)' = Append(Queue(<<"back", s>>), z)
            /\ Marks(K, z) \subseteq Marks(K, Head(Queue(<<"inbox", s>>)))
  BY <1>4, <1>5, <1>q, <1>w
<1>8. \A j \in {"wire", "inbox", "back"} \ {"inbox", "back"} : Queue(<<j, s>>)' = Queue(<<j, s>>)
  BY <1>1, <1>q
<1>9. QED BY <1>1, <1>2, <1>5, <1>6, <1>7, <1>8, <1>q, Forwarded

LEMMA CompleteMarks ==
    ASSUME NEW K, Sound(K), Typed, Outstanding(K), NEW s \in Server, Complete(s)
    PROVE  Outstanding(K)'
<1>1. /\ back[s] # <<>> /\ hand' = Head(back[s]) /\ back' = [back EXCEPT ![s] = Tail(@)]
      /\ UNCHANGED <<st, pc, at, flags, inf, wire, inbox>>
  BY DEF Complete, callVars, threadVars, tableVars
<1>2. Expected(K)' = Expected(K)
  BY <1>1 DEF Expected, SendsDue, ThreadDue
<1>3. QED BY <1>1, <1>2, Completed

LEMMA LoseMarks ==
    ASSUME NEW K, Sound(K), Typed, Outstanding(K), NEW s \in Server, Lose(s)
    PROVE  Outstanding(K)'
<1>1. UNCHANGED <<st, pc, at, flags, inf, hand>>
  BY DEF Lose, callVars, threadVars, tableVars
<1>2. PICK n \in 0 .. Len(back[s]) :
        /\ wire' = [wire EXCEPT ![s] = <<>>] /\ inbox' = [inbox EXCEPT ![s] = <<>>]
        /\ back' = [back EXCEPT ![s] = SubSeq(@, 1, n)]
  BY DEF Lose
<1>3. Expected(K)' = Expected(K)
  BY <1>1 DEF Expected, SendsDue, ThreadDue
<1>4. \A k \in Stage : Once(K, Queue(k)') /\ MarksIn(K, Queue(k)') \subseteq MarksIn(K, Queue(k))
  <2> TAKE k \in Stage
  <2>0. Once(K, Queue(k))
    BY DEF Outstanding
  <2>1. PICK t \in Server : k = <<"wire", t>> \/ k = <<"inbox", t>> \/ k = <<"back", t>>
    BY Stages
  <2>2. CASE t # s
    <3>1. wire'[t] = wire[t] /\ inbox'[t] = inbox[t] /\ back'[t] = back[t]
      BY <1>2, <2>2 DEF Typed
    <3>2. Queue(k)' = Queue(k)
      BY <2>1, <3>1 DEF Queue
    <3>3. QED BY <2>0, <3>2
  <2>3. CASE t = s /\ k # <<"back", s>>
    <3>1. Queue(k)' = <<>>
      BY <1>2, <2>1, <2>3 DEF Queue, Typed
    <3>2. QED BY <2>0, <3>1, Emptied
  <2>4. CASE t = s /\ k = <<"back", s>>
    <3>1. Queue(k) = back[s] /\ Queue(k)' = SubSeq(back[s], 1, n)
      BY <1>2, <2>4 DEF Queue, Typed
    <3>2. QED BY <2>0, <3>1, Prefixed
  <2>5. QED BY <2>1, <2>2, <2>3, <2>4
<1>5. QED BY <1>1, <1>3, <1>4, Fewer
\* The event loop handles what it has in hand.
LEMMA HandlerMarks ==
    ASSUME NEW K, Sound(K), Typed, Outstanding(K), LoopStep
    PROVE  Outstanding(K)'
<1>1. UNCHANGED <<pc, at, wireVars>>
  BY DEF LoopStep, HandleMalloc, HandleKeys, HandleError, HandleNull, HandleWrite, HandleWritten,
         HandleRead, HandleSend, threadVars
<1>2. Marks(K, hand) \subseteq Expected(K)
  BY DEF Outstanding
<1>i. Marks(K, Idle) = {}
  <2>1. Idle.m = "nothing"
    BY DEF Idle
  <2>2. QED BY <2>1, MarkFacts
<1>3. ASSUME UNCHANGED <<st, flags>>, Marks(K, hand') = {},
             NEW i, NEW x, SetInfo(i, x),
             K = Every => (i # at \/ Marks(K, hand) = {<<"malloc", at>>}
                                  \/ Marks(K, hand) = {<<"free", at>>})
      PROVE  Outstanding(K)'
  <2>1. K = Every => inf \in [Info -> InfoType]
    BY KindFacts DEF Readable
  <2>2. CASE K = Every /\ i # at
    <3>1. inf'[at] = inf[at]
      BY <1>3, <2>1, <2>2 DEF SetInfo
    <3>2. Expected(K) \subseteq Expected(K)'
      BY <1>1, <1>3, <3>1 DEF Expected, SendsDue, ThreadDue
    <3>3. QED BY <1>1, <1>3, <3>2, Untouched
  <2>3. CASE K = Every /\ i = at
    <3>1. Expected(K) \ {<<"malloc", at>>, <<"free", at>>} \subseteq Expected(K)'
      BY <1>1, <1>3 DEF Expected, SendsDue, ThreadDue
    <3>2. \A t \in SendsDue : t[1] = "send"
      BY DEF SendsDue
    <3>3. CASE Marks(K, hand) = {<<"malloc", at>>}
      <4>1. <<"malloc", at>> \in ThreadDue(K)
        BY <1>2, <3>2, <3>3 DEF Expected
      <4>2. pc = "await_malloc"
        BY <4>1 DEF ThreadDue
      <4>3. <<"free", at>> \notin Expected(K)
        BY <3>2, <4>2 DEF Expected, ThreadDue
      <4>4. QED BY <1>1, <1>3, <3>1, <3>3, <4>3, Consumed
    <3>4. CASE Marks(K, hand) = {<<"free", at>>}
      <4>1. <<"free", at>> \in ThreadDue(K)
        BY <1>2, <3>2, <3>4 DEF Expected
      <4>2. pc = "await_free"
        BY <4>1 DEF ThreadDue
      <4>3. <<"malloc", at>> \notin Expected(K)
        BY <3>2, <4>2 DEF Expected, ThreadDue
      <4>4. QED BY <1>1, <1>3, <3>1, <3>4, <4>3, Consumed
    <3>5. QED BY <1>3, <2>3, <3>3, <3>4
  <2>4. CASE K = Lasting
    <3>1. Expected(K) \subseteq Expected(K)'
      BY <1>1, <1>3, <2>4 DEF Expected, SendsDue, ThreadDue, Lasting
    <3>2. QED BY <1>1, <1>3, <3>1, Untouched
  <2>5. QED BY <2>2, <2>3, <2>4 DEF Sound
<1>4. CASE HandleMalloc
  <2>1. /\ UNCHANGED <<st, flags>> /\ Marks(K, hand') = {}
        /\ \E x : SetInfo(hand.i, x)
    BY <1>4, <1>i DEF HandleMalloc, callVars, threadVars
  <2>2. K = Every => Marks(K, hand) = {<<"malloc", hand.i>>}
    BY <1>4, MarkFacts DEF HandleMalloc, InHand
  <2>3. QED BY <1>3, <2>1, <2>2
<1>5. CASE HandleError
  <2>1. /\ UNCHANGED <<st, flags>> /\ Marks(K, hand') = {}
        /\ \E x : SetInfo(hand.i, x)
    BY <1>5, <1>i DEF HandleError, callVars, threadVars
  <2>2. K = Every => Marks(K, hand) = {<<"malloc", hand.i>>}
    BY <1>5, MarkFacts DEF HandleError, InHand
  <2>3. QED BY <1>3, <2>1, <2>2
<1>6. CASE HandleKeys
  <2>1. /\ UNCHANGED <<st, flags>> /\ Marks(K, hand') = {}
        /\ \E x : SetInfo(hand.i, x)
    BY <1>6, <1>i DEF HandleKeys, callVars, threadVars
  <2>2. K # Every
    BY <1>6, KindFacts DEF HandleKeys, InHand, Readable, Whole
  <2>3. QED BY <1>3, <2>1, <2>2
<1>7. CASE HandleNull
  <2>1. /\ UNCHANGED <<st, flags>> /\ Marks(K, hand') = {}
        /\ \E x : SetInfo(hand.i, x)
    BY <1>7, <1>i DEF HandleNull, callVars, threadVars
  <2>2. K = Every => Marks(K, hand) = {<<"free", hand.i>>}
    BY <1>7, MarkFacts, KindFacts DEF HandleNull, Readable, Whole
  <2>3. QED BY <1>3, <2>1, <2>2
<1>8. CASE HandleWrite
  <2>1. /\ UNCHANGED <<st, flags, inf>> /\ hand.m = "write"
        /\ hand' = [m |-> "written", i |-> hand.i]
    BY <1>8 DEF HandleWrite, InHand, callVars, threadVars, tableVars
  <2>2. PICK x : x = [m |-> "written", i |-> hand.i]
    OBVIOUS
  <2>3. x.m = "written" /\ x.i = hand.i
    BY <2>2
  <2>4. Marks(K, hand') = Marks(K, hand)
    BY <2>1, <2>2, <2>3, MarkFacts
  <2>5. Expected(K) \subseteq Expected(K)'
    BY <1>1, <2>1 DEF Expected, SendsDue, ThreadDue
  <2>6. QED BY <1>1, <2>4, <2>5, Untouched
<1>9. CASE HandleWritten
  <2>1. /\ UNCHANGED st /\ hand.m = "written" /\ hand' = Idle
        /\ flags' = flags \cup {"write"}
        /\ SetInfo(hand.i, [inf[hand.i] EXCEPT !.wflag = FALSE])
    BY <1>9 DEF HandleWritten, InHand, callVars
  <2>2. Marks(K, hand) = {<<"write", hand.i>>}
    BY <2>1, MarkFacts
  <2>3. pc = "await_write" /\ hand.i = at
    BY <1>2, <2>2 DEF Expected, SendsDue, ThreadDue
  <2>4. Expected(K) \ Marks(K, hand) \subseteq Expected(K)'
    BY <1>1, <2>1, <2>2, <2>3 DEF Expected, SendsDue, ThreadDue
  <2>5. QED BY <1>1, <1>i, <2>1, <2>4, Consumed
<1>10. CASE HandleRead
  <2>1. /\ UNCHANGED <<st, inf>> /\ hand.m \in {"read", "check"} /\ hand' = Idle
        /\ flags' = flags \cup {hand.m}
    BY <1>10 DEF HandleRead, callVars, tableVars
  <2>2. hand.m = "read" => Marks(K, hand) = {<<"read", 0>>}
    BY MarkFacts
  <2>3. Expected(K) \ Marks(K, hand) \subseteq Expected(K)'
    BY <1>1, <1>2, <2>1, <2>2 DEF Expected, SendsDue, ThreadDue
  <2>4. QED BY <1>1, <1>i, <2>1, <2>3, Consumed
<1>11. CASE HandleSend
  <2>1. /\ UNCHANGED <<flags, inf>> /\ hand.m = "send" /\ hand' = Idle
        /\ st' = [st EXCEPT ![hand.c] = "received"]
    BY <1>11 DEF HandleSend, InHand, threadVars, tableVars
  <2>2. Marks(K, hand) = {<<"send", hand.c>>}
    BY <2>1, MarkFacts
  <2>3. Expected(K) \ Marks(K, hand) \subseteq Expected(K)'
    BY <1>1, <2>1, <2>2 DEF Expected, SendsDue, ThreadDue, Typed
  <2>4. QED BY <1>1, <1>i, <2>1, <2>3, Consumed
<1>12. QED BY <1>4, <1>5, <1>6, <1>7, <1>8, <1>9, <1>10, <1>11 DEF LoopStep

LEMMA StillMarks ==
    ASSUME NEW K, Typed, Outstanding(K), UNCHANGED <<st, pc, at, flags, inf, wireVars, hand>>
    PROVE  Outstanding(K)'
<1>1. Expected(K)' = Expected(K)
  BY DEF Expected, SendsDue, ThreadDue
<1>2. QED BY <1>1, Untouched

\* Every step of the system.
LEMMA MarksNext ==
    ASSUME NEW K, Sound(K), Typed, WorkIsLive, Outstanding(K), [Next]_vars
    PROVE  Outstanding(K)'
<1>1. CASE \E c \in Caller : Call(c) \/ Return(c) \/ SendStep(c)
  BY <1>1, CallerMarks, SendPostMarks DEF SendStep
<1>2. CASE ThreadStep
  BY <1>2, ThreadMarks, PostMarks DEF ThreadStep
<1>3. CASE \E s \in Server : Transfer(s) \/ ServerStep(s) \/ Complete(s) \/ Lose(s)
  BY <1>3, TransferMarks, ServerMarks, CompleteMarks, LoseMarks
<1>4. CASE LoopStep
  BY <1>4, HandlerMarks
<1>5. CASE Reconnect \/ Recovered
  BY <1>5, StillMarks DEF Reconnect, Recovered, callVars, threadVars, tableVars
<1>6. CASE UNCHANGED vars
  BY <1>6, StillMarks DEF vars, callVars, threadVars, tableVars
<1>7. CASE AwaitTorn
  BY <1>7, TornMarks
<1>8. QED BY <1>1, <1>2, <1>3, <1>4, <1>5, <1>6, <1>7 DEF Next
-----------------------------------------------------------------------------
(* Where messages are, and where they come from.                           *)

\* What it says of the rest that message x is on the way.
About(K, x) ==
    /\ x.m = "send" => x.c \in Caller /\ st[x.c] = "await"
    /\ x.m = "read" => pc = "await_read" /\ "read" \notin flags
    /\ x.m \in {"write", "written"} => pc = "await_write" /\ "write" \notin flags /\ x.i = at
    /\ x.m = "free" /\ "free" \in K => pc = "await_free" /\ inf[at].addr # Null /\ x.i = at
    /\ x.m \in {"malloc", "error"} /\ "malloc" \in K =>
         pc = "await_malloc" /\ ~inf[at].len /\ x.i = at

LEMMA ExpectedAbout ==
    ASSUME NEW K, Sound(K), NEW x, Marks(K, x) \subseteq Expected(K)
    PROVE  About(K, x)
<1>1. \A t \in Expected(K) : t \in SendsDue \/ t \in ThreadDue(K)
  BY DEF Expected
<1>2. \A t \in SendsDue : \E c \in Caller : t = <<"send", c>> /\ st[c] = "await"
  BY DEF SendsDue
<1>3. \A t \in ThreadDue(K) :
        \/ t = <<"read", 0>> /\ pc = "await_read" /\ "read" \notin flags
        \/ t = <<"write", at>> /\ pc = "await_write" /\ "write" \notin flags
        \/ t = <<"free", at>> /\ pc = "await_free" /\ inf[at].addr # Null
        \/ t = <<"malloc", at>> /\ pc = "await_malloc" /\ ~inf[at].len
  BY DEF ThreadDue
<1>4. \A c : <<"send", c>> \in Expected(K) => c \in Caller /\ st[c] = "await"
  BY <1>1, <1>2, <1>3
<1>5. <<"read", 0>> \in Expected(K) => pc = "await_read" /\ "read" \notin flags
  BY <1>1, <1>2, <1>3
<1>6. \A i : <<"write", i>> \in Expected(K) =>
                pc = "await_write" /\ "write" \notin flags /\ i = at
  BY <1>1, <1>2, <1>3
<1>7. \A i : <<"free", i>> \in Expected(K) =>
                pc = "await_free" /\ inf[at].addr # Null /\ i = at
  BY <1>1, <1>2, <1>3
<1>8. \A i : <<"malloc", i>> \in Expected(K) =>
                pc = "await_malloc" /\ ~inf[at].len /\ i = at
  BY <1>1, <1>2, <1>3
<1>9. /\ x.m = "send" => <<"send", x.c>> \in Expected(K)
      /\ x.m = "read" => <<"read", 0>> \in Expected(K)
      /\ x.m \in {"write", "written"} => <<"write", x.i>> \in Expected(K)
  BY MarkFacts
<1>10. /\ x.m = "free" /\ "free" \in K => <<"free", x.i>> \in Expected(K)
       /\ x.m \in {"malloc", "error"} /\ "malloc" \in K => <<"malloc", x.i>> \in Expected(K)
  <2>1. ("malloc" \in K => K = Every) /\ ("free" \in K => K = Every)
    BY KindFacts
  <2>2. QED BY <2>1, MarkFacts
<1>11. QED BY <1>4, <1>5, <1>6, <1>7, <1>8, <1>9, <1>10 DEF About

LEMMA HandAbout ==
    ASSUME NEW K, Sound(K), Outstanding(K)
    PROVE  About(K, hand)
  BY ExpectedAbout DEF Outstanding

LEMMA QueueAbout ==
    ASSUME NEW K, Sound(K), Outstanding(K), NEW k \in Stage, NEW x \in In(Queue(k))
    PROVE  About(K, x) /\ Marks(K, x) \cap Marks(K, hand) = {}
<1>1. Marks(K, x) \subseteq MarksIn(K, Queue(k))
  BY MarksOfIn
<1>2. QED BY <1>1, ExpectedAbout DEF Outstanding

LEMMA PlaceAbout ==
    ASSUME NEW K, Sound(K), Outstanding(K), NEW s \in Server,
           NEW x \in In(wire[s]) \cup In(inbox[s]) \cup In(back[s])
    PROVE  About(K, x) /\ Marks(K, x) \cap Marks(K, hand) = {}
  BY QueueAbout, Stages

\* A message that is ahead of others, or elsewhere, has another mark.
LEMMA HeadIsOther ==
    ASSUME NEW K, Outstanding(K), NEW k \in Stage, Queue(k) # <<>>
    PROVE  /\ \A x \in In(Tail(Queue(k))) : Marks(K, x) \cap Marks(K, Head(Queue(k))) = {}
           /\ \A j \in Stage : j # k =>
                \A x \in In(Queue(j)) : Marks(K, x) \cap Marks(K, Head(Queue(k))) = {}
<1>1. Once(K, Queue(k))
  BY DEF Outstanding
<1>2. /\ MarksIn(K, Tail(Queue(k))) = MarksIn(K, Queue(k)) \ Marks(K, Head(Queue(k)))
      /\ Marks(K, Head(Queue(k))) \subseteq MarksIn(K, Queue(k))
  BY <1>1, Tailed
<1>3. \A x \in In(Tail(Queue(k))) : Marks(K, x) \subseteq MarksIn(K, Tail(Queue(k)))
  BY MarksOfIn
<1>4. \A j \in Stage : \A x \in In(Queue(j)) : Marks(K, x) \subseteq MarksIn(K, Queue(j))
  BY MarksOfIn
<1>5. \A j \in Stage : j # k => MarksIn(K, Queue(j)) \cap MarksIn(K, Queue(k)) = {}
  BY DEF Outstanding
<1>6. QED BY <1>2, <1>3, <1>4, <1>5

\* Queues are sequences.
LEMMA Queues ==
    ASSUME NEW K, Outstanding(K), NEW s \in Server
    PROVE  IsSeq(wire[s]) /\ IsSeq(inbox[s]) /\ IsSeq(back[s])
  BY Stages DEF Outstanding, Once

LEMMA PostedFrom ==
    ASSUME NEW K, Outstanding(K), Typed, NEW t, NEW x, NEW s \in Server
    PROVE  /\ Post(t, <<x>>) => In(wire'[s]) \subseteq In(wire[s]) \cup (IF s = t THEN {x} ELSE {})
           /\ \A y : Post(t, <<x, y>>) =>
                 In(wire'[s]) \subseteq In(wire[s]) \cup (IF s = t THEN {x, y} ELSE {})
<1>1. IsSeq(wire[s])
  BY Queues
<1>2. /\ \A z : In(Append(wire[s], z)) = In(wire[s]) \cup {z} /\ IsSeq(Append(wire[s], z))
      /\ wire[s] \o <<x>> = Append(wire[s], x)
      /\ \A y : wire[s] \o <<x, y>> = Append(Append(wire[s], x), y)
  BY <1>1, InQueue
<1>3. \A y : In(Append(Append(wire[s], x), y)) = In(wire[s]) \cup {x, y}
  <2> TAKE y
  <2>1. In(Append(Append(wire[s], x), y)) = In(Append(wire[s], x)) \cup {y}
    BY <1>2, InQueue
  <2>2. QED BY <1>2, <2>1
<1>4. CASE s # t
  BY <1>4 DEF Post, Typed
<1>5. CASE s = t
  <2>1. Post(t, <<x>>) => wire'[s] \in {wire[s], Append(wire[s], x)}
    BY <1>2, <1>5 DEF Post, Typed
  <2>2. \A y : Post(t, <<x, y>>) => wire'[s] \in {wire[s], Append(Append(wire[s], x), y)}
    BY <1>2, <1>5 DEF Post, Typed
  <2>3. QED BY <1>2, <1>3, <1>5, <2>1, <2>2
<1>6. QED BY <1>4, <1>5

LEMMA AnsweredFrom ==
    ASSUME NEW K, Outstanding(K), Typed, NEW t, NEW x, NEW s \in Server, Answer(t, x)
    PROVE  In(back'[s]) \subseteq In(back[s]) \cup (IF s = t THEN {x} ELSE {})
<1>1. IsSeq(back[s])
  BY Queues
<1>2. In(Append(back[s], x)) = In(back[s]) \cup {x}
  BY <1>1, InQueue
<1>3. QED BY <1>2 DEF Answer, Typed

\* The first message of a queue of server s leaves it.
LEMMA LeftBy ==
    ASSUME NEW K, Outstanding(K), Typed, NEW t, NEW s \in Server
    PROVE  /\ Arrived(t) /\ wire[t] # <<>> => In(wire'[s]) \subseteq In(wire[s])
           /\ Handled(t) /\ inbox[t] # <<>> => In(inbox'[s]) \subseteq In(inbox[s])
           /\ back' = [back EXCEPT ![t] = Tail(@)] /\ back[t] # <<>> =>
                In(back'[s]) \subseteq In(back[s])
           /\ wire[s] # <<>> => Head(wire[s]) \in In(wire[s])
           /\ inbox[s] # <<>> => Head(inbox[s]) \in In(inbox[s])
           /\ back[s] # <<>> => Head(back[s]) \in In(back[s])
<1>1. IsSeq(wire[s]) /\ IsSeq(inbox[s]) /\ IsSeq(back[s])
  BY Queues
<1>2. /\ wire[s] # <<>> => Head(wire[s]) \in In(wire[s]) /\ In(Tail(wire[s])) \subseteq In(wire[s])
      /\ inbox[s] # <<>> => Head(inbox[s]) \in In(inbox[s]) /\ In(Tail(inbox[s])) \subseteq In(inbox[s])
      /\ back[s] # <<>> => Head(back[s]) \in In(back[s]) /\ In(Tail(back[s])) \subseteq In(back[s])
  BY <1>1, InQueue
<1>3. QED BY <1>2 DEF Arrived, Handled, Typed

LEMMA NoneIn == In(<<>>) = {}
  BY DEF In

\* A loss.
LEMMA LostFrom ==
    ASSUME NEW K, Outstanding(K), Typed, NEW t \in Server, Lose(t), NEW s \in Server
    PROVE  /\ In(wire'[s]) \subseteq In(wire[s]) /\ In(inbox'[s]) \subseteq In(inbox[s])
           /\ In(back'[s]) \subseteq In(back[s])
           /\ s = t => wire'[s] = <<>> /\ inbox'[s] = <<>>
<1>1. IsSeq(back[s])
  BY Queues
<1>2. PICK n \in 0 .. Len(back[t]) :
        /\ wire' = [wire EXCEPT ![t] = <<>>] /\ inbox' = [inbox EXCEPT ![t] = <<>>]
        /\ back' = [back EXCEPT ![t] = SubSeq(@, 1, n)]
  BY DEF Lose
<1>3. s = t => In(SubSeq(back[s], 1, n)) \subseteq In(back[s])
  BY <1>1, InQueue
<1>4. QED BY <1>2, <1>3, NoneIn DEF Typed
-----------------------------------------------------------------------------
(* The works of the callers.                                               *)

\* Queues stay functions on servers.
LEMMA QueuesStay ==
    ASSUME Typed, [Next]_vars
    PROVE  /\ wire' = [s \in Server |-> wire'[s]]
           /\ inbox' = [s \in Server |-> inbox'[s]]
           /\ back' = [s \in Server |-> back'[s]]
<1>1. CASE UNCHANGED wireVars
  BY <1>1 DEF wireVars, Typed
<1>2. CASE \E c \in Caller : SendPost(c)
  BY <1>2 DEF SendPost, Post, Typed
<1>3. CASE PostMalloc \/ FreePost \/ ReadPost \/ WritePost
  BY <1>3 DEF PostMalloc, FreePost, ReadPost, WritePost, Post, Typed
<1>4. CASE \E s \in Server : Transfer(s)
  BY <1>4 DEF Transfer, Arrived, Answer, Refuse, Typed
<1>5. CASE \E s \in Server : ServerStep(s)
  BY <1>5 DEF ServerStep, ServeMalloc, ServeFree, ServeSend, Answer, Handled, Typed
<1>6. CASE \E s \in Server : Complete(s) \/ Lose(s)
  BY <1>6 DEF Complete, Lose, Typed
<1>7. CASE \E c \in Caller : Call(c) \/ Return(c) \/ SendLookup(c) \/ SendCheck(c) \/ SendOut(c)
  BY <1>1, <1>7 DEF Call, CallMalloc, CallWork, CallSend, Asks, Return, SendLookup, SendCheck, SendOut
<1>8. CASE TakeWork \/ AwaitMalloc \/ FreeLookup \/ AwaitFree \/ Lookup \/ AwaitRead
           \/ WriteCheck \/ AwaitWrite \/ Finish
  BY <1>1, <1>8 DEF TakeWork, AwaitMalloc, Take, FreeLookup, AwaitFree, Lookup, AwaitRead, WriteCheck,
         AwaitWrite, Finish
<1>9. CASE LoopStep \/ Reconnect \/ Recovered
  BY <1>1, <1>9 DEF LoopStep, HandleMalloc, HandleKeys, HandleError, HandleNull, HandleWrite,
         HandleWritten, HandleRead, HandleSend, Reconnect, Recovered
<1>10. CASE UNCHANGED vars
  BY <1>1, <1>10 DEF vars
<1>11. CASE AwaitTorn
  BY <1>1, <1>11, TornFacts
<1>12. QED BY <1>2, <1>3, <1>4, <1>5, <1>6, <1>7, <1>8, <1>9, <1>10, <1>11
         DEF Next, ThreadStep, SendStep

\* Nobody asks, the thread neither takes nor ends a work, and no caller that
\* waits is woken.
LEMMA WorksStay ==
    ASSUME Typed, WorkIsLive, [Next]_vars, works' = works, who' = who,
           pc' # "take" => pc # "take", st' \in [Caller -> State],
           \A c \in Caller : st[c] = "waiting" => st'[c] = "waiting"
    PROVE  Typed' /\ WorkIsLive'
<1>1. Typed'
  BY QueuesStay DEF Typed
<1>2. \A k \in DOMAIN works : works[k] \in Caller
  BY DEF Typed
<1>3. WorkIsLive'
  BY <1>2 DEF Typed, WorkIsLive
<1>4. QED BY <1>1, <1>3

\* A work is appended.
LEMMA WorkQueued ==
    ASSUME Typed, WorkIsLive, [Next]_vars, NEW c \in Caller, st[c] = "idle", Queued(c),
           UNCHANGED <<pc, who>>
    PROVE  Typed' /\ WorkIsLive'
<1>1. /\ works' \in Seq(Caller) /\ Len(works) \in Nat
      /\ DOMAIN works = 1 .. Len(works) /\ DOMAIN works' = 1 .. Len(works) + 1
      /\ \A k \in DOMAIN works : works'[k] = works[k] /\ works[k] \in Caller
      /\ works'[Len(works) + 1] = c
  BY DEF Typed, Queued
<1>2. /\ st' \in [Caller -> State]
      /\ st'[c] = "waiting" /\ \A d \in Caller \ {c} : st'[d] = st[d]
  BY DEF Typed, Queued, State
<1>3. Typed'
  BY <1>1, <1>2, QueuesStay DEF Typed
<1>4. (pc # "take" => st[who] = "waiting" /\ who \in Caller)
      /\ \A k \in DOMAIN works : st[works[k]] = "waiting" /\ (pc # "take" => works[k] # who)
  BY DEF WorkIsLive, Typed
<1>5. \A k \in DOMAIN works' : st'[works'[k]] = "waiting" /\ (pc # "take" => works'[k] # who)
  <2> TAKE k \in DOMAIN works'
  <2>1. CASE k \in DOMAIN works
    BY <1>1, <1>2, <1>4, <2>1
  <2>2. CASE k = Len(works) + 1
    BY <1>1, <1>2, <1>4, <2>2
  <2>3. QED BY <1>1, <2>1, <2>2
<1>6. \A j, k \in DOMAIN works' : works'[j] = works'[k] => j = k
  <2> TAKE j, k \in DOMAIN works'
  <2> HAVE works'[j] = works'[k]
  <2>1. CASE j \in DOMAIN works /\ k \in DOMAIN works
    BY <1>1, <2>1 DEF WorkIsLive
  <2>2. CASE j = Len(works) + 1 /\ k = Len(works) + 1
    BY <2>2
  <2>3. CASE j \in DOMAIN works /\ k = Len(works) + 1
    BY <1>1, <1>4, <2>3
  <2>4. CASE k \in DOMAIN works /\ j = Len(works) + 1
    BY <1>1, <1>4, <2>4
  <2>5. QED BY <1>1, <2>1, <2>2, <2>3, <2>4
<1>7. pc' # "take" => st'[who'] = "waiting"
  BY <1>2, <1>4
<1>8. QED BY <1>3, <1>5, <1>6, <1>7 DEF WorkIsLive

\* What is left of the works when the first one is taken.
LEMMA WorksTail ==
    ASSUME Typed, works # <<>>
    PROVE  /\ works \in Seq(Caller) /\ Len(works) \in Nat \ {0}
           /\ DOMAIN works = 1 .. Len(works)
           /\ Tail(works) \in Seq(Caller) /\ DOMAIN Tail(works) = 1 .. Len(works) - 1
           /\ \A k \in DOMAIN Tail(works) : /\ k + 1 \in DOMAIN works /\ k \in Nat
                                            /\ Tail(works)[k] = works[k + 1]
           /\ Head(works) = works[1] /\ 1 \in DOMAIN works /\ Head(works) \in Caller
  BY DEF Typed

\* The thread takes the first work, whose caller waits.
LEMMA TakenWork ==
    ASSUME Typed, WorkIsLive, TakeWork
    PROVE  Typed' /\ WorkIsLive'
<1>1. /\ pc = "take" /\ works # <<>> /\ who' = Head(works) /\ works' = Tail(works)
      /\ UNCHANGED <<st, wireVars>>
  BY DEF TakeWork, callVars
<1>2. /\ works \in Seq(Caller) /\ Len(works) \in Nat \ {0}
      /\ DOMAIN works = 1 .. Len(works)
      /\ works' \in Seq(Caller) /\ DOMAIN works' = 1 .. Len(works) - 1
      /\ \A k \in DOMAIN works' : k + 1 \in DOMAIN works /\ works'[k] = works[k + 1] /\ k \in Nat
      /\ who' = works[1] /\ 1 \in DOMAIN works /\ who' \in Caller
  BY <1>1, WorksTail
<1>3. Typed'
  BY <1>1, <1>2 DEF Typed, wireVars
<1>4. /\ \A k \in DOMAIN works : st[works[k]] = "waiting"
      /\ \A j, k \in DOMAIN works : works[j] = works[k] => j = k
  BY DEF WorkIsLive
<1>5. st'[who'] = "waiting"
  BY <1>1, <1>2, <1>4
<1>6. \A k \in DOMAIN works' : st'[works'[k]] = "waiting" /\ works'[k] # who'
  <2> TAKE k \in DOMAIN works'
  <2>1. k + 1 \in DOMAIN works /\ works'[k] = works[k + 1] /\ k + 1 # 1
    BY <1>2
  <2>2. QED BY <1>1, <1>2, <1>4, <2>1
<1>7. \A j, k \in DOMAIN works' : works'[j] = works'[k] => j = k
  <2> TAKE j, k \in DOMAIN works'
  <2> HAVE works'[j] = works'[k]
  <2>1. j + 1 = k + 1
    BY <1>2, <1>4
  <2>2. QED BY <1>2, <2>1
<1>8. QED BY <1>3, <1>5, <1>6, <1>7 DEF WorkIsLive

\* Its work done, the thread wakes the caller it serves.
LEMMA FinishedWork ==
    ASSUME Typed, WorkIsLive, Finish
    PROVE  Typed' /\ WorkIsLive'
<1>1. /\ pc = "finish" /\ pc' = "take" /\ who \in Caller /\ st[who] = "waiting"
      /\ st' = [st EXCEPT ![who] = "done"] /\ UNCHANGED <<works, wireVars>>
  BY DEF Typed, WorkIsLive, Finish
<1>2. Typed'
  BY <1>1 DEF Typed, State, wireVars
<1>3. \A k \in DOMAIN works : works[k] \in Caller /\ st[works[k]] = "waiting" /\ works[k] # who
  BY <1>1 DEF Typed, WorkIsLive
<1>4. \A d \in Caller \ {who} : st'[d] = st[d]
  BY <1>1 DEF Typed
<1>5. WorkIsLive'
  BY <1>1, <1>3, <1>4 DEF WorkIsLive
<1>6. QED BY <1>2, <1>5

LEMMA WorksNext ==
    ASSUME Typed, WorkIsLive, Outstanding(Lasting), [Next]_vars
    PROVE  Typed' /\ WorkIsLive'
<1>1. CASE \E c \in Caller, r \in Request : CallMalloc(c, r) \/ CallWork(c, r)
  BY <1>1, WorkQueued DEF CallMalloc, CallWork, Asks, threadVars
<1>2. CASE \E c \in Caller : (\E r \in Request : CallSend(c, r)) \/ Return(c) \/ SendStep(c)
  <2>1. PICK c \in Caller : (\E r \in Request : CallSend(c, r)) \/ Return(c) \/ SendStep(c)
    BY <1>2
  <2>2. /\ UNCHANGED <<works, pc, who>> /\ st[c] # "waiting"
        /\ \E x \in State : st' = [st EXCEPT ![c] = x]
    BY <2>1 DEF CallSend, Asks, Return, SendStep, SendLookup, SendCheck, SendPost, SendOut,
           threadVars, State
  <2>3. QED BY <2>2, WorksStay DEF Typed
<1>3. CASE (ThreadStep \/ AwaitTorn) /\ ~TakeWork /\ ~Finish
  <2>1. pc # "take" /\ UNCHANGED <<st, works, who>>
    BY <1>3, TornFacts DEF ThreadStep, PostMalloc, AwaitMalloc, Take, FreeLookup, FreePost, AwaitFree, Lookup, ReadPost,
         AwaitRead, WriteCheck, WritePost, AwaitWrite, callVars
  <2>2. QED BY <2>1, WorksStay DEF Typed
<1>4. CASE HandleSend
  <2>1. /\ UNCHANGED <<works, pc, who>> /\ hand.m = "send"
        /\ st' = [st EXCEPT ![hand.c] = "received"]
    BY <1>4 DEF HandleSend, InHand, threadVars
  <2>2. hand.c \in Caller /\ st[hand.c] = "await"
    BY <2>1, HandAbout DEF About, Sound
  <2>3. QED BY <2>1, <2>2, WorksStay DEF Typed, State
<1>5. CASE /\ ~HandleSend
           /\ \/ LoopStep \/ Reconnect \/ Recovered
              \/ \E s \in Server : Transfer(s) \/ ServerStep(s) \/ Complete(s) \/ Lose(s)
  <2>1. UNCHANGED <<st, works, pc, who>>
    BY <1>5 DEF LoopStep, HandleMalloc, HandleKeys, HandleError, HandleNull, HandleWrite,
         HandleWritten, HandleRead, Reconnect, Recovered, Transfer, ServerStep, ServeMalloc,
         ServeFree, ServeSend, Complete, Lose, callVars, threadVars
  <2>2. QED BY <2>1, WorksStay DEF Typed
<1>6. CASE UNCHANGED vars
  <2>1. UNCHANGED <<st, works, pc, who>>
    BY <1>6 DEF vars, callVars, threadVars
  <2>2. QED BY <2>1, WorksStay DEF Typed
<1>7. QED BY <1>1, <1>2, <1>3, <1>4, <1>5, <1>6, TakenWork, FinishedWork DEF Next, Call, ThreadStep
-----------------------------------------------------------------------------
(* What callers ask for, and where the thread is with it.                  *)

Transfers == {"read", "write"}
Worked == {"malloc", "free"} \cup Transfers
Direct == {"send", "fetch"}

\* Where the work thread may be, between taking a work and ending it.
PlacesOf(op) == {p \in Place :
    \/ op = "malloc" /\ p \in {"malloc", "await_malloc"}
    \/ op = "free" /\ p \in {"free", "free_post", "await_free"}
    \/ op = "read" /\ p \in {"read", "read_spin", "await_read"}
    \/ op = "write" /\ p \in {"write", "write_spin", "write_post", "await_write"}}

Calls ==
    /\ call \in [Caller -> Request \cup {NoCall}]
    /\ \A c \in Caller : st[c] = "idle" <=> call[c] = NoCall
    /\ \A c \in Caller : st[c] = "waiting" => call[c].op \in Worked
    /\ \A c \in Caller : st[c] \in {"lookup", "check", "post", "await", "received", "crashed"} =>
                           call[c].op \in Direct
    /\ pc \in Place
    /\ pc \notin {"take", "finish"} => pc \in PlacesOf(MyCall.op)

\* A place tells the operation.
LEMMA PlaceTells ==
    ASSUME Calls
    PROVE  /\ pc \in {"malloc", "await_malloc"} => MyCall.op = "malloc"
           /\ pc \in {"free", "free_post", "await_free"} => MyCall.op = "free"
           /\ pc \in {"read", "read_spin", "await_read"} => MyCall.op = "read"
           /\ pc \in {"write", "write_spin", "write_post", "await_write"} => MyCall.op = "write"
  BY DEF Calls, PlacesOf, Place

\* Requests have the fields of their kind.
LEMMA RequestFacts ==
    ASSUME NEW r \in Request
    PROVE  /\ r.op \in Worked \cup Direct /\ r.srv \in Server /\ r.val \in Value
           /\ r.op # "malloc" => r.blk \in Block
           /\ r.op \in Transfers => r.len \in Length
           /\ r # NoCall
  BY ValueAssumption, AnswerAssumption DEF Request, Worked, Direct, Transfers

\* The request the thread serves.
LEMMA MyCallFacts ==
    ASSUME Typed, WorkIsLive, Calls, pc # "take"
    PROVE  /\ who \in Caller /\ st[who] = "waiting" /\ MyCall \in Request
           /\ MyCall.op \in Worked /\ MyCall = call[who]
<1>1. who \in Caller /\ st[who] = "waiting"
  BY DEF Typed, WorkIsLive
<1>2. call[who] \in Request
  BY <1>1 DEF Calls
<1>3. QED BY <1>1, <1>2 DEF Calls, MyCall

\* Nobody asks or returns, and the thread stays or goes on with its work.
LEMMA CallsStay ==
    ASSUME Typed, WorkIsLive, Calls, UNCHANGED <<call, who>>,
           \A c \in Caller : st'[c] = st[c] \/ (st[c] \in {"lookup", "check", "post", "await", "received"}
               /\ st'[c] \in {"check", "post", "await", "received", "crashed", "done"}),
           pc' \in Place,
           pc' = pc \/ pc' = "finish" \/ pc' \in PlacesOf(MyCall.op)
    PROVE  Calls'
<1>1. MyCall' = MyCall
  BY DEF MyCall
<1>2. \A c \in Caller : /\ st'[c] = "idle" <=> call'[c] = NoCall
                        /\ st'[c] = "waiting" => call'[c].op \in Worked
                        /\ st'[c] \in {"lookup", "check", "post", "await", "received", "crashed"} =>
                              call'[c].op \in Direct
  BY DEF Calls
<1>3. pc' \notin {"take", "finish"} => pc' \in PlacesOf(MyCall.op)
  BY DEF Calls
<1>4. PlacesOf(MyCall.op)' = PlacesOf(MyCall.op)
  BY <1>1 DEF PlacesOf, Place
<1>5. QED BY <1>2, <1>3, <1>4 DEF Calls

LEMMA CallsNext ==
    ASSUME Typed, WorkIsLive, Calls, Outstanding(Lasting), [Next]_vars
    PROVE  Calls'
<1>1. CASE \E c \in Caller : Call(c) \/ Return(c)
  <2>1. PICK c \in Caller, r \in Request \cup {NoCall} :
            /\ call' = [call EXCEPT ![c] = r] /\ UNCHANGED <<pc, who>>
            /\ st[c] # "waiting"
            /\ \/ r = NoCall /\ st' = [st EXCEPT ![c] = "idle"]
               \/ r \in Request /\ r.op \in Worked /\ st' = [st EXCEPT ![c] = "waiting"]
               \/ r \in Request /\ r.op \in Direct /\ st' = [st EXCEPT ![c] = "lookup"]
    BY <1>1 DEF Call, CallMalloc, CallWork, CallSend, Asks, Queued, Return, threadVars, Worked,
                Direct, Transfers
  <2>2. \A d \in Caller \ {c} : call'[d] = call[d] /\ st'[d] = st[d]
    BY <2>1 DEF Calls, Typed
  <2>4. st'[c] = IF r = NoCall THEN "idle" ELSE IF r.op \in Worked THEN "waiting" ELSE "lookup"
    <3>1. r \in Request => r # NoCall
      BY RequestFacts
    <3>2. r \in Request /\ r.op \in Direct => r.op \notin Worked
      BY DEF Direct, Worked, Transfers
    <3>3. QED BY <2>1, <3>1, <3>2 DEF Typed
  <2>5. call' \in [Caller -> Request \cup {NoCall}] /\ call'[c] = r
    BY <2>1 DEF Calls
  <2>6. r # NoCall => r \in Request
    BY <2>1
  <2>7. r # NoCall /\ r.op \notin Worked => r.op \in Direct
    BY <2>6, RequestFacts
  <2>8. \A d \in Caller : /\ st'[d] = "idle" <=> call'[d] = NoCall
                          /\ st'[d] = "waiting" => call'[d].op \in Worked
                          /\ st'[d] \in {"lookup", "check", "post", "await", "received", "crashed"} =>
                                call'[d].op \in Direct
    BY <2>2, <2>4, <2>5, <2>7 DEF Calls
  <2>9. pc # "take" => who # c /\ who \in Caller
    BY <2>1 DEF WorkIsLive, Typed
  <2>10. pc # "take" => MyCall' = MyCall
    BY <2>1, <2>2, <2>9 DEF MyCall
  <2>11. pc # "take" => PlacesOf(MyCall.op)' = PlacesOf(MyCall.op)
    BY <2>10 DEF PlacesOf, Place
  <2>12. pc' \in Place /\ (pc' \notin {"take", "finish"} => pc' \in PlacesOf(MyCall.op)')
    BY <2>1, <2>11 DEF Calls
  <2>13. QED BY <2>5, <2>8, <2>12 DEF Calls
<1>2. CASE TakeWork
  <2>1. UNCHANGED <<call, st>> /\ who' = Head(works) /\ pc' = call[who'].op
    BY <1>2 DEF TakeWork, callVars
  <2>2. who' \in Caller /\ st[who'] = "waiting"
    BY <1>2, <2>1, WorksTail DEF TakeWork, WorkIsLive
  <2>3. call[who'].op \in Worked
    BY <2>2 DEF Calls
  <2>4. MyCall' = call[who']
    BY <2>1 DEF MyCall
  <2>5. pc' \in Place /\ pc' \in PlacesOf(MyCall.op)'
    BY <2>1, <2>3, <2>4 DEF PlacesOf, Place, Worked, Transfers
  <2>6. QED BY <2>1, <2>5 DEF Calls
<1>3. CASE Finish
  <2>1. /\ pc = "finish" /\ pc' = "take" /\ UNCHANGED call
        /\ st' = [st EXCEPT ![who] = "done"]
    BY <1>3 DEF Finish
  <2>2. who \in Caller /\ st[who] = "waiting"
    BY <2>1 DEF Typed, WorkIsLive
  <2>3. \A d \in Caller : st'[d] = IF d = who THEN "done" ELSE st[d]
    BY <2>1 DEF Typed
  <2>4. \A d \in Caller : /\ st'[d] = "idle" <=> call'[d] = NoCall
                          /\ st'[d] = "waiting" => call'[d].op \in Worked
                          /\ st'[d] \in {"lookup", "check", "post", "await", "received", "crashed"} =>
                                call'[d].op \in Direct
    BY <2>1, <2>2, <2>3 DEF Calls
  <2>5. pc' \in Place /\ pc' \in {"take", "finish"}
    BY <2>1 DEF Place
  <2>6. QED BY <2>1, <2>4, <2>5 DEF Calls
<1>4. CASE (ThreadStep \/ AwaitTorn) /\ ~TakeWork /\ ~Finish
  <2>1. UNCHANGED <<call, st, who>> /\ pc # "take"
    BY <1>4, TornFacts DEF ThreadStep, PostMalloc, AwaitMalloc, Take, FreeLookup, FreePost, AwaitFree, Lookup, ReadPost,
         AwaitRead, WriteCheck, WritePost, AwaitWrite, callVars
  <2>2. pc' \in Place /\ (pc' = "finish" \/ pc' \in PlacesOf(MyCall.op))
    BY <1>4, PlaceTells, TornFacts DEF ThreadStep, PostMalloc, AwaitMalloc, Take, FreeLookup, FreePost, AwaitFree, Lookup,
         ReadPost, AwaitRead, WriteCheck, WritePost, AwaitWrite, Goto, PlacesOf, Place
  <2>3. QED BY <2>1, <2>2, CallsStay
<1>5. CASE \E c \in Caller : SendStep(c)
  <2>1. PICK c \in Caller : SendStep(c)
    BY <1>5
  <2>2. /\ UNCHANGED <<call, pc, who>> /\ st[c] \in {"lookup", "check", "post", "received"}
        /\ \E x \in {"check", "post", "await", "crashed", "done"} : st' = [st EXCEPT ![c] = x]
    BY <2>1 DEF SendStep, SendLookup, SendCheck, SendPost, SendOut, threadVars
  <2>3. pc' \in Place
    BY <2>2 DEF Calls
  <2>4. QED BY <2>2, <2>3, CallsStay DEF Typed
<1>6. CASE HandleSend
  <2>1. /\ UNCHANGED <<call, pc, who>> /\ hand.m = "send"
        /\ st' = [st EXCEPT ![hand.c] = "received"]
    BY <1>6 DEF HandleSend, InHand, threadVars
  <2>2. hand.c \in Caller /\ st[hand.c] = "await"
    BY <2>1, HandAbout DEF About, Sound
  <2>3. pc' \in Place
    BY <2>1 DEF Calls
  <2>4. QED BY <2>1, <2>2, <2>3, CallsStay DEF Typed
<1>7. CASE /\ ~HandleSend
           /\ \/ LoopStep \/ Reconnect \/ Recovered
              \/ \E s \in Server : Transfer(s) \/ ServerStep(s) \/ Complete(s) \/ Lose(s)
  <2>1. UNCHANGED <<call, st, pc, who>>
    BY <1>7 DEF LoopStep, HandleMalloc, HandleKeys, HandleError, HandleNull, HandleWrite,
         HandleWritten, HandleRead, Reconnect, Recovered, Transfer, ServerStep, ServeMalloc,
         ServeFree, ServeSend, Complete, Lose, callVars, threadVars
  <2>2. pc' \in Place
    BY <2>1 DEF Calls
  <2>3. QED BY <2>1, <2>2, CallsStay
<1>8. CASE UNCHANGED vars
  <2>1. UNCHANGED <<call, st, pc, who>>
    BY <1>8 DEF vars, callVars, threadVars
  <2>2. pc' \in Place
    BY <2>1 DEF Calls
  <2>3. QED BY <2>1, <2>2, CallsStay
<1>9. QED BY <1>1, <1>2, <1>3, <1>4, <1>5, <1>6, <1>7, <1>8 DEF Next, ThreadStep
-----------------------------------------------------------------------------
(* Registered buffers.                                                     *)

LEMMA FirstOfIsLeast ==
    ASSUME NEW S \in SUBSET Nat, S # {}
    PROVE  FirstOf(S) \in S /\ \A y \in S : FirstOf(S) =< y
<1>1. PICK x \in S : \A y \in S : ~ (<<y, x>> \in OpToRel(<, Nat))
  BY NatLessThanWellFounded, WFMin, Zenon
<1>2. \A y \in S : ~ (y < x)
  BY <1>1, Zenon DEF OpToRel
<1>3. \E z \in S : \A y \in S : z =< y
  BY <1>2
<1>4. QED BY <1>3 DEF FirstOf

\* Element k of a sequence is dropped.
Shift(n, k) == IF n < k THEN n ELSE n + 1
LEMMA DropFacts ==
    ASSUME NEW S, NEW q \in Seq(S), NEW k \in DOMAIN q
    PROVE  /\ Drop(q, k) \in Seq(S) /\ Len(q) \in Nat \ {0} /\ DOMAIN q = 1 .. Len(q)
           /\ DOMAIN Drop(q, k) = 1 .. Len(q) - 1
           /\ \A n \in DOMAIN Drop(q, k) : /\ Shift(n, k) \in DOMAIN q \ {k}
                                           /\ Drop(q, k)[n] = q[Shift(n, k)]
           /\ \A m, n \in DOMAIN Drop(q, k) : m < n => Shift(m, k) < Shift(n, k)
           /\ \A m \in DOMAIN q \ {k} : \E n \in DOMAIN Drop(q, k) : Shift(n, k) = m
<1> DEFINE a == SubSeq(q, 1, k - 1)
           b == SubSeq(q, k + 1, Len(q))
<1>1. /\ Len(q) \in Nat \ {0} /\ DOMAIN q = 1 .. Len(q) /\ k \in 1 .. Len(q)
  OBVIOUS
<1>2. a \in Seq(S) /\ Len(a) = k - 1 /\ \A n \in 1 .. k - 1 : a[n] = q[n]
  BY <1>1
<1>3. b \in Seq(S) /\ Len(b) = Len(q) - k /\ \A n \in 1 .. Len(q) - k : b[n] = q[n + k]
  <2>1. k + 1 \in 1 .. Len(q) + 1 /\ Len(q) \in k .. Len(q)
    BY <1>1
  <2>2. CASE k = Len(q)
    BY <1>1, <2>2
  <2>3. CASE k < Len(q)
    BY <1>1, <2>3
  <2>4. QED BY <1>1, <2>2, <2>3
<1>4. Drop(q, k) = a \o b
  BY DEF Drop
<1> HIDE DEF a, b
<1>c. PICK c : c = a \o b
  OBVIOUS
<1>5. /\ c \in Seq(S) /\ DOMAIN c = 1 .. Len(q) - 1
      /\ \A n \in 1 .. Len(q) - 1 : /\ n < k => c[n] = a[n]
                                    /\ ~(n < k) => c[n] = b[n - (k - 1)]
  <2>1. /\ c \in Seq(S) /\ Len(c) = Len(a) + Len(b)
        /\ \A n \in 1 .. Len(a) + Len(b) : c[n] = IF n =< Len(a) THEN a[n] ELSE b[n - Len(a)]
    BY <1>c, <1>2, <1>3, ConcatProperties
  <2>2. Len(a) + Len(b) = Len(q) - 1 /\ \A n \in Nat : n < k <=> n =< Len(a)
    BY <1>1, <1>2, <1>3
  <2>3. DOMAIN c = 1 .. Len(q) - 1
    BY <2>1, <2>2
  <2>4. QED BY <1>2, <2>1, <2>2, <2>3
<1>6. \A n \in 1 .. Len(q) - 1 : Shift(n, k) \in DOMAIN q \ {k} /\ c[n] = q[Shift(n, k)]
  <2> TAKE n \in 1 .. Len(q) - 1
  <2>1. CASE n < k
    BY <1>1, <1>2, <1>5, <2>1 DEF Shift
  <2>2. CASE ~(n < k)
    <3>1. n - (k - 1) \in 1 .. Len(q) - k /\ n - (k - 1) + k = n + 1 /\ Shift(n, k) = n + 1
      BY <1>1, <2>2 DEF Shift
    <3>2. c[n] = b[n - (k - 1)]
      BY <1>1, <1>5, <2>2
    <3>3. b[n - (k - 1)] = q[n + 1]
      BY <1>3, <3>1
    <3>4. QED BY <1>1, <2>2, <3>1, <3>2, <3>3
  <2>3. QED BY <2>1, <2>2
<1>7. \A m, n \in 1 .. Len(q) - 1 : m < n => Shift(m, k) < Shift(n, k)
  BY <1>1 DEF Shift
<1>8. \A m \in DOMAIN q \ {k} : \E n \in 1 .. Len(q) - 1 : Shift(n, k) = m
  <2> TAKE m \in DOMAIN q \ {k}
  <2>1. CASE m < k
    <3>1. m \in 1 .. Len(q) - 1 /\ Shift(m, k) = m
      BY <1>1, <2>1 DEF Shift
    <3>2. QED BY <3>1
  <2>2. CASE ~(m < k)
    <3>1. m - 1 \in 1 .. Len(q) - 1 /\ Shift(m - 1, k) = m
      BY <1>1, <2>2 DEF Shift
    <3>2. QED BY <3>1
  <2>3. QED BY <2>1, <2>2
<1>9. QED BY <1>1, <1>4, <1>c, <1>5, <1>6, <1>7, <1>8

\* An element is put in front.
LEMMA PushFacts ==
    ASSUME NEW S, NEW q \in Seq(S), NEW x \in S
    PROVE  /\ <<x>> \o q \in Seq(S) /\ Len(q) \in Nat /\ DOMAIN q = 1 .. Len(q)
           /\ DOMAIN (<<x>> \o q) = 1 .. Len(q) + 1
           /\ (<<x>> \o q)[1] = x
           /\ \A n \in DOMAIN q : n + 1 \in DOMAIN (<<x>> \o q) /\ (<<x>> \o q)[n + 1] = q[n]
           /\ \A n \in DOMAIN (<<x>> \o q) :
                 (n = 1) \/ (n - 1 \in DOMAIN q /\ (<<x>> \o q)[n] = q[n - 1])
  OBVIOUS
\* The work thread has a buffer of its own, from the moment it takes one from
\* the list until the event loop puts it back, or the thread itself does.
InUse == \/ pc = "await_read"
         \/ pc = "await_write" /\ "write" \notin flags /\ hand.m # "written"

BufferShape ==
    /\ buf = [m \in Smr \cup {Own} |-> buf[m]]
    /\ \A m \in Smr \cup {Own} : /\ buf[m] = [len |-> buf[m].len, data |-> buf[m].data]
                                 /\ buf[m].len \in Nat

Pooled ==
    /\ pool \in Seq(Smr) /\ smr \in Smr \cup {Own}
    /\ smr # Own => pc \in {"await_read", "await_write"}
    /\ \A k \in DOMAIN pool : buf[pool[k]].len > 0
    /\ \A j, k \in DOMAIN pool : buf[pool[j]].len = buf[pool[k]].len => j = k
    /\ InUse => /\ buf[smr].len > 0
                /\ smr # Own => \A k \in DOMAIN pool : buf[pool[k]].len # buf[smr].len

\* A transfer on the way is of the buffer of the work thread.
OfBuffer ==
    /\ \A s \in Server : \A x \in In(wire[s]) : x.m \in Transfers => x.smr = smr
    /\ \A s \in Server : \A x \in In(back[s]) : x.m = "write" => x.smr = smr
    /\ hand.m = "write" => hand.smr = smr

Buffers == BufferShape /\ Pooled /\ OfBuffer

LEMMA PoolIn ==
    ASSUME Pooled
    PROVE  /\ \A k \in DOMAIN pool : pool[k] \in Smr /\ pool[k] # Own
           /\ Own \notin Smr /\ Len(pool) \in Nat /\ DOMAIN pool = 1 .. Len(pool)
<1>1. Own \notin Smr
  BY BoundsAssumption DEF Own, Smr
<1>2. QED BY <1>1 DEF Pooled

\* Nothing about buffers changes, but that one may no longer be in use.
LEMMA PooledStay ==
    ASSUME Pooled, UNCHANGED <<pool, smr, pc>>, InUse' => InUse,
           \A m \in Smr \cup {Own} : buf'[m].len = buf[m].len
    PROVE  Pooled'
  BY PoolIn DEF Pooled

\* One buffer goes back to the list.
LEMMA PooledBack ==
    ASSUME Pooled, InUse, smr # Own, pool' = <<smr>> \o pool, ~InUse',
           smr' \in {smr, Own}, smr' # Own => pc' \in {"await_read", "await_write"}, buf' = buf
    PROVE  Pooled'
<1>1. /\ smr \in Smr /\ buf[smr].len > 0
      /\ \A k \in DOMAIN pool : buf[pool[k]].len # buf[smr].len
  BY DEF Pooled
<1>2. /\ pool' \in Seq(Smr) /\ DOMAIN pool' = 1 .. Len(pool) + 1 /\ pool'[1] = smr
      /\ \A n \in DOMAIN pool' : n = 1 \/ (n - 1 \in DOMAIN pool /\ pool'[n] = pool[n - 1])
      /\ Len(pool) \in Nat
  BY <1>1, PushFacts DEF Pooled
<1>3. \A k \in DOMAIN pool' : buf'[pool'[k]].len > 0
  BY <1>1, <1>2 DEF Pooled
<1>4. \A j, k \in DOMAIN pool' : buf'[pool'[j]].len = buf'[pool'[k]].len => j = k
  <2> TAKE j, k \in DOMAIN pool'
  <2> HAVE buf'[pool'[j]].len = buf'[pool'[k]].len
  <2>1. CASE j = 1 \/ k = 1
    BY <1>1, <1>2, <2>1
  <2>2. CASE j # 1 /\ k # 1
    <3>1. j - 1 = k - 1
      BY <1>2, <2>2 DEF Pooled
    <3>2. QED BY <1>2, <3>1
  <2>3. QED BY <2>1, <2>2
<1>5. smr' \in Smr \cup {Own}
  BY <1>1
<1>6. QED BY <1>2, <1>3, <1>4, <1>5 DEF Pooled

\* The thread takes a buffer for `len' of data.
LEMMA PooledTake ==
    ASSUME Pooled, BufferShape, NEW len \in Nat \ {0}, NEW x, TakeBuffer(len), Filled(len, x),
           pc' \in {"await_read", "await_write"}
    PROVE  Pooled' /\ BufferShape'
<1> DEFINE fit == {k \in DOMAIN pool : buf[pool[k]].len >= len}
           new == {m \in Smr : buf[m].len = 0}
<1>0. /\ pool \in Seq(Smr) /\ DOMAIN pool \subseteq Nat /\ Smr \subseteq Nat
      /\ \A k \in DOMAIN pool : pool[k] \in Smr /\ pool[k] # Own /\ buf[pool[k]].len \in Nat
  <2>1. Smr \subseteq Nat
    BY BoundsAssumption DEF Smr
  <2>2. \A k \in DOMAIN pool : pool[k] \in Smr /\ pool[k] # Own
    BY PoolIn
  <2>3. \A k \in DOMAIN pool : buf[pool[k]].len \in Nat
    BY <2>2 DEF BufferShape
  <2>4. pool \in Seq(Smr) /\ DOMAIN pool \subseteq Nat
    BY PoolIn DEF Pooled
  <2>5. QED BY <2>1, <2>2, <2>3, <2>4
<1>1. ASSUME smr' \in Smr \cup {Own}
      PROVE  /\ BufferShape' /\ buf'[smr'].len > 0
             /\ buf'[smr'].len = IF buf[smr'].len = 0 THEN len ELSE buf[smr'].len
             /\ \A m \in Smr \cup {Own} : m # smr' => buf'[m].len = buf[m].len
  <2>1. PICK y : y = [len |-> IF buf[smr'].len = 0 THEN len ELSE buf[smr'].len, data |-> x]
    OBVIOUS
  <2>2. buf' = [buf EXCEPT ![smr'] = y]
    BY <2>1 DEF Filled
  <2>3. \A m \in Smr \cup {Own} : buf'[m] = IF m = smr' THEN y ELSE buf[m]
    BY <1>1, <2>2 DEF BufferShape
  <2>4. y.len \in Nat /\ y.len > 0 /\ y = [len |-> y.len, data |-> y.data]
    <3>1. /\ y.len = IF buf[smr'].len = 0 THEN len ELSE buf[smr'].len
          /\ y = [len |-> y.len, data |-> y.data]
      BY <2>1
    <3>2. buf[smr'].len \in Nat
      BY <1>1 DEF BufferShape
    <3>3. QED BY <3>1, <3>2
  <2>5. buf' = [m \in Smr \cup {Own} |-> buf'[m]]
    BY <2>2 DEF BufferShape
  <2>6. QED BY <1>1, <2>1, <2>3, <2>4, <2>5 DEF BufferShape
<1>2. CASE len > Threshold /\ smr' = Own /\ UNCHANGED pool
  <2>1. \A k \in DOMAIN pool : buf'[pool[k]].len = buf[pool[k]].len
    BY <1>0, <1>1, <1>2
  <2>2. QED BY <1>0, <1>1, <1>2, <2>1 DEF Pooled
<1>3. CASE fit # {} /\ smr' = pool[FirstOf(fit)] /\ pool' = Drop(pool, FirstOf(fit))
  <2>1. PICK k \in DOMAIN pool : k = FirstOf(fit)
    BY <1>0, <1>3, FirstOfIsLeast
  <2>2. smr' = pool[k] /\ smr' \in Smr /\ pool' = Drop(pool, k)
    BY <1>0, <1>3, <2>1
  <2>3. /\ pool' \in Seq(Smr)
        /\ \A n \in DOMAIN pool' : Shift(n, k) \in DOMAIN pool \ {k} /\ pool'[n] = pool[Shift(n, k)]
        /\ \A m, n \in DOMAIN pool' : m < n => Shift(m, k) < Shift(n, k)
        /\ DOMAIN pool' \subseteq Nat /\ DOMAIN pool \subseteq Nat
    <3>1. k \in DOMAIN pool
      OBVIOUS
    <3>2. /\ Drop(pool, k) \in Seq(Smr) /\ Len(pool) \in Nat \ {0}
          /\ DOMAIN Drop(pool, k) = 1 .. Len(pool) - 1
          /\ \A n \in DOMAIN Drop(pool, k) : /\ Shift(n, k) \in DOMAIN pool \ {k}
                                             /\ Drop(pool, k)[n] = pool[Shift(n, k)]
          /\ \A m, n \in DOMAIN Drop(pool, k) : m < n => Shift(m, k) < Shift(n, k)
      BY <1>0, <3>1, DropFacts
    <3>3. QED BY <1>0, <2>2, <3>2
  <2>4. \A j \in DOMAIN pool : j # k => buf[pool[j]].len # buf[smr'].len /\ pool[j] # smr'
    BY <2>2 DEF Pooled
  <2>5. \A n \in DOMAIN pool' : /\ buf'[pool'[n]].len = buf[pool[Shift(n, k)]].len
                                /\ buf'[pool'[n]].len > 0
    <3> TAKE n \in DOMAIN pool'
    <3>1. PICK j \in DOMAIN pool : j = Shift(n, k) /\ j # k /\ pool'[n] = pool[j]
      BY <2>3
    <3>2. pool[j] \in Smr /\ pool[j] # smr' /\ buf[pool[j]].len > 0
      BY <1>0, <2>4, <3>1 DEF Pooled
    <3>3. buf'[pool[j]].len = buf[pool[j]].len
      BY <1>1, <2>2, <3>2
    <3>4. QED BY <3>1, <3>2, <3>3
  <2>6. buf'[smr'].len = buf[smr'].len
    BY <1>0, <1>1, <2>2 DEF Pooled
  <2>7. \A n \in DOMAIN pool' : buf'[pool'[n]].len # buf'[smr'].len
    BY <2>3, <2>4, <2>5, <2>6
  <2>8. \A m, n \in DOMAIN pool' : buf'[pool'[m]].len = buf'[pool'[n]].len => m = n
    <3> TAKE m, n \in DOMAIN pool'
    <3> HAVE buf'[pool'[m]].len = buf'[pool'[n]].len
    <3>1. Shift(m, k) = Shift(n, k)
      BY <2>3, <2>5 DEF Pooled
    <3>2. ~(m < n) /\ ~(n < m)
      <4>1. Shift(m, k) \in Nat /\ Shift(n, k) \in Nat
        BY <2>3
      <4>2. QED BY <2>3, <3>1, <4>1
    <3>3. QED BY <2>3, <3>2
  <2>9. QED BY <1>1, <2>2, <2>3, <2>5, <2>7, <2>8 DEF Pooled
<1>4. CASE fit = {} /\ new # {} /\ smr' = FirstOf(new) /\ UNCHANGED pool
  <2>1. smr' \in Smr /\ buf[smr'].len = 0
    BY <1>0, <1>4, FirstOfIsLeast
  <2>2. buf'[smr'].len = len
    BY <1>1, <2>1
  <2>3. \A k \in DOMAIN pool : /\ pool[k] # smr' /\ buf[pool[k]].len # len
                               /\ buf'[pool[k]].len = buf[pool[k]].len
    <3> TAKE k \in DOMAIN pool
    <3>1. pool[k] \in Smr /\ buf[pool[k]].len > 0 /\ buf[pool[k]].len \in Nat
      BY <1>0 DEF Pooled
    <3>2. pool[k] # smr' /\ buf[pool[k]].len # len
      BY <1>4, <2>1, <3>1
    <3>3. buf'[pool[k]].len = buf[pool[k]].len
      BY <1>1, <2>1, <3>1, <3>2
    <3>4. QED BY <3>2, <3>3
  <2>4. QED BY <1>0, <1>1, <1>4, <2>1, <2>2, <2>3 DEF Pooled
<1>5. QED BY <1>2, <1>3, <1>4 DEF TakeBuffer
\* Transfers and their answers are where they were, or fewer.
LEMMA OfBufferStay ==
    ASSUME OfBuffer, UNCHANGED smr,
           \A s \in Server : /\ \A x \in In(wire'[s]) : x.m \in Transfers => x \in In(wire[s])
                             /\ \A x \in In(back'[s]) : x.m = "write" => x \in In(back[s]),
           hand'.m = "write" => hand' = hand \/ \E s \in Server : hand' \in In(back[s])
    PROVE  OfBuffer'
  BY DEF OfBuffer, Transfers

\* No transfer is on the way.
LEMMA NoTransfer ==
    ASSUME Outstanding(Lasting), pc = "await_read" => "read" \in flags,
           pc = "await_write" => "write" \in flags
    PROVE  /\ \A s \in Server : /\ \A x \in In(wire[s]) : x.m \notin Transfers
                                /\ \A x \in In(back[s]) : x.m # "write"
           /\ hand.m \notin {"write", "written"}
<1>1. Sound(Lasting)
  BY DEF Sound
<1>2. \A s \in Server : \A x \in In(wire[s]) \cup In(back[s]) : About(Lasting, x)
  BY <1>1, PlaceAbout
<1>3. About(Lasting, hand)
  BY <1>1, HandAbout
<1>4. QED BY <1>2, <1>3 DEF About, Transfers

\* The steps that neither take a buffer nor put one back.
LEMMA BuffersStay ==
    ASSUME Buffers, Outstanding(Lasting), Typed, UNCHANGED <<poolVars, smr, pc>>, InUse' => InUse,
           \A s \in Server : /\ \A x \in In(wire'[s]) : x.m \in Transfers => x \in In(wire[s])
                             /\ \A x \in In(back'[s]) : x.m = "write" => x \in In(back[s]),
           hand'.m = "write" => hand' = hand \/ \E s \in Server : hand' \in In(back[s])
    PROVE  Buffers'
<1>1. pool' = pool /\ buf' = buf
  BY DEF poolVars
<1>2. Pooled' /\ BufferShape'
  BY <1>1, PooledStay DEF Buffers, BufferShape
<1>3. QED BY <1>2, OfBufferStay DEF Buffers

LEMMA BuffersTransfer ==
    ASSUME Buffers, Outstanding(Lasting), Typed, NEW s \in Server, Transfer(s)
    PROVE  Buffers'
<1>w. PICK w : w = Head(wire[s])
  OBVIOUS
<1>1. wire[s] # <<>> /\ UNCHANGED <<pool, smr, pc, flags, hand>>
  BY DEF Transfer, threadVars
<1>2. w \in In(wire[s]) /\ (w.m \in Transfers => w.smr = smr)
  BY <1>1, <1>w, LeftBy DEF Buffers, OfBuffer
<1>3. \A t \in Server : In(wire'[t]) \subseteq In(wire[t])
  <2>1. CASE Refuse(s)
    <3>1. \A t \in Server : wire'[t] = IF t = s THEN <<>> ELSE wire[t]
      BY <2>1 DEF Refuse, Typed
    <3>2. QED BY <3>1, NoneIn
  <2>2. CASE Arrived(s)
    BY <1>1, <2>2, LeftBy
  <2>3. QED BY <2>1, <2>2 DEF Transfer
<1>4. \A t \in Server : \A x \in In(back'[t]) : x.m = "write" => x \in In(back[t]) \/ x.smr = smr
  <2>1. CASE back' = back
    BY <2>1
  <2>2. CASE w.m = "write" /\ Answer(s, [m |-> "write", i |-> w.i, smr |-> w.smr])
    <3>1. PICK y : y = [m |-> "write", i |-> w.i, smr |-> w.smr]
      OBVIOUS
    <3>2. y.smr = smr
      BY <1>2, <2>2, <3>1 DEF Transfers
    <3>3. QED BY <2>2, <3>1, <3>2, AnsweredFrom
  <2>3. CASE Answer(s, [m |-> "read"]) \/ Answer(s, [m |-> "check"])
    <3>1. PICK y : Answer(s, y) /\ (y = [m |-> "read"] \/ y = [m |-> "check"])
      BY <2>3
    <3>2. y.m # "write"
      BY <3>1
    <3>3. QED BY <3>1, <3>2, AnsweredFrom
  <2>4. QED BY <1>w, <2>1, <2>2, <2>3 DEF Transfer, Refuse
<1>5. OfBuffer'
  BY <1>1, <1>3, <1>4 DEF Buffers, OfBuffer
<1>6. BufferShape' /\ \A m \in Smr \cup {Own} : buf'[m].len = buf[m].len
  <2>1. CASE buf' = buf
    BY <2>1 DEF Buffers, BufferShape
  <2>2. CASE \E b : buf' = [buf EXCEPT ![w.smr].data = b] /\ w.m = "read"
    <3>1. PICK b : buf' = [buf EXCEPT ![smr].data = b]
      BY <1>2, <2>2 DEF Transfers
    <3>2. smr \in Smr \cup {Own}
      BY DEF Buffers, Pooled
    <3>3. PICK y : y = [len |-> buf[smr].len, data |-> b]
      OBVIOUS
    <3>4. buf[smr] = [len |-> buf[smr].len, data |-> buf[smr].data]
      BY <3>2 DEF Buffers, BufferShape
    <3>5. [buf[smr] EXCEPT !.data = b] = y
      BY <3>3, <3>4
    <3>6. \A m \in Smr \cup {Own} : buf'[m] = IF m = smr THEN y ELSE buf[m]
      BY <3>1, <3>2, <3>5 DEF Buffers, BufferShape
    <3>7. y.len = buf[smr].len /\ y = [len |-> y.len, data |-> y.data]
      BY <3>3
    <3>8. buf' = [m \in Smr \cup {Own} |-> buf'[m]]
      BY <3>1 DEF Buffers, BufferShape
    <3>9. QED BY <3>2, <3>6, <3>7, <3>8 DEF Buffers, BufferShape
  <2>3. QED BY <1>w, <2>1, <2>2 DEF Transfer, Refuse
<1>7. Pooled'
  <2>1. InUse' => InUse
    BY <1>1 DEF InUse
  <2>2. QED BY <1>1, <1>6, <2>1, PooledStay DEF Buffers
<1>8. QED BY <1>5, <1>6, <1>7 DEF Buffers

LEMMA BuffersTaken ==
    ASSUME Buffers, Outstanding(Lasting), Typed, WorkIsLive, Calls, ReadPost \/ WritePost
    PROVE  Buffers'
<1>1. /\ pc \in {"read_spin", "write_post"} /\ UNCHANGED <<inbox, back, hand>>
      /\ pc' \in {"await_read", "await_write"}
  BY DEF ReadPost, WritePost, Goto
<1>2. MyCall.len \in Nat \ {0}
  BY <1>1, MyCallFacts, PlaceTells, RequestFacts, LengthAssumption DEF Transfers
<1>3. TakeBuffer(MyCall.len) /\ \E x : Filled(MyCall.len, x)
  BY DEF ReadPost, WritePost
<1>4. Pooled' /\ BufferShape'
  BY <1>1, <1>2, <1>3, PooledTake DEF Buffers
<1>5. /\ \A s \in Server : /\ \A x \in In(wire[s]) : x.m \notin Transfers
                           /\ \A x \in In(back[s]) : x.m # "write"
      /\ hand.m # "write"
  BY <1>1, NoTransfer
<1>6. \A s \in Server : \A x \in In(wire'[s]) : x.m \in Transfers => x.smr = smr'
  <2>1. CASE ReadPost
    <3>1. PICK x : x = [m |-> "read", b |-> inf[at].addr, key |-> KeyOf(at), smr |-> smr']
      OBVIOUS
    <3>2. x.smr = smr' /\ Post(MyCall.srv, <<x>>)
      BY <2>1, <3>1 DEF ReadPost
    <3>3. QED BY <1>5, <3>2, PostedFrom
  <2>2. CASE WritePost
    <3>1. PICK x, y : /\ x = [m |-> "write", b |-> inf[at].addr, key |-> KeyOf(at),
                              smr |-> smr', i |-> at]
                      /\ y = [m |-> "check", key |-> KeyOf(at)]
      OBVIOUS
    <3>2. x.smr = smr' /\ y.m \notin Transfers /\ Post(MyCall.srv, <<x, y>>)
      BY <2>2, <3>1 DEF WritePost, Transfers
    <3>3. \A s \in Server : In(wire'[s]) \subseteq In(wire[s]) \cup {x, y}
      BY <3>2, PostedFrom
    <3>4. QED BY <1>5, <3>2, <3>3
  <2>3. QED BY <2>1, <2>2
<1>7. OfBuffer'
  BY <1>1, <1>5, <1>6 DEF OfBuffer
<1>8. QED BY <1>4, <1>7 DEF Buffers

\* The thread puts back, or releases, the buffer of a transfer that is over.
LEMMA BuffersReturned ==
    ASSUME Buffers, Outstanding(Lasting), Typed, AwaitRead \/ AwaitWrite
    PROVE  Buffers'
<1>1. /\ UNCHANGED <<wireVars, hand, flags>> /\ smr' = Own /\ pc' = "finish"
      /\ pc = "await_read" => "read" \in flags
      /\ pc = "await_write" => "write" \in flags
      /\ pc \in {"await_read", "await_write"}
  BY DEF AwaitRead, AwaitWrite, Goto
<1>2. OfBuffer'
  BY <1>1, NoTransfer DEF wireVars, OfBuffer
<1>3. CASE smr = Own
  <2>1. pool' = pool /\ buf' = [buf EXCEPT ![Own] = [len |-> 0, data |-> Zero]]
    BY <1>3 DEF AwaitRead, AwaitWrite
  <2>2. PICK y : y = [len |-> 0, data |-> Zero]
    OBVIOUS
  <2>3. \A m \in Smr \cup {Own} : buf'[m] = IF m = Own THEN y ELSE buf[m]
    BY <2>1, <2>2 DEF Buffers, BufferShape
  <2>4. y.len = 0 /\ y = [len |-> y.len, data |-> y.data]
    BY <2>2
  <2>5. buf' = [m \in Smr \cup {Own} |-> buf'[m]]
    BY <2>1 DEF Buffers, BufferShape
  <2>6. BufferShape'
    BY <2>3, <2>4, <2>5 DEF Buffers, BufferShape
  <2>7. \A k \in DOMAIN pool : pool[k] \in Smr /\ pool[k] # Own
    BY PoolIn DEF Buffers
  <2>8. \A k \in DOMAIN pool : buf'[pool[k]] = buf[pool[k]]
    BY <2>3, <2>7
  <2>9. ~InUse'
    BY <1>1 DEF InUse
  <2>10. Pooled'
    BY <1>1, <2>1, <2>8, <2>9 DEF Buffers, Pooled
  <2>11. QED BY <1>2, <2>6, <2>10 DEF Buffers
<1>4. CASE smr # Own /\ AwaitRead
  <2>1. pool' = <<smr>> \o pool /\ buf' = buf /\ InUse /\ ~InUse'
    BY <1>1, <1>4 DEF AwaitRead, InUse
  <2>2. Pooled'
    BY <1>1, <1>4, <2>1, PooledBack DEF Buffers
  <2>3. QED BY <1>2, <2>1, <2>2 DEF Buffers, BufferShape
<1>5. CASE smr # Own /\ AwaitWrite
  <2>1. pool' = pool /\ buf' = buf /\ ~InUse'
    BY <1>1, <1>5 DEF AwaitWrite, InUse
  <2>2. Pooled'
    BY <1>1, <2>1 DEF Buffers, Pooled
  <2>3. QED BY <1>2, <2>1, <2>2 DEF Buffers, BufferShape
<1>6. QED BY <1>3, <1>4, <1>5

LEMMA BuffersWritten ==
    ASSUME Buffers, Outstanding(Lasting), Typed, HandleWrite
    PROVE  Buffers'
<1>1. /\ hand.m = "write" /\ hand.smr = smr /\ UNCHANGED <<pc, smr, flags, buf, wireVars>>
      /\ pool' = IF smr = Own THEN pool ELSE <<smr>> \o pool
      /\ hand' = [m |-> "written", i |-> hand.i]
  BY DEF HandleWrite, InHand, Buffers, OfBuffer, threadVars
<1>2. hand'.m = "written"
  BY <1>1
<1>3. pc = "await_write" /\ "write" \notin flags
  BY <1>1, HandAbout DEF About, Sound
<1>4. InUse /\ ~InUse'
  BY <1>1, <1>2, <1>3 DEF InUse
<1>5. OfBuffer'
  BY <1>1, <1>2 DEF Buffers, OfBuffer, wireVars
<1>6. Pooled'
  <2>1. CASE smr = Own
    BY <1>1, <1>4, <2>1 DEF Buffers, Pooled
  <2>2. CASE smr # Own
    BY <1>1, <1>3, <1>4, <2>2, PooledBack DEF Buffers
  <2>3. QED BY <2>1, <2>2
<1>7. QED BY <1>1, <1>5, <1>6 DEF Buffers, BufferShape

\* The other steps of the thread, and those of dhmp_send.
LEMMA BuffersThread ==
    ASSUME Buffers, Outstanding(Lasting), Typed, WorkIsLive, Calls,
           \/ TakeWork \/ PostMalloc \/ AwaitMalloc \/ FreeLookup \/ FreePost \/ AwaitFree
              \/ Lookup \/ WriteCheck \/ Finish
           \/ \E c \in Caller : SendPost(c)
    PROVE  Buffers'
<1>1. /\ UNCHANGED <<smr, pool, buf, inbox, back, hand>>
      /\ pc' \notin {"await_read", "await_write"} \/ (pc' = pc /\ flags' = flags)
      /\ pc \notin {"await_read", "await_write"} \/ (pc' = pc /\ flags' = flags)
  <2>1. CASE TakeWork
    <3>1. Head(works) \in Caller /\ st[Head(works)] = "waiting"
      BY <2>1, WorksTail DEF TakeWork, WorkIsLive
    <3>2. pc' \in Worked
      BY <2>1, <3>1 DEF TakeWork, Calls
    <3>3. QED BY <2>1, <3>2 DEF TakeWork, wireVars, poolVars, Worked, Transfers
  <2>2. CASE PostMalloc \/ AwaitMalloc \/ FreeLookup
    BY <2>2 DEF PostMalloc, AwaitMalloc, Take, FreeLookup, Goto, wireVars, poolVars
  <2>3. CASE FreePost \/ AwaitFree \/ Lookup \/ WriteCheck \/ Finish
    BY <2>3 DEF FreePost, AwaitFree, Lookup, WriteCheck, Finish, Goto, wireVars, poolVars
  <2>4. CASE \E c \in Caller : SendPost(c)
    BY <2>4 DEF SendPost, threadVars, poolVars
  <2>5. QED BY <2>1, <2>2, <2>3, <2>4
<1>2. \A s \in Server : \A x \in In(wire'[s]) : x.m \in Transfers => x \in In(wire[s])
  <2>1. CASE wire' = wire
    BY <2>1
  <2>2. CASE \E t, y : Post(t, <<y>>) /\ y.m \notin Transfers
    BY <2>2, PostedFrom
  <2>3. ASSUME PostMalloc PROVE \E t, y : Post(t, <<y>>) /\ y.m \notin Transfers
    <3>1. PICK y : y = [m |-> "malloc", i |-> sat[who]]
      OBVIOUS
    <3>2. y.m \notin Transfers /\ Post(MyCall.srv, <<y>>)
      BY <2>3, <3>1 DEF PostMalloc, Transfers
    <3>3. QED BY <3>2
  <2>4. ASSUME FreePost, wire' # wire PROVE \E t, y : Post(t, <<y>>) /\ y.m \notin Transfers
    <3>1. PICK y : y = [m |-> "free", i |-> at, b |-> inf[at].addr, key |-> KeyOf(at)]
      OBVIOUS
    <3>2. y.m \notin Transfers /\ Post(MyCall.srv, <<y>>)
      BY <2>4, <3>1 DEF FreePost, Transfers
    <3>3. QED BY <3>2
  <2>5. ASSUME NEW c \in Caller, SendPost(c) PROVE \E t, y : Post(t, <<y>>) /\ y.m \notin Transfers
    <3>1. PICK y : y = [m |-> "send", c |-> c, b |-> inf[sat[c]].addr]
      OBVIOUS
    <3>2. y.m \notin Transfers /\ Post(call[c].srv, <<y>>)
      BY <2>5, <3>1 DEF SendPost, Transfers
    <3>3. QED BY <3>2
  <2>6. QED BY <2>1, <2>2, <2>3, <2>4, <2>5 DEF TakeWork, AwaitMalloc, Take, FreeLookup, AwaitFree, Lookup,
               WriteCheck, Finish, wireVars
<1>3. OfBuffer'
  BY <1>1, <1>2, OfBufferStay DEF Buffers
<1>4. InUse' => InUse
  BY <1>1 DEF InUse
<1>5. Pooled'
  BY <1>1, <1>4 DEF Buffers, Pooled
<1>6. QED BY <1>1, <1>3, <1>5 DEF Buffers, BufferShape

LEMMA BuffersNext ==
    ASSUME Buffers, Outstanding(Lasting), Typed, WorkIsLive, Calls, [Next]_vars
    PROVE  Buffers'
<1>1. CASE \/ \E c \in Caller : Call(c) \/ Return(c) \/ SendLookup(c) \/ SendCheck(c) \/ SendOut(c)
           \/ Reconnect \/ Recovered \/ UNCHANGED vars
  <2>1. UNCHANGED <<poolVars, smr, pc, flags, wireVars, hand>>
    BY <1>1 DEF Call, CallMalloc, CallWork, CallSend, Asks, Return, SendLookup, SendCheck, SendOut,
           Reconnect, Recovered, vars, threadVars
  <2>2. InUse' => InUse
    BY <2>1 DEF InUse
  <2>3. QED BY <2>1, <2>2, BuffersStay DEF wireVars
<1>2. CASE HandleMalloc \/ HandleKeys \/ HandleError \/ HandleNull \/ HandleWritten \/ HandleRead
           \/ HandleSend
  <2>1. UNCHANGED <<poolVars, smr, pc, wireVars>> /\ flags \subseteq flags'
    BY <1>2 DEF HandleMalloc, HandleKeys, HandleError, HandleNull, HandleWritten, HandleRead, HandleSend,
           threadVars
  <2>2. hand.m = "written" => "write" \in flags'
    BY <1>2 DEF HandleMalloc, HandleKeys, HandleError, HandleNull, HandleWritten, HandleRead, HandleSend,
           InHand
  <2>3. InUse' => InUse
    BY <2>1, <2>2 DEF InUse
  <2>4. hand'.m # "write"
    <3>1. Idle.m # "write"
      BY DEF Idle
    <3>2. QED BY <1>2, <3>1 DEF HandleMalloc, HandleKeys, HandleError, HandleNull, HandleWritten,
                 HandleRead, HandleSend
  <2>5. QED BY <2>1, <2>3, <2>4, BuffersStay DEF wireVars
<1>3. CASE \E s \in Server : ServerStep(s)
  <2>1. PICK s \in Server : ServerStep(s)
    BY <1>3
  <2>2. UNCHANGED <<poolVars, smr, pc, flags, wire, hand>>
    BY <2>1 DEF ServerStep, ServeMalloc, ServeFree, ServeSend, threadVars
  <2>3. \E y : Answer(s, y) /\ y.m # "write"
    <3>1. \A i, b, k : /\ [m |-> "malloc", i |-> i, b |-> b, key |-> k].m # "write"
                       /\ [m |-> "error", i |-> i].m # "write"
                       /\ [m |-> "free", i |-> i].m # "write"
                       /\ [m |-> "send", c |-> i].m # "write"
      OBVIOUS
    <3>2. QED BY <2>1, <3>1 DEF ServerStep, ServeMalloc, ServeFree, ServeSend
  <2>4. InUse' => InUse
    BY <2>2 DEF InUse
  <2>5. QED BY <2>2, <2>3, <2>4, BuffersStay, AnsweredFrom
<1>4. CASE \E s \in Server : Complete(s)
  <2>1. PICK s \in Server : Complete(s)
    BY <1>4
  <2>2. /\ UNCHANGED <<poolVars, smr, pc, flags, wire>> /\ back[s] # <<>> /\ hand = Idle
        /\ back' = [back EXCEPT ![s] = Tail(@)] /\ hand' = Head(back[s])
    BY <2>1 DEF Complete, threadVars
  <2>3. hand' \in In(back[s]) /\ \A t \in Server : In(back'[t]) \subseteq In(back[t])
    BY <2>2, LeftBy
  <2>4. InUse' => InUse
    BY <2>2 DEF InUse, Idle
  <2>5. QED BY <2>2, <2>3, <2>4, BuffersStay
<1>5. CASE \E s \in Server : Lose(s)
  <2>1. PICK s \in Server : Lose(s)
    BY <1>5
  <2>2. UNCHANGED <<poolVars, smr, pc, flags, hand>>
    BY <2>1 DEF Lose, threadVars
  <2>3. InUse' => InUse
    BY <2>2 DEF InUse
  <2>4. QED BY <2>1, <2>2, <2>3, BuffersStay, LostFrom
<1>6. CASE \E s \in Server : Transfer(s)
  BY <1>6, BuffersTransfer
<1>7. CASE ThreadStep \/ \E c \in Caller : SendPost(c)
  BY <1>7, BuffersThread, BuffersTaken, BuffersReturned DEF ThreadStep
<1>8. CASE AwaitTorn
  <2>1. /\ UNCHANGED <<poolVars, smr, flags, wireVars>> /\ pc' = "finish"
        /\ hand'.m # "write" /\ hand.m # "written"
    BY <1>8, TornFacts
  <2>2. pc = "await_malloc" /\ Pooled' /\ BufferShape'
    BY <1>8, <2>1, TornFacts DEF Buffers, BufferShape, Pooled, InUse, poolVars
  <2>3. OfBuffer'
    BY <2>1, OfBufferStay DEF Buffers, wireVars
  <2>4. QED BY <2>2, <2>3 DEF Buffers
<1>9. QED BY <1>1, <1>2, <1>3, <1>4, <1>5, <1>6, <1>7, <1>8, BuffersWritten
        DEF Next, SendStep, LoopStep
-----------------------------------------------------------------------------
(* What holds whatever happens.                                            *)

IInv == Typed /\ WorkIsLive /\ Calls /\ Buffers /\ Outstanding(Lasting)

LEMMA InitOutstanding ==
    ASSUME NEW K, Init, Marks(K, Idle) = {}
    PROVE  Outstanding(K)
<1>1. \A k \in Stage : Queue(k) = <<>>
  BY DEF Init, Stage, Queue
<1>2. Marks(K, hand) = {}
  BY DEF Init
<1>3. QED BY <1>1, <1>2, Emptied DEF Outstanding

LEMMA InitHolds == Init => IInv
<1> SUFFICES ASSUME Init PROVE IInv
  OBVIOUS
<1>1. Typed
  BY DEF Init, Typed, State
<1>2. WorkIsLive
  BY DEF Init, WorkIsLive
<1>3. Calls
  BY DEF Init, Calls, Place
<1>4. Buffers
  <2>1. PICK y : y = [len |-> 0, data |-> Zero]
    OBVIOUS
  <2>2. buf = [m \in Smr \cup {Own} |-> y] /\ y.len = 0 /\ y = [len |-> y.len, data |-> y.data]
    BY <2>1 DEF Init
  <2>3. BufferShape
    BY <2>2 DEF BufferShape
  <2>4. Pooled
    BY DEF Init, Pooled, InUse
  <2>5. hand.m # "write" /\ \A s \in Server : wire[s] = <<>> /\ back[s] = <<>>
    BY DEF Init, Idle
  <2>6. QED BY <2>3, <2>4, <2>5, NoneIn DEF Buffers, OfBuffer
<1>5. Outstanding(Lasting)
  <2>1. Marks(Lasting, Idle) = {}
    BY DEF Idle, Marks, Lasting
  <2>2. QED BY <2>1, InitOutstanding
<1>6. QED BY <1>1, <1>2, <1>3, <1>4, <1>5 DEF IInv

LEMMA NextHolds == IInv /\ [Next]_vars => IInv'
  BY WorksNext, CallsNext, BuffersNext, MarksNext DEF IInv, Sound

\* What has happened so far changes no step.
LEMMA StepOfSpec == [Next /\ Remember]_<<vars, past>> => [Next]_vars
  OBVIOUS

\* The inductive invariant.  Works are live because only the thread and the
\* answer of a dhmp_send wake a caller (dhmp_work_handle_thread,
\* dhmp_send_response_handler), and such an answer is for a caller that waits
\* for it and has no other message on the way; buffers are exclusive because
\* at most one transfer of the thread is on the way, of the buffer it holds.
THEOREM Invariant == Spec => []IInv
<1>1. QED BY InitHolds, NextHolds, StepOfSpec, PTL DEF Spec

\* The work thread touches no work whose caller has returned, and serves no
\* work twice: dhmp_malloc, dhmp_free, dhmp_read and dhmp_write leave works on
\* their stacks that dhmp_work_handle_thread reads and writes.
THEOREM WorksAreLive == Spec => []WorkIsLive
<1>1. IInv => WorkIsLive
  BY DEF IInv
<1>2. QED BY <1>1, Invariant, PTL

\* Of each transfer and each dhmp_send at most one message or completion is
\* on the way, through all losses, and the thread or caller that posted it
\* still waits: the flags that dhmp_wc_success_handler and
\* dhmp_send_response_handler set are never those of a later request.
THEOREM OneAnswer == Spec => []Outstanding(Lasting)
<1>1. IInv => Outstanding(Lasting)
  BY DEF IInv
<1>2. QED BY <1>1, Invariant, PTL

LEMMA BuffersInv == IInv => BuffersAreExclusive
<1> SUFFICES ASSUME IInv PROVE BuffersAreExclusive
  OBVIOUS
<1>0. Pooled /\ OfBuffer /\ Outstanding(Lasting) /\ Sound(Lasting)
  BY DEF IInv, Buffers, Sound
<1>1. \A k \in DOMAIN pool : pool[k] # Own
  BY <1>0, PoolIn
<1>2. InUse => \A k \in DOMAIN pool : pool[k] # smr
  BY <1>0, <1>1 DEF Pooled
<1>3. \A k \in DOMAIN pool : pool[k] = smr => pc \in {"await_write", "finish"}
  BY <1>0, <1>1, <1>2 DEF Pooled, InUse
<1>4. ASSUME NEW k \in DOMAIN pool, NEW s \in Server, NEW n \in DOMAIN wire[s],
             wire[s][n].m \in {"write", "read"}
      PROVE  wire[s][n].smr # pool[k]
  <2>1. PICK x \in In(wire[s]) : x = wire[s][n]
    BY DEF In
  <2>2. x.smr = smr
    BY <1>0, <1>4, <2>1 DEF OfBuffer, Transfers
  <2>3. /\ About(Lasting, x) /\ About(Lasting, hand)
        /\ Marks(Lasting, x) \cap Marks(Lasting, hand) = {}
    BY <1>0, PlaceAbout, HandAbout
  <2>4. CASE x.m = "read"
    BY <1>2, <2>1, <2>2, <2>3, <2>4 DEF About, InUse
  <2>5. CASE x.m = "write"
    <3>1. pc = "await_write" /\ "write" \notin flags /\ x.i = at
      BY <2>3, <2>5 DEF About
    <3>2. hand.m # "written"
      <4> SUFFICES ASSUME hand.m = "written" PROVE FALSE
        OBVIOUS
      <4>1. hand.i = at
        BY <2>3 DEF About
      <4>2. Marks(Lasting, x) = {<<"write", at>>} /\ Marks(Lasting, hand) = {<<"write", at>>}
        BY <1>0, <2>5, <3>1, <4>1, MarkFacts
      <4>3. QED BY <2>3, <4>2
    <3>3. QED BY <1>2, <2>1, <2>2, <3>1, <3>2 DEF InUse
  <2>6. QED BY <1>4, <2>1, <2>4, <2>5
<1>5. QED BY <1>0, <1>3, <1>4 DEF Pooled, BuffersAreExclusive

\* A registered buffer is in use or in the list, in which no two have one
\* length: dhmp_get_mr_from_send_list takes it out before the transfer, and
\* dhmp_wc_success_handler or the work thread puts it back after it, once.
THEOREM BuffersExclusive == Spec => []BuffersAreExclusive
<1>1. QED BY BuffersInv, Invariant, PTL
-----------------------------------------------------------------------------
(* What has happened so far.                                               *)

Clean == past \cap {"torn", "stray"} = {}
Remembered == ("torn" \notin past => Whole) /\ ("wild" \notin past => ~Wild)

\* No lookup of the step finds another server's entry.
Straight == /\ FreeLookup \/ Lookup => ~Foreign(MyCall)
            /\ \A c \in Caller : SendLookup(c) => ~Foreign(call[c])

LEMMA StraightStep == ASSUME IInv, ~Strays PROVE Straight
<1>1. ASSUME FreeLookup \/ Lookup PROVE ~Foreign(MyCall)
  <2>1. pc \in {"free", "read", "write"} /\ pc' # pc
    BY <1>1 DEF FreeLookup, Lookup, Goto
  <2>2. who \in Caller /\ MyCall = call[who]
    BY <2>1 DEF IInv, Typed, MyCall
  <2>3. QED BY <2>1, <2>2 DEF Strays
<1>2. ASSUME NEW c \in Caller, SendLookup(c) PROVE ~Foreign(call[c])
  <2>1. st[c] = "lookup" /\ st'[c] # "lookup"
    BY <1>2 DEF SendLookup, IInv, Typed
  <2>2. QED BY <2>1 DEF Strays
<1>3. QED BY <1>1, <1>2 DEF Straight

LEMMA RememberedNext ==
    ASSUME IInv, Remembered, [Next /\ Remember]_<<vars, past>>
    PROVE  /\ Remembered' /\ past \subseteq past'
           /\ "stray" \notin past' => Straight
           /\ Clean' => Clean /\ Whole /\ Whole' /\ Straight
<1>1. CASE Remember
  <2>1. /\ past \subseteq past' /\ (Torn' => "torn" \in past') /\ (Strays => "stray" \in past')
        /\ Wild' => "wild" \in past'
    BY <1>1 DEF Remember
  <2>2. Remembered'
    BY <2>1 DEF Remembered, Whole, Torn
  <2>3. QED BY <2>1, <2>2, StraightStep DEF Clean, Remembered
<1>2. CASE UNCHANGED <<vars, past>>
  <2>1. UNCHANGED <<past, hand, st, pc, call, inf, sat, epoch>>
    BY <1>2 DEF vars, callVars, threadVars, tableVars, serverVars
  <2>2. Remembered'
    BY <2>1 DEF Remembered, Whole, Wild, Frees
  <2>3. ~Strays
    BY <2>1 DEF Strays
  <2>4. QED BY <2>1, <2>2, <2>3, StraightStep DEF Clean, Remembered
<1>3. QED BY <1>1, <1>2

LEMMA RememberedInit == ASSUME Init, past = {} PROVE Remembered
<1>1. Whole /\ \A c \in Caller : call[c] = NoCall
  BY DEF Init, Whole, Idle
<1>2. QED BY <1>1 DEF Remembered, Wild
-----------------------------------------------------------------------------
(* Structs and the table, as long as no answer is half written and no      *)
(* lookup goes astray.                                                     *)

Shape ==
    /\ inf \in [Info -> InfoType] /\ sat \in [Caller -> Info \cup {0}]
    /\ conn \in [Server -> {"up", "error", "down"}]
    /\ losses \in [Server -> Nat] /\ epoch \in [Server -> Nat]
    /\ \A s \in Server : epoch[s] =< losses[s]
    /\ recov \in [phase : {"none", "connect", "callback"}, srv : Server \cup {0}]
    /\ InRecovery => recov.srv \in Server /\ losses[recov.srv] > 0
    /\ alloc \in [Server -> SUBSET Block] /\ mem \in [Server -> [Block -> Value]]

\* There is no entry for address b of s with key k.
Alone(s, b, k) == \A j \in In(table) : ~(inf[j].srv = s /\ inf[j].addr = b /\ inf[j].key = k)

\* The server gave out block b with key k, and there is no entry of it yet.
Given(s, b, k) ==
    /\ b \in Block /\ k \in Nat /\ k =< epoch[s] /\ (k = epoch[s] => b \in alloc[s])
    /\ \A j \in In(table) : inf[j].srv = s => inf[j].key =< k
    /\ Alone(s, b, k)

\* Entries of earlier lives of a server are behind those of later ones.
Table ==
    /\ table \in Seq(Info)
    /\ \A j, k \in DOMAIN table : table[j] = table[k] => j = k
    /\ \A j \in In(table) : /\ inf[j].live /\ inf[j].srv \in Server /\ inf[j].addr \in Block
                            /\ inf[j].keyed /\ inf[j].key =< epoch[inf[j].srv]
                            /\ inf[j].key = epoch[inf[j].srv] => inf[j].addr \in alloc[inf[j].srv]
    /\ \A j, k \in DOMAIN table : j < k /\ inf[table[j]].srv = inf[table[k]].srv =>
          /\ inf[table[j]].key >= inf[table[k]].key
          /\ inf[table[j]].key = inf[table[k]].key => inf[table[j]].addr # inf[table[k]].addr

\* Callers of dhmp_malloc whose request has not been posted.
Early == {c \in Caller : /\ st[c] = "waiting" /\ call[c].op = "malloc"
                         /\ (\E k \in DOMAIN works : works[k] = c) \/ (pc = "malloc" /\ who = c)}
\* The thread has a struct that is not in the table.
Held == pc \in {"await_malloc", "free_post", "await_free"}
Freeing == pc \in {"free_post", "await_free"}
\* The thread has an entry of the table.
Using == pc \in {"read_spin", "await_read", "write_spin", "write_post", "await_write"}

EarlyStructs ==
    /\ \A c \in Early : /\ sat[c] \in Info /\ inf[sat[c]].live /\ inf[sat[c]].srv = call[c].srv
                        /\ inf[sat[c]].addr = Junk /\ ~inf[sat[c]].len
                        /\ sat[c] \notin In(table)
                        /\ Held => sat[c] # at
    /\ \A c, d \in Early : sat[c] = sat[d] => c = d

HeldStruct ==
    /\ Held => at \in Info /\ inf[at].live /\ inf[at].srv = MyCall.srv /\ at \notin In(table)
    /\ pc = "await_malloc" /\ ~inf[at].len => inf[at].addr = Junk
    /\ pc = "await_malloc" /\ inf[at].len =>
          /\ inf[at].addr \in Block \cup {Null}
          /\ inf[at].addr # Null => inf[at].keyed /\ Given(MyCall.srv, inf[at].addr, inf[at].key)
    /\ pc = "free_post" => inf[at].addr # Null
    /\ Freeing /\ inf[at].addr # Null =>
          /\ inf[at].addr = MyCall.blk /\ inf[at].keyed /\ inf[at].key =< epoch[MyCall.srv]
          /\ Alone(MyCall.srv, inf[at].addr, inf[at].key)

UsedEntry ==
    Using => at \in In(table) /\ inf[at].srv = MyCall.srv /\ inf[at].addr = MyCall.blk

KeyAt == <<inf[at].srv, inf[at].key>>
Messages ==
    /\ \A s \in Server : \A x \in In(wire[s]) \cup In(inbox[s]) :
         /\ x.m \in Worked => s = MyCall.srv
         /\ x.m = "free" => x.b = inf[at].addr /\ x.key = KeyAt
         /\ x.m \in Transfers => x.b = MyCall.blk /\ x.key = KeyAt
    /\ \A s \in Server : \A x \in In(wire[s]) : x.m = "write" => buf[smr].data = MyCall.val
    /\ \A s \in Server : \A x \in In(back[s]) :
         /\ x.m \in {"malloc", "free"} => s = MyCall.srv
         /\ x.m = "malloc" => Given(MyCall.srv, x.b, x.key)
    /\ hand.m = "malloc" => Given(MyCall.srv, hand.b, hand.key)

\* The whole of it.
Books == Shape /\ Table /\ EarlyStructs /\ HeldStruct /\ UsedEntry /\ Messages /\ Outstanding(Every)

\* What a transfer leaves of a struct.
Alike(x, y) == /\ x.live = y.live /\ x.srv = y.srv /\ x.addr = y.addr
               /\ x.len = y.len /\ x.keyed = y.keyed /\ x.key = y.key

LEMMA FlagAlike ==
    ASSUME inf \in [Info -> InfoType], NEW i, NEW b \in BOOLEAN,
           inf' = [inf EXCEPT ![i].wflag = b]
    PROVE  inf' \in [Info -> InfoType] /\ \A j \in Info : Alike(inf'[j], inf[j])
<1>1. ASSUME NEW j \in Info PROVE Alike(inf'[j], inf[j]) /\ inf'[j] \in InfoType
  <2>1. inf[j] \in InfoType
    OBVIOUS
  <2>2. CASE j = i
    BY <2>1, <2>2 DEF InfoType, Alike
  <2>3. CASE j # i
    BY <2>1, <2>3 DEF Alike
  <2>4. QED BY <2>2, <2>3
<1>2. inf' = [j \in Info |-> inf'[j]]
  OBVIOUS
<1>3. QED BY <1>1, <1>2

\* Struct i becomes x.
LEMMA OneStruct ==
    ASSUME inf \in [Info -> InfoType], NEW i, NEW x, inf' = [inf EXCEPT ![i] = x],
           i \in Info => x \in InfoType
    PROVE  /\ inf' \in [Info -> InfoType]
           /\ i \in Info => inf'[i] = x
           /\ \A j \in Info : j # i => inf'[j] = inf[j]
  OBVIOUS

LEMMA NoInfoFacts ==
    /\ NoInfo \in InfoType /\ ~NoInfo.live /\ ~NoInfo.len /\ NoInfo.addr = Null /\ NoInfo.key = 0
    /\ ~NoInfo.keyed
  BY DEF NoInfo, InfoType

\* Entries do not change, and servers live on, or begin anew.
EntriesStay ==
    /\ table' = table /\ \A j \in In(table) : Alike(inf'[j], inf[j])
    /\ epoch' \in [Server -> Nat] /\ \A s \in Server : epoch[s] =< epoch'[s]

LEMMA InTable ==
    ASSUME Shape, Table
    PROVE  /\ In(table) \subseteq Info
           /\ \A k \in DOMAIN table : table[k] \in In(table)
           /\ \A j \in In(table) : /\ inf[j] \in InfoType /\ inf[j].key \in Nat /\ inf[j].srv \in Server
                                   /\ inf[j].addr \in Block
           /\ DOMAIN table = 1 .. Len(table) /\ Len(table) \in Nat
<1>1. In(table) \subseteq Info /\ DOMAIN table = 1 .. Len(table) /\ Len(table) \in Nat
  BY DEF Table, In
<1>2. \A j \in In(table) : inf[j] \in InfoType
  BY <1>1 DEF Shape
<1>3. \A j \in In(table) : inf[j].key \in Nat
  BY <1>2 DEF InfoType
<1>4. QED BY <1>1, <1>2, <1>3 DEF Table, In

LEMMA TableStays ==
    ASSUME Shape, Table, EntriesStay,
           \A j \in In(table) : inf[j].key = epoch'[inf[j].srv] => inf[j].addr \in alloc'[inf[j].srv]
    PROVE  Table'
<1>1. \A j \in In(table) : Alike(inf'[j], inf[j]) /\ inf[j].key \in Nat /\ inf[j].srv \in Server
                           /\ epoch[inf[j].srv] \in Nat /\ epoch[inf[j].srv] =< epoch'[inf[j].srv]
                           /\ epoch'[inf[j].srv] \in Nat
  BY InTable DEF EntriesStay, Shape
<1>2. In(table)' = In(table)
  BY DEF EntriesStay, In
<1>3. \A j \in In(table) : /\ inf'[j].live /\ inf'[j].srv \in Server /\ inf'[j].addr \in Block
                           /\ inf'[j].keyed /\ inf'[j].key =< epoch'[inf'[j].srv]
                           /\ inf'[j].key = epoch'[inf'[j].srv] => inf'[j].addr \in alloc'[inf'[j].srv]
  BY <1>1 DEF Table, Alike
<1>4. \A k \in DOMAIN table : table[k] \in In(table)
  BY DEF In
<1>5. \A j, k \in DOMAIN table : j < k /\ inf'[table[j]].srv = inf'[table[k]].srv =>
          /\ inf'[table[j]].key >= inf'[table[k]].key
          /\ inf'[table[j]].key = inf'[table[k]].key => inf'[table[j]].addr # inf'[table[k]].addr
  BY <1>1, <1>4 DEF Table, Alike
<1>6. QED BY <1>2, <1>3, <1>5 DEF Table, EntriesStay

LEMMA AloneStays ==
    ASSUME EntriesStay, NEW s, NEW b, NEW k, Alone(s, b, k)
    PROVE  \A j \in In(table)' : ~(inf'[j].srv = s /\ inf'[j].addr = b /\ inf'[j].key = k)
<1>1. In(table)' = In(table)
  BY DEF EntriesStay, In
<1>2. QED BY <1>1 DEF EntriesStay, Alone, Alike

LEMMA GivenStays ==
    ASSUME Shape, EntriesStay, NEW s \in Server, NEW b, NEW k, Given(s, b, k),
           k = epoch'[s] => b \in alloc'[s]
    PROVE  Given(s, b, k)'
<1>1. In(table)' = In(table)
  BY DEF EntriesStay, In
<1>2. k =< epoch'[s]
  BY DEF Given, EntriesStay, Shape
<1>3. \A j \in In(table) : inf'[j].srv = s => inf'[j].key =< k
  BY DEF EntriesStay, Given, Alike
<1>4. QED BY <1>1, <1>2, <1>3, AloneStays DEF Given, Alone
\* Nothing of the thread's is on the way.
NoWorks == /\ \A s \in Server : \A x \in In(wire[s]) \cup In(inbox[s]) \cup In(back[s]) :
                 x.m \notin Worked
           /\ hand.m \notin Worked

LEMMA NoWorksAbout ==
    ASSUME Sound(Every), Outstanding(Every), ThreadDue(Every) = {}
    PROVE  NoWorks /\ hand.m \notin {"error", "written"}
<1>0. "free" \in Every /\ "malloc" \in Every
  BY DEF Every
<1>1. ASSUME NEW x, About(Every, x)
      PROVE  x.m \notin Worked \cup {"error", "written"}
  BY <1>0, <1>1 DEF About, ThreadDue, Worked, Transfers
<1>2. \A s \in Server : \A x \in In(wire[s]) \cup In(inbox[s]) \cup In(back[s]) : About(Every, x)
  BY PlaceAbout
<1>3. QED BY <1>1, <1>2, HandAbout DEF NoWorks

LEMMA NoWorksMessages == ASSUME NoWorks PROVE Messages
  BY DEF NoWorks, Messages, Worked, Transfers

LEMMA EarlyStay ==
    ASSUME EarlyStructs, Early' \subseteq Early, In(table)' \subseteq In(table),
           \A c \in Early : sat'[c] = sat[c] /\ call'[c] = call[c] /\ Alike(inf'[sat[c]], inf[sat[c]]),
           Held' => \A c \in Early : sat[c] # at'
    PROVE  EarlyStructs'
  BY DEF EarlyStructs, Alike

LEMMA HeldStay ==
    ASSUME Shape, Table, HeldStruct, Calls, Typed, WorkIsLive, EntriesStay,
           UNCHANGED <<pc, at, who>>, call'[who] = call[who],
           Held => Alike(inf'[at], inf[at]),
           pc = "await_malloc" /\ epoch'[MyCall.srv] = epoch[MyCall.srv] =>
             alloc[MyCall.srv] \subseteq alloc'[MyCall.srv]
    PROVE  HeldStruct'
<1>1. MyCall' = MyCall /\ Held' = Held /\ Freeing' = Freeing
  BY DEF MyCall, Held, Freeing
<1>2. In(table)' = In(table)
  BY DEF EntriesStay, In
<1>3. CASE Held
  <2>1. MyCall.srv \in Server
    BY <1>3, MyCallFacts, RequestFacts DEF Held
  <2>2. PICK s \in Server : s = MyCall.srv
    BY <2>1
  <2>3. PICK b, k : b = inf[at].addr /\ k = inf[at].key
    OBVIOUS
  <2>4. inf'[at].addr = b /\ inf'[at].key = k /\ inf'[at].keyed = inf[at].keyed
        /\ inf'[at].live = inf[at].live /\ inf'[at].len = inf[at].len /\ inf'[at].srv = inf[at].srv
    BY <1>3, <2>3 DEF Alike
  <2>5. Given(s, b, k) /\ pc = "await_malloc" => Given(s, b, k)'
    <3> SUFFICES ASSUME Given(s, b, k), pc = "await_malloc"
                 PROVE  k = epoch'[s] => b \in alloc'[s]
      BY GivenStays
    <3>1. epoch[s] \in Nat /\ epoch'[s] \in Nat /\ epoch[s] =< epoch'[s]
      BY DEF Shape, EntriesStay
    <3>2. QED BY <2>2, <3>1 DEF Given
  <2>6. k =< epoch[s] /\ k \in Nat => k =< epoch'[s]
    BY DEF EntriesStay, Shape
  <2>7. Alone(s, b, k) => Alone(s, b, k)'
    BY AloneStays DEF Alone
  <2>8. at \in Info /\ k \in Nat
    BY <1>3, <2>3 DEF HeldStruct, Shape, InfoType
  <2>9. MyCall'.srv = s /\ MyCall'.blk = MyCall.blk
    BY <1>1, <2>2
  <2>10. Held' => at' \in Info /\ inf'[at'].live /\ inf'[at'].srv = s /\ at' \notin In(table)'
    BY <1>2, <1>3, <2>2, <2>4 DEF HeldStruct
  <2>11. pc' = "await_malloc" /\ ~inf'[at'].len => inf'[at'].addr = Junk
    BY <2>3, <2>4 DEF HeldStruct
  <2>12. pc' = "await_malloc" /\ inf'[at'].len =>
           /\ b \in Block \cup {Null}
           /\ b # Null => inf'[at'].keyed /\ Given(s, b, k)'
    BY <2>2, <2>3, <2>4, <2>5 DEF HeldStruct
  <2>13. pc' = "free_post" => b # Null
    BY <2>3 DEF HeldStruct
  <2>14. Freeing' /\ b # Null => b = MyCall.blk /\ inf'[at'].keyed /\ k =< epoch'[s] /\ Alone(s, b, k)'
    BY <1>1, <2>2, <2>3, <2>4, <2>6, <2>7, <2>8 DEF HeldStruct
  <2>15. (Given(s, b, k)' => Given(MyCall.srv, inf[at].addr, inf[at].key)')
         /\ (Alone(s, b, k)' => Alone(MyCall.srv, inf[at].addr, inf[at].key)')
    BY <2>4, <2>9 DEF Given, Alone
  <2>16. QED BY <2>4, <2>9, <2>10, <2>11, <2>12, <2>13, <2>14, <2>15 DEF HeldStruct
<1>4. CASE ~Held
  BY <1>1, <1>4 DEF HeldStruct, Held, Freeing
<1>5. QED BY <1>3, <1>4

LEMMA UsedStay ==
    ASSUME UsedEntry, EntriesStay, UNCHANGED <<pc, at, who>>, pc # "take" => call'[who] = call[who]
    PROVE  UsedEntry'
<1>1. In(table)' = In(table)
  BY DEF EntriesStay, In
<1>2. QED BY <1>1 DEF UsedEntry, Using, EntriesStay, Alike, MyCall

\* The messages of the thread are where they were, or have moved on.
LEMMA MessagesStay ==
    ASSUME Shape, Messages, Typed, WorkIsLive, Calls, UsedEntry, Outstanding(Every), Sound(Every),
           EntriesStay, UNCHANGED <<at, who, smr>>, pc # "take" => call'[who] = call[who],
           Held => Alike(inf'[at], inf[at]),
           \A s \in Server :
             /\ \A x \in In(wire'[s]) : x.m \in Worked => x \in In(wire[s])
             /\ \A x \in In(inbox'[s]) : x.m \in Worked => x \in In(inbox[s]) \/ x \in In(wire[s])
             /\ \A x \in In(back'[s]) : x.m \in {"malloc", "free"} =>
                  \/ x \in In(back[s])
                  \/ s = MyCall.srv /\ MyCall' = MyCall
                     /\ (x.m = "malloc" => Given(MyCall.srv, x.b, x.key)'),
           hand'.m = "malloc" => hand' = hand \/ \E s \in Server : hand' \in In(back[s]),
           \A s \in Server : \A x \in In(wire'[s]) : x.m = "write" => buf'[smr].data = buf[smr].data,
           pc = "await_malloc" /\ epoch'[MyCall.srv] = epoch[MyCall.srv] =>
             alloc[MyCall.srv] \subseteq alloc'[MyCall.srv]
    PROVE  Messages'
<1>0. "free" \in Every /\ "malloc" \in Every
  BY DEF Every
<1>1. \A s \in Server : \A x \in In(wire[s]) \cup In(inbox[s]) \cup In(back[s]) :
        /\ x.m \in Worked => Held \/ Using
        /\ x.m = "malloc" => pc = "await_malloc"
  BY <1>0, PlaceAbout DEF About, Held, Using, Worked, Transfers
<1>2. hand.m = "malloc" => pc = "await_malloc"
  BY <1>0, HandAbout DEF About
<1>3. Held \/ Using => /\ MyCall' = MyCall /\ MyCall.srv \in Server
                       /\ inf'[at].addr = inf[at].addr /\ KeyAt' = KeyAt
  <2>1. Held \/ Using => pc # "take"
    BY DEF Held, Using
  <2>2. Held \/ Using => MyCall' = MyCall /\ MyCall.srv \in Server
    BY <2>1, MyCallFacts, RequestFacts DEF MyCall
  <2>3. Held \/ Using => Alike(inf'[at], inf[at])
    BY DEF UsedEntry, EntriesStay
  <2>4. QED BY <2>2, <2>3 DEF Alike, KeyAt
<1>4. ASSUME pc = "await_malloc", NEW b, NEW k, Given(MyCall.srv, b, k)
      PROVE  Given(MyCall.srv, b, k)'
  <2>1. PICK s \in Server : s = MyCall.srv /\ s = MyCall'.srv
    BY <1>3, <1>4 DEF Held
  <2>2. epoch[s] \in Nat /\ epoch'[s] \in Nat /\ epoch[s] =< epoch'[s]
    BY DEF Shape, EntriesStay
  <2>3. Given(s, b, k) /\ (k = epoch'[s] => b \in alloc'[s])
    BY <1>4, <2>1, <2>2 DEF Given
  <2>4. Given(s, b, k)'
    BY <2>3, GivenStays
  <2>5. QED BY <2>1, <2>4 DEF Given, Alone
<1>5. \A s \in Server : \A x \in In(wire'[s]) \cup In(inbox'[s]) :
         /\ x.m \in Worked => s = MyCall'.srv
         /\ x.m = "free" => x.b = inf'[at'].addr /\ x.key = KeyAt'
         /\ x.m \in Transfers => x.b = MyCall'.blk /\ x.key = KeyAt'
  <2> TAKE s \in Server
  <2> TAKE x \in In(wire'[s]) \cup In(inbox'[s])
  <2>1. CASE x.m \in Worked
    <3>1. x \in In(wire[s]) \cup In(inbox[s])
      BY <2>1
    <3>2. MyCall' = MyCall /\ inf'[at].addr = inf[at].addr /\ KeyAt' = KeyAt
      BY <1>1, <1>3, <2>1, <3>1
    <3>3. QED BY <3>1, <3>2 DEF Messages
  <2>2. CASE x.m \notin Worked
    BY <2>2 DEF Worked, Transfers
  <2>3. QED BY <2>1, <2>2
<1>6. \A s \in Server : \A x \in In(wire'[s]) : x.m = "write" => buf'[smr'].data = MyCall'.val
  <2> TAKE s \in Server
  <2> TAKE x \in In(wire'[s])
  <2> HAVE x.m = "write"
  <2>1. x \in In(wire[s]) /\ x.m \in Worked
    BY DEF Worked, Transfers
  <2>2. MyCall' = MyCall
    BY <1>1, <1>3, <2>1
  <2>3. buf[smr].data = MyCall.val
    BY <2>1 DEF Messages
  <2>4. QED BY <2>2, <2>3
<1>7. \A s \in Server : \A x \in In(back'[s]) :
         /\ x.m \in {"malloc", "free"} => s = MyCall'.srv
         /\ x.m = "malloc" => Given(MyCall.srv, x.b, x.key)'
  <2> TAKE s \in Server
  <2> TAKE x \in In(back'[s])
  <2>1. CASE x.m \in {"malloc", "free"} /\ x \in In(back[s])
    <3>1. x \in In(back[s]) /\ x.m \in Worked
      BY <2>1 DEF Worked
    <3>2. MyCall' = MyCall /\ s = MyCall.srv
      BY <1>1, <1>3, <2>1, <3>1 DEF Messages
    <3>3. x.m = "malloc" => Given(MyCall.srv, x.b, x.key) /\ pc = "await_malloc"
      BY <1>1, <3>1 DEF Messages
    <3>4. QED BY <1>4, <3>2, <3>3
  <2>2. CASE x.m \notin {"malloc", "free"} \/ x \notin In(back[s])
    BY <2>2
  <2>3. QED BY <2>1, <2>2
<1>8. hand'.m = "malloc" => Given(MyCall.srv, hand.b, hand.key)'
  <2> HAVE hand'.m = "malloc"
  <2>1. PICK x : x = hand' /\ x.m = "malloc"
    OBVIOUS
  <2>2. pc = "await_malloc" /\ Given(MyCall.srv, x.b, x.key)
    BY <1>1, <1>2, <2>1 DEF Messages
  <2>3. Given(MyCall.srv, x.b, x.key)'
    BY <1>4, <2>2
  <2>4. QED BY <2>1, <2>3
<1>9. QED BY <1>5, <1>6, <1>7, <1>8 DEF Messages
-----------------------------------------------------------------------------
(* What the steps do to structs, as long as no answer is half written.     *)

LEMMA GoodFacts ==
    ASSUME IInv, Books, Whole
    PROVE  /\ Typed /\ WorkIsLive /\ Calls /\ Buffers /\ Shape /\ Table /\ EarlyStructs
           /\ HeldStruct /\ UsedEntry /\ Messages /\ Outstanding(Every)
           /\ Sound(Every)
<1>1. pc = "malloc" => sat[who] \in Info /\ ~inf[sat[who]].len
  <2> HAVE pc = "malloc"
  <2>1. Typed /\ WorkIsLive /\ Calls /\ EarlyStructs
    BY DEF IInv, Books
  <2>2. who \in Early
    BY <2>1, MyCallFacts, PlaceTells DEF Early
  <2>3. QED BY <2>1, <2>2 DEF EarlyStructs
<1>2. pc = "free_post" => inf[at].addr # Null
  BY DEF Books, HeldStruct
<1>3. QED BY <1>1, <1>2 DEF IInv, Books, Sound, Readable, Shape

\* What a message for a server says.
LEMMA RequestAbout ==
    ASSUME IInv, Books, Whole, NEW s \in Server, NEW x \in In(wire[s]) \cup In(inbox[s])
    PROVE  /\ x.m = "malloc" => /\ pc = "await_malloc" /\ ~inf[at].len /\ x.i = at /\ s = MyCall.srv
                                /\ at \in Info /\ inf[at].live /\ inf[at].addr = Junk
           /\ x.m = "free" => /\ pc = "await_free" /\ inf[at].addr # Null /\ x.i = at
                              /\ s = MyCall.srv /\ x.b = inf[at].addr /\ x.b \in Block
                              /\ at \in Info /\ inf[at].srv = s /\ x.key = KeyAt /\ inf[at].keyed
           /\ x.m \in Transfers => /\ Using /\ x.b = MyCall.blk /\ x.b \in Block /\ x.key = KeyAt
                                   /\ s = MyCall.srv
           /\ x.m = "read" => pc = "await_read"
           /\ x.m = "write" => pc = "await_write"
           /\ x.m = "send" => x.c \in Caller /\ call[x.c] \in Request /\ call[x.c].op \in Direct
<1>0. "free" \in Every /\ "malloc" \in Every
  BY DEF Every
<1>1. About(Every, x)
  BY GoodFacts, PlaceAbout
<1>2. Messages /\ HeldStruct /\ UsedEntry /\ Calls /\ Typed /\ WorkIsLive
  BY GoodFacts
<1>3. x.m \in Worked => s = MyCall.srv
  BY <1>2 DEF Messages
<1>4. CASE x.m = "malloc"
  BY <1>0, <1>1, <1>2, <1>3, <1>4 DEF About, HeldStruct, Held, Worked, Transfers
<1>5. CASE x.m = "free"
  <2>1. MyCall \in Request /\ MyCall.op = "free"
    BY <1>0, <1>1, <1>2, <1>5, MyCallFacts, PlaceTells DEF About
  <2>2. MyCall.blk \in Block
    BY <2>1, RequestFacts
  <2>3. pc = "await_free" /\ inf[at].addr # Null /\ x.i = at
    BY <1>0, <1>1, <1>5 DEF About
  <2>4. at \in Info /\ inf[at].srv = MyCall.srv /\ inf[at].addr = MyCall.blk /\ inf[at].keyed
    BY <1>2, <2>3 DEF HeldStruct, Held, Freeing
  <2>5. x.b = inf[at].addr /\ x.key = KeyAt
    BY <1>2, <1>5 DEF Messages
  <2>6. QED BY <1>3, <1>5, <2>2, <2>3, <2>4, <2>5 DEF Worked, Transfers
<1>6. CASE x.m \in Transfers
  <2>1. Using /\ (x.m = "read" => pc = "await_read") /\ (x.m = "write" => pc = "await_write")
    BY <1>1, <1>6 DEF About, Transfers, Using
  <2>2. MyCall \in Request /\ MyCall.op \in Transfers
    BY <1>2, <2>1, MyCallFacts, PlaceTells DEF Using, Transfers
  <2>3. MyCall.blk \in Block
    BY <2>2, RequestFacts DEF Transfers
  <2>4. x.b = MyCall.blk /\ x.key = KeyAt
    BY <1>2, <1>6 DEF Messages
  <2>5. QED BY <1>3, <1>6, <2>1, <2>3, <2>4 DEF Worked, Transfers
<1>7. CASE x.m = "send"
  <2>1. x.c \in Caller /\ st[x.c] = "await"
    BY <1>1, <1>7 DEF About
  <2>2. call[x.c].op \in Direct /\ call[x.c] # NoCall
    BY <1>2, <2>1 DEF Calls
  <2>3. QED BY <1>2, <1>7, <2>1, <2>2 DEF Calls, Transfers
<1>8. QED BY <1>4, <1>5, <1>6, <1>7 DEF Transfers

\* A new struct.
LEMMA CallMallocStruct ==
    ASSUME Shape, NEW c \in Caller, NEW r \in Request, CallMalloc(c, r)
    PROVE  \E i \in Info : /\ ~inf[i].live /\ inf'[i] = Fresh(r.srv) /\ inf' \in [Info -> InfoType]
                           /\ \A j \in Info : j # i => inf'[j] = inf[j]
                           /\ sat' = [sat EXCEPT ![c] = i]
<1>1. PICK i : /\ i = FirstOf({j \in Info : ~inf[j].live})
               /\ inf' = [inf EXCEPT ![i] = Fresh(r.srv)] /\ sat' = [sat EXCEPT ![c] = i]
  BY DEF CallMalloc, Fresh
<1>2. {j \in Info : ~inf[j].live} # {} /\ {j \in Info : ~inf[j].live} \subseteq Nat
  BY BoundsAssumption DEF CallMalloc, Info
<1>3. i \in Info /\ ~inf[i].live
  BY <1>1, <1>2, FirstOfIsLeast
<1>4. Fresh(r.srv) \in InfoType
  BY RequestFacts, FreshFields
<1>5. inf' \in [Info -> InfoType] /\ inf'[i] = Fresh(r.srv) /\ \A j \in Info : j # i => inf'[j] = inf[j]
  BY <1>1, <1>3, <1>4, OneStruct DEF Shape
<1>6. QED BY <1>1, <1>3, <1>5

\* The struct is freed.
LEMMA FreedStruct ==
    ASSUME Shape, FreeInfo(at), at \in Info
    PROVE  /\ inf' \in [Info -> InfoType] /\ inf'[at] = NoInfo
           /\ \A j \in Info : j # at => inf'[j] = inf[j]
  BY OneStruct, NoInfoFacts DEF Shape, FreeInfo

\* An answer has come in before the thread goes on.
LEMMA AwaitMallocStruct ==
    ASSUME IInv, Books, Whole, AwaitMalloc
    PROVE  /\ inf' \in [Info -> InfoType] /\ at \in Info
           /\ \/ inf[at].addr = Null /\ inf'[at] = NoInfo /\ table' = table /\ Told(Null)
              \/ /\ inf[at].addr \in Block /\ Alike(inf'[at], inf[at])
                 /\ table' = <<at>> \o table /\ Told(<<MyCall.srv, inf[at].addr>>)
           /\ \A j \in Info : j # at => inf'[j] = inf[j]
<1>1. /\ at \in Info /\ inf[at].addr \in Block \cup {Null} /\ inf[at] \in InfoType
      /\ inf \in [Info -> InfoType]
  BY GoodFacts DEF HeldStruct, Held, AwaitMalloc, Take, Shape
<1>2. inf[at].addr # Junk
  BY <1>1, BlockAssumption
<1>3. CASE inf[at].addr = Null
  <2>1. FreeInfo(at) /\ table' = table /\ Told(Null)
    BY <1>2, <1>3 DEF AwaitMalloc, Take
  <2>2. QED BY <1>1, <1>3, <2>1, FreedStruct, GoodFacts
<1>4. CASE inf[at].addr # Null
  <2>2. PICK x : x = [inf[at] EXCEPT !.addr = inf[at].addr, !.wflag = FALSE]
    OBVIOUS
  <2>1. /\ inf' = [inf EXCEPT ![at] = x]
        /\ table' = <<at>> \o table /\ Told(<<MyCall.srv, inf[at].addr>>)
    BY <1>4, <2>2 DEF AwaitMalloc, Take
  <2>3. x \in InfoType /\ Alike(x, inf[at])
    BY <1>1, <2>2 DEF InfoType, Alike
  <2>4. inf'[at] = x
    BY <1>1, <2>1, <2>2
  <2>5. \A j \in Info : j # at => inf'[j] = inf[j]
    BY <1>1, <2>1
  <2>6. inf' \in [Info -> InfoType]
    <3>1. inf' = [j \in Info |-> inf'[j]]
      BY <1>1, <2>1
    <3>2. QED BY <1>1, <2>3, <2>4, <2>5, <3>1
  <2>7. QED BY <1>1, <1>4, <2>1, <2>3, <2>4, <2>5, <2>6
<1>5. QED BY <1>3, <1>4

\* What the event loop writes into the struct that the thread has: an
\* address and a key, or a length, or NULL.
LEMMA HandlerStruct ==
    ASSUME IInv, Books, Whole, Whole',
           HandleMalloc \/ HandleKeys \/ HandleError \/ HandleNull
    PROVE  /\ inf' \in [Info -> InfoType] /\ at \in Info /\ hand' = Idle
           /\ \A j \in Info : j # at => inf'[j] = inf[j]
           /\ inf'[at].live = inf[at].live /\ inf'[at].srv = inf[at].srv
           /\ hand.m = "malloc" => inf'[at].addr = hand.b
           /\ pc = "await_free" => hand.m = "free"
           /\ pc = "await_malloc" => inf[at].addr = Junk
           /\ \/ /\ pc = "await_malloc" /\ inf'[at].len /\ inf'[at].keyed
                 /\ inf'[at].addr \in Block /\ Given(MyCall.srv, inf'[at].addr, inf'[at].key)
              \/ /\ pc = "await_malloc" /\ inf'[at].len /\ inf'[at].addr = Null
              \/ /\ pc = "await_free" /\ inf'[at].addr = Null
<1>0. "free" \in Every /\ "malloc" \in Every
  BY DEF Every
<1>1. /\ About(Every, hand) /\ Messages /\ HeldStruct /\ Shape
  BY GoodFacts, HandAbout
<1>2. hand.m # "keys" /\ hand.m # "null" /\ hand'.m # "keys" /\ hand'.m # "null"
  BY DEF Whole
<1>3. /\ at \in Info /\ hand.i = at /\ pc \in {"await_malloc", "await_free"} /\ inf[at].live
      /\ hand.m \in {"malloc", "error"} => pc = "await_malloc"
      /\ hand.m = "free" => pc = "await_free"
      /\ pc = "await_malloc" => inf[at].addr = Junk
  BY <1>0, <1>1, <1>2 DEF About, HandleMalloc, HandleKeys, HandleError, HandleNull, InHand,
     HeldStruct, Held
<1>4. inf \in [Info -> InfoType] /\ inf[at] \in InfoType
  BY <1>1, <1>3 DEF Shape
<1>5. ASSUME NEW x, SetInfo(at, x), x \in InfoType
      PROVE  inf' \in [Info -> InfoType] /\ inf'[at] = x /\ \A j \in Info : j # at => inf'[j] = inf[j]
  BY <1>3, <1>4, <1>5, OneStruct DEF SetInfo
<1>6. CASE HandleMalloc
  <2>1. PICK x : x = [inf[hand.i] EXCEPT !.addr = hand.b, !.len = TRUE, !.key = hand.key,
                                        !.keyed = TRUE]
    OBVIOUS
  <2>3. SetInfo(at, x) /\ hand' = Idle
    BY <1>3, <1>6, <2>1 DEF HandleMalloc
  <2>4. Given(MyCall.srv, hand.b, hand.key)
    BY <1>1, <1>6 DEF HandleMalloc, InHand, Messages
  <2>5. hand.b \in Block /\ hand.key \in Nat
    BY <2>4 DEF Given
  <2>6. /\ x \in InfoType /\ x.live = inf[at].live /\ x.srv = inf[at].srv
        /\ x.addr = hand.b /\ x.len /\ x.key = hand.key /\ x.keyed
    BY <1>3, <1>4, <2>1, <2>5 DEF InfoType
  <2>7. inf' \in [Info -> InfoType] /\ inf'[at] = x /\ \A j \in Info : j # at => inf'[j] = inf[j]
    BY <1>5, <2>3, <2>6
  <2>8. Given(MyCall.srv, inf'[at].addr, inf'[at].key)
    BY <2>4, <2>6, <2>7
  <2>9. QED BY <1>3, <1>6, <2>3, <2>5, <2>6, <2>7, <2>8 DEF HandleMalloc, InHand
<1>7. CASE HandleError
  <2>1. PICK x : x = [inf[hand.i] EXCEPT !.len = TRUE, !.addr = Null]
    OBVIOUS
  <2>3. SetInfo(at, x) /\ hand' = Idle
    BY <1>3, <1>7, <2>1 DEF HandleError
  <2>4. /\ x \in InfoType /\ x.live = inf[at].live /\ x.srv = inf[at].srv
        /\ x.addr = Null /\ x.len
    BY <1>3, <1>4, <2>1 DEF InfoType
  <2>5. QED BY <1>3, <1>5, <1>7, <2>3, <2>4 DEF HandleError, InHand
<1>8. CASE HandleNull
  <2>1. PICK x : x = [inf[hand.i] EXCEPT !.addr = Null]
    OBVIOUS
  <2>2. SetInfo(at, x) /\ hand' = Idle /\ hand.m = "free"
    BY <1>2, <1>3, <1>8, <2>1 DEF HandleNull
  <2>3. /\ x \in InfoType /\ x.live = inf[at].live /\ x.srv = inf[at].srv
        /\ x.addr = Null
    BY <1>3, <1>4, <2>1 DEF InfoType
  <2>4. QED BY <1>3, <1>5, <2>2, <2>3
<1>9. CASE HandleKeys
  BY <1>2, <1>9 DEF HandleKeys, InHand
<1>10. QED BY <1>6, <1>7, <1>8, <1>9

\* Steps that set or clear a write_flag.
LEMMA FlagStep ==
    ASSUME Shape, NEW c,
           WritePost \/ SendPost(c) \/ SendOut(c) \/ HandleWritten
    PROVE  inf' \in [Info -> InfoType] /\ \A j \in Info : Alike(inf'[j], inf[j])
<1>0. inf \in [Info -> InfoType]
  BY DEF Shape
<1>1. CASE inf' = inf
  BY <1>0, <1>1 DEF Alike
<1>2. CASE WritePost
  <2>1. inf' = [inf EXCEPT ![at].wflag = TRUE]
    BY <1>2 DEF WritePost
  <2>2. QED BY <1>0, <2>1, FlagAlike
<1>3. CASE SendPost(c)
  <2>1. inf' = [inf EXCEPT ![sat[c]].wflag = TRUE]
    BY <1>3 DEF SendPost
  <2>2. QED BY <1>0, <2>1, FlagAlike
<1>4. CASE SendOut(c)
  <2>1. inf' = [inf EXCEPT ![sat[c]].wflag = FALSE]
    BY <1>4 DEF SendOut
  <2>2. QED BY <1>0, <2>1, FlagAlike
<1>5. CASE HandleWritten /\ inf' # inf
  <2>1. inf' = [inf EXCEPT ![hand.i].wflag = FALSE]
    BY <1>5 DEF HandleWritten, SetInfo
  <2>2. QED BY <1>0, <2>1, FlagAlike
<1>6. QED BY <1>1, <1>2, <1>3, <1>4, <1>5

\* Steps that leave the structs alone.
StructsAlone ==
    \/ \E c \in Caller : \/ \E r \in Request : CallWork(c, r) \/ CallSend(c, r)
                         \/ Return(c) \/ SendLookup(c) \/ SendCheck(c)
    \/ TakeWork \/ PostMalloc \/ FreeLookup \/ Lookup \/ ReadPost \/ AwaitRead \/ WriteCheck
    \/ AwaitWrite \/ Finish
    \/ \E s \in Server : \/ Transfer(s) \/ ServeMalloc(s) \/ ServeFree(s) \/ ServeSend(s)
                         \/ Complete(s) \/ Lose(s)
    \/ HandleWrite \/ HandleRead \/ HandleSend \/ Reconnect \/ Recovered
    \/ UNCHANGED vars

LEMMA StructsAloneSame == StructsAlone => UNCHANGED inf
  BY DEF StructsAlone, CallWork, CallSend, Return, SendLookup, SendCheck, TakeWork, PostMalloc,
     FreeLookup, Lookup, ReadPost, AwaitRead, WriteCheck, AwaitWrite, Finish, Transfer, ServeMalloc,
     ServeFree, ServeSend, Complete, Lose, HandleWrite, HandleRead, HandleSend, Reconnect, Recovered,
     vars, tableVars

LEMMA WholeAfter == Whole' => ~AwaitTorn
  BY TornFacts DEF Whole

\* The other steps.
LEMMA StepKinds ==
    ASSUME Whole', [Next]_vars
    PROVE  \/ StructsAlone
           \/ \E c \in Caller : (\E r \in Request : CallMalloc(c, r)) \/ SendPost(c) \/ SendOut(c)
           \/ AwaitMalloc \/ FreePost \/ AwaitFree \/ WritePost
           \/ HandleMalloc \/ HandleKeys \/ HandleError \/ HandleNull \/ HandleWritten
  BY WholeAfter DEF Next, Call, SendStep, ThreadStep, ServerStep, LoopStep, StructsAlone

LEMMA InfNext ==
    ASSUME IInv, Books, Whole, Whole', [Next]_vars
    PROVE  inf' \in [Info -> InfoType]
<1>0. Shape /\ inf \in [Info -> InfoType]
  BY GoodFacts DEF Shape
<1>1. CASE StructsAlone
  BY <1>0, <1>1, StructsAloneSame
<1>2. CASE \E c \in Caller, r \in Request : CallMalloc(c, r)
  BY <1>0, <1>2, CallMallocStruct
<1>3. CASE \E c \in Caller : SendPost(c) \/ SendOut(c)
  BY <1>0, <1>3, FlagStep
<1>4. CASE WritePost \/ HandleWritten
  BY <1>0, <1>4, FlagStep
<1>5. CASE AwaitMalloc
  BY <1>5, AwaitMallocStruct
<1>6. CASE FreePost \/ AwaitFree
  <2>1. at \in Info
    BY <1>6, GoodFacts DEF FreePost, AwaitFree, HeldStruct, Held
  <2>2. inf' = inf \/ FreeInfo(at)
    BY <1>6 DEF FreePost, AwaitFree
  <2>3. QED BY <1>0, <2>1, <2>2, FreedStruct
<1>7. CASE HandleMalloc \/ HandleKeys \/ HandleError \/ HandleNull
  BY <1>7, HandlerStruct
<1>8. QED BY <1>1, <1>2, <1>3, <1>4, <1>5, <1>6, <1>7, StepKinds

\* A lookup finds the first of the entries for the address.
LEMMA EntryFacts ==
    ASSUME table \in Seq(Info), NEW s, NEW b, Found(s, b)
    PROVE  /\ Entry(s, b) \in DOMAIN table /\ table[Entry(s, b)] \in In(table)
           /\ Entry(s, b) \in Hits(s, b)
           /\ inf[table[Entry(s, b)]].addr = b
           /\ \A k \in Hits(s, b) : Entry(s, b) =< k
<1>1. Hits(s, b) \in SUBSET Nat /\ Hits(s, b) # {}
  BY DEF Hits, Found
<1>2. Entry(s, b) \in Hits(s, b) /\ \A k \in Hits(s, b) : Entry(s, b) =< k
  BY <1>1, FirstOfIsLeast DEF Entry
<1>3. QED BY <1>2 DEF Hits, In

\* What the threads and the event loop leave alone.
LEMMA CallerFrame ==
    ASSUME NEW c, Call(c) \/ Return(c) \/ SendStep(c)
    PROVE  UNCHANGED <<threadVars, table, poolVars, connVars, inbox, back, hand, serverVars>>
<1>1. Call(c) => UNCHANGED <<threadVars, table, poolVars, connVars, inbox, back, hand, serverVars>>
  BY DEF Call, CallMalloc, CallWork, CallSend, Asks, wireVars
<1>2. QED BY <1>1 DEF Return, SendStep, SendLookup, SendCheck, SendPost, SendOut, wireVars, tableVars

LEMMA ThreadFrame ==
    ASSUME ThreadStep
    PROVE  UNCHANGED <<call, sat, connVars, inbox, back, hand, serverVars>>
<1>1. TakeWork \/ PostMalloc \/ AwaitMalloc \/ FreeLookup \/ FreePost \/ AwaitFree =>
        UNCHANGED <<call, sat, connVars, inbox, back, hand, serverVars>>
  BY DEF TakeWork, PostMalloc, AwaitMalloc, Take, FreeLookup, FreePost, AwaitFree, callVars, wireVars
<1>2. Lookup \/ ReadPost \/ AwaitRead \/ WriteCheck \/ WritePost \/ AwaitWrite \/ Finish =>
        UNCHANGED <<call, sat, connVars, inbox, back, hand, serverVars>>
  BY DEF Lookup, ReadPost, AwaitRead, WriteCheck, WritePost, AwaitWrite, Finish, callVars, wireVars
<1>3. QED BY <1>1, <1>2 DEF ThreadStep

LEMMA LoopFrame ==
    ASSUME LoopStep
    PROVE  UNCHANGED <<call, sat, res, works, pc, who, at, smr, table, buf, connVars, wireVars,
                       serverVars>>
  BY DEF LoopStep, HandleMalloc, HandleKeys, HandleError, HandleNull, HandleWrite, HandleWritten,
     HandleRead, HandleSend, callVars, threadVars, tableVars, poolVars

\* Whatever happens is a step of somebody.
LEMMA Steps ==
    ASSUME Whole', [Next]_vars
    PROVE  \/ \E c \in Caller : Call(c) \/ Return(c) \/ SendStep(c)
           \/ ThreadStep \/ LoopStep
           \/ \E s \in Server : Transfer(s) \/ ServerStep(s) \/ Complete(s) \/ Lose(s)
           \/ Reconnect \/ Recovered \/ UNCHANGED vars
  BY WholeAfter DEF Next

\* What is left of the lives of servers and of connections.
Lives ==
    /\ conn \in [Server -> {"up", "error", "down"}]
    /\ losses \in [Server -> Nat] /\ epoch \in [Server -> Nat]
    /\ \A s \in Server : epoch[s] =< losses[s]
    /\ recov \in [phase : {"none", "connect", "callback"}, srv : Server \cup {0}]
    /\ InRecovery => recov.srv \in Server /\ losses[recov.srv] > 0

LEMMA LivesNext ==
    ASSUME Shape, Whole', [Next]_vars
    PROVE  Lives'
<1>0. Lives
  BY DEF Shape, Lives
<1>1. CASE \E s \in Server : Lose(s)
  <2>1. PICK s \in Server : Lose(s)
    BY <1>1
  <2>2. /\ conn' = [conn EXCEPT ![s] = "down"] /\ losses' = [losses EXCEPT ![s] = @ + 1]
        /\ epoch' = epoch \/ epoch' = [epoch EXCEPT ![s] = @ + 1]
        /\ recov' = IF InRecovery THEN recov ELSE [phase |-> "connect", srv |-> s]
    BY <2>1 DEF Lose, serverVars
  <2>3. losses[s] \in Nat /\ epoch[s] \in Nat /\ epoch[s] =< losses[s]
    BY <1>0 DEF Lives
  <2>4. conn' \in [Server -> {"up", "error", "down"}] /\ losses' \in [Server -> Nat]
        /\ epoch' \in [Server -> Nat]
    BY <1>0, <2>2, <2>3 DEF Lives
  <2>5. \A t \in Server : epoch'[t] =< losses'[t] /\ losses'[t] >= losses[t]
    BY <1>0, <2>2, <2>3 DEF Lives
  <2>6. losses'[s] > 0
    BY <1>0, <2>2, <2>3 DEF Lives
  <2>7. InRecovery' => recov'.srv \in Server /\ losses'[recov'.srv] > 0
    <3>1. CASE InRecovery
      <4>1. recov' = recov /\ recov.srv \in Server /\ losses[recov.srv] > 0
        BY <1>0, <2>2, <3>1 DEF Lives
      <4>2. losses[recov.srv] \in Nat /\ losses'[recov.srv] \in Nat
        BY <1>0, <2>4, <4>1 DEF Lives
      <4>3. QED BY <2>5, <4>1, <4>2
    <3>2. CASE ~InRecovery
      <4>1. recov'.srv = s
        BY <2>2, <3>2
      <4>2. QED BY <2>6, <4>1
    <3>3. QED BY <3>1, <3>2
  <2>8. recov' \in [phase : {"none", "connect", "callback"}, srv : Server \cup {0}]
    BY <1>0, <2>2 DEF Lives
  <2>9. QED BY <2>4, <2>5, <2>7, <2>8 DEF Lives
<1>2. CASE Reconnect \/ Recovered
  <2>1. /\ UNCHANGED <<losses, epoch>>
        /\ conn' = conn \/ conn' = [conn EXCEPT ![recov.srv] = "up"]
        /\ InRecovery' => InRecovery /\ recov'.srv = recov.srv
        /\ recov' \in [phase : {"none", "connect", "callback"}, srv : Server \cup {0}]
    BY <1>0, <1>2 DEF Lives, Reconnect, Recovered, serverVars, InRecovery, NoServer
  <2>2. QED BY <1>0, <2>1 DEF Lives
<1>3. CASE \E s \in Server : Transfer(s)
  <2>1. PICK s \in Server : Transfer(s)
    BY <1>3
  <2>2. /\ conn' = conn \/ conn' = [conn EXCEPT ![s] = "error"]
        /\ UNCHANGED <<losses, epoch, recov>>
    BY <2>1 DEF Transfer, Refuse
  <2>3. QED BY <1>0, <2>2 DEF Lives, InRecovery
<1>4. CASE UNCHANGED <<conn, losses, epoch, recov>>
  BY <1>0, <1>4 DEF Lives, InRecovery
<1>5. \/ \E s \in Server : Lose(s) \/ Transfer(s)
      \/ Reconnect \/ Recovered \/ UNCHANGED <<conn, losses, epoch, recov>>
  BY Steps, CallerFrame, ThreadFrame, LoopFrame DEF ServerStep, ServeMalloc, ServeFree, ServeSend,
     Complete, vars, connVars, serverVars
<1>6. QED BY <1>1, <1>2, <1>3, <1>4, <1>5

\* A write to one place of a memory.
LEMMA Patched ==
    ASSUME mem \in [Server -> [Block -> Value]], NEW s, NEW b, NEW v \in Value,
           mem' = [mem EXCEPT ![s][b] = v]
    PROVE  mem' \in [Server -> [Block -> Value]]
<1>1. PICK f : f = [mem[s] EXCEPT ![b] = v]
  OBVIOUS
<1>2. s \in Server => f \in [Block -> Value]
  BY <1>1
<1>3. mem' = [mem EXCEPT ![s] = f]
  BY <1>1
<1>4. QED BY <1>2, <1>3

\* What servers give out and hold.
LEMMA ServersNext ==
    ASSUME IInv, Books, Whole, Whole', [Next]_vars
    PROVE  alloc' \in [Server -> SUBSET Block] /\ mem' \in [Server -> [Block -> Value]]
<1>0. /\ Shape /\ Messages /\ Calls /\ Typed /\ WorkIsLive /\ Outstanding(Every) /\ Sound(Every)
      /\ alloc \in [Server -> SUBSET Block] /\ mem \in [Server -> [Block -> Value]]
  BY GoodFacts DEF Shape
<1>1. CASE \E s \in Server : Lose(s)
  <2>1. PICK s \in Server : Lose(s)
    BY <1>1
  <2>2. PICK z : z = [b \in Block |-> Zero]
    OBVIOUS
  <2>3. z \in [Block -> Value]
    BY <2>2, ValueAssumption
  <2>4. \/ alloc' = [alloc EXCEPT ![s] = {}] /\ mem' = [mem EXCEPT ![s] = z]
        \/ UNCHANGED <<alloc, mem>>
    BY <2>1, <2>2 DEF Lose, serverVars
  <2>5. QED BY <1>0, <2>3, <2>4
<1>2. CASE \E s \in Server : ServeMalloc(s)
  <2>1. PICK s \in Server : ServeMalloc(s)
    BY <1>2
  <2>2. \/ UNCHANGED <<alloc, mem>>
        \/ \E b \in Block, v \in Value : /\ alloc' = [alloc EXCEPT ![s] = alloc[s] \cup {b}]
                                         /\ mem' = [mem EXCEPT ![s][b] = v]
    BY <2>1 DEF ServeMalloc
  <2>3. CASE UNCHANGED <<alloc, mem>>
    BY <1>0, <2>3
  <2>4. CASE ~UNCHANGED <<alloc, mem>>
    <3>1. PICK b \in Block, v \in Value : /\ alloc' = [alloc EXCEPT ![s] = alloc[s] \cup {b}]
                                         /\ mem' = [mem EXCEPT ![s][b] = v]
      BY <2>2, <2>4
    <3>2. alloc' \in [Server -> SUBSET Block]
      BY <1>0, <3>1
    <3>3. mem' \in [Server -> [Block -> Value]]
      BY <1>0, <3>1, Patched
    <3>4. QED BY <3>2, <3>3
  <2>5. QED BY <2>3, <2>4
<1>3. CASE \E s \in Server : ServeFree(s)
  BY <1>0, <1>3 DEF ServeFree
<1>4. CASE \E s \in Server : ServeSend(s)
  <2>1. PICK s \in Server : ServeSend(s)
    BY <1>4
  <2>2. PICK w \in In(inbox[s]) : w = Head(inbox[s]) /\ w.m = "send"
    BY <1>0, <2>1, LeftBy DEF ServeSend
  <2>3. call[w.c] \in Request
    BY <2>2, RequestAbout
  <2>4. call[w.c].val \in Value
    BY <2>3, RequestFacts
  <2>5. alloc' = alloc /\ (mem' = mem \/ mem' = [mem EXCEPT ![s][w.b] = call[w.c].val])
    BY <2>1, <2>2 DEF ServeSend
  <2>6. PICK b, v : b = w.b /\ v = call[w.c].val /\ v \in Value
    BY <2>4
  <2>7. mem' = mem \/ mem' = [mem EXCEPT ![s][b] = v]
    BY <2>5, <2>6
  <2>8. QED BY <1>0, <2>5, <2>6, <2>7, Patched
<1>5. CASE \E s \in Server : Transfer(s)
  <2>1. PICK s \in Server : Transfer(s)
    BY <1>5
  <2>2. PICK w \in In(wire[s]) : w = Head(wire[s])
    BY <1>0, <2>1, LeftBy DEF Transfer
  <2>3. alloc' = alloc /\ (mem' = mem \/ (w.m = "write" /\ mem' = [mem EXCEPT ![s][w.b] = buf[w.smr].data]))
    BY <2>1, <2>2 DEF Transfer, Refuse
  <2>4. w.m = "write" => buf[w.smr].data \in Value
    <3> HAVE w.m = "write"
    <3>1. w.smr = smr /\ buf[smr].data = MyCall.val
      BY <1>0, <2>2, GoodFacts DEF Messages, Buffers, OfBuffer, Transfers
    <3>2. pc = "await_write"
      BY <2>2, RequestAbout
    <3>3. MyCall \in Request
      BY <1>0, <3>2, MyCallFacts
    <3>4. QED BY <3>1, <3>3, RequestFacts
  <2>5. CASE w.m = "write"
    <3>1. PICK b, v : b = w.b /\ v = buf[w.smr].data /\ v \in Value
      BY <2>4, <2>5
    <3>2. mem' = mem \/ mem' = [mem EXCEPT ![s][b] = v]
      BY <2>3, <3>1
    <3>3. QED BY <1>0, <2>3, <3>1, <3>2, Patched
  <2>6. QED BY <1>0, <2>3, <2>5
<1>6. CASE UNCHANGED <<alloc, mem>>
  BY <1>0, <1>6
<1>7. \/ \E s \in Server : Lose(s) \/ Transfer(s) \/ ServeMalloc(s) \/ ServeFree(s) \/ ServeSend(s)
      \/ UNCHANGED <<alloc, mem>>
  BY Steps, CallerFrame, ThreadFrame, LoopFrame DEF ServerStep, Complete, Reconnect, Recovered,
     vars, serverVars
<1>8. QED BY <1>1, <1>2, <1>3, <1>4, <1>5, <1>6, <1>7

LEMMA SatNext ==
    ASSUME Shape, Table, Whole', [Next]_vars
    PROVE  sat' \in [Caller -> Info \cup {0}]
<1>0. sat \in [Caller -> Info \cup {0}]
  BY DEF Shape
<1>1. ASSUME NEW c \in Caller, NEW i \in Info \cup {0}, sat' = [sat EXCEPT ![c] = i]
      PROVE  sat' \in [Caller -> Info \cup {0}]
  BY <1>0, <1>1
<1>2. ASSUME NEW c \in Caller, NEW r \in Request, CallMalloc(c, r)
      PROVE  sat' \in [Caller -> Info \cup {0}]
  BY <1>1, <1>2, CallMallocStruct
<1>3. ASSUME NEW c \in Caller, Return(c)
      PROVE  sat' \in [Caller -> Info \cup {0}]
  BY <1>1, <1>3 DEF Return
<1>4. ASSUME NEW c \in Caller, SendLookup(c)
      PROVE  sat' \in [Caller -> Info \cup {0}]
  <2>1. CASE Found(call[c].srv, call[c].blk)
    <3>1. PICK i : i = table[Entry(call[c].srv, call[c].blk)]
      OBVIOUS
    <3>2. i \in Info
      <4>1. i \in In(table)
        BY <2>1, <3>1, EntryFacts DEF Table
      <4>2. QED BY <4>1, InTable
    <3>3. sat' = [sat EXCEPT ![c] = i]
      BY <1>4, <2>1, <3>1 DEF SendLookup
    <3>4. QED BY <1>1, <3>2, <3>3
  <2>2. CASE ~Found(call[c].srv, call[c].blk)
    BY <1>0, <1>4, <2>2 DEF SendLookup
  <2>3. QED BY <2>1, <2>2
<1>5. \/ \E c \in Caller : Return(c) \/ SendLookup(c) \/ \E r \in Request : CallMalloc(c, r)
      \/ UNCHANGED sat
  BY Steps, ThreadFrame, LoopFrame DEF Call, CallWork, CallSend, SendStep, SendCheck, SendPost,
     SendOut, ServerStep, ServeMalloc, ServeFree, ServeSend, Transfer, Complete, Lose, Reconnect,
     Recovered, vars, callVars
<1>6. QED BY <1>0, <1>2, <1>3, <1>4, <1>5

LEMMA ShapeNext ==
    ASSUME IInv, Books, Whole, Whole', [Next]_vars
    PROVE  Shape'
<1>1. Lives' /\ sat' \in [Caller -> Info \cup {0}]
  BY LivesNext, SatNext, GoodFacts
<1>2. inf' \in [Info -> InfoType]
  BY InfNext
<1>3. alloc' \in [Server -> SUBSET Block] /\ mem' \in [Server -> [Block -> Value]]
  BY ServersNext
<1>4. QED BY <1>1, <1>2, <1>3 DEF Shape, Lives
-----------------------------------------------------------------------------
(* Steps after which the thread is where it was, with what it had.         *)

Rest == Table /\ EarlyStructs /\ HeldStruct /\ UsedEntry /\ Messages

LEMMA SmoothStep ==
    ASSUME IInv, Books, Whole, Shape', UNCHANGED <<pc, at, who, smr, table>>,
           \A j \in Info : inf[j].live => Alike(inf'[j], inf[j]),
           \A s \in Server : epoch[s] =< epoch'[s],
           \A c \in Caller : st[c] = "waiting" => call'[c] = call[c] /\ sat'[c] = sat[c],
           \A j \in In(table) : inf[j].key = epoch'[inf[j].srv] => inf[j].addr \in alloc'[inf[j].srv],
           pc = "await_malloc" /\ epoch'[MyCall.srv] = epoch[MyCall.srv] =>
             alloc[MyCall.srv] \subseteq alloc'[MyCall.srv],
           \A s \in Server :
             /\ \A x \in In(wire'[s]) : x.m \in Worked => x \in In(wire[s])
             /\ \A x \in In(inbox'[s]) : x.m \in Worked => x \in In(inbox[s]) \/ x \in In(wire[s])
             /\ \A x \in In(back'[s]) : x.m \in {"malloc", "free"} =>
                  \/ x \in In(back[s])
                  \/ s = MyCall.srv /\ MyCall' = MyCall
                     /\ (x.m = "malloc" => Given(MyCall.srv, x.b, x.key)'),
           hand'.m = "malloc" => hand' = hand \/ \E s \in Server : hand' \in In(back[s]),
           \A s \in Server : \A x \in In(wire'[s]) : x.m = "write" => buf'[smr].data = buf[smr].data
    PROVE  /\ Table' /\ HeldStruct' /\ UsedEntry' /\ Messages'
           /\ Early' \subseteq Early => EarlyStructs'
<1>0. /\ Typed /\ WorkIsLive /\ Calls /\ Buffers /\ Shape /\ Table /\ EarlyStructs
      /\ HeldStruct /\ UsedEntry /\ Messages /\ Outstanding(Every)
      /\ Sound(Every)
  BY GoodFacts
<1>1. \A j \in In(table) : Alike(inf'[j], inf[j])
  BY <1>0, InTable DEF Table
<1>2. EntriesStay
  BY <1>1 DEF EntriesStay, Shape
<1>3. Held => Alike(inf'[at], inf[at])
  BY <1>0 DEF HeldStruct
<1>4. pc # "take" => call'[who] = call[who]
  BY <1>0, MyCallFacts
<1>5. Table'
  BY <1>0, <1>2, TableStays
<1>6. HeldStruct'
  <2>1. CASE pc # "take"
    BY <1>0, <1>2, <1>3, <1>4, <2>1, HeldStay
  <2>2. CASE pc = "take"
    BY <2>2 DEF HeldStruct, Held, Freeing
  <2>3. QED BY <2>1, <2>2
<1>7. UsedEntry'
  BY <1>0, <1>2, <1>4, UsedStay
<1>8. Messages'
  BY <1>0, <1>2, <1>3, <1>4, MessagesStay
<1>9. Early' \subseteq Early => EarlyStructs'
  <2> HAVE Early' \subseteq Early
  <2>1. In(table)' = In(table)
    BY DEF In
  <2>2. \A c \in Early : sat'[c] = sat[c] /\ call'[c] = call[c] /\ Alike(inf'[sat[c]], inf[sat[c]])
    BY <1>0 DEF Early, EarlyStructs
  <2>3. Held' => \A c \in Early : sat[c] # at'
    BY <1>0 DEF EarlyStructs, Held
  <2>4. QED BY <1>0, <2>1, <2>2, <2>3, EarlyStay
<1>10. QED BY <1>5, <1>6, <1>7, <1>8, <1>9

\* What a caller leaves of structs and of other callers.
LEMMA CallerStructs ==
    ASSUME IInv, Books, Whole, NEW c \in Caller, Call(c) \/ Return(c) \/ SendStep(c)
    PROVE  /\ \A j \in Info : inf[j].live => Alike(inf'[j], inf[j])
           /\ st[c] # "waiting" /\ \A d \in Caller \ {c} : call'[d] = call[d] /\ sat'[d] = sat[d]
<1>0. Shape /\ Calls
  BY GoodFacts
<1>2. \A j \in Info : inf[j].live => Alike(inf'[j], inf[j])
  <2>1. CASE inf' = inf
    BY <2>1 DEF Alike
  <2>2. CASE \E r \in Request : CallMalloc(c, r)
    BY <1>0, <2>2, CallMallocStruct DEF Alike
  <2>3. CASE SendPost(c) \/ SendOut(c)
    BY <1>0, <2>3, FlagStep
  <2>4. QED BY <2>1, <2>2, <2>3 DEF Call, CallWork, CallSend, Return, SendStep, SendLookup, SendCheck,
               tableVars
<1>3. st[c] # "waiting" /\ \A d \in Caller \ {c} : call'[d] = call[d] /\ sat'[d] = sat[d]
  <2>1. st[c] # "waiting"
    BY DEF Call, CallMalloc, CallWork, CallSend, Asks, Return, SendStep, SendLookup, SendCheck,
           SendPost, SendOut
  <2>2. sat' = sat \/ \E x : sat' = [sat EXCEPT ![c] = x]
    BY DEF Call, CallMalloc, CallWork, CallSend, Return, SendStep, SendLookup, SendCheck,
           SendPost, SendOut
  <2>3. call' = call \/ \E x : call' = [call EXCEPT ![c] = x]
    BY DEF Call, CallMalloc, CallWork, CallSend, Asks, Return, SendStep, SendLookup, SendCheck,
           SendPost, SendOut
  <2>4. QED BY <1>0, <2>1, <2>2, <2>3 DEF Calls, Shape
<1>4. QED BY <1>2, <1>3

\* Callers' steps, other than that of dhmp_malloc.
LEMMA CallerRest ==
    ASSUME IInv, Books, Whole, Shape', NEW c \in Caller, Call(c) \/ Return(c) \/ SendStep(c)
    PROVE  /\ Table' /\ HeldStruct' /\ UsedEntry' /\ Messages'
           /\ Early' \subseteq Early => EarlyStructs'
<1>0. /\ Shape /\ Table /\ Typed /\ Outstanding(Every) /\ WorkIsLive /\ Calls /\ Sound(Every)
  BY GoodFacts
<1>1. UNCHANGED <<pc, at, who, smr, table, epoch, alloc, inbox, back, hand, buf>>
  BY CallerFrame DEF threadVars, poolVars, serverVars
<1>2. \A j \in Info : inf[j].live => Alike(inf'[j], inf[j])
  BY CallerStructs
<1>3. st[c] # "waiting" /\ \A d \in Caller \ {c} : call'[d] = call[d] /\ sat'[d] = sat[d]
  BY CallerStructs
<1>4. \A s \in Server : \A x \in In(wire'[s]) : x.m \in Worked => x \in In(wire[s])
  <2>1. CASE wire' = wire
    BY <2>1
  <2>2. CASE SendPost(c)
    <3>1. PICK t, x : t = call[c].srv /\ x = [m |-> "send", c |-> c, b |-> inf[sat[c]].addr]
      OBVIOUS
    <3>2. Post(t, <<x>>) /\ x.m = "send"
      BY <2>2, <3>1 DEF SendPost
    <3>3. x.m \notin Worked
      BY <3>2 DEF Worked, Transfers
    <3>4. QED BY <1>0, <3>2, <3>3, PostedFrom
  <2>3. QED BY <2>1, <2>2 DEF Call, CallMalloc, CallWork, CallSend, Asks, Return, SendStep, SendLookup,
               SendCheck, SendOut, wireVars
<1>5. \A s \in Server : epoch[s] =< epoch'[s]
  BY <1>0, <1>1 DEF Shape
<1>6. \A j \in In(table) : inf[j].key = epoch'[inf[j].srv] => inf[j].addr \in alloc'[inf[j].srv]
  BY <1>0, <1>1 DEF Table
<1>7. QED BY <1>1, <1>2, <1>3, <1>4, <1>5, <1>6, SmoothStep

\* Who has yet to have a malloc posted: as long as works stay, nobody else.
LEMMA EarlyLess ==
    ASSUME works' = works, pc' = "malloc" /\ who' \in Caller => pc = "malloc" /\ who' = who,
           \A c \in Caller : st'[c] = "waiting" => st[c] = "waiting" /\ call'[c] = call[c]
    PROVE  Early' \subseteq Early
  BY DEF Early

LEMMA CallerEarly ==
    ASSUME IInv, Books, Whole, Shape', NEW c \in Caller, Call(c) \/ Return(c) \/ SendStep(c)
    PROVE  EarlyStructs'
<1>0. /\ Shape /\ Table /\ Typed /\ Outstanding(Every) /\ WorkIsLive /\ Calls /\ Sound(Every)
      /\ EarlyStructs /\ HeldStruct
  BY GoodFacts
<1>1. UNCHANGED <<pc, at, who, table>>
  BY CallerFrame DEF threadVars
<1>2. CASE \E r \in Request : CallMalloc(c, r)
  <2>1. PICK r \in Request : CallMalloc(c, r)
    BY <1>2
  <2>2. PICK i \in Info : /\ ~inf[i].live /\ inf'[i] = Fresh(r.srv)
                          /\ \A j \in Info : j # i => inf'[j] = inf[j]
                          /\ sat' = [sat EXCEPT ![c] = i]
    BY <1>0, <2>1, CallMallocStruct
  <2>3. /\ call' = [call EXCEPT ![c] = r] /\ works' = Append(works, c) /\ st[c] = "idle"
        /\ st' = [st EXCEPT ![c] = "waiting"]
    BY <2>1 DEF CallMalloc, Asks, Queued
  <2>4. Early' \subseteq Early \cup {c} /\ c \notin Early
    <3> SUFFICES ASSUME NEW d \in Early', d # c PROVE d \in Early
      BY <2>3 DEF Early
    <3>1. d \in Caller /\ st[d] = "waiting" /\ call[d].op = "malloc"
      BY <1>0, <2>3 DEF Early, Typed, Calls
    <3>2. ASSUME NEW k \in DOMAIN works', works'[k] = d
          PROVE  \E n \in DOMAIN works : works[n] = d
      BY <1>0, <2>3, <3>2 DEF Typed
    <3>3. QED BY <1>1, <3>1, <3>2 DEF Early
  <2>5. \A d \in Early : sat'[d] = sat[d] /\ call'[d] = call[d] /\ sat[d] # i /\ inf'[sat[d]] = inf[sat[d]]
    BY <1>0, <2>2, <2>3, <2>4 DEF EarlyStructs, Shape, Calls, Early
  <2>6. sat'[c] = i /\ call'[c] = r
    BY <1>0, <2>2, <2>3 DEF Shape, Calls
  <2>7. i \notin In(table) /\ (Held => i # at)
    BY <1>0, <2>2 DEF Table, HeldStruct
  <2>8. In(table)' = In(table) /\ Held' = Held
    BY <1>1 DEF In, Held
  <2>9. \A d \in Early' : /\ sat'[d] \in Info /\ inf'[sat'[d]].live /\ inf'[sat'[d]].srv = call'[d].srv
                          /\ inf'[sat'[d]].addr = Junk /\ ~inf'[sat'[d]].len
                          /\ sat'[d] \notin In(table)
                          /\ Held => sat'[d] # at
    <3> TAKE d \in Early'
    <3>1. CASE d = c
      <4>1. inf'[i].live /\ inf'[i].srv = r.srv /\ inf'[i].addr = Junk /\ ~inf'[i].len
        BY <2>2, FreshFields
      <4>2. QED BY <2>6, <2>7, <3>1, <4>1
    <3>2. CASE d # c
      <4>1. d \in Early
        BY <2>4, <3>2
      <4>2. QED BY <1>0, <2>5, <4>1 DEF EarlyStructs
    <3>3. QED BY <3>1, <3>2
  <2>10. \A d, e \in Early' : sat'[d] = sat'[e] => d = e
    BY <1>0, <2>4, <2>5, <2>6 DEF EarlyStructs
  <2>11. QED BY <1>1, <2>8, <2>9, <2>10 DEF EarlyStructs
<1>3. CASE ~\E r \in Request : CallMalloc(c, r)
  <2>1. Early' \subseteq Early
    <3>1. CASE \E r \in Request : CallWork(c, r)
      <4>1. PICK r \in Request : CallWork(c, r)
        BY <3>1
      <4>2. /\ call' = [call EXCEPT ![c] = r] /\ works' = Append(works, c)
            /\ st' = [st EXCEPT ![c] = "waiting"] /\ r.op # "malloc"
        BY <4>1 DEF CallWork, Asks, Queued
      <4>3. ASSUME NEW d \in Early' PROVE d \in Early
        <5>1. d # c
          BY <1>0, <4>2 DEF Early, Calls
        <5>2. d \in Caller /\ st[d] = "waiting" /\ call[d].op = "malloc"
          BY <1>0, <4>2, <5>1 DEF Early, Typed, Calls
        <5>3. ASSUME NEW k \in DOMAIN works', works'[k] = d
              PROVE  \E n \in DOMAIN works : works[n] = d
          BY <1>0, <4>2, <5>1, <5>3 DEF Typed
        <5>4. QED BY <1>1, <5>2, <5>3 DEF Early
      <4>4. QED BY <4>3
    <3>2. CASE ~\E r \in Request : CallWork(c, r)
      <4>1. works' = works /\ \A d \in Caller : st'[d] = "waiting" => st[d] = "waiting" /\ call'[d] = call[d]
        <5>1. /\ works' = works
              /\ \E x \in State \ {"waiting"} : st' = [st EXCEPT ![c] = x]
              /\ call' = call \/ \E x : call' = [call EXCEPT ![c] = x]
          BY <1>3, <3>2 DEF Call, CallSend, Asks, Return, SendStep, SendLookup, SendCheck,
             SendPost, SendOut, State
        <5>2. QED BY <1>0, <5>1 DEF Typed, Calls
      <4>2. QED BY <1>1, <4>1, EarlyLess
    <3>3. QED BY <3>1, <3>2
  <2>2. QED BY <2>1, CallerRest
<1>4. QED BY <1>2, <1>3

\* Steps of the network, of servers and of connections.
LEMMA NetStep ==
    ASSUME IInv, Books, Whole, Shape', UNCHANGED <<call, st, sat, works, pc, at, who, smr, inf, table>>,
           \A s \in Server : epoch[s] =< epoch'[s],
           \A j \in In(table) : inf[j].key = epoch'[inf[j].srv] => inf[j].addr \in alloc'[inf[j].srv],
           pc = "await_malloc" /\ epoch'[MyCall.srv] = epoch[MyCall.srv] =>
             alloc[MyCall.srv] \subseteq alloc'[MyCall.srv],
           \A s \in Server :
             /\ \A x \in In(wire'[s]) : x.m \in Worked => x \in In(wire[s])
             /\ \A x \in In(inbox'[s]) : x.m \in Worked => x \in In(inbox[s]) \/ x \in In(wire[s])
             /\ \A x \in In(back'[s]) : x.m \in {"malloc", "free"} =>
                  \/ x \in In(back[s])
                  \/ s = MyCall.srv /\ (x.m = "malloc" => Given(MyCall.srv, x.b, x.key)'),
           hand'.m = "malloc" => hand' = hand \/ \E s \in Server : hand' \in In(back[s]),
           \A s \in Server : \A x \in In(wire'[s]) : x.m = "write" => buf'[smr].data = buf[smr].data
    PROVE  Rest'
<1>1. \A j \in Info : inf[j].live => Alike(inf'[j], inf[j])
  BY DEF Alike
<1>2. Early' \subseteq Early
  BY DEF Early
<1>3. MyCall' = MyCall
  BY DEF MyCall
<1>4. Table' /\ HeldStruct' /\ UsedEntry' /\ Messages' /\ (Early' \subseteq Early => EarlyStructs')
  BY <1>1, <1>3, SmoothStep
<1>5. QED BY <1>2, <1>4 DEF Rest

LEMMA TransferRest ==
    ASSUME IInv, Books, Whole, Shape', NEW s \in Server, Transfer(s)
    PROVE  Rest'
<1>0. /\ Shape /\ Table /\ Typed /\ Outstanding(Every) /\ Sound(Every)
  BY GoodFacts
<1>1. UNCHANGED <<call, st, sat, works, pc, at, who, smr, inf, table, epoch, alloc, hand>>
  BY DEF Transfer, threadVars, tableVars
<1>2. PICK w \in In(wire[s]) : w = Head(wire[s])
  BY <1>0, LeftBy DEF Transfer
<1>3. \A t \in Server : In(wire'[t]) \subseteq In(wire[t])
  <2>1. wire[s] # <<>> /\ (Arrived(s) \/ wire' = [wire EXCEPT ![s] = <<>>])
    BY DEF Transfer, Refuse
  <2>2. QED BY <1>0, <2>1, LeftBy, NoneIn DEF Typed
<1>4. \A t \in Server : \A x \in In(inbox'[t]) : x \in In(inbox[t]) \/ x \in In(wire[t])
  <2>1. inbox' = inbox \/ inbox' = [inbox EXCEPT ![s] = Append(@, w)]
    BY <1>2 DEF Transfer, Refuse
  <2>2. IsSeq(inbox[s])
    BY <1>0, Queues
  <2>3. In(Append(inbox[s], w)) \subseteq In(inbox[s]) \cup {w}
    BY <2>2 DEF IsSeq, In
  <2>4. QED BY <1>0, <1>2, <2>1, <2>3 DEF Typed
<1>5. \A t \in Server : \A x \in In(back'[t]) : x.m \in {"malloc", "free"} => x \in In(back[t])
  <2>1. CASE back' = back
    BY <2>1
  <2>2. CASE back' # back
    <3>1. PICK y : Answer(s, y) /\ y.m \in {"write", "read", "check"}
      <4>1. PICK y : y = [m |-> "write", i |-> w.i, smr |-> w.smr]
        OBVIOUS
      <4>2. PICK z : z = [m |-> "read"]
        OBVIOUS
      <4>3. PICK u : u = [m |-> "check"]
        OBVIOUS
      <4>4. y.m = "write" /\ z.m = "read" /\ u.m = "check"
        BY <4>1, <4>2, <4>3
      <4>5. Answer(s, y) \/ Answer(s, z) \/ Answer(s, u)
        BY <1>2, <2>2, <4>1, <4>2, <4>3 DEF Transfer, Refuse
      <4>6. QED BY <4>4, <4>5
    <3>2. \A t \in Server : In(back'[t]) \subseteq In(back[t]) \cup {y}
      BY <1>0, <3>1, AnsweredFrom
    <3>3. QED BY <3>1, <3>2
  <2>3. QED BY <2>1, <2>2
<1>6. \A t \in Server : \A x \in In(wire'[t]) : x.m = "write" => buf'[smr].data = buf[smr].data
  <2>1. CASE buf' = buf
    BY <2>1
  <2>2. CASE buf' # buf
    <3>1. w.m = "read"
      BY <1>2, <2>2 DEF Transfer, Refuse
    <3>2. pc = "await_read"
      BY <1>2, <3>1, RequestAbout
    <3>3. QED BY <1>3, <3>2, RequestAbout
  <2>3. QED BY <2>1, <2>2
<1>7. \A t \in Server : epoch[t] =< epoch'[t]
  BY <1>0, <1>1 DEF Shape
<1>8. \A j \in In(table) : inf[j].key = epoch'[inf[j].srv] => inf[j].addr \in alloc'[inf[j].srv]
  BY <1>0, <1>1 DEF Table
<1>9. QED BY <1>1, <1>3, <1>4, <1>5, <1>6, <1>7, <1>8, NetStep

\* The server gives out a block that no entry is of.
LEMMA ServeMallocRest ==
    ASSUME IInv, Books, Whole, Shape', NEW s \in Server, ServeMalloc(s)
    PROVE  Rest'
<1>0. /\ Shape /\ Table /\ Typed /\ Outstanding(Every) /\ Sound(Every)
      /\ alloc \in [Server -> SUBSET Block] /\ epoch \in [Server -> Nat]
  BY GoodFacts DEF Shape
<1>1. UNCHANGED <<call, st, sat, works, pc, at, who, smr, inf, table, epoch, wire, hand, buf>>
  BY DEF ServeMalloc, callVars, threadVars, tableVars, poolVars
<1>2. PICK w \in In(inbox[s]) : w = Head(inbox[s]) /\ w.m = "malloc"
  BY <1>0, LeftBy DEF ServeMalloc
<1>3. s = MyCall.srv /\ pc = "await_malloc"
  BY <1>2, RequestAbout
<1>4. \A t \in Server : In(inbox'[t]) \subseteq In(inbox[t])
  BY <1>0, LeftBy DEF ServeMalloc
<1>5. \A t \in Server : alloc[t] \subseteq alloc'[t]
  BY <1>0 DEF ServeMalloc
<1>6. PICK y : /\ Answer(s, y)
               /\ y.m \in {"malloc", "error"}
               /\ y.m = "malloc" => /\ y.b \in Block \ alloc[s] /\ y.key = epoch[s]
                                    /\ y.b \in alloc'[s]
  <2>1. PICK z : z = [m |-> "error", i |-> w.i]
    OBVIOUS
  <2>2. z.m = "error"
    BY <2>1
  <2>3. CASE Answer(s, z)
    BY <2>2, <2>3
  <2>4. CASE ~Answer(s, z)
    <3>1. PICK b \in Block \ alloc[s] :
               /\ alloc' = [alloc EXCEPT ![s] = @ \cup {b}]
               /\ Answer(s, [m |-> "malloc", i |-> w.i, b |-> b, key |-> epoch[s]])
      BY <1>2, <2>1, <2>4 DEF ServeMalloc
    <3>2. PICK u : u = [m |-> "malloc", i |-> w.i, b |-> b, key |-> epoch[s]]
      OBVIOUS
    <3>3. Answer(s, u) /\ u.m = "malloc" /\ u.b = b /\ u.key = epoch[s]
      BY <3>1, <3>2
    <3>4. b \in alloc'[s]
      BY <1>0, <3>1
    <3>5. QED BY <3>3, <3>4
  <2>5. QED BY <2>3, <2>4
<1>7. y.m = "malloc" => Given(s, y.b, y.key)'
  <2> HAVE y.m = "malloc"
  <2>1. PICK b \in Block : b = y.b /\ b \in alloc'[s] /\ b \notin alloc[s]
    BY <1>6
  <2>2. \A j \in In(table) : inf[j].srv = s => inf[j].key =< epoch[s] /\
             ~(inf[j].addr = b /\ inf[j].key = epoch[s])
    BY <1>0, <2>1 DEF Table
  <2>3. In(table)' = In(table)
    BY <1>1 DEF In
  <2>4. epoch[s] \in Nat /\ epoch[s] =< epoch[s] /\ y.key = epoch[s]
    BY <1>0, <1>6
  <2>5. QED BY <1>1, <2>1, <2>2, <2>3, <2>4 DEF Given, Alone
<1>8. \A t \in Server : \A x \in In(back'[t]) : x.m \in {"malloc", "free"} =>
        x \in In(back[t]) \/ (t = MyCall.srv /\ (x.m = "malloc" => Given(MyCall.srv, x.b, x.key)'))
  <2> TAKE t \in Server
  <2> TAKE x \in In(back'[t])
  <2>1. x \in In(back[t]) \/ (t = s /\ x = y)
    BY <1>0, <1>6, AnsweredFrom
  <2>2. MyCall' = MyCall
    BY <1>1 DEF MyCall
  <2>3. t = s /\ x = y /\ x.m = "malloc" => Given(MyCall.srv, x.b, x.key)'
    BY <1>3, <1>7, <2>2 DEF Given, Alone
  <2>4. QED BY <1>3, <2>1, <2>3
<1>9. \A j \in In(table) : inf[j].key = epoch'[inf[j].srv] => inf[j].addr \in alloc'[inf[j].srv]
  BY <1>0, <1>1, <1>5 DEF Table
<1>10. \A t \in Server : epoch[t] =< epoch'[t]
  BY <1>0, <1>1
<1>11. pc = "await_malloc" => alloc[MyCall.srv] \subseteq alloc'[MyCall.srv]
  BY <1>3, <1>5
<1>12. QED BY <1>1, <1>4, <1>8, <1>9, <1>10, <1>11, NetStep

\* It takes back a block that no entry is of.
LEMMA ServeFreeRest ==
    ASSUME IInv, Books, Whole, Shape', NEW s \in Server, ServeFree(s)
    PROVE  Rest'
<1>0. /\ Shape /\ Table /\ Typed /\ Outstanding(Every) /\ Sound(Every) /\ HeldStruct
      /\ alloc \in [Server -> SUBSET Block] /\ epoch \in [Server -> Nat]
  BY GoodFacts DEF Shape
<1>1. UNCHANGED <<call, st, sat, works, pc, at, who, smr, inf, table, epoch, wire, hand, buf>>
  BY DEF ServeFree, callVars, threadVars, tableVars, poolVars
<1>2. PICK w \in In(inbox[s]) : w = Head(inbox[s]) /\ w.m = "free"
  BY <1>0, LeftBy DEF ServeFree
<1>3. /\ s = MyCall.srv /\ pc = "await_free" /\ w.b = inf[at].addr /\ w.key = KeyAt
      /\ inf[at].srv = s /\ inf[at].addr # Null
  BY <1>2, RequestAbout
<1>4. \A t \in Server : In(inbox'[t]) \subseteq In(inbox[t])
  BY <1>0, LeftBy DEF ServeFree
<1>5. PICK y : Answer(s, y) /\ y.m = "free"
  <2>1. PICK z : z = [m |-> "free", i |-> w.i]
    OBVIOUS
  <2>2. z.m = "free" /\ Answer(s, z)
    BY <1>2, <2>1 DEF ServeFree
  <2>3. QED BY <2>2
<1>6. \A t \in Server : \A x \in In(back'[t]) : x.m \in {"malloc", "free"} =>
        x \in In(back[t]) \/ (t = MyCall.srv /\ (x.m = "malloc" => Given(MyCall.srv, x.b, x.key)'))
  <2> TAKE t \in Server
  <2> TAKE x \in In(back'[t])
  <2>1. x \in In(back[t]) \/ (t = s /\ x = y)
    BY <1>0, <1>5, AnsweredFrom
  <2>2. QED BY <1>3, <1>5, <2>1
<1>7. \A j \in In(table) : inf[j].key = epoch'[inf[j].srv] => inf[j].addr \in alloc'[inf[j].srv]
  <2> SUFFICES ASSUME NEW j \in In(table), inf[j].key = epoch[inf[j].srv]
               PROVE  inf[j].addr \in alloc'[inf[j].srv]
    BY <1>1
  <2>1. inf[j].srv \in Server /\ inf[j].addr \in alloc[inf[j].srv]
    BY <1>0 DEF Table
  <2>2. alloc' = [alloc EXCEPT ![s] = IF Allowed(s, w) THEN alloc[s] \ {w.b} ELSE alloc[s]]
    BY <1>2 DEF ServeFree
  <2>3. CASE inf[j].srv # s \/ ~Allowed(s, w)
    BY <1>0, <2>1, <2>2, <2>3
  <2>4. CASE inf[j].srv = s /\ Allowed(s, w)
    <3>1. inf[at].key = epoch[s]
      BY <1>3, <2>4 DEF Allowed, KeyAt
    <3>2. Alone(s, inf[at].addr, inf[at].key)
      BY <1>0, <1>3 DEF HeldStruct, Freeing
    <3>3. inf[j].addr # w.b
      BY <1>3, <2>4, <3>1, <3>2 DEF Alone
    <3>4. QED BY <1>0, <2>1, <2>2, <2>4, <3>3
  <2>5. QED BY <2>3, <2>4
<1>8. \A t \in Server : epoch[t] =< epoch'[t]
  BY <1>0, <1>1
<1>9. QED BY <1>1, <1>3, <1>4, <1>6, <1>7, <1>8, NetStep

LEMMA ServeSendRest ==
    ASSUME IInv, Books, Whole, Shape', NEW s \in Server, ServeSend(s)
    PROVE  Rest'
<1>0. /\ Shape /\ Table /\ Typed /\ Outstanding(Every) /\ Sound(Every)
      /\ alloc \in [Server -> SUBSET Block] /\ epoch \in [Server -> Nat]
  BY GoodFacts DEF Shape
<1>1. UNCHANGED <<call, st, sat, works, pc, at, who, smr, inf, table, alloc, epoch, wire, hand, buf>>
  BY DEF ServeSend, threadVars, tableVars, poolVars
<1>2. \A t \in Server : In(inbox'[t]) \subseteq In(inbox[t])
  BY <1>0, LeftBy DEF ServeSend
<1>3. PICK y : Answer(s, y) /\ y.m = "send"
  <2>1. PICK y, c : c = Head(inbox[s]).c /\ y = [m |-> "send", c |-> c]
    OBVIOUS
  <2>2. Answer(s, y) /\ y.m = "send"
    BY <2>1 DEF ServeSend
  <2>3. QED BY <2>2
<1>4. \A t \in Server : \A x \in In(back'[t]) : x.m \in {"malloc", "free"} => x \in In(back[t])
  <2> TAKE t \in Server
  <2>1. In(back'[t]) \subseteq In(back[t]) \cup {y}
    BY <1>0, <1>3, AnsweredFrom
  <2>2. QED BY <1>3, <2>1
<1>5. \A j \in In(table) : inf[j].key = epoch'[inf[j].srv] => inf[j].addr \in alloc'[inf[j].srv]
  BY <1>0, <1>1 DEF Table
<1>6. \A t \in Server : epoch[t] =< epoch'[t]
  BY <1>0, <1>1
<1>7. QED BY <1>1, <1>2, <1>4, <1>5, <1>6, NetStep

LEMMA CompleteRest ==
    ASSUME IInv, Books, Whole, Shape', NEW s \in Server, Complete(s)
    PROVE  Rest'
<1>0. /\ Shape /\ Table /\ Typed /\ Outstanding(Every) /\ Sound(Every)
      /\ alloc \in [Server -> SUBSET Block] /\ epoch \in [Server -> Nat]
  BY GoodFacts DEF Shape
<1>1. UNCHANGED <<call, st, sat, works, pc, at, who, smr, inf, table, alloc, epoch, wire, inbox, buf>>
  BY DEF Complete, callVars, threadVars, tableVars, poolVars, serverVars
<1>2. \A t \in Server : In(back'[t]) \subseteq In(back[t])
  BY <1>0, LeftBy DEF Complete
<1>3. hand' \in In(back[s])
  BY <1>0, LeftBy DEF Complete
<1>4. \A j \in In(table) : inf[j].key = epoch'[inf[j].srv] => inf[j].addr \in alloc'[inf[j].srv]
  BY <1>0, <1>1 DEF Table
<1>5. \A t \in Server : epoch[t] =< epoch'[t]
  BY <1>0, <1>1
<1>6. QED BY <1>1, <1>2, <1>3, <1>4, <1>5, NetStep

\* A server that fails starts with another key.
LEMMA LoseRest ==
    ASSUME IInv, Books, Whole, Shape', NEW s \in Server, Lose(s)
    PROVE  Rest'
<1>0. /\ Shape /\ Table /\ Typed /\ Outstanding(Every) /\ Sound(Every)
      /\ alloc \in [Server -> SUBSET Block] /\ epoch \in [Server -> Nat]
  BY GoodFacts DEF Shape
<1>1. UNCHANGED <<call, st, sat, works, pc, at, who, smr, inf, table, hand, buf>>
  BY DEF Lose, callVars, threadVars, tableVars, poolVars
<1>2. \A t \in Server : /\ In(wire'[t]) \subseteq In(wire[t]) /\ In(inbox'[t]) \subseteq In(inbox[t])
                        /\ In(back'[t]) \subseteq In(back[t])
  BY <1>0, LostFrom
<1>3. \/ alloc' = [alloc EXCEPT ![s] = {}] /\ epoch' = [epoch EXCEPT ![s] = @ + 1]
      \/ UNCHANGED <<alloc, epoch>>
  BY DEF Lose, serverVars
<1>4. \A t \in Server : epoch[t] =< epoch'[t] /\ (epoch'[t] = epoch[t] => alloc'[t] = alloc[t])
                        /\ epoch[t] \in Nat /\ epoch'[t] \in Nat
  BY <1>0, <1>3
<1>5. \A j \in In(table) : inf[j].key = epoch'[inf[j].srv] => inf[j].addr \in alloc'[inf[j].srv]
  <2> TAKE j \in In(table)
  <2> HAVE inf[j].key = epoch'[inf[j].srv]
  <2>1. PICK t \in Server : t = inf[j].srv
    BY <1>0 DEF Table
  <2>2. inf[j].key =< epoch[t] /\ (inf[j].key = epoch[t] => inf[j].addr \in alloc[t])
    BY <1>0, <2>1 DEF Table
  <2>3. epoch'[t] = epoch[t]
    BY <1>4, <2>1, <2>2
  <2>4. QED BY <1>4, <2>1, <2>2, <2>3
<1>6. pc = "await_malloc" /\ epoch'[MyCall.srv] = epoch[MyCall.srv] =>
        alloc[MyCall.srv] \subseteq alloc'[MyCall.srv]
  <2> HAVE pc = "await_malloc" /\ epoch'[MyCall.srv] = epoch[MyCall.srv]
  <2>1. MyCall.srv \in Server
    BY GoodFacts, MyCallFacts, RequestFacts
  <2>2. QED BY <1>4, <2>1
<1>7. \A t \in Server : epoch[t] =< epoch'[t]
  BY <1>4
<1>8. QED BY <1>1, <1>2, <1>5, <1>6, <1>7, NetStep

LEMMA OtherRest ==
    ASSUME IInv, Books, Whole, Shape',
           Reconnect \/ Recovered \/ UNCHANGED vars \/ HandleWrite \/ HandleRead
    PROVE  Rest'
<1>0. /\ Shape /\ Table
      /\ alloc \in [Server -> SUBSET Block] /\ epoch \in [Server -> Nat]
  BY GoodFacts DEF Shape
<1>1. UNCHANGED <<call, st, sat, works, pc, at, who, smr, inf, table, alloc, epoch, wireVars, buf>>
  BY DEF Reconnect, Recovered, HandleWrite, HandleRead, vars, callVars, threadVars, tableVars, poolVars,
         serverVars
<1>2. hand'.m = "malloc" => hand' = hand
  <2>1. hand' = hand \/ \E i : hand' = [m |-> "written", i |-> i] \/ hand' = Idle
    BY DEF Reconnect, Recovered, HandleWrite, HandleRead, vars
  <2>2. \A i : [m |-> "written", i |-> i].m # "malloc"
    OBVIOUS
  <2>3. Idle.m # "malloc"
    BY DEF Idle
  <2>4. QED BY <2>1, <2>2, <2>3
<1>3. \A j \in In(table) : inf[j].key = epoch'[inf[j].srv] => inf[j].addr \in alloc'[inf[j].srv]
  BY <1>0, <1>1 DEF Table
<1>4. \A t \in Server : epoch[t] =< epoch'[t]
  BY <1>0, <1>1
<1>5. QED BY <1>1, <1>2, <1>3, <1>4, NetStep DEF wireVars

LEMMA FlagsRest ==
    ASSUME IInv, Books, Whole, Shape', HandleWritten \/ HandleSend
    PROVE  Rest'
<1>0. /\ Shape /\ Table /\ Typed
      /\ alloc \in [Server -> SUBSET Block] /\ epoch \in [Server -> Nat]
  BY GoodFacts DEF Shape
<1>1. UNCHANGED <<call, sat, works, pc, at, who, smr, table, alloc, epoch, wireVars, buf>>
  BY DEF HandleWritten, HandleSend, callVars, threadVars, tableVars, poolVars, serverVars
<1>2. hand'.m # "malloc"
  BY DEF HandleWritten, HandleSend, Idle
<1>3. \A j \in In(table) : inf[j].key = epoch'[inf[j].srv] => inf[j].addr \in alloc'[inf[j].srv]
  BY <1>0, <1>1 DEF Table
<1>4. \A t \in Server : epoch[t] =< epoch'[t]
  BY <1>0, <1>1
<1>5. \A j \in Info : inf[j].live => Alike(inf'[j], inf[j])
  <2>1. CASE inf' = inf
    BY <2>1 DEF Alike
  <2>2. CASE HandleWritten
    BY <1>0, <2>2, FlagStep
  <2>3. QED BY <2>1, <2>2 DEF HandleSend, tableVars
<1>6. Table' /\ HeldStruct' /\ UsedEntry' /\ Messages' /\ (Early' \subseteq Early => EarlyStructs')
  BY <1>1, <1>2, <1>3, <1>4, <1>5, SmoothStep DEF wireVars
<1>7. \A c \in Caller : st'[c] = "waiting" => st[c] = "waiting"
  <2>1. st' = st \/ st' = [st EXCEPT ![hand.c] = "received"]
    BY DEF HandleWritten, HandleSend, callVars
  <2>2. QED BY <1>0, <2>1 DEF Typed
<1>8. Early' \subseteq Early
  BY <1>1, <1>7, EarlyLess
<1>9. QED BY <1>6, <1>8 DEF Rest
-----------------------------------------------------------------------------
(* Steps after which nothing of the thread's is on the way.                *)

LEMMA NoWorksThen ==
    Sound(Every) /\ Outstanding(Every) /\ ThreadDue(Every) = {} => NoWorks /\ Messages
  BY NoWorksAbout, NoWorksMessages

LEMMA NoWorksNext ==
    (Sound(Every) /\ Outstanding(Every) /\ ThreadDue(Every) = {} => NoWorks /\ Messages)'
  BY NoWorksThen, PTL

LEMMA SoundThen ==
    IInv /\ Shape /\ EarlyStructs /\ HeldStruct /\ Whole => Sound(Every)
<1> SUFFICES ASSUME IInv, Shape, EarlyStructs, HeldStruct, Whole PROVE Sound(Every)
  OBVIOUS
<1>1. pc = "malloc" => sat[who] \in Info /\ ~inf[sat[who]].len
  <2> HAVE pc = "malloc"
  <2>1. who \in Early
    BY MyCallFacts, PlaceTells DEF Early, IInv
  <2>2. QED BY <2>1 DEF EarlyStructs
<1>2. pc = "free_post" => inf[at].addr # Null
  BY DEF HeldStruct
<1>3. QED BY <1>1, <1>2 DEF Sound, Readable, Shape

LEMMA SoundNext ==
    (IInv /\ Shape /\ EarlyStructs /\ HeldStruct /\ Whole => Sound(Every))'
  BY SoundThen, PTL

LEMMA EveryNext ==
    ASSUME IInv, Books, Whole, Whole', [Next]_vars
    PROVE  Outstanding(Every)'
<1>1. Sound(Every) /\ Typed /\ WorkIsLive /\ Outstanding(Every)
  BY GoodFacts
<1>2. QED BY <1>1, MarksNext

LEMMA QuietAfter ==
    ASSUME IInv, Books, Whole, Whole', [Next]_vars, Shape', EarlyStructs', HeldStruct',
           ThreadDue(Every)' = {}
    PROVE  Messages'
  BY NextHolds, EveryNext, SoundNext, NoWorksNext

\* What the thread has of a caller who waits for a malloc.
LEMMA EarlyWho ==
    ASSUME IInv, Books, Whole, pc = "malloc"
    PROVE  who \in Early
<1>1. Typed /\ WorkIsLive /\ Calls
  BY GoodFacts
<1>2. QED BY <1>1, MyCallFacts, PlaceTells DEF Early

\* An answer to a malloc or a free, or an error: the thread then goes on.
LEMMA HandlerRest ==
    ASSUME IInv, Books, Whole, Whole', [Next]_vars, Shape',
           HandleMalloc \/ HandleKeys \/ HandleError \/ HandleNull
    PROVE  Rest'
<1>0. /\ Typed /\ WorkIsLive /\ Calls /\ Shape /\ Table /\ EarlyStructs
      /\ HeldStruct /\ UsedEntry /\ Outstanding(Every)
      /\ epoch \in [Server -> Nat]
  BY GoodFacts DEF Shape
<1>1. UNCHANGED <<call, st, sat, works, pc, at, who, smr, flags, table, wireVars, alloc, epoch>>
  BY DEF HandleMalloc, HandleKeys, HandleError, HandleNull, callVars, threadVars, serverVars
<1>2. /\ at \in Info /\ hand' = Idle
      /\ \A j \in Info : j # at => inf'[j] = inf[j]
      /\ inf'[at].live = inf[at].live /\ inf'[at].srv = inf[at].srv
      /\ \/ /\ pc = "await_malloc" /\ inf'[at].len /\ inf'[at].keyed
            /\ inf'[at].addr \in Block /\ Given(MyCall.srv, inf'[at].addr, inf'[at].key)
         \/ /\ pc = "await_malloc" /\ inf'[at].len /\ inf'[at].addr = Null
         \/ /\ pc = "await_free" /\ inf'[at].addr = Null
  BY HandlerStruct
<1>3. Held /\ at \notin In(table)
  BY <1>0, <1>2 DEF Held, HeldStruct
<1>4. \A j \in In(table) : j \in Info /\ j # at /\ inf'[j] = inf[j]
  BY <1>0, <1>2, <1>3, InTable
<1>5. EntriesStay
  BY <1>0, <1>1, <1>4 DEF EntriesStay, Alike
<1>6. Table'
  <2>1. \A j \in In(table) : inf[j].key = epoch'[inf[j].srv] => inf[j].addr \in alloc'[inf[j].srv]
    BY <1>0, <1>1 DEF Table
  <2>2. QED BY <1>0, <1>5, <2>1, TableStays
<1>7. EarlyStructs'
  <2>1. Early' \subseteq Early /\ In(table)' = In(table)
    BY <1>1 DEF Early, In
  <2>2. \A c \in Early : sat[c] \in Info /\ sat[c] # at
    BY <1>0, <1>3 DEF EarlyStructs
  <2>3. \A c \in Early : sat'[c] = sat[c] /\ call'[c] = call[c] /\ Alike(inf'[sat[c]], inf[sat[c]])
    BY <1>1, <1>2, <2>2 DEF Alike
  <2>4. Held' => \A c \in Early : sat[c] # at'
    BY <1>1, <2>2
  <2>5. QED BY <1>0, <2>1, <2>3, <2>4, EarlyStay
<1>8. HeldStruct'
  <2>1. MyCall' = MyCall /\ In(table)' = In(table)
    BY <1>1 DEF MyCall, In
  <2>2. \A b, k : Given(MyCall.srv, b, k) => Given(MyCall.srv, b, k)'
    <3> TAKE b, k
    <3>1. MyCall.srv \in Server
      BY <1>0, <1>2, MyCallFacts, RequestFacts
    <3>2. PICK s \in Server : s = MyCall.srv /\ s = MyCall'.srv
      BY <2>1, <3>1
    <3>3. Given(s, b, k) => Given(s, b, k)'
      <4>1. Given(s, b, k) => (k = epoch'[s] => b \in alloc'[s])
        BY <1>1 DEF Given
      <4>2. QED BY <1>0, <1>5, <4>1, GivenStays
    <3>4. QED BY <3>2, <3>3 DEF Given, Alone
  <2>3. CASE pc = "await_malloc" /\ inf'[at].len /\ inf'[at].keyed /\ inf'[at].addr \in Block
             /\ Given(MyCall.srv, inf'[at].addr, inf'[at].key)
    <3>1. PICK b, k : b = inf'[at].addr /\ k = inf'[at].key
      OBVIOUS
    <3>2. Given(MyCall.srv, b, k)'
      BY <2>2, <2>3, <3>1
    <3>3. Given(MyCall.srv, inf[at].addr, inf[at].key)'
      BY <1>1, <3>1, <3>2
    <3>4. QED BY <1>0, <1>1, <1>2, <1>3, <2>1, <2>3, <3>3 DEF HeldStruct, Held, Freeing
  <2>4. CASE pc = "await_malloc" /\ inf'[at].len /\ inf'[at].addr = Null
    BY <1>0, <1>1, <1>2, <1>3, <2>1, <2>4 DEF HeldStruct, Held, Freeing
  <2>5. CASE pc = "await_free" /\ inf'[at].addr = Null
    BY <1>0, <1>1, <1>2, <1>3, <2>1, <2>5 DEF HeldStruct, Held, Freeing
  <2>6. QED BY <1>2, <2>3, <2>4, <2>5
<1>9. UsedEntry'
  BY <1>0, <1>1, <1>5, UsedStay
<1>10. ThreadDue(Every)' = {}
  BY <1>1, <1>2 DEF ThreadDue
<1>11. Messages'
  BY <1>7, <1>8, <1>10, QuietAfter
<1>12. QED BY <1>6, <1>7, <1>8, <1>9, <1>11 DEF Rest

\* An entry is taken out of the table.
LEMMA TableDrop ==
    ASSUME Shape, Table, NEW k \in DOMAIN table, table' = Drop(table, k), UNCHANGED <<inf, epoch, alloc>>
    PROVE  /\ Table' /\ In(table)' \subseteq In(table) /\ table[k] \notin In(table)'
           /\ \A j \in In(table)' : ~(/\ inf[j].srv = inf[table[k]].srv /\ inf[j].addr = inf[table[k]].addr
                                      /\ inf[j].key = inf[table[k]].key)
<1>0. table \in Seq(Info)
  BY DEF Table
<1>1. /\ table' \in Seq(Info) /\ DOMAIN table = 1 .. Len(table) /\ Len(table) \in Nat
      /\ DOMAIN table' = 1 .. Len(table) - 1
      /\ \A n \in DOMAIN table' : /\ Shift(n, k) \in DOMAIN table /\ Shift(n, k) # k
                                  /\ table'[n] = table[Shift(n, k)]
      /\ \A m, n \in DOMAIN table' : m < n => Shift(m, k) < Shift(n, k)
  BY <1>0, DropFacts
<1>2. In(table)' \subseteq In(table)
  BY <1>1 DEF In
<1>3. table[k] \notin In(table)'
  BY <1>1 DEF In, Table
<1>4. \A j, m \in DOMAIN table' : table'[j] = table'[m] => j = m
  <2> TAKE j, m \in DOMAIN table'
  <2> HAVE table'[j] = table'[m]
  <2>1. Shift(j, k) = Shift(m, k)
    BY <1>1 DEF Table
  <2>2. j \in Nat /\ m \in Nat /\ Shift(j, k) \in Nat /\ Shift(m, k) \in Nat
    BY <1>1
  <2>3. ~(j < m) /\ ~(m < j)
    BY <1>1, <2>1, <2>2
  <2>4. QED BY <2>2, <2>3
<1>5. \A j \in In(table)' : /\ inf[j].live /\ inf[j].srv \in Server /\ inf[j].addr \in Block
                            /\ inf[j].keyed /\ inf[j].key =< epoch[inf[j].srv]
                            /\ inf[j].key = epoch[inf[j].srv] => inf[j].addr \in alloc[inf[j].srv]
  BY <1>2 DEF Table
<1>6. \A j, m \in DOMAIN table' : j < m /\ inf[table'[j]].srv = inf[table'[m]].srv =>
          /\ inf[table'[j]].key >= inf[table'[m]].key
          /\ inf[table'[j]].key = inf[table'[m]].key => inf[table'[j]].addr # inf[table'[m]].addr
  <2> TAKE j, m \in DOMAIN table'
  <2>1. PICK p \in DOMAIN table : p = Shift(j, k) /\ table'[j] = table[p]
    BY <1>1
  <2>2. PICK q \in DOMAIN table : q = Shift(m, k) /\ table'[m] = table[q]
    BY <1>1
  <2>3. j < m => p < q
    BY <1>1, <2>1, <2>2
  <2>4. QED BY <2>1, <2>2, <2>3 DEF Table
<1>7. \A j \in In(table)' : ~(/\ inf[j].srv = inf[table[k]].srv /\ inf[j].addr = inf[table[k]].addr
                              /\ inf[j].key = inf[table[k]].key)
  <2> TAKE j \in In(table)'
  <2>1. PICK n \in DOMAIN table' : j = table'[n]
    BY DEF In
  <2>2. PICK p \in DOMAIN table : p # k /\ j = table[p]
    BY <1>1, <2>1
  <2>3. p < k \/ k < p
    BY <1>1, <2>2
  <2>4. inf[j].key \in Nat /\ inf[table[k]].key \in Nat
    BY <1>2, InTable
  <2>5. CASE p < k
    BY <2>2, <2>4, <2>5 DEF Table
  <2>6. CASE k < p
    BY <2>2, <2>4, <2>6 DEF Table
  <2>7. QED BY <2>3, <2>5, <2>6
<1>8. Table'
  <2>1. inf' = inf /\ epoch' = epoch /\ alloc' = alloc
    OBVIOUS
  <2>2. \A j \in In(table)' : /\ inf'[j].live /\ inf'[j].srv \in Server /\ inf'[j].addr \in Block
                              /\ inf'[j].keyed /\ inf'[j].key =< epoch'[inf'[j].srv]
                              /\ inf'[j].key = epoch'[inf'[j].srv] => inf'[j].addr \in alloc'[inf'[j].srv]
    BY <1>5, <2>1
  <2>3. \A j, m \in DOMAIN table' : j < m /\ inf'[table'[j]].srv = inf'[table'[m]].srv =>
          /\ inf'[table'[j]].key >= inf'[table'[m]].key
          /\ inf'[table'[j]].key = inf'[table'[m]].key => inf'[table'[j]].addr # inf'[table'[m]].addr
    BY <1>6, <2>1
  <2>4. table' \in Seq(Info)
    BY <1>1
  <2>5. QED BY <1>4, <2>2, <2>3, <2>4 DEF Table
<1>9. QED BY <1>2, <1>3, <1>7, <1>8

\* An entry for what the server gave is put in front.
LEMMA TablePush ==
    ASSUME Shape, Table, NEW i \in Info, i \notin In(table), table' = <<i>> \o table,
           \A j \in In(table) : inf'[j] = inf[j], Alike(inf'[i], inf[i]), UNCHANGED <<epoch, alloc>>,
           inf[i].live, inf[i].keyed, inf[i].srv \in Server,
           Given(inf[i].srv, inf[i].addr, inf[i].key)
    PROVE  Table' /\ In(table)' \subseteq In(table) \cup {i}
<1>0. table \in Seq(Info)
  BY DEF Table
<1>1. /\ table' \in Seq(Info) /\ Len(table) \in Nat /\ DOMAIN table = 1 .. Len(table)
      /\ DOMAIN table' = 1 .. Len(table) + 1 /\ table'[1] = i
      /\ \A n \in DOMAIN table' : n = 1 \/ (n - 1 \in DOMAIN table /\ table'[n] = table[n - 1])
  BY <1>0, PushFacts
<1>2. In(table)' \subseteq In(table) \cup {i}
  BY <1>1 DEF In
<1>3. \A j, m \in DOMAIN table' : table'[j] = table'[m] => j = m
  <2> TAKE j, m \in DOMAIN table'
  <2> HAVE table'[j] = table'[m]
  <2>1. \A n \in DOMAIN table : table[n] # i
    BY DEF In
  <2>2. CASE j = 1 \/ m = 1
    BY <1>1, <2>1, <2>2
  <2>3. CASE j # 1 /\ m # 1
    <3>1. j - 1 = m - 1
      BY <1>1, <2>3 DEF Table
    <3>2. QED BY <1>1, <3>1
  <2>4. QED BY <2>2, <2>3
<1>4. \A j \in In(table)' : /\ inf'[j].live /\ inf'[j].srv \in Server /\ inf'[j].addr \in Block
                            /\ inf'[j].keyed /\ inf'[j].key =< epoch[inf'[j].srv]
                            /\ inf'[j].key = epoch[inf'[j].srv] => inf'[j].addr \in alloc[inf'[j].srv]
  <2> TAKE j \in In(table)'
  <2>1. CASE j = i
    BY <2>1 DEF Alike, Given
  <2>2. CASE j \in In(table)
    BY <2>2 DEF Table
  <2>3. QED BY <1>2, <2>1, <2>2
<1>5. \A j, m \in DOMAIN table' : j < m /\ inf'[table'[j]].srv = inf'[table'[m]].srv =>
          /\ inf'[table'[j]].key >= inf'[table'[m]].key
          /\ inf'[table'[j]].key = inf'[table'[m]].key => inf'[table'[j]].addr # inf'[table'[m]].addr
  <2> TAKE j, m \in DOMAIN table'
  <2> HAVE j < m /\ inf'[table'[j]].srv = inf'[table'[m]].srv
  <2>1. PICK q \in DOMAIN table : q = m - 1 /\ table'[m] = table[q]
    BY <1>1
  <2>2. table[q] \in In(table) /\ inf'[table[q]] = inf[table[q]] /\ inf[table[q]].key \in Nat
    BY <2>1, InTable
  <2>3. CASE j = 1
    <3>1. inf[table[q]].srv = inf[i].srv
      BY <1>1, <2>1, <2>2, <2>3 DEF Alike
    <3>2. /\ inf[table[q]].key =< inf[i].key
          /\ ~(inf[table[q]].addr = inf[i].addr /\ inf[table[q]].key = inf[i].key)
          /\ inf[i].key \in Nat
      BY <2>2, <3>1 DEF Given, Alone
    <3>3. QED BY <1>1, <2>1, <2>2, <2>3, <3>2 DEF Alike
  <2>4. CASE j # 1
    <3>1. PICK p \in DOMAIN table : p = j - 1 /\ table'[j] = table[p]
      BY <1>1, <2>4
    <3>2. p < q /\ inf'[table[p]] = inf[table[p]]
      BY <1>1, <2>1, <3>1 DEF In
    <3>3. QED BY <2>1, <2>2, <3>1, <3>2 DEF Table
  <2>5. QED BY <2>3, <2>4
<1>6. Table'
  BY <1>1, <1>3, <1>4, <1>5 DEF Table
<1>7. QED BY <1>2, <1>6
-----------------------------------------------------------------------------
(* The steps of the work thread.                                           *)

\* The steps by which it neither changes the books nor looks anything up.
LEMMA PlainRest ==
    ASSUME IInv, Books, Whole, Whole', [Next]_vars, Shape',
           TakeWork \/ AwaitRead \/ WriteCheck \/ AwaitWrite \/ Finish
    PROVE  Rest'
<1>0. /\ Typed /\ WorkIsLive /\ Calls /\ Shape /\ Table /\ EarlyStructs
      /\ HeldStruct /\ UsedEntry /\ Outstanding(Every)
      /\ epoch \in [Server -> Nat]
  BY GoodFacts DEF Shape
<1>1. UNCHANGED <<call, sat, inf, table, epoch, alloc>>
  BY DEF TakeWork, AwaitRead, WriteCheck, AwaitWrite, Finish, callVars, tableVars, serverVars
<1>2. EntriesStay
  BY <1>0, <1>1 DEF EntriesStay, Alike
<1>3. Table'
  <2>1. \A j \in In(table) : inf[j].key = epoch'[inf[j].srv] => inf[j].addr \in alloc'[inf[j].srv]
    BY <1>0, <1>1 DEF Table
  <2>2. QED BY <1>0, <1>2, <2>1, TableStays
<1>4. Early' \subseteq Early
  <2>1. CASE TakeWork
    <3>1. /\ who' = Head(works) /\ pc' = call[Head(works)].op /\ works' = Tail(works) /\ st' = st
          /\ works # <<>>
      BY <2>1 DEF TakeWork, callVars
    <3>2. /\ Head(works) = works[1] /\ 1 \in DOMAIN works
          /\ \A n \in DOMAIN Tail(works) : n + 1 \in DOMAIN works /\ Tail(works)[n] = works[n + 1]
      BY <1>0, <3>1, WorksTail
    <3>3. ASSUME NEW c \in Early' PROVE c \in Early
      <4>1. c \in Caller /\ st[c] = "waiting" /\ call[c].op = "malloc"
        BY <1>1, <3>1 DEF Early
      <4>2. (\E n \in DOMAIN works' : works'[n] = c) \/ who' = c
        BY DEF Early
      <4>3. \E n \in DOMAIN works : works[n] = c
        BY <3>1, <3>2, <4>2
      <4>4. QED BY <4>1, <4>3 DEF Early
    <3>4. QED BY <3>3
  <2>2. CASE ~TakeWork
    <3>1. pc' # "malloc" /\ works' = works
      BY <2>2 DEF AwaitRead, WriteCheck, AwaitWrite, Finish, Goto, callVars
    <3>2. \A c \in Caller : st'[c] = "waiting" => st[c] = "waiting"
      <4>1. st' = st \/ st' = [st EXCEPT ![who] = "done"]
        BY <2>2 DEF AwaitRead, WriteCheck, AwaitWrite, Finish, callVars
      <4>2. QED BY <1>0, <4>1 DEF Typed
    <3>3. QED BY <1>1, <3>1, <3>2, EarlyLess
  <2>3. QED BY <2>1, <2>2
<1>5. ~Held'
  <2>1. CASE TakeWork
    <3>1. /\ pc' = call[Head(works)].op /\ works # <<>>
      BY <2>1 DEF TakeWork
    <3>2. st[Head(works)] = "waiting" /\ Head(works) \in Caller
      BY <1>0, <3>1, WorksTail DEF WorkIsLive
    <3>3. QED BY <1>0, <3>1, <3>2 DEF Calls, Worked, Transfers, Held
  <2>2. QED BY <2>1 DEF AwaitRead, WriteCheck, AwaitWrite, Finish, Goto, Held
<1>6. EarlyStructs'
  <2>1. In(table)' = In(table)
    BY <1>1 DEF In
  <2>2. \A c \in Early : sat'[c] = sat[c] /\ call'[c] = call[c] /\ Alike(inf'[sat[c]], inf[sat[c]])
    BY <1>1 DEF Alike
  <2>3. QED BY <1>0, <1>4, <1>5, <2>1, <2>2, EarlyStay
<1>7. HeldStruct'
  BY <1>5 DEF HeldStruct, Held, Freeing
<1>8. UsedEntry'
  <2>1. CASE WriteCheck
    <3>1. pc = "write_spin" /\ UNCHANGED <<at, who>>
      BY <2>1 DEF WriteCheck
    <3>2. MyCall' = MyCall /\ In(table)' = In(table)
      BY <1>1, <3>1 DEF MyCall, In
    <3>3. QED BY <1>0, <1>1, <3>1, <3>2 DEF UsedEntry, Using
  <2>2. CASE TakeWork
    <3>1. /\ pc' = call[Head(works)].op /\ works # <<>>
      BY <2>2 DEF TakeWork
    <3>2. st[Head(works)] = "waiting" /\ Head(works) \in Caller
      BY <1>0, <3>1, WorksTail DEF WorkIsLive
    <3>3. QED BY <1>0, <3>1, <3>2 DEF Calls, Worked, Transfers, UsedEntry, Using
  <2>3. CASE AwaitRead \/ AwaitWrite \/ Finish
    BY <2>3 DEF AwaitRead, AwaitWrite, Finish, Goto, UsedEntry, Using
  <2>4. QED BY <2>1, <2>2, <2>3
<1>9. ThreadDue(Every)' = {}
  <2>1. CASE TakeWork
    <3>1. /\ pc' = call[Head(works)].op /\ works # <<>>
      BY <2>1 DEF TakeWork
    <3>2. st[Head(works)] = "waiting" /\ Head(works) \in Caller
      BY <1>0, <3>1, WorksTail DEF WorkIsLive
    <3>3. QED BY <1>0, <3>1, <3>2 DEF Calls, Worked, Transfers, ThreadDue
  <2>2. QED BY <2>1 DEF AwaitRead, WriteCheck, AwaitWrite, Finish, Goto, ThreadDue
<1>10. Messages'
  BY <1>6, <1>7, <1>9, QuietAfter
<1>11. QED BY <1>3, <1>6, <1>7, <1>8, <1>10 DEF Rest

\* The thread posts a message.
LEMMA MessagePosted ==
    ASSUME Typed, Outstanding(Every), NoWorks, MyCall' = MyCall, UNCHANGED <<inbox, back, hand>>,
           NEW x, NEW y, y.m = "check",
           Post(MyCall.srv, <<x>>) \/ Post(MyCall.srv, <<x, y>>) \/ wire' = wire,
           x.m = "free" => x.b = inf'[at'].addr /\ x.key = KeyAt',
           x.m \in Transfers => x.b = MyCall.blk /\ x.key = KeyAt',
           x.m = "write" => buf'[smr'].data = MyCall.val
    PROVE  Messages'
<1>1. \A s \in Server : \A z \in In(wire'[s]) : z.m \in Worked => s = MyCall.srv /\ z = x
  <2> TAKE s \in Server
  <2>1. CASE wire' = wire
    BY <2>1 DEF NoWorks
  <2>2. CASE wire' # wire
    <3>1. In(wire'[s]) \subseteq In(wire[s]) \cup (IF s = MyCall.srv THEN {x, y} ELSE {})
      BY <2>2, PostedFrom
    <3>2. y.m \notin Worked
      BY DEF Worked, Transfers
    <3>3. QED BY <3>1, <3>2 DEF NoWorks
  <2>3. QED BY <2>1, <2>2
<1>2. \A s \in Server : \A z \in In(inbox'[s]) \cup In(back'[s]) : z.m \notin Worked
  BY DEF NoWorks
<1>3. hand'.m \notin Worked
  BY DEF NoWorks
<1>4. \A s \in Server : \A z \in In(wire'[s]) \cup In(inbox'[s]) :
         /\ z.m \in Worked => s = MyCall'.srv
         /\ z.m = "free" => z.b = inf'[at'].addr /\ z.key = KeyAt'
         /\ z.m \in Transfers => z.b = MyCall'.blk /\ z.key = KeyAt'
  <2> TAKE s \in Server
  <2> TAKE z \in In(wire'[s]) \cup In(inbox'[s])
  <2>1. CASE z.m \in Worked
    <3>1. z = x /\ s = MyCall.srv
      BY <1>1, <1>2, <2>1
    <3>2. QED BY <3>1
  <2>2. CASE z.m \notin Worked
    BY <2>2 DEF Worked, Transfers
  <2>3. QED BY <2>1, <2>2
<1>5. \A s \in Server : \A z \in In(wire'[s]) : z.m = "write" => buf'[smr'].data = MyCall'.val
  BY <1>1 DEF Worked, Transfers
<1>6. \A s \in Server : \A z \in In(back'[s]) : z.m \notin {"malloc", "free"}
  BY <1>2 DEF Worked
<1>7. hand'.m # "malloc"
  BY <1>3 DEF Worked
<1>8. QED BY <1>4, <1>5, <1>6, <1>7 DEF Messages

LEMMA NoneBefore ==
    ASSUME IInv, Books, Whole,
           pc \notin {"await_read", "await_write", "await_free", "await_malloc"}
    PROVE  NoWorks
  BY GoodFacts, ThreadIsFree, NoWorksAbout

LEMMA PostMallocRest ==
    ASSUME IInv, Books, Whole, Shape', PostMalloc
    PROVE  Rest'
<1>0. /\ Typed /\ WorkIsLive /\ Calls /\ Shape /\ Table /\ EarlyStructs
      /\ HeldStruct /\ UsedEntry /\ Outstanding(Every)
      /\ epoch \in [Server -> Nat]
  BY GoodFacts DEF Shape
<1>1. /\ UNCHANGED <<call, st, sat, works, who, inf, table, epoch, alloc, inbox, back, hand>>
      /\ at' = sat[who] /\ pc' = "await_malloc" /\ pc = "malloc"
  BY DEF PostMalloc, callVars, tableVars, serverVars, Goto
<1>2. EntriesStay
  BY <1>0, <1>1 DEF EntriesStay, Alike
<1>3. Table'
  <2>1. \A j \in In(table) : inf[j].key = epoch'[inf[j].srv] => inf[j].addr \in alloc'[inf[j].srv]
    BY <1>0, <1>1 DEF Table
  <2>2. QED BY <1>0, <1>2, <2>1, TableStays
<1>4. who \in Early
  BY <1>1, EarlyWho
<1>5. Early' \subseteq Early /\ \A c \in Early' : c # who
  BY <1>0, <1>1 DEF Early, WorkIsLive
<1>6. MyCall' = MyCall /\ MyCall = call[who] /\ In(table)' = In(table)
  BY <1>1 DEF MyCall, In
<1>7. EarlyStructs'
  <2>1. \A c \in Early' : sat[c] # sat[who]
    BY <1>0, <1>4, <1>5 DEF EarlyStructs
  <2>2. QED BY <1>0, <1>1, <1>5, <1>6, <2>1 DEF EarlyStructs
<1>8. HeldStruct'
  BY <1>0, <1>1, <1>4, <1>6 DEF HeldStruct, EarlyStructs, Held, Freeing
<1>9. UsedEntry'
  BY <1>1 DEF UsedEntry, Using
<1>10. Messages'
  <2>1. PICK x : x = [m |-> "malloc", i |-> sat[who]]
    OBVIOUS
  <2>2. PICK y, k : y = [m |-> "check", key |-> k]
    OBVIOUS
  <2>3. Post(MyCall.srv, <<x>>) /\ x.m = "malloc" /\ y.m = "check"
    BY <2>1, <2>2 DEF PostMalloc
  <2>4. NoWorks
    BY <1>1, NoneBefore
  <2>5. QED BY <1>0, <1>1, <1>6, <2>3, <2>4, MessagePosted DEF Transfers
<1>11. QED BY <1>3, <1>7, <1>8, <1>9, <1>10 DEF Rest

LEMMA AwaitMallocRest ==
    ASSUME IInv, Books, Whole, Whole', [Next]_vars, Shape', AwaitMalloc
    PROVE  Rest'
<1>0. /\ Typed /\ WorkIsLive /\ Calls /\ Shape /\ Table /\ EarlyStructs
      /\ HeldStruct /\ UsedEntry /\ Outstanding(Every)
      /\ epoch \in [Server -> Nat]
  BY GoodFacts DEF Shape
<1>1. /\ UNCHANGED <<call, st, sat, works, who, epoch, alloc>>
      /\ pc' = "finish" /\ pc = "await_malloc" /\ inf[at].len
  BY DEF AwaitMalloc, Take, serverVars, Goto
<1>2. /\ at \in Info
      /\ \/ inf[at].addr = Null /\ table' = table
         \/ inf[at].addr \in Block /\ Alike(inf'[at], inf[at]) /\ table' = <<at>> \o table
      /\ \A j \in Info : j # at => inf'[j] = inf[j]
  BY AwaitMallocStruct
<1>3. at \notin In(table) /\ inf[at].live /\ inf[at].srv = MyCall.srv /\ MyCall.srv \in Server
  BY <1>0, <1>1, MyCallFacts, RequestFacts DEF HeldStruct, Held
<1>4. \A j \in In(table) : inf'[j] = inf[j]
  BY <1>0, <1>2, <1>3, InTable
<1>5. Table' /\ In(table)' \subseteq In(table) \cup {at}
  <2>1. CASE table' = table
    <3>1. EntriesStay
      BY <1>0, <1>1, <1>4, <2>1 DEF EntriesStay, Alike
    <3>2. \A j \in In(table) : inf[j].key = epoch'[inf[j].srv] => inf[j].addr \in alloc'[inf[j].srv]
      BY <1>0, <1>1 DEF Table
    <3>3. Table'
      BY <1>0, <3>1, <3>2, TableStays
    <3>4. In(table)' = In(table)
      BY <2>1 DEF In
    <3>5. QED BY <3>3, <3>4
  <2>2. CASE inf[at].addr \in Block /\ Alike(inf'[at], inf[at]) /\ table' = <<at>> \o table
    <3>1. inf[at].keyed /\ Given(inf[at].srv, inf[at].addr, inf[at].key)
      <4>1. inf[at].addr # Null
        BY <2>2, BlockAssumption
      <4>2. QED BY <1>0, <1>1, <1>3, <4>1 DEF HeldStruct
    <3>2. QED BY <1>0, <1>1, <1>2, <1>3, <1>4, <2>2, <3>1, TablePush
  <2>3. QED BY <1>2, <2>1, <2>2
<1>6. Early' \subseteq Early
  BY <1>1, EarlyLess
<1>7. \A c \in Early : sat[c] \in Info /\ sat[c] # at /\ sat[c] \notin In(table)'
  BY <1>0, <1>1, <1>5 DEF EarlyStructs, Held
<1>8. EarlyStructs'
  <2>1. \A c \in Early : inf'[sat[c]] = inf[sat[c]]
    BY <1>2, <1>7
  <2>2. Held' = FALSE
    BY <1>1 DEF Held
  <2>3. QED BY <1>0, <1>1, <1>6, <1>7, <2>1, <2>2 DEF EarlyStructs
<1>9. HeldStruct' /\ UsedEntry'
  BY <1>1 DEF HeldStruct, Held, Freeing, UsedEntry, Using
<1>10. ThreadDue(Every)' = {}
  BY <1>1 DEF ThreadDue
<1>11. Messages'
  BY <1>8, <1>9, <1>10, QuietAfter
<1>12. QED BY <1>5, <1>8, <1>9, <1>11 DEF Rest

\* The entry goes before the server is asked.
LEMMA FreeLookupRest ==
    ASSUME Straight, IInv, Books, Whole, Whole', [Next]_vars, Shape', FreeLookup
    PROVE  Rest'
<1>0. /\ Typed /\ WorkIsLive /\ Calls /\ Shape /\ Table /\ EarlyStructs
      /\ HeldStruct /\ UsedEntry /\ Outstanding(Every)
      /\ epoch \in [Server -> Nat] /\ table \in Seq(Info)
  BY GoodFacts DEF Shape, Table
<1>1. /\ UNCHANGED <<call, st, sat, works, who, inf, epoch, alloc>>
      /\ pc' \in {"free_post", "finish"} /\ pc = "free"
  BY DEF FreeLookup, serverVars, Goto
<1>2. MyCall' = MyCall /\ MyCall.srv \in Server /\ MyCall.blk \in Block
  <2>1. MyCall \in Request /\ MyCall.op = "free"
    BY <1>0, <1>1, MyCallFacts, PlaceTells
  <2>2. QED BY <1>1, <2>1, RequestFacts DEF MyCall
<1>3. Early' \subseteq Early
  BY <1>1, EarlyLess
<1>4. ThreadDue(Every)' = {}
  BY <1>1 DEF ThreadDue
<1>5. CASE ~Found(MyCall.srv, MyCall.blk)
  <2>1. pc' = "finish" /\ table' = table
    BY <1>5 DEF FreeLookup, Goto
  <2>2. EntriesStay /\ In(table)' = In(table)
    BY <1>0, <1>1, <2>1 DEF EntriesStay, Alike, In
  <2>3. \A j \in In(table) : inf[j].key = epoch'[inf[j].srv] => inf[j].addr \in alloc'[inf[j].srv]
    BY <1>0, <1>1 DEF Table
  <2>4. Table'
    BY <1>0, <2>2, <2>3, TableStays
  <2>5. EarlyStructs'
    BY <1>0, <1>1, <1>3, <2>1, <2>2 DEF EarlyStructs, Held
  <2>6. HeldStruct' /\ UsedEntry'
    BY <2>1 DEF HeldStruct, Held, Freeing, UsedEntry, Using
  <2>7. QED BY <1>4, <2>4, <2>5, <2>6, QuietAfter DEF Rest
<1>6. CASE Found(MyCall.srv, MyCall.blk)
  <2>1. PICK k \in DOMAIN table : k = Entry(MyCall.srv, MyCall.blk) /\ inf[table[k]].addr = MyCall.blk
    BY <1>0, <1>6, EntryFacts
  <2>2. pc' = "free_post" /\ at' = table[k] /\ table' = Drop(table, k)
    BY <1>6, <2>1 DEF FreeLookup, Goto
  <2>3. PICK i \in In(table) : i = table[k]
    BY DEF In
  <2>4. /\ i \in Info /\ inf[i].live /\ inf[i].keyed /\ inf[i].srv = MyCall.srv
        /\ inf[i].key =< epoch[MyCall.srv] /\ inf[i].addr = MyCall.blk
    <3>1. inf[i].srv = MyCall.srv
      BY <1>6, <2>1, <2>3 DEF Straight, Foreign
    <3>2. QED BY <1>0, <2>1, <2>3, <3>1, InTable DEF Table
  <2>5. /\ Table' /\ In(table)' \subseteq In(table) /\ i \notin In(table)'
        /\ \A j \in In(table)' : ~(/\ inf[j].srv = inf[i].srv /\ inf[j].addr = inf[i].addr
                                   /\ inf[j].key = inf[i].key)
    <3>1. k \in DOMAIN table
      OBVIOUS
    <3>2. QED BY <1>0, <1>1, <2>2, <2>3, <3>1, TableDrop
  <2>6. EarlyStructs'
    <3>1. \A c \in Early : sat[c] # i
      BY <1>0, <2>3 DEF EarlyStructs
    <3>2. QED BY <1>0, <1>1, <1>3, <2>2, <2>3, <2>5, <3>1 DEF EarlyStructs
  <2>7. HeldStruct'
    <3>1. Alone(MyCall.srv, inf[i].addr, inf[i].key)'
      BY <1>1, <1>2, <2>4, <2>5 DEF Alone
    <3>2. Alone(MyCall.srv, inf[at].addr, inf[at].key)'
      BY <1>1, <2>2, <2>3, <3>1
    <3>3. inf[i].addr # Null
      BY <1>2, <2>4, BlockAssumption
    <3>4. at' = i
      BY <2>2, <2>3
    <3>5. QED BY <1>1, <1>2, <2>2, <2>4, <2>5, <3>2, <3>3, <3>4 DEF HeldStruct, Held, Freeing
  <2>8. UsedEntry'
    BY <2>2 DEF UsedEntry, Using
  <2>9. QED BY <1>4, <2>5, <2>6, <2>7, <2>8, QuietAfter DEF Rest
<1>7. QED BY <1>5, <1>6

\* Struct at is freed, which is not in the table.
LEMMA FreedRest ==
    ASSUME IInv, Books, Whole, Whole', [Next]_vars, Shape', Held, FreeInfo(at), pc' = "finish",
           UNCHANGED <<call, st, sat, works, who, table, epoch, alloc>>
    PROVE  Rest'
<1>0. /\ Typed /\ WorkIsLive /\ Calls /\ Shape /\ Table /\ EarlyStructs
      /\ HeldStruct /\ UsedEntry /\ Outstanding(Every)
      /\ epoch \in [Server -> Nat]
  BY GoodFacts DEF Shape
<1>1. at \in Info /\ at \notin In(table)
  BY <1>0 DEF HeldStruct
<1>2. \A j \in Info : j # at => inf'[j] = inf[j]
  BY <1>0, <1>1, FreedStruct
<1>3. EntriesStay /\ In(table)' = In(table)
  BY <1>0, <1>1, <1>2, InTable DEF EntriesStay, Alike, In
<1>4. Table'
  <2>1. \A j \in In(table) : inf[j].key = epoch'[inf[j].srv] => inf[j].addr \in alloc'[inf[j].srv]
    BY <1>0 DEF Table
  <2>2. QED BY <1>0, <1>3, <2>1, TableStays
<1>5. Early' \subseteq Early
  BY EarlyLess
<1>6. ~Held'
  BY DEF Held
<1>7. EarlyStructs'
  <2>1. \A c \in Early : sat[c] \in Info /\ sat[c] # at
    BY <1>0 DEF EarlyStructs
  <2>2. \A c \in Early : sat'[c] = sat[c] /\ call'[c] = call[c] /\ Alike(inf'[sat[c]], inf[sat[c]])
    BY <1>2, <2>1 DEF Alike
  <2>3. QED BY <1>0, <1>3, <1>5, <1>6, <2>2, EarlyStay
<1>8. HeldStruct' /\ UsedEntry'
  BY DEF HeldStruct, Held, Freeing, UsedEntry, Using
<1>9. ThreadDue(Every)' = {}
  BY DEF ThreadDue
<1>10. QED BY <1>4, <1>7, <1>8, <1>9, QuietAfter DEF Rest

LEMMA FreeRest ==
    ASSUME IInv, Books, Whole, Whole', [Next]_vars, Shape', FreePost \/ AwaitFree
    PROVE  Rest'
<1>0. /\ Typed /\ WorkIsLive /\ Calls /\ Shape /\ Table /\ EarlyStructs
      /\ HeldStruct /\ UsedEntry /\ Outstanding(Every)
      /\ epoch \in [Server -> Nat]
  BY GoodFacts DEF Shape
<1>1. /\ UNCHANGED <<call, st, sat, works, who, at, table, epoch, alloc>> /\ Held
  BY DEF FreePost, AwaitFree, callVars, serverVars, Held
<1>2. CASE FreeInfo(at) /\ pc' = "finish"
  BY <1>1, <1>2, FreedRest
<1>3. CASE ~(FreeInfo(at) /\ pc' = "finish")
  <2>1. /\ pc = "free_post" /\ pc' = "await_free" /\ inf' = inf /\ UNCHANGED <<inbox, back, hand>>
        /\ Post(MyCall.srv, <<[m |-> "free", i |-> at, b |-> inf[at].addr, key |-> KeyOf(at)]>>)
    BY <1>3 DEF FreePost, AwaitFree, Goto
  <2>2. MyCall' = MyCall /\ In(table)' = In(table)
    BY <1>1 DEF MyCall, In
  <2>3. EntriesStay
    BY <1>0, <1>1, <2>1 DEF EntriesStay, Alike
  <2>4. Table'
    <3>1. \A j \in In(table) : inf[j].key = epoch'[inf[j].srv] => inf[j].addr \in alloc'[inf[j].srv]
      BY <1>0, <1>1 DEF Table
    <3>2. QED BY <1>0, <2>3, <3>1, TableStays
  <2>5. EarlyStructs'
    <3>1. Early' \subseteq Early
      BY <1>1, <2>1, EarlyLess
    <3>2. QED BY <1>0, <1>1, <2>1, <2>2, <3>1 DEF EarlyStructs
  <2>6. inf[at].addr # Null /\ inf[at].keyed
    BY <1>0, <2>1 DEF HeldStruct, Freeing
  <2>7. HeldStruct'
    <3>1. \A s, b, k : Alone(s, b, k) => Alone(s, b, k)'
      BY <2>1, <2>2 DEF Alone
    <3>2. Alone(MyCall.srv, inf[at].addr, inf[at].key)
      BY <1>0, <2>1, <2>6 DEF HeldStruct, Freeing
    <3>3. PICK s, b, k : s = MyCall.srv /\ b = inf[at].addr /\ k = inf[at].key
      OBVIOUS
    <3>4. Alone(s, b, k)'
      BY <3>1, <3>2, <3>3
    <3>5. Alone(MyCall.srv, inf[at].addr, inf[at].key)'
      BY <1>1, <2>1, <2>2, <3>3, <3>4
    <3>6. QED BY <1>0, <1>1, <2>1, <2>2, <2>6, <3>5 DEF HeldStruct, Held, Freeing
  <2>8. UsedEntry'
    BY <2>1 DEF UsedEntry, Using
  <2>9. Messages'
    <3>1. PICK x : x = [m |-> "free", i |-> at, b |-> inf[at].addr, key |-> KeyOf(at)]
      OBVIOUS
    <3>2. PICK y, k : y = [m |-> "check", key |-> k]
      OBVIOUS
    <3>3. Post(MyCall.srv, <<x>>) /\ x.m = "free" /\ y.m = "check" /\ x.b = inf[at].addr /\ x.key = KeyOf(at)
      BY <2>1, <3>1, <3>2
    <3>4. KeyOf(at) = KeyAt /\ KeyAt' = KeyAt
      BY <1>1, <2>1, <2>6 DEF KeyOf, KeyAt
    <3>5. NoWorks
      BY <2>1, NoneBefore
    <3>6. QED BY <1>0, <1>1, <2>1, <2>2, <3>3, <3>4, <3>5, MessagePosted DEF Transfers
  <2>10. QED BY <2>4, <2>5, <2>7, <2>8, <2>9 DEF Rest
<1>4. QED BY <1>2, <1>3

LEMMA LookupRest ==
    ASSUME Straight, IInv, Books, Whole, Whole', [Next]_vars, Shape', Lookup
    PROVE  Rest'
<1>0. /\ Typed /\ WorkIsLive /\ Calls /\ Shape /\ Table /\ EarlyStructs
      /\ HeldStruct /\ UsedEntry /\ Outstanding(Every)
      /\ epoch \in [Server -> Nat] /\ table \in Seq(Info)
  BY GoodFacts DEF Shape, Table
<1>1. /\ UNCHANGED <<call, st, sat, works, who, inf, table, epoch, alloc>>
      /\ pc' \in {"read_spin", "write_spin", "finish"} /\ pc \in {"read", "write"}
      /\ pc' = "finish" \/ (/\ Found(MyCall.srv, MyCall.blk)
                            /\ at' = table[Entry(MyCall.srv, MyCall.blk)])
  BY DEF Lookup, serverVars, tableVars, Goto
<1>2. MyCall' = MyCall /\ MyCall.srv \in Server /\ MyCall.blk \in Block
  <2>1. MyCall \in Request /\ MyCall.op \in {"read", "write"}
    BY <1>0, <1>1, MyCallFacts, PlaceTells
  <2>2. QED BY <1>1, <2>1, RequestFacts DEF MyCall
<1>3. Early' \subseteq Early /\ ~Held'
  BY <1>1, EarlyLess DEF Held
<1>4. ThreadDue(Every)' = {}
  BY <1>1 DEF ThreadDue
<1>5. EntriesStay /\ In(table)' = In(table)
  BY <1>0, <1>1 DEF EntriesStay, Alike, In
<1>6. Table'
  <2>1. \A j \in In(table) : inf[j].key = epoch'[inf[j].srv] => inf[j].addr \in alloc'[inf[j].srv]
    BY <1>0, <1>1 DEF Table
  <2>2. QED BY <1>0, <1>5, <2>1, TableStays
<1>7. EarlyStructs'
  BY <1>0, <1>1, <1>3, <1>5 DEF EarlyStructs
<1>8. HeldStruct'
  BY <1>3 DEF HeldStruct, Held, Freeing
<1>9. UsedEntry'
  <2>1. CASE pc' = "finish"
    BY <2>1 DEF UsedEntry, Using
  <2>2. CASE pc' # "finish"
    <3>1. at' \in In(table) /\ inf[at'].addr = MyCall.blk /\ inf[at'].srv = MyCall.srv
      BY <1>0, <1>1, <1>2, <2>2, EntryFacts DEF Straight, Foreign
    <3>2. QED BY <1>1, <1>2, <1>5, <3>1 DEF UsedEntry
  <2>3. QED BY <2>1, <2>2
<1>10. QED BY <1>4, <1>6, <1>7, <1>8, <1>9, QuietAfter DEF Rest

\* A transfer is of the entry that was looked up.
LEMMA TransferPostRest ==
    ASSUME IInv, Books, Whole, Whole', [Next]_vars, Shape', ReadPost \/ WritePost
    PROVE  Rest'
<1>0. /\ Typed /\ WorkIsLive /\ Calls /\ Shape /\ Table /\ EarlyStructs
      /\ HeldStruct /\ UsedEntry /\ Outstanding(Every) /\ Buffers
      /\ epoch \in [Server -> Nat] /\ inf \in [Info -> InfoType]
  BY GoodFacts DEF Shape
<1>1. /\ UNCHANGED <<call, st, sat, works, who, at, table, epoch, alloc, inbox, back, hand>>
      /\ pc \in {"read_spin", "write_post"} /\ pc' \in {"await_read", "await_write"}
  BY DEF ReadPost, WritePost, callVars, tableVars, serverVars, Goto
<1>2. \A j \in Info : Alike(inf'[j], inf[j])
  <2>1. CASE ReadPost
    BY <2>1 DEF ReadPost, tableVars, Alike
  <2>2. CASE WritePost
    BY <1>0, <2>2, FlagStep
  <2>3. QED BY <2>1, <2>2
<1>3. MyCall' = MyCall /\ In(table)' = In(table) /\ In(table) \subseteq Info
  BY <1>0, <1>1, InTable DEF MyCall, In
<1>4. EntriesStay
  BY <1>0, <1>1, <1>2, <1>3 DEF EntriesStay
<1>5. Table'
  <2>1. \A j \in In(table) : inf[j].key = epoch'[inf[j].srv] => inf[j].addr \in alloc'[inf[j].srv]
    BY <1>0, <1>1 DEF Table
  <2>2. QED BY <1>0, <1>4, <2>1, TableStays
<1>6. EarlyStructs'
  <2>1. Early' \subseteq Early /\ ~Held'
    BY <1>1, EarlyLess DEF Held
  <2>2. \A c \in Early : sat'[c] = sat[c] /\ call'[c] = call[c] /\ Alike(inf'[sat[c]], inf[sat[c]])
    BY <1>0, <1>1, <1>2 DEF EarlyStructs
  <2>3. QED BY <1>0, <1>3, <2>1, <2>2, EarlyStay
<1>7. HeldStruct'
  BY <1>1 DEF HeldStruct, Held, Freeing
<1>8. at \in In(table) /\ inf[at].srv = MyCall.srv /\ inf[at].addr = MyCall.blk /\ inf[at].keyed
  BY <1>0, <1>1 DEF UsedEntry, Using, Table
<1>9. Alike(inf'[at], inf[at])
  BY <1>2, <1>3, <1>8
<1>10. UsedEntry'
  BY <1>1, <1>3, <1>8, <1>9 DEF UsedEntry, Alike
<1>11. KeyOf(at) = KeyAt /\ KeyAt' = KeyAt
  BY <1>1, <1>8, <1>9 DEF KeyOf, KeyAt, Alike
<1>12. NoWorks
  BY <1>1, NoneBefore
<1>13. PICK y, k : y = [m |-> "check", key |-> k] /\ k = KeyOf(at)
  OBVIOUS
<1>14. Messages'
  <2>1. CASE ReadPost
    <3>1. PICK x : x = [m |-> "read", b |-> inf[at].addr, key |-> KeyOf(at), smr |-> smr']
      OBVIOUS
    <3>2. /\ x.m = "read" /\ x.b = inf[at].addr /\ x.key = KeyOf(at) /\ y.m = "check"
          /\ Post(MyCall.srv, <<x>>)
      BY <1>13, <2>1, <3>1 DEF ReadPost
    <3>3. QED BY <1>0, <1>1, <1>3, <1>8, <1>11, <1>12, <3>2, MessagePosted
  <2>2. CASE WritePost
    <3>1. PICK x : x = [m |-> "write", b |-> inf[at].addr, key |-> KeyOf(at), smr |-> smr', i |-> at]
      OBVIOUS
    <3>2. /\ x.m = "write" /\ x.b = inf[at].addr /\ x.key = KeyOf(at) /\ y.m = "check"
          /\ Post(MyCall.srv, <<x, y>>)
      BY <1>13, <2>2, <3>1 DEF WritePost
    <3>3. buf'[smr'].data = MyCall.val
      <4>1. smr' \in Smr \cup {Own}
        BY NextHolds DEF IInv, Buffers, Pooled
      <4>2. PICK z : z = [len |-> IF buf[smr'].len = 0 THEN MyCall.len ELSE buf[smr'].len, data |-> MyCall.val]
        OBVIOUS
      <4>3. buf' = [buf EXCEPT ![smr'] = z] /\ z.data = MyCall.val
        BY <2>2, <4>2 DEF WritePost, Filled
      <4>4. buf'[smr'] = z
        BY <1>0, <4>1, <4>3 DEF Buffers, BufferShape
      <4>5. QED BY <4>3, <4>4
    <3>4. QED BY <1>0, <1>1, <1>3, <1>8, <1>11, <1>12, <3>2, <3>3, MessagePosted
  <2>3. QED BY <2>1, <2>2
<1>15. QED BY <1>5, <1>6, <1>7, <1>10, <1>14 DEF Rest

-----------------------------------------------------------------------------
(* The books.                                                              *)

LEMMA BooksNext ==
    ASSUME Straight, IInv, Books, Whole, Whole', [Next]_vars
    PROVE  Books'
<1>1. Shape' /\ Outstanding(Every)'
  BY ShapeNext, EveryNext
<1>2. (\E c \in Caller : Call(c) \/ Return(c) \/ SendStep(c)) => Rest'
  BY <1>1, CallerRest, CallerEarly DEF Rest
<1>3. ThreadStep => Rest'
  BY <1>1, PlainRest, PostMallocRest, AwaitMallocRest, FreeLookupRest, FreeRest, LookupRest,
     TransferPostRest DEF ThreadStep
<1>4. LoopStep => Rest'
  BY <1>1, HandlerRest, OtherRest, FlagsRest DEF LoopStep
<1>5. (\E s \in Server : Transfer(s) \/ ServerStep(s) \/ Complete(s) \/ Lose(s)) => Rest'
  BY <1>1, TransferRest, ServeMallocRest, ServeFreeRest, ServeSendRest, CompleteRest, LoseRest
     DEF ServerStep
<1>6. Reconnect \/ Recovered \/ UNCHANGED vars => Rest'
  BY <1>1, OtherRest
<1>7. Rest'
  BY <1>2, <1>3, <1>4, <1>5, <1>6, Steps
<1>8. QED BY <1>1, <1>7 DEF Rest, Books

LEMMA InitBooks == Init => Books
<1> SUFFICES ASSUME Init PROVE Books
  OBVIOUS
<1>1. Shape
  <2>1. PICK z : z = [b \in Block |-> Zero]
    OBVIOUS
  <2>2. z \in [Block -> Value] /\ mem = [s \in Server |-> z]
    BY <2>1, ValueAssumption DEF Init
  <2>3. recov = NoServer /\ NoServer.phase = "none"
        /\ NoServer \in [phase : {"none", "connect", "callback"}, srv : Server \cup {0}]
    BY DEF Init, NoServer
  <2>4. NoInfo \in InfoType
    BY NoInfoFacts
  <2>5. QED BY <2>2, <2>3, <2>4 DEF Init, Shape, InRecovery
<1>2. Table
  BY DEF Init, Table, In
<1>3. Early = {}
  BY DEF Init, Early
<1>4. EarlyStructs
  BY <1>3 DEF EarlyStructs
<1>5. HeldStruct /\ UsedEntry
  BY DEF Init, HeldStruct, Held, Freeing, UsedEntry, Using
<1>6. Messages
  BY NoneIn DEF Init, Messages, Idle
<1>7. Outstanding(Every)
  <2>1. Marks(Every, Idle) = {}
    BY DEF Idle, Marks, Every, Lasting
  <2>2. QED BY <2>1, InitOutstanding
<1>8. QED BY <1>1, <1>2, <1>4, <1>5, <1>6, <1>7 DEF Books

\* The client's table and the servers agree until the work thread takes an
\* answer half written or a lookup finds another server's entry
\* (dhmp_malloc_response_handler and dhmp_free_work_handler with the servers'
\* handlers).
THEOREM BooksAgree == Spec => [](Clean => Books)
<1>1. Init /\ past = {} => IInv /\ Remembered /\ (Clean => Books)
  BY InitHolds, InitBooks, RememberedInit
<1>2. /\ IInv /\ Remembered /\ (Clean => Books) /\ [Next /\ Remember]_<<vars, past>>
      => Remembered' /\ (Clean' => Books')
  BY BooksNext, RememberedNext, StepOfSpec
<1>3. QED BY <1>1, <1>2, Invariant, PTL DEF Spec
-----------------------------------------------------------------------------
(* The entry of a block that a server still has given out is found.        *)

\* It is in front of all entries of its server with its address.
LEMMA NewestIsFirst ==
    ASSUME Shape, Table, NEW j \in DOMAIN table, NEW k \in DOMAIN table, Valid(k),
           inf[table[j]].srv = inf[table[k]].srv, inf[table[j]].addr = inf[table[k]].addr
    PROVE  k =< j
<1>0. /\ DOMAIN table = 1 .. Len(table) /\ Len(table) \in Nat
      /\ \A n \in DOMAIN table : table[n] \in In(table)
      /\ table \in Seq(Info)
  BY InTable DEF Table
<1> SUFFICES ASSUME j < k PROVE FALSE
  BY <1>0
<1>1. PICK s \in Server : s = inf[table[k]].srv
  BY <1>0 DEF Table
<1>2. /\ inf[table[j]].key >= inf[table[k]].key
      /\ inf[table[j]].key # inf[table[k]].key
  BY DEF Table
<1>3. inf[table[k]].key = epoch[s] /\ inf[table[j]].key =< epoch[s]
  BY <1>0, <1>1 DEF Valid, Table
<1>4. epoch[s] \in Nat /\ inf[table[j]].key \in Nat
  BY <1>0, InTable DEF Shape, InfoType
<1>5. QED BY <1>2, <1>3, <1>4

LEMMA FoundThen ==
    ASSUME Shape, Table PROVE EntriesAreFound
<1> SUFFICES ASSUME NEW k \in DOMAIN table, Valid(k)
             PROVE  /\ inf[table[k]].addr \in alloc[inf[table[k]].srv]
                    /\ k \in Hits(inf[table[k]].srv, inf[table[k]].addr)
                    /\ \A j \in Hits(inf[table[k]].srv, inf[table[k]].addr) :
                         inf[table[j]].srv = inf[table[k]].srv => k =< j
  BY DEF EntriesAreFound
<1>1. inf[table[k]].addr \in alloc[inf[table[k]].srv]
  BY InTable DEF Table, Valid
<1>2. QED BY <1>1, NewestIsFirst DEF Hits

\* An entry whose server runs names a block the server has given out, and of
\* its server's entries it is the first that a lookup of its address comes to
\* (dhmp_addr_info_insert puts new entries in front).
THEOREM EntriesFound == Spec => []EntriesAreFound
<1>1. (Clean => Books) => EntriesAreFound
  BY FoundThen DEF Books, Clean, EntriesAreFound
<1>2. QED BY <1>1, BooksAgree, PTL
-----------------------------------------------------------------------------
(* Blocks that servers have given out, while no connection is lost.        *)

Calm == \A s \in Server : losses[s] = 0 /\ conn[s] = "up"
Known(s, b) == \E i \in Info : inf[i].live /\ inf[i].srv = s /\ inf[i].addr = b
OnItsWay(s, b) ==
    \/ \E x \in In(back[s]) : x.m = "malloc" /\ x.b = b
    \/ hand.m = "malloc" /\ hand.b = b /\ MyCall.srv = s
\* The answer to a free has not been handled.
FreeAnswered == hand.m = "free" \/ \E s \in Server : \E x \in In(back[s]) : x.m = "free"

AllKnown == \A s \in Server : \A b \in alloc[s] : Known(s, b) \/ OnItsWay(s, b)
TakenBack == FreeAnswered => inf[at].addr \notin alloc[MyCall.srv]
Kept == Calm => AllKnown /\ TakenBack

\* Nothing is lost before, and nothing has been.
LEMMA CalmBefore ==
    ASSUME Shape, Shape', Whole', [Next]_vars, Calm'
    PROVE  /\ Calm /\ ~InRecovery
           /\ \A s \in Server : epoch[s] = 0 /\ ~Lose(s)
           /\ ~Reconnect /\ ~Recovered
<1>0. Lives
  BY DEF Shape, Lives
<1>1. ASSUME NEW s \in Server, Lose(s) PROVE FALSE
  <2>1. losses[s] \in Nat /\ losses'[s] = losses[s] + 1
    BY <1>0, <1>1 DEF Lose, Lives
  <2>2. QED BY <2>1 DEF Calm
<1>2. ASSUME NEW s \in Server, Transfer(s), ~Calm PROVE FALSE
  <2>1. losses' = losses /\ (conn' = conn \/ conn' = [conn EXCEPT ![s] = "error"])
    BY <1>2 DEF Transfer, Refuse
  <2>2. conn'[s] = "up"
    BY DEF Calm
  <2>3. conn' = conn
    BY <1>0, <2>1, <2>2 DEF Lives
  <2>4. QED BY <1>2, <2>1, <2>3 DEF Calm
<1>3. (Reconnect \/ Recovered) => losses' = losses
  BY DEF Reconnect, Recovered
<1>4. Reconnect \/ Recovered => FALSE
  BY <1>0, <1>3 DEF Reconnect, Recovered, Lives, InRecovery, Calm
<1>5. UNCHANGED <<conn, losses>> => Calm
  BY DEF Calm
<1>6. \/ \E s \in Server : Lose(s) \/ Transfer(s)
      \/ Reconnect \/ Recovered \/ UNCHANGED <<conn, losses>>
  BY Steps, CallerFrame, ThreadFrame, LoopFrame DEF ServerStep, ServeMalloc, ServeFree, ServeSend,
     Complete, vars, connVars
<1>7. Calm
  BY <1>1, <1>2, <1>4, <1>5, <1>6
<1>8. ~InRecovery
  BY <1>0, <1>7 DEF Lives, Calm
<1>9. \A s \in Server : epoch[s] = 0
  BY <1>0, <1>7 DEF Lives, Calm
<1>10. QED BY <1>1, <1>4, <1>7, <1>8, <1>9

\* Whose answers are on the way.
LEMMA AnswerAbout ==
    ASSUME IInv, Books, Whole
    PROVE  /\ hand.m = "malloc" \/ FreeAnswered =>
                /\ Held /\ at \in Info /\ inf[at].live /\ inf[at].srv = MyCall.srv
                /\ MyCall.srv \in Server /\ who \in Caller /\ st[who] = "waiting"
           /\ hand.m \in {"malloc", "error"} => pc = "await_malloc"
           /\ FreeAnswered => pc = "await_free"
           /\ \A s \in Server : \A x \in In(back[s]) : x.m \in {"malloc", "free"} => s = MyCall.srv
<1>0. "free" \in Every /\ "malloc" \in Every
  BY DEF Every
<1>1. /\ Messages /\ HeldStruct /\ Typed /\ WorkIsLive /\ Calls
      /\ Sound(Every) /\ Outstanding(Every)
  BY GoodFacts
<1>2. hand.m \in {"malloc", "error"} => pc = "await_malloc"
  BY <1>0, <1>1, HandAbout DEF About
<1>3. FreeAnswered => pc = "await_free"
  BY <1>0, <1>1, HandAbout, PlaceAbout DEF About, FreeAnswered
<1>4. hand.m = "malloc" \/ FreeAnswered => pc \in {"await_malloc", "await_free"}
  BY <1>2, <1>3
<1>5. pc \in {"await_malloc", "await_free"} =>
        /\ Held /\ at \in Info /\ inf[at].live /\ inf[at].srv = MyCall.srv
        /\ MyCall.srv \in Server /\ who \in Caller /\ st[who] = "waiting"
  <2> HAVE pc \in {"await_malloc", "await_free"}
  <2>1. Held /\ at \in Info /\ inf[at].live /\ inf[at].srv = MyCall.srv
    BY <1>1 DEF HeldStruct, Held
  <2>2. who \in Caller /\ st[who] = "waiting" /\ MyCall \in Request
    BY <1>1, MyCallFacts
  <2>3. QED BY <2>1, <2>2, RequestFacts
<1>6. QED BY <1>1, <1>2, <1>3, <1>4, <1>5 DEF Messages

\* Steps that leave structs as they are.
LEMMA KnownStays ==
    ASSUME AllKnown, \A j \in Info : inf[j].live => Alike(inf'[j], inf[j]),
           \A s \in Server : \A b \in alloc'[s] : b \in alloc[s] \/ OnItsWay(s, b)',
           \A s \in Server : \A b : OnItsWay(s, b) => OnItsWay(s, b)'
    PROVE  AllKnown'
<1>1. \A s \in Server : \A b : Known(s, b) => Known(s, b)'
  BY DEF Known, Alike
<1>2. QED BY <1>1 DEF AllKnown, Known, OnItsWay

LEMMA TakenBackStays ==
    ASSUME IInv, Books, Whole, TakenBack,
           \A j \in Info : inf[j].live => Alike(inf'[j], inf[j]),
           FreeAnswered => at' = at /\ MyCall' = MyCall,
           FreeAnswered' => FreeAnswered,
           \A s \in Server : alloc'[s] \subseteq alloc[s]
    PROVE  TakenBack'
<1> SUFFICES ASSUME FreeAnswered' PROVE inf'[at'].addr \notin alloc'[MyCall'.srv]
  BY DEF TakenBack
<1>1. at' = at /\ MyCall' = MyCall /\ inf[at].addr \notin alloc[MyCall.srv]
  BY DEF TakenBack
<1>2. at \in Info /\ inf[at].live /\ MyCall.srv \in Server
  BY AnswerAbout
<1>3. inf'[at].addr = inf[at].addr
  BY <1>2 DEF Alike
<1>4. QED BY <1>1, <1>2, <1>3

LEMMA CallerKept ==
    ASSUME IInv, Books, Whole, AllKnown, TakenBack,
           NEW c \in Caller, Call(c) \/ Return(c) \/ SendStep(c)
    PROVE  AllKnown' /\ TakenBack'
<1>1. UNCHANGED <<at, who, back, hand, alloc>>
  BY CallerFrame DEF threadVars, serverVars
<1>2. \A j \in Info : inf[j].live => Alike(inf'[j], inf[j])
  BY CallerStructs
<1>3. hand.m = "malloc" \/ FreeAnswered => MyCall' = MyCall
  <2>1. st[c] # "waiting" /\ \A d \in Caller \ {c} : call'[d] = call[d]
    BY CallerStructs
  <2>2. hand.m = "malloc" \/ FreeAnswered => who \in Caller \ {c}
    BY <2>1, AnswerAbout
  <2>3. QED BY <1>1, <2>1, <2>2 DEF MyCall
<1>4. \A s \in Server : \A b : OnItsWay(s, b) => OnItsWay(s, b)'
  BY <1>1, <1>3 DEF OnItsWay, In
<1>5. FreeAnswered' => FreeAnswered
  BY <1>1 DEF FreeAnswered, In
<1>6. AllKnown'
  BY <1>1, <1>2, <1>4, KnownStays
<1>7. TakenBack'
  BY <1>1, <1>2, <1>3, <1>5, TakenBackStays
<1>8. QED BY <1>6, <1>7

\* The thread takes a step when nothing of its is on the way, and frees the
\* struct of a block that the server has taken back, or never gave out.
LEMMA ThreadIdle ==
    ASSUME IInv, Books, Whole, ThreadStep
    PROVE  NoWorks
<1>1. ThreadDue(Every) = {}
  <2>1. CASE pc \notin {"await_read", "await_write", "await_free", "await_malloc"}
    BY <2>1, ThreadIsFree, GoodFacts
  <2>2. CASE AwaitMalloc
    BY <2>2 DEF AwaitMalloc, Take, ThreadDue
  <2>3. CASE AwaitFree
    BY <2>3 DEF AwaitFree, ThreadDue
  <2>4. CASE AwaitRead
    BY <2>4 DEF AwaitRead, ThreadDue
  <2>5. CASE AwaitWrite
    BY <2>5 DEF AwaitWrite, ThreadDue
  <2>6. QED BY <2>1, <2>2, <2>3, <2>4, <2>5 DEF ThreadStep, TakeWork, PostMalloc, FreeLookup,
               FreePost, Lookup, ReadPost, WriteCheck, WritePost, Finish
<1>2. QED BY <1>1, GoodFacts, NoWorksAbout

LEMMA ThreadKept ==
    ASSUME IInv, Books, Whole, AllKnown, ~InRecovery, ThreadStep
    PROVE  AllKnown' /\ TakenBack'
<1>0. Shape /\ HeldStruct /\ alloc \in [Server -> SUBSET Block]
  BY GoodFacts DEF Shape
<1>1. UNCHANGED <<inbox, back, hand, alloc>>
  BY ThreadFrame DEF serverVars
<1>2. NoWorks
  BY ThreadIdle
<1>3. \A s \in Server : \A b : ~OnItsWay(s, b)
  BY <1>2 DEF NoWorks, Worked, OnItsWay
<1>4. ~FreeAnswered'
  BY <1>1, <1>2 DEF NoWorks, Worked, FreeAnswered, In
<1>5. \A j \in Info : inf[j].live /\ inf[j].addr # Null => Alike(inf'[j], inf[j])
  <2>1. CASE inf' = inf
    BY <2>1 DEF Alike
  <2>2. CASE AwaitMalloc
    BY <2>2, AwaitMallocStruct DEF Alike
  <2>3. CASE AwaitFree
    <3>1. inf[at].addr = Null /\ at \in Info /\ FreeInfo(at)
      BY <1>0, <2>3 DEF AwaitFree, HeldStruct, Held
    <3>2. QED BY <1>0, <3>1, FreedStruct DEF Alike
  <2>4. CASE WritePost
    BY <1>0, <2>4, FlagStep
  <2>5. QED BY <2>1, <2>2, <2>3, <2>4 DEF ThreadStep, TakeWork, PostMalloc, FreeLookup,
               FreePost, Lookup, ReadPost, AwaitRead, WriteCheck, AwaitWrite, Finish, tableVars
<1>6. \A s \in Server : \A b \in alloc[s] : Known(s, b)'
  <2> TAKE s \in Server
  <2> TAKE b \in alloc[s]
  <2>1. b # Null
    BY <1>0, BlockAssumption
  <2>2. PICK i \in Info : inf[i].live /\ inf[i].srv = s /\ inf[i].addr = b
    BY <1>3 DEF AllKnown, Known
  <2>3. QED BY <1>5, <2>1, <2>2 DEF Known, Alike
<1>7. QED BY <1>1, <1>4, <1>6 DEF AllKnown, TakenBack, Known

\* A server that is connected gets its answers through.
LEMMA AnswerArrives ==
    ASSUME IInv, Books, Whole, Calm, NEW s \in Server, NEW y, Answer(s, y), NEW t \in Server
    PROVE  In(back'[t]) = In(back[t]) \cup (IF t = s THEN {y} ELSE {})
<1>1. Typed /\ Outstanding(Every)
  BY GoodFacts
<1>2. IsSeq(back[t])
  BY <1>1, Queues
<1>3. back' = [back EXCEPT ![s] = Append(@, y)]
  BY DEF Answer, Calm
<1>4. In(Append(back[t], y)) = In(back[t]) \cup {y}
  BY <1>2, InQueue
<1>5. CASE t = s
  BY <1>1, <1>3, <1>4, <1>5 DEF Typed
<1>6. CASE t # s
  BY <1>1, <1>3, <1>6 DEF Typed
<1>7. QED BY <1>5, <1>6

\* Servers and network cards, and completions that do not tell of blocks.
LEMMA QuietKept ==
    ASSUME IInv, Books, Whole, Calm, Calm', AllKnown, TakenBack,
           \/ \E s \in Server : Transfer(s) \/ ServeSend(s)
           \/ HandleWrite \/ HandleWritten \/ HandleRead \/ HandleSend
    PROVE  AllKnown' /\ TakenBack'
<1>0. Shape /\ Typed /\ Outstanding(Every)
  BY GoodFacts
<1>1. UNCHANGED <<call, who, at, alloc>>
  BY DEF Transfer, ServeSend, HandleWrite, HandleWritten, HandleRead, HandleSend, callVars,
         threadVars, serverVars
<1>2. \A j \in Info : inf[j].live => Alike(inf'[j], inf[j])
  <2>1. CASE inf' = inf
    BY <2>1 DEF Alike
  <2>2. CASE HandleWritten
    BY <1>0, <2>2, FlagStep
  <2>3. QED BY <2>1, <2>2 DEF Transfer, ServeSend, HandleWrite, HandleRead, HandleSend, tableVars
<1>3. hand' = hand \/ (hand.m \notin {"malloc", "free"} /\ hand'.m \notin {"malloc", "free"})
  <2>1. HandleWritten \/ HandleRead \/ HandleSend =>
          hand.m \in {"written", "read", "check", "send"} /\ hand' = Idle
    BY DEF HandleWritten, HandleRead, HandleSend, InHand
  <2>2. HandleWrite => hand.m = "write" /\ hand'.m = "written"
    BY DEF HandleWrite, InHand
  <2>3. Idle.m = "nothing"
    BY DEF Idle
  <2>4. QED BY <2>1, <2>2, <2>3 DEF Transfer, ServeSend
<1>4. \A t \in Server : /\ In(back[t]) \subseteq In(back'[t])
                        /\ \A x \in In(back'[t]) : x.m \in {"malloc", "free"} => x \in In(back[t])
  <2>1. CASE back' = back
    BY <2>1
  <2>2. CASE back' # back
    <3>1. PICK s \in Server : Transfer(s) \/ ServeSend(s)
      BY <2>2 DEF HandleWrite, HandleWritten, HandleRead, HandleSend, wireVars
    <3>2. PICK y : Answer(s, y) /\ y.m \notin {"malloc", "free"}
      <4>1. CASE ServeSend(s)
        <5>1. PICK y, c : c = Head(inbox[s]).c /\ y = [m |-> "send", c |-> c]
          OBVIOUS
        <5>2. Answer(s, y) /\ y.m = "send"
          BY <4>1, <5>1 DEF ServeSend
        <5>3. QED BY <5>2
      <4>2. CASE Transfer(s)
        <5>1. PICK w : w = Head(wire[s])
          OBVIOUS
        <5>2. PICK y : y = [m |-> "write", i |-> w.i, smr |-> w.smr]
          OBVIOUS
        <5>3. PICK z : z = [m |-> "read"]
          OBVIOUS
        <5>4. PICK u : u = [m |-> "check"]
          OBVIOUS
        <5>5. y.m = "write" /\ z.m = "read" /\ u.m = "check"
          BY <5>2, <5>3, <5>4
        <5>6. Answer(s, y) \/ Answer(s, z) \/ Answer(s, u)
          BY <2>2, <4>2, <5>1, <5>2, <5>3, <5>4 DEF Transfer, Refuse
        <5>7. QED BY <5>5, <5>6
      <4>3. QED BY <3>1, <4>1, <4>2
    <3>3. \A t \in Server : In(back'[t]) = In(back[t]) \cup (IF t = s THEN {y} ELSE {})
      BY <3>2, AnswerArrives
    <3>4. QED BY <3>2, <3>3
  <2>3. QED BY <2>1, <2>2
<1>5. MyCall' = MyCall
  BY <1>1 DEF MyCall
<1>6. \A s \in Server : \A b : OnItsWay(s, b) => OnItsWay(s, b)'
  BY <1>3, <1>4, <1>5 DEF OnItsWay, In
<1>7. FreeAnswered' => FreeAnswered
  BY <1>3, <1>4 DEF FreeAnswered, In
<1>8. AllKnown'
  BY <1>1, <1>2, <1>6, KnownStays
<1>9. TakenBack'
  BY <1>1, <1>2, <1>5, <1>7, TakenBackStays
<1>10. QED BY <1>8, <1>9

\* The answer tells of the block.
LEMMA ServeMallocKept ==
    ASSUME IInv, Books, Whole, Calm, AllKnown, TakenBack, NEW s \in Server, ServeMalloc(s)
    PROVE  AllKnown' /\ TakenBack'
<1>0. /\ Typed /\ Outstanding(Every) /\ alloc \in [Server -> SUBSET Block]
  BY GoodFacts DEF Shape
<1>1. UNCHANGED <<call, who, at, inf, hand>>
  BY DEF ServeMalloc, callVars, threadVars, tableVars
<1>2. PICK w \in In(inbox[s]) : w = Head(inbox[s]) /\ w.m = "malloc"
  BY <1>0, LeftBy DEF ServeMalloc
<1>3. s = MyCall.srv /\ pc = "await_malloc"
  BY <1>2, RequestAbout
<1>4. PICK y : /\ Answer(s, y) /\ y.m \in {"malloc", "error"}
               /\ \A t \in Server : \A b \in alloc'[t] :
                    b \in alloc[t] \/ (t = s /\ y.m = "malloc" /\ y.b = b)
  <2>1. PICK z : z = [m |-> "error", i |-> w.i]
    OBVIOUS
  <2>2. CASE Answer(s, z) /\ alloc' = alloc
    BY <2>1, <2>2
  <2>3. CASE ~(Answer(s, z) /\ alloc' = alloc)
    <3>1. PICK b \in Block :
               /\ alloc' = [alloc EXCEPT ![s] = @ \cup {b}]
               /\ Answer(s, [m |-> "malloc", i |-> w.i, b |-> b, key |-> epoch[s]])
      BY <1>2, <2>1, <2>3 DEF ServeMalloc
    <3>2. PICK u : u = [m |-> "malloc", i |-> w.i, b |-> b, key |-> epoch[s]]
      OBVIOUS
    <3>3. Answer(s, u) /\ u.m = "malloc" /\ u.b = b
      BY <3>1, <3>2
    <3>4. QED BY <1>0, <3>1, <3>3
  <2>4. QED BY <2>2, <2>3
<1>5. \A t \in Server : In(back'[t]) = In(back[t]) \cup (IF t = s THEN {y} ELSE {})
  BY <1>4, AnswerArrives
<1>6. MyCall' = MyCall
  BY <1>1 DEF MyCall
<1>7. \A t \in Server : \A b : OnItsWay(t, b) => OnItsWay(t, b)'
  BY <1>1, <1>5, <1>6 DEF OnItsWay, In
<1>8. \A t \in Server : \A b \in alloc'[t] : b \in alloc[t] \/ OnItsWay(t, b)'
  <2> TAKE t \in Server
  <2> TAKE b \in alloc'[t]
  <2>1. b \in alloc[t] \/ (y \in In(back'[t]) /\ y.m = "malloc" /\ y.b = b)
    BY <1>4, <1>5
  <2>2. QED BY <2>1 DEF OnItsWay, In
<1>9. AllKnown'
  BY <1>1, <1>7, <1>8, KnownStays DEF Alike
<1>10. ~FreeAnswered'
  <2>1. ~FreeAnswered
    BY <1>3, AnswerAbout
  <2>2. \A t \in Server : \A x \in In(back'[t]) : x.m # "free"
    BY <1>4, <1>5, <2>1 DEF FreeAnswered
  <2>3. QED BY <1>1, <2>1, <2>2 DEF FreeAnswered, In
<1>11. QED BY <1>9, <1>10 DEF TakenBack

\* The block is taken back before the answer is sent.
LEMMA ServeFreeKept ==
    ASSUME IInv, Books, Whole, Calm, AllKnown, NEW s \in Server, ServeFree(s), epoch[s] = 0
    PROVE  AllKnown' /\ TakenBack'
<1>0. /\ Shape /\ Typed /\ Outstanding(Every) /\ HeldStruct /\ alloc \in [Server -> SUBSET Block]
  BY GoodFacts DEF Shape
<1>1. UNCHANGED <<call, who, at, inf, hand>>
  BY DEF ServeFree, callVars, threadVars, tableVars
<1>2. PICK w \in In(inbox[s]) : w = Head(inbox[s]) /\ w.m = "free"
  BY <1>0, LeftBy DEF ServeFree
<1>3. /\ s = MyCall.srv /\ pc = "await_free" /\ w.b = inf[at].addr /\ w.key = KeyAt
      /\ inf[at].srv = s /\ inf[at].addr # Null /\ at \in Info
  BY <1>2, RequestAbout
<1>4. Allowed(s, w)
  <2>1. inf[at].key =< epoch[s] /\ inf[at] \in InfoType
    BY <1>0, <1>3 DEF HeldStruct, Freeing, Shape
  <2>2. inf[at].key = 0
    BY <2>1 DEF InfoType
  <2>3. QED BY <1>3, <2>2 DEF Allowed, KeyAt
<1>5. alloc' = [alloc EXCEPT ![s] = alloc[s] \ {w.b}]
  BY <1>2, <1>4 DEF ServeFree
<1>6. PICK y : Answer(s, y)
  BY DEF ServeFree
<1>7. \A t \in Server : In(back'[t]) = In(back[t]) \cup (IF t = s THEN {y} ELSE {})
  BY <1>6, AnswerArrives
<1>8. MyCall' = MyCall
  BY <1>1 DEF MyCall
<1>9. \A t \in Server : \A b : OnItsWay(t, b) => OnItsWay(t, b)'
  BY <1>1, <1>7, <1>8 DEF OnItsWay, In
<1>10. \A t \in Server : alloc'[t] \subseteq alloc[t]
  BY <1>0, <1>5
<1>11. AllKnown'
  BY <1>1, <1>9, <1>10, KnownStays DEF Alike
<1>12. inf[at].addr \notin alloc'[s]
  BY <1>0, <1>3, <1>5
<1>13. QED BY <1>1, <1>3, <1>8, <1>11, <1>12 DEF TakenBack

LEMMA CompleteKept ==
    ASSUME IInv, Books, Whole, AllKnown, TakenBack, NEW s \in Server, Complete(s)
    PROVE  AllKnown' /\ TakenBack'
<1>0. /\ Typed /\ Outstanding(Every)
  BY GoodFacts
<1>1. /\ UNCHANGED <<call, who, at, inf, alloc>>
      /\ hand = Idle /\ hand' = Head(back[s]) /\ back' = [back EXCEPT ![s] = Tail(@)] /\ back[s] # <<>>
  BY DEF Complete, callVars, threadVars, tableVars, serverVars
<1>2. hand' \in In(back[s]) /\ \A t \in Server : In(back'[t]) \subseteq In(back[t])
  BY <1>0, <1>1, LeftBy
<1>3. \A t \in Server : \A x \in In(back[t]) : x \in In(back'[t]) \/ (t = s /\ x = hand')
  <2>1. IsSeq(back[s])
    BY <1>0, Queues
  <2>2. ASSUME NEW n \in DOMAIN back[s], n # 1
        PROVE  back[s][n] \in In(Tail(back[s]))
    <3>1. back[s] \in Seq(In(back[s]))
      BY <2>1 DEF IsSeq
    <3>2. n - 1 \in DOMAIN Tail(back[s]) /\ Tail(back[s])[n - 1] = back[s][n]
      BY <1>1, <2>2, <3>1
    <3>3. QED BY <3>2 DEF In
  <2>3. hand' = back[s][1]
    BY <1>1, <2>1 DEF IsSeq
  <2>4. back'[s] = Tail(back[s]) /\ \A t \in Server \ {s} : back'[t] = back[t]
    BY <1>0, <1>1 DEF Typed
  <2>5. \A x \in In(back[s]) : x \in In(back'[s]) \/ x = hand'
    BY <2>2, <2>3, <2>4 DEF In
  <2>6. \A t \in Server \ {s} : In(back'[t]) = In(back[t])
    BY <2>4
  <2>7. QED BY <2>5, <2>6
<1>4. MyCall' = MyCall /\ Idle.m \notin {"malloc", "free"}
  BY <1>1 DEF MyCall, Idle
<1>5. \A t \in Server : \A b : OnItsWay(t, b) => OnItsWay(t, b)'
  <2> TAKE t \in Server
  <2> TAKE b
  <2> HAVE OnItsWay(t, b)
  <2>1. PICK x \in In(back[t]) : x.m = "malloc" /\ x.b = b
    BY <1>1, <1>4 DEF OnItsWay
  <2>2. MyCall.srv = t
    BY <2>1, AnswerAbout
  <2>3. x \in In(back'[t]) \/ x = hand'
    BY <1>3, <2>1
  <2>4. QED BY <1>4, <2>1, <2>2, <2>3 DEF OnItsWay, In
<1>6. FreeAnswered' => FreeAnswered
  BY <1>2 DEF FreeAnswered, In
<1>7. AllKnown'
  BY <1>1, <1>5, KnownStays DEF Alike
<1>8. TakenBack'
  BY <1>1, <1>4, <1>6, TakenBackStays DEF Alike
<1>9. QED BY <1>7, <1>8

\* A struct gets the address that the answer told of, or loses that of a
\* block which the server has taken back.
LEMMA HandlerKept ==
    ASSUME Straight, IInv, Books, Whole, Whole', [Next]_vars, AllKnown, TakenBack,
           HandleMalloc \/ HandleKeys \/ HandleError \/ HandleNull
    PROVE  AllKnown' /\ TakenBack'
<1>0. /\ Shape /\ HeldStruct /\ alloc \in [Server -> SUBSET Block]
  BY GoodFacts DEF Shape
<1>1. UNCHANGED <<call, pc, who, at, flags, wireVars, alloc>>
  BY DEF HandleMalloc, HandleKeys, HandleError, HandleNull, callVars, threadVars, serverVars
<1>2. /\ at \in Info /\ hand' = Idle
      /\ \A j \in Info : j # at => inf'[j] = inf[j]
      /\ inf'[at].live = inf[at].live /\ inf'[at].srv = inf[at].srv
      /\ hand.m = "malloc" => inf'[at].addr = hand.b
      /\ pc = "await_free" => hand.m = "free"
      /\ pc = "await_malloc" => inf[at].addr = Junk
      /\ \/ pc = "await_malloc" /\ inf'[at].len
         \/ pc = "await_free" /\ inf'[at].addr = Null
  BY HandlerStruct
<1>3. inf[at].live /\ inf[at].srv = MyCall.srv
  BY <1>0, <1>2 DEF HeldStruct, Held
<1>4. \A s \in Server : \A b \in alloc[s] : Known(s, b) => Known(s, b)'
  <2> TAKE s \in Server
  <2> TAKE b \in alloc[s]
  <2> HAVE Known(s, b)
  <2>1. PICK i \in Info : inf[i].live /\ inf[i].srv = s /\ inf[i].addr = b
    BY DEF Known
  <2>2. i # at
    <3> SUFFICES ASSUME i = at PROVE FALSE
      OBVIOUS
    <3>1. b \in Block /\ b # Junk
      BY <1>0, BlockAssumption
    <3>2. hand.m = "free"
      BY <1>2, <2>1, <3>1
    <3>3. inf[at].addr \notin alloc[MyCall.srv]
      BY <3>2 DEF TakenBack, FreeAnswered
    <3>4. QED BY <1>3, <2>1, <3>3
  <2>3. QED BY <1>2, <2>1, <2>2 DEF Known
<1>5. \A s \in Server : \A b \in alloc[s] : OnItsWay(s, b) => Known(s, b)' \/ OnItsWay(s, b)'
  <2> TAKE s \in Server
  <2> TAKE b \in alloc[s]
  <2> HAVE OnItsWay(s, b)
  <2>1. CASE \E x \in In(back[s]) : x.m = "malloc" /\ x.b = b
    BY <1>1, <2>1 DEF OnItsWay, In, wireVars
  <2>2. CASE hand.m = "malloc" /\ hand.b = b /\ MyCall.srv = s
    BY <1>2, <1>3, <2>2 DEF Known
  <2>3. QED BY <2>1, <2>2 DEF OnItsWay
<1>6. AllKnown'
  BY <1>1, <1>4, <1>5 DEF AllKnown, Known, OnItsWay
<1>7. ~FreeAnswered'
  <2>1. Books'
    BY BooksNext
  <2>2. ThreadDue(Every)' = {}
    BY <1>1, <1>2 DEF ThreadDue
  <2>3. NoWorks'
    BY <2>1, <2>2, NextHolds, SoundNext, NoWorksNext DEF Books
  <2>4. QED BY <2>3 DEF NoWorks, FreeAnswered, Worked
<1>8. QED BY <1>6, <1>7 DEF TakenBack

LEMMA KeptNext ==
    ASSUME Straight, IInv, Books, Whole, Whole', Kept, [Next]_vars
    PROVE  Kept'
<1> SUFFICES ASSUME Calm' PROVE AllKnown' /\ TakenBack'
  BY DEF Kept
<1>0. Shape /\ Shape'
  BY GoodFacts, BooksNext DEF Books
<1>1. /\ Calm /\ ~InRecovery /\ \A s \in Server : epoch[s] = 0 /\ ~Lose(s)
      /\ ~Reconnect /\ ~Recovered
  BY <1>0, CalmBefore
<1>2. AllKnown /\ TakenBack
  BY <1>1 DEF Kept
<1>3. CASE UNCHANGED vars
  <2>1. UNCHANGED <<call, who, at, inf, back, hand, alloc>>
    BY <1>3 DEF vars, callVars, threadVars, tableVars, wireVars, serverVars
  <2>2. QED BY <1>2, <2>1 DEF AllKnown, TakenBack, Known, OnItsWay, FreeAnswered, In, MyCall
<1>4. QED BY <1>1, <1>2, <1>3, Steps, CallerKept, ThreadKept, QuietKept, ServeMallocKept,
          ServeFreeKept, CompleteKept, HandlerKept DEF ServerStep, LoopStep

LEMMA InitKept == Init => Kept
<1> SUFFICES ASSUME Init PROVE AllKnown /\ TakenBack
  BY DEF Kept
<1>1. hand.m = "nothing"
  BY DEF Init, Idle
<1>2. ~FreeAnswered
  BY <1>1, NoneIn DEF Init, FreeAnswered
<1>3. QED BY <1>2 DEF Init, AllKnown, TakenBack

LEMMA KeptThen ==
    ASSUME Kept PROVE NothingLeaks
  BY DEF Kept, Calm, AllKnown, Known, OnItsWay, In, NothingLeaks, InFlight

\* While no connection is lost, a server has given out no block that the
\* client does not know of, or is about to be told of: the malloc and free
\* handlers of both sides agree.
THEOREM NothingIsLost == Spec => []NothingLeaks
<1>1. Init /\ past = {} => IInv /\ Remembered /\ (Clean => Kept)
  BY InitHolds, InitKept, RememberedInit
<1>2. /\ IInv /\ Remembered /\ (Clean => Books) /\ (Clean => Kept)
      /\ [Next /\ Remember]_<<vars, past>>
      => Remembered' /\ (Clean' => Kept')
  BY KeptNext, RememberedNext, StepOfSpec
<1>3. (Clean => Kept) => NothingLeaks
  BY KeptThen DEF Clean, NothingLeaks
<1>4. QED BY <1>1, <1>2, <1>3, BooksAgree, Invariant, PTL DEF Spec
-----------------------------------------------------------------------------
(* The one memory that callers see.                                        *)

\* Block b of server s has an entry, and one of the server's present life.
IsListed(s, b)  == \E j \in In(table) : inf[j].srv = s /\ inf[j].addr = b
Current(s, b) == \E j \in In(table) : /\ inf[j].srv = s /\ inf[j].addr = b
                                      /\ inf[j].key = epoch[s]

\* What the client's table and the servers make of a block.
LEMMA ContentIs ==
    ASSUME Shape, Table, NEW s \in Server, NEW b \in Block
    PROVE  /\ ~IsListed(s, b) => Content(s, b) = "absent"
           /\ IsListed(s, b) /\ ~Current(s, b) => Content(s, b) = "gone"
           /\ Current(s, b) => IsListed(s, b) /\ Content(s, b) = mem[s][b]
<1>1. /\ Listed(s, b) \in SUBSET Nat /\ Listed(s, b) \subseteq DOMAIN table
      /\ \A k \in Listed(s, b) : table[k] \in In(table)
  BY InTable DEF Listed, Table
<1>2. Listed(s, b) = {} <=> ~IsListed(s, b)
  BY DEF Listed, IsListed, In
<1>3. Current(s, b) => IsListed(s, b)
  BY DEF Current, IsListed
<1>4. ASSUME IsListed(s, b)
      PROVE  Valid(FirstOf(Listed(s, b))) <=> Current(s, b)
  <2>1. PICK f \in Listed(s, b) : /\ f = FirstOf(Listed(s, b))
                                  /\ \A k \in Listed(s, b) : f =< k
    BY <1>1, <1>2, <1>4, FirstOfIsLeast
  <2>2. Valid(f) => Current(s, b)
    BY <1>1 DEF Valid, Current, Listed
  <2>3. ASSUME Current(s, b) PROVE Valid(f)
    <3>1. PICK k \in Listed(s, b) : Valid(k)
      BY <2>3 DEF Current, Valid, Listed, In
    <3>2. k =< f
      BY <1>1, <3>1, NewestIsFirst DEF Listed
    <3>3. QED BY <1>1, <2>1, <3>1, <3>2
  <2>4. QED BY <2>1, <2>2, <2>3
<1>5. QED BY <1>2, <1>3, <1>4 DEF Content

LEMMA ContentNext ==
    (Shape /\ Table => \A s \in Server, b \in Block :
       /\ ~IsListed(s, b) => Content(s, b) = "absent"
       /\ IsListed(s, b) /\ ~Current(s, b) => Content(s, b) = "gone"
       /\ Current(s, b) => IsListed(s, b) /\ Content(s, b) = mem[s][b])'
<1>1. Shape /\ Table => \A s \in Server, b \in Block :
              /\ ~IsListed(s, b) => Content(s, b) = "absent"
              /\ IsListed(s, b) /\ ~Current(s, b) => Content(s, b) = "gone"
              /\ Current(s, b) => IsListed(s, b) /\ Content(s, b) = mem[s][b]
  BY ContentIs
<1>2. QED BY <1>1, PTL

\* An entry that is dropped, or put in front, is another block's or is not
\* of the server's present life: then the content is what it was.
LEMMA ContentStays ==
    ASSUME Shape, Table, Shape', Table', NEW s \in Server, NEW b \in Block,
           IsListed(s, b)' = IsListed(s, b), Current(s, b)' = Current(s, b),
           Current(s, b) => mem'[s][b] = mem[s][b]
    PROVE  Content(s, b)' = Content(s, b)
<1>1. /\ ~IsListed(s, b) => Content(s, b) = "absent"
      /\ IsListed(s, b) /\ ~Current(s, b) => Content(s, b) = "gone"
      /\ Current(s, b) => IsListed(s, b) /\ Content(s, b) = mem[s][b]
  BY ContentIs
<1>2. /\ ~IsListed(s, b)' => Content(s, b)' = "absent"
      /\ IsListed(s, b)' /\ ~Current(s, b)' => Content(s, b)' = "gone"
      /\ Current(s, b)' => IsListed(s, b)' /\ Content(s, b)' = mem'[s][b]
  BY ContentNext
<1>3. QED BY <1>1, <1>2

\* While the table is the same, only a new life of a server changes which
\* blocks are listed as current.
LEMMA ListedStays ==
    ASSUME table' = table, \A j \in In(table) : Alike(inf'[j], inf[j]), NEW s, NEW b
    PROVE  /\ IsListed(s, b)' = IsListed(s, b)
           /\ epoch'[s] = epoch[s] => Current(s, b)' = Current(s, b)
<1>1. In(table)' = In(table)
  BY DEF In
<1>2. IsListed(s, b)' = IsListed(s, b)
  BY <1>1 DEF IsListed, Alike
<1>3. epoch'[s] = epoch[s] => Current(s, b)' = Current(s, b)
  BY <1>1 DEF Current, Alike
<1>4. QED BY <1>2, <1>3

\* No step changes what an entry says, other than its write_flag.
LEMMA EntriesAlike ==
    ASSUME IInv, Books, Whole, Whole', [Next]_vars, NEW j \in In(table)
    PROVE  Alike(inf'[j], inf[j])
<1>0. Shape /\ Table /\ HeldStruct /\ j \in Info /\ inf[j].live
  BY GoodFacts, InTable DEF Table
<1>1. CASE StructsAlone
  BY <1>1, StructsAloneSame DEF Alike
<1>2. CASE \E c \in Caller, r \in Request : CallMalloc(c, r)
  BY <1>0, <1>2, CallMallocStruct DEF Alike
<1>3. CASE \E c \in Caller : SendPost(c) \/ SendOut(c)
  BY <1>0, <1>3, FlagStep
<1>4. CASE WritePost \/ HandleWritten
  BY <1>0, <1>4, FlagStep
<1>5. CASE AwaitMalloc
  <2>1. at \notin In(table)
    BY <1>0, <1>5 DEF AwaitMalloc, Take, HeldStruct, Held
  <2>2. QED BY <1>0, <1>5, <2>1, AwaitMallocStruct DEF Alike
<1>6. CASE FreePost \/ AwaitFree
  <2>1. at \in Info /\ at \notin In(table)
    BY <1>0, <1>6 DEF FreePost, AwaitFree, HeldStruct, Held
  <2>2. inf' = inf \/ FreeInfo(at)
    BY <1>6 DEF FreePost, AwaitFree
  <2>3. QED BY <1>0, <2>1, <2>2, FreedStruct DEF Alike
<1>7. CASE HandleMalloc \/ HandleKeys \/ HandleError \/ HandleNull
  <2>1. pc \in {"await_malloc", "await_free"} /\ \A i \in Info : i # at => inf'[i] = inf[i]
    BY <1>7, HandlerStruct
  <2>2. at \notin In(table)
    BY <1>0, <2>1 DEF HeldStruct, Held
  <2>3. QED BY <1>0, <2>1, <2>2 DEF Alike
<1>8. QED BY <1>1, <1>2, <1>3, <1>4, <1>5, <1>6, <1>7, StepKinds
-----------------------------------------------------------------------------
(* Messages of dhmp_send, and of the transfers, and where they come from.  *)

Effective == Transfers \cup {"send"}

LEMMA RequestsFrom ==
    ASSUME IInv, Whole', [Next]_vars, NEW s \in Server, NEW x \in In(wire'[s]) \cup In(inbox'[s])
    PROVE  \/ x \in In(wire[s]) \cup In(inbox[s])
           \/ x.m \notin Effective
           \/ (ReadPost \/ WritePost) /\ x.m # "send"
           \/ \E c \in Caller : /\ SendPost(c) /\ s = call[c].srv
                                /\ x.m = "send" /\ x.c = c /\ x.b = inf[sat[c]].addr
<1>0. Typed /\ Outstanding(Lasting)
  BY DEF IInv
<1>1. CASE UNCHANGED <<wire, inbox>>
  BY <1>1
<1>2. CASE \E c \in Caller : SendPost(c)
  <2>1. PICK c \in Caller : SendPost(c)
    BY <1>2
  <2>2. PICK y : y = [m |-> "send", c |-> c, b |-> inf[sat[c]].addr]
    OBVIOUS
  <2>3. Post(call[c].srv, <<y>>) /\ inbox' = inbox
    BY <2>1, <2>2 DEF SendPost
  <2>4. In(wire'[s]) \subseteq In(wire[s]) \cup (IF s = call[c].srv THEN {y} ELSE {})
    BY <1>0, <2>3, PostedFrom
  <2>5. QED BY <2>1, <2>2, <2>3, <2>4
<1>3. CASE PostMalloc
  <2>1. PICK y : y = [m |-> "malloc", i |-> sat[who]]
    OBVIOUS
  <2>2. Post(MyCall.srv, <<y>>) /\ inbox' = inbox /\ y.m \notin Effective
    BY <1>3, <2>1 DEF PostMalloc, Effective, Transfers
  <2>3. In(wire'[s]) \subseteq In(wire[s]) \cup (IF s = MyCall.srv THEN {y} ELSE {})
    BY <1>0, <2>2, PostedFrom
  <2>4. QED BY <2>2, <2>3
<1>4. CASE FreePost
  <2>1. PICK y : y = [m |-> "free", i |-> at, b |-> inf[at].addr, key |-> KeyOf(at)]
    OBVIOUS
  <2>2. /\ wire' = wire \/ Post(MyCall.srv, <<y>>)
        /\ inbox' = inbox /\ y.m \notin Effective
    BY <1>4, <2>1 DEF FreePost, Effective, Transfers
  <2>3. In(wire'[s]) \subseteq In(wire[s]) \cup (IF s = MyCall.srv THEN {y} ELSE {})
    BY <1>0, <2>2, PostedFrom
  <2>4. QED BY <2>2, <2>3
<1>5. CASE ReadPost
  <2>1. PICK y : y = [m |-> "read", b |-> inf[at].addr, key |-> KeyOf(at), smr |-> smr']
    OBVIOUS
  <2>2. Post(MyCall.srv, <<y>>) /\ inbox' = inbox /\ y.m # "send"
    BY <1>5, <2>1 DEF ReadPost
  <2>3. In(wire'[s]) \subseteq In(wire[s]) \cup (IF s = MyCall.srv THEN {y} ELSE {})
    BY <1>0, <2>2, PostedFrom
  <2>4. QED BY <1>5, <2>2, <2>3
<1>6. CASE WritePost
  <2>1. PICK y : y = [m |-> "write", b |-> inf[at].addr, key |-> KeyOf(at), smr |-> smr', i |-> at]
    OBVIOUS
  <2>2. PICK z : z = [m |-> "check", key |-> KeyOf(at)]
    OBVIOUS
  <2>3. inbox' = inbox /\ y.m # "send" /\ z.m # "send"
    BY <1>6, <2>1, <2>2 DEF WritePost
  <2>4. PICK t : t = MyCall.srv
    OBVIOUS
  <2>5. Post(t, <<y, z>>)
    BY <1>6, <2>1, <2>2, <2>4 DEF WritePost
  <2>6. In(wire'[s]) \subseteq In(wire[s]) \cup (IF s = t THEN {y, z} ELSE {})
    BY <1>0, <2>5, PostedFrom
  <2>7. QED BY <1>6, <2>3, <2>6
<1>7. CASE \E t \in Server : Transfer(t)
  <2>1. PICK t \in Server : Transfer(t)
    BY <1>7
  <2>2. /\ Arrived(t) \/ wire' = [wire EXCEPT ![t] = <<>>]
        /\ inbox' = inbox \/ inbox' = [inbox EXCEPT ![t] = Append(@, Head(wire[t]))]
        /\ wire[t] # <<>>
    BY <2>1 DEF Transfer, Refuse
  <2>3. In(wire'[s]) \subseteq In(wire[s])
    BY <1>0, <2>2, LeftBy, NoneIn DEF Typed
  <2>4. In(inbox'[s]) \subseteq In(inbox[s]) \cup (IF s = t THEN {Head(wire[t])} ELSE {})
    <3>1. IsSeq(inbox[s])
      BY <1>0, Queues
    <3>2. In(Append(inbox[s], Head(wire[t]))) = In(inbox[s]) \cup {Head(wire[t])}
      BY <3>1, InQueue
    <3>3. QED BY <1>0, <2>2, <3>2 DEF Typed
  <2>5. Head(wire[t]) \in In(wire[t])
    BY <1>0, <2>2, LeftBy
  <2>6. QED BY <2>3, <2>4, <2>5
<1>8. CASE \E t \in Server : ServerStep(t)
  <2>1. PICK t \in Server : ServerStep(t)
    BY <1>8
  <2>2. Handled(t) /\ inbox[t] # <<>> /\ wire' = wire
    BY <2>1 DEF ServerStep, ServeMalloc, ServeFree, ServeSend
  <2>3. In(inbox'[s]) \subseteq In(inbox[s])
    BY <1>0, <2>2, LeftBy
  <2>4. QED BY <2>2, <2>3
<1>9. CASE \E t \in Server : Lose(t)
  BY <1>0, <1>9, LostFrom
<1>10. \/ UNCHANGED <<wire, inbox>>
       \/ \E c \in Caller : SendPost(c)
       \/ PostMalloc \/ FreePost \/ ReadPost \/ WritePost
       \/ \E t \in Server : Transfer(t) \/ ServerStep(t) \/ Lose(t)
  <2>1. ASSUME NEW c \in Caller, Call(c) \/ Return(c) \/ SendStep(c)
        PROVE  UNCHANGED <<wire, inbox>> \/ SendPost(c)
    BY <2>1 DEF Call, CallMalloc, CallWork, CallSend, Asks, Return, SendStep, SendLookup, SendCheck,
       SendOut, wireVars
  <2>2. ThreadStep => UNCHANGED <<wire, inbox>> \/ PostMalloc \/ FreePost \/ ReadPost \/ WritePost
    BY DEF ThreadStep, TakeWork, AwaitMalloc, Take, FreeLookup, AwaitFree, Lookup, AwaitRead, WriteCheck,
       AwaitWrite, Finish, wireVars
  <2>3. LoopStep \/ Reconnect \/ Recovered \/ UNCHANGED vars => UNCHANGED <<wire, inbox>>
    BY LoopFrame DEF Reconnect, Recovered, vars, wireVars
  <2>4. \A t \in Server : Complete(t) => UNCHANGED <<wire, inbox>>
    BY DEF Complete
  <2>5. QED BY <2>1, <2>2, <2>3, <2>4, Steps
<1>11. QED BY <1>1, <1>2, <1>3, <1>4, <1>5, <1>6, <1>7, <1>8, <1>9, <1>10

\* What the event loop has in hand.
LEMMA HandFrom ==
    ASSUME IInv, Whole', [Next]_vars
    PROVE  \/ hand' = hand \/ hand'.m \notin Effective \cup {"written"}
           \/ \E s \in Server : hand' \in In(back[s])
           \/ HandleWrite /\ hand.m = "write" /\ hand'.m = "written"
<1>0. Typed /\ Outstanding(Lasting)
  BY DEF IInv
<1>1. Idle.m = "nothing"
  BY DEF Idle
<1>2. CASE LoopStep
  BY <1>1, <1>2 DEF LoopStep, HandleMalloc, HandleKeys, HandleError, HandleNull, HandleWrite,
     HandleWritten, HandleRead, HandleSend, InHand, Effective, Transfers
<1>3. CASE \E s \in Server : Complete(s)
  BY <1>0, <1>3, LeftBy DEF Complete
<1>4. \/ hand' = hand \/ LoopStep \/ \E s \in Server : Complete(s)
  BY Steps, CallerFrame, ThreadFrame DEF ServerStep, ServeMalloc, ServeFree, ServeSend, Transfer,
     Lose, Reconnect, Recovered, vars
<1>5. QED BY <1>2, <1>3, <1>4
-----------------------------------------------------------------------------
(* What dhmp_send has of the table.                                        *)

\* dhmp_send goes on with its entry whatever happens to the table.  As long
\* as no dhmp_send is wild, the entry stays in the table.
SendEntries ==
    /\ \A c \in Caller : st[c] \in Sent =>
         /\ sat[c] \in In(table)
         /\ inf[sat[c]].srv = call[c].srv /\ inf[sat[c]].addr = call[c].blk
    /\ \A s \in Server : \A x \in In(wire[s]) \cup In(inbox[s]) :
         x.m = "send" => s = call[x.c].srv /\ x.b = call[x.c].blk

\* Whose request it is.
LEMMA SenderFacts ==
    ASSUME Calls, NEW c \in Caller,
           st[c] \in {"lookup", "check", "post", "await", "received", "crashed"}
    PROVE  /\ call[c] \in Request /\ call[c] # NoCall /\ call[c].op \in Direct
           /\ call[c].srv \in Server /\ call[c].blk \in Block /\ call[c].val \in Value
<1>1. call[c] # NoCall /\ call[c].op \in Direct /\ call[c] \in Request
  BY DEF Calls
<1>2. call[c].op # "malloc"
  BY <1>1 DEF Direct
<1>3. QED BY <1>1, <1>2, RequestFacts

LEMMA TableSteps ==
    ASSUME Whole', [Next]_vars
    PROVE  table' = table \/ AwaitMalloc \/ FreeLookup
<1>1. ThreadStep => table' = table \/ AwaitMalloc \/ FreeLookup
  BY DEF ThreadStep, TakeWork, PostMalloc, FreePost, AwaitFree, Lookup, ReadPost, AwaitRead,
     WriteCheck, WritePost, AwaitWrite, Finish, tableVars
<1>2. QED BY <1>1, Steps, CallerFrame, LoopFrame DEF ServerStep, ServeMalloc, ServeFree, ServeSend,
      Transfer, Complete, Lose, Reconnect, Recovered, vars, tableVars

\* While somebody sends to a block, no entry of the block goes.
LEMMA SendersKeep ==
    ASSUME IInv, Books, Straight, Whole, Whole', [Next]_vars, ~Wild, NEW c \in Caller,
           st[c] \in {"lookup", "check", "post", "await", "received", "crashed"},
           NEW j \in In(table), inf[j].srv = call[c].srv, inf[j].addr = call[c].blk
    PROVE  j \in In(table)'
<1>0. Typed /\ WorkIsLive /\ Calls /\ Table
  BY GoodFacts
<1>1. ASSUME FreeLookup PROVE j \in In(table)'
  <2>1. who \in Caller /\ MyCall \in Request /\ MyCall.op = "free" /\ MyCall = call[who]
    BY <1>0, <1>1, MyCallFacts, PlaceTells DEF FreeLookup
  <2>2. CASE ~Found(MyCall.srv, MyCall.blk)
    BY <1>1, <2>2 DEF FreeLookup, In
  <2>3. CASE Found(MyCall.srv, MyCall.blk)
    <3> DEFINE k == Entry(MyCall.srv, MyCall.blk)
    <3>1. /\ k \in DOMAIN table /\ table' = Drop(table, k)
          /\ inf[table[k]].addr = MyCall.blk
      BY <1>0, <1>1, <2>3, EntryFacts DEF FreeLookup, Table
    <3>2. inf[table[k]].srv = MyCall.srv
      BY <1>1, <2>3 DEF Straight, Foreign
    <3>3. j # table[k]
      <4>1. call[c] # NoCall /\ call[c].op \in {"send", "fetch"}
        BY <1>0, SenderFacts DEF Direct
      <4>2. call[who] # NoCall
        BY <2>1, RequestFacts
      <4>3. ~Frees(who, call[c])
        BY <2>1, <4>1 DEF Wild
      <4>4. QED BY <2>1, <3>1, <3>2, <4>2, <4>3 DEF Frees
    <3>4. PICK m \in DOMAIN table \ {k} : j = table[m]
      BY <3>3 DEF In
    <3>5. PICK n \in DOMAIN table' : table'[n] = table[m]
      BY <1>0, <3>1, <3>4, DropFacts DEF Table
    <3>6. QED BY <3>4, <3>5 DEF In
  <2>4. QED BY <1>1, <2>2, <2>3
<1>2. ASSUME AwaitMalloc PROVE j \in In(table)'
  <2>1. at \in Info /\ (table' = table \/ table' = <<at>> \o table)
    BY <1>2, AwaitMallocStruct
  <2>2. CASE table' = <<at>> \o table
    <3>1. \A n \in DOMAIN table : n + 1 \in DOMAIN table' /\ table'[n + 1] = table[n]
      BY <1>0, <2>1, <2>2, PushFacts DEF Table
    <3>2. QED BY <3>1 DEF In
  <2>3. QED BY <2>1, <2>2 DEF In
<1>3. table' = table => j \in In(table)'
  BY DEF In
<1>4. QED BY <1>1, <1>2, <1>3, TableSteps

\* Who sends goes on sending, or starts with the entry that is found.
LEMMA SentFrom ==
    ASSUME IInv, Shape, Whole', [Next]_vars, NEW c \in Caller, st'[c] \in Sent
    PROVE  /\ call'[c] = call[c]
           /\ \/ st[c] \in Sent /\ sat'[c] = sat[c]
              \/ /\ SendLookup(c) /\ Found(call[c].srv, call[c].blk)
                 /\ sat'[c] = table[Entry(call[c].srv, call[c].blk)]
<1>0. /\ Typed /\ st \in [Caller -> State] /\ sat \in [Caller -> Info \cup {0}]
      /\ Calls /\ call \in [Caller -> Request \cup {NoCall}] /\ WorkIsLive
  BY DEF IInv, Typed, Shape, Calls
<1>1. ASSUME NEW d \in Caller, d # c, Call(d) \/ Return(d) \/ SendStep(d)
      PROVE  st'[c] = st[c] /\ sat'[c] = sat[c] /\ call'[c] = call[c]
  <2>1. CASE Call(d)
    BY <1>0, <1>1, <2>1 DEF Call, CallMalloc, CallWork, CallSend, Asks, Queued
  <2>2. CASE Return(d) \/ SendStep(d)
    BY <1>0, <1>1, <2>2 DEF Return, SendStep, SendLookup, SendCheck, SendPost, SendOut
  <2>3. QED BY <1>1, <2>1, <2>2
<1>2. ~Call(c) /\ ~Return(c) /\ ~SendOut(c)
  BY <1>0 DEF Call, CallMalloc, CallWork, CallSend, Asks, Queued, Return, SendOut, Sent
<1>3. ASSUME SendLookup(c)
      PROVE  /\ call'[c] = call[c] /\ Found(call[c].srv, call[c].blk)
             /\ sat'[c] = table[Entry(call[c].srv, call[c].blk)]
  <2>1. Found(call[c].srv, call[c].blk) /\ call' = call
    BY <1>0, <1>3 DEF SendLookup, Sent
  <2>2. QED BY <1>0, <1>3, <2>1 DEF SendLookup
<1>4. SendCheck(c) \/ SendPost(c) => st[c] \in Sent /\ UNCHANGED <<sat, call>>
  BY DEF SendCheck, SendPost, Sent
<1>5. ASSUME ThreadStep PROVE st[c] \in Sent /\ UNCHANGED <<sat, call>>
  <2>1. CASE Finish
    BY <1>0, <1>5, <2>1, ThreadFrame DEF Finish, Sent
  <2>2. CASE ~Finish
    BY <1>5, <2>2, ThreadFrame DEF ThreadStep, TakeWork, PostMalloc, AwaitMalloc, Take, FreeLookup, FreePost,
       AwaitFree, Lookup, ReadPost, AwaitRead, WriteCheck, WritePost, AwaitWrite, callVars
  <2>3. QED BY <2>1, <2>2
<1>6. ASSUME LoopStep PROVE st[c] \in Sent /\ UNCHANGED <<sat, call>>
  <2>1. CASE HandleSend
    BY <1>0, <1>6, <2>1, LoopFrame DEF HandleSend, Sent
  <2>2. CASE ~HandleSend
    BY <1>6, <2>2, LoopFrame DEF LoopStep, HandleMalloc, HandleKeys, HandleError, HandleNull, HandleWrite,
       HandleWritten, HandleRead, callVars
  <2>3. QED BY <2>1, <2>2
<1>7. UNCHANGED vars \/ Reconnect \/ Recovered \/
        (\E s \in Server : Transfer(s) \/ ServerStep(s) \/ Complete(s) \/ Lose(s))
        => st[c] \in Sent /\ UNCHANGED <<sat, call>>
  BY DEF ServerStep, ServeMalloc, ServeFree, ServeSend, Transfer, Complete, Lose, Reconnect, Recovered,
     vars, callVars
<1>8. QED BY <1>1, <1>2, <1>3, <1>4, <1>5, <1>6, <1>7, Steps DEF SendStep

\* A request that is on its way stays whose it is.
LEMMA AskerStays ==
    ASSUME IInv, Whole', [Next]_vars, NEW c \in Caller, st[c] \in {"lookup", "check", "post", "await"}
    PROVE  call'[c] = call[c]
<1>0. /\ Typed /\ st \in [Caller -> State]
      /\ Calls /\ call \in [Caller -> Request \cup {NoCall}]
  BY DEF IInv, Typed, Calls
<1>1. ASSUME NEW d \in Caller, Call(d) \/ Return(d) \/ SendStep(d)
      PROVE  call'[c] = call[c]
  <2>1. CASE Call(d)
    BY <1>0, <1>1, <2>1 DEF Call, CallMalloc, CallWork, CallSend, Asks
  <2>2. CASE Return(d) \/ SendStep(d)
    BY <1>0, <1>1, <2>2 DEF Return, SendStep, SendLookup, SendCheck, SendPost, SendOut
  <2>3. QED BY <1>1, <2>1, <2>2
<1>2. QED BY <1>1, Steps, ThreadFrame, LoopFrame DEF ServerStep, ServeMalloc, ServeFree, ServeSend,
          Transfer, Complete, Lose, Reconnect, Recovered, vars, callVars

LEMMA SendEntriesNext ==
    ASSUME Straight, IInv, Books, Whole, Whole', [Next]_vars, ~Wild, SendEntries
    PROVE  SendEntries'
<1>0. /\ Typed /\ Calls /\ Shape /\ Table /\ Outstanding(Every) /\ Sound(Every)
  BY GoodFacts
<1>1. ASSUME NEW c \in Caller, st'[c] \in Sent
      PROVE  /\ sat'[c] \in In(table)'
             /\ inf'[sat'[c]].srv = call'[c].srv /\ inf'[sat'[c]].addr = call'[c].blk
  <2>1. /\ call'[c] = call[c]
        /\ \/ st[c] \in Sent /\ sat'[c] = sat[c]
           \/ /\ SendLookup(c) /\ Found(call[c].srv, call[c].blk)
              /\ sat'[c] = table[Entry(call[c].srv, call[c].blk)]
    BY <1>0, <1>1, SentFrom
  <2>2. st[c] \in {"lookup", "check", "post", "await"}
    BY <2>1 DEF SendLookup, Sent
  <2>3. call[c].srv \in Server /\ call[c].blk \in Block
    BY <1>0, <2>2, SenderFacts
  <2>4. /\ sat'[c] \in In(table)
        /\ inf[sat'[c]].srv = call[c].srv /\ inf[sat'[c]].addr = call[c].blk
    <3>1. CASE st[c] \in Sent /\ sat'[c] = sat[c]
      BY <3>1 DEF SendEntries
    <3>2. CASE /\ SendLookup(c) /\ Found(call[c].srv, call[c].blk)
               /\ sat'[c] = table[Entry(call[c].srv, call[c].blk)]
      <4>1. ~Foreign(call[c])
        BY <3>2 DEF Straight
      <4>2. QED BY <1>0, <2>3, <3>2, <4>1, EntryFacts DEF Table, Foreign
    <3>3. QED BY <2>1, <3>1, <3>2
  <2>5. Alike(inf'[sat'[c]], inf[sat'[c]])
    BY <2>4, EntriesAlike
  <2>6. sat'[c] \in In(table)'
    BY <2>2, <2>4, SendersKeep
  <2>7. QED BY <2>1, <2>4, <2>5, <2>6 DEF Alike
<1>2. ASSUME NEW s \in Server, NEW x \in In(wire'[s]) \cup In(inbox'[s]), x.m = "send"
      PROVE  s = call'[x.c].srv /\ x.b = call'[x.c].blk
  <2>1. CASE x \in In(wire[s]) \cup In(inbox[s])
    <3>1. x.c \in Caller /\ st[x.c] = "await"
      BY <1>0, <1>2, <2>1, PlaceAbout DEF About
    <3>2. call'[x.c] = call[x.c]
      BY <3>1, AskerStays
    <3>3. QED BY <1>2, <2>1, <3>2 DEF SendEntries
  <2>2. CASE \E c \in Caller : /\ SendPost(c) /\ s = call[c].srv
                               /\ x.m = "send" /\ x.c = c /\ x.b = inf[sat[c]].addr
    <3>1. PICK c \in Caller : /\ SendPost(c) /\ s = call[c].srv
                              /\ x.c = c /\ x.b = inf[sat[c]].addr
      BY <2>2
    <3>2. st[c] \in Sent /\ call' = call
      BY <3>1 DEF SendPost, Sent
    <3>3. QED BY <3>1, <3>2 DEF SendEntries
  <2>3. QED BY <1>2, <2>1, <2>2, RequestsFrom DEF Effective
<1>3. QED BY <1>1, <1>2 DEF SendEntries
-----------------------------------------------------------------------------
(* When requests have taken effect.                                        *)

Untold == {"idle", "lookup", "check", "post"}
Ahead  == {"malloc", "await_malloc", "free", "read", "read_spin", "write", "write_spin", "write_post"}
Behind == {"free_post", "await_free", "finish"}

\* The read has been done, and the caller is going to be told this.
Fetched == res[who] = buf[smr].data /\ res[who] # Pending

\* The request in message x has not taken effect; that whose answer x is has.
Open(x)    == /\ x.m \in Transfers => res[who] = Pending
              /\ x.m = "send" => res[x.c] = Pending
Settled(x) == /\ x.m = "read" => Fetched
              /\ x.m \in {"write", "written"} => res[who] # Pending
              /\ x.m = "send" => res[x.c] # Pending

CallerOutcome ==
    /\ \A c \in Caller : /\ st[c] \in Untold => res[c] = Pending
                         /\ st[c] \in {"received", "done"} => res[c] # Pending
    /\ \A k \in DOMAIN works : res[works[k]] = Pending
ThreadOutcome ==
    /\ pc \in Ahead => res[who] = Pending
    /\ pc \in Behind => res[who] # Pending
    /\ pc = "await_read" /\ "read" \in flags => Fetched
    /\ pc = "await_write" /\ "write" \in flags => res[who] # Pending
MessageOutcome ==
    /\ \A s \in Server : \A x \in In(wire[s]) \cup In(inbox[s]) : Open(x)
    /\ \A s \in Server : \A x \in In(back[s]) : Settled(x)
    /\ Settled(hand)
Result == Value \cup Address \cup {Null, Pending}
Outcome == res \in [Caller -> Result] /\ CallerOutcome /\ ThreadOutcome /\ MessageOutcome

\* The thread waits for the answer to a transfer.
Transferring == \/ pc = "await_read" /\ "read" \notin flags
                \/ pc = "await_write" /\ "write" \notin flags

\* Steps by which no request on the way takes effect.
LEMMA OnTheWay ==
    ASSUME IInv, Outcome,
           \A d \in Caller : st[d] = "await" => res'[d] = res[d],
           Transferring => who' = who /\ res'[who] = res[who] /\ buf'[smr'].data = buf[smr].data
    PROVE  /\ \A s \in Server : \A x \in In(wire[s]) \cup In(inbox[s]) : Open(x)'
           /\ \A s \in Server : \A x \in In(back[s]) : Settled(x)'
           /\ \A x : x = hand => Settled(x)'
<1>0. Outstanding(Lasting) /\ Sound(Lasting) /\ MessageOutcome
  BY DEF IInv, Sound, Outcome
<1>1. ASSUME NEW x, About(Lasting, x)
      PROVE  (Open(x) => Open(x)') /\ (Settled(x) => Settled(x)')
  <2>1. CASE x.m = "send"
    BY <1>1, <2>1 DEF About, Open, Settled, Transfers
  <2>2. CASE x.m \in Transfers \cup {"written"}
    <3>1. Transferring
      BY <1>1, <2>2 DEF About, Transferring, Transfers
    <3>2. QED BY <2>2, <3>1 DEF Open, Settled, Transfers, Fetched
  <2>3. CASE x.m \notin Effective \cup {"written"}
    BY <2>3 DEF Open, Settled, Transfers, Effective
  <2>4. QED BY <2>1, <2>2, <2>3 DEF Effective
<1>2. /\ About(Lasting, hand)
      /\ \A s \in Server : \A x \in In(wire[s]) \cup In(inbox[s]) \cup In(back[s]) : About(Lasting, x)
  BY <1>0, HandAbout, PlaceAbout
<1>3. QED BY <1>0, <1>1, <1>2 DEF MessageOutcome

\* A step that neither posts nor answers a send or a transfer.
LEMMA MessagesQuiet ==
    ASSUME IInv, Outcome, Whole', [Next]_vars,
           \A d \in Caller : st[d] = "await" => res'[d] = res[d],
           Transferring => who' = who /\ res'[who] = res[who] /\ buf'[smr'].data = buf[smr].data,
           \A s \in Server : \A x \in In(back'[s]) :
               x \in In(back[s]) \/ x.m \notin Effective \cup {"written"}
    PROVE  MessageOutcome'
<1>r. (ReadPost \/ WritePost) => res'[who'] = Pending
  BY DEF ReadPost, WritePost, callVars, Outcome, ThreadOutcome, Ahead
<1>s. \A c \in Caller : SendPost(c) => res'[c] = Pending
  BY DEF SendPost, Outcome, CallerOutcome, Untold
<1>1. /\ \A s \in Server : \A x \in In(wire[s]) \cup In(inbox[s]) : Open(x)'
      /\ \A s \in Server : \A x \in In(back[s]) : Settled(x)'
      /\ \A x : x = hand => Settled(x)'
  BY OnTheWay
<1>2. ASSUME NEW s \in Server, NEW x \in In(wire'[s]) \cup In(inbox'[s]) PROVE Open(x)'
  <2>1. CASE x \in In(wire[s]) \cup In(inbox[s])
    BY <1>1, <2>1
  <2>2. CASE x.m \notin Effective
    BY <2>2 DEF Open, Effective, Transfers
  <2>3. CASE (ReadPost \/ WritePost) /\ x.m # "send"
    BY <1>r, <2>3 DEF Open
  <2>4. CASE \E c \in Caller : SendPost(c) /\ x.m = "send" /\ x.c = c
    BY <1>s, <2>4 DEF Open, Transfers
  <2>5. QED BY <2>1, <2>2, <2>3, <2>4, RequestsFrom
<1>3. ASSUME NEW s \in Server, NEW x \in In(back'[s]) PROVE Settled(x)'
  <2>1. CASE x \in In(back[s])
    BY <1>1, <2>1
  <2>2. CASE x.m \notin Effective \cup {"written"}
    BY <2>2 DEF Settled, Effective, Transfers
  <2>3. QED BY <2>1, <2>2
<1>4. Settled(hand)'
  <2>1. CASE hand' = hand
    <3>1. PICK x : x = hand
      OBVIOUS
    <3>2. Settled(x)' /\ hand' = x
      BY <1>1, <2>1, <3>1
    <3>3. QED BY <3>2 DEF Settled
  <2>2. CASE hand'.m \notin Effective \cup {"written"}
    BY <2>2 DEF Settled, Effective, Transfers
  <2>3. CASE \E s \in Server : hand' \in In(back[s])
    <3>1. PICK s \in Server : \E x \in In(back[s]) : hand' = x
      BY <2>3
    <3>x. PICK x \in In(back[s]) : hand' = x
      BY <3>1
    <3>2. Settled(x)'
      BY <1>1
    <3>3. QED BY <3>x, <3>2 DEF Settled
  <2>4. CASE HandleWrite /\ hand.m = "write" /\ hand'.m = "written"
    <3>1. res[who] # Pending /\ res' = res /\ who' = who
      BY <2>4 DEF Outcome, MessageOutcome, Settled, HandleWrite, callVars, threadVars
    <3>2. QED BY <2>4, <3>1 DEF Settled
  <2>5. QED BY <2>1, <2>2, <2>3, <2>4, HandFrom
<1>5. QED BY <1>2, <1>3, <1>4 DEF MessageOutcome

\* What a step of a caller does to it and to the answers.
LEMMA CallerTurn ==
    ASSUME Typed, res \in [Caller -> Result], NEW c \in Caller, Call(c) \/ Return(c) \/ SendStep(c)
    PROVE  /\ \A d \in Caller : d # c => st'[d] = st[d] /\ res'[d] = res[d]
           /\ res' \in [Caller -> Result] /\ st'[c] \in State
           /\ \/ /\ st[c] = "idle" /\ st'[c] \in {"waiting", "lookup"} /\ res'[c] = res[c]
                 /\ st'[c] = "waiting" => works' = Append(works, c)
                 /\ st'[c] = "lookup" => works' = works
              \/ st[c] = "done" /\ st'[c] = "idle" /\ res'[c] = Pending /\ works' = works
              \/ /\ st[c] \in {"lookup", "check", "post", "received"} /\ res'[c] = res[c] /\ works' = works
                 /\ st'[c] \in {"check", "post", "await", "crashed", "done"}
                 /\ st'[c] \in {"check", "post"} => st[c] \in {"lookup", "check"}
                 /\ st'[c] = "done" => st[c] = "received"
<1>0. st \in [Caller -> State]
  BY DEF Typed
<1>1. CASE Call(c)
  <2>1. /\ st[c] = "idle" /\ res' = res
        /\ \/ Queued(c)
           \/ st' = [st EXCEPT ![c] = "lookup"] /\ works' = works
    BY <1>1 DEF Call, CallMalloc, CallWork, CallSend, Asks
  <2>2. QED BY <1>0, <2>1 DEF Queued, State
<1>2. CASE Return(c)
  BY <1>0, <1>2 DEF Return, State, Result
<1>3. CASE SendStep(c)
  <2>1. /\ res' = res /\ works' = works
        /\ \/ st[c] = "lookup" /\ (st' = [st EXCEPT ![c] = "check"] \/ st' = [st EXCEPT ![c] = "crashed"])
           \/ st[c] = "check" /\ st' = [st EXCEPT ![c] = "post"]
           \/ st[c] = "post" /\ st' = [st EXCEPT ![c] = "await"]
           \/ st[c] = "received" /\ st' = [st EXCEPT ![c] = "done"]
    BY <1>3 DEF SendStep, SendLookup, SendCheck, SendPost, SendOut
  <2>2. QED BY <1>0, <2>1 DEF State
<1>4. QED BY <1>1, <1>2, <1>3

LEMMA CallerTells ==
    ASSUME IInv, Outcome, Whole', [Next]_vars, NEW c \in Caller, Call(c) \/ Return(c) \/ SendStep(c)
    PROVE  Outcome'
<1>0. /\ Typed /\ WorkIsLive /\ st \in [Caller -> State] /\ works \in Seq(Caller)
      /\ res \in [Caller -> Result] /\ CallerOutcome /\ ThreadOutcome
  BY DEF IInv, Typed, Outcome
<1>1. /\ \A d \in Caller : d # c => st'[d] = st[d] /\ res'[d] = res[d]
      /\ res' \in [Caller -> Result] /\ st'[c] \in State
      /\ \/ /\ st[c] = "idle" /\ st'[c] \in {"waiting", "lookup"} /\ res'[c] = res[c]
            /\ st'[c] = "waiting" => works' = Append(works, c)
            /\ st'[c] = "lookup" => works' = works
         \/ st[c] = "done" /\ st'[c] = "idle" /\ res'[c] = Pending /\ works' = works
         \/ /\ st[c] \in {"lookup", "check", "post", "received"} /\ res'[c] = res[c] /\ works' = works
            /\ st'[c] \in {"check", "post", "await", "crashed", "done"}
            /\ st'[c] \in {"check", "post"} => st[c] \in {"lookup", "check"}
            /\ st'[c] = "done" => st[c] = "received"
  BY <1>0, CallerTurn
<1>2. UNCHANGED <<pc, who, smr, flags, buf, back>>
  BY CallerFrame DEF threadVars, poolVars
<1>3. \A d \in Caller : st[d] \in {"waiting", "await"} => res'[d] = res[d]
  BY <1>1
<1>4. pc # "take" => who \in Caller /\ res'[who] = res[who]
  BY <1>0, <1>3 DEF Typed, WorkIsLive
<1>5. ThreadOutcome'
  BY <1>0, <1>2, <1>4 DEF ThreadOutcome, Ahead, Behind, Fetched
<1>6. CallerOutcome'
  <2>1. \A d \in Caller : /\ st'[d] \in Untold => res'[d] = Pending
                          /\ st'[d] \in {"received", "done"} => res'[d] # Pending
    <3> TAKE d \in Caller
    <3>1. CASE d # c
      BY <1>0, <1>1, <3>1 DEF CallerOutcome
    <3>2. CASE d = c
      BY <1>0, <1>1, <3>2 DEF CallerOutcome, Untold
    <3>3. QED BY <3>1, <3>2
  <2>2. \A k \in DOMAIN works : works[k] \in Caller /\ res[works[k]] = Pending
                                /\ st[works[k]] = "waiting"
    BY <1>0 DEF CallerOutcome, WorkIsLive
  <2>3. \A k \in DOMAIN works' : res'[works'[k]] = Pending
    <3>1. CASE works' = works
      BY <1>3, <2>2, <3>1
    <3>2. CASE works' = Append(works, c) /\ st[c] = "idle" /\ res'[c] = res[c]
      <4>1. \A k \in DOMAIN works' : works'[k] = c \/ (k \in DOMAIN works /\ works'[k] = works[k])
        BY <1>0, <3>2
      <4>2. res[c] = Pending
        BY <1>0, <3>2 DEF CallerOutcome, Untold
      <4>3. QED BY <1>3, <2>2, <3>2, <4>1, <4>2
    <3>3. QED BY <1>1, <3>1, <3>2
  <2>4. QED BY <2>1, <2>3 DEF CallerOutcome
<1>7. MessageOutcome'
  <2>1. Transferring => pc # "take"
    BY DEF Transferring
  <2>2. QED BY <1>2, <1>3, <1>4, <2>1, MessagesQuiet
<1>8. QED BY <1>1, <1>5, <1>6, <1>7 DEF Outcome

\* What a step of the work thread tells the caller it serves.
LEMMA ThreadTurn ==
    ASSUME IInv, Books, Whole, Outcome, ThreadStep
    PROVE  /\ res' \in [Caller -> Result] /\ ~Transferring
           /\ \A d \in Caller : d # who => res'[d] = res[d]
           /\ pc = "take" => res' = res
           /\ ThreadOutcome'
<1>0. /\ Typed /\ WorkIsLive /\ Calls /\ res \in [Caller -> Result]
      /\ CallerOutcome /\ ThreadOutcome /\ HeldStruct /\ Pending # Null
  BY GoodFacts, AnswerAssumption DEF Outcome
<1>1. ASSUME NEW x \in Result \ {Pending}, Told(x), pc # "take", pc' \in Behind, who' = who
      PROVE  /\ res' \in [Caller -> Result] /\ \A d \in Caller : d # who => res'[d] = res[d]
             /\ ThreadOutcome'
  <2>1. who \in Caller
    BY <1>0, <1>1 DEF Typed
  <2>2. res' \in [Caller -> Result] /\ res'[who] = x /\ \A d \in Caller : d # who => res'[d] = res[d]
    BY <1>0, <1>1, <2>1 DEF Told
  <2>3. QED BY <1>1, <2>2 DEF ThreadOutcome, Ahead, Behind
<1>2. CASE TakeWork
  <2>1. pc = "take" /\ works # <<>> /\ who' = Head(works) /\ res' = res /\ pc' = call[Head(works)].op
    BY <1>2 DEF TakeWork, callVars
  <2>2. res[who'] = Pending /\ st[who'] = "waiting" /\ who' \in Caller
    <3>1. Head(works) = works[1] /\ 1 \in DOMAIN works /\ Head(works) \in Caller
      BY <1>0, <2>1, WorksTail
    <3>2. QED BY <1>0, <2>1, <3>1 DEF CallerOutcome, WorkIsLive
  <2>3. pc' \in {"malloc", "free", "read", "write"}
    BY <1>0, <2>1, <2>2 DEF Calls, Worked, Transfers
  <2>4. ThreadOutcome'
    BY <2>1, <2>2, <2>3 DEF ThreadOutcome, Ahead, Behind
  <2>5. QED BY <1>0, <2>1, <2>4 DEF Transferring
<1>3. CASE PostMalloc \/ WriteCheck
  BY <1>0, <1>3 DEF PostMalloc, WriteCheck, callVars, Goto, ThreadOutcome, Ahead, Behind, Transferring
<1>4. CASE FreePost \/ AwaitFree \/ AwaitWrite
  BY <1>0, <1>4 DEF FreePost, AwaitFree, AwaitWrite, callVars, Goto, ThreadOutcome, Ahead, Behind,
     Transferring
<1>5. CASE ReadPost \/ WritePost
  <2>1. /\ pc \in Ahead /\ pc \notin {"take", "await_read", "await_write"}
        /\ pc' \in {"await_read", "await_write"} /\ flags' = {} /\ UNCHANGED <<res, who>>
    BY <1>5 DEF ReadPost, WritePost, callVars, Goto, Ahead
  <2>2. QED BY <1>0, <2>1 DEF ThreadOutcome, Ahead, Behind, Transferring
<1>6. CASE Finish
  BY <1>0, <1>6 DEF Finish, ThreadOutcome, Ahead, Behind, Transferring
<1>7. CASE AwaitMalloc
  <2>1. Told(Null) \/ (inf[at].addr \in Block /\ Told(<<MyCall.srv, inf[at].addr>>))
    BY <1>7, AwaitMallocStruct
  <2>2. pc = "await_malloc" /\ pc' = "finish" /\ who' = who
    BY <1>7 DEF AwaitMalloc, Take, Goto
  <2>3. MyCall.srv \in Server
    BY <1>0, <2>2, MyCallFacts, RequestFacts
  <2>4. PICK x \in Result \ {Pending} : Told(x)
    <3>1. CASE Told(Null)
      BY <1>0, <3>1 DEF Result
    <3>2. CASE inf[at].addr \in Block /\ Told(<<MyCall.srv, inf[at].addr>>)
      <4>1. PICK x : x = <<MyCall.srv, inf[at].addr>>
        OBVIOUS
      <4>2. x \in Address
        BY <2>3, <3>2, <4>1 DEF Address
      <4>3. x \in Result \ {Pending} /\ Told(x)
        BY <3>2, <4>1, <4>2, AnswerAssumption DEF Result
      <4>4. QED BY <4>3
    <3>3. QED BY <2>1, <3>1, <3>2
  <2>5. QED BY <1>1, <2>2, <2>4 DEF Behind, Transferring
<1>8. CASE FreeLookup
  <2>1. /\ Told(Null) /\ pc = "free" /\ pc' \in {"free_post", "finish"} /\ who' = who
    BY <1>8 DEF FreeLookup, Goto
  <2>2. Null \in Result \ {Pending}
    BY <1>0 DEF Result
  <2>3. QED BY <1>1, <2>1, <2>2 DEF Behind, Transferring
<1>9. CASE Lookup
  <2>1. /\ pc \in {"read", "write"} /\ who' = who
        /\ \/ pc' \in {"read_spin", "write_spin"} /\ res' = res
           \/ pc' = "finish" /\ Told(Null)
    BY <1>9 DEF Lookup, Goto
  <2>2. Null \in Result \ {Pending}
    BY <1>0 DEF Result
  <2>3. CASE pc' = "finish" /\ Told(Null)
    BY <1>1, <2>1, <2>2, <2>3 DEF Behind, Transferring
  <2>4. CASE pc' \in {"read_spin", "write_spin"} /\ res' = res
    BY <1>0, <2>1, <2>4 DEF ThreadOutcome, Ahead, Behind, Transferring
  <2>5. QED BY <2>1, <2>3, <2>4
<1>10. CASE AwaitRead
  <2>1. pc = "await_read" /\ "read" \in flags /\ Told(buf[smr].data) /\ pc' = "finish" /\ who' = who
    BY <1>10 DEF AwaitRead, Goto
  <2>2. Fetched /\ who \in Caller
    BY <1>0, <2>1 DEF ThreadOutcome, Typed
  <2>3. buf[smr].data \in Result \ {Pending}
    BY <1>0, <2>2 DEF Fetched
  <2>4. QED BY <1>1, <2>1, <2>3 DEF Behind, Transferring
<1>11. QED BY <1>2, <1>3, <1>4, <1>5, <1>6, <1>7, <1>8, <1>9, <1>10 DEF ThreadStep

LEMMA ThreadTells ==
    ASSUME IInv, Books, Whole, Outcome, Whole', [Next]_vars, ThreadStep
    PROVE  Outcome'
<1>0. /\ Typed /\ WorkIsLive /\ st \in [Caller -> State] /\ works \in Seq(Caller)
      /\ res \in [Caller -> Result] /\ CallerOutcome /\ ThreadOutcome
  BY DEF IInv, Typed, Outcome
<1>1. /\ res' \in [Caller -> Result] /\ ~Transferring
      /\ \A d \in Caller : d # who => res'[d] = res[d]
      /\ pc = "take" => res' = res
      /\ ThreadOutcome'
  BY ThreadTurn
<1>2. pc # "take" => /\ who \in Caller /\ st[who] = "waiting"
                     /\ \A k \in DOMAIN works : works[k] # who
  BY <1>0 DEF Typed, WorkIsLive
<1>3. \A d \in Caller : st[d] # "waiting" => res'[d] = res[d]
  BY <1>1, <1>2
<1>4. \A k \in DOMAIN works : works[k] \in Caller /\ res'[works[k]] = Pending
  <2>1. \A k \in DOMAIN works : works[k] \in Caller /\ res[works[k]] = Pending
    BY <1>0 DEF CallerOutcome
  <2>2. QED BY <1>1, <1>2, <2>1
<1>5. MessageOutcome'
  BY <1>1, <1>3, ThreadFrame, MessagesQuiet
<1>6. CallerOutcome'
  <2>1. CASE Finish
    <3>1. /\ pc = "finish" /\ st' = [st EXCEPT ![who] = "done"] /\ UNCHANGED <<res, works>>
      BY <2>1 DEF Finish
    <3>2. res[who] # Pending
      BY <1>0, <3>1 DEF ThreadOutcome, Behind
    <3>3. QED BY <1>0, <1>2, <3>1, <3>2 DEF CallerOutcome, Untold
  <2>2. CASE TakeWork
    <3>1. works # <<>> /\ works' = Tail(works) /\ UNCHANGED <<st, res>>
      BY <2>2 DEF TakeWork, callVars
    <3>2. \A k \in DOMAIN works' : k + 1 \in DOMAIN works /\ works'[k] = works[k + 1]
      BY <1>0, <3>1, WorksTail
    <3>3. QED BY <1>0, <3>1, <3>2 DEF CallerOutcome
  <2>3. CASE ~Finish /\ ~TakeWork
    <3>1. UNCHANGED <<st, works>>
      BY <2>3 DEF ThreadStep, PostMalloc, AwaitMalloc, Take, FreeLookup, FreePost, AwaitFree, Lookup, ReadPost,
         AwaitRead, WriteCheck, WritePost, AwaitWrite, callVars
    <3>2. QED BY <1>0, <1>3, <1>4, <3>1 DEF CallerOutcome, Untold
  <2>4. QED BY <2>1, <2>2, <2>3
<1>7. QED BY <1>1, <1>5, <1>6 DEF Outcome

\* What the event loop does not tell.
LEMMA LoopTells ==
    ASSUME IInv, Outcome, Whole', [Next]_vars, LoopStep
    PROVE  Outcome'
<1>0. /\ Typed /\ WorkIsLive /\ st \in [Caller -> State] /\ Outstanding(Lasting) /\ Sound(Lasting)
      /\ CallerOutcome /\ ThreadOutcome /\ Settled(hand)
  BY DEF IInv, Typed, Outcome, Sound, MessageOutcome
<1>1. UNCHANGED <<res, works, pc, who, smr, buf, back>>
  BY LoopFrame DEF wireVars
<1>2. \A f \in flags' : f \in flags \/ f = "check" \/ (f = "write" /\ hand.m = "written")
                        \/ (f = "read" /\ hand.m = "read")
  BY DEF LoopStep, HandleMalloc, HandleKeys, HandleError, HandleNull, HandleWrite,
     HandleWritten, HandleRead, HandleSend, InHand, threadVars
<1>3. ThreadOutcome'
  BY <1>0, <1>1, <1>2 DEF ThreadOutcome, Settled, Fetched
<1>4. CallerOutcome'
  <2>1. CASE st' = st
    BY <1>0, <1>1, <2>1 DEF CallerOutcome
  <2>2. CASE HandleSend
    <3>1. hand.m = "send" /\ st' = [st EXCEPT ![hand.c] = "received"]
      BY <2>2 DEF HandleSend, InHand
    <3>2. hand.c \in Caller /\ res[hand.c] # Pending
      BY <1>0, <3>1, HandAbout DEF About, Settled
    <3>3. QED BY <1>0, <1>1, <3>1, <3>2 DEF CallerOutcome, Untold
  <2>3. QED BY <2>1, <2>2 DEF LoopStep, HandleMalloc, HandleKeys, HandleError, HandleNull, HandleWrite,
       HandleWritten, HandleRead, callVars
<1>5. MessageOutcome'
  BY <1>1, MessagesQuiet
<1>6. QED BY <1>1, <1>3, <1>4, <1>5 DEF Outcome

\* Steps that tell nobody anything: only messages that have no effect, or
\* have had one, come and go.
LEMMA NothingTold ==
    ASSUME IInv, Outcome, Whole', [Next]_vars, UNCHANGED <<res, st, works, pc, who, smr, flags, buf>>,
           \A s \in Server : \A x \in In(back'[s]) :
               x \in In(back[s]) \/ x.m \notin Effective \cup {"written"}
    PROVE  Outcome'
<1>1. CallerOutcome' /\ ThreadOutcome'
  BY DEF Outcome, CallerOutcome, ThreadOutcome, Fetched
<1>2. MessageOutcome'
  BY MessagesQuiet
<1>3. QED BY <1>1, <1>2 DEF Outcome

LEMMA QuietTells ==
    ASSUME IInv, Outcome, Whole', [Next]_vars,
           \/ \E s \in Server : ServeMalloc(s) \/ ServeFree(s) \/ Complete(s) \/ Lose(s)
           \/ Reconnect \/ Recovered \/ UNCHANGED vars
    PROVE  Outcome'
<1>0. Typed /\ Outstanding(Lasting)
  BY DEF IInv
<1>1. UNCHANGED <<res, st, works, pc, who, smr, flags, buf>>
  BY DEF ServeMalloc, ServeFree, Complete, Lose, Reconnect, Recovered, vars, callVars, threadVars, poolVars
<1>2. ASSUME NEW t \in Server, ServeMalloc(t) \/ ServeFree(t) \/ Complete(t) \/ Lose(t)
      PROVE  \A s \in Server : \A x \in In(back'[s]) :
               x \in In(back[s]) \/ x.m \notin Effective \cup {"written"}
  <2>1. CASE ServeMalloc(t) \/ ServeFree(t)
    <3>1. PICK w : w = Head(inbox[t])
      OBVIOUS
    <3>2. \E y : Answer(t, y) /\ y.m \notin Effective \cup {"written"}
      <4>1. CASE ServeMalloc(t)
        <5>1. PICK b : \/ Answer(t, [m |-> "malloc", i |-> w.i, b |-> b, key |-> epoch[t]])
                       \/ Answer(t, [m |-> "error", i |-> w.i])
          BY <3>1, <4>1 DEF ServeMalloc
        <5>2. PICK y, z : /\ y = [m |-> "malloc", i |-> w.i, b |-> b, key |-> epoch[t]]
                          /\ z = [m |-> "error", i |-> w.i]
          OBVIOUS
        <5>3. Answer(t, y) \/ Answer(t, z)
          BY <5>1, <5>2
        <5>4. y.m \notin Effective \cup {"written"} /\ z.m \notin Effective \cup {"written"}
          BY <5>2 DEF Effective, Transfers
        <5>5. QED BY <5>3, <5>4
      <4>2. CASE ServeFree(t)
        <5>1. PICK y : y = [m |-> "free", i |-> w.i]
          OBVIOUS
        <5>2. Answer(t, y) /\ y.m \notin Effective \cup {"written"}
          BY <3>1, <4>2, <5>1 DEF ServeFree, Effective, Transfers
        <5>3. QED BY <5>2
      <4>3. QED BY <2>1, <4>1, <4>2
    <3>3. PICK y : Answer(t, y) /\ y.m \notin Effective \cup {"written"}
      BY <3>2
    <3>4. QED BY <1>0, <3>3, AnsweredFrom
  <2>2. CASE Complete(t)
    <3>1. back' = [back EXCEPT ![t] = Tail(@)] /\ back[t] # <<>>
      BY <2>2 DEF Complete
    <3>2. QED BY <1>0, <3>1, LeftBy
  <2>3. CASE Lose(t)
    BY <1>0, <2>3, LostFrom
  <2>4. QED BY <1>2, <2>1, <2>2, <2>3
<1>3. Reconnect \/ Recovered \/ UNCHANGED vars => back' = back
  BY DEF Reconnect, Recovered, vars, wireVars
<1>4. \A s \in Server : \A x \in In(back'[s]) :
               x \in In(back[s]) \/ x.m \notin Effective \cup {"written"}
  BY <1>2, <1>3
<1>5. QED BY <1>1, <1>4, NothingTold

\* The message that a server or its network card takes is the only one of
\* its kind, or of its caller.
LEMMA LeftAlone ==
    ASSUME IInv, NEW k \in Stage, Queue(k) # <<>>, NEW w, w = Head(Queue(k)), w.m \in Effective,
           NEW x, \/ x = hand
                  \/ x \in In(Tail(Queue(k)))
                  \/ \E j \in Stage : j # k /\ x \in In(Queue(j))
    PROVE  /\ w.m \in Transfers => x.m \notin Transfers \cup {"written"}
           /\ w.m = "send" /\ x.m = "send" => x.c # w.c
<1>0. Outstanding(Lasting) /\ Sound(Lasting) /\ IsSeq(Queue(k))
  BY DEF IInv, Sound, Outstanding, Once
<1>1. w \in In(Queue(k)) /\ In(Tail(Queue(k))) \subseteq In(Queue(k))
  BY <1>0, InQueue
<1>2. About(Lasting, w) /\ Marks(Lasting, w) \cap Marks(Lasting, hand) = {}
  BY <1>0, <1>1, QueueAbout
<1>3. About(Lasting, x)
  BY <1>0, <1>1, HandAbout, QueueAbout
<1>4. Marks(Lasting, x) \cap Marks(Lasting, w) = {}
  BY <1>0, <1>2, HeadIsOther
<1>5. /\ w.m = "send" => Marks(Lasting, w) = {<<"send", w.c>>}
      /\ w.m = "read" => Marks(Lasting, w) = {<<"read", 0>>}
      /\ w.m = "write" => Marks(Lasting, w) = {<<"write", w.i>>}
      /\ x.m = "send" => Marks(Lasting, x) = {<<"send", x.c>>}
      /\ x.m = "read" => Marks(Lasting, x) = {<<"read", 0>>}
      /\ x.m \in {"write", "written"} => Marks(Lasting, x) = {<<"write", x.i>>}
  BY <1>0, MarkFacts
<1>6. CASE w.m = "send"
  BY <1>4, <1>5, <1>6 DEF Transfers
<1>7. CASE w.m = "read"
  BY <1>2, <1>3, <1>4, <1>5, <1>7 DEF Transfers, About
<1>8. CASE w.m = "write"
  BY <1>2, <1>3, <1>4, <1>5, <1>8 DEF Transfers, About
<1>9. QED BY <1>6, <1>7, <1>8 DEF Effective, Transfers

\* A transfer takes effect.
LEMMA EffectTells ==
    ASSUME IInv, Outcome, NEW s \in Server, wire[s] # <<>>, NEW w, w = Head(wire[s]), w.m \in Transfers,
           Arrived(s), NEW y, y.m = w.m, Answer(s, y), NEW v \in Result \ {Pending},
           res' = [res EXCEPT ![who] = v], w.m = "read" => buf'[smr].data = v,
           UNCHANGED <<st, works, pc, who, smr, flags, inbox, hand>>
    PROVE  Outcome'
<1>0. /\ Typed /\ WorkIsLive /\ Outstanding(Lasting) /\ Sound(Lasting) /\ res \in [Caller -> Result]
      /\ CallerOutcome /\ ThreadOutcome /\ MessageOutcome
  BY DEF IInv, Outcome, Sound
<1>1. w \in In(wire[s])
  BY <1>0, LeftBy
<1>2. /\ w.m = "read" => pc = "await_read" /\ "read" \notin flags
      /\ w.m = "write" => pc = "await_write" /\ "write" \notin flags
  BY <1>0, <1>1, PlaceAbout DEF About
<1>3. pc # "take" /\ who \in Caller /\ st[who] = "waiting" /\ \A n \in DOMAIN works : works[n] # who
  BY <1>0, <1>2 DEF Transfers, WorkIsLive, Typed
<1>4. /\ res' \in [Caller -> Result] /\ res'[who] = v
      /\ \A d \in Caller : d # who => res'[d] = res[d]
  BY <1>0, <1>3
<1>5. CallerOutcome'
  <2>1. \A n \in DOMAIN works : works[n] \in Caller
    BY <1>0 DEF Typed
  <2>2. QED BY <1>0, <1>3, <1>4, <2>1 DEF CallerOutcome, Untold
<1>6. ThreadOutcome'
  BY <1>2 DEF ThreadOutcome, Transfers, Ahead, Behind
<1>7. <<"wire", s>> \in Stage /\ Queue(<<"wire", s>>) = wire[s]
  BY Stages
<1>8. ASSUME NEW x, \/ x = hand
                    \/ \E t \in Server : x \in In(wire'[t]) \cup In(inbox'[t]) \cup In(back[t])
      PROVE  x.m \notin Transfers \cup {"written"}
  <2>1. \A t \in Server : /\ t # s => wire'[t] = wire[t]
                          /\ t = s => wire'[t] = Tail(wire[s])
    BY <1>0 DEF Arrived, Typed
  <2>2. \/ x = hand
        \/ x \in In(Tail(wire[s]))
        \/ \E j \in Stage : j # <<"wire", s>> /\ x \in In(Queue(j))
    <3>1. ASSUME NEW t \in Server, x \in In(inbox[t]) \cup In(back[t])
          PROVE  \E j \in Stage : j # <<"wire", s>> /\ x \in In(Queue(j))
      <4>1. <<"inbox", t>> # <<"wire", s>> /\ <<"back", t>> # <<"wire", s>>
        OBVIOUS
      <4>2. QED BY <3>1, <4>1, Stages
    <3>2. ASSUME NEW t \in Server, x \in In(wire[t]), t # s
          PROVE  \E j \in Stage : j # <<"wire", s>> /\ x \in In(Queue(j))
      BY <3>2, Stages
    <3>3. QED BY <1>8, <2>1, <3>1, <3>2
  <2>3. QED BY <1>7, <2>2, LeftAlone DEF Effective
<1>9. ASSUME NEW x, x.m \notin Transfers \cup {"written"}, x.m = "send" => x.c \in Caller /\ st[x.c] = "await"
      PROVE  (Open(x) => Open(x)') /\ (Settled(x) => Settled(x)')
  BY <1>3, <1>4, <1>9 DEF Open, Settled, Transfers
<1>10. /\ About(Lasting, hand)
       /\ \A t \in Server : \A x \in In(wire[t]) \cup In(inbox[t]) \cup In(back[t]) : About(Lasting, x)
  BY <1>0, HandAbout, PlaceAbout
<1>11. \A t \in Server : In(wire'[t]) \subseteq In(wire[t])
  BY <1>0, LeftBy
<1>12. ASSUME NEW t \in Server, NEW x \in In(wire'[t]) \cup In(inbox'[t]) PROVE Open(x)'
  <2>1. x \in In(wire[t]) \cup In(inbox[t]) /\ x.m \notin Transfers \cup {"written"}
    BY <1>8, <1>11
  <2>2. QED BY <1>0, <1>9, <1>10, <2>1 DEF About, MessageOutcome
<1>13. ASSUME NEW t \in Server, NEW x \in In(back'[t]) PROVE Settled(x)'
  <2>1. x \in In(back[t]) \/ x = y
    BY <1>0, AnsweredFrom
  <2>2. CASE x \in In(back[t])
    BY <1>0, <1>8, <1>9, <1>10, <2>2 DEF About, MessageOutcome
  <2>3. CASE x = y
    BY <1>4, <2>3 DEF Settled, Fetched, Transfers
  <2>4. QED BY <2>1, <2>2, <2>3
<1>14. Settled(hand)'
  <2>1. PICK x : x = hand
    OBVIOUS
  <2>2. Settled(x)'
    BY <1>0, <1>8, <1>9, <1>10, <2>1 DEF About, MessageOutcome
  <2>3. QED BY <2>1, <2>2 DEF Settled
<1>15. QED BY <1>4, <1>5, <1>6, <1>12, <1>13, <1>14 DEF Outcome, MessageOutcome

\* What a server's network card does tells only the caller the thread serves.
LEMMA TransferTells ==
    ASSUME IInv, Books, Whole, Outcome, Whole', [Next]_vars, NEW s \in Server, Transfer(s)
    PROVE  Outcome'
<1>0. /\ Typed /\ WorkIsLive /\ Calls /\ Shape /\ Outstanding(Every) /\ Buffers /\ MessageOutcome
      /\ mem \in [Server -> [Block -> Value]]
  BY GoodFacts DEF Shape, Outcome
<1>w. PICK w : w = Head(wire[s])
  OBVIOUS
<1>1. wire[s] # <<>> /\ UNCHANGED <<st, works, pc, who, smr, flags, hand>>
  BY DEF Transfer, threadVars
<1>2. w \in In(wire[s])
  BY <1>0, <1>1, <1>w, LeftBy
<1>3. CASE UNCHANGED <<res, buf, back>>
  BY <1>1, <1>3, NothingTold
<1>4. CASE w.m = "check" /\ UNCHANGED <<res, buf>> /\ Answer(s, [m |-> "check"])
  <2>1. PICK y : y = [m |-> "check"]
    OBVIOUS
  <2>2. y.m \notin Effective \cup {"written"} /\ Answer(s, y)
    BY <1>4, <2>1 DEF Effective, Transfers
  <2>3. \A t \in Server : \A x \in In(back'[t]) :
               x \in In(back[t]) \/ x.m \notin Effective \cup {"written"}
    BY <1>0, <2>2, AnsweredFrom
  <2>4. QED BY <1>1, <1>4, <2>3, NothingTold
<1>5. CASE /\ w.m = "write" /\ res' = [res EXCEPT ![who] = Null] /\ Arrived(s) /\ inbox' = inbox
           /\ Answer(s, [m |-> "write", i |-> w.i, smr |-> w.smr])
  <2>1. PICK y : y = [m |-> "write", i |-> w.i, smr |-> w.smr]
    OBVIOUS
  <2>2. Answer(s, y) /\ y.m = w.m /\ w.m \in Transfers /\ w.m # "read"
    BY <1>5, <2>1 DEF Transfers
  <2>3. Null \in Result \ {Pending}
    BY AnswerAssumption DEF Result
  <2>4. QED BY <1>1, <1>5, <1>w, <2>2, <2>3, EffectTells
<1>6. CASE /\ w.m = "read" /\ res' = [res EXCEPT ![who] = mem[s][w.b]] /\ Arrived(s) /\ inbox' = inbox
           /\ buf' = [buf EXCEPT ![w.smr].data = mem[s][w.b]] /\ Answer(s, [m |-> "read"])
  <2>1. PICK y : y = [m |-> "read"]
    OBVIOUS
  <2>2. Answer(s, y) /\ y.m = w.m /\ w.m \in Transfers
    BY <1>6, <2>1 DEF Transfers
  <2>3. w.b \in Block /\ w.smr = smr
    BY <1>0, <1>2, <2>2, RequestAbout DEF Buffers, OfBuffer
  <2>4. mem[s][w.b] \in Result \ {Pending}
    BY <1>0, <2>3, ValueAssumption DEF Result
  <2>5. buf'[smr].data = mem[s][w.b]
    <3>1. /\ buf = [m \in Smr \cup {Own} |-> buf[m]] /\ smr \in Smr \cup {Own}
          /\ buf[smr] = [len |-> buf[smr].len, data |-> buf[smr].data]
      BY <1>0 DEF Buffers, BufferShape, Pooled
    <3>2. PICK v : v = mem[s][w.b]
      OBVIOUS
    <3>3. buf' = [buf EXCEPT ![smr] = [buf[smr] EXCEPT !.data = v]]
      BY <1>6, <2>3, <3>2
    <3>4. buf'[smr] = [buf[smr] EXCEPT !.data = v]
      BY <3>1, <3>3
    <3>5. [buf[smr] EXCEPT !.data = v].data = v
      BY <3>1
    <3>6. QED BY <3>2, <3>4, <3>5
  <2>6. QED BY <1>1, <1>6, <1>w, <2>2, <2>4, <2>5, EffectTells
<1>7. \/ UNCHANGED <<res, buf, back>>
      \/ w.m = "check" /\ UNCHANGED <<res, buf>> /\ Answer(s, [m |-> "check"])
      \/ /\ w.m = "write" /\ res' = [res EXCEPT ![who] = Null] /\ Arrived(s) /\ inbox' = inbox
         /\ Answer(s, [m |-> "write", i |-> w.i, smr |-> w.smr])
      \/ /\ w.m = "read" /\ res' = [res EXCEPT ![who] = mem[s][w.b]] /\ Arrived(s) /\ inbox' = inbox
         /\ buf' = [buf EXCEPT ![w.smr].data = mem[s][w.b]] /\ Answer(s, [m |-> "read"])
  BY <1>w DEF Transfer, Refuse
<1>8. QED BY <1>3, <1>4, <1>5, <1>6, <1>7

\* A send that the server handles tells its caller.
LEMMA SendTells ==
    ASSUME IInv, Books, Whole, Outcome, SendEntries, Whole', [Next]_vars, NEW s \in Server, ServeSend(s)
    PROVE  Outcome'
<1>0. /\ Typed /\ WorkIsLive /\ Calls /\ Shape /\ Outstanding(Lasting) /\ Sound(Lasting)
      /\ res \in [Caller -> Result] /\ CallerOutcome /\ ThreadOutcome /\ MessageOutcome
      /\ mem \in [Server -> [Block -> Value]]
  BY GoodFacts DEF Shape, Outcome, Sound, IInv, Typed
<1>w. PICK w : w = Head(inbox[s])
  OBVIOUS
<1>1. /\ inbox[s] # <<>> /\ w.m = "send" /\ Handled(s) /\ Answer(s, [m |-> "send", c |-> w.c])
      /\ UNCHANGED <<call, st, works, pc, who, at, smr, flags, buf, wire, hand>>
  BY <1>w DEF ServeSend, threadVars, poolVars
<1>2. w \in In(inbox[s])
  BY <1>0, <1>1, <1>w, LeftBy
<1>3. /\ w.c \in Caller /\ st[w.c] = "await"
      /\ s = call[w.c].srv /\ w.b = call[w.c].blk /\ w.b \in Block
  <2>1. w.c \in Caller /\ st[w.c] = "await"
    BY <1>0, <1>1, <1>2, PlaceAbout DEF About
  <2>2. s = call[w.c].srv /\ w.b = call[w.c].blk
    BY <1>1, <1>2 DEF SendEntries
  <2>3. QED BY <1>0, <2>1, <2>2, SenderFacts
<1>4. PICK v \in Result \ {Pending} : res' = [res EXCEPT ![w.c] = v]
  <2>1. Null \in Result \ {Pending}
    BY AnswerAssumption DEF Result
  <2>2. mem[s][w.b] \in Result \ {Pending}
    BY <1>0, <1>3, ValueAssumption DEF Result
  <2>3. res' = [res EXCEPT ![w.c] = Null] \/ res' = [res EXCEPT ![w.c] = mem[s][w.b]]
    BY <1>w DEF ServeSend
  <2>4. QED BY <2>1, <2>2, <2>3
<1>5. /\ res' \in [Caller -> Result] /\ res'[w.c] = v
      /\ \A d \in Caller : d # w.c => res'[d] = res[d]
  BY <1>0, <1>3, <1>4
<1>6. /\ pc # "take" => who \in Caller /\ res'[who] = res[who]
      /\ \A k \in DOMAIN works : works[k] \in Caller /\ res'[works[k]] = res[works[k]]
  <2>1. pc # "take" => who \in Caller /\ who # w.c
    BY <1>0, <1>3 DEF WorkIsLive, Typed
  <2>2. \A k \in DOMAIN works : works[k] \in Caller /\ works[k] # w.c
    BY <1>0, <1>3 DEF WorkIsLive, Typed
  <2>3. QED BY <1>5, <2>1, <2>2
<1>7. CallerOutcome'
  BY <1>0, <1>1, <1>3, <1>5, <1>6 DEF CallerOutcome, Untold
<1>8. ThreadOutcome'
  BY <1>0, <1>1, <1>6 DEF ThreadOutcome, Ahead, Behind, Fetched
<1>9. <<"inbox", s>> \in Stage /\ Queue(<<"inbox", s>>) = inbox[s]
  BY Stages
<1>10. ASSUME NEW x, \/ x = hand
                     \/ \E t \in Server : x \in In(wire[t]) \cup In(inbox'[t]) \cup In(back[t])
       PROVE  x.m = "send" => x.c # w.c
  <2>1. \A t \in Server : /\ t # s => inbox'[t] = inbox[t]
                          /\ t = s => inbox'[t] = Tail(inbox[s])
    BY <1>0, <1>1 DEF Handled, Typed
  <2>2. \/ x = hand
        \/ x \in In(Tail(inbox[s]))
        \/ \E j \in Stage : j # <<"inbox", s>> /\ x \in In(Queue(j))
    <3>1. ASSUME NEW t \in Server, x \in In(wire[t]) \cup In(back[t])
          PROVE  \E j \in Stage : j # <<"inbox", s>> /\ x \in In(Queue(j))
      <4>1. <<"wire", t>> # <<"inbox", s>> /\ <<"back", t>> # <<"inbox", s>>
        OBVIOUS
      <4>2. QED BY <3>1, <4>1, Stages
    <3>2. ASSUME NEW t \in Server, x \in In(inbox[t]), t # s
          PROVE  \E j \in Stage : j # <<"inbox", s>> /\ x \in In(Queue(j))
      BY <3>2, Stages
    <3>3. QED BY <1>10, <2>1, <3>1, <3>2
  <2>3. QED BY <1>1, <1>9, <1>w, <2>2, LeftAlone DEF Effective
<1>11. ASSUME NEW x, About(Lasting, x), x.m = "send" => x.c # w.c
       PROVE  (Open(x) => Open(x)') /\ (Settled(x) => Settled(x)')
  <2>1. x.m \in Transfers \cup {"written"} => pc # "take"
    BY <1>11 DEF About, Transfers
  <2>2. x.m = "send" => x.c \in Caller
    BY <1>11 DEF About
  <2>3. QED BY <1>1, <1>5, <1>6, <1>11, <2>1, <2>2 DEF Open, Settled, Transfers, Fetched
<1>12. /\ About(Lasting, hand)
       /\ \A t \in Server : \A x \in In(wire[t]) \cup In(inbox[t]) \cup In(back[t]) : About(Lasting, x)
  BY <1>0, HandAbout, PlaceAbout
<1>13. \A t \in Server : In(inbox'[t]) \subseteq In(inbox[t])
  BY <1>0, <1>1, LeftBy
<1>14. ASSUME NEW t \in Server, NEW x \in In(wire'[t]) \cup In(inbox'[t]) PROVE Open(x)'
  <2>1. x \in In(wire[t]) \cup In(inbox[t]) /\ (x.m = "send" => x.c # w.c)
    BY <1>1, <1>10, <1>13
  <2>2. QED BY <1>0, <1>11, <1>12, <2>1 DEF MessageOutcome
<1>15. ASSUME NEW t \in Server, NEW x \in In(back'[t]) PROVE Settled(x)'
  <2>1. PICK y : y = [m |-> "send", c |-> w.c]
    OBVIOUS
  <2>a. Answer(s, y)
    BY <1>1, <2>1
  <2>2. x \in In(back[t]) \/ x = y
    BY <1>0, <2>a, AnsweredFrom
  <2>3. CASE x \in In(back[t])
    BY <1>0, <1>10, <1>11, <1>12, <2>3 DEF MessageOutcome
  <2>4. CASE x = y
    BY <1>5, <2>1, <2>4 DEF Settled
  <2>5. QED BY <2>2, <2>3, <2>4
<1>16. Settled(hand)'
  <2>1. PICK x : x = hand
    OBVIOUS
  <2>2. Settled(x)'
    BY <1>0, <1>10, <1>11, <1>12, <2>1 DEF MessageOutcome
  <2>3. QED BY <1>1, <2>1, <2>2 DEF Settled
<1>17. QED BY <1>5, <1>7, <1>8, <1>14, <1>15, <1>16 DEF Outcome, MessageOutcome

LEMMA OutcomeNext ==
    ASSUME IInv, Books, Whole, Outcome, SendEntries, Whole', [Next]_vars
    PROVE  Outcome'
BY Steps, CallerTells, ThreadTells, LoopTells, QuietTells, TransferTells, SendTells DEF ServerStep

LEMMA InitOutcome == Init => Outcome /\ SendEntries
<1> SUFFICES ASSUME Init PROVE Outcome /\ SendEntries
  OBVIOUS
<1>1. Idle.m = "nothing"
  BY DEF Idle
<1>2. CallerOutcome
  BY DEF Init, CallerOutcome, Untold
<1>3. ThreadOutcome
  BY DEF Init, ThreadOutcome, Ahead, Behind
<1>4. MessageOutcome
  BY <1>1, NoneIn DEF Init, MessageOutcome, Settled
<1>5. res \in [Caller -> Result]
  BY DEF Init, Result
<1>6. SendEntries
  BY NoneIn DEF Init, SendEntries, Sent
<1>7. QED BY <1>2, <1>3, <1>4, <1>5, <1>6 DEF Outcome
-----------------------------------------------------------------------------
(* The abstract memory.                                                    *)

Memory == [a \in Address |-> Content(a[1], a[2])]
AllStay == \A s \in Server, b \in Block : Content(s, b)' = Content(s, b)
OthersStay(s, b) ==
  \A t \in Server, d \in Block : <<t, d>> # <<s, b>> => Content(t, d)' = Content(t, d)

LEMMA MemoryStays ==
    ASSUME AllStay PROVE Memory' = Memory
<1>1. \A a \in Address : a[1] \in Server /\ a[2] \in Block
  BY DEF Address
<1>2. \A a \in Address : Content(a[1], a[2])' = Content(a[1], a[2])
  BY <1>1 DEF AllStay
<1>3. QED BY <1>2 DEF Memory

LEMMA MemoryAt ==
    ASSUME NEW s \in Server, NEW b \in Block
    PROVE  /\ <<s, b>> \in Address /\ Memory[<<s, b>>] = Content(s, b)
           /\ Memory'[<<s, b>>] = Content(s, b)'
<1>1. <<s, b>> \in Address
  BY DEF Address
<1>2. QED BY <1>1 DEF Memory

LEMMA MemoryChanges ==
    ASSUME NEW s \in Server, NEW b \in Block, OthersStay(s, b), NEW x, x = Content(s, b)'
    PROVE  Memory' = [Memory EXCEPT ![<<s, b>>] = x]
<1>1. \A a \in Address : a[1] \in Server /\ a[2] \in Block /\ a = <<a[1], a[2]>>
  BY DEF Address
<1>2. \A a \in Address : a # <<s, b>> => Content(a[1], a[2])' = Content(a[1], a[2])
  BY <1>1 DEF OthersStay
<1>3. Memory' = [a \in Address |-> Content(a[1], a[2])']
  BY DEF Memory
<1>4. \A a \in Address : Memory'[a] = IF a = <<s, b>> THEN x ELSE Memory[a]
  <2> TAKE a \in Address
  <2>1. Memory'[a] = Content(a[1], a[2])' /\ Memory[a] = Content(a[1], a[2])
    BY <1>3 DEF Memory
  <2>2. CASE a = <<s, b>>
    BY <2>1, <2>2
  <2>3. CASE a # <<s, b>>
    BY <1>2, <2>1, <2>3
  <2>4. QED BY <2>2, <2>3
<1>5. Memory' = [a \in Address |-> Memory'[a]] /\ Memory = [a \in Address |-> Memory[a]]
  BY <1>3 DEF Memory
<1>6. QED BY <1>4, <1>5

\* The request of c takes effect, with or without a change of content.
LEMMA Effects ==
    ASSUME NEW c \in Caller, res[c] = Pending, NEW x, res' = [res EXCEPT ![c] = x], call' = call
    PROVE  /\ AllStay => Promise!NoEffect(c, x)
           /\ \A s \in Server, b \in Block : \A y :
                OthersStay(s, b) /\ y = Content(s, b)' => Promise!Effect(c, <<s, b>>, y, x)
<1>1. AllStay => Promise!NoEffect(c, x)
  BY MemoryStays DEF Promise!NoEffect, Memory
<1>2. ASSUME NEW s \in Server, NEW b \in Block, NEW y, OthersStay(s, b), y = Content(s, b)'
      PROVE  Promise!Effect(c, <<s, b>>, y, x)
  BY <1>2, MemoryChanges DEF Promise!Effect, Memory
<1>3. QED BY <1>1, <1>2

LEMMA Stutters ==
    ASSUME AllStay, call' = call, res' = res
    PROVE  UNCHANGED Promise!memVars
  BY MemoryStays DEF Promise!memVars, Memory

LEMMA Reads ==
    ASSUME NEW c \in Caller, call[c] # NoCall, call[c].op \in {"read", "fetch"},
           NEW s \in Server, NEW b \in Block, s = call[c].srv, b = call[c].blk,
           res[c] = Pending, call' = call, AllStay, NEW x, res' = [res EXCEPT ![c] = x],
           \/ Content(s, b) \in Value /\ x = Content(s, b)
           \/ Content(s, b) = "absent" /\ x = Null
    PROVE  Promise!Read(c)
<1>1. Promise!NoEffect(c, x)
  BY Effects
<1>2. Promise!Wants(c, {"read", "fetch"})
  BY DEF Promise!Wants
<1>3. [a \in Address |-> Content(a[1], a[2])][Promise!Target(call[c])] = Content(s, b)
  BY MemoryAt DEF Promise!Target, Memory
<1>4. QED BY <1>1, <1>2, <1>3 DEF Promise!Read

LEMMA Writes ==
    ASSUME NEW c \in Caller, call[c] # NoCall, call[c].op \in {"write", "send"},
           NEW s \in Server, NEW b \in Block, s = call[c].srv, b = call[c].blk,
           res[c] = Pending, call' = call, res' = [res EXCEPT ![c] = Null],
           \/ Content(s, b) \in Value /\ OthersStay(s, b) /\ Content(s, b)' = call[c].val
           \/ Content(s, b) = "absent" /\ AllStay
    PROVE  Promise!Write(c)
<1>1. /\ AllStay => Promise!NoEffect(c, Null)
      /\ \A y : OthersStay(s, b) /\ y = Content(s, b)' => Promise!Effect(c, <<s, b>>, y, Null)
  BY Effects
<1>2. Promise!Wants(c, {"write", "send"})
  BY DEF Promise!Wants
<1>3. /\ [a \in Address |-> Content(a[1], a[2])][Promise!Target(call[c])] = Content(s, b)
      /\ Promise!Target(call[c]) = <<s, b>>
  BY MemoryAt DEF Promise!Target, Memory
<1>4. CASE Content(s, b) \in Value /\ OthersStay(s, b) /\ Content(s, b)' = call[c].val
  <2>1. PICK y : y = call[c].val
    OBVIOUS
  <2>2. Promise!Effect(c, <<s, b>>, call[c].val, Null)
    BY <1>1, <1>4, <2>1
  <2>3. QED BY <1>2, <1>3, <1>4, <2>2 DEF Promise!Write
<1>5. CASE Content(s, b) = "absent" /\ AllStay
  BY <1>1, <1>2, <1>3, <1>5 DEF Promise!Write
<1>6. QED BY <1>4, <1>5

\* A step that leaves the table and the lives of servers alone.
LEMMA Contents ==
    ASSUME Straight, IInv, Books, Whole, Whole', [Next]_vars, table' = table,
           NEW s \in Server, NEW b \in Block, epoch'[s] = epoch[s]
    PROVE  /\ (Current(s, b) => mem'[s][b] = mem[s][b]) => Content(s, b)' = Content(s, b)
           /\ Current(s, b) => Content(s, b) = mem[s][b] /\ Content(s, b)' = mem'[s][b]
<1>1. Shape /\ Table /\ Shape' /\ Table'
  BY BooksNext DEF Books
<1>2. \A j \in In(table) : Alike(inf'[j], inf[j])
  BY EntriesAlike
<1>3. IsListed(s, b)' = IsListed(s, b) /\ Current(s, b)' = Current(s, b)
  BY <1>2, ListedStays
<1>4. /\ Current(s, b) => Content(s, b) = mem[s][b]
      /\ Current(s, b)' => Content(s, b)' = mem'[s][b]
  BY <1>1, ContentIs, ContentNext
<1>5. (Current(s, b) => mem'[s][b] = mem[s][b]) => Content(s, b)' = Content(s, b)
  BY <1>1, <1>3, ContentStays
<1>6. QED BY <1>3, <1>4, <1>5

LEMMA ContentsStay ==
    ASSUME Straight, IInv, Books, Whole, Whole', [Next]_vars, UNCHANGED <<table, epoch, mem>>
    PROVE  AllStay
  BY Contents DEF AllStay
-----------------------------------------------------------------------------
(* What the steps of the client and the servers are for the memory.        *)

\* The callers ask, and take their answers.
LEMMA CallerMaps ==
    ASSUME Straight, IInv, Books, Whole, Whole', Outcome, [Next]_vars, NEW c \in Caller,
           Call(c) \/ Return(c) \/ SendStep(c)
    PROVE  Promise!Ask(c) \/ Promise!Reply(c) \/ UNCHANGED Promise!memVars
<1>0. Calls /\ CallerOutcome
  BY DEF IInv, Outcome
<1>1. AllStay
  BY CallerFrame, ContentsStay DEF serverVars
<1>2. Memory' = Memory
  BY <1>1, MemoryStays
<1>3. CASE Call(c)
  <2>1. st[c] = "idle" /\ res' = res /\ \E r \in Request : call' = [call EXCEPT ![c] = r]
    BY <1>3 DEF Call, CallMalloc, CallWork, CallSend, Asks
  <2>2. call[c] = NoCall
    BY <1>0, <2>1 DEF Calls
  <2>3. QED BY <1>2, <2>1, <2>2 DEF Promise!Ask, Memory
<1>4. CASE Return(c)
  <2>1. st[c] = "done" /\ call' = [call EXCEPT ![c] = NoCall] /\ res' = [res EXCEPT ![c] = Pending]
    BY <1>4 DEF Return
  <2>2. res[c] # Pending
    BY <1>0, <2>1 DEF CallerOutcome
  <2>3. QED BY <1>2, <2>1, <2>2 DEF Promise!Reply, Memory
<1>5. CASE SendStep(c)
  <2>1. UNCHANGED <<call, res>>
    BY <1>5 DEF SendStep, SendLookup, SendCheck, SendPost, SendOut
  <2>2. QED BY <1>1, <2>1, Stutters
<1>6. QED BY <1>3, <1>4, <1>5

\* An entry in front of the table gives its block a content.
LEMMA PushedContent ==
    ASSUME Shape, Table, Shape', Table', UNCHANGED <<epoch, mem>>,
           NEW i \in Info, table' = <<i>> \o table, Alike(inf'[i], inf[i]),
           \A j \in In(table) : Alike(inf'[j], inf[j]),
           NEW s \in Server, NEW b \in Block, inf[i].srv = s, inf[i].addr = b,
           \A j \in In(table) : inf[j].srv = s => inf[j].key =< inf[i].key,
           Alone(s, b, inf[i].key), inf[i].key =< epoch[s]
    PROVE  /\ OthersStay(s, b) /\ ~Current(s, b)
           /\ Content(s, b)' = "gone" \/ Content(s, b)' = mem[s][b]
<1>1. In(table)' = In(table) \cup {i}
  <2>1. /\ DOMAIN table' = DOMAIN (<<i>> \o table)
        /\ table'[1] = i /\ 1 \in DOMAIN table'
        /\ \A n \in DOMAIN table : n + 1 \in DOMAIN table' /\ table'[n + 1] = table[n]
        /\ \A n \in DOMAIN table' : (n = 1) \/ (n - 1 \in DOMAIN table /\ table'[n] = table[n - 1])
    BY PushFacts DEF Table
  <2>2. \A j \in In(table)' : j = i \/ j \in In(table)
    BY <2>1 DEF In
  <2>3. i \in In(table)'
    BY <2>1 DEF In
  <2>4. \A j \in In(table) : j \in In(table)'
    <3> TAKE j \in In(table)
    <3>1. PICK n \in DOMAIN table : j = table[n]
      BY DEF In
    <3>2. n + 1 \in DOMAIN table' /\ table'[n + 1] = j
      BY <2>1, <3>1
    <3>3. QED BY <3>2 DEF In
  <2>5. QED BY <2>2, <2>3, <2>4
<1>2. \A t \in Server, d \in Block : <<t, d>> # <<s, b>> =>
        IsListed(t, d)' = IsListed(t, d) /\ Current(t, d)' = Current(t, d)
  BY <1>1 DEF IsListed, Current, Alike
<1>3. OthersStay(s, b)
  BY <1>2, ContentStays DEF OthersStay
<1>4. ~Current(s, b)
  <2> SUFFICES ASSUME NEW j \in In(table), inf[j].srv = s, inf[j].addr = b, inf[j].key = epoch[s]
               PROVE  FALSE
    BY DEF Current
  <2>1. inf[j].key =< inf[i].key /\ inf[j].key # inf[i].key
    BY DEF Alone
  <2>2. inf[i] \in InfoType /\ epoch[s] \in Nat
    BY DEF Shape
  <2>3. QED BY <2>1, <2>2 DEF InfoType
<1>5. IsListed(s, b)'
  BY <1>1 DEF IsListed, Alike
<1>6. Content(s, b)' = "gone" \/ Content(s, b)' = mem'[s][b]
  BY <1>5, ContentNext
<1>7. QED BY <1>3, <1>4, <1>6

LEMMA MallocMaps ==
    ASSUME Straight, IInv, Books, Whole, Whole', Outcome, [Next]_vars, AwaitMalloc
    PROVE  Promise!Malloc(who)
<1>0. /\ Typed /\ WorkIsLive /\ Calls /\ Shape /\ Table /\ HeldStruct /\ ThreadOutcome
      /\ mem \in [Server -> [Block -> Value]] /\ Shape' /\ Table'
  BY GoodFacts, BooksNext DEF Shape, Outcome, Books
<1>1. pc = "await_malloc" /\ inf[at].len /\ UNCHANGED <<call, epoch, mem, alloc>>
  BY DEF AwaitMalloc, Take, serverVars
<1>2. /\ who \in Caller /\ MyCall = call[who] /\ MyCall \in Request /\ MyCall.op = "malloc"
      /\ MyCall.srv \in Server /\ MyCall # NoCall
  BY <1>0, <1>1, MyCallFacts, PlaceTells, RequestFacts
<1>3. res[who] = Pending
  BY <1>0, <1>1 DEF ThreadOutcome, Ahead
<1>4. Promise!Wants(who, {"malloc"})
  BY <1>2 DEF Promise!Wants
<1>5. /\ at \in Info
      /\ \/ inf[at].addr = Null /\ table' = table /\ Told(Null)
         \/ /\ inf[at].addr \in Block /\ Alike(inf'[at], inf[at])
            /\ table' = <<at>> \o table /\ Told(<<MyCall.srv, inf[at].addr>>)
  BY AwaitMallocStruct
<1>6. CASE table' = table /\ Told(Null)
  <2>1. AllStay
    BY <1>1, <1>6, ContentsStay
  <2>2. Promise!NoEffect(who, Null)
    BY <1>1, <1>2, <1>3, <1>6, <2>1, Effects DEF Told
  <2>3. QED BY <1>4, <2>2 DEF Promise!Malloc
<1>7. CASE /\ inf[at].addr \in Block /\ Alike(inf'[at], inf[at])
           /\ table' = <<at>> \o table /\ Told(<<MyCall.srv, inf[at].addr>>)
  <2>1. PICK s \in Server, b \in Block : s = MyCall.srv /\ b = inf[at].addr
    BY <1>2, <1>7
  <2>2. Given(s, b, inf[at].key) /\ inf[at].srv = s
    <3>1. inf[at].addr # Null
      BY <1>7, BlockAssumption
    <3>2. QED BY <1>0, <1>1, <2>1, <3>1 DEF HeldStruct, Held
  <2>3. \A j \in In(table) : Alike(inf'[j], inf[j])
    BY EntriesAlike
  <2>4. /\ OthersStay(s, b) /\ ~Current(s, b)
        /\ Content(s, b)' = "gone" \/ Content(s, b)' = mem[s][b]
    <3>1. /\ Alone(s, b, inf[at].key) /\ inf[at].key =< epoch[s]
          /\ \A j \in In(table) : inf[j].srv = s => inf[j].key =< inf[at].key
      BY <2>2 DEF Given
    <3>2. QED BY <1>0, <1>1, <1>5, <1>7, <2>1, <2>2, <2>3, <3>1, PushedContent
  <2>5. Content(s, b) \notin Value
    BY <1>0, <2>4, ContentIs, MarkAssumption
  <2>6. PICK y \in Value \cup {"gone"} : y = Content(s, b)'
    BY <1>0, <2>4
  <2>7. Promise!Effect(who, <<s, b>>, y, <<s, b>>)
    <3>1. PICK x : x = <<s, b>>
      OBVIOUS
    <3>2. res' = [res EXCEPT ![who] = x]
      BY <1>7, <2>1, <3>1 DEF Told
    <3>3. QED BY <1>1, <1>2, <1>3, <2>4, <2>6, <3>1, <3>2, Effects
  <2>8. [a \in Address |-> Content(a[1], a[2])][<<call[who].srv, b>>] \notin Value
    <3>1. call[who].srv = s /\ Memory[<<s, b>>] \notin Value
      BY <1>2, <2>1, <2>5, MemoryAt
    <3>2. QED BY <3>1 DEF Memory
  <2>9. Promise!Effect(who, <<call[who].srv, b>>, y, <<call[who].srv, b>>)
    BY <1>2, <2>1, <2>7
  <2>10. QED BY <1>4, <2>8, <2>9 DEF Promise!Malloc
<1>8. QED BY <1>5, <1>6, <1>7

\* A block that no lookup finds has no content.
LEMMA NothingListed ==
    ASSUME NEW s, NEW b, ~Found(s, b) PROVE Content(s, b) = "absent"
<1>1. Listed(s, b) \subseteq Hits(s, b)
  BY DEF Listed, Hits
<1>2. QED BY <1>1 DEF Found, Content

\* Without the entry that is found, a block is in the books of a failed
\* server only, or in none.
LEMMA DroppedContent ==
    ASSUME Shape, Table, Shape', Table', NEW s \in Server, NEW b \in Block, Found(s, b),
           inf[table[Entry(s, b)]].srv = s, table' = Drop(table, Entry(s, b)), UNCHANGED <<inf, epoch, alloc, mem>>
    PROVE  OthersStay(s, b) /\ Content(s, b)' \in {"absent", "gone"}
<1>0. table \in Seq(Info)
  BY DEF Table
<1>1. PICK k \in DOMAIN table : k = Entry(s, b)
  BY <1>0, EntryFacts
<1>2. /\ table[k] \in In(table) /\ inf[table[k]].addr = b /\ inf[table[k]].srv = s
      /\ \A m \in Hits(s, b) : k =< m
  BY <1>0, <1>1, EntryFacts
<1>3. /\ In(table)' \subseteq In(table)
      /\ \A j \in In(table)' : ~(/\ inf[j].srv = s /\ inf[j].addr = b /\ inf[j].key = inf[table[k]].key)
  BY <1>1, <1>2, TableDrop
<1>4. \A j \in In(table) : j # table[k] => j \in In(table)'
  <2> SUFFICES ASSUME NEW j \in In(table), j # table[k] PROVE j \in In(table)'
    OBVIOUS
  <2>1. PICK m \in DOMAIN table \ {k} : j = table[m]
    BY DEF In
  <2>2. PICK n \in DOMAIN table' : table'[n] = table[m]
    BY <1>0, <1>1, DropFacts
  <2>3. QED BY <2>1, <2>2 DEF In
<1>5. OthersStay(s, b)
  <2> SUFFICES ASSUME NEW t \in Server, NEW d \in Block, <<t, d>> # <<s, b>>
               PROVE  Content(t, d)' = Content(t, d)
    BY DEF OthersStay
  <2>1. \A j \in In(table) : inf[j].srv = t /\ inf[j].addr = d => j \in In(table)'
    BY <1>2, <1>4
  <2>2. IsListed(t, d)' = IsListed(t, d) /\ Current(t, d)' = Current(t, d)
    BY <1>3, <2>1 DEF IsListed, Current
  <2>3. QED BY <2>2, ContentStays
<1>6. ~Current(s, b)'
  <2> SUFFICES ASSUME NEW j \in In(table)', inf[j].srv = s, inf[j].addr = b, inf[j].key = epoch[s]
               PROVE  FALSE
    BY DEF Current
  <2>1. PICK m \in DOMAIN table : j = table[m]
    BY <1>3 DEF In
  <2>2. m \in Hits(s, b) /\ m # k
    BY <1>3, <2>1 DEF Hits
  <2>3. inf[table[k]].key >= inf[j].key
    <3>1. k < m
      BY <1>0, <1>2, <2>2
    <3>2. QED BY <1>2, <2>1, <3>1 DEF Table
  <2>4. inf[table[k]].key =< epoch[s] /\ inf[table[k]].key # epoch[s]
    BY <1>2, <1>3 DEF Table
  <2>5. inf[table[k]].key \in Nat /\ epoch[s] \in Nat
    BY <1>2, InTable DEF Shape
  <2>6. QED BY <2>3, <2>4, <2>5
<1>7. QED BY <1>5, <1>6, ContentNext

LEMMA FreeMaps ==
    ASSUME Straight, IInv, Books, Whole, Whole', Outcome, [Next]_vars, FreeLookup
    PROVE  Promise!Free(who)
<1>0. /\ Typed /\ WorkIsLive /\ Calls /\ Shape /\ Table /\ ThreadOutcome
      /\ mem \in [Server -> [Block -> Value]] /\ Shape' /\ Table'
  BY GoodFacts, BooksNext DEF Shape, Outcome, Books
<1>1. pc = "free" /\ UNCHANGED <<call, epoch, mem, alloc, inf>> /\ Told(Null)
  BY DEF FreeLookup, serverVars
<1>2. /\ who \in Caller /\ MyCall = call[who] /\ MyCall \in Request /\ MyCall.op = "free"
  BY <1>0, <1>1, MyCallFacts, PlaceTells
<1>3. /\ res[who] = Pending /\ res' = [res EXCEPT ![who] = Null]
      /\ Promise!Wants(who, {"free"})
  <2>1. MyCall # NoCall
    BY <1>2, RequestFacts
  <2>2. QED BY <1>0, <1>1, <1>2, <2>1 DEF ThreadOutcome, Ahead, Told, Promise!Wants
<1>4. PICK s \in Server, b \in Block : s = call[who].srv /\ b = call[who].blk
  BY <1>2, RequestFacts
<1>5. /\ AllStay => Promise!NoEffect(who, Null)
      /\ \A y : OthersStay(s, b) /\ y = Content(s, b)' => Promise!Effect(who, <<s, b>>, y, Null)
  BY <1>1, <1>2, <1>3, Effects
<1>6. /\ [a \in Address |-> Content(a[1], a[2])][Promise!Target(call[who])] = Content(s, b)
      /\ Promise!Target(call[who]) = <<s, b>>
  BY <1>4, MemoryAt DEF Promise!Target, Memory
<1>7. CASE ~Found(s, b)
  <2>1. table' = table
    BY <1>2, <1>4, <1>7 DEF FreeLookup
  <2>2. AllStay /\ Content(s, b) = "absent"
    BY <1>1, <1>7, <2>1, ContentsStay, NothingListed
  <2>3. QED BY <1>3, <1>5, <1>6, <2>2 DEF Promise!Free
<1>8. CASE Found(s, b)
  <2>1. table' = Drop(table, Entry(s, b))
    BY <1>2, <1>4, <1>8 DEF FreeLookup
  <2>2. inf[table[Entry(s, b)]].srv = s
    BY <1>2, <1>4, <1>8 DEF Straight, Foreign
  <2>3. OthersStay(s, b) /\ Content(s, b)' \in {"absent", "gone"}
    BY <1>0, <1>1, <1>8, <2>2, <2>1, DroppedContent
  <2>4. Content(s, b) # "absent"
    <3>1. IsListed(s, b)
      BY <1>0, <1>8, <2>2, EntryFacts DEF IsListed, Table
    <3>2. Content(s, b) \in Value \cup {"gone"}
      BY <1>0, <3>1, ContentIs
    <3>3. QED BY <3>2, MarkAssumption
  <2>5. PICK y \in {"absent", "gone"} : y = Content(s, b)'
    BY <2>3
  <2>6. Promise!Effect(who, Promise!Target(call[who]), y, Null)
    BY <1>5, <1>6, <2>3, <2>5
  <2>7. QED BY <1>3, <1>6, <2>4, <2>6 DEF Promise!Free
<1>9. QED BY <1>7, <1>8

\* The rest of the work thread: a lookup that fails answers, nothing else is seen.
LEMMA LookupMaps ==
    ASSUME Straight, IInv, Books, Whole, Whole', Outcome, [Next]_vars, Lookup
    PROVE  Promise!Read(who) \/ Promise!Write(who) \/ UNCHANGED Promise!memVars
<1>0. Typed /\ WorkIsLive /\ Calls /\ ThreadOutcome
  BY GoodFacts DEF Outcome
<1>1. pc \in {"read", "write"} /\ UNCHANGED <<call, epoch, mem, table>>
  BY DEF Lookup, serverVars, tableVars
<1>2. /\ who \in Caller /\ MyCall = call[who] /\ MyCall \in Request /\ MyCall.op = pc
      /\ MyCall # NoCall
  BY <1>0, <1>1, MyCallFacts, PlaceTells, RequestFacts
<1>3. res[who] = Pending /\ AllStay
  BY <1>0, <1>1, ContentsStay DEF ThreadOutcome, Ahead
<1>4. PICK s \in Server, b \in Block : s = call[who].srv /\ b = call[who].blk
  BY <1>1, <1>2, RequestFacts
<1>5. CASE ~Found(s, b)
  <2>1. res' = [res EXCEPT ![who] = Null] /\ Content(s, b) = "absent"
    BY <1>2, <1>4, <1>5, NothingListed DEF Lookup, Told
  <2>2. CASE pc = "read"
    BY <1>1, <1>2, <1>3, <1>4, <2>1, <2>2, Reads
  <2>3. CASE pc = "write"
    BY <1>1, <1>2, <1>3, <1>4, <2>1, <2>3, Writes
  <2>4. QED BY <1>1, <2>2, <2>3
<1>6. CASE Found(s, b)
  <2>1. res' = res
    BY <1>2, <1>4, <1>6 DEF Lookup
  <2>2. QED BY <1>1, <1>3, <2>1, Stutters
<1>7. QED BY <1>5, <1>6

LEMMA ThreadMaps ==
    ASSUME Straight, IInv, Books, Whole, Whole', Outcome, [Next]_vars, ThreadStep
    PROVE  Promise!MemNext \/ UNCHANGED Promise!memVars
<1>1. CASE AwaitMalloc
  <2>1. who \in Caller
    BY <1>1, GoodFacts, MyCallFacts DEF AwaitMalloc, Take
  <2>2. QED BY <1>1, <2>1, MallocMaps DEF Promise!MemNext
<1>2. CASE FreeLookup
  <2>1. who \in Caller
    BY <1>2, GoodFacts, MyCallFacts DEF FreeLookup
  <2>2. QED BY <1>2, <2>1, FreeMaps DEF Promise!MemNext
<1>3. CASE Lookup
  <2>1. who \in Caller
    BY <1>3, GoodFacts, MyCallFacts DEF Lookup
  <2>2. QED BY <1>3, <2>1, LookupMaps DEF Promise!MemNext
<1>4. CASE ~AwaitMalloc /\ ~FreeLookup /\ ~Lookup
  <2>1. UNCHANGED <<call, epoch, mem, table>>
    BY <1>4, ThreadFrame, TableSteps DEF serverVars
  <2>2. res' = res
    <3>1. CASE AwaitRead
      <4>1. Fetched /\ Told(buf[smr].data) /\ res \in [Caller -> Result]
        BY <3>1 DEF AwaitRead, Outcome, ThreadOutcome
      <4>2. QED BY <4>1 DEF Told, Fetched
    <3>2. CASE ~AwaitRead
      BY <1>4, <3>2 DEF ThreadStep, TakeWork, PostMalloc, FreePost, AwaitFree, ReadPost, WriteCheck,
         WritePost, AwaitWrite, Finish, callVars
    <3>3. QED BY <3>1, <3>2
  <2>3. QED BY <2>1, <2>2, ContentsStay, Stutters
<1>5. QED BY <1>1, <1>2, <1>3, <1>4

\* A block of the present life is written, or read.
LEMMA BlockWritten ==
    ASSUME Straight, IInv, Books, Whole, Whole', [Next]_vars, UNCHANGED <<table, epoch>>,
           NEW s \in Server, NEW b \in Block, Current(s, b), NEW v \in Value,
           mem' = [mem EXCEPT ![s][b] = v]
    PROVE  OthersStay(s, b) /\ Content(s, b) \in Value /\ Content(s, b)' = v
<1>0. mem \in [Server -> [Block -> Value]]
  BY GoodFacts DEF Shape
<1>1. /\ mem'[s][b] = v /\ mem[s][b] \in Value
      /\ \A t \in Server, d \in Block : <<t, d>> # <<s, b>> => mem'[t][d] = mem[t][d]
  BY <1>0
<1>2. Content(s, b) = mem[s][b] /\ Content(s, b)' = mem'[s][b]
  BY Contents
<1>3. OthersStay(s, b)
  BY <1>1, Contents DEF OthersStay
<1>4. QED BY <1>1, <1>2, <1>3

LEMMA TransferMaps ==
    ASSUME Straight, IInv, Books, Whole, Whole', Outcome, [Next]_vars, NEW s \in Server, Transfer(s)
    PROVE  \/ \E c \in Caller : Promise!Read(c) \/ Promise!Write(c)
           \/ UNCHANGED Promise!memVars
<1>0. /\ Typed /\ WorkIsLive /\ Calls /\ Shape /\ Table /\ UsedEntry /\ Messages /\ Outstanding(Every)
      /\ Buffers /\ MessageOutcome /\ mem \in [Server -> [Block -> Value]]
  BY GoodFacts DEF Shape, Outcome
<1>w. PICK w : w = Head(wire[s])
  OBVIOUS
<1>1. wire[s] # <<>> /\ UNCHANGED <<call, table, epoch>>
  BY DEF Transfer, tableVars
<1>2. w \in In(wire[s])
  BY <1>0, <1>1, <1>w, LeftBy
<1>3. CASE UNCHANGED <<res, mem>>
  BY <1>1, <1>3, ContentsStay, Stutters
<1>4. ASSUME w.m \in Transfers, Allowed(s, w)
      PROVE  /\ who \in Caller /\ call[who] # NoCall /\ call[who].op = w.m /\ call[who].val \in Value
             /\ s = call[who].srv /\ w.b = call[who].blk /\ w.b \in Block
             /\ Current(s, w.b) /\ res[who] = Pending /\ w.smr = smr
             /\ w.m = "write" => buf[smr].data = call[who].val
  <2>1. /\ Using /\ w.b = MyCall.blk /\ w.b \in Block /\ w.key = KeyAt /\ s = MyCall.srv
        /\ w.m = "read" => pc = "await_read"
        /\ w.m = "write" => pc = "await_write"
    BY <1>2, <1>4, RequestAbout
  <2>2. /\ who \in Caller /\ MyCall = call[who] /\ MyCall \in Request /\ MyCall.op = w.m
    BY <1>0, <1>4, <2>1, MyCallFacts, PlaceTells DEF Transfers
  <2>3. MyCall # NoCall /\ MyCall.val \in Value
    BY <2>2, RequestFacts
  <2>4. /\ at \in In(table) /\ inf[at].srv = s /\ inf[at].addr = w.b /\ inf[at].key = epoch[s]
    BY <1>0, <1>4, <2>1 DEF UsedEntry, Allowed, KeyAt
  <2>5. res[who] = Pending /\ w.smr = smr
    BY <1>0, <1>2, <1>4 DEF MessageOutcome, Open, Buffers, OfBuffer
  <2>6. w.m = "write" => buf[smr].data = MyCall.val
    BY <1>0, <1>2 DEF Messages
  <2>7. QED BY <2>1, <2>2, <2>3, <2>4, <2>5, <2>6 DEF Current
<1>5. CASE /\ w.m = "write" /\ Allowed(s, w) /\ res' = [res EXCEPT ![who] = Null]
           /\ mem' = [mem EXCEPT ![s][w.b] = buf[w.smr].data]
  <2>1. w.m \in Transfers
    BY <1>5 DEF Transfers
  <2>2. PICK b \in Block : b = w.b
    BY <1>4, <1>5, <2>1
  <2>3. PICK v \in Value : v = call[who].val
    BY <1>4, <1>5, <2>1
  <2>4. mem' = [mem EXCEPT ![s][b] = v] /\ Current(s, b)
    BY <1>4, <1>5, <2>1, <2>2, <2>3
  <2>5. OthersStay(s, b) /\ Content(s, b) \in Value /\ Content(s, b)' = v
    BY <1>1, <2>4, BlockWritten
  <2>6. Promise!Write(who)
    BY <1>1, <1>4, <1>5, <2>1, <2>2, <2>3, <2>5, Writes
  <2>7. QED BY <1>4, <1>5, <2>1, <2>6
<1>6. CASE /\ w.m = "read" /\ Allowed(s, w) /\ res' = [res EXCEPT ![who] = mem[s][w.b]] /\ mem' = mem
  <2>1. w.m \in Transfers
    BY <1>6 DEF Transfers
  <2>2. PICK b \in Block : b = w.b
    BY <1>4, <1>6, <2>1
  <2>3. PICK v \in Value : v = mem[s][b]
    BY <1>0
  <2>4. Content(s, b) = v
    BY <1>1, <1>4, <1>6, <2>1, <2>2, <2>3, Contents
  <2>5. res' = [res EXCEPT ![who] = v] /\ AllStay
    BY <1>1, <1>6, <2>2, <2>3, ContentsStay
  <2>6. /\ who \in Caller /\ call[who] # NoCall /\ call[who].op \in {"read", "fetch"}
        /\ s = call[who].srv /\ b = call[who].blk /\ res[who] = Pending
    BY <1>4, <1>6, <2>1, <2>2
  <2>7. call' = call /\ Content(s, b) \in Value
    BY <1>1, <2>4
  <2>8. Promise!Read(who)
    BY <2>4, <2>5, <2>6, <2>7, Reads
  <2>9. QED BY <2>6, <2>8
<1>7. \/ UNCHANGED <<res, mem>>
      \/ /\ w.m = "write" /\ Allowed(s, w) /\ res' = [res EXCEPT ![who] = Null]
         /\ mem' = [mem EXCEPT ![s][w.b] = buf[w.smr].data]
      \/ /\ w.m = "read" /\ Allowed(s, w) /\ res' = [res EXCEPT ![who] = mem[s][w.b]] /\ mem' = mem
  BY <1>w DEF Transfer, Refuse
<1>8. QED BY <1>3, <1>5, <1>6, <1>7

LEMMA ServeSendMaps ==
    ASSUME Straight, IInv, Books, Whole, Whole', Outcome, SendEntries, ~Wild, [Next]_vars,
           NEW s \in Server, ServeSend(s)
    PROVE  \E c \in Caller : Promise!Read(c) \/ Promise!Write(c)
<1>0. /\ Typed /\ Calls /\ Shape /\ Table /\ Outstanding(Every) /\ Sound(Every)
      /\ MessageOutcome /\ mem \in [Server -> [Block -> Value]]
  BY GoodFacts DEF Shape, Outcome
<1>w. PICK w : w = Head(inbox[s])
  OBVIOUS
<1>1. inbox[s] # <<>> /\ w.m = "send" /\ UNCHANGED <<call, table, epoch>>
  BY <1>w DEF ServeSend, tableVars
<1>2. w \in In(inbox[s])
  BY <1>0, <1>1, <1>w, LeftBy
<1>3. PICK c \in Caller : c = w.c /\ st[c] = "await"
  BY <1>0, <1>1, <1>2, PlaceAbout DEF About
<1>4. /\ call[c] # NoCall /\ call[c].op \in Direct /\ call[c].val \in Value
      /\ s = call[c].srv /\ w.b = call[c].blk /\ res[c] = Pending
      /\ sat[c] \in In(table) /\ inf[sat[c]].srv = s /\ inf[sat[c]].addr = w.b
  <2>1. call[c] # NoCall /\ call[c].op \in Direct /\ call[c].val \in Value
    BY <1>0, <1>3, SenderFacts
  <2>2. s = call[c].srv /\ w.b = call[c].blk /\ res[c] = Pending
    BY <1>0, <1>1, <1>2, <1>3 DEF SendEntries, MessageOutcome, Open
  <2>3. sat[c] \in In(table) /\ inf[sat[c]].srv = s /\ inf[sat[c]].addr = w.b
    BY <1>3, <2>2 DEF SendEntries, Sent
  <2>4. QED BY <2>1, <2>2, <2>3
<1>5. PICK b \in Block : b = w.b
  BY <1>0, <1>4, InTable
<1>6. Current(s, b)
  <2>1. call[c].op \in {"send", "fetch"} /\ st[c] \in Sent
    BY <1>3, <1>4 DEF Direct, Sent
  <2>2. inf[sat[c]].key = epoch[s]
    BY <1>4, <2>1 DEF Wild
  <2>3. QED BY <1>4, <1>5, <2>2 DEF Current
<1>7. CASE /\ call[c].op = "send" /\ mem' = [mem EXCEPT ![s][b] = call[c].val]
           /\ res' = [res EXCEPT ![c] = Null]
  <2>1. PICK v \in Value : v = call[c].val
    BY <1>4
  <2>2. OthersStay(s, b) /\ Content(s, b) \in Value /\ Content(s, b)' = v
    BY <1>1, <1>6, <1>7, <2>1, BlockWritten
  <2>3. Promise!Write(c)
    BY <1>1, <1>4, <1>5, <1>7, <2>1, <2>2, Writes
  <2>4. QED BY <2>3
<1>8. CASE call[c].op = "fetch" /\ mem' = mem /\ res' = [res EXCEPT ![c] = mem[s][b]]
  <2>1. PICK v \in Value : v = mem[s][b]
    BY <1>0
  <2>2. Content(s, b) = v /\ AllStay
    BY <1>1, <1>6, <1>8, <2>1, Contents, ContentsStay
  <2>3. Promise!Read(c)
    BY <1>1, <1>4, <1>5, <1>8, <2>1, <2>2, Reads
  <2>4. QED BY <2>3
<1>9. QED BY <1>3, <1>5, <1>7, <1>8, <1>w DEF ServeSend

\* Blocks that the server gives out anew are not current.
LEMMA ServeMallocMaps ==
    ASSUME Straight, IInv, Books, Whole, Whole', [Next]_vars, NEW s \in Server, ServeMalloc(s)
    PROVE  UNCHANGED Promise!memVars
<1>0. Shape /\ Table /\ mem \in [Server -> [Block -> Value]]
  BY GoodFacts DEF Shape
<1>1. UNCHANGED <<call, res, table, epoch>>
  BY DEF ServeMalloc, callVars, tableVars
<1>2. ASSUME NEW t \in Server, NEW d \in Block, Current(t, d)
      PROVE  mem'[t][d] = mem[t][d]
  <2>1. d \in alloc[t]
    BY <1>0, <1>2 DEF Current, Table
  <2>2. mem' = mem \/ \E b \in Block \ alloc[s], v \in Value : mem' = [mem EXCEPT ![s][b] = v]
    BY DEF ServeMalloc
  <2>3. QED BY <1>0, <2>1, <2>2
<1>3. AllStay
  BY <1>1, <1>2, Contents DEF AllStay
<1>4. QED BY <1>1, <1>3, Stutters

LEMMA LoseMaps ==
    ASSUME Straight, IInv, Books, Whole, Whole', [Next]_vars, NEW s \in Server, Lose(s)
    PROVE  Promise!Fail(s) \/ UNCHANGED Promise!memVars
<1>0. /\ Shape /\ Table /\ Shape' /\ Table' /\ mem \in [Server -> [Block -> Value]]
      /\ epoch \in [Server -> Nat]
  BY GoodFacts, BooksNext DEF Shape, Books
<1>1. UNCHANGED <<call, res, table, inf>>
  BY DEF Lose, callVars, tableVars
<1>2. CASE UNCHANGED <<mem, epoch>>
  BY <1>1, <1>2, ContentsStay, Stutters
<1>3. CASE /\ mem' = [mem EXCEPT ![s] = [b \in Block |-> Zero]]
           /\ epoch' = [epoch EXCEPT ![s] = @ + 1]
  <2>1. \A t \in Server, d \in Block : t # s => Content(t, d)' = Content(t, d)
    BY <1>0, <1>1, <1>3, Contents
  <2>2. ASSUME NEW d \in Block
        PROVE  Content(s, d)' = IF Content(s, d) \in Value THEN "gone" ELSE Content(s, d)
    <3>1. IsListed(s, d)' = IsListed(s, d)
      BY <1>1, ListedStays DEF Alike
    <3>2. ~Current(s, d)'
      <4>1. \A j \in In(table) : inf[j].srv = s => inf[j].key =< epoch[s] /\ inf[j].key \in Nat
        BY <1>0, InTable DEF Table
      <4>2. epoch'[s] = epoch[s] + 1 /\ epoch[s] \in Nat
        BY <1>0, <1>3
      <4>3. \A j \in In(table) : inf[j].srv = s => inf[j].key # epoch'[s]
        BY <4>1, <4>2
      <4>4. In(table)' = In(table)
        BY <1>1 DEF In
      <4>5. QED BY <1>1, <4>3, <4>4 DEF Current
    <3>3. /\ ~IsListed(s, d) => Content(s, d) = "absent"
          /\ IsListed(s, d) => Content(s, d) = "gone" \/ Content(s, d) \in Value
      BY <1>0, ContentIs
    <3>4. /\ ~IsListed(s, d)' => Content(s, d)' = "absent"
          /\ IsListed(s, d)' /\ ~Current(s, d)' => Content(s, d)' = "gone"
      BY <1>0, ContentNext
    <3>5. QED BY <3>1, <3>2, <3>3, <3>4, MarkAssumption
  <2>3. \A a \in Address : a[1] \in Server /\ a[2] \in Block
    BY DEF Address
  <2>4. \A a \in Address : Memory'[a] = IF a[1] = s /\ Memory[a] \in Value THEN "gone" ELSE Memory[a]
    <3> TAKE a \in Address
    <3>1. Memory'[a] = Content(a[1], a[2])' /\ Memory[a] = Content(a[1], a[2])
      BY DEF Memory
    <3>2. CASE a[1] = s
      BY <2>2, <2>3, <3>1, <3>2
    <3>3. CASE a[1] # s
      BY <2>1, <2>3, <3>1, <3>3
    <3>4. QED BY <3>2, <3>3
  <2>5. Memory' = [a \in Address |-> Memory'[a]]
    BY DEF Memory
  <2>6. Memory' = [a \in Address |-> IF a[1] = s /\ Memory[a] \in Value THEN "gone" ELSE Memory[a]]
    BY <2>4, <2>5
  <2>7. Address = Promise!Address
    BY DEF Address, Promise!Address
  <2>8. QED BY <1>1, <2>6, <2>7 DEF Promise!Fail, Memory
<1>4. QED BY <1>2, <1>3 DEF Lose, serverVars

\* Every step of the client and its servers is one of the memory, or none.
LEMMA Refines ==
    ASSUME Straight, IInv, Books, Whole, Whole', Outcome, SendEntries, ~Wild, [Next]_vars
    PROVE  Promise!MemNext \/ UNCHANGED Promise!memVars
<1>1. (\E c \in Caller : Call(c) \/ Return(c) \/ SendStep(c)) =>
        Promise!MemNext \/ UNCHANGED Promise!memVars
  BY CallerMaps DEF Promise!MemNext
<1>2. ASSUME NEW s \in Server, Transfer(s) \/ ServerStep(s) \/ Complete(s) \/ Lose(s)
      PROVE  Promise!MemNext \/ UNCHANGED Promise!memVars
  <2>1. CASE Transfer(s)
    BY <2>1, TransferMaps DEF Promise!MemNext
  <2>2. CASE ServeSend(s)
    BY <2>2, ServeSendMaps DEF Promise!MemNext
  <2>3. CASE ServeMalloc(s)
    BY <2>3, ServeMallocMaps
  <2>4. CASE Lose(s)
    BY <2>4, LoseMaps DEF Promise!MemNext
  <2>5. CASE ServeFree(s) \/ Complete(s)
    <3>1. UNCHANGED <<call, res, table, epoch, mem>>
      BY <2>5 DEF ServeFree, Complete, callVars, tableVars, serverVars
    <3>2. QED BY <3>1, ContentsStay, Stutters
  <2>6. QED BY <1>2, <2>1, <2>2, <2>3, <2>4, <2>5 DEF ServerStep
<1>3. LoopStep \/ Reconnect \/ Recovered \/ UNCHANGED vars => UNCHANGED Promise!memVars
  <2>1. LoopStep \/ Reconnect \/ Recovered \/ UNCHANGED vars => UNCHANGED <<call, res, table, epoch, mem>>
    BY LoopFrame DEF Reconnect, Recovered, vars, callVars, tableVars, serverVars
  <2>2. QED BY <2>1, ContentsStay, Stutters
<1>4. QED BY <1>1, <1>2, <1>3, Steps, ThreadMaps

LEMMA InitMemory == Init => Promise!MemInit
<1> SUFFICES ASSUME Init PROVE Promise!MemInit
  OBVIOUS
<1>1. \A s, b : Content(s, b) = "absent"
  BY DEF Init, Content, Listed
<1>2. Address = Promise!Address
  BY DEF Address, Promise!Address
<1>3. [a \in Address |-> Content(a[1], a[2])] = [a \in Promise!Address |-> "absent"]
  BY <1>1, <1>2
<1>4. QED BY <1>3 DEF Init, Promise!MemInit

\* The requests behave as those of one memory on which each takes effect at
\* once, at most once, between its call and its return, through losses of
\* connections and restarts of servers, until a thread sees an answer half
\* written (ResultIsWhole), a lookup finds another server's entry
\* (LookupFindsOwn), or a dhmp_send, which holds on to its entry and whose
\* messages carry no key, meets a free or a restart of its server.
THEOREM RefinesOneMemory == Spec => OneMemory
<1> DEFINE Good == past = {} => Outcome /\ SendEntries
<1>1. Init /\ past = {} => IInv /\ Remembered /\ Good /\ Promise!MemInit
  BY InitHolds, InitOutcome, InitMemory, RememberedInit
<1>2. ASSUME IInv, Remembered, Clean => Books, Good, [Next /\ Remember]_<<vars, past>>
      PROVE  /\ Remembered' /\ Good'
             /\ [past' = {} => Promise!MemNext]_(Promise!memVars)
  <2>1. [Next]_vars /\ Remembered'
    BY <1>2, StepOfSpec, RememberedNext
  <2>2. ASSUME past' = {}
        PROVE  /\ Outcome' /\ SendEntries'
               /\ Promise!MemNext \/ UNCHANGED Promise!memVars
    <3>1. past = {}
      BY <1>2, <2>2, RememberedNext
    <3>2. Clean /\ Whole /\ Whole' /\ Straight
      BY <1>2, <2>2, RememberedNext DEF Clean
    <3>3. ~Wild
      BY <1>2, <3>1 DEF Remembered
    <3>4. Books /\ Outcome /\ SendEntries
      BY <1>2, <3>1, <3>2
    <3>5. QED BY <1>2, <2>1, <3>2, <3>3, <3>4, OutcomeNext, SendEntriesNext, Refines
  <2>3. QED BY <2>1, <2>2
<1>3. QED BY <1>1, <1>2, BooksAgree, Invariant, PTL DEF Spec, OneMemory
=============================================================================
