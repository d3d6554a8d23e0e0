-------------------------- MODULE ConnectionsProofs --------------------------
(***************************************************************************)
(* Proofs about Connections: a server's list and counter of connections,   *)
(* that one recovery thread runs at a time, that the event loop is not     *)
(* stopped, and that a connected transport has the qp of a connection.     *)
(***************************************************************************)
EXTENDS Connections, FiniteSetTheorems, SequenceTheorems, TLAPS

(***************************************************************************)
(* The inductive invariant                                                 *)
(***************************************************************************)
\* An attempt that has begun, or that a server knows of, is some transport's.
MadeFor ==
    \A i \in Attempt :
        att[i].phase # "none" \/ att[i].peer # "none" => att[i].by \in Trans

\* The attempts that server s serves, or failed to accept once they were
\* listed; a process that ended has none.
HeldBy(s) == {i \in Attempt : Held(i) /\ At(i) = s}
ServersLive == \A s \in Server : ~alive[s] => HeldBy(s) = {}

\* cur_connections goes with client_list, also in a process that ended.
Counted == \A s \in Server : count[s] = Len(list[s])

\* The transport taken for the watcher's is one that the server accepted.
WatcherKnown ==
    \A s \in Server : watcher[s] \in Attempt =>
        att[watcher[s]].peer # "none" /\ At(watcher[s]) = s

\* q has every member of S but w, and each once.
Lists(q, w, S) ==
    /\ \A k, l \in DOMAIN q : q[k] = q[l] => k = l
    /\ \A k \in DOMAIN q : w # q[k] /\ q[k] \in S
    /\ \A i \in S : w = i \/ \E k \in DOMAIN q : q[k] = i
Listed == \A s \in Server : alive[s] => Lists(list[s], watcher[s], HeldBy(s))

ServerInv == MadeFor /\ ServersLive /\ Counted /\ WatcherKnown /\ Listed

IInv == TypeOK /\ ServerInv /\ OneRecovery

(***************************************************************************)
(* Sequences                                                               *)
(***************************************************************************)
LEMMA SetToSeqType ==
    ASSUME NEW S, IsFiniteSet(S)
    PROVE  SetToSeq(S) \in Seq(S)
<1>1. Cardinality(S) \in Nat /\ ExistsBijection(1 .. Cardinality(S), S)
  BY FS_CardinalityType
<1>2. \E f \in [1 .. Cardinality(S) -> S] : IsInjective(f)
  BY <1>1 DEF ExistsBijection, Bijection, Injection
<1>3. SetToSeq(S) \in [1 .. Cardinality(S) -> S]
  BY <1>2 DEF SetToSeq
<1>4. QED BY <1>1, <1>3

LEMMA RemoveAtFacts ==
    ASSUME NEW S, NEW q \in Seq(S), NEW k \in DOMAIN q
    PROVE  /\ RemoveAt(q, k) \in Seq(S) /\ Len(RemoveAt(q, k)) = Len(q) - 1
           /\ \A j \in 1 .. Len(q) - 1 : RemoveAt(q, k)[j] = IF j < k THEN q[j] ELSE q[j + 1]
<1>1. k \in 1 .. Len(q) /\ Len(q) \in Nat
  OBVIOUS
<1> DEFINE a == SubSeq(q, 1, k - 1)
           b == SubSeq(q, k + 1, Len(q))
<1>2. a \in Seq(S) /\ Len(a) = k - 1 /\ \A j \in 1 .. k - 1 : a[j] = q[j]
  BY <1>1
<1>3. b \in Seq(S) /\ Len(b) = Len(q) - k /\ \A j \in 1 .. Len(q) - k : b[j] = q[k + j]
  BY <1>1
<1> HIDE DEF a, b
<1>4. /\ a \o b \in Seq(S) /\ Len(a \o b) = Len(q) - 1
      /\ \A j \in 1 .. Len(q) - 1 : (a \o b)[j] = IF j < k THEN q[j] ELSE q[j + 1]
  <2>1. a \o b \in Seq(S) /\ Len(a \o b) = Len(q) - 1
    BY <1>1, <1>2, <1>3
  <2>2. ASSUME NEW j \in 1 .. Len(q) - 1
        PROVE  (a \o b)[j] = IF j < k THEN q[j] ELSE q[j + 1]
    <3>1. CASE j < k
      BY <1>1, <1>2, <1>3, <3>1
    <3>2. CASE ~(j < k)
      <4>1. (a \o b)[j] = b[j - (k - 1)] /\ j - (k - 1) \in 1 .. Len(q) - k
        BY <1>1, <1>2, <1>3, <3>2
      <4>2. k + (j - (k - 1)) = j + 1
        BY <1>1
      <4>3. QED BY <1>3, <3>2, <4>1, <4>2
    <3>3. QED BY <3>1, <3>2
  <2>3. QED BY <2>1, <2>2
<1>5. QED BY <1>4 DEF RemoveAt, a, b

(***************************************************************************)
(* A server's list when an attempt is accepted, or ends                    *)
(***************************************************************************)
LEMMA ListsAppend ==
    ASSUME NEW q \in Seq(Attempt), NEW w, NEW S \in SUBSET Attempt, Lists(q, w, S),
           NEW i \in Attempt, i \notin S, w # i
    PROVE  Lists(Append(q, i), w, S \union {i})
<1> DEFINE r == Append(q, i)
<1>1. /\ DOMAIN r = 1 .. Len(q) + 1 /\ DOMAIN q = 1 .. Len(q) /\ Len(q) \in Nat
      /\ \A k \in 1 .. Len(q) : r[k] = q[k]
      /\ r[Len(q) + 1] = i
  OBVIOUS
<1>2. \A k \in DOMAIN r : k \in DOMAIN q \/ k = Len(q) + 1
  BY <1>1
<1>3. /\ \A k, l \in DOMAIN q : q[k] = q[l] => k = l
      /\ \A k \in DOMAIN q : w # q[k] /\ q[k] \in S
      /\ \A j \in S : w = j \/ \E k \in DOMAIN q : q[k] = j
  BY DEF Lists
<1> HIDE DEF r
<1>4. \A k, l \in DOMAIN r : r[k] = r[l] => k = l
  BY <1>1, <1>2, <1>3
<1>5. \A k \in DOMAIN r : w # r[k] /\ r[k] \in S \union {i}
  BY <1>1, <1>2, <1>3
<1>6. \A j \in S \union {i} : w = j \/ \E k \in DOMAIN r : r[k] = j
  BY <1>1, <1>3
<1>7. QED BY <1>4, <1>5, <1>6 DEF Lists, r

LEMMA ListsWatch ==
    ASSUME NEW q, NEW w, NEW S \in SUBSET Attempt, Lists(q, w, S), w \notin S,
           NEW i \in Attempt, i \notin S
    PROVE  Lists(q, i, S \union {i})
  BY DEF Lists

LEMMA ListsRemove ==
    ASSUME NEW q \in Seq(Attempt), NEW w, NEW S, Lists(q, w, S), NEW k \in DOMAIN q
    PROVE  Lists(RemoveAt(q, k), w, S \ {q[k]})
<1> DEFINE r == RemoveAt(q, k)
           n == Len(q)
<1>1. n \in Nat /\ k \in 1 .. n /\ DOMAIN q = 1 .. n
  OBVIOUS
<1>2. DOMAIN r = 1 .. n - 1 /\ \A j \in 1 .. n - 1 : r[j] = IF j < k THEN q[j] ELSE q[j + 1]
  <2>1. /\ r \in Seq(Attempt) /\ Len(r) = n - 1
        /\ \A j \in 1 .. n - 1 : r[j] = IF j < k THEN q[j] ELSE q[j + 1]
    BY RemoveAtFacts
  <2>2. DOMAIN r = 1 .. Len(r)
    BY <2>1
  <2>3. QED BY <2>1, <2>2
<1>3. /\ \A j, l \in 1 .. n : q[j] = q[l] => j = l
      /\ \A j \in 1 .. n : w # q[j] /\ q[j] \in S
      /\ \A i \in S : w = i \/ \E j \in 1 .. n : q[j] = i
  BY <1>1 DEF Lists
<1> HIDE DEF r, n
<1>4. \A j, l \in DOMAIN r : r[j] = r[l] => j = l
  BY <1>1, <1>2, <1>3
<1>5. \A j \in DOMAIN r : w # r[j] /\ r[j] \in S \ {q[k]}
  BY <1>1, <1>2, <1>3
<1>6. ASSUME NEW i \in S \ {q[k]} PROVE w = i \/ \E j \in DOMAIN r : r[j] = i
  <2>1. CASE w # i
    <3>1. PICK j \in 1 .. n : q[j] = i
      BY <1>3, <2>1
    <3>2. j < k => j \in DOMAIN r /\ r[j] = i
      BY <1>1, <1>2, <3>1
    <3>3. j > k => j - 1 \in DOMAIN r /\ r[j - 1] = i
      BY <1>1, <1>2, <3>1
    <3>4. j # k
      BY <3>1
    <3>5. QED BY <1>1, <3>2, <3>3, <3>4
  <2>2. QED BY <2>1
<1>7. QED BY <1>4, <1>5, <1>6 DEF Lists, r

LEMMA ListsForget ==
    ASSUME NEW q, NEW w, NEW S, Lists(q, w, S)
    PROVE  Lists(q, w, S \ {w})
  BY DEF Lists

(***************************************************************************)
(* The steps of the application's thread                                   *)
(***************************************************************************)
\* A step that connects names a transport.
Steps == {x \in [do : {"connect", "see", "prepare", "close", "gone", "stop", "join"},
                 t : Trans \union {None}] : x.do \in {"connect", "see"} => x.t \in Trans}

LEMMA ProgramType == Program \in Seq(Steps)
<1>1. ServerNum \in Nat
  BY ServerNumAssumption
<1>2. ASSUME NEW p \in BOOLEAN, NEW do \in {"connect", "see", "close", "gone"}
      PROVE  For(p, do) \in Seq(Steps)
  <2>1. \A k \in 1 .. ServerNum : [do |-> do, t |-> <<k - 1, p>>] \in Steps
    BY <1>1 DEF Steps, Trans, Server
  <2>2. QED BY <1>1, <2>1 DEF For
<1>3. <<[do |-> "prepare", t |-> None]>> \in Seq(Steps)
  BY DEF Steps
<1>4. <<[do |-> "stop", t |-> None], [do |-> "join", t |-> None]>> \in Seq(Steps)
  BY DEF Steps
<1>5. \A q, r \in Seq(Steps) : q \o r \in Seq(Steps)
  OBVIOUS
<1>6. /\ For(FALSE, "connect") \in Seq(Steps) /\ For(TRUE, "connect") \in Seq(Steps)
      /\ For(FALSE, "see") \in Seq(Steps) /\ For(TRUE, "see") \in Seq(Steps)
      /\ For(FALSE, "close") \in Seq(Steps) /\ For(TRUE, "close") \in Seq(Steps)
      /\ For(FALSE, "gone") \in Seq(Steps) /\ For(TRUE, "gone") \in Seq(Steps)
  BY <1>2
<1>7. QED BY <1>3, <1>4, <1>5, <1>6, Zenon DEF Program, InitPart, DestroyPart

LEMMA ConnectsTransports ==
    ASSUME TypeOK, AtStep("connect")
    PROVE  Arg \in Trans
<1>1. main \in 1 .. Len(Program)
  BY ProgramType DEF TypeOK, AtStep
<1>2. Program[main] \in Steps
  BY <1>1, ProgramType
<1>3. QED BY <1>2 DEF Arg, AtStep, Steps

LEMMA Advances ==
    ASSUME TypeOK, main <= Len(Program), Advance
    PROVE  main' \in 1 .. Len(Program) + 1
  BY ProgramType DEF TypeOK, Advance

(***************************************************************************)
(* Steps that leave the servers' side of the attempts alone                *)
(***************************************************************************)
SameEnds ==
    /\ UNCHANGED server
    /\ \A i \in Attempt : att'[i].by = att[i].by /\ att'[i].peer = att[i].peer
                          /\ (att'[i].phase # "none" => att[i].phase # "none")

LEMMA SameEndsKeeps ==
    ASSUME TypeOK, ServerInv, SameEnds
    PROVE  ServerInv'
<1>1. \A s \in Server : HeldBy(s)' = HeldBy(s)
  BY DEF SameEnds, HeldBy, Held, Served, At
<1>2. alive' = alive /\ list' = list /\ count' = count /\ watcher' = watcher
  BY DEF SameEnds, server
<1>3. MadeFor'
  BY DEF ServerInv, MadeFor, SameEnds
<1>4. ServersLive' /\ Counted' /\ Listed'
  BY <1>1, <1>2 DEF ServerInv, ServersLive, Counted, Listed
<1>5. WatcherKnown'
  BY <1>2 DEF ServerInv, WatcherKnown, SameEnds, At
<1>6. QED BY <1>3, <1>4, <1>5 DEF ServerInv

\* dhmp_transport_connect takes an attempt that no server knows of.
LEMMA StartKeeps ==
    ASSUME TypeOK, ServerInv, NEW t \in Trans, Start(t), UNCHANGED server
    PROVE  ServerInv'
<1>1. PICK i \in Attempt :
        /\ Unused(i)
        /\ att' = [att EXCEPT ![i] = [NoAttempt EXCEPT !.by = t, !.phase = "resolving"]]
  BY DEF Start
<1>2. alive' = alive /\ list' = list /\ count' = count /\ watcher' = watcher
  BY DEF server
<1>3. /\ ~Held(i)
      /\ \A s \in Server : watcher[s] # i /\ \A k \in DOMAIN list[s] : list[s][k] # i
  BY <1>1 DEF Unused, Referred
<1>4. att'[i].by = t /\ att'[i].phase = "resolving" /\ att'[i].peer = "none"
  BY <1>1 DEF TypeOK, NoAttempt
<1>5. \A j \in Attempt : j # i => att'[j] = att[j]
  BY <1>1 DEF TypeOK
<1>6. \A s \in Server : HeldBy(s)' = HeldBy(s)
  BY <1>3, <1>4, <1>5 DEF HeldBy, Held, Served, At
<1>7. MadeFor'
  BY <1>4, <1>5 DEF ServerInv, MadeFor
<1>8. ServersLive' /\ Counted' /\ Listed'
  BY <1>2, <1>6 DEF ServerInv, ServersLive, Counted, Listed
<1>9. WatcherKnown'
  BY <1>2, <1>3, <1>5 DEF ServerInv, WatcherKnown, At
<1>10. QED BY <1>7, <1>8, <1>9 DEF ServerInv

(***************************************************************************)
(* Types                                                                   *)
(***************************************************************************)
Message == [kind : Event, id : Attempt]
AttemptRecord == [by : Trans \union {None}, phase : Phase, bound : BOOLEAN,
           peer : {"none", "accepted", "known", "stale", "gone"}, poll : BOOLEAN]

LEMMA Typed ==
    ASSUME TypeOK
    PROVE  chan \in [Trans -> Seq(Message)] /\ att \in [Attempt -> AttemptRecord]
  BY DEF TypeOK, Message, AttemptRecord

LEMMA HeadTailType ==
    ASSUME NEW S, NEW q \in Seq(S), q # <<>>
    PROVE  Head(q) \in S /\ Tail(q) \in Seq(S)
  OBVIOUS

LEMMA PutType ==
    ASSUME TypeOK, NEW i \in Attempt, NEW kind \in Event
    PROVE  Put(i, kind) \in [Trans -> Seq(Message)]
<1>1. \A c \in [Trans -> Seq(Message)] : \A m \in Message : \A t :
          [c EXCEPT ![t] = Append(@, m)] \in [Trans -> Seq(Message)]
  <2>1. ASSUME NEW S, NEW q \in Seq(S), NEW m \in S PROVE Append(q, m) \in Seq(S)
    OBVIOUS
  <2>2. ASSUME NEW c \in [Trans -> Seq(Message)], NEW m \in Message, NEW u
        PROVE  [c EXCEPT ![u] = Append(@, m)] \in [Trans -> Seq(Message)]
    <3>1. u \in Trans => Append(c[u], m) \in Seq(Message)
      BY <2>1
    <3>2. QED BY <3>1
  <2>3. QED BY <2>2
<1>2. [kind |-> kind, id |-> i] \in Message
  BY DEF Message
<1>3. QED BY <1>1, <1>2, Typed DEF Put

\* An attempt that changes its phase, or is bound to a qp.
LEMMA RecordType ==
    ASSUME NEW a \in [Attempt -> AttemptRecord], NEW p \in Phase, NEW i
    PROVE  /\ [a EXCEPT ![i].phase = p] \in [Attempt -> AttemptRecord]
           /\ [a EXCEPT ![i].bound = TRUE] \in [Attempt -> AttemptRecord]
           /\ [a EXCEPT ![i].bound = TRUE, ![i].phase = p] \in [Attempt -> AttemptRecord]
<1>1. \A r \in AttemptRecord : /\ [r EXCEPT !.phase = p] \in AttemptRecord
                        /\ [r EXCEPT !.bound = TRUE] \in AttemptRecord
  BY DEF AttemptRecord
<1>2. /\ [a EXCEPT ![i] = [@ EXCEPT !.phase = p]] \in [Attempt -> AttemptRecord]
      /\ [a EXCEPT ![i] = [@ EXCEPT !.bound = TRUE]] \in [Attempt -> AttemptRecord]
      /\ [[a EXCEPT ![i] = [@ EXCEPT !.bound = TRUE]] EXCEPT ![i] = [@ EXCEPT !.phase = p]]
           \in [Attempt -> AttemptRecord]
  BY <1>1
<1>3. QED BY <1>2

LEMMA StartType ==
    ASSUME TypeOK, NEW t \in Trans, Start(t)
    PROVE  /\ att' \in [Attempt -> AttemptRecord]
           /\ cm' \in [Trans -> Attempt \union {None}]
<1>1. [NoAttempt EXCEPT !.by = t, !.phase = "resolving"] \in AttemptRecord
  BY DEF AttemptRecord, NoAttempt, Phase
<1>2. PICK i \in Attempt :
        att' = [att EXCEPT ![i] = [NoAttempt EXCEPT !.by = t, !.phase = "resolving"]]
        /\ cm' = [cm EXCEPT ![t] = i]
  BY DEF Start
<1>3. att' \in [Attempt -> AttemptRecord]
  BY <1>1, <1>2, Typed
<1>4. QED BY <1>2, <1>3 DEF TypeOK

\* TypeOK, seen from a step that keeps the types of the sequences and records.
LEMMA TypeFrom ==
    ASSUME main' \in 1 .. Len(Program) + 1,
           state' \in [Trans -> {"INIT", "CONNECTING", "CONNECTED", "DISCONNECTED", "ERROR"}],
           cm' \in [Trans -> Attempt \union {None}], qp' \in [Trans -> Attempt \union {None}],
           deaf' \subseteq Trans,
           chan' \in [Trans -> Seq(Message)], att' \in [Attempt -> AttemptRecord],
           loop' \in {"wait", "handle", "done", "crashed"}, stop' \in BOOLEAN,
           inRecovery' \in BOOLEAN, prepare' \in BOOLEAN,
           threads' \in [Trans -> {"none", "loop", "connecting", "sleep", "call"}],
           alive' \in [Server -> BOOLEAN], list' \in [Server -> Seq(Attempt)],
           count' \in [Server -> Nat], watcher' \in [Server -> Attempt \union {None, Taken}],
           begun' \in BOOLEAN, faults' \in 0..MaxFault, races' \subseteq {"retry", "late", "request"}
    PROVE  TypeOK'
  BY DEF TypeOK, Message, AttemptRecord

LEMMA RaceType ==
    ASSUME TypeOK, NEW kind \in {"retry", "late", "request"}, NEW happens, Race(kind, happens)
    PROVE  races' \subseteq {"retry", "late", "request"}
  BY DEF Race, TypeOK

LEMMA FaultType ==
    ASSUME TypeOK, NEW kind, Fault(kind)
    PROVE  faults' \in 0 .. MaxFault
  BY BoundAssumption DEF TypeOK, Fault

LEMMA MainKeeps ==
    ASSUME IInv, MainStep
    PROVE  TypeOK' /\ ServerInv' /\ OneRecovery'
<1>1. TypeOK /\ ServerInv /\ OneRecovery
  BY DEF IInv
<1>2. main <= Len(Program) /\ (Advance \/ main' = main)
  BY DEF MainStep, Connect, Connecting, See, Prepare, Close, Gone, Stop, Join, AtStep
<1>3. main' \in 1 .. Len(Program) + 1
  BY <1>1, <1>2, Advances DEF TypeOK
<1>4. CASE Connect
  <2>1. Arg \in Trans
    BY <1>1, <1>4, ConnectsTransports DEF Connect
  <2>2. CASE Start(Arg) /\ begun' = TRUE /\ UNCHANGED <<main, faults>>
    <3>1. TypeOK'
      BY <1>1, <1>3, <1>4, <2>1, <2>2, StartType, TypeFrom, Typed DEF TypeOK, Connect, server
    <3>2. ServerInv'
      BY <1>1, <1>4, <2>1, <2>2, StartKeeps DEF Connect
    <3>3. QED BY <1>1, <1>4, <3>1, <3>2 DEF OneRecovery, Connect
  <2>3. CASE StartFails(Arg) /\ UNCHANGED begun
    <3>1. /\ cm' \in [Trans -> Attempt \union {None}] /\ att' = att
          /\ faults' \in 0 .. MaxFault
      BY <1>1, <2>1, <2>3, FaultType DEF StartFails, TypeOK
    <3>2. TypeOK'
      BY <1>1, <1>3, <1>4, <2>3, <3>1, TypeFrom, Typed DEF TypeOK, Connect, server
    <3>3. SameEnds
      BY <1>4, <3>1 DEF SameEnds, Connect
    <3>4. QED BY <1>1, <1>4, <3>2, <3>3, SameEndsKeeps DEF OneRecovery, Connect
  <2>4. QED BY <1>4, <2>2, <2>3 DEF Connect
<1>8. CASE Connecting
  <2>1. Arg \in Trans
    BY <1>1, <1>8, ConnectsTransports DEF Connecting
  <2>2. /\ state' \in [Trans -> {"INIT", "CONNECTING", "CONNECTED", "DISCONNECTED", "ERROR"}]
        /\ races' \subseteq {"retry", "late", "request"}
    BY <1>1, <1>8, <2>1, RaceType DEF Connecting, Record, TypeOK
  <2>3. TypeOK'
    BY <1>1, <1>3, <1>8, <2>2, TypeFrom, Typed DEF TypeOK, Connecting, server
  <2>4. SameEnds /\ OneRecovery'
    BY <1>1, <1>8 DEF SameEnds, OneRecovery, Connecting
  <2>5. QED BY <1>1, <2>3, <2>4, SameEndsKeeps
<1>5. CASE See \/ Prepare \/ Gone \/ Stop \/ Join
  <2>1. UNCHANGED <<att, server>>
    BY <1>5 DEF See, Prepare, Gone, Stop, Join
  <2>2. TypeOK'
    BY <1>1, <1>3, <1>5 DEF TypeOK, See, Prepare, Gone, Stop, Join, server, past
  <2>3. ServerInv'
    BY <1>1, <2>1, SameEndsKeeps DEF SameEnds
  <2>4. OneRecovery'
    BY <1>1, <1>5 DEF OneRecovery, See, Prepare, Gone, Stop, Join
  <2>5. QED BY <2>2, <2>3, <2>4
<1>6. CASE Close
  <2>1. att' = att \/ \E i \in Attempt : att[i].phase = "up" /\ att' = [att EXCEPT ![i].phase = "closing"]
    <3>1. Arg \in Trans /\ qp[Arg] # None => qp[Arg] \in Attempt
      BY <1>1 DEF TypeOK
    <3>2. QED BY <1>1, <1>6 DEF Close, TypeOK
  <2>2. TypeOK'
    <3>1. att' \in [Attempt -> AttemptRecord]
      <4>1. "closing" \in Phase
        BY DEF Phase
      <4>2. att \in [Attempt -> AttemptRecord]
        BY <1>1, Typed
      <4>3. \A i : [att EXCEPT ![i].phase = "closing"] \in [Attempt -> AttemptRecord]
        BY <4>1, <4>2, RecordType
      <4>4. QED BY <2>1, <4>2, <4>3, Zenon
    <3>2. QED BY <1>1, <1>3, <1>6, <3>1, TypeFrom, Typed DEF TypeOK, Close, server, past
  <2>3. ServerInv'
    <3>1. SameEnds
      BY <1>1, <1>6, <2>1 DEF SameEnds, Close, TypeOK
    <3>2. QED BY <1>1, <3>1, SameEndsKeeps
  <2>4. OneRecovery'
    BY <1>1, <1>6 DEF OneRecovery, Close
  <2>5. QED BY <2>2, <2>3, <2>4
<1>7. QED BY <1>4, <1>5, <1>6, <1>8 DEF MainStep

LEMMA HandleKeeps ==
    ASSUME IInv, NEW t \in Trans, Handle(t)
    PROVE  TypeOK' /\ ServerInv' /\ OneRecovery'
<1>1. TypeOK /\ ServerInv /\ OneRecovery
  BY DEF IInv
<1>2. /\ Head(chan[t]).kind \in Event
      /\ chan' = [chan EXCEPT ![t] = Tail(@)] /\ loop' \in {"handle", "crashed"}
      /\ UNCHANGED <<main, begun, cm, prepare, server, past>>
  <2>1. chan[t] \in Seq(Message) /\ chan[t] # <<>>
    BY <1>1, Typed DEF Handle
  <2>2. Head(chan[t]) \in Message
    BY <2>1, HeadTailType
  <2>3. QED BY <2>2 DEF Handle, Message, HandleEvent, Segfault
<1>3. chan' \in [Trans -> Seq(Message)]
  <2>1. Tail(chan[t]) \in Seq(Message)
    BY <1>1, Typed, HeadTailType DEF Handle
  <2>2. QED BY <1>1, <1>2, <2>1, Typed
<1>4. CASE AddrResolved(t)
  <2>1. TypeOK'
    <3>1. att' \in [Attempt -> AttemptRecord]
      BY <1>1, <1>4, Typed, RecordType DEF AddrResolved, Phase
    <3>2. QED BY <1>1, <1>2, <1>3, <1>4, <3>1, TypeFrom DEF TypeOK, AddrResolved, server, past
  <2>2. SameEnds
    BY <1>1, <1>2, <1>4 DEF SameEnds, AddrResolved, TypeOK
  <2>3. OneRecovery'
    BY <1>1, <1>4 DEF OneRecovery, AddrResolved
  <2>4. QED BY <1>1, <2>1, <2>2, <2>3, SameEndsKeeps
<1>5. CASE RouteResolved(t)
  <2>1. /\ \/ att' = att /\ qp' = qp
           \/ /\ qp' = [qp EXCEPT ![t] = cm[t]]
              /\ \/ /\ att[cm[t]].phase = "route"
                    /\ att' = [att EXCEPT ![cm[t]].bound = TRUE, ![cm[t]].phase = "asking"]
                 \/ att' = [att EXCEPT ![cm[t]].bound = TRUE]
        /\ stop' = stop \/ stop' = TRUE
        /\ state' = state \/ state' = [state EXCEPT ![t] = "ERROR"]
        /\ UNCHANGED <<deaf, inRecovery, threads>>
    BY <1>5 DEF RouteResolved
  <2>2. TypeOK'
    <3>1. att' \in [Attempt -> AttemptRecord]
      <4>1. "asking" \in Phase
        BY DEF Phase
      <4>2. att \in [Attempt -> AttemptRecord]
        BY <1>1, Typed
      <4>3. \A i : /\ [att EXCEPT ![i].bound = TRUE] \in [Attempt -> AttemptRecord]
                   /\ [att EXCEPT ![i].bound = TRUE, ![i].phase = "asking"] \in [Attempt -> AttemptRecord]
        BY <4>1, <4>2, RecordType
      <4>4. /\ [att EXCEPT ![cm[t]].bound = TRUE] \in [Attempt -> AttemptRecord]
            /\ [att EXCEPT ![cm[t]].bound = TRUE, ![cm[t]].phase = "asking"] \in [Attempt -> AttemptRecord]
        BY <4>3
      <4>5. \/ att' = att
            \/ att' = [att EXCEPT ![cm[t]].bound = TRUE]
            \/ att' = [att EXCEPT ![cm[t]].bound = TRUE, ![cm[t]].phase = "asking"]
        BY <2>1
      <4>6. QED BY <4>2, <4>4, <4>5
    <3>2. qp' \in [Trans -> Attempt \union {None}]
      <4>1. cm \in [Trans -> Attempt \union {None}] /\ qp \in [Trans -> Attempt \union {None}]
        BY <1>1 DEF TypeOK
      <4>2. qp' = qp \/ qp' = [qp EXCEPT ![t] = cm[t]]
        BY <2>1
      <4>3. QED BY <4>1, <4>2
    <3>3. /\ stop' \in BOOLEAN
          /\ state' \in [Trans -> {"INIT", "CONNECTING", "CONNECTED", "DISCONNECTED", "ERROR"}]
      BY <1>1, <2>1 DEF TypeOK
    <3>4. /\ UNCHANGED <<main, begun, cm, prepare, alive, list, count, watcher, faults, races>>
          /\ UNCHANGED <<deaf, inRecovery, threads>> /\ loop' \in {"wait", "handle", "done", "crashed"}
      BY <1>2, <2>1 DEF server, past
    <3>5. QED BY <1>1, <1>3, <3>1, <3>2, <3>3, <3>4, TypeFrom DEF TypeOK
  <2>3. SameEnds
    <3>1. att \in [Attempt -> AttemptRecord]
      BY <1>1, Typed
    <3>2. \A i \in Attempt : att'[i].by = att[i].by /\ att'[i].peer = att[i].peer
                             /\ (att'[i].phase # "none" => att[i].phase # "none")
      BY <2>1, <3>1 DEF AttemptRecord
    <3>3. QED BY <1>2, <3>2 DEF SameEnds
  <2>4. OneRecovery'
    BY <1>1, <2>1 DEF OneRecovery
  <2>5. QED BY <1>1, <2>2, <2>3, <2>4, SameEndsKeeps
<1>6. CASE Established(t) \/ ConnectError(t)
  <2>1. TypeOK'
    BY <1>1, <1>2, <1>3, <1>6, TypeFrom, Typed DEF TypeOK, Established, ConnectError, server, past
  <2>2. SameEnds
    BY <1>1, <1>2, <1>6 DEF SameEnds, Established, ConnectError
  <2>3. OneRecovery'
    BY <1>1, <1>6 DEF OneRecovery, Established, ConnectError
  <2>4. QED BY <1>1, <2>1, <2>2, <2>3, SameEndsKeeps
<1>7. CASE Disconnected(t)
  <2>1. TypeOK'
    BY <1>1, <1>2, <1>3, <1>7, TypeFrom, Typed DEF TypeOK, Disconnected, server, past
  <2>2. SameEnds
    BY <1>1, <1>2, <1>7 DEF SameEnds, Disconnected
  <2>3. OneRecovery'
    BY <1>1, <1>7 DEF OneRecovery, Disconnected, TypeOK
  <2>4. QED BY <1>1, <2>1, <2>2, <2>3, SameEndsKeeps
<1>8. CASE Segfault
  <2>1. ASSUME NEW i \in Attempt
        PROVE  /\ att'[i] \in AttemptRecord /\ att'[i].by = att[i].by /\ att'[i].peer = att[i].peer
               /\ att'[i].phase # "none" => att[i].phase # "none"
    <3>1. att[i] \in AttemptRecord
      BY <1>1, Typed
    <3>2. PICK p \in Phase : att'[i] = [att[i] EXCEPT !.phase = p]
                             /\ (att[i].phase = "none" => p = "none")
      BY <1>8, <3>1 DEF Segfault, AttemptRecord, Phase, Open
    <3> DEFINE r == [att[i] EXCEPT !.phase = p]
    <3>3. r \in AttemptRecord /\ r.by = att[i].by /\ r.peer = att[i].peer /\ r.phase = p
      BY <3>1 DEF AttemptRecord
    <3>4. att'[i] = r
      BY <3>2
    <3> HIDE DEF r
    <3>5. att[i].phase = "none" => p = "none"
      BY <3>2
    <3>6. QED BY <3>3, <3>4, <3>5
  <2>2. att' \in [Attempt -> AttemptRecord]
    <3>1. DOMAIN att' = Attempt /\ att' = [i \in Attempt |-> att'[i]]
      BY <1>8 DEF Segfault
    <3>2. QED BY <2>1, <3>1
  <2>3. TypeOK'
    BY <1>1, <1>2, <1>3, <1>8, <2>2, TypeFrom DEF TypeOK, Segfault, server, past
  <2>4. SameEnds
    BY <1>2, <2>1 DEF SameEnds
  <2>5. OneRecovery'
    BY <1>1, <1>8 DEF OneRecovery, Segfault
  <2>6. QED BY <1>1, <2>3, <2>4, <2>5, SameEndsKeeps
<1>9. QED BY <1>2, <1>4, <1>5, <1>6, <1>7, <1>8 DEF Handle, HandleEvent, Event

LEMMA RecoveryKeeps ==
    ASSUME IInv, NEW t \in Trans, RecoveryStep(t)
    PROVE  TypeOK' /\ ServerInv' /\ OneRecovery'
<1>1. TypeOK /\ ServerInv /\ OneRecovery
  BY DEF IInv
<1>2. CASE Reconnect(t)
  <2>1. races' \subseteq {"retry", "late", "request"}
    BY <1>1, <1>2, RaceType DEF Reconnect
  <2>2. OneRecovery'
    <3>1. threads[t] = "loop" /\ threads \in [Trans -> {"none", "loop", "connecting", "sleep", "call"}]
      BY <1>1, <1>2 DEF Reconnect, TypeOK
    <3>2. threads' = [threads EXCEPT ![t] = "connecting"] \/ threads' = [threads EXCEPT ![t] = "sleep"]
      BY <1>2 DEF Reconnect, Loop
    <3>3. \A u \in Trans : threads'[u] # "none" <=> threads[u] # "none"
      BY <3>1, <3>2
    <3>4. inRecovery' = inRecovery
      BY <1>2 DEF Reconnect
    <3>5. QED BY <1>1, <3>3, <3>4 DEF OneRecovery
  <2>3. CASE Start(t) /\ Loop(t, "connecting") /\ UNCHANGED faults
    <3>1. TypeOK'
      <4>1. att' \in [Attempt -> AttemptRecord] /\ cm' \in [Trans -> Attempt \union {None}]
        BY <1>1, <2>3, StartType
      <4>2. threads' \in [Trans -> {"none", "loop", "connecting", "sleep", "call"}]
        BY <1>1, <2>3 DEF TypeOK, Loop
      <4>3. UNCHANGED <<main, begun, state, qp, deaf, chan, loop, stop, inRecovery, prepare, alive, list,
                        count, watcher, faults>>
        BY <1>2, <2>3 DEF Reconnect, server
      <4>4. QED BY <1>1, <2>1, <4>1, <4>2, <4>3, TypeFrom, Typed DEF TypeOK
    <3>2. ServerInv'
      BY <1>1, <1>2, <2>3, StartKeeps DEF Reconnect
    <3>3. QED BY <2>2, <3>1, <3>2
  <2>4. CASE StartFails(t) /\ Loop(t, "sleep")
    <3>1. /\ cm' \in [Trans -> Attempt \union {None}] /\ att' = att
          /\ faults' \in 0 .. MaxFault
      BY <1>1, <2>4, FaultType DEF StartFails, TypeOK
    <3>2. TypeOK'
      BY <1>1, <1>2, <2>1, <2>4, <3>1, TypeFrom, Typed DEF TypeOK, Reconnect, Loop, server
    <3>3. SameEnds
      BY <1>2, <3>1 DEF SameEnds, Reconnect
    <3>4. QED BY <1>1, <2>2, <3>2, <3>3, SameEndsKeeps
  <2>5. QED BY <1>2, <2>3, <2>4 DEF Reconnect
<1>5. CASE Reconnecting(t)
  <2>1. /\ state' \in [Trans -> {"INIT", "CONNECTING", "CONNECTED", "DISCONNECTED", "ERROR"}]
        /\ races' \subseteq {"retry", "late", "request"}
    BY <1>1, <1>5, RaceType DEF Reconnecting, Record, TypeOK
  <2>2. TypeOK'
    BY <1>1, <1>5, <2>1, TypeFrom, Typed DEF TypeOK, Reconnecting, Loop, server
  <2>3. SameEnds
    BY <1>5 DEF SameEnds, Reconnecting
  <2>4. OneRecovery'
    BY <1>1, <1>5 DEF OneRecovery, Reconnecting, Loop, TypeOK
  <2>5. QED BY <1>1, <2>2, <2>3, <2>4, SameEndsKeeps
<1>3. CASE Wake(t) \/ CallRecovery(t) \/ EndRecovery(t)
  <2>1. TypeOK'
    BY <1>1, <1>3, TypeFrom, Typed DEF TypeOK, Wake, CallRecovery, EndRecovery, Loop, server, past
  <2>2. SameEnds
    BY <1>3 DEF SameEnds, Wake, CallRecovery, EndRecovery
  <2>3. OneRecovery'
    <3>1. threads \in [Trans -> {"none", "loop", "connecting", "sleep", "call"}]
      BY <1>1 DEF TypeOK
    <3>2. CASE Wake(t) \/ CallRecovery(t)
      <4>1. \A u \in Trans : threads'[u] # "none" <=> threads[u] # "none"
        BY <3>1, <3>2 DEF Wake, CallRecovery, Loop
      <4>2. inRecovery' = inRecovery
        BY <3>2 DEF Wake, CallRecovery
      <4>3. QED BY <1>1, <4>1, <4>2 DEF OneRecovery
    <3>3. CASE EndRecovery(t)
      <4>1. \A u \in Trans : threads'[u] = "none"
        BY <1>1, <3>1, <3>3 DEF OneRecovery, EndRecovery, Loop
      <4>2. inRecovery' = FALSE
        BY <3>3 DEF EndRecovery
      <4>3. QED BY <4>1, <4>2 DEF OneRecovery
    <3>4. QED BY <1>3, <3>2, <3>3
  <2>4. QED BY <1>1, <2>1, <2>2, <2>3, SameEndsKeeps
<1>4. QED BY <1>2, <1>3, <1>5 DEF RecoveryStep

LEMMA OthersKeepRecovery ==
    ASSUME OneRecovery, UNCHANGED client
    PROVE  OneRecovery'
  BY DEF OneRecovery, client

\* An attempt that only changes its phase, and the event that tells of it.
LEMMA PhaseStepKeeps ==
    ASSUME IInv, NEW i \in Attempt, NEW p \in Phase, UNCHANGED <<client, server>>,
           att[i].phase # "none", att' = [att EXCEPT ![i].phase = p],
           chan' \in [Trans -> Seq(Message)], faults' \in 0 .. MaxFault, UNCHANGED races
    PROVE  TypeOK' /\ ServerInv' /\ OneRecovery'
<1>1. TypeOK /\ ServerInv /\ OneRecovery
  BY DEF IInv
<1>2. att \in [Attempt -> AttemptRecord] /\ att' \in [Attempt -> AttemptRecord]
  BY <1>1, Typed, RecordType
<1>3. TypeOK'
  BY <1>1, <1>2, TypeFrom DEF TypeOK, client, server, past
<1>4. SameEnds
  BY <1>2 DEF SameEnds, AttemptRecord
<1>5. QED BY <1>1, <1>3, <1>4, SameEndsKeeps, OthersKeepRecovery

LEMMA NetworkKeeps ==
    ASSUME IInv, NEW i \in Attempt,
           NetworkStep(i) \/ Fail(i) \/ Error(i) \/ Lose(i) \/ ServerClose(i)
    PROVE  TypeOK' /\ ServerInv' /\ OneRecovery'
<1>1. TypeOK
  BY DEF IInv
<1>2. \A kind \in Event : Put(i, kind) \in [Trans -> Seq(Message)]
  BY <1>1, PutType
<1>3. chan \in [Trans -> Seq(Message)]
  BY <1>1, Typed
<1>4. faults' \in 0 .. MaxFault
  BY <1>1, BoundAssumption DEF TypeOK, NetworkStep, AddrFound, RouteFound, Accepted, Refused, Move,
                               Fail, Error, Lose, Fault, ServerClose, past
<1>5. chan' \in [Trans -> Seq(Message)]
  BY <1>2, <1>3 DEF NetworkStep, AddrFound, RouteFound, Accepted, Refused, Move, Fail, Error, Lose,
                    ServerClose, Event
<1>6. UNCHANGED <<client, server, races>> /\ att[i].phase # "none"
  BY DEF NetworkStep, AddrFound, RouteFound, Accepted, Refused, Move, Fail, Error, Lose,
         ServerClose, Open, past
<1>7. \E p \in Phase : att' = [att EXCEPT ![i].phase = p]
  <2>1. {"addr", "route", "up", "dead", "nodevice", "down"} \subseteq Phase
    BY DEF Phase
  <2>2. CASE NetworkStep(i) \/ Error(i) \/ Lose(i) \/ ServerClose(i)
    BY <2>1, <2>2, Zenon DEF NetworkStep, AddrFound, RouteFound, Accepted, Refused, Move, Error, Lose,
                             ServerClose
  <2>3. CASE Fail(i)
    BY <2>1, <2>3 DEF Fail
  <2>4. QED BY <2>2, <2>3
<1>8. QED BY <1>4, <1>5, <1>6, <1>7, PhaseStepKeeps

(***************************************************************************)
(* The handlers of a server                                                *)
(***************************************************************************)
\* An attempt whose end at the server changes, to what both ends allow.
LEMMA PeerType ==
    ASSUME NEW a \in [Attempt -> AttemptRecord], NEW i, NEW p \in {"accepted", "known", "stale", "gone"},
           NEW b \in BOOLEAN
    PROVE  /\ [a EXCEPT ![i].peer = p] \in [Attempt -> AttemptRecord]
           /\ [a EXCEPT ![i].peer = p, ![i].poll = b] \in [Attempt -> AttemptRecord]
<1>1. \A r \in AttemptRecord : [r EXCEPT !.peer = p] \in AttemptRecord /\ [r EXCEPT !.poll = b] \in AttemptRecord
  BY DEF AttemptRecord
<1>2. /\ [a EXCEPT ![i] = [@ EXCEPT !.peer = p]] \in [Attempt -> AttemptRecord]
      /\ [[a EXCEPT ![i] = [@ EXCEPT !.peer = p]] EXCEPT ![i] = [@ EXCEPT !.poll = b]]
           \in [Attempt -> AttemptRecord]
  BY <1>1
<1>3. QED BY <1>2

\* on_cm_connect_request lists the new transport, unless it takes it for the
\* watcher's, and then accepts it or fails to.
LEMMA TakeKeeps ==
    ASSUME IInv, NEW i \in Attempt, Asks(i), Take(i), NEW p \in {"accepted", "stale"},
           NEW poll \in BOOLEAN, att' = [att EXCEPT ![i].peer = p, ![i].poll = poll],
           UNCHANGED <<client, chan, alive>>, faults' \in 0 .. MaxFault, races' \subseteq {"retry", "late", "request"}
    PROVE  TypeOK' /\ ServerInv' /\ OneRecovery'
<1>1. TypeOK /\ ServerInv /\ OneRecovery /\ att \in [Attempt -> AttemptRecord]
  BY Typed DEF IInv
<1>2. PICK s \in Server :
        s = At(i) /\ att[i].by \in Trans /\ alive[s] /\ att[i].peer = "none" /\ ~Held(i)
  BY <1>1 DEF Asks, ServerInv, MadeFor, At, Trans, Held, Served
<1>3. /\ att' = [att EXCEPT ![i].peer = p, ![i].poll = poll]
      /\ p \in {"accepted", "stale"} /\ poll \in BOOLEAN
  OBVIOUS
<1>4. att' \in [Attempt -> AttemptRecord]
  <2>1. p \in {"accepted", "known", "stale", "gone"}
    BY <1>3
  <2>2. [att EXCEPT ![i].peer = p, ![i].poll = poll] \in [Attempt -> AttemptRecord]
    BY <1>1, <1>3, <2>1, PeerType, Zenon
  <2>3. QED BY <1>3, <2>2
<1>5. /\ att'[i].by = att[i].by /\ att'[i].phase = att[i].phase /\ att'[i].peer = p
      /\ \A j \in Attempt : j # i => att'[j] = att[j]
  BY <1>1, <1>3 DEF AttemptRecord
<1>6. /\ HeldBy(s)' = HeldBy(s) \union {i}
      /\ \A u \in Server : u # s => HeldBy(u)' = HeldBy(u)
  <2>1. At(i)' = s /\ Held(i)'
    BY <1>2, <1>3, <1>5 DEF Held, Served, At
  <2>2. \A j \in Attempt : j # i => At(j)' = At(j) /\ (Held(j)' <=> Held(j))
    BY <1>5 DEF Held, Served, At
  <2>3. QED BY <1>2, <2>1, <2>2 DEF HeldBy
<1>7. i \notin HeldBy(s) /\ HeldBy(s) \in SUBSET Attempt
  BY <1>2 DEF HeldBy
<1>8. UNCHANGED <<client, chan, alive>> /\ alive' = alive
  OBVIOUS
<1>9. MadeFor' /\ ServersLive'
  BY <1>1, <1>2, <1>5, <1>6, <1>8 DEF ServerInv, MadeFor, ServersLive
<1>10. watcher[s] # i
  BY <1>1, <1>2 DEF ServerInv, WatcherKnown
<1>11. Lists(list[s], watcher[s], HeldBy(s)) /\ list[s] \in Seq(Attempt)
  BY <1>1, <1>2 DEF ServerInv, Listed, TypeOK
<1>12. CASE watcher[s] = None
  <2>1. watcher' = [watcher EXCEPT ![s] = i] /\ list' = list /\ count' = count
    BY <1>2, <1>12 DEF Take
  <2>2. TypeOK'
    BY <1>1, <1>4, <1>8, <2>1, TypeFrom, Typed DEF TypeOK, client
  <2>3. Counted'
    BY <1>1, <2>1 DEF ServerInv, Counted
  <2>4. watcher'[s] = i /\ \A u \in Server : u # s => watcher'[u] = watcher[u]
    BY <1>1, <1>2, <2>1 DEF TypeOK
  <2>5. WatcherKnown'
    BY <1>1, <1>2, <1>5, <2>4 DEF ServerInv, WatcherKnown, At
  <2>6. Lists(list[s], i, HeldBy(s) \union {i})
    <3>1. watcher[s] \notin HeldBy(s)
      BY <1>2, <1>12, ValueAssumption DEF HeldBy, Attempt
    <3>2. QED BY <1>7, <1>11, <3>1, ListsWatch
  <2>7. Listed'
    BY <1>1, <1>6, <1>8, <2>1, <2>4, <2>6 DEF ServerInv, Listed
  <2>8. QED BY <1>1, <1>8, <1>9, <2>2, <2>3, <2>5, <2>7, OthersKeepRecovery DEF ServerInv
<1>13. CASE watcher[s] # None
  <2>1. /\ list' = [list EXCEPT ![s] = Append(@, i)] /\ count' = [count EXCEPT ![s] = @ + 1]
        /\ watcher' = watcher
    BY <1>2, <1>13 DEF Take
  <2>2. Append(list[s], i) \in Seq(Attempt) /\ Len(Append(list[s], i)) = Len(list[s]) + 1
    BY <1>11
  <2>3. /\ list'[s] = Append(list[s], i) /\ count'[s] = count[s] + 1
        /\ \A u \in Server : u # s => list'[u] = list[u] /\ count'[u] = count[u]
    BY <1>1, <1>2, <2>1 DEF TypeOK
  <2>4. list' \in [Server -> Seq(Attempt)]
    BY <1>1, <2>1, <2>2 DEF TypeOK
  <2>5. count' \in [Server -> Nat]
    BY <1>1, <2>1 DEF TypeOK
  <2>6. TypeOK'
    BY <1>1, <1>4, <1>8, <2>1, <2>4, <2>5, TypeFrom, Typed DEF TypeOK, client
  <2>7. Counted'
    BY <1>1, <2>2, <2>3 DEF ServerInv, Counted
  <2>8. WatcherKnown'
    BY <1>1, <1>5, <2>1 DEF ServerInv, WatcherKnown, At
  <2>9. Lists(Append(list[s], i), watcher[s], HeldBy(s) \union {i})
    BY <1>7, <1>10, <1>11, ListsAppend
  <2>10. Listed'
    BY <1>1, <1>6, <1>8, <2>1, <2>3, <2>9 DEF ServerInv, Listed
  <2>11. QED BY <1>1, <1>8, <1>9, <2>6, <2>7, <2>8, <2>10, OthersKeepRecovery DEF ServerInv
<1>14. QED BY <1>12, <1>13

LEMMA ConnectRequestKeeps ==
    ASSUME IInv, NEW i \in Attempt, ConnectRequest(i)
    PROVE  TypeOK' /\ ServerInv' /\ OneRecovery'
<1>1. PICK exist \in BOOLEAN : att' = [att EXCEPT ![i].peer = "accepted", ![i].poll = exist]
  <2>1. Exists(At(i)) \subseteq BOOLEAN
    BY DEF Exists
  <2>2. QED BY <2>1 DEF ConnectRequest
<1>2. TypeOK
  BY DEF IInv
<1>3. faults' \in 0 .. MaxFault /\ races' \subseteq {"retry", "late", "request"}
  <2>1. faults' = faults /\ "request" \in {"retry", "late", "request"}
    BY DEF ConnectRequest
  <2>2. QED BY <1>2, <2>1, RaceType DEF TypeOK, ConnectRequest
<1>4. Asks(i) /\ Take(i) /\ UNCHANGED <<client, chan, alive>>
  BY DEF ConnectRequest
<1>5. QED BY <1>1, <1>3, <1>4, TakeKeeps

LEMMA RequestFailsKeeps ==
    ASSUME IInv, NEW i \in Attempt, RequestFails(i)
    PROVE  TypeOK' /\ ServerInv' /\ OneRecovery'
<1>1. TypeOK /\ ServerInv /\ OneRecovery /\ att \in [Attempt -> AttemptRecord]
  BY Typed DEF IInv
<1>2. Asks(i) /\ UNCHANGED <<client, chan, alive, races>>
  BY DEF RequestFails
<1>3. faults' \in 0 .. MaxFault /\ races' \subseteq {"retry", "late", "request"}
  BY <1>1, <1>2, FaultType DEF RequestFails, TypeOK
<1>4. CASE att' = [att EXCEPT ![i].peer = "stale"] /\ Take(i)
  <2>1. att[i] \in AttemptRecord
    BY <1>1
  <2>2. att' = [att EXCEPT ![i].peer = "stale", ![i].poll = att[i].poll] /\ att[i].poll \in BOOLEAN
    BY <1>1, <1>4, <2>1 DEF AttemptRecord
  <2>3. QED BY <1>2, <1>3, <1>4, <2>2, TakeKeeps
<1>5. CASE att' = [att EXCEPT ![i].peer = "gone"] /\ UNCHANGED <<list, count, watcher>>
  <2>1. att' \in [Attempt -> AttemptRecord]
    BY <1>1, <1>5, PeerType
  <2>2. TypeOK'
    BY <1>1, <1>2, <1>3, <1>5, <2>1, TypeFrom, Typed DEF TypeOK, client
  <2>3. /\ att'[i].by = att[i].by /\ att'[i].phase = att[i].phase /\ att'[i].peer = "gone"
        /\ \A j \in Attempt : j # i => att'[j] = att[j]
    BY <1>1, <1>5 DEF AttemptRecord
  <2>4. \A s \in Server : HeldBy(s)' = HeldBy(s)
    BY <1>2, <2>3 DEF HeldBy, Held, Served, At, Asks
  <2>5. ServersLive' /\ Counted' /\ Listed'
    BY <1>1, <1>2, <1>5, <2>4 DEF ServerInv, ServersLive, Counted, Listed
  <2>6. MadeFor' /\ WatcherKnown'
    BY <1>1, <1>2, <1>5, <2>3 DEF ServerInv, MadeFor, WatcherKnown, At, Asks
  <2>7. QED BY <1>1, <1>2, <2>2, <2>5, <2>6, OthersKeepRecovery DEF ServerInv
<1>6. QED BY <1>4, <1>5 DEF RequestFails

LEMMA EstablishedKeeps ==
    ASSUME IInv, NEW i \in Attempt, ServerEstablished(i)
    PROVE  TypeOK' /\ ServerInv' /\ OneRecovery'
<1>1. TypeOK /\ ServerInv /\ OneRecovery /\ att \in [Attempt -> AttemptRecord]
  BY Typed DEF IInv
<1>2. /\ att[i].peer = "accepted" /\ att' = [att EXCEPT ![i].peer = "known"]
      /\ UNCHANGED <<client, chan, server, past>>
  BY DEF ServerEstablished
<1>3. att' \in [Attempt -> AttemptRecord]
  BY <1>1, <1>2, PeerType
<1>4. TypeOK'
  BY <1>1, <1>2, <1>3, TypeFrom, Typed DEF TypeOK, client, server, past
<1>5. /\ att'[i].by = att[i].by /\ att'[i].phase = att[i].phase /\ att'[i].peer = "known"
      /\ \A j \in Attempt : j # i => att'[j] = att[j]
  BY <1>1, <1>2 DEF AttemptRecord
<1>6. \A s \in Server : HeldBy(s)' = HeldBy(s)
  BY <1>2, <1>5 DEF HeldBy, Held, Served, At
<1>7. alive' = alive /\ list' = list /\ count' = count /\ watcher' = watcher
  BY <1>2 DEF server
<1>8. ServersLive' /\ Counted' /\ Listed'
  BY <1>1, <1>6, <1>7 DEF ServerInv, ServersLive, Counted, Listed
<1>9. MadeFor' /\ WatcherKnown'
  BY <1>1, <1>2, <1>5, <1>7 DEF ServerInv, MadeFor, WatcherKnown, At
<1>10. QED BY <1>1, <1>2, <1>4, <1>8, <1>9, OthersKeepRecovery DEF ServerInv

\* on_cm_disconnected takes the transport out of the list, unless it is the
\* one that was taken for the watcher's.
LEMMA DisconnectedKeeps ==
    ASSUME IInv, NEW i \in Attempt, ServerDisconnected(i)
    PROVE  TypeOK' /\ ServerInv' /\ OneRecovery'
<1>1. TypeOK /\ ServerInv /\ OneRecovery /\ att \in [Attempt -> AttemptRecord]
  BY Typed DEF IInv
<1>2. PICK s \in Server : s = At(i) /\ att[i].by \in Trans /\ alive[s] /\ Held(i)
  BY <1>1 DEF ServerDisconnected, ServerInv, MadeFor, ServersLive, HeldBy, At, Trans, Held, Served
<1>3. /\ att' = [att EXCEPT ![i].peer = "gone"]
      /\ UNCHANGED <<client, chan, alive, watcher, past>>
  BY DEF ServerDisconnected
<1>4. att' \in [Attempt -> AttemptRecord]
  BY <1>1, <1>3, PeerType
<1>5. /\ att'[i].by = att[i].by /\ att'[i].phase = att[i].phase /\ att'[i].peer = "gone"
      /\ \A j \in Attempt : j # i => att'[j] = att[j]
  BY <1>1, <1>3 DEF AttemptRecord
<1>6. /\ HeldBy(s)' = HeldBy(s) \ {i}
      /\ \A u \in Server : u # s => HeldBy(u)' = HeldBy(u)
  BY <1>2, <1>5 DEF HeldBy, Held, Served, At
<1>7. MadeFor' /\ ServersLive'
  BY <1>1, <1>2, <1>3, <1>5, <1>6 DEF ServerInv, MadeFor, ServersLive
<1>8. WatcherKnown'
  BY <1>1, <1>3, <1>5 DEF ServerInv, WatcherKnown, At
<1>9. Lists(list[s], watcher[s], HeldBy(s)) /\ list[s] \in Seq(Attempt)
  BY <1>1, <1>2 DEF ServerInv, Listed, TypeOK
<1>10. CASE watcher[s] = i /\ UNCHANGED <<list, count>>
  <2>1. TypeOK'
    BY <1>1, <1>3, <1>4, <1>10, TypeFrom, Typed DEF TypeOK, client, past
  <2>2. Counted'
    BY <1>1, <1>10 DEF ServerInv, Counted
  <2>3. Lists(list[s], watcher[s], HeldBy(s) \ {i})
    BY <1>9, <1>10, ListsForget
  <2>4. Listed'
    BY <1>1, <1>3, <1>6, <1>10, <2>3 DEF ServerInv, Listed
  <2>5. QED BY <1>1, <1>3, <1>7, <1>8, <2>1, <2>2, <2>4, OthersKeepRecovery DEF ServerInv
<1>11. ASSUME watcher[s] # i, count' = [count EXCEPT ![s] = @ - 1],
              NEW k \in DOMAIN list[s], list[s][k] = i,
              list' = [list EXCEPT ![s] = RemoveAt(@, k)]
       PROVE  TypeOK' /\ ServerInv' /\ OneRecovery'
  <2>1. RemoveAt(list[s], k) \in Seq(Attempt) /\ Len(RemoveAt(list[s], k)) = Len(list[s]) - 1
    BY <1>9, RemoveAtFacts
  <2>2. list' \in [Server -> Seq(Attempt)]
    BY <1>1, <1>11, <2>1 DEF TypeOK
  <2>3. /\ list'[s] = RemoveAt(list[s], k) /\ count'[s] = count[s] - 1
        /\ \A u \in Server : u # s => list'[u] = list[u] /\ count'[u] = count[u]
    BY <1>1, <1>11 DEF TypeOK
  <2>4. count[s] = Len(list[s]) /\ count[s] - 1 \in Nat
    BY <1>1, <1>9, <1>11 DEF ServerInv, Counted
  <2>5. count' \in [Server -> Nat]
    BY <1>1, <1>11, <2>4 DEF TypeOK
  <2>6. TypeOK'
    BY <1>1, <1>3, <1>4, <2>2, <2>5, TypeFrom, Typed DEF TypeOK, client, past
  <2>7. Counted'
    BY <1>1, <2>1, <2>3, <2>4 DEF ServerInv, Counted
  <2>8. Lists(RemoveAt(list[s], k), watcher[s], HeldBy(s) \ {i})
    BY <1>9, <1>11, ListsRemove
  <2>9. Listed'
    BY <1>1, <1>3, <1>6, <2>3, <2>8 DEF ServerInv, Listed
  <2>10. QED BY <1>1, <1>3, <1>7, <1>8, <2>6, <2>7, <2>9, OthersKeepRecovery DEF ServerInv
<1>12. \/ watcher[s] = i /\ UNCHANGED <<list, count>>
       \/ /\ watcher[s] # i /\ count' = [count EXCEPT ![s] = @ - 1]
          /\ \E k \in DOMAIN list[s] :
                 list[s][k] = i /\ list' = [list EXCEPT ![s] = RemoveAt(@, k)]
  BY <1>2 DEF ServerDisconnected, Unlist
<1>13. QED BY <1>10, <1>11, <1>12

(***************************************************************************)
(* The end of a server's process and its restart                           *)
(***************************************************************************)
LEMMA CrashKeeps ==
    ASSUME IInv, NEW s \in Server, Crash(s)
    PROVE  TypeOK' /\ ServerInv' /\ OneRecovery'
<1>1. TypeOK /\ ServerInv /\ OneRecovery /\ att \in [Attempt -> AttemptRecord]
      /\ chan \in [Trans -> Seq(Message)]
  BY Typed DEF IInv
<1>2. /\ UNCHANGED <<client, list, count, watcher, races>>
      /\ alive' = [alive EXCEPT ![s] = FALSE]
  BY DEF Crash
<1>3. faults' \in 0 .. MaxFault
  <2>1. faults < MaxFault /\ faults' = faults + 1
    BY DEF Crash, Fault
  <2>2. faults \in 0 .. MaxFault
    BY <1>1 DEF TypeOK
  <2>3. QED BY <2>1, <2>2, BoundAssumption
<1>4. \A i \in Attempt :
        att'[i] = IF att[i].by = None \/ att[i].by[1] # s THEN att[i]
                  ELSE [att[i] EXCEPT !.peer = IF Held(i) THEN "gone" ELSE @,
                                      !.phase = IF Open(i) THEN "down"
                                                ELSE IF Held(i) /\ @ = "asking" THEN "dead"
                                                ELSE @]
  BY DEF Crash
<1>5. ASSUME NEW i \in Attempt
      PROVE  /\ att'[i] \in AttemptRecord
             /\ att'[i].by = att[i].by
             /\ att'[i].phase = "none" <=> att[i].phase = "none"
             /\ att'[i].peer = "none" <=> att[i].peer = "none"
             /\ att[i].by = None \/ att[i].by[1] # s => att'[i] = att[i]
             /\ att[i].by # None /\ att[i].by[1] = s => att'[i].peer \notin {"accepted", "known", "stale"}
  <2>1. att[i] \in AttemptRecord
    BY <1>1
  <2>2. CASE att[i].by = None \/ att[i].by[1] # s
    BY <1>4, <2>1, <2>2
  <2>3. CASE ~(att[i].by = None \/ att[i].by[1] # s)
    <3>1. att'[i] = [att[i] EXCEPT !.peer = IF Held(i) THEN "gone" ELSE @,
                                   !.phase = IF Open(i) THEN "down"
                                             ELSE IF Held(i) /\ @ = "asking" THEN "dead"
                                             ELSE @]
      BY <1>4, <2>3
    <3>2. QED BY <2>1, <2>3, <3>1 DEF AttemptRecord, Phase, Held, Served, Open
  <2>4. QED BY <2>2, <2>3
<1>6. att' \in [Attempt -> AttemptRecord]
  <2>1. DOMAIN att' = Attempt /\ att' = [i \in Attempt |-> att'[i]]
    BY DEF Crash
  <2>2. QED BY <1>5, <2>1
<1>7. chan' \in [Trans -> Seq(Message)]
  <2>1. ASSUME NEW t \in Trans
        PROVE  SetToSeq({[kind |-> "DISCONNECTED", id |-> i] :
                           i \in {j \in Attempt : att[j].by = t /\ Open(j)}}) \in Seq(Message)
    <3> DEFINE A == {j \in Attempt : att[j].by = t /\ Open(j)}
               B == {[kind |-> "DISCONNECTED", id |-> i] : i \in A}
               f == [i \in A |-> [kind |-> "DISCONNECTED", id |-> i]]
    <3>1. IsFiniteSet(Attempt)
      BY BoundAssumption, FS_Interval DEF Attempt
    <3>2. IsFiniteSet(A)
      BY <3>1, FS_Subset
    <3>3. f \in Surjection(A, B)
      BY DEF Surjection
    <3>4. B \subseteq Message
      BY DEF Message, Event
    <3> HIDE DEF A, B, f
    <3>5. IsFiniteSet(B)
      BY <3>2, <3>3, FS_Surjection
    <3>6. SetToSeq(B) \in Seq(Message)
      BY <3>4, <3>5, SetToSeqType
    <3>7. QED BY <3>6 DEF A, B
  <2>2. ASSUME NEW t \in Trans PROVE chan'[t] \in Seq(Message)
    <3>1. \A q, r \in Seq(Message) : q \o r \in Seq(Message)
      OBVIOUS
    <3>2. \/ chan'[t] = chan[t]
          \/ chan'[t] = chan[t] \o SetToSeq({[kind |-> "DISCONNECTED", id |-> i] :
                                               i \in {j \in Attempt : att[j].by = t /\ Open(j)}})
      BY DEF Crash
    <3>3. QED BY <1>1, <2>1, <3>1, <3>2
  <2>3. DOMAIN chan' = Trans /\ chan' = [t \in Trans |-> chan'[t]]
    BY DEF Crash
  <2>4. QED BY <2>2, <2>3
<1>8. TypeOK'
  BY <1>1, <1>2, <1>3, <1>6, <1>7, TypeFrom DEF TypeOK, client
<1>9. alive'[s] = FALSE /\ \A u \in Server : u # s => alive'[u] = alive[u]
  BY <1>1, <1>2 DEF TypeOK
<1>10. MadeFor' /\ WatcherKnown' /\ Counted'
  BY <1>1, <1>2, <1>5 DEF ServerInv, MadeFor, WatcherKnown, Counted, At
<1>11. HeldBy(s)' = {} /\ \A u \in Server : u # s => HeldBy(u)' = HeldBy(u)
  <2>1. \A i \in Attempt : att[i].peer # "none" => att[i].by \in Trans
    BY <1>1 DEF ServerInv, MadeFor
  <2>2. \A i \in Attempt : att'[i].peer \in {"accepted", "known", "stale"} => att[i].by # None
    BY <1>5, <2>1, NullAssumption
  <2>3. \A i \in Attempt : att'[i].peer \in {"accepted", "known", "stale"} => att[i].by[1] # s
    BY <1>5, <2>2
  <2>4. HeldBy(s)' = {}
    BY <1>5, <2>3 DEF HeldBy, Held, Served, At
  <2>5. ASSUME NEW u \in Server, u # s PROVE HeldBy(u)' = HeldBy(u)
    <3>1. ASSUME NEW i \in Attempt
          PROVE  (att'[i].peer \in {"accepted", "known", "stale"} /\ att'[i].by[1] = u)
                   <=> (att[i].peer \in {"accepted", "known", "stale"} /\ att[i].by[1] = u)
      BY <1>5, <2>5
    <3>2. QED BY <3>1 DEF HeldBy, Held, Served, At
  <2>6. QED BY <2>4, <2>5
<1>12. ServersLive' /\ Listed'
  BY <1>1, <1>2, <1>9, <1>11 DEF ServerInv, ServersLive, Listed
<1>13. QED BY <1>1, <1>2, <1>8, <1>10, <1>12, OthersKeepRecovery DEF ServerInv

LEMMA RestartKeeps ==
    ASSUME IInv, NEW s \in Server, Restart(s)
    PROVE  TypeOK' /\ ServerInv' /\ OneRecovery'
<1>1. TypeOK /\ ServerInv /\ OneRecovery
  BY DEF IInv
<1>2. PICK w \in Watchers : watcher' = [watcher EXCEPT ![s] = w]
  BY DEF Restart
<1>3. /\ ~alive[s] /\ alive' = [alive EXCEPT ![s] = TRUE]
      /\ list' = [list EXCEPT ![s] = <<>>] /\ count' = [count EXCEPT ![s] = 0]
      /\ UNCHANGED <<client, chan, att, past>>
  BY DEF Restart
<1>4. w \in {None, Taken} /\ w \notin Attempt
  BY FlagAssumption, ValueAssumption DEF Attempt
<1>5. list' \in [Server -> Seq(Attempt)] /\ count' \in [Server -> Nat]
      /\ watcher' \in [Server -> Attempt \union {None, Taken}]
  BY <1>1, <1>2, <1>3, <1>4 DEF TypeOK
<1>6. TypeOK'
  BY <1>1, <1>3, <1>5, TypeFrom, Typed DEF TypeOK, client, past
<1>7. /\ list'[s] = <<>> /\ count'[s] = 0 /\ watcher'[s] = w /\ alive'[s]
      /\ \A u \in Server : u # s => /\ list'[u] = list[u] /\ count'[u] = count[u]
                                    /\ watcher'[u] = watcher[u] /\ alive'[u] = alive[u]
  BY <1>1, <1>2, <1>3 DEF TypeOK
<1>8. \A u \in Server : HeldBy(u)' = HeldBy(u)
  BY <1>3 DEF HeldBy, Held, Served, At
<1>9. HeldBy(s) = {}
  BY <1>1, <1>3 DEF ServerInv, ServersLive
<1>10. MadeFor' /\ ServersLive' /\ Counted' /\ WatcherKnown'
  BY <1>1, <1>3, <1>4, <1>7, <1>8 DEF ServerInv, MadeFor, ServersLive, Counted, WatcherKnown, At
<1>11. Lists(<<>>, w, {})
  BY DEF Lists
<1>12. Listed'
  BY <1>1, <1>7, <1>8, <1>9, <1>11 DEF ServerInv, Listed
<1>13. QED BY <1>1, <1>3, <1>6, <1>10, <1>12, OthersKeepRecovery DEF ServerInv

(***************************************************************************)
(* The invariant, and what follows from it                                 *)
(***************************************************************************)
LEMMA InitInv == ASSUME Init PROVE IInv
<1>1. att = [i \in Attempt |-> NoAttempt] /\ NoAttempt \in AttemptRecord
  BY DEF Init, NoAttempt, AttemptRecord, Phase
<1>2. 1 \in 1 .. Len(Program) + 1
  BY ProgramType
<1>3. TypeOK
  <2>1. watcher \in [Server -> Attempt \union {None, Taken}]
    BY FlagAssumption DEF Init
  <2>2. chan \in [Trans -> Seq([kind : Event, id : Attempt])] /\ list \in [Server -> Seq(Attempt)]
    BY DEF Init
  <2>3. att \in [Attempt -> AttemptRecord]
    BY <1>1
  <2>4. att \in [Attempt -> [by : Trans \union {None}, phase : Phase, bound : BOOLEAN,
                             peer : {"none", "accepted", "known", "stale", "gone"}, poll : BOOLEAN]]
    BY <2>3 DEF AttemptRecord
  <2>5. faults \in 0 .. MaxFault /\ count \in [Server -> Nat]
    BY BoundAssumption DEF Init
  <2>6. QED BY <1>2, <2>1, <2>2, <2>4, <2>5 DEF Init, TypeOK
<1>4. \A i \in Attempt : att[i].phase = "none" /\ att[i].peer = "none" /\ ~Held(i)
  BY <1>1 DEF NoAttempt, Held, Served
<1>5. \A s \in Server : HeldBy(s) = {} /\ watcher[s] \notin Attempt
                        /\ list[s] = <<>> /\ count[s] = 0
  BY <1>4, FlagAssumption, ValueAssumption DEF Init, HeldBy, Attempt
<1>6. MadeFor /\ ServersLive /\ Counted /\ WatcherKnown
  BY <1>4, <1>5 DEF MadeFor, ServersLive, Counted, WatcherKnown
<1>7. \A w : Lists(<<>>, w, {})
  BY DEF Lists
<1>8. Listed
  BY <1>5, <1>7 DEF Listed
<1>9. OneRecovery
  BY DEF Init, OneRecovery
<1>10. QED BY <1>3, <1>6, <1>8, <1>9 DEF IInv, ServerInv

LEMMA StepInv == ASSUME IInv, [Next]_vars PROVE IInv'
<1>1. CASE Next
  <2>1. CASE MainStep
    BY <2>1, MainKeeps DEF IInv
  <2>2. ASSUME NEW t \in Trans, Handle(t) \/ RecoveryStep(t) PROVE IInv'
    BY <2>2, HandleKeeps, RecoveryKeeps DEF IInv
  <2>3. CASE LoopCheck
    <3>1. TypeOK'
      BY <2>3, TypeFrom, Typed DEF IInv, TypeOK, LoopCheck, server, past
    <3>2. SameEnds /\ OneRecovery'
      BY <2>3 DEF IInv, LoopCheck, SameEnds, OneRecovery
    <3>3. QED BY <3>1, <3>2, SameEndsKeeps DEF IInv
  <2>4. ASSUME NEW i \in Attempt, ServerStep(i) \/ NetworkStep(i) PROVE IInv'
    BY <2>4, ConnectRequestKeeps, EstablishedKeeps, DisconnectedKeeps, NetworkKeeps
    DEF IInv, ServerStep
  <2>5. CASE FaultStep
    BY <2>5, NetworkKeeps, RequestFailsKeeps, CrashKeeps DEF FaultStep, IInv
  <2>6. ASSUME NEW s \in Server, Restart(s) PROVE IInv'
    BY <2>6, RestartKeeps DEF IInv
  <2>7. QED BY <1>1, <2>1, <2>2, <2>3, <2>4, <2>5, <2>6 DEF Next
<1>2. CASE UNCHANGED vars
  <2>1. UNCHANGED <<client, chan, att, server, past>>
    BY <1>2 DEF vars
  <2>2. TypeOK'
    BY <2>1 DEF IInv, TypeOK, client, server, past
  <2>3. SameEnds /\ OneRecovery'
    BY <2>1, OthersKeepRecovery DEF IInv, SameEnds
  <2>4. QED BY <2>2, <2>3, SameEndsKeeps DEF IInv
<1>3. QED BY <1>1, <1>2

THEOREM Invariant == Spec => []IInv
<1>1. QED BY InitInv, StepInv, PTL DEF Spec

\* Events name attempts, cur_connections is no negative number, and handles
\* and lists hold what they are declared to hold (struct dhmp_transport,
\* struct dhmp_server).
THEOREM TypeCorrect == Spec => []TypeOK
<1>1. IInv => TypeOK
  BY DEF IInv
<1>2. QED BY <1>1, Invariant, PTL

\* A server's client_list holds what it serves, each once, and
\* cur_connections is its length, for any number of servers, attempts and
\* faults in any order (on_cm_connect_request, on_cm_disconnected,
\* on_cm_error).
THEOREM ListsHold == Spec => []ServerLists
<1>1. IInv => ServerLists
  BY DEF IInv, ServerInv, Counted, Listed, Lists, HeldBy, ServerLists, TypeOK
<1>2. QED BY <1>1, Invariant, PTL

\* One recovery thread at a time, and in_recovery says whether it runs, however
\* many links of however many servers are lost meanwhile (on_cm_disconnected,
\* recovery_thread).
THEOREM RecoveryIsAlone == Spec => []OneRecovery
<1>1. IInv => OneRecovery
  BY DEF IInv
<1>2. QED BY <1>1, Invariant, PTL

(***************************************************************************)
(* The event loop runs                                                     *)
(*                                                                         *)
(* Until a retry overtakes the attempt before, a transport's channel only  *)
(* holds events of its latest attempt, and those that fit how far it is:   *)
(* what on_cm_route_resolved finds is a route, and no handler finds a      *)
(* transport without a cm_id.                                              *)
(***************************************************************************)
Underway == {"resolving", "addr", "routing", "route", "asking", "up", "closing"}
Over == {"down", "nodevice", "dead"}

Told(i, kind) == [kind |-> kind, id |-> i]

\* What a channel may hold when the latest attempt i is in phase p.
Fits(c, i, p) ==
    \/ c = <<>> /\ p \notin {"addr", "route"}
    \/ c = <<Told(i, "ADDR_RESOLVED")>> /\ p = "addr"
    \/ c = <<Told(i, "ROUTE_RESOLVED")>> /\ p = "route"
    \/ c = <<Told(i, "ESTABLISHED")>> /\ p \in {"up", "closing"}
    \/ c = <<Told(i, "DISCONNECTED")>> /\ p = "down"
    \/ c = <<Told(i, "ESTABLISHED"), Told(i, "DISCONNECTED")>> /\ p = "down"
    \/ c = <<Told(i, "CONNECT_ERROR")>> /\ p = "dead"

Latest ==
    /\ \A i \in Attempt : att[i].phase \in Underway => att[i].by \in Trans /\ cm[att[i].by] = i
    /\ \A t \in Trans : cm[t] # None => att[cm[t]].by = t
NotBound ==
    \A i \in Attempt : att[i].phase \in {"resolving", "addr", "routing", "route"} => ~att[i].bound
Channels ==
    \A t \in Trans : IF cm[t] = None THEN chan[t] = <<>>
                                     ELSE Fits(chan[t], cm[t], att[cm[t]].phase)

\* dhmp_client_init connects each transport once, and nobody else does before.
ToConnect ==
    \A k \in main .. Len(Program) : Program[k].do = "connect" =>
        (k = main /\ begun) \/ (cm[Program[k].t] = None /\ threads[Program[k].t] = "none")

Prepared ==
    /\ main > Len(InitPart) + 1 => prepare
    /\ stop \/ loop \in {"done", "crashed"} => prepare

LinkInv == Latest /\ NotBound /\ Channels
InOrder == LinkInv /\ ToConnect /\ Prepared

(***************************************************************************)
(* The order of dhmp_client_init and dhmp_client_destroy                   *)
(***************************************************************************)
LEMMA Joined ==
    ASSUME NEW q \in Seq(Steps), NEW r \in Seq(Steps)
    PROVE  /\ q \o r \in Seq(Steps) /\ Len(q \o r) = Len(q) + Len(r)
           /\ Len(q) \in Nat /\ Len(r) \in Nat
           /\ \A k \in 1 .. Len(q) : (q \o r)[k] = q[k]
           /\ \A k \in Len(q) + 1 .. Len(q) + Len(r) :
                  (q \o r)[k] = r[k - Len(q)] /\ k - Len(q) \in 1 .. Len(r)
<1>1. q \o r \in Seq(Steps) /\ Len(q \o r) = Len(q) + Len(r) /\ Len(q) \in Nat /\ Len(r) \in Nat
  OBVIOUS
<1>2. \A k \in 1 .. Len(q) + Len(r) :
          (q \o r)[k] = IF k <= Len(q) THEN q[k] ELSE r[k - Len(q)]
  OBVIOUS
<1> DEFINE m == Len(q)
           n == Len(r)
<1> HIDE DEF m, n
<1>3. m \in Nat /\ n \in Nat /\ \A k \in m + 1 .. m + n : ~(k <= m) /\ k - m \in 1 .. n
                                                       /\ k \in 1 .. m + n
  BY <1>1 DEF m, n
<1>4. \A k \in 1 .. m : k <= m /\ k \in 1 .. m + n
  BY <1>3
<1>5. QED BY <1>1, <1>2, <1>3, <1>4 DEF m, n

\* What the steps of q do, that they connect different transports, all in T,
\* and that they begin with prepare_destroy.
Does(q, D) == \A k \in 1 .. Len(q) : q[k].do \in D
Apart(q, T) ==
    /\ \A k \in 1 .. Len(q) : q[k].do = "connect" => q[k].t \in T
    /\ \A k, l \in 1 .. Len(q) :
           q[k].do = "connect" /\ q[l].do = "connect" /\ q[k].t = q[l].t => k = l
Prepares(q, D) ==
    Len(q) >= 1 /\ q[1].do = "prepare" /\ \A k \in 2 .. Len(q) : q[k].do \in D

LEMMA DoesJoined ==
    ASSUME NEW q \in Seq(Steps), NEW r \in Seq(Steps), NEW D, Does(q, D), Does(r, D)
    PROVE  Does(q \o r, D)
<1> DEFINE m == Len(q)
           n == Len(r)
           s == q \o r
<1>1. /\ m \in Nat /\ n \in Nat /\ Len(s) = m + n /\ \A k \in 1 .. m : s[k] = q[k]
      /\ \A k \in m + 1 .. m + n : s[k] = r[k - m] /\ k - m \in 1 .. n
  BY Joined
<1>2. (\A k \in 1 .. m : q[k].do \in D) /\ \A k \in 1 .. n : r[k].do \in D
  BY DEF Does
<1> HIDE DEF m, n, s
<1>3. \A k \in 1 .. m + n : k \in 1 .. m \/ k \in m + 1 .. m + n
  BY <1>1
<1>4. \A k \in 1 .. Len(s) : s[k].do \in D
  BY <1>1, <1>2, <1>3
<1>5. QED BY <1>4 DEF Does, s

LEMMA ApartJoined ==
    ASSUME NEW q \in Seq(Steps), NEW r \in Seq(Steps), NEW T, NEW U,
           Apart(q, T), Apart(r, U), T \cap U = {}
    PROVE  Apart(q \o r, T \union U)
<1> DEFINE m == Len(q)
           n == Len(r)
           s == q \o r
<1>1. /\ m \in Nat /\ n \in Nat /\ Len(s) = m + n /\ \A k \in 1 .. m : s[k] = q[k]
      /\ \A k \in m + 1 .. m + n : s[k] = r[k - m] /\ k - m \in 1 .. n
  BY Joined
<1>2. /\ \A k \in 1 .. m : q[k].do = "connect" => q[k].t \in T
      /\ \A k, l \in 1 .. m :
             q[k].do = "connect" /\ q[l].do = "connect" /\ q[k].t = q[l].t => k = l
      /\ \A k \in 1 .. n : r[k].do = "connect" => r[k].t \in U
      /\ \A k, l \in 1 .. n :
             r[k].do = "connect" /\ r[l].do = "connect" /\ r[k].t = r[l].t => k = l
  BY DEF Apart
<1> HIDE DEF m, n, s
<1>3. \A k \in 1 .. m + n : k \in 1 .. m \/ k \in m + 1 .. m + n
  BY <1>1
<1>4. \A k \in 1 .. m : s[k].do = "connect" => s[k].t \in T
  BY <1>1, <1>2
<1>5. \A k \in m + 1 .. m + n : s[k].do = "connect" => s[k].t \in U
  BY <1>1, <1>2
<1>6. \A k, l \in 1 .. m : s[k].do = "connect" /\ s[l].do = "connect" /\ s[k].t = s[l].t => k = l
  BY <1>1, <1>2
<1>7. ASSUME NEW k \in m + 1 .. m + n, NEW l \in m + 1 .. m + n,
             s[k].do = "connect", s[l].do = "connect", s[k].t = s[l].t
      PROVE  k = l
  <2>1. k - m = l - m
    BY <1>1, <1>2, <1>7
  <2>2. QED BY <1>1, <2>1
<1>8. \A k \in 1 .. Len(s) : s[k].do = "connect" => s[k].t \in T \union U
  BY <1>1, <1>3, <1>4, <1>5
<1>9. \A k, l \in 1 .. Len(s) :
          s[k].do = "connect" /\ s[l].do = "connect" /\ s[k].t = s[l].t => k = l
  BY <1>1, <1>3, <1>4, <1>5, <1>6, <1>7
<1>10. QED BY <1>8, <1>9 DEF Apart, s

LEMMA PreparesJoined ==
    ASSUME NEW q \in Seq(Steps), NEW r \in Seq(Steps), NEW D, Prepares(q, D), Does(r, D)
    PROVE  Prepares(q \o r, D)
<1> DEFINE m == Len(q)
           n == Len(r)
           s == q \o r
<1>1. /\ m \in Nat /\ n \in Nat /\ Len(s) = m + n /\ \A k \in 1 .. m : s[k] = q[k]
      /\ \A k \in m + 1 .. m + n : s[k] = r[k - m] /\ k - m \in 1 .. n
  BY Joined
<1>2. /\ m >= 1 /\ q[1].do = "prepare"
      /\ (\A k \in 2 .. m : q[k].do \in D) /\ \A k \in 1 .. n : r[k].do \in D
  BY DEF Does, Prepares
<1> HIDE DEF m, n, s
<1>3. \A k \in 2 .. m + n : (k \in 1 .. m /\ k \in 2 .. m) \/ k \in m + 1 .. m + n
  BY <1>1
<1>4. \A k \in 2 .. Len(s) : s[k].do \in D
  BY <1>1, <1>2, <1>3
<1>5. 1 \in 1 .. m /\ Len(s) >= 1
  BY <1>1, <1>2
<1>6. s[1].do = "prepare"
  BY <1>1, <1>2, <1>5
<1>7. QED BY <1>4, <1>5, <1>6 DEF Prepares, s

LEMMA Parts ==
    ASSUME NEW p \in BOOLEAN, NEW do \in {"connect", "see", "close", "gone"}
    PROVE  /\ For(p, do) \in Seq(Steps) /\ Does(For(p, do), {do})
           /\ do = "connect" => Apart(For(p, do), Server \X {p})
           /\ do # "connect" => Apart(For(p, do), {})
<1> DEFINE q == For(p, do)
<1>1. ServerNum \in Nat
  BY ServerNumAssumption
<1>2. \A k \in 1 .. ServerNum : [do |-> do, t |-> <<k - 1, p>>] \in Steps
  BY <1>1 DEF Steps, Trans, Server
<1>3. /\ q \in Seq(Steps) /\ Len(q) = ServerNum
      /\ \A k \in 1 .. ServerNum : q[k].do = do /\ q[k].t = <<k - 1, p>>
  BY <1>1, <1>2 DEF For
<1> HIDE DEF q
<1>4. Does(q, {do})
  BY <1>3 DEF Does
<1>5. \A k \in 1 .. ServerNum : k - 1 \in Server
  BY <1>1 DEF Server
<1>6. \A k, l \in 1 .. ServerNum : q[k].t = q[l].t => k = l
  <2>1. \A k, l \in 1 .. ServerNum : q[k].t = q[l].t => k - 1 = l - 1
    BY <1>3
  <2>2. \A k, l \in 1 .. ServerNum : k - 1 = l - 1 => k = l
    BY <1>1
  <2>3. QED BY <2>1, <2>2
<1>7. \A k, l \in 1 .. Len(q) : q[k].t = q[l].t => k = l
  BY <1>3, <1>6
<1>8. \A k \in 1 .. Len(q) : q[k].do = do /\ q[k].t \in Server \X {p}
  <2>1. \A x \in Server : <<x, p>> \in Server \X {p}
    OBVIOUS
  <2>2. QED BY <1>3, <1>5, <2>1
<1>9. (do = "connect" => Apart(q, Server \X {p})) /\ (do # "connect" => Apart(q, {}))
  BY <1>7, <1>8, Zenon DEF Apart
<1>10. QED BY <1>3, <1>4, <1>9 DEF q

LEMMA InitSteps ==
    InitPart \in Seq(Steps) /\ Does(InitPart, {"connect", "see"}) /\ Apart(InitPart, Trans)
<1> DEFINE a == For(FALSE, "connect")
           b == For(FALSE, "see")
           c == For(TRUE, "connect")
           d == For(TRUE, "see")
           D == {"connect", "see"}
<1>1. /\ a \in Seq(Steps) /\ b \in Seq(Steps) /\ c \in Seq(Steps) /\ d \in Seq(Steps)
      /\ Does(a, D) /\ Does(b, D) /\ Does(c, D) /\ Does(d, D)
      /\ Apart(a, Server \X {FALSE}) /\ Apart(b, {})
      /\ Apart(c, Server \X {TRUE}) /\ Apart(d, {})
  <2>1. /\ a \in Seq(Steps) /\ Does(a, {"connect"}) /\ Apart(a, Server \X {FALSE})
        /\ c \in Seq(Steps) /\ Does(c, {"connect"}) /\ Apart(c, Server \X {TRUE})
    BY Parts
  <2>2. /\ b \in Seq(Steps) /\ Does(b, {"see"}) /\ Apart(b, {})
        /\ d \in Seq(Steps) /\ Does(d, {"see"}) /\ Apart(d, {})
    BY Parts
  <2>3. \A q : Does(q, {"connect"}) \/ Does(q, {"see"}) => Does(q, D)
    BY DEF Does
  <2> HIDE DEF a, b, c, d, D
  <2>4. QED BY <2>1, <2>2, <2>3
<1>2. InitPart = ((a \o b) \o c) \o d
  BY DEF InitPart
<1> HIDE DEF a, b, c, d, D
<1>3. a \o b \in Seq(Steps) /\ (a \o b) \o c \in Seq(Steps) /\ ((a \o b) \o c) \o d \in Seq(Steps)
  BY <1>1, Joined
<1>4. Does(((a \o b) \o c) \o d, D)
  <2>1. Does(a \o b, D)
    BY <1>1, DoesJoined
  <2>2. Does((a \o b) \o c, D)
    BY <1>1, <1>3, <2>1, DoesJoined
  <2>3. QED BY <1>1, <1>3, <2>2, DoesJoined
<1>5. Apart(((a \o b) \o c) \o d, Trans)
  <2>1. Apart(a \o b, (Server \X {FALSE}) \union {})
    <3>1. (Server \X {FALSE}) \cap {} = {}
      OBVIOUS
    <3>2. QED BY <1>1, <3>1, ApartJoined
  <2>2. Apart((a \o b) \o c, ((Server \X {FALSE}) \union {}) \union (Server \X {TRUE}))
    <3>1. ((Server \X {FALSE}) \union {}) \cap (Server \X {TRUE}) = {}
      OBVIOUS
    <3>2. QED BY <1>1, <1>3, <2>1, <3>1, ApartJoined
  <2>3. ((Server \X {FALSE}) \union {}) \union (Server \X {TRUE}) = Trans
    BY DEF Trans
  <2>4. Apart((a \o b) \o c, Trans)
    BY <2>2, <2>3
  <2>5. Apart(((a \o b) \o c) \o d, Trans \union {})
    <3>1. Trans \cap {} = {}
      OBVIOUS
    <3>2. QED BY <1>1, <1>3, <2>4, <3>1, ApartJoined
  <2>6. Trans \union {} = Trans
    OBVIOUS
  <2>7. QED BY <2>5, <2>6
<1>6. QED BY <1>2, <1>3, <1>4, <1>5 DEF D

LEMMA DestroySteps ==
    /\ DestroyPart \in Seq(Steps) /\ Prepares(DestroyPart, {"close", "gone", "stop", "join"})
<1> DEFINE p == <<[do |-> "prepare", t |-> None]>>
           a == For(FALSE, "close")
           b == For(TRUE, "close")
           c == For(FALSE, "gone")
           d == For(TRUE, "gone")
           e == <<[do |-> "stop", t |-> None], [do |-> "join", t |-> None]>>
           D == {"close", "gone", "stop", "join"}
<1>1. /\ a \in Seq(Steps) /\ b \in Seq(Steps) /\ c \in Seq(Steps) /\ d \in Seq(Steps)
      /\ Does(a, D) /\ Does(b, D) /\ Does(c, D) /\ Does(d, D)
  <2>1. /\ a \in Seq(Steps) /\ Does(a, {"close"}) /\ b \in Seq(Steps) /\ Does(b, {"close"})
        /\ c \in Seq(Steps) /\ Does(c, {"gone"}) /\ d \in Seq(Steps) /\ Does(d, {"gone"})
    BY Parts
  <2>2. \A q : Does(q, {"close"}) \/ Does(q, {"gone"}) => Does(q, D)
    BY DEF Does
  <2> HIDE DEF a, b, c, d, D
  <2>3. QED BY <2>1, <2>2
<1>2. e \in Seq(Steps) /\ Does(e, D)
  BY DEF Steps, Does
<1>3. p \in Seq(Steps) /\ Prepares(p, D)
  BY DEF Steps, Prepares
<1>4. DestroyPart = ((((p \o a) \o b) \o c) \o d) \o e
  BY DEF DestroyPart
<1> HIDE DEF a, b, c, d, e, p, D
<1>5. p \o a \in Seq(Steps) /\ Prepares(p \o a, D)
  BY <1>1, <1>3, Joined, PreparesJoined
<1>6. (p \o a) \o b \in Seq(Steps) /\ Prepares((p \o a) \o b, D)
  BY <1>1, <1>5, Joined, PreparesJoined
<1>7. ((p \o a) \o b) \o c \in Seq(Steps) /\ Prepares(((p \o a) \o b) \o c, D)
  BY <1>1, <1>6, Joined, PreparesJoined
<1>8. (((p \o a) \o b) \o c) \o d \in Seq(Steps) /\ Prepares((((p \o a) \o b) \o c) \o d, D)
  BY <1>1, <1>7, Joined, PreparesJoined
<1>9. ((((p \o a) \o b) \o c) \o d) \o e \in Seq(Steps)
      /\ Prepares(((((p \o a) \o b) \o c) \o d) \o e, D)
  BY <1>2, <1>8, Joined, PreparesJoined
<1>10. QED BY <1>4, <1>9 DEF D

\* dhmp_client_init connects every transport once, dhmp_client_destroy begins
\* with prepare_destroy and connects none.
LEMMA ProgramSteps ==
    /\ Len(InitPart) \in Nat /\ Len(Program) \in Nat
    /\ \A k \in 1 .. Len(Program) :
           /\ k <= Len(InitPart) => Program[k].do \in {"connect", "see"}
           /\ k = Len(InitPart) + 1 => Program[k].do = "prepare"
           /\ k > Len(InitPart) + 1 => Program[k].do \in {"close", "gone", "stop", "join"}
    /\ \A k, l \in 1 .. Len(Program) :
           Program[k].do = "connect" /\ Program[l].do = "connect" /\ Program[k].t = Program[l].t
             => k = l
<1> DEFINE m == Len(InitPart)
           n == Len(DestroyPart)
           D == {"close", "gone", "stop", "join"}
<1>1. /\ m \in Nat /\ n \in Nat /\ Len(Program) = m + n
      /\ \A k \in 1 .. m : Program[k] = InitPart[k]
      /\ \A k \in m + 1 .. m + n : Program[k] = DestroyPart[k - m] /\ k - m \in 1 .. n
  BY InitSteps, DestroySteps, Joined DEF Program
<1>2. /\ n >= 1 /\ DestroyPart[1].do = "prepare" /\ \A k \in 2 .. n : DestroyPart[k].do \in D
  BY DestroySteps DEF Prepares
<1>3. /\ \A k \in 1 .. m : InitPart[k].do \in {"connect", "see"}
      /\ \A k, l \in 1 .. m : InitPart[k].do = "connect" /\ InitPart[l].do = "connect"
                              /\ InitPart[k].t = InitPart[l].t => k = l
  BY InitSteps DEF Does, Apart
<1> HIDE DEF m, n, D
<1>4. ASSUME NEW k \in 1 .. m + n
      PROVE  /\ k <= m => Program[k].do \in {"connect", "see"}
             /\ k = m + 1 => Program[k].do = "prepare"
             /\ k > m + 1 => Program[k].do \in D
  <2>1. CASE k <= m
    <3>1. k \in 1 .. m
      BY <1>1, <2>1
    <3>2. QED BY <1>1, <1>3, <2>1, <3>1
  <2>2. CASE k = m + 1
    <3>1. k \in m + 1 .. m + n /\ k - m = 1
      BY <1>1, <2>2
    <3>2. QED BY <1>1, <1>2, <2>2, <3>1
  <2>3. CASE k > m + 1
    <3>1. k \in m + 1 .. m + n /\ k - m \in 2 .. n
      BY <1>1, <2>3
    <3>2. QED BY <1>1, <1>2, <2>3, <3>1
  <2>4. QED BY <1>1, <2>1, <2>2, <2>3
<1>5. ASSUME NEW k \in 1 .. m + n, NEW l \in 1 .. m + n,
             Program[k].do = "connect", Program[l].do = "connect", Program[k].t = Program[l].t
      PROVE  k = l
  <2>1. k \in 1 .. m /\ l \in 1 .. m
    BY <1>1, <1>4, <1>5 DEF D
  <2>2. QED BY <1>1, <1>3, <1>5, <2>1
<1>6. QED BY <1>1, <1>4, <1>5 DEF m, n, D

(***************************************************************************)
(* Steps, as they are seen from the channels                               *)
(***************************************************************************)
LEMMA EndedIsOver ==
    ASSUME LinkInv, NEW t \in Trans, Ended(t)
    PROVE  chan[t] = <<>> /\ (cm[t] = None \/ att[cm[t]].phase \notin Underway)
<1>1. CASE cm[t] = None
  BY <1>1 DEF LinkInv, Channels
<1>2. CASE cm[t] # None
  <2>1. ~Pending(cm[t]) /\ att[cm[t]].phase \notin {"resolving", "routing", "asking", "up", "closing"}
    BY <1>2 DEF Ended, Open
  <2>2. Fits(chan[t], cm[t], att[cm[t]].phase)
    BY <1>2 DEF LinkInv, Channels
  <2>3. chan[t] = <<>>
    <3>1. \A k \in DOMAIN chan[t] : chan[t][k].id # cm[t]
      BY <2>1 DEF Pending
    <3>2. chan[t] # <<>> => 1 \in DOMAIN chan[t] /\ chan[t][1].id = cm[t]
      BY <2>2 DEF Fits, Told
    <3>3. QED BY <3>1, <3>2
  <2>4. att[cm[t]].phase \notin {"addr", "route"}
    BY <2>2, <2>3 DEF Fits, Told
  <2>5. QED BY <2>1, <2>3, <2>4 DEF Underway
<1>3. QED BY <1>1, <1>2

\* dhmp_transport_connect when the last attempt of the transport is over.
LEMMA StartInOrder ==
    ASSUME TypeOK, LinkInv, NEW t \in Trans, Start(t), chan' = chan, chan[t] = <<>>,
           cm[t] = None \/ att[cm[t]].phase \notin Underway
    PROVE  /\ LinkInv' /\ cm'[t] \in Attempt /\ att'[cm'[t]].phase = "resolving"
           /\ \A u \in Trans : u # t => cm'[u] = cm[u]
           /\ \A u \in Trans : cm[u] # None => att'[cm[u]] = att[cm[u]]
<1>1. PICK i \in Attempt :
        /\ Unused(i)
        /\ att' = [att EXCEPT ![i] = [NoAttempt EXCEPT !.by = t, !.phase = "resolving"]]
        /\ cm' = [cm EXCEPT ![t] = i] 
  BY DEF Start
<1>2. \A u \in Trans : cm[u] # i
  BY <1>1 DEF Unused, Referred
<1>3. /\ att'[i].by = t /\ att'[i].phase = "resolving" /\ ~att'[i].bound
      /\ \A j \in Attempt : j # i => att'[j] = att[j]
  BY <1>1 DEF TypeOK, NoAttempt
<1>4. i # None /\ None \notin Attempt
  BY ValueAssumption DEF Attempt
<1>5. cm'[t] = i /\ \A u \in Trans : u # t => cm'[u] = cm[u]
  BY <1>1 DEF TypeOK
<1>6. \A u \in Trans : cm[u] # None => cm[u] \in Attempt /\ att'[cm[u]] = att[cm[u]]
  BY <1>2, <1>3 DEF TypeOK
<1>7. Latest'
  <2>1. ASSUME NEW j \in Attempt, att'[j].phase \in Underway
        PROVE  att'[j].by \in Trans /\ cm'[att'[j].by] = j
    <3>1. CASE j = i
      BY <1>3, <1>5, <3>1
    <3>2. CASE j # i
      <4>1. att[j].by \in Trans /\ cm[att[j].by] = j /\ att'[j] = att[j]
        BY <1>3, <2>1, <3>2 DEF LinkInv, Latest
      <4>2. att[j].by # t
        <5>1. ASSUME att[j].by = t PROVE FALSE
          <6>1. cm[t] = j /\ j # None /\ att[j].phase \in Underway
            BY <1>4, <2>1, <4>1, <5>1
          <6>2. QED BY <6>1
        <5>2. QED BY <5>1
      <4>3. QED BY <1>5, <4>1, <4>2
    <3>3. QED BY <3>1, <3>2
  <2>2. \A u \in Trans : cm'[u] # None => att'[cm'[u]].by = u
    BY <1>3, <1>5, <1>6 DEF LinkInv, Latest
  <2>3. QED BY <2>1, <2>2 DEF Latest
<1>8. NotBound'
  BY <1>3 DEF LinkInv, NotBound
<1>9. Channels'
  <2>1. Fits(<<>>, i, "resolving")
    BY DEF Fits
  <2>2. ASSUME NEW u \in Trans
        PROVE  IF cm'[u] = None THEN chan[u] = <<>> ELSE Fits(chan[u], cm'[u], att'[cm'[u]].phase)
    <3>1. CASE u = t
      BY <1>3, <1>4, <1>5, <2>1, <3>1
    <3>2. CASE u # t
      BY <1>5, <1>6, <3>2 DEF LinkInv, Channels
    <3>3. QED BY <3>1, <3>2
  <2>3. QED BY <2>2 DEF Channels
<1>10. QED BY <1>3, <1>4, <1>5, <1>6, <1>7, <1>8, <1>9 DEF LinkInv

\* ... and when it fails.
LEMMA NoneInOrder ==
    ASSUME TypeOK, LinkInv, NEW t \in Trans, UNCHANGED <<att, chan>>, chan[t] = <<>>,
           cm[t] = None \/ att[cm[t]].phase \notin Underway,
           cm' = [cm EXCEPT ![t] = None]
    PROVE  LinkInv'
<1>1. cm'[t] = None /\ \A u \in Trans : u # t => cm'[u] = cm[u]
  BY DEF TypeOK
<1>2. Latest'
  <2>1. ASSUME NEW i \in Attempt, att[i].phase \in Underway
        PROVE  att[i].by \in Trans /\ cm'[att[i].by] = i
    <3>1. att[i].by \in Trans /\ cm[att[i].by] = i /\ i # None
      BY <2>1, ValueAssumption DEF LinkInv, Latest, Attempt
    <3>2. QED BY <1>1, <2>1, <3>1
  <2>2. \A u \in Trans : cm'[u] # None => att[cm'[u]].by = u
    BY <1>1 DEF LinkInv, Latest
  <2>3. QED BY <2>1, <2>2 DEF Latest
<1>3. NotBound' /\ Channels'
  BY <1>1 DEF LinkInv, NotBound, Channels
<1>4. QED BY <1>2, <1>3 DEF LinkInv

\* A step after which no attempt of a transport is elsewhere.
SameRecords ==
    \A i \in Attempt : /\ att'[i].by = att[i].by
                       /\ att'[i].phase = att[i].phase /\ att'[i].bound = att[i].bound
SameLinks == SameRecords /\ UNCHANGED <<cm, chan>>

LEMMA SameLinksInOrder ==
    ASSUME TypeOK, LinkInv, SameLinks
    PROVE  LinkInv'
<1>1. \A t \in Trans : cm[t] # None => cm[t] \in Attempt
  BY DEF TypeOK
<1>2. Latest' /\ NotBound'
  BY <1>1 DEF LinkInv, Latest, NotBound, SameLinks, SameRecords
<1>3. Channels'
  BY <1>1 DEF LinkInv, Channels, SameLinks, SameRecords
<1>4. QED BY <1>2, <1>3 DEF LinkInv

\* A step of the attempt i of transport t to phase p, after which the channel
\* holds c.
LEMMA MovedInOrder ==
    ASSUME TypeOK, LinkInv, NEW i \in Attempt, NEW t \in Trans, NEW p \in Phase, NEW c,
           att[i].phase \in Underway, att[i].by = t,
           att'[i].by = t, att'[i].phase = p, \A j \in Attempt : j # i => att'[j] = att[j],
           att'[i].bound = att[i].bound \/ p = "asking",
           p \in {"addr", "routing", "route"} => att[i].phase \in {"resolving", "addr", "routing"},
           chan'[t] = c, \A u \in Trans : u # t => chan'[u] = chan[u], Fits(c, i, p),
           UNCHANGED cm, p \notin {"resolving", "none"}
    PROVE  LinkInv'
<1>1. cm[t] = i /\ i # None
  BY ValueAssumption DEF LinkInv, Latest, Attempt
<1>2. \A u \in Trans : u # t /\ cm[u] # None => cm[u] \in Attempt /\ cm[u] # i
  BY DEF LinkInv, Latest, TypeOK
<1>3. Latest'
  BY <1>1, <1>2 DEF LinkInv, Latest
<1>4. NotBound'
  BY DEF LinkInv, NotBound
<1>5. Channels'
  BY <1>1, <1>2 DEF LinkInv, Channels
<1>6. QED BY <1>3, <1>4, <1>5 DEF LinkInv

LEMMA SameProgress ==
    ASSUME ToConnect, Prepared, UNCHANGED <<main, begun, cm, threads, prepare, stop, loop>>
    PROVE  ToConnect' /\ Prepared'
  BY DEF ToConnect, Prepared

LEMMA UnderwayIsLatest ==
    ASSUME TypeOK, LinkInv, NEW i \in Attempt, att[i].phase \in Underway
    PROVE  /\ att[i].by \in Trans /\ cm[att[i].by] = i
           /\ Fits(chan[att[i].by], i, att[i].phase)
<1>1. att[i].by \in Trans /\ cm[att[i].by] = i /\ i # None
  BY ValueAssumption DEF LinkInv, Latest, Attempt
<1>2. QED BY <1>1 DEF LinkInv, Channels

LEMMA AppendSecond ==
    ASSUME NEW S, NEW m \in S, NEW n \in S
    PROVE  Append(<<n>>, m) = <<n, m>>
<1>1. /\ Append(<<n>>, m) \in Seq(S) /\ <<n, m>> \in Seq(S)
      /\ Len(Append(<<n>>, m)) = 2 /\ Len(<<n, m>>) = 2
  OBVIOUS
<1>2. /\ Append(<<n>>, m)[1] = n /\ Append(<<n>>, m)[2] = m
      /\ \A k \in 1 .. 2 : k = 1 \/ k = 2
  OBVIOUS
<1>3. \A k \in 1 .. 2 : Append(<<n>>, m)[k] = <<n, m>>[k]
  BY <1>2
<1>4. QED BY <1>1, <1>3, SeqEqual

LEMMA PutInOrder ==
    ASSUME TypeOK, NEW i \in Attempt, NEW t \in Trans, att[i].by = t, NEW kind,
           chan' = Put(i, kind)
    PROVE  /\ chan[t] = <<>> => chan'[t] = <<Told(i, kind)>>
           /\ \A k : chan[t] = <<Told(i, k)>> => chan'[t] = <<Told(i, k), Told(i, kind)>>
           /\ \A u \in Trans : u # t => chan'[u] = chan[u]
<1>1. chan'[t] = Append(chan[t], Told(i, kind)) /\ \A u \in Trans : u # t => chan'[u] = chan[u]
  BY DEF Put, TypeOK, Told
<1>2. \A m : Append(<<>>, m) = <<m>>
  OBVIOUS
<1>3. ASSUME NEW k
      PROVE  Append(<<Told(i, k)>>, Told(i, kind)) = <<Told(i, k), Told(i, kind)>>
  <2>1. \A m, n : Append(<<n>>, m) = <<n, m>>
    <3>1. ASSUME NEW m, NEW n PROVE Append(<<n>>, m) = <<n, m>>
      <4>1. m \in {m, n} /\ n \in {m, n}
        OBVIOUS
      <4>2. QED BY <4>1, AppendSecond
    <3>2. QED BY <3>1
  <2>2. QED BY <2>1
<1>4. QED BY <1>1, <1>2, <1>3

LEMMA PhaseChange ==
    ASSUME TypeOK, NEW i \in Attempt, NEW p, att' = [att EXCEPT ![i].phase = p]
    PROVE  /\ att'[i].by = att[i].by /\ att'[i].phase = p /\ att'[i].bound = att[i].bound
           /\ \A j \in Attempt : j # i => att'[j] = att[j]
<1>1. att \in [Attempt -> AttemptRecord]
  BY Typed
<1>2. QED BY <1>1 DEF AttemptRecord

LEMMA NetworkInOrder ==
    ASSUME TypeOK, InOrder, NEW i \in Attempt,
           NetworkStep(i) \/ Fail(i) \/ Error(i) \/ Lose(i) \/ ServerClose(i)
    PROVE  InOrder'
<1>1. LinkInv /\ ToConnect /\ Prepared
  BY DEF InOrder
<1>2. UNCHANGED client
  BY DEF NetworkStep, AddrFound, RouteFound, Accepted, Refused, Move, Fail, Error, Lose, ServerClose
<1>3. UNCHANGED <<main, begun, cm, threads, prepare, stop, loop>>
  BY <1>2 DEF client
<1>4. att[i].phase \in Underway
  BY DEF NetworkStep, AddrFound, RouteFound, Accepted, Refused, Move, Fail, Error, Lose, ServerClose,
         Open, Underway
<1>5. PICK t \in Trans : att[i].by = t /\ cm[t] = i /\ Fits(chan[t], i, att[i].phase)
  BY <1>1, <1>4, UnderwayIsLatest
<1>6. ASSUME NEW p \in Phase, NEW c, att' = [att EXCEPT ![i].phase = p], chan'[t] = c,
             \A u \in Trans : u # t => chan'[u] = chan[u], Fits(c, i, p),
             p \in {"addr", "routing", "route"} => att[i].phase \in {"resolving", "addr", "routing"},
             p \notin {"resolving", "none"}
      PROVE  InOrder'
  <2>1. /\ att'[i].by = t /\ att'[i].phase = p /\ att'[i].bound = att[i].bound
        /\ \A j \in Attempt : j # i => att'[j] = att[j]
    BY <1>5, <1>6, PhaseChange
  <2>2. LinkInv'
    BY <1>1, <1>3, <1>4, <1>5, <1>6, <2>1, MovedInOrder
  <2>3. ToConnect' /\ Prepared'
    BY <1>1, <1>3, SameProgress
  <2>4. QED BY <2>2, <2>3 DEF InOrder
<1>7. CASE AddrFound(i)
  <2>1. att[i].phase = "resolving" /\ att' = [att EXCEPT ![i].phase = "addr"]
        /\ chan' = Put(i, "ADDR_RESOLVED")
    BY <1>7 DEF AddrFound, Move
  <2>2. chan[t] = <<>>
    BY <1>5, <2>1 DEF Fits
  <2>3. chan'[t] = <<Told(i, "ADDR_RESOLVED")>> /\ \A u \in Trans : u # t => chan'[u] = chan[u]
    BY <1>5, <2>1, <2>2, PutInOrder
  <2>4. Fits(<<Told(i, "ADDR_RESOLVED")>>, i, "addr") /\ "addr" \in Phase
    BY DEF Fits, Phase
  <2>5. QED BY <1>6, <2>1, <2>3, <2>4
<1>8. CASE RouteFound(i)
  <2>1. att[i].phase = "routing" /\ att' = [att EXCEPT ![i].phase = "route"]
        /\ chan' = Put(i, "ROUTE_RESOLVED")
    BY <1>8 DEF RouteFound, Move
  <2>2. chan[t] = <<>>
    BY <1>5, <2>1 DEF Fits
  <2>3. chan'[t] = <<Told(i, "ROUTE_RESOLVED")>> /\ \A u \in Trans : u # t => chan'[u] = chan[u]
    BY <1>5, <2>1, <2>2, PutInOrder
  <2>4. Fits(<<Told(i, "ROUTE_RESOLVED")>>, i, "route") /\ "route" \in Phase
    BY DEF Fits, Phase
  <2>5. QED BY <1>6, <2>1, <2>3, <2>4
<1>9. CASE Accepted(i)
  <2>1. att[i].phase = "asking" /\ att' = [att EXCEPT ![i].phase = "up"]
        /\ chan' = Put(i, "ESTABLISHED")
    BY <1>9 DEF Accepted, Move
  <2>2. chan[t] = <<>>
    BY <1>5, <2>1 DEF Fits
  <2>3. chan'[t] = <<Told(i, "ESTABLISHED")>> /\ \A u \in Trans : u # t => chan'[u] = chan[u]
    BY <1>5, <2>1, <2>2, PutInOrder
  <2>4. Fits(<<Told(i, "ESTABLISHED")>>, i, "up") /\ "up" \in Phase
    BY DEF Fits, Phase
  <2>5. QED BY <1>6, <2>1, <2>3, <2>4
<1>10. CASE Refused(i) \/ Fail(i)
  <2>1. /\ att[i].phase \in {"resolving", "routing", "asking"} /\ chan' = chan
        /\ \E p \in {"nodevice", "dead"} : att' = [att EXCEPT ![i].phase = p]
    BY <1>10 DEF Refused, Fail
  <2>2. chan[t] = <<>>
    BY <1>5, <2>1 DEF Fits
  <2>3. \A p \in {"nodevice", "dead"} : Fits(<<>>, i, p) /\ p \in Phase
    BY DEF Fits, Phase
  <2>4. QED BY <1>6, <2>1, <2>2, <2>3
<1>11. CASE Error(i)
  <2>1. att[i].phase = "asking" /\ att' = [att EXCEPT ![i].phase = "dead"]
        /\ chan' = Put(i, "CONNECT_ERROR")
    BY <1>11 DEF Error
  <2>2. chan[t] = <<>>
    BY <1>5, <2>1 DEF Fits
  <2>3. chan'[t] = <<Told(i, "CONNECT_ERROR")>> /\ \A u \in Trans : u # t => chan'[u] = chan[u]
    BY <1>5, <2>1, <2>2, PutInOrder
  <2>4. Fits(<<Told(i, "CONNECT_ERROR")>>, i, "dead") /\ "dead" \in Phase
    BY DEF Fits, Phase
  <2>5. QED BY <1>6, <2>1, <2>3, <2>4
<1>12. CASE Lose(i) \/ ServerClose(i)
  <2>1. att[i].phase \in {"up", "closing"} /\ att' = [att EXCEPT ![i].phase = "down"]
        /\ chan' = Put(i, "DISCONNECTED")
    BY <1>12 DEF Lose, ServerClose, Open
  <2>2. chan[t] = <<>> \/ chan[t] = <<Told(i, "ESTABLISHED")>>
    BY <1>5, <2>1 DEF Fits
  <2>3. /\ chan[t] = <<>> => chan'[t] = <<Told(i, "DISCONNECTED")>>
        /\ chan[t] = <<Told(i, "ESTABLISHED")>>
             => chan'[t] = <<Told(i, "ESTABLISHED"), Told(i, "DISCONNECTED")>>
        /\ \A u \in Trans : u # t => chan'[u] = chan[u]
    <3>1. \A k : chan[t] = <<Told(i, k)>> => chan'[t] = <<Told(i, k), Told(i, "DISCONNECTED")>>
      BY <1>5, <2>1, PutInOrder
    <3>2. QED BY <1>5, <2>1, <3>1, PutInOrder
  <2>4. Fits(chan'[t], i, "down") /\ "down" \in Phase
    BY <2>2, <2>3 DEF Fits, Phase
  <2>5. QED BY <1>6, <2>1, <2>3, <2>4
<1>13. QED BY <1>7, <1>8, <1>9, <1>10, <1>11, <1>12 DEF NetworkStep

LEMMA ServerInOrder ==
    ASSUME TypeOK, InOrder,
           (\E i \in Attempt : ConnectRequest(i) \/ RequestFails(i) \/ ServerEstablished(i)
                              \/ ServerDisconnected(i))
             \/ (\E s \in Server : Restart(s)) \/ UNCHANGED vars
    PROVE  InOrder'
<1>1. LinkInv /\ ToConnect /\ Prepared /\ att \in [Attempt -> AttemptRecord]
  BY Typed DEF InOrder
<1>2. UNCHANGED client /\ chan' = chan
  BY DEF ConnectRequest, RequestFails, ServerEstablished, ServerDisconnected, Restart, vars
<1>3. SameRecords
  <2>1. ASSUME NEW i \in Attempt, ConnectRequest(i) PROVE SameRecords
    <3>1. PICK exist : att' = [att EXCEPT ![i].peer = "accepted", ![i].poll = exist]
      BY <2>1 DEF ConnectRequest
    <3>2. QED BY <1>1, <3>1 DEF AttemptRecord, SameRecords
  <2>2. ASSUME NEW i \in Attempt, ServerEstablished(i) PROVE SameRecords
    <3>1. att' = [att EXCEPT ![i].peer = "known"]
      BY <2>2 DEF ServerEstablished
    <3>2. QED BY <1>1, <3>1 DEF AttemptRecord, SameRecords
  <2>3. CASE UNCHANGED att
    BY <2>3 DEF SameRecords
  <2>4. CASE \E i \in Attempt : ServerDisconnected(i)
    <3>1. PICK i \in Attempt : att' = [att EXCEPT ![i].peer = "gone"]
      BY <2>4 DEF ServerDisconnected
    <3>2. QED BY <1>1, <3>1 DEF AttemptRecord, SameRecords
  <2>5. (\E s \in Server : Restart(s)) \/ UNCHANGED vars => UNCHANGED att
    BY DEF Restart, vars
  <2>6. ASSUME NEW i \in Attempt, RequestFails(i) PROVE SameRecords
    <3>1. PICK p : att' = [att EXCEPT ![i].peer = p]
      BY <2>6 DEF RequestFails
    <3>2. QED BY <1>1, <3>1 DEF AttemptRecord, SameRecords
  <2>7. QED BY <2>1, <2>2, <2>3, <2>4, <2>5, <2>6
<1>4. SameLinks
  BY <1>2, <1>3 DEF SameLinks, client
<1>5. LinkInv'
  BY <1>1, <1>4, SameLinksInOrder
<1>6. ToConnect' /\ Prepared'
  BY <1>1, <1>2, SameProgress DEF client
<1>7. QED BY <1>5, <1>6 DEF InOrder

LEMMA SetToSeqSmall ==
    ASSUME NEW x
    PROVE  SetToSeq({}) = <<>> /\ SetToSeq({x}) = <<x>>
<1>1. SetToSeq({}) = <<>>
  <2>1. IsFiniteSet({}) /\ Cardinality({}) = 0
    BY FS_EmptySet
  <2>2. SetToSeq({}) \in Seq({})
    BY <2>1, SetToSeqType
  <2>3. QED BY <2>2
<1>2. SetToSeq({x}) = <<x>>
  <2>1. IsFiniteSet({x}) /\ Cardinality({x}) = 1
    BY FS_Singleton
  <2>2. ExistsBijection(1 .. 1, {x})
    BY <2>1, FS_CardinalityType
  <2>3. \E f \in [1 .. 1 -> {x}] : IsInjective(f)
    BY <2>2 DEF ExistsBijection, Bijection, Injection
  <2>4. SetToSeq({x}) \in [1 .. 1 -> {x}]
    BY <2>1, <2>3 DEF SetToSeq
  <2>5. SetToSeq({x}) \in Seq({x}) /\ Len(SetToSeq({x})) = 1
    <3>1. SetToSeq({x}) \in Seq({x})
      BY <2>1, SetToSeqType
    <3>2. 1 .. Len(SetToSeq({x})) = 1 .. 1 /\ Len(SetToSeq({x})) \in Nat
      BY <2>4, <3>1, LenProperties
    <3>3. \A n \in Nat : 1 .. n = 1 .. 1 => n = 1
      OBVIOUS
    <3>4. QED BY <3>1, <3>2, <3>3
  <2>6. <<x>> \in Seq({x}) /\ Len(<<x>>) = 1 /\ <<x>>[1] = x
    OBVIOUS
  <2>7. SetToSeq({x})[1] = x
    BY <2>4
  <2>8. QED BY <2>5, <2>6, <2>7, SeqEqual
<1>3. QED BY <1>1, <1>2

\* What the end of server s does to an attempt.
LEMMA CrashAttempts ==
    ASSUME TypeOK, NEW s \in Server, Crash(s), NEW i \in Attempt
    PROVE  /\ att'[i].by = att[i].by /\ att'[i].bound = att[i].bound
           /\ att[i].by = None \/ att[i].by[1] # s => att'[i] = att[i]
           /\ att[i].by # None /\ att[i].by[1] = s =>
                /\ Open(i) => att'[i].phase = "down"
                /\ ~Open(i) => att'[i].phase = att[i].phase
                               \/ (att[i].phase = "asking" /\ att'[i].phase = "dead")
<1>1. att[i] \in AttemptRecord
  BY Typed
<1>2. CASE att[i].by = None \/ att[i].by[1] # s
  BY <1>2 DEF Crash
<1>3. CASE ~(att[i].by = None \/ att[i].by[1] # s)
  <2>1. att'[i] = [att[i] EXCEPT !.peer = IF Held(i) THEN "gone" ELSE @,
                                 !.phase = IF Open(i) THEN "down"
                                           ELSE IF Held(i) /\ @ = "asking" THEN "dead"
                                           ELSE @]
    BY <1>3 DEF Crash
  <2>2. att'[i].by = att[i].by /\ att'[i].bound = att[i].bound
    BY <1>1, <2>1 DEF AttemptRecord, Phase, Held, Open
  <2>3. CASE Open(i)
    <3>1. att'[i].phase = "down"
      BY <1>1, <2>1, <2>3 DEF AttemptRecord, Phase, Held, Open
    <3>2. QED BY <1>3, <2>2, <2>3, <3>1
  <2>4. CASE ~Open(i)
    <3>1. att'[i].phase = att[i].phase \/ (att[i].phase = "asking" /\ att'[i].phase = "dead")
      BY <1>1, <2>1, <2>4 DEF AttemptRecord, Phase, Held, Open
    <3>2. QED BY <1>3, <2>2, <2>4, <3>1
  <2>5. QED BY <2>3, <2>4
<1>4. QED BY <1>2, <1>3

\* What it puts into a channel.
LEMMA CrashChannels ==
    ASSUME TypeOK, LinkInv, NEW s \in Server, Crash(s), NEW t \in Trans
    PROVE  /\ t[1] # s => chan'[t] = chan[t]
           /\ t[1] = s /\ (cm[t] = None \/ ~Open(cm[t])) => chan'[t] = chan[t]
           /\ t[1] = s /\ cm[t] # None /\ Open(cm[t]) =>
                chan'[t] = chan[t] \o <<Told(cm[t], "DISCONNECTED")>>
<1> DEFINE A == {j \in Attempt : att[j].by = t /\ Open(j)}
           B == {[kind |-> "DISCONNECTED", id |-> i] : i \in A}
<1>1. chan'[t] = IF t[1] # s THEN chan[t] ELSE chan[t] \o SetToSeq(B)
  BY DEF Crash
<1>2. \A j \in A : cm[t] = j
  BY DEF LinkInv, Latest, Open, Underway
<1>3. CASE cm[t] = None \/ ~Open(cm[t])
  <2>1. A = {}
    BY <1>2, <1>3, ValueAssumption DEF Attempt
  <2>2. B = {}
    BY <2>1
  <2>3. chan[t] \in Seq(Message)
    BY Typed
  <2> HIDE DEF A, B
  <2>4. SetToSeq(B) = <<>>
    BY <2>2, SetToSeqSmall
  <2>5. chan[t] \o <<>> = chan[t]
    BY <2>3, ConcatEmptySeq
  <2>6. QED BY <1>1, <1>3, <2>4, <2>5
<1>4. CASE cm[t] # None /\ Open(cm[t])
  <2>1. A = {cm[t]}
    BY <1>2, <1>4 DEF LinkInv, Latest, TypeOK
  <2>2. B = {Told(cm[t], "DISCONNECTED")}
    BY <2>1 DEF Told
  <2> HIDE DEF A, B
  <2>3. SetToSeq(B) = <<Told(cm[t], "DISCONNECTED")>>
    BY <2>2, SetToSeqSmall
  <2>4. QED BY <1>1, <1>4, <2>3
<1>5. QED BY <1>3, <1>4

LEMMA CrashInOrder ==
    ASSUME TypeOK, InOrder, NEW s \in Server, Crash(s)
    PROVE  InOrder'
<1>1. LinkInv /\ ToConnect /\ Prepared /\ att \in [Attempt -> AttemptRecord]
  BY Typed DEF InOrder
<1>2. UNCHANGED <<main, begun, cm, threads, prepare, stop, loop>>
  BY DEF Crash, client
<1>3. ASSUME NEW i \in Attempt
      PROVE  /\ att'[i].by = att[i].by /\ att'[i].bound = att[i].bound
             /\ att[i].by = None \/ att[i].by[1] # s => att'[i] = att[i]
             /\ att[i].by # None /\ att[i].by[1] = s =>
                  /\ Open(i) => att'[i].phase = "down"
                  /\ ~Open(i) => att'[i].phase = att[i].phase
                                 \/ (att[i].phase = "asking" /\ att'[i].phase = "dead")
  BY <1>1, CrashAttempts
<1>4. \A i \in Attempt : /\ att'[i].phase \in Underway => att[i].phase = att'[i].phase
                         /\ att[i].phase \in Over => att'[i].phase = att[i].phase
                         /\ att'[i].phase \in {"up", "closing"} => att'[i].phase = att[i].phase
  <2>1. ASSUME NEW i \in Attempt
        PROVE  \/ att'[i].phase = att[i].phase
               \/ att[i].phase \in {"up", "closing", "asking"} /\ att'[i].phase \in {"down", "dead"}
    BY <1>3 DEF Open
  <2>2. QED BY <2>1 DEF Underway, Over
<1>5. \A t \in Trans : cm[t] # None => cm[t] \in Attempt /\ att[cm[t]].by = t
  BY <1>1 DEF LinkInv, Latest, TypeOK
<1>6. Latest' /\ NotBound'
  BY <1>1, <1>2, <1>3, <1>4, <1>5 DEF LinkInv, Latest, NotBound, Underway
<1>7. ASSUME NEW t \in Trans
      PROVE  /\ t[1] # s => chan'[t] = chan[t]
             /\ t[1] = s /\ (cm[t] = None \/ ~Open(cm[t])) => chan'[t] = chan[t]
             /\ t[1] = s /\ cm[t] # None /\ Open(cm[t]) =>
                  chan'[t] = chan[t] \o <<Told(cm[t], "DISCONNECTED")>>
  BY <1>1, CrashChannels
<1>8. ASSUME NEW t \in Trans, cm[t] # None
      PROVE  Fits(chan'[t], cm[t], att'[cm[t]].phase)
  <2>1. Fits(chan[t], cm[t], att[cm[t]].phase) /\ att[cm[t]].by = t /\ t # None
    BY <1>1, <1>5, <1>8, NullAssumption DEF LinkInv, Channels
  <2>2. CASE t[1] # s
    <3>1. att'[cm[t]] = att[cm[t]]
      BY <1>3, <1>5, <1>8, <2>1, <2>2
    <3>2. chan'[t] = chan[t]
      BY <1>7, <2>2
    <3>3. QED BY <2>1, <3>1, <3>2
  <2>3. CASE t[1] = s /\ ~Open(cm[t])
    <3>1. chan'[t] = chan[t]
      BY <1>7, <2>3
    <3>2. att'[cm[t]].phase = att[cm[t]].phase
          \/ (att[cm[t]].phase = "asking" /\ att'[cm[t]].phase = "dead")
      BY <1>3, <1>5, <1>8, <2>1, <2>3
    <3>3. QED BY <2>1, <3>1, <3>2 DEF Fits
  <2>4. CASE t[1] = s /\ Open(cm[t])
    <3>1. chan'[t] = chan[t] \o <<Told(cm[t], "DISCONNECTED")>> /\ att'[cm[t]].phase = "down"
      BY <1>3, <1>5, <1>7, <1>8, <2>1, <2>4
    <3>2. chan[t] = <<>> \/ chan[t] = <<Told(cm[t], "ESTABLISHED")>>
      BY <2>1, <2>4 DEF Fits, Open
    <3>3. \A m : <<>> \o <<m>> = <<m>>
      OBVIOUS
    <3>4. ASSUME NEW m, NEW n PROVE <<n>> \o <<m>> = <<n, m>>
      <4>1. /\ <<n>> \o <<m>> \in Seq({m, n}) /\ <<n, m>> \in Seq({m, n})
            /\ Len(<<n>> \o <<m>>) = 2 /\ Len(<<n, m>>) = 2
        OBVIOUS
      <4>2. (<<n>> \o <<m>>)[1] = n /\ (<<n>> \o <<m>>)[2] = m /\ \A k \in 1 .. 2 : k = 1 \/ k = 2
        OBVIOUS
      <4>3. \A k \in 1 .. 2 : (<<n>> \o <<m>>)[k] = <<n, m>>[k]
        BY <4>2
      <4>4. QED BY <4>1, <4>3, SeqEqual
    <3>5. QED BY <3>1, <3>2, <3>3, <3>4 DEF Fits
  <2>5. QED BY <2>2, <2>3, <2>4
<1>9. Channels'
  BY <1>1, <1>2, <1>7, <1>8 DEF LinkInv, Channels
<1>10. ToConnect' /\ Prepared'
  BY <1>1, <1>2, SameProgress
<1>11. QED BY <1>6, <1>9, <1>10 DEF InOrder, LinkInv

\* The event loop has taken an event that changes no attempt.
LEMMA TakenInOrder ==
    ASSUME TypeOK, LinkInv, NEW t \in Trans, cm[t] # None, NEW c,
           UNCHANGED <<att, cm>>, chan'[t] = c, Fits(c, cm[t], att[cm[t]].phase),
           \A u \in Trans : u # t => chan'[u] = chan[u]
    PROVE  LinkInv'
<1>1. Latest' /\ NotBound'
  BY DEF LinkInv, Latest, NotBound
<1>2. Channels'
  BY DEF LinkInv, Channels
<1>3. QED BY <1>1, <1>2 DEF LinkInv

LEMMA HandleInOrder ==
    ASSUME TypeOK, InOrder, NEW t \in Trans, Handle(t)
    PROVE  InOrder'
<1>1. LinkInv /\ ToConnect /\ Prepared /\ att \in [Attempt -> AttemptRecord]
  BY Typed DEF InOrder
<1>2. /\ chan[t] # <<>> /\ UNCHANGED <<main, begun, cm, prepare>> /\ t \in Trans
      /\ chan'[t] = Tail(chan[t]) /\ \A u \in Trans : u # t => chan'[u] = chan[u]
  BY DEF Handle, TypeOK
<1>3. PICK i \in Attempt : cm[t] = i /\ i # None /\ att[i].by = t
                           /\ Fits(chan[t], i, att[i].phase)
  BY <1>1, <1>2 DEF LinkInv, Channels, Latest, TypeOK
<1>4. HandleEvent(t) /\ loop' = "handle"
  BY <1>3 DEF Handle, NoId, HandleEvent
<1>5. ASSUME stop' = stop, LinkInv', \A u \in Trans : u # t => threads'[u] = threads[u]
      PROVE  InOrder'
  <2>1. ToConnect'
    <3>1. ASSUME NEW k \in main .. Len(Program), Program[k].do = "connect", ~(k = main /\ begun)
          PROVE  cm[Program[k].t] = None /\ threads'[Program[k].t] = "none"
      <4>1. k \in 1 .. Len(Program)
        BY ProgramSteps DEF TypeOK
      <4>2. Program[k].t \in Trans
        BY <3>1, <4>1, ProgramType DEF Steps
      <4>3. cm[Program[k].t] = None /\ threads[Program[k].t] = "none"
        BY <1>1, <3>1 DEF ToConnect
      <4>4. QED BY <1>3, <1>5, <4>2, <4>3
    <3>2. QED BY <1>2, <3>1 DEF ToConnect
  <2>2. Prepared'
    BY <1>1, <1>2, <1>5, <1>4 DEF Prepared
  <2>3. QED BY <1>5, <2>1, <2>2 DEF InOrder
<1>6. \A k : chan[t] = <<Told(i, k)>> => chan'[t] = <<>> /\ Head(chan[t]).kind = k
  BY <1>2 DEF Told
<1>7. CASE chan[t] = <<Told(i, "ADDR_RESOLVED")>>
  <2>1. att[i].phase = "addr" /\ chan'[t] = <<>> /\ AddrResolved(t)
    <3>1. att[i].phase = "addr"
      BY <1>3, <1>7 DEF Fits, Told
    <3>2. chan'[t] = <<>> /\ Head(chan[t]).kind = "ADDR_RESOLVED"
      BY <1>6, <1>7
    <3>3. QED BY <1>4, <3>1, <3>2 DEF HandleEvent
  <2>2. att' = [att EXCEPT ![i].phase = "routing"]
        /\ UNCHANGED <<state, stop, threads>>
    BY <1>3, <2>1 DEF AddrResolved
  <2>3. /\ att'[i].by = t /\ att'[i].phase = "routing" /\ att'[i].bound = att[i].bound
        /\ \A j \in Attempt : j # i => att'[j] = att[j]
    BY <1>3, <2>2, PhaseChange
  <2>4. Fits(<<>>, i, "routing") /\ "routing" \in Phase /\ "addr" \in Underway
    BY DEF Fits, Phase, Underway
  <2>5. LinkInv'
    BY <1>1, <1>2, <1>3, <2>1, <2>2, <2>3, <2>4, MovedInOrder
  <2>6. QED BY <1>5, <2>2, <2>5
<1>8. CASE chan[t] = <<Told(i, "ROUTE_RESOLVED")>>
  <2>1. att[i].phase = "route" /\ chan'[t] = <<>> /\ RouteResolved(t)
    <3>1. att[i].phase = "route"
      BY <1>3, <1>8 DEF Fits, Told
    <3>2. chan'[t] = <<>> /\ Head(chan[t]).kind = "ROUTE_RESOLVED"
      BY <1>6, <1>8
    <3>3. QED BY <1>4, <3>1, <3>2 DEF HandleEvent
  <2>2. ~att[i].bound
    BY <1>1, <2>1 DEF LinkInv, NotBound
  <2>3. Bindable(i)
    BY <2>1, <2>2 DEF Bindable
  <2>4. att' = [att EXCEPT ![i].bound = TRUE, ![i].phase = "asking"]
        /\ UNCHANGED <<state, stop, threads>>
    BY <1>3, <2>1, <2>3 DEF RouteResolved
  <2>5. /\ att'[i].by = t /\ att'[i].phase = "asking"
        /\ \A j \in Attempt : j # i => att'[j] = att[j]
    BY <1>1, <1>3, <2>4 DEF AttemptRecord
  <2>6. Fits(<<>>, i, "asking") /\ "asking" \in Phase /\ "route" \in Underway
    BY DEF Fits, Phase, Underway
  <2>7. LinkInv'
    <3>1. UNCHANGED cm
      BY <1>2
    <3>2. att[i].phase \in Underway /\ att[i].by = t /\ i \in Attempt
      BY <1>3, <2>1, <2>6 DEF TypeOK
    <3>3. QED BY <1>1, <1>2, <2>1, <2>5, <2>6, <3>1, <3>2, MovedInOrder
  <2>8. QED BY <1>5, <2>4, <2>7
<1>9. CASE chan[t] = <<Told(i, "ESTABLISHED")>>
           \/ chan[t] = <<Told(i, "ESTABLISHED"), Told(i, "DISCONNECTED")>>
  <2>1. Established(t)
    <3>1. Head(chan[t]).kind = "ESTABLISHED"
      BY <1>9 DEF Told
    <3>2. QED BY <1>4, <3>1 DEF HandleEvent
  <2>2. /\ att' = att /\ stop' = stop /\ threads' = threads /\ state'[t] = "CONNECTED"
        /\ \A u \in Trans : u # t => state'[u] = state[u]
    BY <2>1 DEF Established, TypeOK
  <2>3. Fits(chan'[t], i, att[i].phase)
    <3>1. CASE chan[t] = <<Told(i, "ESTABLISHED")>>
      <4>1. chan'[t] = <<>> /\ att[i].phase \in {"up", "closing"}
        BY <1>3, <1>6, <3>1 DEF Fits, Told
      <4>2. QED BY <4>1 DEF Fits
    <3>2. CASE chan[t] = <<Told(i, "ESTABLISHED"), Told(i, "DISCONNECTED")>>
      <4>1. chan'[t] = <<Told(i, "DISCONNECTED")>>
        BY <1>2, <3>2
      <4>2. att[i].phase = "down"
        BY <1>3, <3>2 DEF Fits, Told
      <4>3. QED BY <4>1, <4>2 DEF Fits
    <3>3. QED BY <1>9, <3>1, <3>2
  <2>4. LinkInv'
    BY <1>1, <1>2, <1>3, <2>2, <2>3, TakenInOrder
  <2>5. QED BY <1>5, <2>2, <2>4
<1>10. CASE chan[t] = <<Told(i, "DISCONNECTED")>>
  <2>1. att[i].phase = "down" /\ chan'[t] = <<>> /\ Disconnected(t)
    <3>1. att[i].phase = "down"
      BY <1>3, <1>10 DEF Fits, Told
    <3>2. chan'[t] = <<>> /\ Head(chan[t]).kind = "DISCONNECTED"
      BY <1>6, <1>10
    <3>3. QED BY <1>4, <3>1, <3>2 DEF HandleEvent
  <2>2. /\ att' = att /\ stop' = stop
        /\ \A u \in Trans : u # t => state'[u] = state[u] /\ threads'[u] = threads[u]
    BY <2>1 DEF Disconnected, TypeOK
  <2>3. Fits(<<>>, i, "down") /\ "down" \in Over /\ ~Open(i)
    BY <2>1 DEF Fits, Over, Open
  <2>4. LinkInv'
    BY <1>1, <1>2, <1>3, <2>1, <2>2, <2>3, TakenInOrder
  <2>5. QED BY <1>5, <2>2, <2>4
<1>11. CASE chan[t] = <<Told(i, "CONNECT_ERROR")>>
  <2>1. att[i].phase = "dead" /\ chan'[t] = <<>> /\ ConnectError(t)
    <3>1. att[i].phase = "dead"
      BY <1>3, <1>11 DEF Fits, Told
    <3>2. chan'[t] = <<>> /\ Head(chan[t]).kind = "CONNECT_ERROR"
      BY <1>6, <1>11
    <3>3. QED BY <1>4, <3>1, <3>2 DEF HandleEvent
  <2>2. /\ att' = att /\ stop' = stop /\ threads' = threads
        /\ \A u \in Trans : u # t => state'[u] = state[u]
    BY <2>1 DEF ConnectError, TypeOK
  <2>3. Fits(<<>>, i, "dead") /\ "dead" \in Over /\ ~Open(i)
    BY <2>1 DEF Fits, Over, Open
  <2>4. LinkInv'
    BY <1>1, <1>2, <1>3, <2>1, <2>2, <2>3, TakenInOrder
  <2>5. QED BY <1>5, <2>2, <2>4
<1>12. QED BY <1>2, <1>3, <1>7, <1>8, <1>9, <1>10, <1>11 DEF Fits

\* Where a thread goes from any place but "none", no transport that is still
\* to be connected is disturbed.
LEMMA ThreadsMove ==
    ASSUME TypeOK, ToConnect, NEW t \in Trans, threads[t] # "none",
           \A u \in Trans : u # t => cm'[u] = cm[u] /\ threads'[u] = threads[u],
           UNCHANGED <<main, begun>>
    PROVE  ToConnect'
<1>1. ASSUME NEW k \in main .. Len(Program), Program[k].do = "connect", ~(k = main /\ begun)
      PROVE  cm'[Program[k].t] = None /\ threads'[Program[k].t] = "none"
  <2>1. k \in 1 .. Len(Program)
    BY ProgramSteps DEF TypeOK
  <2>2. Program[k].t \in Trans
    BY <1>1, <2>1, ProgramType DEF Steps
  <2>3. cm[Program[k].t] = None /\ threads[Program[k].t] = "none"
    BY <1>1 DEF ToConnect
  <2>4. QED BY <2>2, <2>3
<1>2. QED BY <1>1 DEF ToConnect

LEMMA RecoveryInOrder ==
    ASSUME TypeOK, InOrder, NEW t \in Trans, RecoveryStep(t), "retry" \notin races'
    PROVE  InOrder'
<1>1. LinkInv /\ ToConnect /\ Prepared
  BY DEF InOrder
<1>2. UNCHANGED <<main, begun, chan, prepare, stop, loop>>
  BY DEF RecoveryStep, Reconnect, Reconnecting, Wake, CallRecovery, EndRecovery
<1>3. threads[t] # "none" /\ \A u \in Trans : u # t => threads'[u] = threads[u]
  BY DEF RecoveryStep, Reconnect, Reconnecting, Wake, CallRecovery, EndRecovery, Loop, TypeOK
<1>4. Prepared'
  BY <1>1, <1>2 DEF Prepared
<1>5. CASE Reconnect(t)
  <2>1. Ended(t)
    BY <1>5 DEF Reconnect, Race
  <2>2. chan[t] = <<>> /\ (cm[t] = None \/ att[cm[t]].phase \notin Underway)
    BY <1>1, <2>1, EndedIsOver
  <2>3. CASE Start(t)
    <3>1. LinkInv' /\ \A u \in Trans : u # t => cm'[u] = cm[u]
      BY <1>1, <1>2, <2>2, <2>3, StartInOrder
    <3>2. QED BY <1>1, <1>2, <1>3, <1>4, <3>1, ThreadsMove DEF InOrder
  <2>4. CASE StartFails(t)
    <3>1. cm' = [cm EXCEPT ![t] = None] /\ att' = att
      BY <2>4 DEF StartFails
    <3>2. LinkInv'
      BY <1>1, <1>2, <2>2, <3>1, NoneInOrder
    <3>3. \A u \in Trans : u # t => cm'[u] = cm[u]
      BY <3>1 DEF TypeOK
    <3>4. QED BY <1>1, <1>2, <1>3, <1>4, <3>2, <3>3, ThreadsMove DEF InOrder
  <2>5. QED BY <1>5, <2>3, <2>4 DEF Reconnect
<1>6. CASE Reconnecting(t) \/ Wake(t) \/ CallRecovery(t) \/ EndRecovery(t)
  <2>1. UNCHANGED <<att, cm>>
    BY <1>6 DEF Reconnecting, Wake, CallRecovery, EndRecovery
  <2>2. LinkInv'
    BY <1>1, <1>2, <2>1 DEF LinkInv, Latest, NotBound, Channels
  <2>3. QED BY <1>1, <1>2, <1>3, <1>4, <2>1, <2>2, ThreadsMove DEF InOrder
<1>7. QED BY <1>5, <1>6 DEF RecoveryStep

\* After a step that leaves the transports that are still to be connected alone.
LEMMA NextInOrder ==
    ASSUME TypeOK, ToConnect, main \in 1 .. Len(Program), main' = main + 1,
           UNCHANGED threads,
           \/ cm' = cm
           \/ AtStep("connect") /\ \A u \in Trans : u # Arg => cm'[u] = cm[u]
    PROVE  ToConnect'
<1>1. ASSUME NEW k \in main + 1 .. Len(Program), Program[k].do = "connect"
      PROVE  cm'[Program[k].t] = None /\ threads[Program[k].t] = "none"
  <2>1. k \in 1 .. Len(Program) /\ k # main /\ k \in main .. Len(Program)
    BY <1>1, ProgramSteps
  <2>2. Program[k].t \in Trans
    BY <1>1, <2>1, ProgramType DEF Steps
  <2>3. cm[Program[k].t] = None /\ threads[Program[k].t] = "none"
    BY <1>1, <2>1 DEF ToConnect
  <2>4. AtStep("connect") => Program[k].t # Arg
    BY <1>1, <2>1, ProgramSteps DEF AtStep, Arg
  <2>5. QED BY <2>2, <2>3, <2>4
<1>2. QED BY <1>1 DEF ToConnect

LEMMA MainInOrder ==
    ASSUME TypeOK, InOrder, MainStep
    PROVE  InOrder'
<1>1. LinkInv /\ ToConnect /\ Prepared
  BY DEF InOrder
<1>2. /\ main \in 1 .. Len(Program) /\ main + 1 \in Nat
      /\ UNCHANGED <<chan, threads, loop>>
  BY ProgramSteps DEF MainStep, Connect, Connecting, See, Prepare, Close, Gone, Stop, Join, AtStep,
                      Advance, TypeOK
<1>3. CASE Connect
  <2>1. PICK t \in Trans : Program[main].do = "connect" /\ Program[main].t = t /\ Arg = t
    BY <1>3, ConnectsTransports DEF Connect, Arg, AtStep
  <2>2. cm[t] = None /\ threads[t] = "none"
    BY <1>1, <1>2, <1>3, <2>1 DEF ToConnect, Connect
  <2>3. chan[t] = <<>>
    BY <1>1, <2>2 DEF LinkInv, Channels
  <2>4. UNCHANGED <<prepare, stop>>
    BY <1>3 DEF Connect
  <2>5. main # Len(InitPart) + 1 /\ main' \in {main, main + 1}
    BY <1>2, <1>3, <2>1, ProgramSteps DEF Connect, Advance
  <2>6. Prepared'
    BY <1>1, <1>2, <2>4, <2>5, ProgramSteps DEF Prepared
  <2>7. CASE Start(t) /\ begun' = TRUE /\ UNCHANGED main
    <3>1. LinkInv' /\ \A u \in Trans : u # t => cm'[u] = cm[u]
      BY <1>1, <1>2, <2>2, <2>3, <2>7, StartInOrder
    <3>2. ASSUME NEW k \in main .. Len(Program), Program[k].do = "connect", k # main
          PROVE  cm'[Program[k].t] = None /\ threads[Program[k].t] = "none"
      <4>1. k \in 1 .. Len(Program)
        BY <1>2, ProgramSteps
      <4>2. Program[k].t \in Trans /\ Program[k].t # t
        BY <1>2, <2>1, <3>2, <4>1, ProgramSteps, ProgramType DEF Steps
      <4>3. cm[Program[k].t] = None /\ threads[Program[k].t] = "none"
        BY <1>1, <3>2 DEF ToConnect
      <4>4. QED BY <3>1, <4>2, <4>3
    <3>3. ToConnect'
      BY <1>2, <2>7, <3>2 DEF ToConnect
    <3>4. QED BY <2>6, <3>1, <3>3 DEF InOrder
  <2>8. CASE StartFails(t) /\ main' = main + 1
    <3>1. cm' = [cm EXCEPT ![t] = None] /\ att' = att
      BY <2>8 DEF StartFails
    <3>2. LinkInv'
      BY <1>1, <1>2, <2>2, <2>3, <3>1, NoneInOrder
    <3>3. \A u \in Trans : u # Arg => cm'[u] = cm[u]
      BY <2>1, <3>1 DEF TypeOK
    <3>4. AtStep("connect")
      BY <1>3 DEF Connect
    <3>5. ToConnect'
      BY <1>1, <1>2, <2>8, <3>3, <3>4, NextInOrder
    <3>6. QED BY <2>6, <3>2, <3>5 DEF InOrder
  <2>9. QED BY <1>3, <2>1, <2>7, <2>8 DEF Connect, Advance
<1>4. CASE ~Connect
  <2>1. UNCHANGED cm /\ main' = main + 1
    BY <1>4 DEF MainStep, Connecting, See, Prepare, Close, Gone, Stop, Join, Advance
  <2>2. ToConnect'
    BY <1>1, <1>2, <2>1, NextInOrder
  <2>3. Prepared'
    <3>1. CASE AtStep("prepare") /\ prepare'
      BY <3>1 DEF Prepared
    <3>2. CASE ~AtStep("prepare") /\ prepare' = prepare
      <4>1. main # Len(InitPart) + 1
        BY <1>2, <3>2, ProgramSteps DEF AtStep
      <4>2. main' > Len(InitPart) + 1 => main > Len(InitPart) + 1
        BY <1>2, <2>1, <4>1, ProgramSteps
      <4>3. stop' # stop => main > Len(InitPart) + 1
        <5>1. stop' # stop => Program[main].do = "stop"
          BY DEF MainStep, Connect, Connecting, See, Prepare, Close, Gone, Stop, Join, AtStep
        <5>2. QED BY <1>2, <5>1, ProgramSteps
      <4>4. QED BY <1>1, <1>2, <3>2, <4>2, <4>3 DEF Prepared
    <3>3. (AtStep("prepare") /\ prepare') \/ (~AtStep("prepare") /\ prepare' = prepare)
      BY DEF MainStep, Connect, Connecting, See, Prepare, Close, Gone, Stop, Join, AtStep
    <3>4. QED BY <3>1, <3>2, <3>3
  <2>4. CASE UNCHANGED att
    <3>1. SameLinks
      BY <1>2, <2>1, <2>4 DEF SameLinks, SameRecords
    <3>2. LinkInv'
      BY <1>1, <3>1, SameLinksInOrder
    <3>3. QED BY <2>2, <2>3, <3>2 DEF InOrder
  <2>5. CASE ~UNCHANGED att
    <3>1. Close
      BY <1>4, <2>5 DEF MainStep, Connecting, See, Prepare, Gone, Stop, Join
    <3>2. PICK i \in Attempt : att[i].phase = "up" /\ att' = [att EXCEPT ![i].phase = "closing"]
      BY <2>5, <3>1 DEF Close, TypeOK
    <3>3. att[i].phase \in Underway /\ "closing" \in Phase
      BY <3>2 DEF Underway, Phase
    <3>4. PICK t \in Trans : att[i].by = t /\ cm[t] = i /\ Fits(chan[t], i, "up")
      BY <1>1, <3>2, <3>3, UnderwayIsLatest
    <3>5. Fits(chan[t], i, "closing")
      BY <3>4 DEF Fits
    <3>6. /\ att'[i].by = t /\ att'[i].phase = "closing" /\ att'[i].bound = att[i].bound
          /\ \A j \in Attempt : j # i => att'[j] = att[j]
      BY <3>2, <3>4, PhaseChange
    <3>7. LinkInv'
      BY <1>1, <1>2, <2>1, <3>3, <3>4, <3>5, <3>6, MovedInOrder
    <3>8. QED BY <2>2, <2>3, <3>7 DEF InOrder
  <2>6. QED BY <2>4, <2>5
<1>5. QED BY <1>3, <1>4

LEMMA InitInOrder == ASSUME Init PROVE InOrder
<1>1. \A i \in Attempt : att[i].phase = "none"
  BY DEF Init, NoAttempt
<1>2. LinkInv
  BY <1>1 DEF Init, LinkInv, Latest, NotBound, Channels, Underway
<1>3. ToConnect
  <2>1. ASSUME NEW k \in 1 .. Len(Program), Program[k].do = "connect"
        PROVE  cm[Program[k].t] = None /\ threads[Program[k].t] = "none"
    <3>1. Program[k] \in Steps
      BY ProgramType
    <3>2. QED BY <2>1, <3>1 DEF Init, Steps
  <2>2. QED BY <2>1 DEF Init, ToConnect
<1>4. Prepared
  BY ProgramSteps DEF Init, Prepared
<1>5. QED BY <1>2, <1>3, <1>4 DEF InOrder

LEMMA StepInOrder ==
    ASSUME IInv, InOrder, [Next]_vars, "retry" \notin races'
    PROVE  InOrder'
<1>1. TypeOK
  BY DEF IInv
<1>2. CASE MainStep
  BY <1>1, <1>2, MainInOrder
<1>3. ASSUME NEW t \in Trans, Handle(t) \/ RecoveryStep(t) PROVE InOrder'
  BY <1>1, <1>3, HandleInOrder, RecoveryInOrder
<1>4. CASE LoopCheck
  <2>1. UNCHANGED <<main, begun, cm, chan, att, stop, threads, prepare>>
        /\ loop' = IF stop THEN "done" ELSE "wait"
    BY <1>4 DEF LoopCheck
  <2>2. LinkInv' /\ ToConnect'
    BY <2>1 DEF InOrder, LinkInv, Latest, NotBound, Channels, ToConnect
  <2>3. Prepared'
    BY <2>1 DEF InOrder, Prepared
  <2>4. QED BY <2>2, <2>3 DEF InOrder
<1>5. ASSUME NEW i \in Attempt, ServerStep(i) \/ NetworkStep(i) PROVE InOrder'
  BY <1>1, <1>5, ServerInOrder, NetworkInOrder DEF ServerStep
<1>6. CASE FaultStep
  BY <1>1, <1>6, NetworkInOrder, CrashInOrder, ServerInOrder DEF FaultStep
<1>7. CASE (\E s \in Server : Restart(s)) \/ UNCHANGED vars
  BY <1>1, <1>7, ServerInOrder
<1>8. QED BY <1>2, <1>3, <1>4, <1>5, <1>6, <1>7 DEF Next

\* A race that happened is remembered.
LEMMA RacesGrow ==
    ASSUME [Next]_vars
    PROVE  races \subseteq races'
  BY DEF Next, vars, past, client, server, MainStep, Connect, Connecting, See, Prepare, Close, Gone,
         Stop, Join, Record, Race, Handle, LoopCheck, RecoveryStep, Reconnect, Reconnecting, Wake,
         CallRecovery, EndRecovery, ServerStep, ConnectRequest, ServerEstablished,
         ServerDisconnected, ServerClose, NetworkStep, AddrFound, RouteFound, Accepted, Refused,
         Move, FaultStep, RequestFails, Fail, Error, Lose, Crash, Restart

\* Nothing but dhmp_client_destroy ends the event loop until a retry of the
\* recovery thread overtakes the attempt before: on_cm_route_resolved finds a
\* route for whatever it is called, so that its error path, which sets
\* ctx->stop, is not taken, and no handler finds a cm_id that is NULL.
THEOREM LoopStaysUp == Spec => []LoopRuns
<1> DEFINE J == "retry" \notin races => InOrder
<1>1. Init => IInv /\ J
  BY InitInv, InitInOrder
<1>2. IInv /\ J /\ [Next]_vars => (IInv /\ J)'
  <2>1. ASSUME IInv, J, [Next]_vars PROVE IInv' /\ J'
    <3>1. races \subseteq races'
      BY <2>1, RacesGrow
    <3>2. IInv'
      BY <2>1, StepInv
    <3>3. ASSUME "retry" \notin races' PROVE InOrder'
      BY <2>1, <3>1, <3>3, StepInOrder
    <3>4. QED BY <3>2, <3>3
  <2>2. QED BY <2>1
<1>3. J => LoopRuns
  BY DEF InOrder, Prepared, LoopRuns
<1>4. QED BY <1>1, <1>2, <1>3, PTL DEF Spec

(***************************************************************************)
(* A connected transport can be used                                       *)
(*                                                                         *)
(* The qp is that of the latest attempt from its rdma_connect on, and a    *)
(* transport that says CONNECTED has its latest attempt up, or the event   *)
(* that says otherwise is the one that its channel still holds.            *)
(***************************************************************************)
Linked == {"asking", "up", "closing", "down"}

UsableAt(t) ==
    /\ cm[t] # None /\ att[cm[t]].phase \in Linked => qp[t] = cm[t]
    /\ state[t] = "CONNECTED" =>
           /\ cm[t] # None
           /\ Open(cm[t]) \/ (att[cm[t]].phase = "down" /\ chan[t] # <<>>)
Usable == \A t \in Trans : UsableAt(t)

LEMMA UsableSuffices == ASSUME InOrder, Usable PROVE ConnectedIsUsable
<1>1. SUFFICES ASSUME NEW t \in Trans, state[t] = "CONNECTED"
               PROVE  /\ qp[t] # None
                      /\ Open(qp[t])
                         \/ \E k \in DOMAIN chan[t] : chan[t][k] = Told(qp[t], "DISCONNECTED")
  BY DEF ConnectedIsUsable, Told
<1>2. cm[t] # None /\ (Open(cm[t]) \/ (att[cm[t]].phase = "down" /\ chan[t] # <<>>))
  BY <1>1 DEF Usable, UsableAt
<1>3. qp[t] = cm[t]
  BY <1>2 DEF Usable, UsableAt, Linked, Open
<1>4. CASE Open(cm[t])
  BY <1>2, <1>3, <1>4
<1>5. CASE ~Open(cm[t])
  <2>1. Fits(chan[t], cm[t], "down") /\ chan[t] # <<>>
    BY <1>2, <1>5 DEF InOrder, LinkInv, Channels
  <2>2. chan[t] = <<Told(cm[t], "DISCONNECTED")>>
        \/ chan[t] = <<Told(cm[t], "ESTABLISHED"), Told(cm[t], "DISCONNECTED")>>
    BY <2>1 DEF Fits
  <2>3. \E k \in DOMAIN chan[t] : chan[t][k] = Told(cm[t], "DISCONNECTED")
    <3>1. CASE chan[t] = <<Told(cm[t], "DISCONNECTED")>>
      <4>1. 1 \in DOMAIN chan[t] /\ chan[t][1] = Told(cm[t], "DISCONNECTED")
        BY <3>1
      <4>2. QED BY <4>1
    <3>2. CASE chan[t] = <<Told(cm[t], "ESTABLISHED"), Told(cm[t], "DISCONNECTED")>>
      <4>1. 2 \in DOMAIN chan[t] /\ chan[t][2] = Told(cm[t], "DISCONNECTED")
        BY <3>2
      <4>2. QED BY <4>1
    <3>3. QED BY <2>2, <3>1, <3>2
  <2>4. QED BY <1>2, <1>3, <2>3
<1>6. QED BY <1>4, <1>5

\* A new attempt has begun.
LEMMA StartUsable ==
    ASSUME TypeOK, Usable, NEW t \in Trans, Start(t) \/ StartFails(t), state[t] # "CONNECTED",
           UNCHANGED <<qp, chan, state>>
    PROVE  Usable'
<1>1. PICK i \in Attempt \union {None} :
        /\ \A u \in Trans : cm[u] # i \/ i = None
        /\ cm' = [cm EXCEPT ![t] = i]
        /\ i # None => att'[i].phase = "resolving"
        /\ \A j \in Attempt : j # i => att'[j] = att[j]
  <2>1. CASE Start(t)
    <3>1. PICK i \in Attempt :
            /\ Unused(i)
            /\ att' = [att EXCEPT ![i] = [NoAttempt EXCEPT !.by = t, !.phase = "resolving"]]
            /\ cm' = [cm EXCEPT ![t] = i]
      BY <2>1 DEF Start
    <3>2. \A u \in Trans : cm[u] # i
      BY <3>1 DEF Unused, Referred
    <3>3. att'[i].phase = "resolving" /\ \A j \in Attempt : j # i => att'[j] = att[j]
      BY <3>1 DEF TypeOK, NoAttempt
    <3>4. QED BY <3>1, <3>2, <3>3
  <2>2. CASE StartFails(t)
    BY <2>2 DEF StartFails
  <2>3. QED BY <2>1, <2>2
<1>2. cm'[t] = i /\ \A u \in Trans : u # t => cm'[u] = cm[u]
  BY <1>1 DEF TypeOK
<1>3. ASSUME NEW u \in Trans
      PROVE  /\ cm'[u] # None /\ att'[cm'[u]].phase \in Linked => qp[u] = cm'[u]
             /\ state[u] = "CONNECTED" =>
                    /\ cm'[u] # None
                    /\ att'[cm'[u]].phase \in {"up", "closing"}
                       \/ (att'[cm'[u]].phase = "down" /\ chan[u] # <<>>)
  <2>1. CASE u = t
    BY <1>1, <1>2, <2>1 DEF Linked
  <2>2. CASE u # t
    <3>1. cm[u] # None => att'[cm[u]] = att[cm[u]]
      BY <1>1 DEF TypeOK
    <3>2. QED BY <1>2, <2>2, <3>1 DEF Usable, UsableAt, Open
  <2>3. QED BY <2>1, <2>2
<1>4. QED BY <1>3 DEF Usable, UsableAt, Open

\* trans_state says CONNECTING, or what it said.
LEMMA RecordUsable ==
    ASSUME TypeOK, Usable, NEW t \in Trans, Record(t), UNCHANGED <<att, cm, qp, chan>>
    PROVE  Usable'
<1>1. state'[t] = "CONNECTING" /\ \A u \in Trans : u # t => state'[u] = state[u]
  BY DEF Record, TypeOK
<1>2. \A u \in Trans : UsableAt(u)'
  BY <1>1 DEF Usable, UsableAt, Open
<1>3. QED BY <1>2 DEF Usable

\* A step that makes no attempt and is not the event loop's: the phase of an
\* attempt moves on, and a connection that ends is told of.
Moves(t) ==
    LET p == att[cm[t]].phase
        q == att'[cm[t]].phase IN
    \/ q = p /\ (chan[t] # <<>> => chan'[t] # <<>>)
    \/ p \notin {"up", "closing", "down"} /\ (q \in Linked => p \in Linked)
    \/ p \in {"up", "closing"} /\ q = "closing"
    \/ p \in {"up", "closing"} /\ q = "down" /\ chan'[t] # <<>>

LEMMA MovesUsable ==
    ASSUME Usable, UNCHANGED <<state, cm, qp>>, \A t \in Trans : cm[t] # None => Moves(t)
    PROVE  Usable'
<1>1. ASSUME NEW t \in Trans
      PROVE  /\ cm[t] # None /\ att'[cm[t]].phase \in Linked => qp[t] = cm[t]
             /\ state[t] = "CONNECTED" =>
                    /\ cm[t] # None
                    /\ att'[cm[t]].phase \in {"up", "closing"}
                       \/ (att'[cm[t]].phase = "down" /\ chan'[t] # <<>>)
  BY DEF Usable, UsableAt, Moves, Linked, Open
<1>2. QED BY <1>1 DEF Usable, UsableAt, Open

LEMMA SameUsable ==
    ASSUME TypeOK, Usable, SameRecords, UNCHANGED <<state, cm, qp, chan>>
    PROVE  Usable'
<1>1. \A t \in Trans : cm[t] # None => Moves(t)
  BY DEF TypeOK, SameRecords, Moves
<1>2. QED BY <1>1, MovesUsable

\* Steps of the network and of a link's end.
LEMMA NetworkUsable ==
    ASSUME TypeOK, InOrder, Usable, NEW i \in Attempt,
           NetworkStep(i) \/ Fail(i) \/ Error(i) \/ Lose(i) \/ ServerClose(i)
    PROVE  Usable'
<1>1. UNCHANGED client
  BY DEF NetworkStep, AddrFound, RouteFound, Accepted, Refused, Move, Fail, Error, Lose, ServerClose
<1>2. \E p : att' = [att EXCEPT ![i].phase = p]
  BY DEF NetworkStep, AddrFound, RouteFound, Accepted, Refused, Move, Fail, Error, Lose, ServerClose
<1>3. \A j \in Attempt : j # i => att'[j] = att[j]
  BY <1>2, PhaseChange
<1>4. att[i].phase \in Underway
  BY DEF NetworkStep, AddrFound, RouteFound, Accepted, Refused, Move, Fail, Error, Lose, ServerClose,
         Open, Underway
<1>5. PICK t \in Trans : att[i].by = t /\ cm[t] = i
  BY <1>4, UnderwayIsLatest DEF InOrder
<1>6. \A u \in Trans : u # t => chan'[u] = chan[u]
  <2>1. chan' = chan \/ \E kind : chan' = Put(i, kind)
    BY DEF NetworkStep, AddrFound, RouteFound, Accepted, Refused, Move, Fail, Error, Lose,
           ServerClose
  <2>2. QED BY <1>5, <2>1, PutInOrder
<1>7. Moves(t)
  <2>1. CASE att[i].phase \in {"resolving", "routing"}
    <3>1. att' = [att EXCEPT ![i].phase = "addr"] \/ att' = [att EXCEPT ![i].phase = "route"]
          \/ att' = [att EXCEPT ![i].phase = "nodevice"] \/ att' = [att EXCEPT ![i].phase = "dead"]
      BY <2>1 DEF NetworkStep, AddrFound, RouteFound, Accepted, Refused, Move, Fail, Error, Lose,
                  ServerClose, Open
    <3>2. att'[i].phase \in {"addr", "route", "nodevice", "dead"}
      BY <3>1, PhaseChange
    <3>3. QED BY <1>5, <2>1, <3>2 DEF Moves, Linked
  <2>2. CASE att[i].phase = "asking"
    BY <1>5, <2>2 DEF Moves, Linked
  <2>3. CASE Lose(i) \/ ServerClose(i)
    <3>1. att[i].phase \in {"up", "closing"} /\ att' = [att EXCEPT ![i].phase = "down"]
          /\ chan' = Put(i, "DISCONNECTED")
      BY <2>3 DEF Lose, ServerClose, Open
    <3>2. att'[i].phase = "down"
      BY <3>1, PhaseChange
    <3>3. chan[t] = <<>> \/ \E k : chan[t] = <<Told(i, k)>>
      <4>1. Fits(chan[t], i, att[i].phase)
        BY <1>4, <1>5, UnderwayIsLatest DEF InOrder
      <4>2. QED BY <3>1, <4>1 DEF Fits
    <3>4. chan'[t] # <<>>
      <4>1. /\ chan[t] = <<>> => chan'[t] = <<Told(i, "DISCONNECTED")>>
            /\ \A k : chan[t] = <<Told(i, k)>> => chan'[t] = <<Told(i, k), Told(i, "DISCONNECTED")>>
        BY <1>5, <3>1, PutInOrder
      <4>2. \A m, n : <<m>> # <<>> /\ <<m, n>> # <<>>
        OBVIOUS
      <4>3. QED BY <3>3, <4>1, <4>2
    <3>5. QED BY <1>5, <3>1, <3>2, <3>4 DEF Moves
  <2>4. QED
    BY <2>1, <2>2, <2>3 DEF NetworkStep, AddrFound, RouteFound, Accepted, Refused, Move, Fail, Error
<1>8. ASSUME NEW u \in Trans, cm[u] # None PROVE Moves(u)
  <2>1. CASE u = t
    BY <1>7, <2>1
  <2>2. CASE u # t
    <3>1. cm[u] \in Attempt /\ cm[u] # i
      BY <1>5, <1>8, <2>2 DEF InOrder, LinkInv, Latest, TypeOK
    <3>2. QED BY <1>3, <1>6, <2>2, <3>1 DEF Moves
  <2>3. QED BY <2>1, <2>2
<1>9. QED BY <1>1, <1>8, MovesUsable DEF client

\* The event loop.
LEMMA HandleUsable ==
    ASSUME TypeOK, InOrder, Usable, NEW t \in Trans, Handle(t)
    PROVE  Usable'
<1>1. /\ chan[t] # <<>> /\ UNCHANGED cm /\ chan'[t] = Tail(chan[t])
      /\ \A u \in Trans : u # t => chan'[u] = chan[u]
  BY DEF Handle, TypeOK
<1>2. PICK i \in Attempt : cm[t] = i /\ i # None /\ att[i].by = t
                           /\ Fits(chan[t], i, att[i].phase)
  BY <1>1 DEF InOrder, LinkInv, Channels, Latest, TypeOK
<1>3. att \in [Attempt -> AttemptRecord]
  BY Typed
<1>event. HandleEvent(t)
  BY <1>2 DEF Handle, NoId, HandleEvent
<1>4. \A k : chan[t] = <<Told(i, k)>> => chan'[t] = <<>> /\ Head(chan[t]).kind = k
  BY <1>1 DEF Told
<1>5. \A u \in Trans : u # t /\ cm[u] # None => cm[u] \in Attempt /\ cm[u] # i
  BY <1>2 DEF InOrder, LinkInv, Latest, TypeOK
<1>6. ASSUME \A j \in Attempt : j # i => att'[j] = att[j],
             \A u \in Trans : u # t => state'[u] = state[u] /\ qp'[u] = qp[u],
             att'[i].phase \in Linked => qp'[t] = i,
             state'[t] = "CONNECTED" => att'[i].phase \in {"up", "closing"}
                                        \/ (att'[i].phase = "down" /\ chan'[t] # <<>>)
      PROVE  Usable'
  <2>1. ASSUME NEW u \in Trans
        PROVE  /\ cm[u] # None /\ att'[cm[u]].phase \in Linked => qp'[u] = cm[u]
               /\ state'[u] = "CONNECTED" =>
                      /\ cm[u] # None
                      /\ att'[cm[u]].phase \in {"up", "closing"}
                         \/ (att'[cm[u]].phase = "down" /\ chan'[u] # <<>>)
    <3>1. CASE u = t
      BY <1>2, <1>6, <3>1
    <3>2. CASE u # t
      <4>1. cm[u] # None => att'[cm[u]] = att[cm[u]]
        BY <1>5, <1>6, <3>2
      <4>2. QED BY <1>1, <1>6, <3>2, <4>1 DEF Usable, UsableAt, Open
    <3>3. QED BY <3>1, <3>2
  <2>2. QED BY <1>1, <2>1 DEF Usable, UsableAt, Open
<1>7. state[t] = "CONNECTED" => att[i].phase \in {"up", "closing", "down"}
  BY <1>2 DEF Usable, UsableAt, Open
<1>8. att[i].phase \in Linked => qp[t] = i
  BY <1>2 DEF Usable, UsableAt
<1>9. CASE chan[t] = <<Told(i, "ADDR_RESOLVED")>>
  <2>1. att[i].phase = "addr" /\ AddrResolved(t)
    <3>1. att[i].phase = "addr"
      BY <1>2, <1>9 DEF Fits, Told
    <3>2. Head(chan[t]).kind = "ADDR_RESOLVED"
      BY <1>4, <1>9
    <3>3. QED BY <1>event, <3>1, <3>2 DEF HandleEvent
  <2>2. att' = [att EXCEPT ![i].phase = "routing"] /\ UNCHANGED <<state, qp>>
    BY <1>2, <2>1 DEF AddrResolved
  <2>3. att'[i].phase = "routing" /\ \A j \in Attempt : j # i => att'[j] = att[j]
    BY <2>2, PhaseChange
  <2>4. QED BY <1>6, <1>7, <2>1, <2>2, <2>3 DEF Linked
<1>10. CASE chan[t] = <<Told(i, "ROUTE_RESOLVED")>>
  <2>1. att[i].phase = "route" /\ RouteResolved(t)
    <3>1. att[i].phase = "route"
      BY <1>2, <1>10 DEF Fits, Told
    <3>2. Head(chan[t]).kind = "ROUTE_RESOLVED"
      BY <1>4, <1>10
    <3>3. QED BY <1>event, <3>1, <3>2 DEF HandleEvent
  <2>2. Bindable(i)
    BY <2>1 DEF InOrder, LinkInv, NotBound, Bindable
  <2>3. /\ att' = [att EXCEPT ![i].bound = TRUE, ![i].phase = "asking"]
        /\ qp' = [qp EXCEPT ![t] = i] /\ UNCHANGED state
    BY <1>2, <2>1, <2>2 DEF RouteResolved
  <2>4. /\ att'[i].phase = "asking" /\ \A j \in Attempt : j # i => att'[j] = att[j]
        /\ qp'[t] = i /\ \A u \in Trans : u # t => qp'[u] = qp[u]
    BY <1>3, <2>3 DEF AttemptRecord, TypeOK
  <2>5. QED BY <1>6, <1>7, <2>1, <2>3, <2>4
<1>11. CASE chan[t] = <<Told(i, "ESTABLISHED")>>
            \/ chan[t] = <<Told(i, "ESTABLISHED"), Told(i, "DISCONNECTED")>>
  <2>1. Established(t)
    <3>1. Head(chan[t]).kind = "ESTABLISHED"
      BY <1>11 DEF Told
    <3>2. QED BY <1>event, <3>1 DEF HandleEvent
  <2>2. UNCHANGED <<att, qp>> /\ \A u \in Trans : u # t => state'[u] = state[u]
    BY <2>1 DEF Established, TypeOK
  <2>3. att[i].phase \in {"up", "closing"} \/ (att[i].phase = "down" /\ chan'[t] # <<>>)
    <3>1. CASE chan[t] = <<Told(i, "ESTABLISHED")>>
      BY <1>2, <3>1 DEF Fits, Told
    <3>2. CASE chan[t] = <<Told(i, "ESTABLISHED"), Told(i, "DISCONNECTED")>>
      <4>1. att[i].phase = "down"
        BY <1>2, <3>2 DEF Fits, Told
      <4>2. chan'[t] = <<Told(i, "DISCONNECTED")>>
        BY <1>1, <3>2
      <4>3. chan'[t] # <<>>
        BY <4>2
      <4>4. QED BY <4>1, <4>3
    <3>3. QED BY <1>11, <3>1, <3>2
  <2>4. QED BY <1>6, <1>8, <2>2, <2>3
<1>12. CASE chan[t] = <<Told(i, "DISCONNECTED")>> \/ chan[t] = <<Told(i, "CONNECT_ERROR")>>
  <2>1. Disconnected(t) \/ ConnectError(t)
    <3>1. Head(chan[t]).kind = "DISCONNECTED" \/ Head(chan[t]).kind = "CONNECT_ERROR"
      BY <1>4, <1>12
    <3>2. QED BY <1>event, <3>1 DEF HandleEvent
  <2>2. /\ UNCHANGED <<att, qp>> /\ state'[t] # "CONNECTED"
        /\ \A u \in Trans : u # t => state'[u] = state[u]
    BY <2>1 DEF Disconnected, ConnectError, TypeOK
  <2>3. QED BY <1>6, <1>8, <2>2
<1>13. QED BY <1>1, <1>2, <1>9, <1>10, <1>11, <1>12 DEF Fits

LEMMA CrashUsable ==
    ASSUME TypeOK, InOrder, Usable, NEW s \in Server, Crash(s)
    PROVE  Usable'
<1>1. ASSUME NEW t \in Trans, cm[t] # None PROVE Moves(t)
  <2>1. cm[t] \in Attempt /\ att[cm[t]].by = t /\ t # None /\ LinkInv
    BY <1>1, NullAssumption DEF InOrder, LinkInv, Latest, TypeOK
  <2>2. CASE t[1] # s
    <3>1. chan'[t] = chan[t]
      BY <2>1, <2>2, CrashChannels
    <3>2. att'[cm[t]] = att[cm[t]]
      BY <2>1, <2>2, CrashAttempts
    <3>3. QED BY <3>1, <3>2 DEF Moves
  <2>3. CASE t[1] = s /\ ~Open(cm[t])
    <3>1. chan'[t] = chan[t]
      BY <2>1, <2>3, CrashChannels
    <3>2. att'[cm[t]].phase = att[cm[t]].phase
          \/ (att[cm[t]].phase = "asking" /\ att'[cm[t]].phase = "dead")
      BY <2>1, <2>3, CrashAttempts
    <3>3. QED BY <3>1, <3>2 DEF Moves, Linked
  <2>4. CASE t[1] = s /\ Open(cm[t])
    <3>1. chan'[t] = chan[t] \o <<Told(cm[t], "DISCONNECTED")>> /\ att'[cm[t]].phase = "down"
      BY <1>1, <2>1, <2>4, CrashAttempts, CrashChannels
    <3>2. chan[t] \in Seq(Message)
      BY Typed
    <3>3. \A m : chan[t] \o <<m>> # <<>>
      <4>1. ASSUME NEW m PROVE chan[t] \o <<m>> # <<>>
        <5>1. chan[t] \in Seq(Message \union {m}) /\ <<m>> \in Seq(Message \union {m})
              /\ Len(<<m>>) = 1 /\ Len(chan[t]) \in Nat
          BY <3>2
        <5>2. Len(chan[t] \o <<m>>) = Len(chan[t]) + 1
          BY <5>1
        <5>3. QED BY <5>1, <5>2
      <4>2. QED BY <4>1
    <3>4. QED BY <2>4, <3>1, <3>3 DEF Moves, Open
  <2>5. QED BY <2>2, <2>3, <2>4
<1>2. UNCHANGED <<state, cm, qp>>
  BY DEF Crash, client
<1>3. QED BY <1>1, <1>2, MovesUsable

LEMMA StepUsable == ASSUME TypeOK, InOrder, Usable, [Next]_vars PROVE Usable'
<1>1. ASSUME NEW t \in Trans, RecoveryStep(t) PROVE Usable'
  <2>1. CASE Reconnect(t)
    BY <2>1, StartUsable DEF Reconnect
  <2>2. CASE Reconnecting(t)
    BY <2>2, RecordUsable DEF Reconnecting
  <2>3. CASE Wake(t) \/ CallRecovery(t) \/ EndRecovery(t)
    <3>1. SameRecords /\ UNCHANGED <<state, cm, qp, chan>>
      BY <2>3 DEF Wake, CallRecovery, EndRecovery, SameRecords
    <3>2. QED BY <3>1, SameUsable
  <2>4. QED BY <1>1, <2>1, <2>2, <2>3 DEF RecoveryStep
<1>2. CASE MainStep
  <2>1. CASE Connect
    <3>1. PICK t \in Trans : t = Arg /\ Program[main].do = "connect" /\ main <= Len(Program)
      BY <2>1, ConnectsTransports DEF Connect, AtStep
    <3>2. (Start(t) \/ StartFails(t)) /\ UNCHANGED <<qp, chan, state>>
      BY <2>1, <3>1 DEF Connect
    <3>3. cm[t] = None
      <4>1. main \in main .. Len(Program) /\ ~begun
        BY <2>1, <3>1, ProgramSteps DEF TypeOK, Connect
      <4>2. QED BY <3>1, <4>1 DEF InOrder, ToConnect, Arg
    <3>4. state[t] # "CONNECTED"
      BY <3>3 DEF Usable, UsableAt
    <3>5. QED BY <3>2, <3>4, StartUsable
  <2>2. CASE Connecting
    <3>1. PICK t \in Trans : t = Arg
      BY <2>2, ConnectsTransports DEF Connecting
    <3>2. QED BY <2>2, <3>1, RecordUsable DEF Connecting
  <2>3. CASE Close /\ att' # att
    <3>1. PICK i \in Attempt : att[i].phase = "up" /\ att' = [att EXCEPT ![i].phase = "closing"]
      BY <2>3 DEF Close, TypeOK
    <3>2. att'[i].phase = "closing" /\ \A j \in Attempt : j # i => att'[j] = att[j]
      BY <3>1, PhaseChange
    <3>3. UNCHANGED <<state, cm, qp, chan>>
      BY <2>3 DEF Close
    <3>4. \A t \in Trans : cm[t] # None => Moves(t)
      BY <3>1, <3>2, <3>3 DEF Moves, TypeOK
    <3>5. QED BY <3>3, <3>4, MovesUsable
  <2>4. CASE ~Connect /\ ~Connecting /\ att' = att
    <3>1. SameRecords /\ UNCHANGED <<state, cm, qp, chan>>
      BY <1>2, <2>4 DEF MainStep, See, Prepare, Close, Gone, Stop, Join, SameRecords
    <3>2. QED BY <3>1, SameUsable
  <2>5. QED
    BY <1>2, <2>1, <2>2, <2>3, <2>4 DEF MainStep, See, Prepare, Gone, Stop, Join
<1>3. CASE LoopCheck \/ (\E s \in Server : Restart(s)) \/ UNCHANGED vars
  <2>1. SameRecords /\ UNCHANGED <<state, cm, qp, chan>>
    BY <1>3 DEF LoopCheck, Restart, client, vars, SameRecords
  <2>2. QED BY <2>1, SameUsable
<1>4. ASSUME NEW i \in Attempt,
             ConnectRequest(i) \/ RequestFails(i) \/ ServerEstablished(i) \/ ServerDisconnected(i)
      PROVE  Usable'
  <2>1. att \in [Attempt -> AttemptRecord]
    BY Typed
  <2>2. SameRecords
    <3>1. \/ \E exist : att' = [att EXCEPT ![i].peer = "accepted", ![i].poll = exist]
          \/ \E p : att' = [att EXCEPT ![i].peer = p]
      BY <1>4 DEF ConnectRequest, RequestFails, ServerEstablished, ServerDisconnected
    <3>2. QED BY <2>1, <3>1 DEF AttemptRecord, SameRecords
  <2>3. UNCHANGED <<state, cm, qp, chan>>
    BY <1>4 DEF ConnectRequest, RequestFails, ServerEstablished, ServerDisconnected, client
  <2>4. QED BY <2>2, <2>3, SameUsable
<1>5. ASSUME NEW i \in Attempt, ServerStep(i) \/ NetworkStep(i) PROVE Usable'
  BY <1>4, <1>5, NetworkUsable DEF ServerStep
<1>6. CASE FaultStep
  BY <1>4, <1>6, NetworkUsable, CrashUsable DEF FaultStep
<1>7. QED BY <1>1, <1>2, <1>3, <1>5, <1>6, HandleUsable DEF Next

\* Until a retry of the recovery thread overtakes the attempt before, a
\* transport that says CONNECTED has the qp of a connection that is up, or the
\* event that says otherwise waits for the event loop: the requests, which go
\* by trans_state, are not posted to the qp of an attempt that never came about
\* or was replaced (on_cm_route_resolved, on_cm_established,
\* on_cm_disconnected), whenever trans_state is written.
THEOREM LinksAreUsable == Spec => []ConnectedIsUsable
<1> DEFINE J == "retry" \notin races => InOrder /\ Usable
<1>1. Init => IInv /\ J
  <2>1. Init => Usable
    BY DEF Init, Usable, UsableAt
  <2>2. QED BY <2>1, InitInv, InitInOrder
<1>2. IInv /\ J /\ [Next]_vars => (IInv /\ J)'
  <2>1. ASSUME IInv, J, [Next]_vars PROVE IInv' /\ J'
    <3>1. races \subseteq races'
      BY <2>1, RacesGrow
    <3>2. IInv'
      BY <2>1, StepInv
    <3>3. ASSUME "retry" \notin races' PROVE InOrder' /\ Usable'
      <4>1. InOrder /\ Usable /\ TypeOK
        BY <2>1, <3>1, <3>3 DEF IInv
      <4>2. QED BY <2>1, <3>3, <4>1, StepInOrder, StepUsable
    <3>4. QED BY <3>2, <3>3
  <2>2. QED BY <2>1
<1>3. J => ConnectedIsUsable
  BY UsableSuffices DEF ConnectedIsUsable
<1>4. QED BY <1>1, <1>2, <1>3, PTL DEF Spec

(***************************************************************************)
(* Client and server agree which link is the poll link                     *)
(*                                                                         *)
(* As long as nothing fails, dhmp_client_init asks for a server's poll     *)
(* link when its normal link is up, which the server then knows.           *)
(***************************************************************************)
\* The connection of t has come about; it may have been closed since.
Made(t) == cm[t] # None /\ att[cm[t]].phase \in {"up", "closing", "down"}

OneEach == \A i \in Attempt : att[i].by # None => cm[att[i].by] = i
NoneBreaks ==
    \A i \in Attempt : /\ att[i].phase \notin {"nodevice", "dead"} /\ att[i].peer # "stale"
                       /\ att[i].peer = "gone" => att[i].phase = "down"
                       /\ att[i].phase \in {"closing", "down"} => prepare
NoneLost == prepare \/ \A t \in Trans : state[t] \in {"INIT", "CONNECTING", "CONNECTED"}
SeenAreMade == \A k \in 1 .. main - 1 : Program[k].do = "see" => Made(Program[k].t)
OpenAreServed == \A i \in Attempt : Open(i) => Served(i)

Smooth ==
    /\ InOrder /\ Usable /\ "retry" \notin races
    /\ \A s \in Server : alive[s]
    /\ \A t \in Trans : threads[t] = "none"
    /\ prepare => main > Len(InitPart)
    /\ OneEach /\ NoneBreaks /\ NoneLost /\ SeenAreMade /\ OpenAreServed

LEMMA ForSteps ==
    ASSUME NEW p \in BOOLEAN, NEW do \in {"connect", "see", "close", "gone"}
    PROVE  /\ For(p, do) \in Seq(Steps) /\ Len(For(p, do)) = ServerNum
           /\ \A k \in 1 .. ServerNum : For(p, do)[k] = [do |-> do, t |-> <<k - 1, p>>]
<1>1. ServerNum \in Nat
  BY ServerNumAssumption
<1>2. \A k \in 1 .. ServerNum : [do |-> do, t |-> <<k - 1, p>>] \in Steps
  BY <1>1 DEF Steps, Trans, Server
<1>3. QED BY <1>1, <1>2 DEF For

\* s is what comes of r after q.
Follows(s, q, r) ==
    /\ s \in Seq(Steps) /\ Len(s) = Len(q) + Len(r)
    /\ \A k \in 1 .. Len(q) : s[k] = q[k]
    /\ \A k \in Len(q) + 1 .. Len(q) + Len(r) : s[k] = r[k - Len(q)]
LEMMA FollowsJoined ==
    ASSUME NEW q \in Seq(Steps), NEW r \in Seq(Steps) PROVE Follows(q \o r, q, r)
  BY Joined DEF Follows

\* Every link is waited for, and before a server's poll link is asked for its
\* normal one has been.
LEMMA LinkSteps ==
    /\ \A t \in Trans : \E k \in 1 .. Len(InitPart) : Program[k] = [do |-> "see", t |-> t]
    /\ \A s \in Server : \E j, k \in 1 .. Len(Program) :
           /\ Program[j] = [do |-> "see", t |-> Normal(s)]
           /\ Program[k] = [do |-> "connect", t |-> <<s, TRUE>>] /\ j < k
<1> DEFINE a == For(FALSE, "connect")
           b == For(FALSE, "see")
           c == For(TRUE, "connect")
           d == For(TRUE, "see")
           ab == a \o b
           abc == ab \o c
           N == ServerNum
<1>1. /\ a \in Seq(Steps) /\ Len(a) = N
      /\ b \in Seq(Steps) /\ Len(b) = N
      /\ c \in Seq(Steps) /\ Len(c) = N
      /\ d \in Seq(Steps) /\ Len(d) = N
      /\ \A k \in 1 .. N : /\ b[k] = [do |-> "see", t |-> <<k - 1, FALSE>>]
                           /\ c[k] = [do |-> "connect", t |-> <<k - 1, TRUE>>]
                           /\ d[k] = [do |-> "see", t |-> <<k - 1, TRUE>>]
  BY ForSteps
<1>2. N \in Nat /\ Server = 0 .. N - 1 /\ Trans = Server \X BOOLEAN
  BY ServerNumAssumption DEF Server, Trans
<1>3. ab = a \o b /\ abc = ab \o c /\ InitPart = abc \o d
  BY DEF InitPart
<1> HIDE DEF a, b, c, d, ab, abc, N
<1>4. /\ ab \in Seq(Steps) /\ Len(ab) = N + N
      /\ \A k \in 1 .. N : ab[k] = a[k]
      /\ \A k \in N + 1 .. N + N : ab[k] = b[k - N]
  <2>1. a \in Seq(Steps) /\ b \in Seq(Steps) /\ Len(a) = N /\ Len(b) = N /\ ab = a \o b
    BY <1>1, <1>3
  <2>2. Follows(ab, a, b)
    BY <2>1, FollowsJoined
  <2>3. QED BY <2>1, <2>2 DEF Follows
<1>5. /\ abc \in Seq(Steps) /\ Len(abc) = N + N + N
      /\ \A k \in 1 .. N + N : abc[k] = ab[k]
      /\ \A k \in N + N + 1 .. N + N + N : abc[k] = c[k - (N + N)]
  <2>1. ab \in Seq(Steps) /\ c \in Seq(Steps) /\ Len(ab) = N + N /\ Len(c) = N /\ abc = ab \o c
    BY <1>1, <1>3, <1>4
  <2>2. Follows(abc, ab, c)
    BY <2>1, FollowsJoined
  <2>3. QED BY <2>1, <2>2 DEF Follows
<1>6. /\ InitPart \in Seq(Steps) /\ Len(InitPart) = N + N + N + N
      /\ \A k \in 1 .. N + N + N : InitPart[k] = abc[k]
      /\ \A k \in N + N + N + 1 .. N + N + N + N : InitPart[k] = d[k - (N + N + N)]
  <2>1. abc \in Seq(Steps) /\ d \in Seq(Steps) /\ Len(abc) = N + N + N /\ Len(d) = N /\ InitPart = abc \o d
    BY <1>1, <1>3, <1>5
  <2>2. Follows(InitPart, abc, d)
    BY <2>1, FollowsJoined
  <2>3. QED BY <2>1, <2>2 DEF Follows
<1>7. /\ Len(Program) >= N + N + N + N /\ Len(Program) \in Nat
      /\ \A k \in 1 .. N + N + N + N : Program[k] = InitPart[k]
  <2>1. /\ DestroyPart \in Seq(Steps) /\ Len(DestroyPart) \in Nat
        /\ Len(Program) = Len(InitPart) + Len(DestroyPart)
        /\ \A k \in 1 .. Len(InitPart) : Program[k] = InitPart[k]
    BY <1>6, DestroySteps, Joined DEF Program
  <2>2. QED BY <1>2, <1>6, <2>1
<1>8. ASSUME NEW s \in Server
      PROVE  /\ Program[N + s + 1] = [do |-> "see", t |-> <<s, FALSE>>]
             /\ Program[N + N + s + 1] = [do |-> "connect", t |-> <<s, TRUE>>]
             /\ Program[N + N + N + s + 1] = [do |-> "see", t |-> <<s, TRUE>>]
             /\ s \in Nat /\ s < N
  <2>1. /\ s \in Nat /\ s < N /\ s + 1 \in 1 .. N /\ (s + 1) - 1 = s
        /\ N + s + 1 \in N + 1 .. N + N /\ N + s + 1 \in 1 .. N + N
        /\ N + s + 1 \in 1 .. N + N + N /\ N + s + 1 \in 1 .. N + N + N + N
        /\ (N + s + 1) - N = s + 1
        /\ N + N + s + 1 \in N + N + 1 .. N + N + N /\ N + N + s + 1 \in 1 .. N + N + N
        /\ N + N + s + 1 \in 1 .. N + N + N + N
        /\ (N + N + s + 1) - (N + N) = s + 1
        /\ N + N + N + s + 1 \in N + N + N + 1 .. N + N + N + N
        /\ N + N + N + s + 1 \in 1 .. N + N + N + N
        /\ (N + N + N + s + 1) - (N + N + N) = s + 1
    BY <1>2
  <2>2. Program[N + s + 1] = b[s + 1]
    <3>1. Program[N + s + 1] = InitPart[N + s + 1]
      BY <1>7, <2>1
    <3>2. InitPart[N + s + 1] = abc[N + s + 1]
      BY <1>6, <2>1
    <3>3. abc[N + s + 1] = ab[N + s + 1]
      BY <1>5, <2>1
    <3>4. ab[N + s + 1] = b[s + 1]
      BY <1>4, <2>1
    <3>5. QED BY <3>1, <3>2, <3>3, <3>4
  <2>3. Program[N + N + s + 1] = c[s + 1]
    <3>1. Program[N + N + s + 1] = InitPart[N + N + s + 1]
      BY <1>7, <2>1
    <3>2. InitPart[N + N + s + 1] = abc[N + N + s + 1]
      BY <1>6, <2>1
    <3>3. abc[N + N + s + 1] = c[s + 1]
      BY <1>5, <2>1
    <3>4. QED BY <3>1, <3>2, <3>3
  <2>4. Program[N + N + N + s + 1] = d[s + 1]
    BY <1>6, <1>7, <2>1
  <2>5. QED BY <1>1, <2>1, <2>2, <2>3, <2>4
<1>9. ASSUME NEW t \in Trans
      PROVE  \E k \in 1 .. Len(InitPart) : Program[k] = [do |-> "see", t |-> t]
  <2>1. PICK s \in Server, p \in BOOLEAN : t = <<s, p>>
    BY <1>2
  <2>2. N + s + 1 \in 1 .. Len(InitPart) /\ N + N + N + s + 1 \in 1 .. Len(InitPart)
    BY <1>2, <1>6, <1>8
  <2>3. CASE p
    BY <1>8, <2>1, <2>2, <2>3
  <2>4. CASE ~p
    BY <1>8, <2>1, <2>2, <2>4
  <2>5. QED BY <2>3, <2>4
<1>10. ASSUME NEW s \in Server
       PROVE  \E j, k \in 1 .. Len(Program) :
                /\ Program[j] = [do |-> "see", t |-> Normal(s)]
                /\ Program[k] = [do |-> "connect", t |-> <<s, TRUE>>] /\ j < k
  <2>1. /\ N + s + 1 \in 1 .. Len(Program) /\ N + N + s + 1 \in 1 .. Len(Program)
        /\ N + s + 1 < N + N + s + 1
    BY <1>2, <1>7, <1>8
  <2>2. QED BY <1>8, <2>1 DEF Normal
<1>11. QED BY <1>9, <1>10

\* A step of dhmp_client_init or _destroy is none, and no link is begun anew.
LEMMA SmoothFrom ==
    ASSUME TypeOK, Smooth, InOrder', Usable', "retry" \notin races',
           UNCHANGED <<main, alive, threads, prepare, cm>>,
           \A i \in Attempt :
               /\ att'[i].by = att[i].by
               /\ att'[i].phase \notin {"nodevice", "dead"} /\ att'[i].peer # "stale"
               /\ att'[i].peer = "gone" => att'[i].phase = "down"
               /\ att'[i].phase \in {"closing", "down"} => prepare
               /\ att[i].phase \in {"up", "closing", "down"} =>
                      att'[i].phase \in {"up", "closing", "down"},
           NoneLost', OpenAreServed'
    PROVE  Smooth'
<1>1. \A t \in Trans : cm[t] # None => cm[t] \in Attempt
  BY DEF TypeOK
<1>2. \A t \in Trans : Made(t) => Made(t)'
  BY <1>1 DEF Made
<1>3. SeenAreMade'
  <2>1. ASSUME NEW k \in 1 .. main - 1, Program[k].do = "see" PROVE Made(Program[k].t)'
    <3>1. k \in 1 .. Len(Program)
      <4>1. main \in 1 .. Len(Program) + 1 /\ Len(Program) \in Nat
        BY ProgramSteps DEF TypeOK
      <4>2. QED BY <4>1
    <3>2. Program[k] \in Steps
      BY <3>1, ProgramType
    <3>3. Program[k].t \in Trans
      BY <2>1, <3>2 DEF Steps
    <3>4. QED BY <1>2, <2>1, <3>3 DEF Smooth, SeenAreMade
  <2>2. QED BY <2>1 DEF SeenAreMade
<1>4. OneEach' /\ NoneBreaks'
  BY DEF Smooth, OneEach, NoneBreaks
<1>5. QED BY <1>3, <1>4 DEF Smooth

LEMMA HandleHasId ==
    ASSUME TypeOK, InOrder, NEW t \in Trans, Handle(t)
    PROVE  HandleEvent(t)
<1>1. chan[t] # <<>>
  BY DEF Handle
<1>2. cm[t] # None
  BY <1>1 DEF InOrder, LinkInv, Channels
<1>3. QED BY <1>2 DEF Handle, NoId, HandleEvent

LEMMA HandleSmooth ==
    ASSUME TypeOK, Smooth, InOrder', Usable', "retry" \notin races', NEW t \in Trans, Handle(t)
    PROVE  Smooth'
<1>1. LinkInv /\ att \in [Attempt -> AttemptRecord] /\ state \in [Trans -> {"INIT", "CONNECTING",
        "CONNECTED", "DISCONNECTED", "ERROR"}]
  BY Typed DEF Smooth, InOrder, LinkInv, TypeOK
<1>2. chan[t] # <<>> /\ UNCHANGED <<main, cm, prepare, alive>>
  BY DEF Handle, server
<1>3. PICK i \in Attempt : cm[t] = i /\ i # None /\ att[i].by = t
                           /\ Fits(chan[t], i, att[i].phase)
  BY <1>1, <1>2 DEF LinkInv, Channels, Latest, TypeOK
<1>event. HandleEvent(t)
  BY HandleHasId DEF Smooth
<1> DEFINE kind == Head(chan[t]).kind
           Good(p) == p \notin {"nodevice", "dead"} /\ (p \in {"closing", "down"} => prepare)
<1>4. \/ kind = "ADDR_RESOLVED" /\ att[i].phase = "addr"
      \/ kind = "ROUTE_RESOLVED" /\ att[i].phase = "route"
      \/ kind = "ESTABLISHED"
      \/ kind = "DISCONNECTED" /\ att[i].phase = "down"
      \/ kind = "CONNECT_ERROR" /\ att[i].phase = "dead"
  BY <1>2, <1>3 DEF Fits, Told
<1>5. \A j \in Attempt : /\ Good(att[j].phase) /\ att[j].peer # "stale"
                         /\ att[j].peer = "gone" => att[j].phase = "down"
  BY DEF Smooth, NoneBreaks
<1>6. CASE kind = "ADDR_RESOLVED" /\ att[i].phase = "addr"
  <2>1. AddrResolved(t)
    BY <1>6, <1>event DEF HandleEvent
  <2>2. att' = [att EXCEPT ![i].phase = "routing"] /\ UNCHANGED <<state, threads>>
    BY <1>3, <1>6, <2>1 DEF AddrResolved
  <2>3. /\ att'[i].phase = "routing" /\ \A j \in Attempt : att'[j].by = att[j].by /\ att'[j].peer = att[j].peer
        /\ \A j \in Attempt : j # i => att'[j] = att[j]
    BY <1>1, <2>2 DEF AttemptRecord
  <2>4. NoneLost' /\ OpenAreServed'
    BY <1>2, <2>2, <2>3 DEF Smooth, NoneLost, OpenAreServed, Open, Served
  <2>5. QED BY <1>2, <1>5, <1>6, <2>2, <2>3, <2>4, SmoothFrom
<1>7. CASE kind = "ROUTE_RESOLVED" /\ att[i].phase = "route"
  <2>1. RouteResolved(t)
    BY <1>7, <1>event DEF HandleEvent
  <2>2. Bindable(i)
    BY <1>1, <1>7 DEF LinkInv, NotBound, Bindable
  <2>3. att' = [att EXCEPT ![i].bound = TRUE, ![i].phase = "asking"] /\ UNCHANGED <<state, threads>>
    BY <1>3, <1>7, <2>1, <2>2 DEF RouteResolved
  <2>4. /\ att'[i].phase = "asking" /\ \A j \in Attempt : att'[j].by = att[j].by /\ att'[j].peer = att[j].peer
        /\ \A j \in Attempt : j # i => att'[j] = att[j]
    BY <1>1, <2>3 DEF AttemptRecord
  <2>5. NoneLost' /\ OpenAreServed'
    BY <1>2, <2>3, <2>4 DEF Smooth, NoneLost, OpenAreServed, Open, Served
  <2>6. QED BY <1>2, <1>5, <1>7, <2>3, <2>4, <2>5, SmoothFrom
<1>8. CASE kind = "ESTABLISHED"
  <2>1. Established(t)
    BY <1>8, <1>event DEF HandleEvent
  <2>2. state' = [state EXCEPT ![t] = "CONNECTED"] /\ UNCHANGED <<att, threads>>
    BY <2>1 DEF Established
  <2>3. NoneLost'
    BY <1>1, <1>2, <2>2 DEF Smooth, NoneLost
  <2>4. OpenAreServed'
    BY <2>2 DEF Smooth, OpenAreServed, Open, Served
  <2>5. QED BY <1>2, <1>5, <2>2, <2>3, <2>4, SmoothFrom
<1>9. CASE kind = "DISCONNECTED" /\ att[i].phase = "down"
  <2>1. Disconnected(t) /\ prepare
    BY <1>5, <1>9, <1>event DEF HandleEvent
  <2>2. UNCHANGED <<att, threads>>
    BY <2>1 DEF Disconnected
  <2>3. NoneLost'
    BY <1>2, <2>1 DEF NoneLost
  <2>4. OpenAreServed'
    BY <2>2 DEF Smooth, OpenAreServed, Open, Served
  <2>5. QED BY <1>2, <1>5, <2>2, <2>3, <2>4, SmoothFrom
<1>10. QED BY <1>4, <1>5, <1>6, <1>7, <1>8, <1>9

LEMMA EventSmooth ==
    ASSUME TypeOK, Smooth, InOrder', Usable', "retry" \notin races', NEW i \in Attempt,
           ServerStep(i) \/ NetworkStep(i)
    PROVE  Smooth'
<1>1. att \in [Attempt -> AttemptRecord] /\ LinkInv
  BY Typed DEF Smooth, InOrder, LinkInv
<1>2. UNCHANGED <<main, alive, threads, prepare, cm, state>>
  BY DEF ServerStep, NetworkStep, ConnectRequest, ServerEstablished, ServerDisconnected, ServerClose,
         AddrFound, RouteFound, Accepted, Move, Refused, client, server
<1>3. NoneLost'
  BY <1>2 DEF Smooth, NoneLost
<1>4. ~Refused(i)
  <2>1. SUFFICES ASSUME Refused(i) PROVE FALSE
    OBVIOUS
  <2>2. att[i].by \in Trans
    BY <1>1, <2>1, UnderwayIsLatest DEF Refused, Underway
  <2>3. At(i) \in Server
    BY <2>2 DEF At, Trans
  <2>4. att[i].peer = "none" \/ att[i].peer = "gone"
    BY <2>1 DEF Refused, Smooth, NoneBreaks
  <2>5. QED BY <2>1, <2>3, <2>4 DEF Smooth, Refused, NoneBreaks
<1>5. \/ \E x : att' = [att EXCEPT ![i].peer = "accepted", ![i].poll = x]
      \/ att' = [att EXCEPT ![i].peer = "known"]
      \/ att[i].phase \in {"down", "dead"} /\ att' = [att EXCEPT ![i].peer = "gone"]
      \/ att[i].phase = "closing" /\ att' = [att EXCEPT ![i].phase = "down"]
      \/ att[i].phase = "resolving" /\ att' = [att EXCEPT ![i].phase = "addr"]
      \/ att[i].phase = "routing" /\ att' = [att EXCEPT ![i].phase = "route"]
      \/ att[i].peer = "accepted" /\ att[i].phase = "asking" /\ att' = [att EXCEPT ![i].phase = "up"]
  BY <1>4 DEF ServerStep, NetworkStep, ConnectRequest, ServerEstablished, ServerDisconnected,
              ServerClose, AddrFound, RouteFound, Accepted, Move
<1>6. /\ \A j \in Attempt : att'[j].by = att[j].by
      /\ \A j \in Attempt : j # i => att'[j] = att[j]
      /\ att'[i].peer = att[i].peer \/ att'[i].peer \in {"accepted", "known"}
         \/ (att'[i].peer = "gone" /\ att[i].phase \in {"down", "dead"} /\ att'[i].phase = att[i].phase)
      /\ \/ att'[i].phase = att[i].phase /\ att'[i].peer \in {"accepted", "known"}
         \/ att'[i].phase = att[i].phase /\ att[i].phase \in {"down", "dead"}
         \/ att[i].phase = "closing" /\ att'[i].phase = "down"
         \/ att[i].phase = "resolving" /\ att'[i].phase = "addr"
         \/ att[i].phase = "routing" /\ att'[i].phase = "route"
         \/ att[i].phase = "asking" /\ att'[i].phase = "up" /\ att'[i].peer = "accepted"
  BY <1>1, <1>5 DEF AttemptRecord
<1>7. OpenAreServed'
  BY <1>6 DEF Smooth, OpenAreServed, Open, Served
<1>8. \A j \in Attempt :
          /\ att[j].phase \notin {"nodevice", "dead"} /\ att[j].peer # "stale"
          /\ att[j].peer = "gone" => att[j].phase = "down"
          /\ att[j].phase \in {"closing", "down"} => prepare
  BY DEF Smooth, NoneBreaks
<1>9. \A j \in Attempt :
          /\ att'[j].phase \notin {"nodevice", "dead"} /\ att'[j].peer # "stale"
          /\ att'[j].peer = "gone" => att'[j].phase = "down"
          /\ att'[j].phase \in {"closing", "down"} => prepare
          /\ att[j].phase \in {"up", "closing", "down"} => att'[j].phase \in {"up", "closing", "down"}
  BY <1>6, <1>8
<1>10. QED BY <1>2, <1>3, <1>6, <1>7, <1>9, SmoothFrom

LEMMA MainSmooth ==
    ASSUME TypeOK, Smooth, InOrder', Usable', "retry" \notin races', MainStep,
           faults' = faults
    PROVE  Smooth'
<1>1. att \in [Attempt -> AttemptRecord] /\ LinkInv /\ ToConnect /\ Prepared
  BY Typed DEF Smooth, InOrder, LinkInv
<1>2. main \in 1 .. Len(Program) /\ Len(Program) \in Nat /\ Len(InitPart) \in Nat
  BY ProgramSteps DEF MainStep, Connect, Connecting, See, Prepare, Close, Gone, Stop, Join, AtStep,
                      TypeOK
<1>3. /\ ~Connect => main' = main + 1
      /\ UNCHANGED <<alive, threads>>
  BY DEF MainStep, Connect, Connecting, See, Prepare, Close, Gone, Stop, Join, Advance, server
<1>4. Program[main] \in Steps /\ \A k \in 1 .. main : Program[k] \in Steps
  <2>1. \A k \in 1 .. main : k \in 1 .. Len(Program)
    BY <1>2
  <2>2. QED BY <1>2, <2>1, ProgramType
<1>5. \A t \in Trans : cm[t] # None => cm[t] \in Attempt
  BY DEF TypeOK
\* A step that begins no link, and may close one.
<1>6. ASSUME ~Connect, UNCHANGED cm, NoneLost', prepare => prepare', prepare' => main' > Len(InitPart),
             \A i \in Attempt : /\ att'[i].by = att[i].by /\ att'[i].peer = att[i].peer
                                /\ att'[i].phase = att[i].phase
                                   \/ (att[i].phase = "up" /\ att'[i].phase = "closing" /\ prepare),
             AtStep("see") => Made(Arg)
      PROVE  Smooth'
  <2>1. \A t \in Trans : Made(t) => Made(t)'
    BY <1>5, <1>6 DEF Made
  <2>2. SeenAreMade'
    <3>1. ASSUME NEW k \in 1 .. main, Program[k].do = "see" PROVE Made(Program[k].t)'
      <4>1. Program[k].t \in Trans
        BY <1>4, <3>1 DEF Steps
      <4>2. CASE k = main
        BY <1>2, <1>6, <2>1, <3>1, <4>1, <4>2 DEF AtStep, Arg
      <4>3. CASE k # main
        <5>1. k \in 1 .. main - 1
          BY <1>2, <4>3
        <5>2. QED BY <2>1, <3>1, <4>1, <5>1 DEF Smooth, SeenAreMade
      <4>4. QED BY <4>2, <4>3
    <3>2. main' - 1 = main
      BY <1>2, <1>3, <1>6
    <3>3. QED BY <3>1, <3>2 DEF SeenAreMade
  <2>3. OneEach' /\ OpenAreServed'
    BY <1>6 DEF Smooth, OneEach, OpenAreServed, Open, Served
  <2>4. NoneBreaks'
    BY <1>6 DEF Smooth, NoneBreaks
  <2>5. QED BY <1>3, <1>6, <2>2, <2>3, <2>4 DEF Smooth
<1>7. CASE Connect
  <2>1. PICK t \in Trans : Program[main].do = "connect" /\ Program[main].t = t /\ Start(t)
                           /\ main' = main
    <3>1. ~StartFails(Arg)
      BY BoundAssumption DEF StartFails, Fault, TypeOK
    <3>2. QED BY <1>7, <3>1, ConnectsTransports DEF Connect, Arg, AtStep
  <2>2. cm[t] = None
    BY <1>1, <1>2, <1>7, <2>1 DEF ToConnect, Connect
  <2>3. PICK i \in Attempt :
          /\ Unused(i)
          /\ att' = [att EXCEPT ![i] = [NoAttempt EXCEPT !.by = t, !.phase = "resolving"]]
          /\ cm' = [cm EXCEPT ![t] = i]
    BY <2>1 DEF Start
  <2>4. /\ att'[i].by = t /\ att'[i].phase = "resolving"
        /\ \A j \in Attempt : j # i => att'[j] = att[j]
    BY <1>1, <2>3 DEF AttemptRecord, NoAttempt
  <2>5. /\ cm'[t] = i /\ UNCHANGED <<state, prepare>>
        /\ \A u \in Trans : u # t => cm'[u] = cm[u]
    BY <1>7, <2>3 DEF Connect, TypeOK
  <2>6. \A u \in Trans : cm[u] # i
    BY <2>3 DEF Unused, Referred
  <2>7. \A u \in Trans : Made(u) => Made(u)'
    <3>1. \A u \in Trans : Made(u) => u # t /\ cm[u] \in Attempt /\ cm[u] # i
      BY <1>5, <2>2, <2>6 DEF Made
    <3>2. QED BY <2>4, <2>5, <3>1 DEF Made
  <2>8. SeenAreMade'
    <3>1. ASSUME NEW k \in 1 .. main - 1, Program[k].do = "see" PROVE Made(Program[k].t)'
      <4>1. k \in 1 .. main
        BY <1>2
      <4>2. Program[k].t \in Trans
        BY <1>4, <3>1, <4>1 DEF Steps
      <4>3. QED BY <2>7, <3>1, <4>2 DEF Smooth, SeenAreMade
    <3>2. QED BY <2>1, <3>1 DEF SeenAreMade
  <2>9. OneEach'
    <3>1. ASSUME NEW j \in Attempt, att'[j].by # None PROVE cm'[att'[j].by] = j
      <4>1. CASE j = i
        BY <2>4, <2>5, <4>1
      <4>2. CASE j # i
        <5>1. att'[j].by = att[j].by /\ cm[att[j].by] = j
          BY <2>4, <3>1, <4>2 DEF Smooth, OneEach
        <5>2. j # None /\ att[j].by \in Trans
          <6>1. att[j] \in AttemptRecord
            BY <1>1
          <6>2. QED BY <3>1, <5>1, <6>1, ValueAssumption DEF AttemptRecord, Attempt
        <5>3. QED BY <2>2, <2>5, <5>1, <5>2
      <4>3. QED BY <4>1, <4>2
    <3>2. QED BY <3>1 DEF OneEach
  <2>10. NoneBreaks'
    <3>1. att'[i].peer = "none"
      BY <1>1, <2>3 DEF AttemptRecord, NoAttempt
    <3>2. QED BY <2>4, <2>5, <3>1 DEF Smooth, NoneBreaks
  <2>11. NoneLost'
    BY <2>5 DEF Smooth, NoneLost
  <2>12. OpenAreServed'
    BY <2>4 DEF Smooth, OpenAreServed, Open, Served
  <2>13. prepare' => main' > Len(InitPart)
    BY <2>1, <2>5 DEF Smooth
  <2>14. QED BY <1>3, <2>8, <2>9, <2>10, <2>11, <2>12, <2>13 DEF Smooth
<1>8. CASE See
  <2>1. Arg \in Trans /\ main <= Len(InitPart)
    BY <1>2, <1>4, <1>8, ProgramSteps DEF See, AtStep, Arg, Steps
  <2>2. ~prepare
    BY <1>2, <2>1 DEF Smooth
  <2>3. state[Arg] = "CONNECTED"
    BY <1>8, <2>1, <2>2 DEF See, Smooth, NoneLost
  <2>4. Made(Arg)
    BY <2>1, <2>3 DEF Smooth, Usable, UsableAt, Made, Open
  <2>5. UNCHANGED <<cm, state, prepare, att>> /\ ~Connect /\ NoneLost'
    BY <1>8 DEF See, Connect, AtStep, Smooth, NoneLost
  <2>6. QED BY <1>6, <2>2, <2>4, <2>5
<1>9. CASE Prepare
  <2>1. main = Len(InitPart) + 1
    BY <1>2, <1>9, ProgramSteps DEF Prepare, AtStep
  <2>2. UNCHANGED <<cm, state, att>> /\ prepare' /\ ~AtStep("see") /\ ~Connect /\ NoneLost'
    BY <1>9 DEF Prepare, Connect, AtStep, NoneLost
  <2>3. main' > Len(InitPart)
    BY <1>2, <1>3, <2>1, <2>2
  <2>4. QED BY <1>6, <2>2, <2>3
<1>10. CASE Close \/ Gone \/ Stop \/ Join
  <2>1. UNCHANGED <<cm, state, prepare>> /\ ~AtStep("see") /\ ~Connect /\ NoneLost'
    BY <1>10 DEF Close, Gone, Stop, Join, Connect, AtStep, Smooth, NoneLost
  <2>2. prepare
    <3>1. Program[main].do \in {"close", "gone", "stop", "join"}
      BY <1>10 DEF Close, Gone, Stop, Join, AtStep
    <3>2. main > Len(InitPart) + 1
      BY <1>2, <3>1, ProgramSteps
    <3>3. QED BY <1>1, <3>2 DEF Prepared
  <2>3. main' > Len(InitPart)
    BY <1>2, <1>3, <2>1, <2>2 DEF Smooth
  <2>4. att' = att \/ \E i \in Attempt : att[i].phase = "up" /\ att' = [att EXCEPT ![i].phase = "closing"]
    BY <1>10 DEF Close, Gone, Stop, Join, TypeOK
  <2>5. \A i \in Attempt : /\ att'[i].by = att[i].by /\ att'[i].peer = att[i].peer
                           /\ att'[i].phase = att[i].phase
                              \/ (att[i].phase = "up" /\ att'[i].phase = "closing")
    BY <1>1, <2>4 DEF AttemptRecord
  <2>6. QED BY <1>6, <2>1, <2>2, <2>3, <2>5
<1>11. CASE Connecting
  <2>1. UNCHANGED <<cm, prepare, att>> /\ ~AtStep("see") /\ ~Connect
    BY <1>11 DEF Connecting, Connect, AtStep
  <2>2. NoneLost'
    BY <1>11, <2>1 DEF Connecting, Record, Smooth, NoneLost, TypeOK
  <2>3. prepare' => main' > Len(InitPart)
    BY <1>2, <1>3, <2>1 DEF Smooth
  <2>4. QED BY <1>6, <2>1, <2>2, <2>3
<1>12. QED BY <1>7, <1>8, <1>9, <1>10, <1>11 DEF MainStep

LEMMA InitSmooth == ASSUME Init PROVE Smooth
<1>1. Usable
  BY DEF Init, Usable, UsableAt
<1>2. \A i \in Attempt : att[i] = NoAttempt
  BY DEF Init
<1>3. OneEach /\ NoneBreaks /\ NoneLost /\ OpenAreServed
  BY <1>2 DEF Init, NoAttempt, OneEach, NoneBreaks, NoneLost, OpenAreServed, Open
<1>4. SeenAreMade
  BY DEF Init, SeenAreMade
<1>5. QED BY <1>1, <1>3, <1>4, InitInOrder DEF Init, Smooth

LEMMA StepSmooth ==
    ASSUME IInv, Smooth, faults = 0, faults' = 0, [Next]_vars
    PROVE  Smooth'
<1>turn. "retry" \notin races'
  <2>1. races' = races \/ races' = races \union {"late"} \/ races' = races \union {"request"}
    <3>1. ASSUME NEW t \in Trans PROVE ~RecoveryStep(t)
      BY DEF RecoveryStep, Reconnect, Reconnecting, Wake, CallRecovery, EndRecovery, Smooth
    <3>2. QED
      BY <3>1 DEF Next, vars, past, MainStep, Connect, Connecting, See, Prepare, Close, Gone, Stop,
         Join, Record, Race, Handle, LoopCheck, ServerStep, ConnectRequest, ServerEstablished,
         ServerDisconnected, ServerClose, NetworkStep, AddrFound, RouteFound, Accepted, Refused,
         Move, FaultStep, RequestFails, Fail, Error, Lose, Crash, Restart
  <2>2. QED BY <2>1 DEF Smooth
<1>1. TypeOK /\ InOrder' /\ Usable'
  BY <1>turn, StepInOrder, StepUsable DEF IInv, Smooth
<1>2. CASE MainStep
  BY <1>1, <1>2, <1>turn, MainSmooth
<1>3. ASSUME NEW t \in Trans, Handle(t) \/ RecoveryStep(t) PROVE Smooth'
  <2>1. RecoveryStep(t) => threads[t] # "none"
    BY DEF RecoveryStep, Reconnect, Reconnecting, Wake, CallRecovery, EndRecovery
  <2>2. QED BY <1>1, <1>3, <1>turn, <2>1, HandleSmooth DEF Smooth
<1>4. CASE LoopCheck \/ UNCHANGED vars
  <2>1. UNCHANGED <<main, alive, threads, prepare, cm, att, state>>
    BY <1>4 DEF LoopCheck, vars, client, server
  <2>2. NoneLost' /\ OpenAreServed'
    BY <2>1 DEF Smooth, NoneLost, OpenAreServed, Open, Served
  <2>3. \A i \in Attempt : att[i].phase \notin {"nodevice", "dead"} /\ att[i].peer # "stale"
                           /\ (att[i].peer = "gone" => att[i].phase = "down")
                           /\ (att[i].phase \in {"closing", "down"} => prepare)
    BY DEF Smooth, NoneBreaks
  <2>4. QED BY <1>1, <1>turn, <2>1, <2>2, <2>3, SmoothFrom
<1>5. ASSUME NEW i \in Attempt, ServerStep(i) \/ NetworkStep(i) PROVE Smooth'
  BY <1>1, <1>5, <1>turn, EventSmooth
<1>6. ~FaultStep
  BY DEF FaultStep, RequestFails, Fail, Error, Lose, Crash, Fault
<1>7. ~\E s \in Server : Restart(s)
  BY DEF Smooth, Restart
<1>8. QED BY <1>2, <1>3, <1>4, <1>5, <1>6, <1>7 DEF Next

LEMMA TransParts ==
    ASSUME NEW t \in Trans
    PROVE  t[1] \in Server /\ (t = <<t[1], FALSE>> \/ t = <<t[1], TRUE>>)
<1>1. PICK s \in Server, p \in BOOLEAN : t = <<s, p>>
  BY DEF Trans
<1>2. t[1] = s /\ (p = TRUE \/ p = FALSE)
  BY <1>1
<1>3. QED BY <1>1, <1>2

\* on_cm_connect_request guesses right: the server lists nothing when the
\* normal link is asked for, and knows that one when the poll link is.
LEMMA RequestKind ==
    ASSUME IInv, Smooth, "request" \notin races', \A s \in Server : watcher[s] = Taken,
           NEW i \in Attempt, ConnectRequest(i)
    PROVE  Exists(At(i)) = {att[i].by[2]}
<1> DEFINE s == At(i)
<1>1. /\ att[i].phase = "asking" /\ att[i].peer = "none" /\ LinkInv /\ ToConnect
      /\ ~\E j \in Attempt : att[j].peer = "accepted" /\ Open(j) /\ At(j) = s
  BY DEF ConnectRequest, Asks, Race, Smooth, InOrder, LinkInv
<1>2. PICK t \in Trans : att[i].by = t /\ cm[t] = i
  BY <1>1, UnderwayIsLatest DEF IInv, Underway
<1>3. s \in Server /\ (t = <<s, FALSE>> \/ t = <<s, TRUE>>) /\ s = t[1]
  BY <1>2, TransParts DEF At
<1>4. /\ list[s] \in Seq(Attempt) /\ DOMAIN list[s] = 1 .. Len(list[s]) /\ watcher[s] = Taken
      /\ main \in 1 .. Len(Program) + 1 /\ Len(Program) \in Nat /\ Len(InitPart) \in Nat
  BY <1>3, ProgramSteps DEF IInv, TypeOK
<1>5. \A j \in Attempt : Served(j) /\ At(j) = s => \E k \in DOMAIN list[s] : list[s][k] = j
  <2>1. Lists(list[s], watcher[s], HeldBy(s))
    BY <1>3 DEF IInv, ServerInv, Listed, Smooth
  <2>2. \A j \in Attempt : watcher[s] # j
    BY <1>4, ValueAssumption DEF Attempt
  <2>3. QED BY <2>1, <2>2 DEF Lists, HeldBy, Held
<1>6. \A k \in DOMAIN list[s] : list[s][k] \in Attempt /\ Served(list[s][k]) /\ At(list[s][k]) = s
  BY <1>3 DEF IInv, ServerInv, Listed, Smooth, Lists, HeldBy, Held, NoneBreaks
\* Before the poll link is asked for, the normal link has been seen.
<1>7. cm[<<s, TRUE>>] # None => Made(Normal(s))
  <2>1. SUFFICES ASSUME cm[<<s, TRUE>>] # None PROVE Made(Normal(s))
    OBVIOUS
  <2>2. PICK j, k \in 1 .. Len(Program) :
          /\ Program[j] = [do |-> "see", t |-> Normal(s)]
          /\ Program[k] = [do |-> "connect", t |-> <<s, TRUE>>] /\ j < k
    BY <1>3, LinkSteps
  <2>3. k \in main .. Len(Program) => k = main
    <3>1. Program[k].do = "connect" /\ Program[k].t = <<s, TRUE>>
      <4>1. \A x : LET r == [do |-> "connect", t |-> x] IN r.do = "connect" /\ r.t = x
        OBVIOUS
      <4>2. QED BY <2>2, <4>1, Zenon
    <3>2. ASSUME k \in main .. Len(Program), k # main PROVE FALSE
      <4>1. cm[Program[k].t] = None
        BY <1>1, <3>1, <3>2 DEF ToConnect
      <4>2. QED BY <2>1, <3>1, <4>1
    <3>3. QED BY <3>2
  <2>4. j \in 1 .. main - 1
    BY <1>4, <2>2, <2>3
  <2>5. Program[j].do = "see" /\ Program[j].t = Normal(s)
    BY <2>2
  <2>6. QED BY <2>4, <2>5 DEF Smooth, SeenAreMade
<1>8. CASE t = <<s, FALSE>>
  <2>1. cm[<<s, TRUE>>] = None
    BY <1>1, <1>2, <1>7, <1>8 DEF Made, Normal
  <2>2. ASSUME NEW k \in DOMAIN list[s] PROVE FALSE
    <3>1. PICK j \in Attempt : j = list[s][k] /\ Served(j) /\ At(j) = s
      BY <1>6
    <3>2. PICK u \in Trans : att[j].by = u /\ cm[u] = j
      <4>1. att[j].peer # "none"
        BY <3>1 DEF Served
      <4>2. att[j].by \in Trans
        BY <4>1 DEF IInv, ServerInv, MadeFor
      <4>3. att[j].by # None
        BY <4>2, NullAssumption
      <4>4. QED BY <4>2, <4>3 DEF Smooth, OneEach
    <3>3. u = <<s, FALSE>> \/ u = <<s, TRUE>>
      BY <3>1, <3>2, TransParts DEF At
    <3>4. j # None
      BY ValueAssumption DEF Attempt
    <3>5. j = i
      BY <1>2, <1>8, <2>1, <3>2, <3>3, <3>4
    <3>6. QED BY <1>1, <3>1, <3>5 DEF Served
  <2>3. list[s] = <<>>
    <3>1. Len(list[s]) \in Nat /\ ~(1 \in 1 .. Len(list[s]))
      BY <1>4, <2>2
    <3>2. Len(list[s]) = 0
      BY <3>1
    <3>3. QED BY <1>4, <3>2
  <2>4. Exists(s) = {FALSE}
    BY <2>2, <2>3 DEF Exists
  <2>5. QED BY <1>2, <1>8, <2>4
<1>9. CASE t = <<s, TRUE>>
  <2>1. cm[<<s, TRUE>>] # None
    BY <1>2, <1>9, ValueAssumption DEF Attempt
  <2>2. PICK j \in Attempt : cm[Normal(s)] = j /\ att[j].phase \in {"up", "closing", "down"}
    <3>1. Normal(s) \in Trans
      BY <1>3 DEF Normal, Trans
    <3>2. QED BY <1>7, <2>1, <3>1 DEF Made, IInv, TypeOK
  <2>3. ~prepare
    <3>1. SUFFICES ASSUME prepare PROVE FALSE
      OBVIOUS
    <3>2. PICK k \in 1 .. Len(InitPart) : Program[k] = [do |-> "see", t |-> t]
      BY LinkSteps
    <3>3. k \in 1 .. main - 1 /\ Program[k].do = "see" /\ Program[k].t = t
      BY <1>4, <3>1, <3>2 DEF Smooth
    <3>4. Made(t)
      BY <3>3 DEF Smooth, SeenAreMade
    <3>5. QED BY <1>1, <1>2, <3>4 DEF Made
  <2>4. Open(j) /\ Served(j)
    BY <2>2, <2>3 DEF Smooth, NoneBreaks, OpenAreServed, Open
  <2>5. At(j) = s
    <3>1. Normal(s) \in Trans /\ j # None
      BY <1>3, ValueAssumption DEF Normal, Trans, Attempt
    <3>2. att[j].by = Normal(s)
      BY <1>1, <2>2, <3>1 DEF LinkInv, Latest
    <3>3. QED BY <3>2 DEF At, Normal
  <2>6. att[j].peer = "known"
    BY <1>1, <2>4, <2>5 DEF Served
  <2>7. Exists(s) = {TRUE}
    BY <1>5, <2>4, <2>5, <2>6 DEF Exists
  <2>8. QED BY <1>2, <1>9, <2>7
<1>10. QED BY <1>3, <1>8, <1>9

LEMMA StepKinds ==
    ASSUME IInv, Smooth, KindsAgree, faults = 0, faults' = 0, [Next]_vars
    PROVE  KindsAgree'
<1> SUFFICES ASSUME "request" \notin races', \A s \in Server : watcher'[s] = Taken,
                    NEW i \in Attempt, Served(i)'
             PROVE  att'[i].poll = att'[i].by[2]
  BY DEF KindsAgree
<1>1. att \in [Attempt -> AttemptRecord]
  BY Typed DEF IInv
<1>2. \A s \in Server : watcher[s] = Taken
  <2>1. ASSUME NEW s \in Server PROVE watcher[s] = Taken
    <3>1. watcher' = watcher \/ \E j \in Attempt : watcher' = [watcher EXCEPT ![At(j)] = j]
      <4>1. ASSUME NEW r \in Server PROVE ~Restart(r)
        BY DEF Smooth, Restart
      <4>2. ~FaultStep
        BY DEF FaultStep, RequestFails, Fail, Error, Lose, Crash, Fault
      <4>3. QED
        BY <4>1, <4>2 DEF Next, MainStep, Connect, Connecting, See, Prepare, Close, Gone, Stop, Join, Handle,
           RecoveryStep, Reconnect, Reconnecting, Wake, CallRecovery, EndRecovery, LoopCheck, ServerStep,
           ConnectRequest, Take, ServerEstablished, ServerDisconnected, ServerClose, NetworkStep,
           AddrFound, RouteFound, Accepted, Move, Refused, server, vars
    <3>2. \A j \in Attempt : j # Taken
      BY ValueAssumption DEF Attempt
    <3>3. DOMAIN watcher = Server
      BY DEF IInv, TypeOK
    <3>4. QED BY <3>1, <3>2, <3>3
  <2>2. QED BY <2>1
<1>3. \A j \in Attempt : Served(j) => att[j].poll = att[j].by[2]
  BY <1>2, RacesGrow DEF KindsAgree
<1>4. CASE att'[i].poll = att[i].poll /\ att'[i].by = att[i].by /\ Served(i)
  BY <1>3, <1>4
<1>5. CASE ~(att'[i].poll = att[i].poll /\ att'[i].by = att[i].by /\ Served(i))
  <2>1. ConnectRequest(i)
    <3>1. ASSUME NEW t \in Trans, Start(t) PROVE FALSE
      <4>1. PICK j \in Attempt :
              /\ Unused(j)
              /\ att' = [att EXCEPT ![j] = [NoAttempt EXCEPT !.by = t, !.phase = "resolving"]]
        BY <3>1 DEF Start
      <4>2. att'[j].peer = "none" /\ \A k \in Attempt : k # j => att'[k] = att[k]
        BY <1>1, <4>1 DEF NoAttempt
      <4>3. i # j
        BY <4>2 DEF Served
      <4>4. QED BY <1>5, <4>2, <4>3 DEF Served
    <3>2. ASSUME MainStep PROVE FALSE
      <4>1. ~Connect
        BY <3>1, ConnectsTransports DEF Connect, StartFails, Fault, IInv
      <4>2. att' = att \/ \E j : att' = [att EXCEPT ![j].phase = "closing"]
        BY <3>2, <4>1 DEF MainStep, Connecting, See, Prepare, Close, Gone, Stop, Join
      <4>3. QED BY <1>1, <1>5, <4>2 DEF AttemptRecord, Served
    <3>3. ASSUME NEW t \in Trans, Handle(t) PROVE FALSE
      <4>1. \/ att' = att
            \/ \E j : att' = [att EXCEPT ![j].phase = "routing"]
            \/ \E j : att' = [att EXCEPT ![j].bound = TRUE, ![j].phase = "asking"]
            \/ \E j : att' = [att EXCEPT ![j].bound = TRUE]
        <5>6. HandleEvent(t)
          BY <3>3, HandleHasId DEF Smooth, IInv
        <5>1. \/ AddrResolved(t) \/ RouteResolved(t) \/ UNCHANGED att
          <6>1. PICK x : x = Head(chan[t]).kind
            OBVIOUS
          <6>2. x \in Event
            <7>1. chan[t] \in Seq(Message) /\ chan[t] # <<>>
              BY <3>3 DEF Handle, IInv, TypeOK, Message
            <7>2. Head(chan[t]) \in Message
              BY <7>1, HeadTailType
            <7>3. QED BY <6>1, <7>2 DEF Message
          <6>3. QED BY <5>6, <6>1, <6>2 DEF HandleEvent, Event, Established, Disconnected, ConnectError
        <5>2. AddrResolved(t) => att' = att \/ \E j : att' = [att EXCEPT ![j].phase = "routing"]
          BY DEF AddrResolved
        <5>3. RouteResolved(t) => \/ att' = att
                                  \/ \E j : att' = [att EXCEPT ![j].bound = TRUE, ![j].phase = "asking"]
                                  \/ \E j : att' = [att EXCEPT ![j].bound = TRUE]
          BY DEF RouteResolved
        <5>4. QED BY <5>1, <5>2, <5>3
      <4>2. CASE att' = att
        BY <1>5, <4>2 DEF Served
      <4>3. CASE \E j : att' = [att EXCEPT ![j].phase = "routing"]
        BY <1>1, <1>5, <4>3 DEF AttemptRecord, Served
      <4>4. CASE \E j : att' = [att EXCEPT ![j].bound = TRUE]
        BY <1>1, <1>5, <4>4 DEF AttemptRecord, Served
      <4>5. CASE \E j : att' = [att EXCEPT ![j].bound = TRUE, ![j].phase = "asking"]
        BY <1>1, <1>5, <4>5 DEF AttemptRecord, Served
      <4>6. QED BY <4>1, <4>2, <4>3, <4>4, <4>5
    <3>4. ASSUME NEW t \in Trans, RecoveryStep(t) PROVE FALSE
      BY <3>4 DEF RecoveryStep, Reconnect, Reconnecting, Wake, CallRecovery, EndRecovery, Smooth
    <3>5. ASSUME LoopCheck \/ UNCHANGED vars PROVE FALSE
      BY <1>5, <3>5 DEF LoopCheck, vars, Served
    <3>6. ~FaultStep /\ ~\E s \in Server : Restart(s)
      BY DEF FaultStep, RequestFails, Fail, Error, Lose, Crash, Fault, Smooth, Restart
    <3>7. ASSUME NEW j \in Attempt, ServerStep(j) \/ NetworkStep(j) PROVE ConnectRequest(i)
      <4>1. CASE ConnectRequest(j)
        <5>1. \E x : att' = [att EXCEPT ![j].peer = "accepted", ![j].poll = x]
          BY <4>1 DEF ConnectRequest
        <5>2. \A k \in Attempt : k # j => att'[k] = att[k]
          BY <1>1, <5>1
        <5>3. i = j
          BY <1>5, <5>2 DEF Served
        <5>4. QED BY <4>1, <5>3
      <4>2. CASE ~ConnectRequest(j)
        <5>1. \/ att[j].peer = "accepted" /\ att' = [att EXCEPT ![j].peer = "known"]
              \/ att' = [att EXCEPT ![j].peer = "gone"]
              \/ \E p : att' = [att EXCEPT ![j].phase = p]
          BY <3>7, <4>2 DEF ServerStep, NetworkStep, ServerEstablished, ServerDisconnected,
                ServerClose, AddrFound, RouteFound, Accepted, Move, Refused
        <5>2. QED BY <1>1, <1>5, <5>1 DEF AttemptRecord, Served
      <4>3. QED BY <4>1, <4>2
    <3>8. QED BY <3>2, <3>3, <3>4, <3>5, <3>6, <3>7 DEF Next
  <2>2. Exists(At(i)) = {att[i].by[2]}
    BY <1>2, <2>1, RequestKind
  <2>3. att' = [att EXCEPT ![i].peer = "accepted", ![i].poll = att[i].by[2]]
    BY <2>1, <2>2 DEF ConnectRequest
  <2>4. QED BY <1>1, <2>3 DEF AttemptRecord
<1>6. QED BY <1>4, <1>5

\* As long as nothing fails, the watcher has its own connection and no request
\* overtakes the established event of the connection before, a server takes
\* each link for what the client means by it (on_cm_connect_request and
\* dhmp_is_exist_connection), wherever the client and the event loops are.
THEOREM KindsHold == Spec => []KindsAgree
<1> DEFINE J == faults = 0 => Smooth
<1>1. Init => IInv /\ J /\ KindsAgree
  <2>1. Init => KindsAgree
    BY DEF Init, KindsAgree, Served, NoAttempt
  <2>2. QED BY <2>1, InitInv, InitSmooth
<1>2. IInv /\ J /\ KindsAgree /\ [Next]_vars => (IInv /\ J /\ KindsAgree)'
  <2>1. SUFFICES ASSUME IInv, J, KindsAgree, [Next]_vars
                 PROVE  IInv' /\ (faults' = 0 => Smooth') /\ KindsAgree'
    OBVIOUS
  <2>2. faults' = 0 => faults = 0
    <3>1. faults \in Nat
      BY <2>1, BoundAssumption DEF IInv, TypeOK
    <3>2. faults' = faults \/ faults' = faults + 1
      BY <2>1 DEF Next, vars, past, MainStep, Connect, Connecting, See, Prepare, Close, Gone, Stop,
         Join, StartFails, Handle, RecoveryStep, Reconnect, Reconnecting, Wake, CallRecovery,
         EndRecovery, LoopCheck, ServerStep, ConnectRequest, ServerEstablished,
         ServerDisconnected, ServerClose, NetworkStep, AddrFound, RouteFound, Accepted, Move,
         Refused, FaultStep, RequestFails, Fail, Error, Lose, Crash, Fault, Restart
    <3>3. QED BY <3>1, <3>2
  <2>3. faults' = 0 => Smooth' /\ KindsAgree'
    BY <2>1, <2>2, StepSmooth, StepKinds
  <2>4. faults' # 0 => KindsAgree'
    BY DEF KindsAgree
  <2>5. QED BY <2>1, <2>3, <2>4, StepInv
<1> HIDE DEF J
<1>3. QED BY <1>1, <1>2, PTL DEF Spec
=============================================================================
