---------------------------- MODULE MC_Requests ----------------------------
(* Requests on small instances, one per scene: callers of one server who   *)
(* race, or who also send, beside frees too; transfers of several lengths; *)
(* a server that is lost once; two servers; answers read half written.     *)
EXTENDS Requests

CONSTANTS c1, b1

VARIABLE scene

MCServer == {0, 1}
\* Address b1 of both servers is in one bucket.
MCHash == [a \in MCServer \X Block |-> IF a[2] = b1 THEN b1 ELSE a]

\* What c1 asks for and what every other caller does, of which servers, with
\* which lengths; how often server 0 is lost, and whether answers are torn.
Scene(mine, others, servers, lengths, lost, torn) ==
  [ops |-> [c \in Caller |-> IF c = c1 THEN mine ELSE others], servers |-> servers,
   lengths |-> lengths \cup {0}, lost |-> lost, torn |-> torn]
Plain == {"malloc", "free", "read", "write"}
Race == Scene({"malloc", "write"}, {"free", "read"}, {0}, {1}, 0, FALSE)
Send == Scene({"malloc", "send", "fetch"}, {"read", "write"}, {0}, {1}, 0, FALSE)
Late == Scene({"malloc", "send"}, {"free"}, {0}, {}, 0, FALSE)
Two  == Scene({"malloc", "free"}, {}, {0, 1}, {}, 0, FALSE)
Tear == Scene({"malloc"}, {"free"}, {0}, {}, 0, TRUE)
Scenes ==
  {Race, Send, Late, Two, Tear,
   Scene(Plain, {}, {0}, Length, 0, FALSE),
   Scene(Plain, {}, {0}, {1}, 1, FALSE)}

OfScene(c, r) == r.srv \in scene.servers /\ r.op \in scene.ops[c] /\ r.len \in scene.lengths
InScene ==
  /\ \A c \in Caller : call[c] = NoCall /\ call'[c] # NoCall => OfScene(c, call'[c])
  /\ \A s \in Server : losses'[s] =< IF s = 0 THEN scene.lost ELSE 0
  /\ hand'.m \in {"keys", "null"} => scene.torn

MCInit == Init /\ past = {} /\ scene \in Scenes
MCNext == Next /\ Remember /\ InScene /\ UNCHANGED scene
MCSpec == MCInit /\ [][MCNext]_<<vars, past, scene>> /\ Fairness
=============================================================================
