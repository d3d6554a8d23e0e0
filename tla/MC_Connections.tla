--------------------------- MODULE MC_Connections ---------------------------
(* Connections on small instances, one per scene: the kinds of faults and  *)
(* how many there are, what watcher_trans may hold, whether the program    *)
(* ends, whether faults come before all links have been connected, and     *)
(* which races there are.                                                  *)
EXTENDS Connections

VARIABLE scene

Scene(kinds, max, watchers, destroys, early, allowed) ==
  [kinds |-> kinds, max |-> max, watchers |-> watchers, destroys |-> destroys, early |-> early,
   allowed |-> allowed]
Scenes == {Scene(Faults, 1, {Taken}, TRUE, FALSE, {}),
           Scene(Faults, 1, {Taken}, FALSE, TRUE, {}),
           Scene({"crash"}, 1, {None}, FALSE, TRUE, {}),
           Scene({"crash", "fail", "error", "start", "accept"}, 2, {Taken}, FALSE, FALSE, {}),
           Scene({"lose", "fail", "error", "start", "accept"}, 2, {Taken}, FALSE, FALSE, {"late"}),
           Scene({}, 0, {Taken}, TRUE, FALSE, {"late", "request"}),
           Scene({"lose"}, 1, {Taken}, FALSE, FALSE, {"retry"})}

\* Of two faults the first ends a connection, and the second does not.
InScene ==
  /\ faults' # faults =>
       /\ faults < scene.max
       /\ ~scene.early => main > Len(InitPart)
       /\ scene.max > 1 /\ faults = 0 => \E i \in Attempt : Open(i) /\ ~Open(i)'
       /\ \A s \in Server : Crash(s) => "crash" \in scene.kinds /\ faults = 0
       /\ \A i \in Attempt : /\ Error(i) => "error" \in scene.kinds
                             /\ Lose(i) => "lose" \in scene.kinds /\ faults = 0
                             /\ Fail(i) => "fail" \in scene.kinds
                             /\ RequestFails(i) => "accept" \in scene.kinds
       /\ \A t \in Trans : StartFails(t) => "start" \in scene.kinds
  /\ races' \subseteq scene.allowed
  /\ prepare' => scene.destroys
  /\ \A s \in Server : alive'[s] /\ ~alive[s] => watcher'[s] \in scene.watchers

MCInit == Init /\ scene \in Scenes /\ \A s \in Server : watcher[s] \in scene.watchers
MCNext == Next /\ InScene /\ UNCHANGED scene
MCSpec == MCInit /\ [][MCNext]_<<vars, scene>> /\ Fairness
=============================================================================
