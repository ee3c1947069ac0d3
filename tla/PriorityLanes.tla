--------------------------- MODULE PriorityLanes ---------------------------
(***************************************************************************)
(* What queues with priorities promise: items of one priority leave in the *)
(* order in which they came, and before all those of lower priority.       *)
(***************************************************************************)
EXTENDS Integers, Sequences

CONSTANTS Queues, Keys, Item    \* an item has a key and more

VARIABLE lane    \* lane[q][k]: the items of priority k in q, the oldest first

Init == lane = [q \in Queues |-> [k \in Keys |-> <<>>]]

Put(q, i) == lane' = [lane EXCEPT ![q][i.key] = Append(@, i)]
Take(q, k) ==
  /\ lane[q][k] # <<>> /\ \A j \in Keys : lane[q][j] # <<>> => j <= k
  /\ lane' = [lane EXCEPT ![q][k] = Tail(@)]

Next == \E q \in Queues : (\E i \in Item : Put(q, i)) \/ (\E k \in Keys : Take(q, k))

Spec == Init /\ [][Next]_lane
=============================================================================
