--------------------------- MODULE MCBeaconNetwork ---------------------------
(* Instances of BeaconNetwork for TLC. *)
EXTENDS BeaconNetwork

CONSTANTS m1, w1

(* A master and a worker; the master's broadcasts come back to it. *)
Pair == {m1, w1}
PairRole == [n \in Pair |-> IF n = m1 THEN "master" ELSE "worker"]
WorkerConfigured == [n \in Pair |-> IF n = w1 THEN m1 ELSE NoAddr]
NobodyConfigured == [n \in Pair |-> NoAddr]
BothWays == {<<m1, w1>>, <<w1, m1>>}
WithEcho == BothWays \cup {<<m1, m1>>}
WorkerToMaster == {<<w1, m1>>}
=============================================================================
