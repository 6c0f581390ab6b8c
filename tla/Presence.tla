------------------------------ MODULE Presence ------------------------------
(***************************************************************************)
(* What the discovery layer promises, without beacons, registries or       *)
(* timers.  A node announces itself now and then; every node keeps a view  *)
(* of the others.  A node may enter a view only while its announcement is  *)
(* recent, and time cannot pass the horizon of a node that some view still *)
(* holds: whoever keeps it must forget it first.                           *)
(***************************************************************************)
EXTENDS Naturals

CONSTANTS
    Node,      \* the nodes of the network
    Horizon    \* the longest silence, in ticks (a number), a view may overlook

VARIABLES
    view,      \* view[n]: the nodes that n believes present
    quiet      \* quiet[m]: ticks since m last announced itself, up to QuietCap

vars == <<view, quiet>>

QuietCap == Horizon + 1

Older(q) == IF q < QuietCap THEN q + 1 ELSE QuietCap

Init ==
    /\ view = [n \in Node |-> {}]
    /\ quiet = [m \in Node |-> QuietCap]

(* m announces itself, and may take the occasion to clean up its own view. *)
Announce(m) ==
    /\ quiet' = [quiet EXCEPT ![m] = 0]
    /\ \E kept \in SUBSET view[m] : view' = [view EXCEPT ![m] = kept]

(* n learns of m from an announcement that is still recent. *)
Learn(n, m) ==
    /\ n # m
    /\ quiet[m] <= Horizon
    /\ view' = [view EXCEPT ![n] = @ \cup {m}]
    /\ UNCHANGED quiet

(* n stops and loses what it knew. *)
ForgetAll(n) ==
    /\ view' = [view EXCEPT ![n] = {}]
    /\ UNCHANGED quiet

TimePasses ==
    /\ \A n \in Node : \A m \in view[n] : quiet[m] < Horizon
    /\ quiet' = [m \in Node |-> Older(quiet[m])]
    /\ UNCHANGED view

Next ==
    \/ \E n \in Node : Announce(n) \/ ForgetAll(n)
    \/ \E n, m \in Node : Learn(n, m)
    \/ TimePasses

Spec == Init /\ [][Next]_vars
=============================================================================
