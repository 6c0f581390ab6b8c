---------------------------- MODULE BeaconNetwork ----------------------------
(***************************************************************************)
(* UDP presence of a cluster of C2 node daemons: BeaconService (beacon.py),*)
(* the membership of PeerTracker's registry (tracker.py) and the worker's  *)
(* fail-safe watchdog (node.py), over a network that may lose, duplicate,  *)
(* delay and reorder datagrams, with nodes that crash and restart.         *)
(*                                                                         *)
(* Time is counted in ticks and every clock is an age: last_seen becomes   *)
(* silence = now - last_seen, and so on.  A node's address is the node     *)
(* itself.  The link metrics of a registry entry are in LinkQuality.       *)
(***************************************************************************)
EXTENDS Integers, FiniteSets

CONSTANTS
    Node,                \* the daemons of the cluster
    NoAddr,              \* no address: BeaconService.master_ip unset
    Role,                \* Role[n]: "master" or "worker"
    ConfiguredMasterIp,  \* the --master-ip of n, or NoAddr
    BroadcastRoute,      \* <<s, d>>: the broadcasts of s can reach d
    UnicastRoute,        \* <<s, d>>: datagrams of s addressed to d can reach d
    Timeout,             \* failsafe_timeout_sec
    Interval,            \* beacon_interval_sec
    CheckInterval,       \* failsafe_check_interval_sec
    Slack,               \* how late the event loop may run a due task
    MaxDelay,            \* how long a datagram may stay in the network
    MissedCap            \* bound of the history counter missed

ASSUME BeaconAssumption ==
    /\ NoAddr \notin Node
    /\ Role \in [Node -> {"master", "worker"}]
    /\ ConfiguredMasterIp \in [Node -> Node \cup {NoAddr}]
    /\ BroadcastRoute \subseteq Node \X Node
    /\ UnicastRoute \subseteq Node \X Node
    /\ Timeout \in Nat
    /\ Interval \in Nat \ {0}
    /\ CheckInterval \in Nat \ {0}
    /\ Slack \in Nat
    /\ MaxDelay \in Nat
    /\ MissedCap \in Nat
    /\ MissedCap * (Interval + Slack) >= Timeout + CheckInterval + Interval + Slack + Slack

VARIABLES
    up,            \* up[n]: the daemon runs
    peers,         \* peers[n]: the node ids in n's registry
    silence,       \* silence[n][m]: ticks since last_seen of n's entry for m
    masterIp,      \* BeaconService.master_ip: configured, or learned
    sinceContact,  \* ticks since last_master_contact, up to ContactCap
    sinceLoop,     \* ticks since the beacon loop last ran
    sinceCheck,    \* ticks since the watchdog last woke
    alarm,         \* the watchdog's last check logged the lost-link warning
    net,           \* datagrams in flight
    quiet,         \* history: ticks since m last beaconed, up to QuietCap
    missed         \* history: beacons of m since n last heard one, up to MissedCap

local == <<up, peers, silence, masterIp, sinceContact, sinceLoop, sinceCheck, alarm>>
vars  == <<up, peers, silence, masterIp, sinceContact, sinceLoop, sinceCheck, alarm,
           net, quiet, missed>>

LoopMax  == Interval + Slack
CheckMax == CheckInterval + Slack

(* The longest a node that stopped beaconing can stay in a registry. *)
Horizon == Timeout + LoopMax + MaxDelay

(* Bounds of the counters that would grow forever; past them nothing changes. *)
QuietCap   == Horizon + 1
ContactCap == Timeout + CheckMax + 1

UpTo(cap, k) == IF k < cap THEN k ELSE cap

Datagram == [src : Node, dst : Node, age : 0..MaxDelay]
-----------------------------------------------------------------------------
(* C2NodeDaemon.__init__: a worker starts as if it had just heard a master. *)
ContactAtBoot(n) == IF Role[n] = "worker" THEN 0 ELSE ContactCap

Init ==
    /\ up = [n \in Node |-> FALSE]
    /\ peers = [n \in Node |-> {}]
    /\ silence = [n \in Node |-> [m \in Node |-> 0]]
    /\ masterIp = ConfiguredMasterIp
    /\ sinceContact = [n \in Node |-> ContactAtBoot(n)]
    /\ sinceLoop = [n \in Node |-> 0]
    /\ sinceCheck = [n \in Node |-> 0]
    /\ alarm = [n \in Node |-> FALSE]
    /\ net = {}
    /\ quiet = [n \in Node |-> QuietCap]
    /\ missed = [n \in Node |-> [m \in Node |-> 0]]

(* A process starts: the beacon loop is due at once, the watchdog sleeps    *)
(* first.  Nothing survives from an earlier run.                            *)
Start(n) ==
    /\ ~up[n]
    /\ up' = [up EXCEPT ![n] = TRUE]
    /\ sinceLoop' = [sinceLoop EXCEPT ![n] = Interval]
    /\ missed' = [missed EXCEPT ![n] =
                     [m \in Node |-> IF up[m] \/ m = n THEN 0 ELSE MissedCap]]
    /\ UNCHANGED <<peers, silence, masterIp, sinceContact, sinceCheck, alarm, net, quiet>>

(* A process dies or is stopped, and its memory with it.  What others miss  *)
(* of it from now on is no longer the network's doing.                      *)
Crash(n) ==
    /\ up[n]
    /\ up' = [up EXCEPT ![n] = FALSE]
    /\ peers' = [peers EXCEPT ![n] = {}]
    /\ silence' = [silence EXCEPT ![n] = [m \in Node |-> 0]]
    /\ masterIp' = [masterIp EXCEPT ![n] = ConfiguredMasterIp[n]]
    /\ sinceContact' = [sinceContact EXCEPT ![n] = ContactAtBoot(n)]
    /\ sinceLoop' = [sinceLoop EXCEPT ![n] = 0]
    /\ sinceCheck' = [sinceCheck EXCEPT ![n] = 0]
    /\ alarm' = [alarm EXCEPT ![n] = FALSE]
    /\ missed' = [k \in Node |-> [m \in Node |->
                     IF k = n THEN 0
                     ELSE IF m = n /\ up[k] THEN MissedCap ELSE missed[k][m]]]
    /\ UNCHANGED <<net, quiet>>
-----------------------------------------------------------------------------
(* One iteration of the beacon loop: it has no await between the sends and  *)
(* the pruning.                                                             *)

(* Faulty variants of the definitions below: each breaks a property. *)
MasterOnly(n) == {masterIp[n]} \ {NoAddr}
StaleAtTimeout(n, m) == silence[n][m] >= Timeout
StaleOneCycleLate(n, m) == silence[n][m] > Timeout + Interval
AcceptsOwn(n, s) == TRUE
NoContact(n, s) == sinceContact[n]
LinkLostAtTimeout(n) == sinceContact[n] >= Timeout
LinkLostOneCheckLate(n) == sinceContact[n] > Timeout + CheckInterval

(* Steps 2 and 3: the master first, then every other registered peer. *)
UnicastTargets(n) == (peers[n] \cup {masterIp[n]}) \ {NoAddr}

Reached(n) ==
    {d \in Node : \/ <<n, d>> \in BroadcastRoute
                  \/ d \in UnicastTargets(n) /\ <<n, d>> \in UnicastRoute}

(* prune_stale_peers: strictly longer than the timeout. *)
Stale(n, m) == silence[n][m] > Timeout

Fresh(n) == {m \in peers[n] : ~Stale(n, m)}

BeaconLoop(n) ==
    /\ up[n]
    /\ sinceLoop[n] >= Interval
    /\ net' = net \cup {[src |-> n, dst |-> d, age |-> 0] : d \in Reached(n)}
    /\ peers' = [peers EXCEPT ![n] = Fresh(n)]
    /\ silence' = [silence EXCEPT ![n] =
                     [m \in Node |-> IF m \in Fresh(n) THEN silence[n][m] ELSE 0]]
    /\ sinceLoop' = [sinceLoop EXCEPT ![n] = 0]
    /\ quiet' = [quiet EXCEPT ![n] = 0]
    /\ missed' = [k \in Node |-> [m \in Node |->
                     IF m = n /\ k # n /\ up[k]
                     THEN UpTo(MissedCap, missed[k][m] + 1) ELSE missed[k][m]]]
    /\ UNCHANGED <<up, masterIp, sinceContact, sinceCheck, alarm>>

(* handle_incoming_beacon returns early on the node's own id. *)
Accepts(n, s) == s # n

Contact(n, s) == IF Role[s] = "master" THEN 0 ELSE sinceContact[n]

(* The first master heard becomes the unicast target, and stays it. *)
LearnMasterIp(n, s) ==
    IF Role[s] = "master" /\ masterIp[n] = NoAddr THEN s ELSE masterIp[n]

(* A datagram is delivered.  It stays in flight: the network may duplicate. *)
Receive(b) ==
    LET n == b.dst
        s == b.src
    IN  /\ up[n]
        /\ Accepts(n, s)
        /\ sinceContact' = [sinceContact EXCEPT ![n] = Contact(n, s)]
        /\ masterIp' = [masterIp EXCEPT ![n] = LearnMasterIp(n, s)]
        /\ peers' = [peers EXCEPT ![n] = @ \cup {s}]
        /\ silence' = [silence EXCEPT ![n][s] = 0]
        /\ missed' = [missed EXCEPT ![n][s] = IF up[s] THEN 0 ELSE MissedCap]
        /\ UNCHANGED <<up, sinceLoop, sinceCheck, alarm, net, quiet>>

ReceiveFrom(s, d) == \E b \in net : b.src = s /\ b.dst = d /\ Receive(b)
-----------------------------------------------------------------------------
(* The watchdog tests the daemon's own master_ip, the configured one. *)
Armed(n) == Role[n] = "worker" /\ ConfiguredMasterIp[n] # NoAddr

LinkLost(n) == sinceContact[n] > Timeout

Watchdog(n) ==
    /\ up[n]
    /\ sinceCheck[n] >= CheckInterval
    /\ sinceCheck' = [sinceCheck EXCEPT ![n] = 0]
    /\ alarm' = [alarm EXCEPT ![n] = Armed(n) /\ LinkLost(n)]
    /\ UNCHANGED <<up, peers, silence, masterIp, sinceContact, sinceLoop, net, quiet, missed>>
-----------------------------------------------------------------------------
(* Time passes unless a task of a running node is as late as it can be. *)
Tick ==
    /\ \A n \in Node : up[n] => sinceLoop[n] < LoopMax /\ sinceCheck[n] < CheckMax
    /\ silence' = [n \in Node |-> [m \in Node |->
                     IF m \in peers[n] THEN silence[n][m] + 1 ELSE 0]]
    /\ sinceContact' = [n \in Node |->
                     IF up[n] THEN UpTo(ContactCap, sinceContact[n] + 1) ELSE sinceContact[n]]
    /\ sinceLoop' = [n \in Node |-> IF up[n] THEN sinceLoop[n] + 1 ELSE 0]
    /\ sinceCheck' = [n \in Node |-> IF up[n] THEN sinceCheck[n] + 1 ELSE 0]
    /\ net' = {[b EXCEPT !.age = @ + 1] : b \in {c \in net : c.age < MaxDelay}}
    /\ quiet' = [m \in Node |-> UpTo(QuietCap, quiet[m] + 1)]
    /\ UNCHANGED <<up, peers, masterIp, alarm, missed>>

Next ==
    \/ \E n \in Node : Start(n) \/ Crash(n) \/ BeaconLoop(n) \/ Watchdog(n)
    \/ \E b \in net : Receive(b)
    \/ Tick

Spec == Init /\ [][Next]_vars

(* The event loop runs what is due, time goes on, and a link that is offered *)
(* beacons for ever delivers some of them.  Nodes need not start.            *)
Fairness ==
    /\ SF_vars(Tick)
    /\ \A n \in Node : WF_vars(BeaconLoop(n)) /\ WF_vars(Watchdog(n))
    /\ \A s, d \in Node : SF_vars(ReceiveFrom(s, d))

FairSpec == Spec /\ Fairness
-----------------------------------------------------------------------------
TypeOK ==
    /\ up \in [Node -> BOOLEAN]
    /\ peers \in [Node -> SUBSET Node]
    /\ silence \in [Node -> [Node -> 0..(Timeout + LoopMax)]]
    /\ masterIp \in [Node -> Node \cup {NoAddr}]
    /\ sinceContact \in [Node -> 0..ContactCap]
    /\ sinceLoop \in [Node -> 0..LoopMax]
    /\ sinceCheck \in [Node -> 0..CheckMax]
    /\ alarm \in [Node -> BOOLEAN]
    /\ net \subseteq Datagram
    /\ quiet \in [Node -> 0..QuietCap]
    /\ missed \in [Node -> [Node -> 0..MissedCap]]

(* A daemon never lists itself among its peers, although its own broadcasts  *)
(* come back to it: the command proxy would answer for a remote node, and    *)
(* the daemon would unicast to itself for ever.                              *)
NoSelfPeer == \A n \in Node : n \notin peers[n]

(* Completeness of the pruning: whoever is in a registry has beaconed within *)
(* Timeout + LoopMax + MaxDelay, however its datagrams were delayed or       *)
(* duplicated and however often either side restarted.  4 s alone would not  *)
(* be a bound: pruning runs once per beacon cycle, on the time of arrival.   *)
DeadPeersForgotten ==
    \A n \in Node : \A m \in peers[n] : quiet[m] <= Horizon

(* A silence is accounted for by beacons that were sent and not heard: the   *)
(* receiver's clocks never run ahead of the network's losses.                *)
Cover(g, l) == g * LoopMax + l
Accounted(n, m) == Cover(missed[n][m], sinceLoop[m])

SilenceAccountedFor ==
    \A n, m \in Node : up[n] /\ up[m] /\ n # m =>
        /\ m \in peers[n] => silence[n][m] <= Accounted(n, m)
        /\ Role[n] = "worker" /\ Role[m] = "master" => sinceContact[n] <= Accounted(n, m)

(* Accuracy of the pruning: a running peer is dropped by a running daemon    *)
(* only after at least Timeout / LoopMax of its beacons in a row, sent after *)
(* the last one heard, did not arrive (4 with the shipped settings).         *)
PruneStep ==
    \A n \in Node : \A m \in peers[n] \ peers'[n] :
        up[n] /\ up'[n] /\ up[m] => (missed[n][m] + 1) * LoopMax > Timeout

PruningNeedsLosses == [][PruneStep]_vars

(* Detection: a worker started with --master-ip that has heard no master for *)
(* the timeout and one check period has its warning logged.                  *)
LostLinkReported ==
    \A n \in Node :
        up[n] /\ Armed(n) /\ sinceContact[n] > Timeout + CheckMax => alarm[n]

(* No false alarm: the warning that the last check logged is explained by a  *)
(* silence longer than the timeout, unless a master was heard since.         *)
AlarmIsJustified ==
    \A n \in Node : alarm[n] =>
        sinceContact[n] > Timeout + sinceCheck[n] \/ sinceContact[n] <= sinceCheck[n]

(* The inductive invariant behind the safety properties.  A stopped node     *)
(* holds nothing; an entry can only be overdue by the time since the last    *)
(* pruning; a datagram is no older than its sender's last beacon, so an      *)
(* entry is no staler than its silence and the longest delay; the alarm is a *)
(* function of the contact at the last check; and what is missed of a        *)
(* stopped node counts as excused.                                           *)
StoppedIsReset ==
    \A n \in Node : ~up[n] =>
        /\ peers[n] = {}
        /\ sinceContact[n] = ContactAtBoot(n)
        /\ sinceLoop[n] = 0
        /\ sinceCheck[n] = 0
        /\ ~alarm[n]

OverdueSincePruning ==
    \A n \in Node : \A m \in peers[n] : silence[n][m] <= Timeout + sinceLoop[n]

DatagramsAreRecent == \A b \in net : quiet[b.src] <= b.age

EntriesAreRecent ==
    \A n \in Node : \A m \in peers[n] : quiet[m] <= silence[n][m] + MaxDelay

AlarmIsTimely ==
    \A n \in Node :
        up[n] /\ Armed(n) /\ sinceContact[n] > Timeout + sinceCheck[n] => alarm[n]

AbsenceIsExcused ==
    \A n, m \in Node : up[n] /\ ~up[m] /\ n # m => missed[n][m] = MissedCap

IInv ==
    /\ TypeOK
    /\ NoSelfPeer
    /\ StoppedIsReset
    /\ OverdueSincePruning
    /\ DatagramsAreRecent
    /\ EntriesAreRecent
    /\ AlarmIsTimely
    /\ AlarmIsJustified
    /\ AbsenceIsExcused
    /\ SilenceAccountedFor

(* What the registries show is what the abstract presence service allows:    *)
(* nobody enters a view late, and nobody outstays the horizon in one.        *)
Abstract == INSTANCE Presence WITH view <- peers

ImplementsPresence == Abstract!Spec

(* docs/architecture.md 2.2: unicasting back to registered peers makes links *)
(* bidirectional although broadcasts pass one way only.                      *)
OneWay(a, b) == /\ a # b
                /\ <<a, b>> \in BroadcastRoute
                /\ <<b, a>> \in UnicastRoute

BidirectionalDiscovery ==
    \A a, b \in Node : OneWay(a, b) =>
        (<>[](up[a] /\ up[b]) => []<>(a \in peers[b]) /\ []<>(b \in peers[a]))

(* docs/architecture.md 4: a worker that knows a master, configured or       *)
(* learned, and has lost it for longer than the timeout and the longest wait *)
(* for the next check, has the warning logged.                               *)
EveryLostLinkReported ==
    \A n \in Node :
        /\ up[n]
        /\ Role[n] = "worker"
        /\ masterIp[n] # NoAddr
        /\ sinceContact[n] > Timeout + CheckMax
        => alarm[n]
=============================================================================
