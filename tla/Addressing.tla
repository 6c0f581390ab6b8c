------------------------------ MODULE Addressing ------------------------------
(***************************************************************************)
(* How a daemon learns who is where.  Daemons are launched by an operator  *)
(* (main in node.py, config.py), move, and come back as something else;    *)
(* what they announce (beacon.py) passes or fails the validators           *)
(* (protocol.py), and becomes entries in the registry of one daemon        *)
(* (tracker.py), which sends its beacons and its commands by them.         *)
(*                                                                         *)
(* Some datagrams are late: they arrive after later ones, even when the    *)
(* daemon that sent them is gone.  Times are in BeaconNetwork; here a peer *)
(* may be silent for too long at any time.                                 *)
(***************************************************************************)
EXTENDS Protocol, FiniteSets

CONSTANTS
    Here,       \* the address of the daemon that listens
    Addr,       \* the other addresses
    None,       \* an option not given, no daemon, no entry
    Launches,   \* the ways an operator may launch a daemon
    Strays,     \* what others may send to the beacon port
    MaxLate     \* bound on the late datagrams at a time

Place == Addr \cup {Here}

(* _get_int_env: None stands for a variable unset, blank or no integer.      *)
IntEnv(value, default) == IF value = None THEN default ELSE value

(* "node-" and the first six characters of the host name. *)
DefaultId(host) == Text(host, 11, 0, FALSE)

(* main: the options, the environment, and the defaults of both. *)
Launched(l) ==
    LET role == IF l.role = None THEN "worker" ELSE l.role
    IN  [node_id   |-> IF l.id = None THEN DefaultId(l.host) ELSE l.id,
         role      |-> role,
         http_port |-> IF l.port_http # None THEN l.port_http
                       ELSE IF role = "master" THEN IntEnv(l.C2_HTTP_MASTER_PORT, 9000)
                       ELSE IntEnv(l.C2_HTTP_WORKER_PORT, 8080),
         tcp_port  |-> IF l.port_tcp # None THEN l.port_tcp ELSE IntEnv(l.C2_TCP_PORT, 9877),
         master_ip |-> l.master_ip]

(* A port that cannot be bound keeps the daemon from starting; 0 binds any.  *)
Starts(d) == {d.http_port, d.tcp_port} \subseteq 0..65535

Daemon == {d \in {Launched(l) : l \in Launches} : Starts(d)}

(* The beacon of a daemon. *)
Beacon == [d \in Daemon |->
    Raw(200 + Length(d.node_id), "object",
        [node_id   |-> Str(d.node_id),
         role      |-> Str(Word(d.role)),
         seq       |-> Int_(1),
         timestamp |-> Float(1),
         start_time |-> Float(1),
         http_port |-> Int_(d.http_port),
         tcp_port  |-> Int_(d.tcp_port),
         cpu_load  |-> Float(0)])]

Datagram == {Beacon[d] : d \in Daemon} \cup Strays

(* What parse_beacon_datagram makes of each, None if it is rejected.         *)
Parsed == [raw \in Datagram |-> IF IsBeacon(raw) THEN BeaconMessage(raw) ELSE None]

(* The names by which a daemon may be known. *)
Name == {Parsed[raw].node_id : raw \in {r \in Datagram : Parsed[r] # None}}

Contact == [ip : Place, http_port : Port, tcp_port : Port]

Entry == [role : {"master", "worker"}, ip : Place, http_port : Port, tcp_port : Port]

ASSUME AddressingAssumption ==
    /\ Here \notin Addr
    /\ None \notin Place \cup Daemon
    /\ None \notin Contact /\ None \notin Entry
    /\ \A d \in Daemon : d.master_ip \in Place \cup {None}
    /\ \A raw \in Datagram :
         IsBeacon(raw) =>
             /\ BeaconMessage(raw) # None
             /\ {raw.dict["node_id"].text, raw.dict["role"].text} \subseteq Strings

VARIABLES
    at,         \* the daemon that runs at each address, or None
    late,       \* the datagrams that are late, with the address they are from
    peers,      \* the registry of the daemon Here: its entry for each name, or None
    master_ip,  \* where that daemon has its master, or None
    heard       \* history: what was heard last under each name, and where from

vars == <<at, late, peers, master_ip, heard>>

own == at[Here]

Init ==
    /\ \E d \in Daemon : at = [a \in Place |-> IF a = Here THEN d ELSE None]
    /\ late = {}
    /\ peers = [n \in Name |-> None]
    /\ master_ip = own.master_ip
    /\ heard = [n \in Name |-> None]
-----------------------------------------------------------------------------
(* Daemons start and stop, or move: they stop here and start there. *)
Launch(a, d) ==
    /\ at[a] = None
    /\ at' = [at EXCEPT ![a] = d]
    /\ UNCHANGED <<late, peers, master_ip, heard>>

Stop(a) ==
    /\ at[a] # None
    /\ at' = [at EXCEPT ![a] = None]
    /\ UNCHANGED <<late, peers, master_ip, heard>>

(* The daemon Here restarts, in another way perhaps, and knows nobody.       *)
Restart(d) ==
    /\ at' = [at EXCEPT ![Here] = d]
    /\ peers' = [n \in Name |-> None]
    /\ master_ip' = d.master_ip
    /\ heard' = [n \in Name |-> None]
    /\ UNCHANGED late
-----------------------------------------------------------------------------
(* Faulty variants of the definitions below: each breaks a property. *)
KeepsAddress(entry, beacon, from) ==
    IF entry # None THEN entry
    ELSE [role |-> beacon.role, ip |-> from, http_port |-> beacon.http_port,
          tcp_port |-> beacon.tcp_port]

(* The daemon knows itself by its id as it was given. *)
IsOwn(beacon) == beacon.node_id = own.node_id

(* update_peer; the role is that of the beacon that created the entry.       *)
Updated(entry, beacon, from) ==
    [role      |-> IF entry = None THEN beacon.role ELSE entry.role,
     ip        |-> from,
     http_port |-> beacon.http_port,
     tcp_port  |-> beacon.tcp_port]

LearnMasterIp(beacon, from) ==
    master_ip' = IF beacon.role = "master" /\ master_ip = None THEN from ELSE master_ip

(* datagram_received and handle_incoming_beacon. *)
Receive(from, raw) ==
    LET beacon == Parsed[raw]
        n == beacon.node_id
    IN  IF beacon = None \/ IsOwn(beacon) THEN UNCHANGED <<peers, master_ip, heard>>
        ELSE /\ LearnMasterIp(beacon, from)
             /\ peers' = [peers EXCEPT ![n] = Updated(@, beacon, from)]
             /\ heard' = [heard EXCEPT ![n] =
                    [ip |-> from, http_port |-> beacon.http_port, tcp_port |-> beacon.tcp_port]]

(* A beacon arrives at once, those of the daemon Here included. *)
Hear(a) ==
    /\ at[a] # None
    /\ Receive(a, Beacon[at[a]])
    /\ UNCHANGED <<at, late>>

(* External: a beacon, or a stray datagram, is under way. *)
Delay(a, raw) ==
    /\ (a # Here /\ raw \in Strays) \/ (at[a] # None /\ raw = Beacon[at[a]])
    /\ <<a, raw>> \notin late /\ Cardinality(late) < MaxLate
    /\ late' = late \cup {<<a, raw>>}
    /\ UNCHANGED <<at, peers, master_ip, heard>>

(* It arrives, and a copy of it may follow; or it is lost. *)
Arrive(packet) ==
    /\ Receive(packet[1], packet[2])
    /\ late' \in {late, late \ {packet}}
    /\ UNCHANGED at

Lose(packet) ==
    /\ late' = late \ {packet}
    /\ UNCHANGED <<at, peers, master_ip, heard>>

(* prune_stale_peers, in beacon_sender_loop. *)
Prune(n) ==
    /\ peers[n] # None
    /\ peers' = [peers EXCEPT ![n] = None]
    /\ heard' = [heard EXCEPT ![n] = None]
    /\ UNCHANGED <<at, late, master_ip>>

(* Where the beacons of the daemon Here go besides the broadcast. *)
UnicastTargets ==
    ({master_ip} \cup {peers[n].ip : n \in {m \in Name : peers[m] # None}}) \ {None}

Next ==
    \/ \E a \in Addr : Stop(a) \/ \E d \in Daemon : Launch(a, d)
    \/ \E d \in Daemon : Restart(d)
    \/ \E a \in Place : Hear(a)
    \/ \E a \in Place : \E raw \in Datagram : Delay(a, raw)
    \/ \E packet \in late : Arrive(packet) \/ Lose(packet)
    \/ \E n \in Name : Prune(n)

Spec == Init /\ [][Next]_vars

Named(a, n) == at[a] # None /\ Strip(at[a].node_id) = n

(* Who runs is heard now and then; a name that nobody bears is silent for    *)
(* too long in the end.                                                      *)
Fairness ==
    /\ \A a \in Place : WF_vars(Hear(a))
    /\ \A n \in Name : WF_vars((\A a \in Place : ~Named(a, n)) /\ Prune(n))

FairSpec == Spec /\ Fairness
-----------------------------------------------------------------------------
(* Whatever is launched and whatever arrives, the registry holds names that  *)
(* can be told apart, with ports that can be connected to.                   *)
TypeOK ==
    /\ at \in [Place -> Daemon \cup {None}] /\ own # None
    /\ late \subseteq Place \X Datagram
    /\ peers \in [Name -> Entry \cup {None}]
    /\ heard \in [Name -> Contact \cup {None}]
    /\ master_ip \in Place \cup {None}
    /\ \A n \in Name : peers[n] # None => n.pad = 0 /\ n.length \in 1..128

Listed(n) == peers[n] # None

(* An entry leads where its name was heard last, address and ports of the    *)
(* same beacon, however daemons move and late beacons interleave.            *)
EntriesLeadToLastHeard ==
    \A n \in Name :
        /\ Listed(n) <=> heard[n] # None
        /\ Listed(n) =>
             heard[n] = [ip |-> peers[n].ip, http_port |-> peers[n].http_port,
                         tcp_port |-> peers[n].tcp_port]

(* A daemon never takes another for itself, nor itself for another, if its   *)
(* id has no padding.                                                        *)
OwnNameIsNotListed == \A n \in Name : n = own.node_id => ~Listed(n)

IInv == TypeOK /\ EntriesLeadToLastHeard /\ OwnNameIsNotListed

(* What the dashboard sends to a listed name, and whether a daemon takes it. *)
CommandTo(n) ==
    Raw(100, "object", [command |-> Str(Word("ping")), target_id |-> Str(n)])

Takes(d, raw) ==
    IsCommand(raw, MAX_COMMAND_PAYLOAD_SIZE) /\ TargetOf(raw) \in {Word("all"), d.node_id}

(* The proxy posts by entries that may be out of date.  Whoever listens      *)
(* there by then takes the command only if it is the one named, and it does  *)
(* unless its id is padded; the name "all" is everybody's.                   *)
CommandsFindTheNamed ==
    \A n \in {m \in Name : Listed(m)} :
        LET d == at[peers[n].ip]
        IN  d # None =>
              (Takes(d, CommandTo(n)) <=> n = Word("all") \/ d.node_id = n)

(* Once daemons no longer start and stop and nothing late is left, every     *)
(* entry comes to lead to a daemon of its name that runs; every daemon whose *)
(* beacons are valid, and named other than this one, is listed and unicast   *)
(* to where it is now, again and again; and an entry that goes on being      *)
(* pruned comes to be in the role of a daemon of its name.                   *)
Leads(n) ==
    \E a \in Place : Named(a, n) /\ heard[n] = [ip |-> a, http_port |-> at[a].http_port,
                                                tcp_port |-> at[a].tcp_port]

ListedAt(a) ==
    \E n \in Name : Named(a, n) /\ Listed(n) /\ peers[n].ip = a /\ a \in UnicastTargets

Calm == <>[][at' = at]_vars /\ <>[](late = {})

RegistriesSettle ==
    Calm =>
        /\ <>[](\A n \in Name : Listed(n) => Leads(n))
        /\ \A a \in Addr :
             []<>( at[a] # None /\ Parsed[Beacon[at[a]]] # None
                     => Strip(at[a].node_id) = own.node_id \/ ListedAt(a))
        /\ \A n \in Name :
             []<>(~Listed(n)) =>
                 <>[](Listed(n) => \E a \in Place : Named(a, n) /\ at[a].role = peers[n].role)

(* Whoever bears the name, and whatever is late under it, has that role. *)
Announced(n, role) ==
    /\ \A a \in Place : Named(a, n) => at[a].role = role
    /\ \A packet \in late :
         LET beacon == Parsed[packet[2]]
         IN  beacon # None /\ beacon.node_id = n => beacon.role = role

InRole(n, role) == Listed(n) => peers[n].role = role
=============================================================================
