--------------------------- MODULE AddressingProofs ---------------------------
(***************************************************************************)
(* Proofs about Addressing for any addresses, launches and strays.         *)
(***************************************************************************)
EXTENDS Addressing, TLAPS

(* The operators on strings and objects. *)
LEMMA Stripping ==
    ASSUME NEW t \in Strings
    PROVE  /\ Strip(t) \in Strings /\ Strip(t).pad = 0 /\ Strip(t).length = t.length
           /\ t.pad = 0 => Strip(t) = t
BY DEF Strip, Strings

LEMMA Present ==
    ASSUME NEW dict, NEW field, Get(dict, field, Null).type # "null"
    PROVE  Get(dict, field, Null) = dict[field]
BY DEF Get, Null

LEMMA Fields ==
    ASSUME NEW v
    PROVE  /\ IsPort(v) => v.type # "null" /\ v.num \in Port
           /\ IsStr(v) => v.type # "null"
           /\ IsId(v) => v.type # "null" /\ ~Blank(v.text) /\ Length(v.text) <= 128
BY DEF IsPort, IsStr, IsId, IsFilled

(* What parse_beacon_datagram accepts has a name and ports to speak of.      *)
LEMMA ParsedAreSound ==
    ASSUME NEW raw \in Datagram, Parsed[raw] # None
    PROVE  /\ Parsed[raw].node_id \in Name /\ Parsed[raw].node_id \in Strings
           /\ Parsed[raw].role \in {"master", "worker"}
           /\ Parsed[raw].http_port \in Port /\ Parsed[raw].tcp_port \in Port
           /\ Parsed[raw].node_id.pad = 0 /\ Parsed[raw].node_id.length \in 1..128
<1>1. IsBeacon(raw) /\ Parsed[raw] = BeaconMessage(raw)
  BY DEF Parsed
<1> DEFINE id == raw.dict["node_id"]
           role == raw.dict["role"]
<1>2. Parsed[raw].node_id \in Name
  BY DEF Name
<1>3. /\ IsId(Get(raw.dict, "node_id", Null))
      /\ IsStr(Get(raw.dict, "role", Null))
      /\ Lower(Get(raw.dict, "role", Null).text) \in {Word("master"), Word("worker")}
      /\ IsPort(Get(raw.dict, "http_port", Null)) /\ IsPort(Get(raw.dict, "tcp_port", Null))
  BY <1>1 DEF IsBeacon
<1>4. /\ Get(raw.dict, "node_id", Null) = id /\ Get(raw.dict, "role", Null) = role
      /\ Get(raw.dict, "http_port", Null) = raw.dict["http_port"]
      /\ Get(raw.dict, "tcp_port", Null) = raw.dict["tcp_port"]
  <2>1. /\ Get(raw.dict, "node_id", Null).type # "null"
        /\ Get(raw.dict, "role", Null).type # "null"
        /\ Get(raw.dict, "http_port", Null).type # "null"
        /\ Get(raw.dict, "tcp_port", Null).type # "null"
    BY <1>3, Fields
  <2> QED
    BY <2>1, Present
<1>5. id.text \in Strings /\ role.text \in Strings
  BY <1>1, AddressingAssumption
<1>6. Strip(id.text) \in Strings /\ Strip(id.text).pad = 0 /\ Strip(id.text).length \in 1..128
  <2>1. id.text.length # 0 /\ id.text.length + id.text.pad <= 128
    BY <1>3, <1>4 DEF IsId, IsFilled, Blank, Length
  <2>2. id.text.length \in Nat /\ id.text.pad \in Nat
    BY <1>5 DEF Strings
  <2> QED
    BY <1>5, <2>1, <2>2, Stripping
<1>7. role.text.word \in {"master", "worker"}
  <2>1. Lower(role.text).word = role.text.word
    BY <1>5 DEF Lower, Strings
  <2>2. Lower(role.text).word \in {"master", "worker"}
    BY <1>3, <1>4 DEF Word, Text
  <2> QED
    BY <2>1, <2>2
<1>8. raw.dict["http_port"].num \in Port /\ raw.dict["tcp_port"].num \in Port
  BY <1>3, <1>4, Fields
<1> QED
  BY <1>1, <1>2, <1>6, <1>7, <1>8 DEF BeaconMessage

LEMMA InitInv == Init => IInv
<1> SUFFICES ASSUME Init PROVE IInv
  OBVIOUS
<1>1. PICK d \in Daemon : at = [a \in Place |-> IF a = Here THEN d ELSE None]
  BY DEF Init
<1>2. own = d /\ own # None
  BY <1>1, AddressingAssumption DEF own, Place
<1>3. TypeOK
  BY <1>1, <1>2, AddressingAssumption DEF Init, TypeOK
<1> QED
  BY <1>3 DEF Init, IInv, EntriesLeadToLastHeard, OwnNameIsNotListed, Listed

(* handle_incoming_beacon, whoever sent what.                                *)
LEMMA ReceiveInv ==
    ASSUME IInv, NEW from \in Place, NEW raw \in Datagram, Receive(from, raw),
           at' = at, late' \subseteq late
    PROVE  IInv'
<1> DEFINE beacon == Parsed[raw]
           n == beacon.node_id
<1> USE DEF IInv
<1>1. CASE beacon = None \/ IsOwn(beacon)
  BY <1>1 DEF Receive, TypeOK, EntriesLeadToLastHeard, OwnNameIsNotListed, Listed, own
<1>2. CASE beacon # None /\ ~IsOwn(beacon)
  <2> DEFINE e == Updated(peers[n], beacon, from)
             c == [ip |-> from, http_port |-> beacon.http_port, tcp_port |-> beacon.tcp_port]
  <2>1. /\ master_ip' = IF beacon.role = "master" /\ master_ip = None THEN from ELSE master_ip
        /\ peers' = [peers EXCEPT ![n] = e]
        /\ heard' = [heard EXCEPT ![n] = c]
    BY <1>2 DEF Receive, LearnMasterIp
  <2>2. /\ n \in Name /\ beacon.role \in {"master", "worker"}
        /\ beacon.http_port \in Port /\ beacon.tcp_port \in Port
        /\ n.pad = 0 /\ n.length \in 1..128
    BY <1>2, ParsedAreSound
  <2>3. c \in Contact
    BY <2>2 DEF Contact
  <2>4. e \in Entry /\ e.ip = c.ip /\ e.http_port = c.http_port /\ e.tcp_port = c.tcp_port
    <3>1. peers[n] \in Entry \cup {None}
      BY <2>2 DEF TypeOK
    <3>2. (IF peers[n] = None THEN beacon.role ELSE peers[n].role) \in {"master", "worker"}
      BY <2>2, <3>1 DEF Entry
    <3> QED
      BY <2>2, <3>2 DEF Updated, Entry
  <2>5. e # None /\ c # None
    BY <2>3, <2>4, AddressingAssumption
  <2>6. /\ peers'[n] = e /\ heard'[n] = c
        /\ \A m \in Name \ {n} : peers'[m] = peers[m] /\ heard'[m] = heard[m]
    BY <2>1, <2>2 DEF TypeOK
  <2>7. TypeOK'
    <3>1. peers' \in [Name -> Entry \cup {None}] /\ heard' \in [Name -> Contact \cup {None}]
      BY <2>1, <2>2, <2>3, <2>4 DEF TypeOK
    <3>2. \A m \in Name : peers'[m] # None => m.pad = 0 /\ m.length \in 1..128
      BY <2>2, <2>6 DEF TypeOK
    <3>3. master_ip' \in Place \cup {None}
      BY <2>1 DEF TypeOK
    <3> QED
      BY <3>1, <3>2, <3>3 DEF TypeOK, own
  <2>8. EntriesLeadToLastHeard'
    <3>1. c = [ip |-> e.ip, http_port |-> e.http_port, tcp_port |-> e.tcp_port]
      BY <2>4
    <3> QED
      BY <2>5, <2>6, <3>1 DEF EntriesLeadToLastHeard, Listed
  <2>9. OwnNameIsNotListed'
    BY <1>2, <2>6 DEF OwnNameIsNotListed, Listed, IsOwn, own
  <2> QED
    BY <2>7, <2>8, <2>9
<1> QED
  BY <1>1, <1>2

LEMMA NextInv == IInv /\ [Next]_vars => IInv'
<1> SUFFICES ASSUME IInv, [Next]_vars PROVE IInv'
  OBVIOUS
<1> USE DEF IInv
<1>1. ASSUME NEW a \in Addr, Stop(a) \/ \E d \in Daemon : Launch(a, d) PROVE IInv'
  <2>1. a # Here /\ a \in Place
    BY <1>1, AddressingAssumption DEF Place
  <2>2. at' \in [Place -> Daemon \cup {None}] /\ own' = own
    BY <1>1, <2>1 DEF Stop, Launch, TypeOK, own, Place
  <2>3. UNCHANGED <<late, peers, master_ip, heard>>
    BY <1>1 DEF Stop, Launch
  <2> QED
    BY <2>2, <2>3 DEF TypeOK, EntriesLeadToLastHeard, OwnNameIsNotListed, Listed
<1>2. ASSUME NEW d \in Daemon, Restart(d) PROVE IInv'
  <2>1. at' \in [Place -> Daemon \cup {None}] /\ own' # None
    BY <1>2, AddressingAssumption DEF Restart, TypeOK, own, Place
  <2>2. /\ peers' = [n \in Name |-> None] /\ heard' = [n \in Name |-> None]
        /\ late' = late /\ master_ip' \in Place \cup {None}
    BY <1>2, AddressingAssumption DEF Restart
  <2> QED
    BY <2>1, <2>2 DEF TypeOK, EntriesLeadToLastHeard, OwnNameIsNotListed, Listed
<1>3. ASSUME NEW a \in Place, Hear(a) PROVE IInv'
  <2>1. at[a] \in Daemon
    BY <1>3 DEF Hear, TypeOK
  <2>2. Beacon[at[a]] \in Datagram
    BY <2>1 DEF Datagram
  <2> QED
    BY <1>3, <2>2, ReceiveInv DEF Hear
<1>4. ASSUME NEW a \in Place, NEW raw \in Datagram, Delay(a, raw) PROVE IInv'
  <2>1. late' \subseteq Place \X Datagram
    BY <1>4 DEF Delay, TypeOK
  <2> QED
    BY <1>4, <2>1 DEF Delay, TypeOK, EntriesLeadToLastHeard, OwnNameIsNotListed, Listed, own
<1>5. ASSUME NEW packet \in late, Arrive(packet) PROVE IInv'
  <2>1. packet[1] \in Place /\ packet[2] \in Datagram
    BY DEF TypeOK
  <2>2. at' = at /\ late' \subseteq late /\ Receive(packet[1], packet[2])
    BY <1>5 DEF Arrive
  <2> QED
    BY <2>1, <2>2, ReceiveInv
<1>6. ASSUME NEW packet \in late, Lose(packet) PROVE IInv'
  BY <1>6 DEF Lose, TypeOK, EntriesLeadToLastHeard, OwnNameIsNotListed, Listed, own
<1>7. ASSUME NEW n \in Name, Prune(n) PROVE IInv'
  BY <1>7 DEF Prune, TypeOK, EntriesLeadToLastHeard, OwnNameIsNotListed, Listed, own
<1>8. CASE UNCHANGED vars
  BY <1>8 DEF vars, TypeOK, EntriesLeadToLastHeard, OwnNameIsNotListed, Listed, own
<1> QED
  BY <1>1, <1>2, <1>3, <1>4, <1>5, <1>6, <1>7, <1>8 DEF Next

(* What a daemon's registry holds, whoever is launched and whatever strays:  *)
(* valid entries, each as it was heard last, and none for itself.            *)
THEOREM Invariance == Spec => []IInv
BY InitInv, NextInv, PTL DEF Spec

(* The contract between the ids of beacons and the targets of commands.      *)
LEMMA ListedNamesAreTargets ==
    ASSUME NEW n \in Strings, n.pad = 0, n.length # 0, NEW d
    PROVE  Takes(d, CommandTo(n)) <=> n = Word("all") \/ d.node_id = n
<1> DEFINE raw == CommandTo(n)
<1>1. /\ raw.size \in 1..MAX_COMMAND_PAYLOAD_SIZE /\ raw.form = "object"
      /\ DOMAIN raw.dict = {"command", "target_id"}
      /\ raw.dict["command"] = Str(Word("ping")) /\ raw.dict["target_id"] = Str(n)
  BY DEF CommandTo, Raw, MAX_COMMAND_PAYLOAD_SIZE
<1>2. IsCommand(raw, MAX_COMMAND_PAYLOAD_SIZE)
  BY <1>1 DEF IsCommand, ParsesTo, Get, IsFilled, IsStr, Str, Word, Text, Blank, Dict
<1>3. TargetOf(raw) = Strip(n)
  BY <1>1 DEF TargetOf, Get, Str, Blank
<1> QED
  BY <1>2, <1>3, Stripping DEF Takes

(* Wherever the proxy posts by an old entry, the command is taken by the one *)
(* that was meant or by nobody, save for the name of everybody.              *)
THEOREM CommandsFindWhoWasMeant == Spec => []CommandsFindTheNamed
<1>1. ASSUME NEW n \in Name PROVE n \in Strings /\ n.pad = 0 /\ n.length # 0
  <2>1. PICK raw \in Datagram : Parsed[raw] # None /\ n = Parsed[raw].node_id
    BY DEF Name
  <2> QED
    BY <2>1, ParsedAreSound
<1>2. CommandsFindTheNamed
  BY <1>1, ListedNamesAreTargets DEF CommandsFindTheNamed
<1> QED
  BY <1>2, PTL

(* What a daemon announces of itself. *)
LEMMA BeaconsAreTheirDaemons ==
    ASSUME NEW d \in Daemon, Parsed[Beacon[d]] # None
    PROVE  /\ Parsed[Beacon[d]].node_id = Strip(d.node_id)
           /\ Parsed[Beacon[d]].role = d.role
<1> DEFINE raw == Beacon[d]
<1>1. raw \in Datagram
  BY DEF Datagram
<1>2. Parsed[raw] = BeaconMessage(raw)
  BY <1>1 DEF Parsed
<1>3. raw.dict["node_id"].text = d.node_id /\ raw.dict["role"].text.word = d.role
  BY DEF Beacon, Raw, Str, Word, Text
<1> QED
  BY <1>2, <1>3 DEF BeaconMessage

(* An entry takes its role from the beacon that creates it. *)
LEMMA ReceiveKeepsRole ==
    ASSUME IInv, NEW from, NEW raw \in Datagram, Receive(from, raw), NEW n \in Name, NEW role,
           Parsed[raw] # None /\ Parsed[raw].node_id = n => Parsed[raw].role = role,
           InRole(n, role)
    PROVE  InRole(n, role)'
<1> DEFINE beacon == Parsed[raw]
<1>1. CASE beacon = None \/ IsOwn(beacon)
  BY <1>1 DEF Receive, InRole, Listed
<1>2. CASE beacon # None /\ ~IsOwn(beacon)
  <2>1. beacon.node_id \in Name
    BY <1>2, ParsedAreSound
  <2>2. peers' = [peers EXCEPT ![beacon.node_id] =
                     Updated(peers[beacon.node_id], beacon, from)]
    BY <1>2 DEF Receive
  <2>3. CASE beacon.node_id # n
    BY <2>1, <2>2, <2>3 DEF InRole, Listed, IInv, TypeOK
  <2>4. CASE beacon.node_id = n
    <3>1. peers'[n] = Updated(peers[n], beacon, from)
      BY <2>1, <2>2, <2>4 DEF IInv, TypeOK
    <3>2. peers'[n].role = IF peers[n] = None THEN beacon.role ELSE peers[n].role
      BY <3>1 DEF Updated
    <3> QED
      BY <1>2, <2>4, <3>2 DEF InRole, Listed
  <2> QED
    BY <2>3, <2>4
<1> QED
  BY <1>1, <1>2

LEMMA NextKeepsRole ==
    ASSUME IInv, [Next]_vars, NEW n \in Name, NEW role, Announced(n, role), InRole(n, role)
    PROVE  InRole(n, role)'
<1>1. CASE UNCHANGED peers
  BY <1>1 DEF InRole, Listed
<1>2. ASSUME NEW d \in Daemon, Restart(d) PROVE InRole(n, role)'
  BY <1>2 DEF Restart, InRole, Listed
<1>3. ASSUME NEW a \in Place, Hear(a) PROVE InRole(n, role)'
  <2>1. at[a] \in Daemon /\ Receive(a, Beacon[at[a]])
    BY <1>3 DEF Hear, IInv, TypeOK
  <2>2. Beacon[at[a]] \in Datagram
    BY <2>1 DEF Datagram
  <2>3. ASSUME Parsed[Beacon[at[a]]] # None, Parsed[Beacon[at[a]]].node_id = n
        PROVE  Parsed[Beacon[at[a]]].role = role
    <3>1. Named(a, n)
      BY <1>3, <2>1, <2>3, BeaconsAreTheirDaemons DEF Named, Hear
    <3> QED
      BY <2>1, <2>3, <3>1, BeaconsAreTheirDaemons DEF Announced
  <2> QED
    BY <2>1, <2>2, <2>3, ReceiveKeepsRole
<1>4. ASSUME NEW packet \in late, Arrive(packet) PROVE InRole(n, role)'
  <2>1. packet[2] \in Datagram /\ Receive(packet[1], packet[2])
    BY <1>4 DEF Arrive, IInv, TypeOK
  <2>2. Parsed[packet[2]] # None /\ Parsed[packet[2]].node_id = n => Parsed[packet[2]].role = role
    BY DEF Announced
  <2> QED
    BY <2>1, <2>2, ReceiveKeepsRole
<1>5. ASSUME NEW m \in Name, Prune(m) PROVE InRole(n, role)'
  BY <1>5 DEF Prune, InRole, Listed, IInv, TypeOK
<1> QED
  BY <1>1, <1>2, <1>3, <1>4, <1>5
  DEF Next, Stop, Launch, Delay, Lose, vars

(* The role of an entry is wrong until it is pruned, and no longer: once it  *)
(* has been pruned, it is listed in the role that is announced under its     *)
(* name for as long as nothing else is announced.                            *)
THEOREM RoleIsRightOncePruned ==
    ASSUME NEW n \in Name, NEW role
    PROVE  Spec => [](~Listed(n) /\ []Announced(n, role) => []InRole(n, role))
<1>1. ~Listed(n) => InRole(n, role)
  BY DEF InRole
<1>2. IInv /\ [Next]_vars /\ Announced(n, role) /\ InRole(n, role) => InRole(n, role)'
  BY NextKeepsRole
<1> QED
  BY <1>1, <1>2, Invariance, PTL DEF Spec
=============================================================================
