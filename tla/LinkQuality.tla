----------------------------- MODULE LinkQuality -----------------------------
(***************************************************************************)
(* The link metrics a PeerTracker keeps for one peer (tracker.py), fed by  *)
(* the beacons of that peer: latency and jitter over a rolling window, and *)
(* packet loss inferred from gaps in the sequence numbers.  The sender may *)
(* reboot and count from one again; a beacon may be lost, or arrive twice, *)
(* as it is both broadcast and unicast; the registry may prune the peer.   *)
(*                                                                         *)
(* Registry entries do not influence each other, so one peer stands for    *)
(* all.  Means and percentages are kept as <<numerator, denominator>>:     *)
(* rounding for display is left out.                                       *)
(***************************************************************************)
EXTENDS Integers, Sequences, FiniteSets, Functions

CONSTANTS
    Window,        \* link_history_window
    Delays,        \* one-way delays the clocks may show, skew included
    Floor,         \* the least latency sample (0.1 ms in the code)
    Reorder,       \* whether the network may deliver out of order
    NoEntry,       \* the peer is not registered
    MaxBeacons,    \* bound on the beacons sent
    MaxBoots,      \* bound on the boots of the sender
    MaxInFlight    \* bound on the datagrams in flight

ASSUME LinkAssumption ==
    /\ Window \in Nat \ {0}
    /\ Delays \subseteq Int
    /\ Floor \in Nat \ {0}
    /\ Reorder \in BOOLEAN
    /\ {MaxBeacons, MaxInFlight} \subseteq Nat
    /\ MaxBoots \in Nat \ {0}

VARIABLES
    seq,        \* seq_num of the sender, from 1 after every boot
    boot,       \* history: the boot the sender is in
    sent,       \* history: beacons sent in all boots
    channel,    \* datagrams in flight, oldest first
    entry,      \* the registry's NodeMetrics for the peer, or NoEntry
    heard,      \* history: the last datagram the tracker ingested
    received    \* history: the beacons ingested, as numbered by sent

vars == <<seq, boot, sent, channel, entry, heard, received>>

Datagram == [seq : 1..MaxBeacons, boot : 1..MaxBoots, nr : 1..MaxBeacons]

NotHeard == [seq |-> 0, boot |-> 0, nr |-> 0]

Gap == [expected : 1..MaxBeacons, lost : 0..MaxBeacons]
-----------------------------------------------------------------------------
(* Arithmetic of update_peer. *)

AtLeast(low, x) == IF x < low THEN low ELSE x

PushUnbounded(history, x) == Append(history, x)

(* deque(maxlen=Window).append *)
Push(history, x) ==
    IF Len(history) < Window THEN Append(history, x) ELSE Append(Tail(history), x)

Sample(delay) == AtLeast(Floor, delay)

Mean(history) == <<SumFunction(history), AtLeast(1, Len(history))>>

AbsDiff(a, b) == IF a < b THEN b - a ELSE a - b

Steps(history) ==
    [i \in 1..(Len(history) - 1) |-> AbsDiff(history[i], history[i + 1])]

Expectations(history) == [i \in DOMAIN history |-> history[i].expected]
Losses(history) == [i \in DOMAIN history |-> history[i].lost]

Expected(history) == SumFunction(Expectations(history))
Lost(history) == SumFunction(Losses(history))

LossOf(history) == <<Lost(history), AtLeast(1, Expected(history))>>

(* Faulty variants of the definitions below: each breaks a property. *)
LostOfArrivals(expected) == expected
ResetOnRepeat(new, last) == new <= last
JitterLosesFirst(history, old) ==
    IF Len(history) > 1 THEN Mean(Steps(Tail(history))) ELSE old
NoReset(new, last) == FALSE

LostOf(expected) == AtLeast(0, expected - 1)

GapOf(new, last) == [expected |-> new - last, lost |-> LostOf(new - last)]

(* The branches on the sequence number: a gap, a reset, or a repetition. *)
IsReset(new, last) == new < last
IsGap(new, last) == new > last

Jitter(history, old) == IF Len(history) > 1 THEN Mean(Steps(history)) ELSE old
-----------------------------------------------------------------------------
(* A NodeMetrics as update_peer first creates it. *)
Fields == {"last_seq", "packets_received", "seq_history", "latency_history", "latency",
           "jitter", "loss"}

NewEntry(first) ==
    [last_seq |-> first, packets_received |-> 0, seq_history |-> <<>>,
     latency_history |-> <<>>, latency |-> <<0, 1>>, jitter |-> <<0, 1>>, loss |-> <<0, 1>>]

SeqHistory(e, new) ==
    IF e.last_seq <= 0 THEN e.seq_history
    ELSE IF IsGap(new, e.last_seq) THEN Push(e.seq_history, GapOf(new, e.last_seq))
    ELSE IF IsReset(new, e.last_seq) THEN <<>>
    ELSE e.seq_history

Loss(e, new) ==
    IF e.last_seq <= 0 THEN e.loss
    ELSE IF IsGap(new, e.last_seq) THEN LossOf(Push(e.seq_history, GapOf(new, e.last_seq)))
    ELSE IF IsReset(new, e.last_seq) THEN <<0, 1>>
    ELSE e.loss

(* update_peer on the entry it found or created. *)
Updated(e, new, sample) ==
    LET latencies == Push(e.latency_history, sample)
    IN  [e EXCEPT !.last_seq = new,
                  !.packets_received = @ + 1,
                  !.latency_history = latencies,
                  !.latency = Mean(latencies),
                  !.jitter = Jitter(latencies, @),
                  !.seq_history = SeqHistory(e, new),
                  !.loss = Loss(e, new)]
-----------------------------------------------------------------------------
Init ==
    /\ seq = 0
    /\ boot = 1
    /\ sent = 0
    /\ channel = <<>>
    /\ entry = NoEntry
    /\ heard = NotHeard
    /\ received = {}

(* The beacon loop sends: no copy, one or both reach the receiver's network. *)
Beacon(copies) ==
    /\ sent < MaxBeacons
    /\ Len(channel) + copies <= MaxInFlight
    /\ seq' = seq + 1
    /\ sent' = sent + 1
    /\ channel' = channel \o [i \in 1..copies |-> [seq |-> seq + 1, boot |-> boot, nr |-> sent + 1]]
    /\ UNCHANGED <<boot, entry, heard, received>>

Reboot ==
    /\ boot < MaxBoots
    /\ boot' = boot + 1
    /\ seq' = 0
    /\ UNCHANGED <<sent, channel, entry, heard, received>>

(* update_peer on the i-th datagram in flight. *)
Receive(i, delay) ==
    /\ i = 1 \/ Reorder
    /\ LET b == channel[i]
           e == IF entry = NoEntry THEN NewEntry(b.seq) ELSE entry
       IN  /\ entry' = Updated(e, b.seq, Sample(delay))
           /\ heard' = b
           /\ received' = received \cup {b.nr}
    /\ channel' = [j \in 1..(Len(channel) - 1) |-> IF j < i THEN channel[j] ELSE channel[j + 1]]
    /\ UNCHANGED <<seq, boot, sent>>

(* prune_stale_peers, after a silence of any length. *)
Prune ==
    /\ entry # NoEntry
    /\ entry' = NoEntry
    /\ UNCHANGED <<seq, boot, sent, channel, heard, received>>

Next ==
    \/ \E copies \in 0..2 : Beacon(copies)
    \/ Reboot
    \/ \E i \in DOMAIN channel, delay \in Delays : Receive(i, delay)
    \/ Prune

Spec == Init /\ [][Next]_vars
-----------------------------------------------------------------------------
Registered == entry # NoEntry

EntryOK ==
    /\ DOMAIN entry = Fields
    /\ heard \in Datagram
    /\ entry.last_seq = heard.seq
    /\ entry.seq_history \in Seq(Gap) /\ Len(entry.seq_history) <= Window
    /\ entry.latency_history \in Seq(Nat) /\ Len(entry.latency_history) \in 1..Window

TypeOK ==
    /\ seq \in 0..sent
    /\ boot \in 1..MaxBoots
    /\ sent \in 0..MaxBeacons
    /\ channel \in Seq(Datagram)
    /\ heard \in Datagram \cup {NotHeard}
    /\ received \subseteq 1..MaxBeacons
    /\ Registered => EntryOK

(* Every figure is that of its window, and every gap lost all that it         *)
(* expected but one.                                                          *)
FiguresAreCurrent ==
    Registered =>
        /\ entry.latency = Mean(entry.latency_history)
        /\ entry.jitter = Jitter(entry.latency_history, <<0, 1>>)
        /\ entry.loss = LossOf(entry.seq_history)
        /\ \A i \in DOMAIN entry.seq_history :
             entry.seq_history[i].lost = entry.seq_history[i].expected - 1

(* Of a network that does not reorder: what was heard, what is in flight and  *)
(* what the sender will send come in the order of its boots and numbers, with *)
(* as many beacons between two as their numbers tell, or more across a boot.  *)
NotAfter(b, c) ==
    \/ b.boot < c.boot /\ c.nr - b.nr >= c.seq
    \/ b.boot = c.boot /\ b.seq <= c.seq /\ c.nr - b.nr = c.seq - b.seq

InOrder ==
    LET sender == [boot |-> boot, seq |-> seq, nr |-> sent]
    IN  /\ NotAfter(heard, sender)
        /\ \A i \in DOMAIN channel :
             /\ NotAfter(heard, channel[i]) /\ NotAfter(channel[i], sender)
             /\ \A j \in i..Len(channel) : NotAfter(channel[i], channel[j])

(* The gaps from the k-th on speak of as many beacons as they expected, up to *)
(* the last one heard; and how many of those arrived.                         *)
Since(history, k) == SumFunctionOnSet(Expectations(history), k..Len(history))
Arrived(beacons, last, count) == Cardinality(((last - count + 1)..last) \cap beacons)

(* One beacon of each gap arrived, so long as the sender's first boot lasts;  *)
(* an unnoticed reboot leaves fewer.  The gaps lie behind the last number.    *)
GapsAccountedFor ==
    /\ received \subseteq 1..heard.nr
    /\ Registered =>
         LET gaps == entry.seq_history
         IN  /\ heard.nr \in received
             /\ \A k \in 1..(Len(gaps) + 1) :
                  LET arrived == Arrived(received, heard.nr, Since(gaps, k))
                      gapsLeft == Len(gaps) - k + 1
                  IN  /\ Since(gaps, k) < entry.last_seq
                      /\ arrived <= gapsLeft
                      /\ heard.boot = 1 => arrived = gapsLeft

IInv ==
    /\ TypeOK
    /\ FiguresAreCurrent
    /\ ~Reorder => InOrder /\ GapsAccountedFor

(* The published figures are those of the windows they are shown with: the   *)
(* shortcuts of update_peer (jitter kept while there is one sample, loss     *)
(* untouched by a repeated beacon, reset to zero) never leave one stale.     *)
FiguresMatchWindows ==
    Registered =>
        LET late == entry.latency_history
            steps == {<<late[i], late[i + 1]>> : i \in 1..(Len(late) - 1)}
            low == CHOOSE x \in Range(late) : \A y \in Range(late) : x <= y
            high == CHOOSE x \in Range(late) : \A y \in Range(late) : y <= x
        IN  /\ entry.latency[1] >= low * entry.latency[2]
            /\ entry.latency[1] <= high * entry.latency[2]
            /\ (entry.jitter[1] = 0) <=> (\A s \in steps : s[1] = s[2])
            /\ entry.jitter[1] <= (high - low) * entry.jitter[2]
            /\ entry.loss[1] = Lost(entry.seq_history)
            /\ entry.loss[1] < entry.loss[2]

(* The beacons the loss window speaks of: as many as it expected, up to the  *)
(* last one heard; and those of them that never arrived.                     *)
Observed == (heard.nr - Expected(entry.seq_history) + 1)..heard.nr
Missing == Observed \ received

(* While the sender stays in its first boot, the loss shown is the loss that *)
(* happened, whatever was lost, repeated, pruned or pushed out of the window. *)
LossIsExact ==
    Registered /\ heard.boot = 1 => Lost(entry.seq_history) = Cardinality(Missing)

(* Across reboots, noticed or not, the tracker never reports a loss that did *)
(* not happen.                                                               *)
LossNeverOverestimated ==
    Registered => Lost(entry.seq_history) <= Cardinality(Missing)

(* docs/architecture.md 2.3 C: the history is flushed because the node was   *)
(* rebooted, and for no other reason.                                        *)
FlushStep ==
    /\ entry # NoEntry /\ entry' # NoEntry
    /\ entry.seq_history # <<>> /\ entry'.seq_history = <<>>
    => heard'.boot # heard.boot

FlushMeansReboot == [][FlushStep]_vars
=============================================================================
