------------------------- MODULE BeaconNetworkProofs -------------------------
(***************************************************************************)
(* Proofs about BeaconNetwork, for every cluster, routing and timing.  The *)
(* inductive invariant IInv is preserved action by action; the accounting  *)
(* of silence by missed beacons, which multiplies by LoopMax, is kept      *)
(* apart from the rest so that its leaves see no other arithmetic.         *)
(***************************************************************************)
EXTENDS BeaconNetwork, TLAPS

(* The invariant without the accounting of silence. *)
Timing ==
    /\ TypeOK
    /\ NoSelfPeer
    /\ StoppedIsReset
    /\ OverdueSincePruning
    /\ DatagramsAreRecent
    /\ EntriesAreRecent
    /\ AlarmIsTimely
    /\ AlarmIsJustified

Registry ==
    /\ NoSelfPeer
    /\ OverdueSincePruning
    /\ DatagramsAreRecent
    /\ EntriesAreRecent

-----------------------------------------------------------------------------
(* The initial states. *)
LEMMA InitTiming == Init => Timing
<1> SUFFICES ASSUME Init PROVE Timing
  OBVIOUS
<1> USE BeaconAssumption DEF Init, ContactAtBoot, LoopMax, CheckMax, ContactCap, QuietCap, Horizon
<1>1. TypeOK
  BY DEF TypeOK
<1>2. StoppedIsReset /\ NoSelfPeer /\ OverdueSincePruning /\ DatagramsAreRecent /\ EntriesAreRecent
  BY DEF StoppedIsReset, NoSelfPeer, OverdueSincePruning, DatagramsAreRecent, EntriesAreRecent
<1>3. AlarmIsTimely /\ AlarmIsJustified
  BY DEF AlarmIsTimely, AlarmIsJustified
<1> QED
  BY <1>1, <1>2, <1>3 DEF Timing

-----------------------------------------------------------------------------
(* The timing invariant, one lemma per action. *)
LEMMA StartTiming == ASSUME NEW n \in Node, Timing, Start(n) PROVE Timing'
<1> USE BeaconAssumption DEF Timing, Start, LoopMax, CheckMax, ContactCap, QuietCap, Horizon
<1>1. TypeOK'
  BY DEF TypeOK
<1>2. (StoppedIsReset /\ Registry)'
  BY DEF TypeOK, NoSelfPeer, StoppedIsReset, OverdueSincePruning, DatagramsAreRecent,
         EntriesAreRecent, ContactAtBoot, Registry
<1>3. AlarmIsTimely'
  BY DEF TypeOK, StoppedIsReset, AlarmIsTimely, Armed, ContactAtBoot
<1>4. AlarmIsJustified'
  BY DEF AlarmIsJustified
<1> QED
  BY <1>1, <1>2, <1>3, <1>4 DEF Registry

LEMMA CrashTiming == ASSUME NEW n \in Node, Timing, Crash(n) PROVE Timing'
<1> USE BeaconAssumption DEF Timing, Crash, LoopMax, CheckMax, ContactCap, QuietCap, Horizon
<1>1. TypeOK'
  <2>1. peers' \in [Node -> SUBSET Node] /\ silence' \in [Node -> [Node -> 0..(Timeout + LoopMax)]]
    BY DEF TypeOK
  <2>2. sinceContact' \in [Node -> 0..ContactCap] /\ masterIp' \in [Node -> Node \cup {NoAddr}]
    <3>1. ContactAtBoot(n) \in 0..ContactCap
      BY DEF ContactAtBoot
    <3>2. ConfiguredMasterIp[n] \in Node \cup {NoAddr}
      OBVIOUS
    <3>3. sinceContact' \in [Node -> 0..ContactCap]
      BY <3>1 DEF TypeOK
    <3>4. masterIp' \in [Node -> Node \cup {NoAddr}]
      BY <3>2 DEF TypeOK
    <3> QED
      BY <3>3, <3>4
  <2>3. missed' \in [Node -> [Node -> 0..MissedCap]]
    <3>1. \A k, m \in Node : missed[k][m] \in 0..MissedCap /\ 0 \in 0..MissedCap /\ MissedCap \in 0..MissedCap
      BY DEF TypeOK
    <3> QED
      BY <3>1
  <2>4. up' \in [Node -> BOOLEAN] /\ alarm' \in [Node -> BOOLEAN]
    BY DEF TypeOK
  <2>5. sinceLoop' \in [Node -> 0..LoopMax] /\ sinceCheck' \in [Node -> 0..CheckMax]
    BY DEF TypeOK
  <2> QED
    BY <2>1, <2>2, <2>3, <2>4, <2>5 DEF TypeOK
<1>2. (StoppedIsReset /\ Registry)'
  BY DEF TypeOK, NoSelfPeer, StoppedIsReset, OverdueSincePruning, DatagramsAreRecent,
         EntriesAreRecent, ContactAtBoot, Registry
<1>3. AlarmIsTimely'
  BY DEF TypeOK, AlarmIsTimely, Armed
<1>4. AlarmIsJustified'
  BY DEF TypeOK, AlarmIsJustified
<1> QED
  BY <1>1, <1>2, <1>3, <1>4 DEF Registry

LEMMA BeaconLoopTiming == ASSUME NEW n \in Node, Timing, BeaconLoop(n) PROVE Timing'
<1> USE BeaconAssumption DEF Timing, BeaconLoop, LoopMax, CheckMax, ContactCap, QuietCap, Horizon
<1>1. TypeOK'
  <2>1. net' \subseteq Datagram
    <3>1. \A d \in Reached(n) : [src |-> n, dst |-> d, age |-> 0] \in Datagram
      BY DEF Datagram, Reached
    <3> QED
      BY <3>1 DEF TypeOK
  <2>2. missed' \in [Node -> [Node -> 0..MissedCap]]
    BY DEF TypeOK, UpTo
  <2>3. peers' \in [Node -> SUBSET Node] /\ silence' \in [Node -> [Node -> 0..(Timeout + LoopMax)]]
    BY DEF TypeOK, Fresh
  <2> QED
    BY <2>1, <2>2, <2>3 DEF TypeOK
<1>2. StoppedIsReset' /\ NoSelfPeer'
  BY DEF TypeOK, StoppedIsReset, NoSelfPeer, ContactAtBoot, Fresh
<1>3. OverdueSincePruning'
  BY DEF TypeOK, OverdueSincePruning, Fresh, Stale
<1>4. DatagramsAreRecent'
  <2> SUFFICES ASSUME NEW b \in net' PROVE quiet'[b.src] <= b.age
    BY DEF DatagramsAreRecent
  <2>1. CASE b \in net
    BY <2>1 DEF TypeOK, DatagramsAreRecent, Datagram
  <2>2. CASE b \in {[src |-> n, dst |-> d, age |-> 0] : d \in Reached(n)}
    <3>1. b.src = n /\ b.age = 0
      BY <2>2
    <3> QED
      BY <3>1 DEF TypeOK
  <2> QED
    BY <2>1, <2>2
<1>5. EntriesAreRecent'
  BY DEF TypeOK, EntriesAreRecent, Fresh
<1>6. AlarmIsTimely' /\ AlarmIsJustified'
  BY DEF AlarmIsTimely, AlarmIsJustified, Armed
<1> QED
  BY <1>1, <1>2, <1>3, <1>4, <1>5, <1>6

LEMMA ReceiveTiming == ASSUME NEW b \in net, Timing, Receive(b) PROVE Timing'
<1> USE BeaconAssumption DEF Timing, Receive, LoopMax, CheckMax, ContactCap, QuietCap, Horizon
<1>0. /\ b.src \in Node /\ b.dst \in Node /\ b.age \in 0..MaxDelay
      /\ quiet[b.src] <= b.age
  BY DEF TypeOK, Datagram, DatagramsAreRecent
<1>1. TypeOK'
  BY <1>0 DEF TypeOK, Contact, LearnMasterIp
<1>2. StoppedIsReset' /\ NoSelfPeer'
  BY <1>0 DEF TypeOK, StoppedIsReset, NoSelfPeer, ContactAtBoot, Accepts
<1>3. OverdueSincePruning' /\ DatagramsAreRecent'
  BY <1>0 DEF TypeOK, OverdueSincePruning, DatagramsAreRecent
<1>4. EntriesAreRecent'
  BY <1>0 DEF TypeOK, EntriesAreRecent
<1>5. AlarmIsTimely' /\ AlarmIsJustified'
  BY <1>0 DEF TypeOK, AlarmIsTimely, AlarmIsJustified, Armed, Contact
<1> QED
  BY <1>1, <1>2, <1>3, <1>4, <1>5

LEMMA WatchdogTiming == ASSUME NEW n \in Node, Timing, Watchdog(n) PROVE Timing'
<1> USE BeaconAssumption DEF Timing, Watchdog, LoopMax, CheckMax, ContactCap, QuietCap, Horizon
<1>1. TypeOK'
  BY DEF TypeOK, Armed, LinkLost
<1>2. (StoppedIsReset /\ Registry)'
  BY DEF TypeOK, NoSelfPeer, StoppedIsReset, OverdueSincePruning, DatagramsAreRecent,
         EntriesAreRecent, ContactAtBoot, Registry
<1>3. AlarmIsTimely' /\ AlarmIsJustified'
  <2>1. alarm'[n] <=> Armed(n) /\ sinceContact[n] > Timeout
    BY DEF TypeOK, LinkLost
  <2>2. sinceCheck'[n] = 0 /\ \A k \in Node \ {n} : alarm'[k] = alarm[k] /\ sinceCheck'[k] = sinceCheck[k]
    BY DEF TypeOK
  <2> QED
    BY <2>1, <2>2 DEF TypeOK, AlarmIsTimely, AlarmIsJustified, Armed
<1> QED
  BY <1>1, <1>2, <1>3 DEF Registry

LEMMA TickTiming == ASSUME Timing, Tick PROVE Timing'
<1> USE BeaconAssumption DEF Timing, Tick
<1>1. \A n \in Node : up[n] => sinceLoop[n] + 1 \in 0..LoopMax /\ sinceCheck[n] + 1 \in 0..CheckMax
  BY DEF TypeOK, LoopMax, CheckMax
<1>2. \A n \in Node : \A m \in peers[n] :
        silence[n][m] + 1 \in 0..(Timeout + LoopMax) /\ silence[n][m] + 1 <= Timeout + sinceLoop[n] + 1
  <2> SUFFICES ASSUME NEW n \in Node, NEW m \in peers[n]
               PROVE  /\ silence[n][m] + 1 \in 0..(Timeout + LoopMax)
                      /\ silence[n][m] + 1 <= Timeout + sinceLoop[n] + 1
    OBVIOUS
  <2>1. up[n] /\ m \in Node
    BY DEF TypeOK, StoppedIsReset
  <2>2. silence[n][m] <= Timeout + sinceLoop[n]
    BY DEF OverdueSincePruning
  <2> QED
    BY <1>1, <2>1, <2>2 DEF TypeOK, LoopMax
<1>3. TypeOK'
  <2>1. silence' \in [Node -> [Node -> 0..(Timeout + LoopMax)]]
    BY <1>2 DEF TypeOK, LoopMax
  <2>2. sinceContact' \in [Node -> 0..ContactCap]
    BY DEF TypeOK, UpTo, ContactCap, CheckMax
  <2>3. sinceLoop' \in [Node -> 0..LoopMax] /\ sinceCheck' \in [Node -> 0..CheckMax]
    BY <1>1 DEF TypeOK, LoopMax, CheckMax
  <2>4. net' \subseteq Datagram
    <3>1. ASSUME NEW c \in net, c.age < MaxDelay
          PROVE  [c EXCEPT !.age = @ + 1] \in Datagram
      <4>1. c \in [src : Node, dst : Node, age : 0..MaxDelay]
        BY DEF TypeOK, Datagram
      <4>2. c.age + 1 \in 0..MaxDelay
        BY <3>1, <4>1
      <4> QED
        BY <4>1, <4>2 DEF Datagram
    <3> QED
      BY <3>1
  <2>5. quiet' \in [Node -> 0..QuietCap]
    BY DEF TypeOK, UpTo, QuietCap, Horizon, LoopMax
  <2> QED
    BY <2>1, <2>2, <2>3, <2>4, <2>5 DEF TypeOK
<1>4. StoppedIsReset' /\ NoSelfPeer'
  BY DEF TypeOK, StoppedIsReset, NoSelfPeer, ContactAtBoot
<1>5. OverdueSincePruning'
  BY <1>2 DEF TypeOK, OverdueSincePruning, StoppedIsReset
<1>6. DatagramsAreRecent'
  <2> SUFFICES ASSUME NEW b \in net' PROVE quiet'[b.src] <= b.age
    BY DEF DatagramsAreRecent
  <2>1. PICK c \in net : b = [c EXCEPT !.age = @ + 1]
    OBVIOUS
  <2>2. c \in Datagram /\ b.src = c.src /\ b.age = c.age + 1 /\ quiet[c.src] <= c.age
    BY <2>1 DEF TypeOK, DatagramsAreRecent, Datagram
  <2> QED
    BY <2>2 DEF TypeOK, Datagram, UpTo, QuietCap, Horizon, LoopMax
<1>7. EntriesAreRecent'
  BY DEF TypeOK, EntriesAreRecent, UpTo, QuietCap, Horizon, LoopMax
<1>8. AlarmIsTimely'
  BY DEF TypeOK, AlarmIsTimely, Armed, UpTo, ContactCap, CheckMax
<1>9. AlarmIsJustified'
  <2> SUFFICES ASSUME NEW n \in Node, alarm[n]
               PROVE  \/ sinceContact'[n] > Timeout + sinceCheck'[n]
                      \/ sinceContact'[n] <= sinceCheck'[n]
    BY DEF AlarmIsJustified
  <2>1. up[n] /\ sinceCheck'[n] = sinceCheck[n] + 1
    BY DEF TypeOK, StoppedIsReset
  <2>2. sinceCheck[n] + 1 <= CheckMax
    BY <1>1, <2>1 DEF TypeOK, CheckMax
  <2>3. sinceContact'[n] = UpTo(ContactCap, sinceContact[n] + 1)
    BY <2>1 DEF TypeOK
  <2>4. sinceContact[n] > Timeout + sinceCheck[n] \/ sinceContact[n] <= sinceCheck[n]
    BY DEF AlarmIsJustified
  <2> QED
    BY <2>1, <2>2, <2>3, <2>4 DEF TypeOK, UpTo, ContactCap, CheckMax
<1> QED
  BY <1>3, <1>4, <1>5, <1>6, <1>7, <1>8, <1>9
-----------------------------------------------------------------------------
(* The accounting of silence.  Its only arithmetic: a whole cycle of LoopMax  *)
(* per missed beacon, and a cap that covers every clock it is compared with.  *)
LEMMA Cycles ==
    /\ LoopMax \in Nat /\ ContactCap \in Nat /\ MissedCap \in Nat
    /\ \A g \in Nat : g * LoopMax \in Nat /\ (g + 1) * LoopMax = g * LoopMax + LoopMax
    /\ MissedCap * LoopMax >= Timeout + LoopMax
    /\ MissedCap * LoopMax >= ContactCap
<1>1. LoopMax \in Nat /\ MissedCap \in Nat /\ ContactCap \in Nat
  BY BeaconAssumption DEF LoopMax, ContactCap, CheckMax
<1>2. \A g \in Nat : g * LoopMax \in Nat /\ (g + 1) * LoopMax = g * LoopMax + LoopMax
  BY <1>1
<1>3. MissedCap * LoopMax >= Timeout + CheckInterval + Interval + Slack + Slack
  BY BeaconAssumption DEF LoopMax
<1>4. MissedCap * LoopMax \in Nat
  BY <1>1, <1>2
<1> QED
  BY <1>1, <1>2, <1>3, <1>4, BeaconAssumption DEF LoopMax, ContactCap, CheckMax

LEMMA CoverFacts ==
    ASSUME NEW g \in 0..MissedCap, NEW l \in 0..LoopMax
    PROVE  /\ Cover(g, l) \in Nat
           /\ Cover(g, l + 1) = Cover(g, l) + 1
           /\ Cover(g + 1, 0) >= Cover(g, l)
           /\ g = MissedCap => \A s \in 0..(Timeout + LoopMax) : s <= Cover(g, l)
           /\ g = MissedCap => \A c \in 0..ContactCap : c <= Cover(g, l)
<1> DEFINE P == g * LoopMax
<1>1. g \in Nat /\ l \in Nat /\ l <= LoopMax /\ LoopMax \in Nat
  BY Cycles
<1>2. P \in Nat /\ (g + 1) * LoopMax = P + LoopMax
  BY <1>1, Cycles
<1>3. g = MissedCap => P >= Timeout + LoopMax /\ P >= ContactCap
  BY Cycles
<1>4. Cover(g, l) = P + l /\ Cover(g, l + 1) = P + (l + 1) /\ Cover(g + 1, 0) = P + LoopMax
  <2>1. Cover(g, l) = P + l /\ Cover(g, l + 1) = P + (l + 1)
    BY DEF Cover
  <2>2. Cover(g + 1, 0) = (g + 1) * LoopMax + 0
    BY DEF Cover
  <2> QED
    BY <1>1, <1>2, <2>1, <2>2
<1> HIDE DEF P
<1>5. Cover(g, l) \in Nat /\ Cover(g, l + 1) = Cover(g, l) + 1 /\ Cover(g + 1, 0) >= Cover(g, l)
  BY <1>1, <1>2, <1>4
<1>6. g = MissedCap => (\A s \in 0..(Timeout + LoopMax) : s <= Cover(g, l))
                       /\ (\A c \in 0..ContactCap : c <= Cover(g, l))
  <2>1. ContactCap \in Nat /\ Timeout \in Nat
    BY Cycles, BeaconAssumption
  <2>2. Cover(g, l) >= P
    BY <1>1, <1>2, <1>4
  <2> QED
    BY <1>1, <1>2, <1>3, <1>5, <2>1, <2>2
<1> QED
  BY <1>5, <1>6

Accounting == AbsenceIsExcused /\ SilenceAccountedFor

(* The same, for one receiver and one sender. *)
Excused(n, m) == up[n] /\ ~up[m] => missed[n][m] = MissedCap

Covered(n, m) ==
    up[n] /\ up[m] =>
        /\ m \in peers[n] => silence[n][m] <= Accounted(n, m)
        /\ Role[n] = "worker" /\ Role[m] = "master" => sinceContact[n] <= Accounted(n, m)

LEMMA InitAccounting == Init => Accounting
BY DEF Init, Accounting, AbsenceIsExcused, SilenceAccountedFor

(* One lemma per action. *)
LEMMA StartAccounting ==
    ASSUME NEW a \in Node, TypeOK, TypeOK', StoppedIsReset, Accounting, Start(a) PROVE Accounting'
<1> SUFFICES ASSUME NEW n \in Node, NEW m \in Node, n # m
             PROVE  Excused(n, m)' /\ Covered(n, m)'
  BY DEF Accounting, AbsenceIsExcused, SilenceAccountedFor, Excused, Covered
<1>0. /\ missed'[n][m] \in 0..MissedCap /\ sinceLoop'[m] \in 0..LoopMax
      /\ silence'[n][m] \in 0..(Timeout + LoopMax) /\ sinceContact'[n] \in 0..ContactCap
  BY DEF TypeOK
<1>1. CASE n = a
  <2>1. peers'[n] = {} /\ (Role[n] = "worker" => sinceContact'[n] = 0)
    BY <1>1 DEF Start, StoppedIsReset, ContactAtBoot
  <2>2. missed'[n][m] = IF up[m] THEN 0 ELSE MissedCap
    BY <1>1 DEF Start, TypeOK
  <2>3. up'[m] = up[m]
    BY <1>1 DEF Start, TypeOK
  <2>4. Accounted(n, m)' \in Nat
    BY <1>0, CoverFacts DEF Accounted
  <2> QED
    BY <2>1, <2>2, <2>3, <2>4 DEF Excused, Covered
<1>2. CASE m = a /\ up[n]
  <2>1. missed[n][m] = MissedCap
    BY <1>2 DEF Accounting, AbsenceIsExcused, Start
  <2>2. missed'[n][m] = MissedCap
    BY <1>2, <2>1 DEF Start, TypeOK
  <2>3. silence'[n][m] <= Accounted(n, m)' /\ sinceContact'[n] <= Accounted(n, m)'
    BY <1>0, <2>2, CoverFacts DEF Accounted
  <2> QED
    BY <2>2, <2>3 DEF Excused, Covered
<1>3. CASE n # a /\ ~(m = a /\ up[n])
  <2>1. up'[n] = up[n] /\ missed'[n][m] = missed[n][m]
    BY <1>3 DEF Start, TypeOK
  <2>2. up[n] => up'[m] = up[m] /\ sinceLoop'[m] = sinceLoop[m]
    BY <1>3 DEF Start, TypeOK
  <2> QED
    BY <2>1, <2>2 DEF Start, Accounting, AbsenceIsExcused, SilenceAccountedFor, Excused, Covered, Accounted
<1> QED
  BY <1>1, <1>2, <1>3

LEMMA CrashAccounting ==
    ASSUME NEW a \in Node, TypeOK, TypeOK', Accounting, Crash(a) PROVE Accounting'
<1> SUFFICES ASSUME NEW n \in Node, NEW m \in Node, n # m
             PROVE  Excused(n, m)' /\ Covered(n, m)'
  BY DEF Accounting, AbsenceIsExcused, SilenceAccountedFor, Excused, Covered
<1>1. CASE n = a
  <2>1. ~up'[n]
    BY <1>1 DEF Crash, TypeOK
  <2> QED
    BY <2>1 DEF Excused, Covered
<1>2. CASE n # a /\ m = a
  <2>1. ~up'[m] /\ up'[n] = up[n]
    BY <1>2 DEF Crash, TypeOK
  <2>2. up[n] => missed'[n][m] = MissedCap
    BY <1>2 DEF Crash, TypeOK
  <2> QED
    BY <2>1, <2>2 DEF Excused, Covered
<1>3. CASE n # a /\ m # a
  <2>1. /\ up'[n] = up[n] /\ up'[m] = up[m] /\ missed'[n][m] = missed[n][m]
        /\ sinceLoop'[m] = sinceLoop[m] /\ peers'[n] = peers[n]
        /\ silence'[n] = silence[n] /\ sinceContact'[n] = sinceContact[n]
    BY <1>3 DEF Crash, TypeOK
  <2> QED
    BY <2>1 DEF Accounting, AbsenceIsExcused, SilenceAccountedFor, Excused, Covered, Accounted
<1> QED
  BY <1>1, <1>2, <1>3

LEMMA BeaconLoopAccounting ==
    ASSUME NEW a \in Node, TypeOK, TypeOK', Accounting, BeaconLoop(a) PROVE Accounting'
<1> SUFFICES ASSUME NEW n \in Node, NEW m \in Node, n # m
             PROVE  Excused(n, m)' /\ Covered(n, m)'
  BY DEF Accounting, AbsenceIsExcused, SilenceAccountedFor, Excused, Covered
<1>0. /\ missed[n][m] \in 0..MissedCap /\ sinceLoop[m] \in 0..LoopMax
      /\ silence[n][m] \in 0..(Timeout + LoopMax) /\ sinceContact[n] \in 0..ContactCap
      /\ missed'[n][m] \in 0..MissedCap /\ sinceLoop'[m] \in 0..LoopMax
      /\ Accounted(n, m) \in Nat /\ Accounted(n, m)' \in Nat
  <2>1. /\ missed[n][m] \in 0..MissedCap /\ sinceLoop[m] \in 0..LoopMax
        /\ silence[n][m] \in 0..(Timeout + LoopMax) /\ sinceContact[n] \in 0..ContactCap
        /\ missed'[n][m] \in 0..MissedCap /\ sinceLoop'[m] \in 0..LoopMax
    BY DEF TypeOK
  <2> QED
    BY <2>1, CoverFacts DEF Accounted
<1>1. /\ up' = up /\ sinceContact' = sinceContact
      /\ m \in peers'[n] => m \in peers[n] /\ silence'[n][m] = silence[n][m]
  BY DEF BeaconLoop, TypeOK, Fresh
<1>2. CASE up[n] /\ m = a
  <2>1. up[m]
    BY <1>2 DEF BeaconLoop
  <2>2. sinceLoop'[m] = 0
    BY <1>2 DEF BeaconLoop, TypeOK
  <2>3. missed'[n][m] = UpTo(MissedCap, missed[n][m] + 1)
    BY <1>2 DEF BeaconLoop, TypeOK
  <2>4. CASE missed[n][m] + 1 < MissedCap
    <3>1. Accounted(n, m)' >= Accounted(n, m)
      BY <1>0, <2>2, <2>3, <2>4, CoverFacts DEF Accounted, UpTo
    <3> QED
      BY <1>0, <1>1, <2>1, <3>1 DEF Accounting, SilenceAccountedFor, Excused, Covered
  <2>5. CASE ~(missed[n][m] + 1 < MissedCap)
    <3>1. missed'[n][m] = MissedCap
      BY <2>3, <2>5 DEF UpTo
    <3>2. silence[n][m] <= Accounted(n, m)' /\ sinceContact[n] <= Accounted(n, m)'
      BY <1>0, <3>1, CoverFacts DEF Accounted
    <3> QED
      BY <1>1, <3>1, <3>2 DEF Excused, Covered
  <2> QED
    BY <2>4, <2>5
<1>3. CASE ~(up[n] /\ m = a)
  <2>1. missed'[n][m] = missed[n][m] /\ (up[n] => sinceLoop'[m] = sinceLoop[m])
    BY <1>3 DEF BeaconLoop, TypeOK
  <2> QED
    BY <1>1, <2>1 DEF Accounting, AbsenceIsExcused, SilenceAccountedFor, Excused, Covered, Accounted
<1> QED
  BY <1>2, <1>3

LEMMA ReceiveAccounting ==
    ASSUME NEW b \in net, TypeOK, TypeOK', Accounting, Receive(b) PROVE Accounting'
<1> SUFFICES ASSUME NEW n \in Node, NEW m \in Node, n # m
             PROVE  Excused(n, m)' /\ Covered(n, m)'
  BY DEF Accounting, AbsenceIsExcused, SilenceAccountedFor, Excused, Covered
<1>0. b.src \in Node /\ b.dst \in Node
  BY DEF TypeOK, Datagram
<1>1. up' = up /\ sinceLoop' = sinceLoop
  BY DEF Receive
<1>2. CASE n = b.dst /\ m = b.src
  <2>1. missed'[n][m] = IF up[m] THEN 0 ELSE MissedCap
    BY <1>0, <1>2 DEF Receive, TypeOK
  <2>2. silence'[n][m] = 0 /\ (Role[m] = "master" => sinceContact'[n] = 0)
    BY <1>0, <1>2 DEF Receive, TypeOK, Contact
  <2>3. Accounted(n, m)' \in Nat
    <3>1. missed'[n][m] \in 0..MissedCap /\ sinceLoop'[m] \in 0..LoopMax
      BY DEF TypeOK
    <3> QED
      BY <3>1, CoverFacts DEF Accounted
  <2> QED
    BY <1>1, <2>1, <2>2, <2>3 DEF Excused, Covered
<1>3. CASE ~(n = b.dst /\ m = b.src)
  <2>1. missed'[n][m] = missed[n][m] /\ silence'[n][m] = silence[n][m]
    BY <1>0, <1>3 DEF Receive, TypeOK
  <2>2. m \in peers'[n] => m \in peers[n]
    BY <1>0, <1>3 DEF Receive, TypeOK
  <2>3. sinceContact'[n] = sinceContact[n] \/ sinceContact'[n] = 0
    BY <1>0 DEF Receive, TypeOK, Contact
  <2>4. Accounted(n, m)' = Accounted(n, m) /\ Accounted(n, m) \in Nat
    <3>1. missed[n][m] \in 0..MissedCap /\ sinceLoop[m] \in 0..LoopMax
      BY DEF TypeOK
    <3> QED
      BY <1>1, <2>1, <3>1, CoverFacts DEF Accounted
  <2> QED
    BY <1>1, <2>1, <2>2, <2>3, <2>4
    DEF Accounting, AbsenceIsExcused, SilenceAccountedFor, Excused, Covered
<1> QED
  BY <1>2, <1>3

LEMMA TickAccounting ==
    ASSUME TypeOK, TypeOK', Accounting, Tick PROVE Accounting'
<1> SUFFICES ASSUME NEW n \in Node, NEW m \in Node, n # m
             PROVE  Excused(n, m)' /\ Covered(n, m)'
  BY DEF Accounting, AbsenceIsExcused, SilenceAccountedFor, Excused, Covered
<1>1. up' = up /\ missed' = missed /\ peers' = peers
  BY DEF Tick
<1>2. CASE up[n] /\ up[m]
  <2>1. /\ missed[n][m] \in 0..MissedCap /\ sinceLoop[m] \in 0..LoopMax
        /\ silence[n][m] \in Nat /\ sinceContact[n] \in Nat
    BY DEF TypeOK
  <2>2. sinceLoop'[m] = sinceLoop[m] + 1
    BY <1>2 DEF Tick, TypeOK
  <2>3. Accounted(n, m)' = Accounted(n, m) + 1 /\ Accounted(n, m) \in Nat
    BY <1>1, <2>1, <2>2, CoverFacts DEF Accounted
  <2>4. m \in peers[n] => silence'[n][m] = silence[n][m] + 1
    BY DEF Tick, TypeOK
  <2>5. sinceContact'[n] \in Nat /\ sinceContact'[n] <= sinceContact[n] + 1
    <3>1. sinceContact'[n] = UpTo(ContactCap, sinceContact[n] + 1)
      BY <1>2 DEF Tick, TypeOK
    <3> QED
      BY <2>1, <3>1, Cycles DEF UpTo
  <2> QED
    BY <1>1, <1>2, <2>1, <2>3, <2>4, <2>5 DEF Accounting, SilenceAccountedFor, Excused, Covered
<1>3. CASE ~(up[n] /\ up[m])
  BY <1>1, <1>3 DEF Accounting, AbsenceIsExcused, Excused, Covered
<1> QED
  BY <1>2, <1>3
-----------------------------------------------------------------------------
(* The whole invariant. *)
LEMMA IInvSplit == IInv <=> Timing /\ Accounting
BY DEF IInv, Timing, Accounting

LEMMA InitInv == Init => IInv
BY InitTiming, InitAccounting, IInvSplit

LEMMA NextInv == IInv /\ [Next]_vars => IInv'
<1> SUFFICES ASSUME IInv, [Next]_vars PROVE IInv'
  OBVIOUS
<1>1. Timing /\ Accounting /\ TypeOK /\ StoppedIsReset
  BY IInvSplit DEF Timing
<1>2. SUFFICES Timing' /\ Accounting'
  BY DEF IInv, Timing, Accounting
<1>3. SUFFICES ASSUME Timing' PROVE Accounting'
  <2>1. Timing'
    <3>1. CASE Next
      BY <1>1, <3>1, StartTiming, CrashTiming, BeaconLoopTiming, WatchdogTiming,
         ReceiveTiming, TickTiming DEF Next
    <3>2. CASE UNCHANGED vars
      BY <1>1, <3>2 DEF vars, Timing, TypeOK, NoSelfPeer, StoppedIsReset, OverdueSincePruning,
         DatagramsAreRecent, EntriesAreRecent, AlarmIsTimely, AlarmIsJustified, Armed
    <3> QED
      BY <3>1, <3>2
  <2> QED
    BY <2>1
<1>4. TypeOK'
  BY <1>3 DEF Timing
<1>5. ASSUME NEW n \in Node, Watchdog(n) PROVE Accounting'
  BY <1>1, <1>5 DEF Watchdog, Accounting, AbsenceIsExcused, SilenceAccountedFor, Accounted
<1>6. CASE UNCHANGED vars
  BY <1>1, <1>6 DEF vars, Accounting, AbsenceIsExcused, SilenceAccountedFor, Accounted
<1>7. CASE Next
  BY <1>1, <1>4, <1>5, <1>7, StartAccounting, CrashAccounting, BeaconLoopAccounting,
     ReceiveAccounting, TickAccounting DEF Next
<1> QED
  BY <1>6, <1>7

(* The inductive invariant holds for ever: how the timers of the beacon loop, *)
(* the pruning and the watchdog bound what a registry can hold.              *)
THEOREM Invariance == Spec => []IInv
BY InitInv, NextInv, PTL DEF Spec

(* Type correctness: every clock, counter and registry stays in its range.   *)
THEOREM TypeCorrect == Spec => []TypeOK
<1>1. IInv => TypeOK
  BY DEF IInv
<1> QED
  BY <1>1, Invariance, PTL

(* A peer's silence, and the silence of the masters, is accounted for by     *)
(* beacons that beacon_sender_loop sent and update_peer never saw.           *)
THEOREM SilenceIsAccountedFor == Spec => []SilenceAccountedFor
<1>1. IInv => SilenceAccountedFor
  BY DEF IInv
<1> QED
  BY <1>1, Invariance, PTL

(* No false alarm: what failsafe_watchdog_loop logs is a silence that is     *)
(* longer than the timeout, or was when it woke last.                        *)
THEOREM AlarmsAreJustified == Spec => []AlarmIsJustified
<1>1. IInv => AlarmIsJustified
  BY DEF IInv
<1> QED
  BY <1>1, Invariance, PTL

(* Completeness of prune_stale_peers over the whole network: an entry never  *)
(* outlives its peer's last beacon by more than the timeout, one beacon      *)
(* cycle and the longest network delay.                                      *)
THEOREM DeadPeersAreForgotten == Spec => []DeadPeersForgotten
<1>1. IInv => DeadPeersForgotten
  <2> SUFFICES ASSUME IInv, NEW n \in Node, NEW m \in peers[n]
               PROVE  quiet[m] <= Horizon
    BY DEF DeadPeersForgotten
  <2>1. quiet[m] <= silence[n][m] + MaxDelay /\ silence[n][m] <= Timeout + sinceLoop[n]
    BY DEF IInv, EntriesAreRecent, OverdueSincePruning
  <2>2. m \in Node /\ quiet[m] \in Nat /\ silence[n][m] \in Nat /\ sinceLoop[n] \in 0..LoopMax
    BY DEF IInv, TypeOK
  <2> QED
    BY <2>1, <2>2, BeaconAssumption DEF Horizon, LoopMax
<1> QED
  BY <1>1, Invariance, PTL

(* Accuracy of prune_stale_peers: a running daemon drops a running peer only *)
(* after enough of its beacons in a row were not heard.                      *)
THEOREM PruningIsAccurate == Spec => PruningNeedsLosses
<1>1. IInv /\ [Next]_vars => [PruneStep]_vars
  <2> SUFFICES ASSUME IInv, Next, NEW n \in Node, NEW m \in peers[n] \ peers'[n],
                      up[n], up'[n], up[m]
               PROVE  (missed[n][m] + 1) * LoopMax > Timeout
    BY DEF PruneStep
  <2>1. m \in Node /\ n # m
    BY DEF IInv, TypeOK, NoSelfPeer
  <2>2. PICK a \in Node : BeaconLoop(a)
    <3>1. ASSUME NEW a \in Node, Crash(a) PROVE FALSE
      BY <3>1 DEF Crash, IInv, TypeOK
    <3>2. ASSUME NEW b \in net, Receive(b) PROVE FALSE
      BY <3>2 DEF Receive, IInv, TypeOK, Datagram
    <3> QED
      BY <3>1, <3>2 DEF Next, Start, Watchdog, Tick
  <2>3. silence[n][m] > Timeout
    BY <2>1, <2>2 DEF BeaconLoop, Fresh, Stale, IInv, TypeOK
  <2>4. silence[n][m] <= Accounted(n, m)
    BY <2>1 DEF IInv, SilenceAccountedFor
  <2>5. /\ missed[n][m] \in 0..MissedCap /\ sinceLoop[m] \in 0..LoopMax
        /\ silence[n][m] \in Nat
    BY <2>1 DEF IInv, TypeOK
  <2>6. Cover(missed[n][m] + 1, 0) > Timeout
    <3>1. /\ Cover(missed[n][m] + 1, 0) >= Accounted(n, m) /\ Accounted(n, m) \in Nat
      BY <2>5, CoverFacts DEF Accounted
    <3>2. Cover(missed[n][m] + 1, 0) \in Nat
      <4>1. missed[n][m] + 1 \in Nat
        BY <2>5
      <4> QED
        BY <4>1, Cycles DEF Cover
    <3> QED
      BY <2>3, <2>4, <2>5, <3>1, <3>2, BeaconAssumption
  <2>7. (missed[n][m] + 1) * LoopMax \in Nat
    <3>1. missed[n][m] + 1 \in Nat
      BY <2>5
    <3> QED
      BY <3>1, Cycles
  <2> QED
    BY <2>6, <2>7 DEF Cover
<1> QED
  BY <1>1, Invariance, PTL DEF Spec, PruningNeedsLosses

(* Detection by failsafe_watchdog_loop: a configured worker that has heard   *)
(* no master for the timeout and the longest check period has its warning.   *)
THEOREM LostLinksAreReported == Spec => []LostLinkReported
<1>1. IInv => LostLinkReported
  <2> SUFFICES ASSUME IInv, NEW n \in Node, up[n], Armed(n), sinceContact[n] > Timeout + CheckMax
               PROVE  alarm[n]
    BY DEF LostLinkReported
  <2>1. sinceCheck[n] \in 0..CheckMax /\ sinceContact[n] \in Nat
    BY DEF IInv, TypeOK
  <2>2. sinceContact[n] > Timeout + sinceCheck[n]
    BY <2>1, BeaconAssumption DEF CheckMax
  <2> QED
    BY <2>2 DEF IInv, AlarmIsTimely
<1> QED
  BY <1>1, Invariance, PTL

(* The beacon network implements the abstract presence service: its initial  *)
(* states and its steps are those of Presence, under the mapping of Abstract. *)
THEOREM RefinesPresence == Spec => ImplementsPresence
<1>1. Init => Abstract!Init
  BY DEF Init, Abstract!Init, QuietCap, Abstract!QuietCap
<1>2. IInv /\ IInv' /\ [Next]_vars => [Abstract!Next]_Abstract!vars
  <2> SUFFICES ASSUME IInv, IInv', [Next]_vars PROVE [Abstract!Next]_Abstract!vars
    OBVIOUS
  <2> USE DEF Abstract!Next, Abstract!vars
  <2>1. ASSUME NEW n \in Node, Start(n) \/ Watchdog(n) PROVE UNCHANGED Abstract!vars
    BY <2>1 DEF Start, Watchdog
  <2>2. ASSUME NEW n \in Node, Crash(n) PROVE Abstract!ForgetAll(n)
    BY <2>2 DEF Crash, Abstract!ForgetAll
  <2>3. ASSUME NEW n \in Node, BeaconLoop(n) PROVE Abstract!Announce(n)
    <3>1. Fresh(n) \in SUBSET peers[n]
      BY DEF Fresh
    <3> QED
      BY <2>3, <3>1 DEF BeaconLoop, Abstract!Announce
  <2>4. ASSUME NEW b \in net, Receive(b) PROVE Abstract!Learn(b.dst, b.src) /\ b.src \in Node /\ b.dst \in Node
    <3>1. b.src \in Node /\ b.dst \in Node /\ b.age \in 0..MaxDelay /\ quiet[b.src] <= b.age
      BY DEF IInv, TypeOK, Datagram, DatagramsAreRecent
    <3>2. quiet[b.src] <= Horizon
      BY <3>1, BeaconAssumption DEF IInv, TypeOK, Horizon, LoopMax
    <3> QED
      BY <2>4, <3>1, <3>2 DEF Receive, Accepts, Abstract!Learn
  <2>5. ASSUME Tick PROVE Abstract!TimePasses
    <3>1. ASSUME NEW n \in Node, NEW m \in peers[n] PROVE quiet[m] < Horizon
      <4>1. up[n] /\ sinceLoop[n] < LoopMax /\ m \in Node
        BY <2>5 DEF Tick, IInv, StoppedIsReset, TypeOK
      <4>2. quiet[m] <= silence[n][m] + MaxDelay /\ silence[n][m] <= Timeout + sinceLoop[n]
        BY DEF IInv, EntriesAreRecent, OverdueSincePruning
      <4>3. quiet[m] \in Nat /\ silence[n][m] \in Nat /\ sinceLoop[n] \in Nat
        BY <4>1 DEF IInv, TypeOK
      <4> QED
        BY <4>1, <4>2, <4>3, BeaconAssumption DEF Horizon, LoopMax
    <3>2. quiet' = [m \in Node |-> Abstract!Older(quiet[m])] /\ peers' = peers
      BY <2>5, BeaconAssumption DEF Tick, IInv, TypeOK, UpTo, QuietCap, Abstract!Older,
         Abstract!QuietCap, Horizon, LoopMax
    <3> QED
      BY <3>1, <3>2 DEF Abstract!TimePasses
  <2>6. CASE UNCHANGED vars
    BY <2>6 DEF vars
  <2> QED
    BY <2>1, <2>2, <2>3, <2>4, <2>5, <2>6 DEF Next
<1> QED
  BY <1>1, <1>2, Invariance, PTL DEF Spec, ImplementsPresence, Abstract!Spec
=============================================================================
