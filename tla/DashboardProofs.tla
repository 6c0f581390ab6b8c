--------------------------- MODULE DashboardProofs ---------------------------
(***************************************************************************)
(* The page shows the registry of some time past (Dashboard), whatever the *)
(* order of frames and answers, and what is on the connection or is still  *)
(* to be broadcast belongs to a socket that is open.                       *)
(***************************************************************************)
EXTENDS Dashboard, SequenceTheorems, TLAPS

USE DEF TypeOK, Socket, Snapshot, Idle, Asked, Nothing

LEMMA NothingIsASnapshot == Nothing \in Snapshot
  BY DashboardAssumption

LEMMA InitInv == Init => TypeOK
<1> SUFFICES ASSUME Init
             PROVE  TypeOK
  OBVIOUS
<1>1. fetch \in [Fetch -> [state : {"idle", "asked", "answered"}, snapshot : Snapshot]]
  <2>1. PICK g \in Fetch : fetch = [f \in Fetch |-> IF f = g THEN Asked ELSE Idle]
    BY DEF Init
  <2> QED
    BY <2>1, NothingIsASnapshot
<1>2. queue \in Seq(Snapshot) /\ Len(queue) <= MaxFrames
  BY DashboardAssumption DEF Init
<1> QED
  BY <1>1, <1>2, NothingIsASnapshot DEF Init

LEMMA FramesKeep ==
    ASSUME TypeOK, Broadcast \/ OnMessage
    PROVE  TypeOK'
<1>1. CASE Broadcast
  <2>1. CASE Len(queue) < MaxFrames
    <3>1. queue' = Append(queue, registry) /\ UNCHANGED subscribed
      BY <1>1, <2>1 DEF Broadcast
    <3>2. queue' \in Seq(Snapshot) /\ Len(queue') = Len(queue) + 1
      BY <3>1
    <3> QED
      BY <1>1, <2>1, <3>1, <3>2, DashboardAssumption DEF Broadcast
  <2>2. CASE ~(Len(queue) < MaxFrames)
    BY <1>1, <2>2 DEF Broadcast
  <2> QED
    BY <2>1, <2>2
<1>2. CASE OnMessage
  <2>1. /\ Head(queue) \in Snapshot /\ Tail(queue) \in Seq(Snapshot)
        /\ Len(Tail(queue)) = Len(queue) - 1
    BY <1>2, HeadTailProperties DEF OnMessage
  <2>2. Selection(Head(queue).peers) \in Peer \cup {None}
    BY DEF Selection
  <2> QED
    BY <1>2, <2>1, <2>2, DashboardAssumption DEF OnMessage
<1> QED
  BY <1>1, <1>2

LEMMA NextInv == TypeOK /\ [Next]_vars => TypeOK'
<1> SUFFICES ASSUME TypeOK, [Next]_vars
             PROVE  TypeOK'
  OBVIOUS
<1>1. CASE Change
  <2>1. PICK p \in SUBSET Peer : registry' = [version |-> registry.version + 1, peers |-> p]
    BY <1>1 DEF Change
  <2>2. registry' \in Snapshot
    BY <1>1, <2>1, DashboardAssumption DEF Change
  <2> QED
    BY <1>1, <2>2 DEF Change, link
<1>2. CASE OnOpen
  BY <1>2 DEF OnOpen
<1>3. CASE OnClose
  <2>1. queue' = <<>> /\ Len(<<>>) = 0
    BY <1>3 DEF OnClose, LeftOnConnection
  <2>2. queue' \in Seq(Snapshot) /\ Len(queue') <= MaxFrames
    BY <2>1, DashboardAssumption
  <2> QED
    BY <1>3, <2>1, <2>2 DEF OnClose
<1>4. CASE Reconnect
  BY <1>4 DEF Reconnect, ReconnectTimer
<1>5. CASE Select
  BY <1>5 DEF Select, link
<1>6. ASSUME NEW f \in Fetch, Ask(f)
      PROVE  TypeOK'
  BY <1>6, NothingIsASnapshot DEF Ask, link
<1>7. ASSUME NEW f \in Fetch, HandleStatus(f)
      PROVE  TypeOK'
  BY <1>7 DEF HandleStatus, link
<1>8. ASSUME NEW f \in Fetch, OnStatus(f)
      PROVE  TypeOK'
  <2>1. fetch[f].snapshot \in Snapshot
    OBVIOUS
  <2> QED
    BY <1>8, <2>1, NothingIsASnapshot DEF OnStatus, link
<1>9. ASSUME NEW f \in Fetch, OnFetchError(f)
      PROVE  TypeOK'
  BY <1>9, NothingIsASnapshot DEF OnFetchError, link
<1>10. CASE UNCHANGED vars
  BY <1>10 DEF vars
<1> QED
  BY <1>1, <1>2, <1>3, <1>4, <1>5, <1>6, <1>7, <1>8, <1>9, <1>10, FramesKeep
  DEF Next, Poll, Refresh

-----------------------------------------------------------------------------
(* What was past stays past, whatever becomes of the registry. *)
LEMMA PastStaysPast ==
    ASSUME TypeOK, TypeOK', NEW s \in Snapshot, Past(s, registry), Change \/ registry' = registry
    PROVE  Past(s, registry')
<1>1. s.version \in Int /\ registry.version \in Int /\ registry'.version \in Int
  OBVIOUS
<1>2. CASE Change
  <2>1. registry'.version = registry.version + 1
    BY <1>2 DEF Change
  <2> QED
    BY <1>1, <2>1 DEF Past
<1> QED
  BY <1>1, <1>2 DEF Past

LEMMA RegistryMoves ==
    ASSUME [Next]_vars
    PROVE  Change \/ registry' = registry
  BY DEF Next, vars, OnOpen, Broadcast, OnMessage, OnClose, Reconnect, Poll, Refresh, Ask,
         Select, HandleStatus, OnStatus, OnFetchError

LEMMA Shifted ==
    ASSUME NEW n \in Nat, NEW i \in 1..(n - 1), NEW j \in i..(n - 1)
    PROVE  i + 1 \in 1..n /\ j + 1 \in (i + 1)..n /\ j \in 1..(n - 1) /\ i \in i..(n - 1)
  OBVIOUS

(* A frame that joins the connection is the registry of now, so none behind   *)
(* another is older; those that are left keep their places.                   *)
LEMMA FramesStayInOrder ==
    ASSUME TypeOK, TypeOK', SnapshotsArePast, FramesInOrder, [Next]_vars
    PROVE  FramesInOrder' /\ \A i \in DOMAIN queue' : Past(queue'[i], registry')
<1>0. Len(queue) \in Nat /\ DOMAIN queue = 1..Len(queue)
  BY LenProperties
<1>1. Change \/ registry' = registry
  BY RegistryMoves
<1>2. \A i \in DOMAIN queue : queue[i] \in Snapshot /\ Past(queue[i], registry)
  <2>1. \A i \in DOMAIN queue : queue[i] \in Snapshot
    BY <1>0, ElementOfSeq
  <2> QED
    BY <2>1 DEF SnapshotsArePast
<1>3. \A i \in DOMAIN queue : Past(queue[i], registry')
  BY <1>1, <1>2, PastStaysPast
<1>4. CASE queue' = queue
  BY <1>3, <1>4 DEF FramesInOrder
<1>5. CASE Broadcast /\ queue' = Append(queue, registry)
  <2>1. registry' = registry
    BY <1>5 DEF Broadcast
  <2>2. registry.version \in Int /\ \A i \in 1..Len(queue) : queue[i].version <= registry.version
    <3>1. registry.version \in Int
      OBVIOUS
    <3>2. ASSUME NEW i \in 1..Len(queue)
          PROVE  queue[i].version <= registry.version
      <4>1. queue[i] \in Snapshot /\ Past(queue[i], registry)
        BY <1>0, <1>2
      <4>2. queue[i].version \in Int
        BY <4>1
      <4> QED
        BY <3>1, <4>1, <4>2 DEF Past
    <3> QED
      BY <3>1, <3>2
  <2>3. /\ Len(queue') = Len(queue) + 1 /\ DOMAIN queue' = 1..(Len(queue) + 1)
        /\ \A i \in 1..Len(queue) : queue'[i] = queue[i]
        /\ queue'[Len(queue) + 1] = registry
    <3>1. queue' = Append(queue, registry) /\ registry \in Snapshot
      BY <1>5
    <3>2. queue' \in Seq(Snapshot)
      BY <3>1, AppendProperties
    <3>3. Len(queue') = Len(queue) + 1 /\ DOMAIN queue' = 1..Len(queue')
      BY <3>1, <3>2, AppendProperties, LenProperties
    <3> QED
      BY <3>1, <3>3, AppendProperties
  <2>4. ASSUME NEW i \in DOMAIN queue'
        PROVE  Past(queue'[i], registry')
    <3>1. CASE i = Len(queue) + 1
      BY <2>1, <2>3, <3>1 DEF Past
    <3>2. CASE i \in 1..Len(queue)
      BY <1>0, <1>3, <2>3, <3>2
    <3> QED
      BY <1>0, <2>3, <3>1, <3>2
  <2>5. ASSUME NEW i \in DOMAIN queue', NEW j \in i..Len(queue')
        PROVE  queue'[i].version <= queue'[j].version
    <3>1. i \in 1..(Len(queue) + 1) /\ j \in i..(Len(queue) + 1)
      BY <2>3
    <3>2. CASE i = Len(queue) + 1
      BY <1>0, <2>2, <2>3, <3>1, <3>2
    <3>3. CASE i \in 1..Len(queue) /\ j = Len(queue) + 1
      BY <2>2, <2>3, <3>3
    <3>4. CASE i \in 1..Len(queue) /\ j \in i..Len(queue)
      <4>1. j \in 1..Len(queue)
        BY <1>0, <3>4
      <4>2. queue[i].version <= queue[j].version
        BY <1>0, <3>4 DEF FramesInOrder
      <4> QED
        BY <2>3, <3>4, <4>1, <4>2
    <3> QED
      BY <1>0, <3>1, <3>2, <3>3, <3>4
  <2> QED
    BY <2>4, <2>5 DEF FramesInOrder
<1>6. CASE OnMessage
  <2>1. queue # <<>> /\ queue' = Tail(queue) /\ registry' = registry
    BY <1>6 DEF OnMessage
  <2>2. /\ Len(queue') = Len(queue) - 1
        /\ DOMAIN queue' = 1..(Len(queue) - 1)
        /\ \A i \in 1..(Len(queue) - 1) : queue'[i] = queue[i + 1]
    <3>1. queue' \in Seq(Snapshot) /\ Len(queue') = Len(queue) - 1
      BY <2>1, HeadTailProperties
    <3>2. DOMAIN queue' = 1..Len(queue')
      BY <3>1, LenProperties
    <3> QED
      BY <2>1, <3>1, <3>2, HeadTailProperties
  <2>3. ASSUME NEW i \in DOMAIN queue'
        PROVE  Past(queue'[i], registry')
    <3>1. i \in 1..(Len(queue) - 1)
      BY <2>2
    <3>2. i + 1 \in 1..Len(queue) /\ queue'[i] = queue[i + 1]
      <4>1. i \in i..(Len(queue) - 1)
        BY <1>0, <3>1
      <4> QED
        BY <1>0, <2>2, <3>1, <4>1, Shifted
    <3> QED
      BY <1>0, <1>3, <3>2
  <2>4. ASSUME NEW i \in DOMAIN queue', NEW j \in i..Len(queue')
        PROVE  queue'[i].version <= queue'[j].version
    <3>1. i \in 1..(Len(queue) - 1) /\ j \in i..(Len(queue) - 1)
      BY <2>2
    <3>2. i + 1 \in 1..Len(queue) /\ j + 1 \in (i + 1)..Len(queue) /\ j \in 1..(Len(queue) - 1)
      BY <1>0, <3>1, Shifted
    <3>3. queue'[i] = queue[i + 1] /\ queue'[j] = queue[j + 1]
      BY <2>2, <3>1, <3>2
    <3> QED
      BY <1>0, <3>2, <3>3 DEF FramesInOrder
  <2> QED
    BY <2>3, <2>4 DEF FramesInOrder
<1>7. CASE queue' = <<>>
  BY <1>7 DEF FramesInOrder
<1> QED
  BY <1>4, <1>5, <1>6, <1>7
  DEF Next, vars, link, Change, OnOpen, Broadcast, OnClose, LeftOnConnection, Reconnect,
      Poll, Refresh, Ask, Select, HandleStatus, OnStatus, OnFetchError

LEMMA AnswersStayPast ==
    ASSUME TypeOK, TypeOK', SnapshotsArePast, [Next]_vars,
           NEW f \in Fetch, fetch'[f].state = "answered"
    PROVE  Past(fetch'[f].snapshot, registry')
<1>1. Change \/ registry' = registry
  BY RegistryMoves
<1>2. CASE fetch'[f] = fetch[f]
  BY <1>1, <1>2, PastStaysPast DEF SnapshotsArePast
<1>3. CASE HandleStatus(f)
  BY <1>3 DEF HandleStatus, Past
<1>4. fetch'[f] = fetch[f] \/ HandleStatus(f) \/ fetch'[f] \in {Idle, Asked}
  BY DEF Next, vars, Change, OnOpen, Broadcast, OnMessage, OnClose, Reconnect, Poll, Refresh,
         Ask, Select, HandleStatus, OnStatus, OnFetchError
<1> QED
  BY <1>2, <1>3, <1>4

LEMMA ShownStaysPast ==
    ASSUME TypeOK, TypeOK', SnapshotsArePast, [Next]_vars
    PROVE  shown' = Nothing \/ Past(shown', registry')
<1>1. Change \/ registry' = registry
  BY RegistryMoves
<1>2. CASE shown' = shown
  BY <1>1, <1>2, PastStaysPast DEF SnapshotsArePast
<1>3. CASE OnMessage
  <2>1. shown' \in Snapshot /\ Past(shown', registry)
    BY <1>3, HeadTailProperties DEF OnMessage, SnapshotsArePast
  <2> QED
    BY <1>1, <2>1, PastStaysPast
<1>4. ASSUME NEW f \in Fetch, OnStatus(f)
      PROVE  Past(shown', registry')
  <2>1. shown' \in Snapshot /\ Past(shown', registry)
    BY <1>4 DEF OnStatus, SnapshotsArePast
  <2> QED
    BY <1>1, <2>1, PastStaysPast
<1> QED
  BY <1>2, <1>3, <1>4
  DEF Next, vars, Change, OnOpen, Broadcast, OnClose, Reconnect, Poll, Refresh, Ask, Select,
      HandleStatus, OnFetchError

(* Frames and subscriptions go with an open socket only, frames keep their    *)
(* order, and nothing on the page or on its way there is newer than the       *)
(* registry or differs from it at the same version (connectWebSocket,         *)
(* fetchNodeStatus, ws_telemetry_broadcast_loop, handle_http_status).         *)
THEOREM Invariance == Spec => []IInv
<1>1. Init => IInv
  BY InitInv DEF Init, IInv, SnapshotsArePast, FramesInOrder
<1>2. IInv /\ [Next]_vars => IInv'
  <2> SUFFICES ASSUME IInv, [Next]_vars
               PROVE  IInv'
    OBVIOUS
  <2>1. TypeOK'
    BY NextInv DEF IInv
  <2>2. SnapshotsArePast'
    BY <2>1, FramesStayInOrder, AnswersStayPast, ShownStaysPast DEF IInv, SnapshotsArePast
  <2>3. FramesInOrder'
    BY <2>1, FramesStayInOrder DEF IInv
  <2> QED
    BY <2>1, <2>2, <2>3 DEF IInv
<1> QED
  BY <1>1, <1>2, PTL DEF Spec
=============================================================================
