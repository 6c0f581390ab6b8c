------------------------------ MODULE Dashboard ------------------------------
(***************************************************************************)
(* How the dashboard page (web/app.js) keeps its view of the master's      *)
(* registry: a telemetry socket that is reopened when it closes, polling   *)
(* of /api/status while it is not open, and refreshes at any time.  The    *)
(* master's side is server/ws.py and handle_http_status in server/rest.py. *)
(***************************************************************************)
EXTENDS Naturals, Sequences

CONSTANTS
    Peer,         \* the node ids
    None,         \* no target selected
    Fetch,        \* the requests to /api/status that may be under way at once
    MaxFrames,    \* telemetry frames that the connection can hold
    MaxVersion    \* bound of the changes of the registry

ASSUME DashboardAssumption ==
    /\ None \notin Peer
    /\ MaxFrames \in Nat \ {0}
    /\ MaxVersion \in Nat

VARIABLES
    registry,     \* the master's registry, its versions counted
    socket,       \* the state of the page's telemetry socket
    queue,        \* the frames on the connection, oldest first
    subscribed,   \* the master has the connection in ws_clients
    fetch,        \* each request to /api/status
    shown,        \* the peers of the page, as a version of the registry
    selected      \* selectedTarget

link == <<socket, queue, subscribed>>
vars == <<registry, socket, queue, subscribed, fetch, shown, selected>>

Snapshot == [version : 0..MaxVersion, peers : SUBSET Peer]
Nothing  == [version |-> 0, peers |-> {}]

(* "closed" waits for the reconnect timer, which onclose sets. *)
Socket == {"connecting", "open", "closed"}

(* A request is "idle" before and after, "asked", "answered" with a snapshot *)
(* on its way back.                                                          *)
Idle  == [state |-> "idle", snapshot |-> Nothing]
Asked == [state |-> "asked", snapshot |-> Nothing]

(* init connects the socket and asks once. *)
Init ==
    /\ registry \in {s \in Snapshot : s.version = 0}
    /\ socket = "connecting"
    /\ queue = <<>>
    /\ subscribed = FALSE
    /\ fetch \in {[f \in Fetch |-> IF f = g THEN Asked ELSE Idle] : g \in Fetch}
    /\ shown = Nothing
    /\ selected = None

(* Beacons and prunings on the master. *)
Change ==
    /\ registry.version < MaxVersion
    /\ \E p \in SUBSET Peer :
         registry' = [version |-> registry.version + 1, peers |-> p]
    /\ UNCHANGED <<link, fetch, shown, selected>>
-----------------------------------------------------------------------------
(* Faulty variants of the definitions below: each breaks a property. *)
KeepsFrames == queue
KeepsSelection(peers) == selected
TrustsSocket == FALSE

(* The telemetry socket. *)
OnOpen ==
    /\ socket = "connecting"
    /\ socket' = "open"
    /\ subscribed' = TRUE
    /\ UNCHANGED <<registry, queue, fetch, shown, selected>>

(* Every 0.5 s the master sends a snapshot to those in ws_clients; one whose *)
(* connection takes no more for 0.4 s is discarded and not told.             *)
Broadcast ==
    /\ subscribed
    /\ IF Len(queue) < MaxFrames
       THEN queue' = Append(queue, registry) /\ UNCHANGED subscribed
       ELSE subscribed' = FALSE /\ UNCHANGED queue
    /\ UNCHANGED <<registry, socket, fetch, shown, selected>>

(* The selection survives a frame only if its peer does. *)
Selection(peers) == IF selected \in peers THEN selected ELSE None

OnMessage ==
    /\ queue # <<>>
    /\ queue' = Tail(queue)
    /\ shown' = Head(queue)
    /\ selected' = Selection(Head(queue).peers)
    /\ UNCHANGED <<registry, socket, subscribed, fetch>>

(* What was still on the connection is gone with it. *)
LeftOnConnection == <<>>

(* The connection breaks or is refused. *)
OnClose ==
    /\ socket \in {"connecting", "open"}
    /\ socket' = "closed"
    /\ queue' = LeftOnConnection
    /\ subscribed' = FALSE
    /\ UNCHANGED <<registry, fetch, shown, selected>>

(* The reconnect timer fires: connectWebSocket. *)
ReconnectTimer == socket = "closed"

Reconnect ==
    /\ ReconnectTimer
    /\ socket' = "connecting"
    /\ UNCHANGED <<registry, queue, subscribed, fetch, shown, selected>>
-----------------------------------------------------------------------------
(* fetchNodeStatus. *)
Ask(f) ==
    /\ fetch[f] = Idle
    /\ fetch' = [fetch EXCEPT ![f] = Asked]
    /\ UNCHANGED <<registry, link, shown, selected>>

(* The interval of init, every 2 s. *)
PollNeeded == socket # "open"

Poll == PollNeeded /\ \E f \in Fetch : Ask(f)

(* force: the Refresh button, and the end of a command. *)
Refresh == \E f \in Fetch : Ask(f)

(* handle_http_status. *)
HandleStatus(f) ==
    /\ fetch[f] = Asked
    /\ fetch' = [fetch EXCEPT ![f] = [state |-> "answered", snapshot |-> registry]]
    /\ UNCHANGED <<registry, link, shown, selected>>

(* The answer arrives, in any order among the requests and the frames. *)
OnStatus(f) ==
    /\ fetch[f].state = "answered"
    /\ fetch' = [fetch EXCEPT ![f] = Idle]
    /\ shown' = fetch[f].snapshot
    /\ UNCHANGED <<registry, link, selected>>

(* The request fails, which the page ignores. *)
OnFetchError(f) ==
    /\ fetch[f] # Idle
    /\ fetch' = [fetch EXCEPT ![f] = Idle]
    /\ UNCHANGED <<registry, link, shown, selected>>

(* The operator's choice among the options on the page. *)
Select ==
    /\ selected' \in shown.peers \cup {None}
    /\ UNCHANGED <<registry, link, fetch, shown>>

Next ==
    \/ Change \/ OnOpen \/ Broadcast \/ OnMessage \/ OnClose \/ Reconnect
    \/ Poll \/ Refresh \/ Select
    \/ \E f \in Fetch : HandleStatus(f) \/ OnStatus(f) \/ OnFetchError(f)

Spec == Init /\ [][Next]_vars

(* Timers fire, what is under way arrives or breaks, and a master that is    *)
(* asked for ever answers some of the requests.  Open sockets need not break. *)
Connected == socket = "connecting" /\ (OnOpen \/ OnClose)

Fairness ==
    /\ WF_vars(Connected) /\ WF_vars(Reconnect)
    /\ WF_vars(Broadcast) /\ WF_vars(OnMessage)
    /\ WF_vars(Poll)
    /\ \A f \in Fetch : WF_vars(HandleStatus(f) \/ OnStatus(f) \/ OnFetchError(f))
    /\ SF_vars(\E f \in Fetch : HandleStatus(f))
    /\ SF_vars(\E f \in Fetch : OnStatus(f))

FairSpec == Spec /\ Fairness
-----------------------------------------------------------------------------
TypeOK ==
    /\ registry \in Snapshot
    /\ socket \in Socket
    /\ queue \in Seq(Snapshot) /\ Len(queue) <= MaxFrames
    /\ subscribed \in BOOLEAN
    /\ fetch \in [Fetch -> [state : {"idle", "asked", "answered"}, snapshot : Snapshot]]
    /\ shown \in Snapshot
    /\ selected \in Peer \cup {None}
    /\ queue # <<>> \/ subscribed => socket = "open"

(* What is on its way to the page, or shown by it, was the registry once: no  *)
(* snapshot is newer than the registry, none of its version differs from it,  *)
(* and the frames of a connection come in the order of their versions.        *)
Past(s, now) == s.version < now.version \/ s = now

SnapshotsArePast ==
    /\ \A i \in DOMAIN queue : Past(queue[i], registry)
    /\ \A f \in Fetch : fetch[f].state = "answered" => Past(fetch[f].snapshot, registry)
    /\ shown = Nothing \/ Past(shown, registry)

FramesInOrder ==
    \A i \in DOMAIN queue : \A j \in i..Len(queue) : queue[i].version <= queue[j].version

IInv == TypeOK /\ SnapshotsArePast /\ FramesInOrder

(* Once the registry is at rest, the page comes to show it and stays with    *)
(* it: by telemetry if the socket ends up open and was never discarded, by   *)
(* polling if it ends up closed, whatever older answers are still under way. *)
Open == socket = "open"
NeverDiscarded == [](Open => subscribed)

ViewSettles ==
    NeverDiscarded /\ (<>[]Open \/ <>[]~Open) => <>[](shown = registry)

(* While the socket stays open a target that has left the registry for good  *)
(* is deselected for good, although a late answer may list it again.         *)
SelectionSettles ==
    NeverDiscarded /\ <>[]Open =>
        \A p \in Peer : <>[](p \notin registry.peers) => <>[](selected # p)
=============================================================================
