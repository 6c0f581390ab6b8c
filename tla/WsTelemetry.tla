----------------------------- MODULE WsTelemetry -----------------------------
(***************************************************************************)
(* The WebSocket side of a daemon: WebSocketManager (server/ws.py) and the *)
(* part of the start and the shutdown that concerns it (C2NodeDaemon.start *)
(* in node.py, HttpServer.cleanup in server/rest.py).  One task per        *)
(* session, one for the telemetry broadcast and one for the shutdown run   *)
(* interleaved at their awaits; clients connect, stall, resume and vanish. *)
(***************************************************************************)
EXTENDS Naturals, FiniteSets

CONSTANT Session    \* the WebSocket sessions that may ever be opened

VARIABLES
    handler,     \* where handle_ws_session stands for each session
    closed,      \* ws.closed on the server's side
    alive,       \* the client's end of the connection exists
    stalled,     \* the client does not read, and its socket buffer is full
    ws_clients,  \* the set the broadcasts go to
    loop,        \* where the broadcast loop stands
    pending,     \* the _send coroutines that have not returned
    failed,      \* the results that name a client
    running,     \* ws_manager.running
    phase,       \* where the daemon stands
    toClose,     \* what is left of close_all's copy of ws_clients
    closing,     \* the session whose close is awaited, as a set
    draining,    \* those of them whose close waits for the client to read
    got,         \* history: reached by the last broadcast that was begun
    goodbye,     \* history: sent the GOING_AWAY close frame
    copied       \* history: the sessions that close_all found in ws_clients

session == <<handler, closed, alive, stalled>>
caster  == <<loop, pending, failed>>
closer  == <<toClose, closing, draining, copied>>
stop    == <<running, phase, closer>>
vars    == <<handler, closed, alive, stalled, ws_clients, loop, pending, failed,
             running, phase, toClose, closing, draining, copied, got, goodbye>>

(* "new" until prepare returns; "reading" the next message; awaiting the      *)
(* answer to a benchmark ("acking") or to a rejected message ("rejecting");   *)
(* "done" when the handler has returned.                                      *)
HandlerState == {"new", "reading", "acking", "rejecting", "done"}

(* "starting" from when the site accepts to when the tasks are created;       *)
(* "stopping" awaits the TCP server's stop; "closing" is close_all;           *)
(* "cleaning" is the runner's cleanup; "abandoned" is a start interrupted.    *)
Phase == {"starting", "serving", "stopping", "closing", "cleaning", "abandoned", "stopped"}

Init ==
    /\ handler = [s \in Session |-> "new"]
    /\ closed = [s \in Session |-> FALSE]
    /\ alive = [s \in Session |-> FALSE]
    /\ stalled = [s \in Session |-> FALSE]
    /\ ws_clients = {}
    /\ loop = "none"
    /\ pending = {}
    /\ failed = {}
    /\ running = TRUE
    /\ phase = "starting"
    /\ toClose = {}
    /\ closing = {}
    /\ draining = {}
    /\ got = [s \in Session |-> FALSE]
    /\ goodbye = [s \in Session |-> FALSE]
    /\ copied = {}

Active(s) == handler[s] \in {"reading", "acking", "rejecting"}

(* Nothing can be written to the client any more. *)
Broken(s) == closed[s] \/ ~alive[s]
-----------------------------------------------------------------------------
(* The clients. *)
Stall(s) ==
    /\ Active(s) /\ alive[s] /\ ~stalled[s]
    /\ stalled' = [stalled EXCEPT ![s] = TRUE]
    /\ UNCHANGED <<handler, closed, alive, ws_clients, caster, stop, got, goodbye>>

(* The transport can be written to again, or is lost, which the server sees:  *)
(* whoever drains it is woken.                                                *)
Wakes(s) ==
    /\ stalled' = [stalled EXCEPT ![s] = FALSE]
    /\ draining' = draining \ {s}
    /\ UNCHANGED <<handler, closed, ws_clients, caster, running, phase, toClose, closing,
                    copied, got, goodbye>>

Resume(s) == alive[s] /\ stalled[s] /\ Wakes(s) /\ UNCHANGED alive

Vanish(s) == alive[s] /\ alive' = [alive EXCEPT ![s] = FALSE] /\ Wakes(s)
-----------------------------------------------------------------------------
(* handle_ws_session. *)

(* The site accepts until the runner's cleanup, or as long as the loop runs;  *)
(* prepare returns and the session joins the set without an await in between. *)
Open(s) ==
    /\ handler[s] = "new"
    /\ phase \notin {"cleaning", "stopped"}
    /\ handler' = [handler EXCEPT ![s] = "reading"]
    /\ alive' = [alive EXCEPT ![s] = TRUE]
    /\ ws_clients' = ws_clients \cup {s}
    /\ UNCHANGED <<closed, stalled, caster, stop, got, goodbye>>

(* A text message is parsed; the answer is awaited without a timeout. *)
Message(s) ==
    /\ handler[s] = "reading" /\ ~Broken(s)
    /\ handler' \in {[handler EXCEPT ![s] = h] : h \in {"acking", "rejecting"}}
    /\ UNCHANGED <<closed, alive, stalled, ws_clients, caster, stop, got, goodbye>>

(* The answer went out, or the failure to send an acknowledgement was         *)
(* swallowed: back to the next message.  A close that drains holds up both.   *)
Answered(s) ==
    /\ \/ handler[s] \in {"acking", "rejecting"} /\ ~Broken(s) /\ ~stalled[s]
       \/ handler[s] = "acking" /\ Broken(s) /\ s \notin draining
    /\ handler' = [handler EXCEPT ![s] = "reading"]
    /\ UNCHANGED <<closed, alive, stalled, ws_clients, caster, stop, got, goodbye>>

(* The message loop ends: the connection is gone, or an error answer could    *)
(* not be sent, which is not caught; the finally clause discards.  A close    *)
(* wakes the handler that reads when it has drained.                          *)
Finished(s) ==
    /\ handler[s] \in {"reading", "rejecting"}
    /\ Broken(s) /\ s \notin draining

(* Faulty variants of the definitions below: each breaks a property. *)
ForgetsToLeave(them) == {}
DropsAllOnFailure(results) == IF results = {} THEN {} ELSE ws_clients
WaitsForSlow(s) == FALSE
WaitsForEmptySet == ws_clients = {}
DoesNotAwaitClose == toClose = {}
ClosesFirstOnly(clients) == IF clients = {} THEN {} ELSE {CHOOSE s \in clients : TRUE}

Leaving(them) == them

(* Their handlers end, through the finally clause, and the connections too.   *)
Leave(them) ==
    /\ handler' = [s \in Session |-> IF s \in them THEN "done" ELSE handler[s]]
    /\ closed' = [s \in Session |-> s \in them \/ closed[s]]
    /\ alive' = [s \in Session |-> s \notin them /\ alive[s]]
    /\ stalled' = [s \in Session |-> s \notin them /\ stalled[s]]
    /\ ws_clients' = ws_clients \ Leaving(them)

End(s) ==
    /\ Finished(s)
    /\ Leave({s})
    /\ UNCHANGED <<caster, stop, got, goodbye>>

(* What a client that does not read sends to a closed session ends the        *)
(* handler; the connection remains, and the close that drains it.             *)
EndUnread(s) ==
    /\ handler[s] = "reading" /\ s \in draining
    /\ handler' = [handler EXCEPT ![s] = "done"]
    /\ ws_clients' = ws_clients \ Leaving({s})
    /\ UNCHANGED <<closed, alive, stalled, caster, stop, got, goodbye>>
-----------------------------------------------------------------------------
(* ws_telemetry_broadcast_loop. *)

(* The sleep is over: nothing to do, or one _send per client of the moment. *)
Wake ==
    /\ loop = "sleep"
    /\ IF ws_clients = {}
       THEN /\ loop' = IF running THEN "sleep" ELSE "ended"
            /\ UNCHANGED <<pending, got>>
       ELSE /\ loop' = "send"
            /\ pending' = ws_clients
            /\ got' = [s \in Session |-> FALSE]
    /\ failed' = {}
    /\ UNCHANGED <<session, ws_clients, stop, goodbye>>

SendSucceeds(s) ==
    /\ s \in pending /\ ~Broken(s) /\ ~stalled[s]
    /\ pending' = pending \ {s}
    /\ got' = [got EXCEPT ![s] = TRUE]
    /\ UNCHANGED <<session, ws_clients, loop, failed, stop, goodbye>>

(* wait_for gives a client that does not read 0.4 s. *)
TimesOut(s) == ~Broken(s) /\ stalled[s]

(* A closed client, an error or a timeout: the result names the client. *)
SendFails(s) ==
    /\ s \in pending
    /\ Broken(s) \/ TimesOut(s)
    /\ pending' = pending \ {s}
    /\ failed' = failed \cup {s}
    /\ UNCHANGED <<session, ws_clients, loop, stop, got, goodbye>>

(* The clients the loop discards; their connections stay as they are. *)
Discarded(results) == results

Gathered ==
    /\ loop = "send" /\ pending = {}
    /\ ws_clients' = ws_clients \ Discarded(failed)
    /\ loop' = IF running THEN "sleep" ELSE "ended"
    /\ failed' = {}
    /\ UNCHANGED <<session, pending, stop, got, goodbye>>
-----------------------------------------------------------------------------
(* The daemon. *)

Everybody == {s \in Session : Active(s)}

(* The tasks are created; the broadcast loop begins with its sleep. *)
Online ==
    /\ phase = "starting"
    /\ phase' = "serving"
    /\ loop' = "sleep"
    /\ UNCHANGED <<session, ws_clients, pending, failed, running, closer, got, goodbye>>

(* An interrupt before that: start has no try yet, so nobody closes the site, *)
(* and asyncio.run cancels the handlers.                                      *)
StartFails ==
    /\ phase = "starting"
    /\ phase' = "abandoned"
    /\ Leave(Everybody)
    /\ UNCHANGED <<caster, running, closer, got, goodbye>>

(* gather in C2NodeDaemon.start ends: another task failed, and the broadcast  *)
(* loop goes on; or it was cancelled, and the loop with it; up to Python 3.10 *)
(* an interrupt cancels the handlers too.                                     *)
Stop ==
    /\ phase = "serving"
    /\ phase' = "stopping"
    /\ \/ UNCHANGED <<caster, session, ws_clients>>
       \/ /\ loop' = "ended" /\ pending' = {} /\ failed' = {}
          /\ UNCHANGED <<session, ws_clients>> \/ Leave(Everybody)
    /\ UNCHANGED <<running, closer, got, goodbye>>

(* close_all works on a copy of the set. *)
CopyOf(clients) == clients

(* The TCP server has stopped; HttpServer.cleanup begins. *)
CleanUp ==
    /\ phase = "stopping"
    /\ phase' = "closing"
    /\ running' = FALSE
    /\ toClose' = CopyOf(ws_clients)
    /\ copied' = ws_clients
    /\ UNCHANGED <<session, ws_clients, caster, closing, draining, got, goodbye>>

(* One by one: a session that is not closed yet is sent the close frame, and  *)
(* its close is awaited, which begins by draining what the client has not     *)
(* read, for as long as that takes.                                           *)
CloseNext(s) ==
    /\ phase = "closing" /\ closing = {} /\ s \in toClose
    /\ toClose' = toClose \ {s}
    /\ IF closed[s]
       THEN UNCHANGED <<closed, closing, draining, goodbye>>
       ELSE /\ closed' = [closed EXCEPT ![s] = TRUE]
            /\ closing' = {s}
            /\ draining' = {u \in {s} : stalled[s]}
            /\ goodbye' = [goodbye EXCEPT ![s] = TRUE]
    /\ UNCHANGED <<handler, alive, stalled, ws_clients, caster, running, phase, copied, got>>

(* Drained: the client answers within aiohttp's timeout, or that is over.     *)
CloseReturns ==
    /\ closing # {} /\ draining = {}
    /\ closing' = {}
    /\ UNCHANGED <<session, ws_clients, caster, running, phase, toClose, draining, copied,
                    got, goodbye>>

CloseAllOver == toClose = {} /\ closing = {}

AllClosed ==
    /\ phase = "closing"
    /\ CloseAllOver
    /\ phase' = "cleaning"
    /\ UNCHANGED <<session, ws_clients, caster, running, closer, got, goodbye>>

(* External: aiohttp's runner stops accepting and cancels the handlers that   *)
(* are left; cancellation runs their finally clause.                          *)
CancelHandler(s) ==
    /\ phase = "cleaning" /\ Active(s)
    /\ Leave({s})
    /\ UNCHANGED <<caster, stop, got, goodbye>>

(* start has returned, or asyncio.run has; an abandoned loop drops whoever    *)
(* joined since.                                                              *)
Stopped ==
    /\ phase = "abandoned" \/ (phase = "cleaning" /\ Everybody = {})
    /\ phase' = "stopped"
    /\ Leave(Everybody)
    /\ UNCHANGED <<caster, running, closer, got, goodbye>>

Next ==
    \/ \E s \in Session :
         \/ Stall(s) \/ Resume(s) \/ Vanish(s)
         \/ Open(s) \/ Message(s) \/ Answered(s) \/ End(s) \/ EndUnread(s)
         \/ SendSucceeds(s) \/ SendFails(s)
         \/ CloseNext(s) \/ CancelHandler(s)
    \/ Wake \/ Gathered
    \/ Online \/ StartFails \/ Stop \/ CleanUp \/ CloseReturns \/ AllClosed \/ Stopped

Spec == Init /\ [][Next]_vars

(* The event loop runs every task that can go on; clients and operators are  *)
(* free to do nothing.                                                       *)
Fairness ==
    /\ WF_vars(Wake) /\ WF_vars(Gathered)
    /\ \A s \in Session :
         /\ WF_vars(SendSucceeds(s) \/ SendFails(s))
         /\ WF_vars(Answered(s) \/ End(s))
         /\ WF_vars(CloseNext(s)) /\ WF_vars(CancelHandler(s))
    /\ WF_vars(CloseReturns) /\ WF_vars(AllClosed) /\ WF_vars(Stopped)

FairSpec == Spec /\ Fairness
-----------------------------------------------------------------------------
TypeOK ==
    /\ handler \in [Session -> HandlerState]
    /\ closed \in [Session -> BOOLEAN] /\ alive \in [Session -> BOOLEAN]
    /\ stalled \in [Session -> BOOLEAN]
    /\ got \in [Session -> BOOLEAN] /\ goodbye \in [Session -> BOOLEAN]
    /\ ws_clients \subseteq Session /\ pending \subseteq Session /\ failed \subseteq Session
    /\ toClose \subseteq Session /\ closing \subseteq Session /\ copied \subseteq Session
    /\ loop \in {"none", "sleep", "send", "ended"}
    /\ running \in BOOLEAN
    /\ phase \in Phase
    /\ pending \cup failed # {} => loop = "send"
    /\ phase = "starting" => loop = "none"
    /\ toClose \cup closing # {} => phase = "closing"
    /\ draining \subseteq {s \in closing : closed[s] /\ stalled[s]}

(* No leak and no ghost: whoever is in ws_clients has a handler that will    *)
(* take it out, however sends, closes and disconnections interleave.         *)
ClientsHaveHandlers == \A s \in ws_clients : Active(s)

(* When close_all returns, every session it found in the set is closed, and  *)
(* was told so unless it was on its way out already.                         *)
CloseAllClosesItsCopy ==
    phase = "cleaning" => \A s \in copied : closed[s] /\ (goodbye[s] \/ ~Active(s))

(* The inductive invariant behind the two: a closed session has been told, or *)
(* is out; what close_all copied is closed, or still to be closed.            *)
ClosedAreToldOrOut ==
    \A s \in Session :
        /\ closed[s] => goodbye[s] \/ ~Active(s)
        /\ handler[s] = "new" => ~closed[s]

NoneForgotten ==
    /\ copied \subseteq toClose \cup {s \in Session : closed[s]}
    /\ \A s \in toClose : handler[s] # "new"

IInv == TypeOK /\ ClientsHaveHandlers /\ ClosedAreToldOrOut /\ NoneForgotten

(* A slow or dead client never holds up the broadcast: the loop gets back to *)
(* its sleep, or ends.                                                       *)
BroadcastNotHeldUp == []<>(loop # "send")

(* A session that stays open, and whose client always reads, is reached by   *)
(* broadcasts for ever, whatever the other clients do.                       *)
Connected(s) == Active(s) /\ ~Broken(s) /\ phase = "serving"

ReadersAreServed ==
    \A s \in Session :
        [](~stalled[s]) /\ <>[]Connected(s) => []<>got[s]

(* Once close_all has begun, or the start was interrupted, the daemon gets    *)
(* down if every client that close_all finds reads again or goes: its close   *)
(* drains without a timeout.  Clients that join later, and those discarded by *)
(* the broadcast, may stall for ever.                                         *)
ShutdownCompletes ==
    (\A s \in Session : s \in copied ~> ~stalled[s])
        => (phase \in {"closing", "abandoned"} ~> phase = "stopped")

(* docs/api.md 6.2: telemetry goes to all connected clients; so also to one  *)
(* that stalled for a while and reads again.                                 *)
ConnectedAreServed ==
    \A s \in Session : <>[](Connected(s) /\ ~stalled[s]) => []<>got[s]
=============================================================================
