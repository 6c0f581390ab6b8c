--------------------------- MODULE WsTelemetryProofs ---------------------------
(***************************************************************************)
(* Proofs about WsTelemetry for any set of sessions.                       *)
(***************************************************************************)
EXTENDS WsTelemetry, TLAPS

LEMMA InitInv == Init => IInv
BY DEF Init, IInv, TypeOK, HandlerState, Phase, ClientsHaveHandlers, ClosedAreToldOrOut,
   NoneForgotten

(* Whoever leaves keeps every promise but those about the daemon's phase.    *)
LEMMA LeavingKeeps ==
    ASSUME IInv, NEW them \in SUBSET Session, Leave(them),
           copied' = copied, toClose' = toClose, goodbye' = goodbye
    PROVE  /\ handler' \in [Session -> HandlerState]
           /\ closed' \in [Session -> BOOLEAN]
           /\ alive' \in [Session -> BOOLEAN]
           /\ stalled' \in [Session -> BOOLEAN]
           /\ ws_clients' \subseteq Session
           /\ ClientsHaveHandlers' /\ ClosedAreToldOrOut' /\ NoneForgotten'
<1> USE DEF IInv, Leave, Leaving
<1>1. /\ handler' \in [Session -> HandlerState]
      /\ ws_clients' \subseteq Session
      /\ \A s \in Session : handler'[s] = IF s \in them THEN "done" ELSE handler[s]
  BY DEF TypeOK, HandlerState
<1>2. /\ closed' \in [Session -> BOOLEAN]
      /\ \A s \in Session : closed'[s] <=> s \in them \/ closed[s]
  BY DEF TypeOK
<1>3. alive' \in [Session -> BOOLEAN] /\ stalled' \in [Session -> BOOLEAN]
  BY DEF TypeOK
<1>4. ClientsHaveHandlers'
  BY <1>1 DEF ClientsHaveHandlers, Active, TypeOK
<1>5. ClosedAreToldOrOut'
  BY <1>1, <1>2 DEF ClosedAreToldOrOut, Active, TypeOK
<1>6. NoneForgotten'
  BY <1>1, <1>2 DEF NoneForgotten, TypeOK
<1> QED
  BY <1>1, <1>2, <1>3, <1>4, <1>5, <1>6

(* One lemma for each group of actions. *)
LEMMA ClientInv ==
    ASSUME IInv, NEW s \in Session, Stall(s) \/ Resume(s) \/ Vanish(s)
    PROVE  IInv'
<1> USE DEF Stall, Resume, Vanish, Wakes, caster, stop, closer
<1>1. TypeOK'
  BY DEF IInv, TypeOK
<1>2. UNCHANGED <<handler, closed, ws_clients, copied, toClose, goodbye>>
  OBVIOUS
<1> QED
  BY <1>1, <1>2 DEF IInv, ClientsHaveHandlers, ClosedAreToldOrOut, NoneForgotten, Active

LEMMA SessionInv ==
    ASSUME IInv, NEW s \in Session, Open(s) \/ Message(s) \/ Answered(s)
    PROVE  IInv'
<1> USE DEF IInv, caster, stop, closer
<1>1. /\ handler' \in [Session -> HandlerState] /\ ws_clients' \subseteq Session
      /\ \A t \in Session : t # s => handler'[t] = handler[t]
      /\ handler'[s] \in {"reading", "acking", "rejecting"}
      /\ Active(s) \/ handler[s] = "new"
  BY DEF Open, Message, Answered, TypeOK, HandlerState, Active
<1>2. UNCHANGED <<closed, stalled, caster, stop, got, goodbye>>
  BY DEF Open, Message, Answered
<1>3. TypeOK'
  BY <1>1, <1>2 DEF Open, Message, Answered, TypeOK
<1>4. ClientsHaveHandlers'
  BY <1>1 DEF Open, Message, Answered, ClientsHaveHandlers, Active, TypeOK
<1>5. ClosedAreToldOrOut' /\ NoneForgotten'
  BY <1>1, <1>2 DEF ClosedAreToldOrOut, NoneForgotten, Active, TypeOK
<1> QED
  BY <1>3, <1>4, <1>5

LEMMA EndInv ==
    ASSUME IInv, NEW s \in Session, End(s) \/ CancelHandler(s)
    PROVE  IInv'
<1>1. Leave({s}) /\ UNCHANGED <<caster, stop, got, goodbye>>
  BY DEF End, CancelHandler
<1>2. {s} \in SUBSET Session
  OBVIOUS
<1>3. s \notin draining
  BY DEF End, Finished, CancelHandler, IInv, TypeOK
<1>4. /\ \A t \in Session \ {s} : closed'[t] = closed[t] /\ stalled'[t] = stalled[t]
      /\ UNCHANGED <<toClose, closing, draining, copied, goodbye>>
  BY <1>1 DEF Leave, IInv, TypeOK, stop, closer
<1>5. draining' \subseteq {t \in closing' : closed'[t] /\ stalled'[t]}
  BY <1>3, <1>4 DEF IInv, TypeOK
<1> QED
  BY <1>1, <1>2, <1>4, <1>5, LeavingKeeps DEF IInv, TypeOK, caster, stop

(* The handler of a session whose close drains. *)
LEMMA EndUnreadInv ==
    ASSUME IInv, NEW s \in Session, EndUnread(s)
    PROVE  IInv'
<1>1. /\ handler' = [handler EXCEPT ![s] = "done"] /\ ws_clients' = ws_clients \ {s}
      /\ UNCHANGED <<closed, alive, stalled, caster, stop, got, goodbye>>
  BY DEF EndUnread, Leaving
<1>2. TypeOK'
  BY <1>1 DEF IInv, TypeOK, HandlerState, caster, stop, closer
<1>3. \A t \in Session : handler'[t] = IF t = s THEN "done" ELSE handler[t]
  BY <1>1 DEF IInv, TypeOK
<1> QED
  BY <1>1, <1>2, <1>3
  DEF IInv, ClientsHaveHandlers, ClosedAreToldOrOut, NoneForgotten, Active, TypeOK,
      stop, closer

LEMMA BroadcastInv ==
    ASSUME IInv,
           Wake \/ Gathered \/ \E s \in Session : SendSucceeds(s) \/ SendFails(s)
    PROVE  IInv'
<1> USE DEF IInv
<1>1. UNCHANGED <<session, stop, goodbye>> /\ ws_clients' \subseteq ws_clients
  BY DEF Wake, Gathered, SendSucceeds, SendFails
<1>2. /\ pending' \subseteq Session /\ failed' \subseteq Session
      /\ loop' \in {"none", "sleep", "send", "ended"}
      /\ got' \in [Session -> BOOLEAN]
      /\ pending' \cup failed' # {} => loop' = "send"
      /\ phase # "starting"
  BY DEF Wake, Gathered, SendSucceeds, SendFails, TypeOK
<1>3. TypeOK'
  BY <1>1, <1>2 DEF TypeOK, session, stop, closer
<1> QED
  BY <1>1, <1>3
  DEF ClientsHaveHandlers, ClosedAreToldOrOut, NoneForgotten, Active, session, stop, closer

LEMMA CloseInv ==
    ASSUME IInv,
           \/ CleanUp \/ CloseReturns \/ AllClosed
           \/ \E s \in Session : CloseNext(s)
    PROVE  IInv'
<1> USE DEF IInv, session, caster, closer
<1>1. TypeOK'
  <2>1. CASE CleanUp \/ CloseReturns \/ AllClosed
    BY <2>1 DEF CleanUp, CloseReturns, AllClosed, CopyOf, CloseAllOver, TypeOK, Phase
  <2>2. ASSUME NEW s \in Session, CloseNext(s) PROVE TypeOK'
    <3>1. draining' \subseteq {t \in closing' : closed'[t] /\ stalled'[t]}
      BY <2>2 DEF CloseNext, TypeOK
    <3>2. closed' \in [Session -> BOOLEAN] /\ goodbye' \in [Session -> BOOLEAN]
      BY <2>2 DEF CloseNext, TypeOK
    <3>3. /\ toClose' \subseteq Session /\ closing' \subseteq Session
          /\ phase = "closing"
          /\ UNCHANGED <<handler, alive, stalled, ws_clients, caster, running, phase, copied, got>>
      BY <2>2 DEF CloseNext, TypeOK
    <3> QED
      BY <3>1, <3>2, <3>3 DEF TypeOK
  <2> QED
    BY <2>1, <2>2
<1>2. ClientsHaveHandlers'
  BY DEF CleanUp, CloseReturns, AllClosed, CloseNext, ClientsHaveHandlers, Active
<1>3. ClosedAreToldOrOut' /\ NoneForgotten'
  <2>1. CASE CleanUp \/ CloseReturns \/ AllClosed
    BY <2>1 DEF CleanUp, CloseReturns, AllClosed, CopyOf, ClientsHaveHandlers,
       ClosedAreToldOrOut, NoneForgotten, Active
  <2>2. ASSUME NEW s \in Session, CloseNext(s) PROVE ClosedAreToldOrOut' /\ NoneForgotten'
    <3>1. CASE closed[s]
      BY <2>2, <3>1 DEF CloseNext, ClosedAreToldOrOut, NoneForgotten, Active
    <3>2. CASE ~closed[s]
      <4>1. /\ \A t \in Session : t # s => closed'[t] = closed[t] /\ goodbye'[t] = goodbye[t]
            /\ closed'[s] /\ goodbye'[s]
            /\ UNCHANGED <<handler, copied>> /\ toClose' = toClose \ {s}
        BY <2>2, <3>2 DEF CloseNext, TypeOK
      <4>2. handler[s] # "new"
        BY <2>2 DEF CloseNext, NoneForgotten
      <4> QED
        BY <4>1, <4>2 DEF ClosedAreToldOrOut, NoneForgotten, Active
    <3> QED
      BY <3>1, <3>2
  <2> QED
    BY <2>1, <2>2
<1> QED
  BY <1>1, <1>2, <1>3

LEMMA DaemonInv ==
    ASSUME IInv, Online \/ StartFails \/ Stop \/ Stopped
    PROVE  IInv'
<1> USE DEF IInv
<1>1. /\ UNCHANGED <<running, toClose, closing, draining, copied, got, goodbye>>
      /\ UNCHANGED <<session, ws_clients>> \/ Leave(Everybody)
      /\ phase # "closing" /\ phase' \in Phase /\ phase' # "starting"
  BY DEF Online, StartFails, Stop, Stopped, session, closer, Phase
<1>2. /\ pending' \subseteq Session /\ failed' \subseteq Session
      /\ loop' \in {"none", "sleep", "send", "ended"}
      /\ pending' \cup failed' # {} => loop' = "send"
  BY DEF Online, StartFails, Stop, Stopped, caster, TypeOK
<1>3. CASE UNCHANGED <<session, ws_clients>>
  <2>1. TypeOK'
    BY <1>1, <1>2, <1>3 DEF TypeOK, session
  <2> QED
    BY <1>1, <1>3, <2>1
    DEF ClientsHaveHandlers, ClosedAreToldOrOut, NoneForgotten, Active, session
<1>4. CASE Leave(Everybody)
  <2>1. Everybody \in SUBSET Session
    BY DEF Everybody
  <2>2. /\ handler' \in [Session -> HandlerState]
        /\ closed' \in [Session -> BOOLEAN]
        /\ alive' \in [Session -> BOOLEAN]
        /\ stalled' \in [Session -> BOOLEAN]
        /\ ws_clients' \subseteq Session
        /\ ClientsHaveHandlers' /\ ClosedAreToldOrOut' /\ NoneForgotten'
    BY <1>1, <1>4, <2>1, LeavingKeeps
  <2>3. TypeOK'
    BY <1>1, <1>2, <2>2 DEF TypeOK
  <2> QED
    BY <2>2, <2>3
<1> QED
  BY <1>1, <1>3, <1>4

LEMMA NextInv == IInv /\ [Next]_vars => IInv'
<1>1. IInv /\ Next => IInv'
  BY ClientInv, SessionInv, EndInv, EndUnreadInv, BroadcastInv, CloseInv, DaemonInv DEF Next
<1>2. IInv /\ UNCHANGED vars => IInv'
  BY DEF vars, IInv, TypeOK, ClientsHaveHandlers, ClosedAreToldOrOut, NoneForgotten, Active
<1> QED
  BY <1>1, <1>2

(* The inductive invariant of WebSocketManager's sessions, broadcasts and    *)
(* close_all, from the start of the daemon to its end.                       *)
THEOREM Invariance == Spec => []IInv
BY InitInv, NextInv, PTL DEF Spec

(* ws_clients never holds a session whose handler is gone: nothing leaks,    *)
(* whichever of handler, broadcast and shutdown gets there first.            *)
THEOREM ClientsAreHandled == Spec => []ClientsHaveHandlers
<1>1. IInv => ClientsHaveHandlers
  BY DEF IInv
<1> QED
  BY <1>1, Invariance, PTL

(* close_all, which awaits between the elements of its copy, closes every    *)
(* session that it found, and tells those that were not on their way out.    *)
THEOREM CloseAllKeepsItsWord == Spec => []CloseAllClosesItsCopy
<1>1. IInv => CloseAllClosesItsCopy
  BY DEF IInv, TypeOK, CloseAllClosesItsCopy, ClosedAreToldOrOut, NoneForgotten
<1> QED
  BY <1>1, Invariance, PTL
=============================================================================
