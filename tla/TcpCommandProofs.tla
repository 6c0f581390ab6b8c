--------------------------- MODULE TcpCommandProofs ---------------------------
(***************************************************************************)
(* Proofs about TcpCommand for any connections and any lines.              *)
(***************************************************************************)
EXTENDS TcpCommand, TLAPS

LEMMA InitInv == Init => IInv
BY DEF Init, IInv, TypeOK, WritesWhatItDid, AnswersInOrder, Conn, Inbox, Line, Blank, Phase

LEMMA NextInv == IInv /\ [Next]_vars => IInv'
<1> SUFFICES ASSUME IInv, [Next]_vars PROVE IInv'
  OBVIOUS
<1> USE DEF IInv, TypeOK, WritesWhatItDid, AnswersInOrder
<1>1. ASSUME NEW c \in Client, Connect(c) PROVE IInv'
  BY <1>1, TcpAssumption DEF Connect, effect, daemon, Conn
<1>2. ASSUME NEW c \in Client, Send(c) PROVE IInv'
  BY <1>2 DEF Send, effect, daemon
<1>3. ASSUME NEW c \in Client, Vanish(c) PROVE IInv'
  BY <1>3 DEF Vanish, Served, effect, daemon
<1>4. ASSUME NEW c \in Client, TurnReading(c) PROVE IInv'
  BY <1>4 DEF TurnReading, effect, daemon
<1>5. ASSUME NEW c \in Client, Respond(c) PROVE IInv'
  <2>1. Verdict(c) \in {"ACK", "IGNORED", "ERROR"} /\ (Executes(c) <=> Verdict(c) = "ACK")
    BY DEF Verdict, Executes
  <2>2. Executes(c) \in BOOLEAN
    BY DEF Executes, WellFormed, Addressed
  <2> QED
    BY <1>5, <2>1, <2>2 DEF Respond, HasLine, client, daemon, Conn
<1>6. ASSUME NEW c \in Client, HangUp(c) PROVE IInv'
  BY <1>6 DEF HangUp, client, effect, daemon, Conn
<1>7. ASSUME NEW c \in Client, Drain(c) PROVE IInv'
  BY <1>7 DEF Drain, client, effect, daemon, Conn
<1>8. ASSUME NEW c \in Client, Flush(c) PROVE IInv'
  BY <1>8 DEF Flush, client, effect, daemon, Conn
<1>9. CASE Listen \/ Online
  BY <1>9 DEF Listen, Online, client, effect, Phase
<1>10. CASE StartFails \/ Stop \/ StopReturns \/ Exit
  <2> DEFINE Ended(c) ==
        IF Served(c) THEN \/ conn'[c] = "closed"
                          \/ conn[c] = "draining" /\ conn'[c] = "flushing"
        ELSE conn'[c] = conn[c]
  <2>1. UNCHANGED <<client, effect, received, awaitsClients>> /\ phase' \in Phase
    BY <1>10 DEF StartFails, Stop, StopReturns, Exit, Phase
  <2>2. \/ UNCHANGED <<conn, cancelled>>
        \/ /\ cancelled' = cancelled \cup {c \in Client : Served(c)}
           /\ conn' \in [Client -> Conn]
           /\ \A c \in Client : Ended(c)
    BY <1>10 DEF StartFails, Stop, StopReturns, Exit, CancelHandlers, Served, Conn
  <2>3. CASE UNCHANGED <<conn, cancelled>>
    BY <2>1, <2>3 DEF client, effect
  <2>4. CASE ~UNCHANGED <<conn, cancelled>>
    <3>1. TypeOK'
      BY <2>1, <2>2, <2>4 DEF client, effect, Served
    <3>2. WritesWhatItDid'
      BY <2>1 DEF effect
    <3>3. AnswersInOrder'
      BY <2>1, <2>2, <2>4 DEF client, effect, Served
    <3> QED
      BY <3>1, <3>2, <3>3
  <2> QED
    BY <2>3, <2>4
<1>11. CASE UNCHANGED vars
  BY <1>11 DEF vars, client, effect
<1> QED
  BY <1>1, <1>2, <1>3, <1>4, <1>5, <1>6, <1>7, <1>8, <1>9, <1>10, <1>11 DEF Next

(* handle_client writes what it did, once, between reading and closing.      *)
THEOREM Invariance == Spec => []IInv
BY InitInv, NextInv, PTL DEF Spec

(* Type correctness of every connection's state.                             *)
THEOREM TypeCorrect == Spec => []TypeOK
<1>1. IInv => TypeOK
  BY DEF IInv
<1> QED
  BY <1>1, Invariance, PTL

(* What a client of handle_client sees tells it whether its command was      *)
(* executed, however many others there are and whatever they do.             *)
THEOREM OutcomesAreKnown == Spec => []OutcomeIsKnown
<1>1. IInv => OutcomeIsKnown
  BY DEF IInv, WritesWhatItDid, AnswersInOrder, OutcomeIsKnown
<1> QED
  BY <1>1, Invariance, PTL

(* The refinement mapping, as the next lemmas use it. *)
Times == [c \in Client |-> IF executed[c] THEN 1 ELSE 0]
Tale  == [c \in Client |-> Told(c)]

(* What a closed connection was told agrees with what was executed.          *)
LEMMA TalesAreTrue ==
    ASSUME IInv, NEW c \in Client
    PROVE  /\ Told(c) = "done" => executed[c]
           /\ Told(c) = "refused" => ~executed[c]
           /\ conn[c] # "closed" => Told(c) = "nothing"
           /\ Told(c) \in {"nothing", "done", "refused", "unknown"}
           /\ conn[c] = "closed" => Told(c) # "nothing"
BY DEF IInv, TypeOK, WritesWhatItDid, AnswersInOrder, Told

(* The clients, and the handler between its first and its last await, change *)
(* nothing that CommandService speaks of.                                    *)
LEMMA QuietSteps ==
    ASSUME IInv, NEW c \in Client,
           \/ Connect(c) \/ Send(c) \/ Vanish(c) \/ TurnReading(c) \/ Drain(c)
           \/ Listen \/ Online
    PROVE  UNCHANGED <<Times, Tale>>
<1>1. executed' = executed /\ received' = received /\ cancelled' = cancelled /\ answer' = answer
  BY DEF Connect, Send, Vanish, TurnReading, Drain, Listen, Online, effect
<1>2. ASSUME NEW d \in Client
      PROVE  \/ conn[d] # "closed" /\ conn'[d] # "closed"
             \/ conn'[d] = conn[d] /\ alive'[d] = alive[d]
  BY DEF IInv, TypeOK, Connect, Send, Vanish, TurnReading, Drain, Listen, Online, Served, client
<1>3. ASSUME NEW d \in Client PROVE Told(d)' = Told(d)
  BY <1>1, <1>2 DEF Told
<1> QED
  BY <1>1, <1>3 DEF Times, Tale

LEMMA RespondExecutes ==
    ASSUME IInv, NEW c \in Client, Respond(c)
    PROVE  Service!Execute(c) \/ UNCHANGED <<Times, Tale>>
<1>1. conn[c] = "reading" /\ ~executed[c]
  BY DEF IInv, TypeOK, WritesWhatItDid, AnswersInOrder, Respond
<1>2. Tale' = Tale
  <2>1. ASSUME NEW d \in Client PROVE Told(d)' = Told(d)
    BY <1>1 DEF IInv, TypeOK, Respond, client, Told
  <2> QED
    BY <2>1 DEF Tale
<1>3. Tale[c] # "refused" /\ Times[c] = 0
  BY <1>1, TalesAreTrue DEF Tale, Times
<1>4. CASE Executes(c)
  <2>1. executed' = [executed EXCEPT ![c] = TRUE]
    BY <1>4 DEF Respond
  <2>2. Times' = [Times EXCEPT ![c] = 1]
    BY <2>1 DEF Times, IInv, TypeOK
  <2> QED
    BY <1>2, <1>3, <2>2 DEF Service!Execute, Times, Tale
<1>5. CASE ~Executes(c)
  <2>1. \A d \in Client : executed'[d] <=> executed[d]
    BY <1>1, <1>5 DEF IInv, TypeOK, Respond
  <2> QED
    BY <1>2, <2>1 DEF Times
<1> QED
  BY <1>4, <1>5

LEMMA ClosingTells ==
    ASSUME IInv, IInv', NEW c \in Client, HangUp(c) \/ Flush(c)
    PROVE  \E t \in Service!Told \ {"nothing"} : Service!Tell(c, t)
<1>1. executed' = executed /\ Times' = Times
  BY DEF HangUp, Flush, effect, Times
<1>2. conn[c] # "closed" /\ conn'[c] = "closed"
  BY DEF IInv, TypeOK, HangUp, Flush
<1>3. Told(c)' # "nothing" /\ Told(c)' \in Service!Told
  BY <1>2 DEF Told, Service!Told
<1>4. Tale' = [Tale EXCEPT ![c] = Told(c)']
  <2>1. ASSUME NEW d \in Client, d # c PROVE Told(d)' = Told(d)
    BY <2>1 DEF IInv, TypeOK, HangUp, Flush, client, effect, Told
  <2> QED
    BY <2>1 DEF Tale
<1>5. /\ Told(c)' = "done" => executed[c]
      /\ Told(c)' = "refused" => ~executed[c]
  BY <1>1 DEF IInv, TypeOK, WritesWhatItDid, AnswersInOrder, Told
<1>6. Service!Tell(c, Told(c)')
  BY <1>1, <1>2, <1>4, <1>5, TalesAreTrue DEF Service!Tell, Times, Tale
<1> QED
  BY <1>3, <1>6

LEMMA EndingsBreakOff ==
    ASSUME IInv, IInv', StartFails \/ Stop \/ StopReturns \/ Exit
    PROVE  \E lost \in SUBSET Client : Service!BreakOff(lost)
<1> DEFINE lost == {d \in Client : Served(d) /\ conn'[d] = "closed"}
<1>1. executed' = executed /\ received' = received /\ answer' = answer /\ alive' = alive
  BY DEF StartFails, Stop, StopReturns, Exit, client, effect
<1>2. ASSUME NEW d \in Client
      PROVE  /\ d \in lost => d \in cancelled'
             /\ d \notin lost => (conn'[d] = "closed" <=> conn[d] = "closed")
             /\ ~Served(d) => (d \in cancelled' <=> d \in cancelled)
  BY DEF IInv, TypeOK, Conn, StartFails, Stop, StopReturns, Exit, CancelHandlers, Served
<1>3. ASSUME NEW d \in Client
      PROVE  Told(d)' = IF d \in lost THEN "unknown" ELSE Told(d)
  <2>1. CASE d \in lost
    <3>1. ~received[d]
      BY <2>1 DEF IInv, AnswersInOrder, TypeOK, Served
    <3> QED
      BY <1>1, <1>2, <2>1, <3>1 DEF Told
  <2>2. CASE d \notin lost
    BY <1>1, <1>2, <2>2 DEF Told, Served
  <2> QED
    BY <2>1, <2>2
<1>4. \A d \in lost : Tale[d] = "nothing"
  BY TalesAreTrue DEF Tale, Served
<1>5. Service!BreakOff(lost)
  BY <1>1, <1>3, <1>4 DEF Service!BreakOff, Tale, Times
<1>6. lost \in SUBSET Client
  OBVIOUS
<1> QED
  BY <1>5, <1>6

(* A TCP connection keeps the promise of CommandService: its command is      *)
(* executed at most once, and its client is told nothing untrue, for any     *)
(* clients and lines and however the daemon starts, fails and stops.         *)
THEOREM RefinesCommandService == Spec => ImplementsCommandService
<1>1. Init => Service!Init
  <2>1. ASSUME Init, NEW c \in Client PROVE ~executed[c] /\ Told(c) = "nothing"
    BY <2>1 DEF Init, Told
  <2> QED
    BY <2>1 DEF Service!Init
<1>2. IInv /\ IInv' /\ [Next]_vars => [Service!Next]_(Service!vars)
  <2> SUFFICES ASSUME IInv, IInv', [Next]_vars
               PROVE  Service!Next \/ UNCHANGED <<Times, Tale>>
    BY DEF Service!vars, Times, Tale
  <2>1. ASSUME NEW c \in Client,
               Connect(c) \/ Send(c) \/ Vanish(c) \/ TurnReading(c) \/ Drain(c)
        PROVE  UNCHANGED <<Times, Tale>>
    BY <2>1, QuietSteps
  <2>2. ASSUME NEW c \in Client, Respond(c) \/ HangUp(c) \/ Flush(c)
        PROVE  Service!Next \/ UNCHANGED <<Times, Tale>>
    BY <2>2, RespondExecutes, ClosingTells DEF Service!Next
  <2>3. CASE Listen \/ Online
    <3>1. executed' = executed /\ UNCHANGED <<conn, received, alive, answer, cancelled>>
      BY <2>3 DEF Listen, Online, client, effect
    <3> QED
      BY <3>1 DEF Times, Tale, Told
  <2>4. CASE StartFails \/ Stop \/ StopReturns \/ Exit
    BY <2>4, EndingsBreakOff DEF Service!Next
  <2>5. CASE UNCHANGED vars
    BY <2>5 DEF vars, Times, Tale, Told
  <2> QED
    BY <2>1, <2>2, <2>3, <2>4, <2>5 DEF Next
<1> QED
  BY <1>1, <1>2, Invariance, PTL DEF Spec, ImplementsCommandService, Service!Spec
=============================================================================
