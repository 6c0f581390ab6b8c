----------------------------- MODULE TcpCommand -----------------------------
(***************************************************************************)
(* The TCP command server of a daemon (server/tcp.py) with the command it  *)
(* executes (server/commands.py), and its part in the start and the        *)
(* shutdown of the daemon (node.py).  Each connection carries one line and *)
(* one answer; connections run interleaved at their awaits; clients pause, *)
(* disappear or stop reading.                                              *)
(***************************************************************************)
EXTENDS Naturals

CONSTANTS
    Client,     \* the connections that may ever be opened
    Lines       \* the lines that clients may send

(* A line has content up to the limit of 64 KB.  "edge" is the limit itself, *)
(* which the newline takes over MAX_TCP_FRAME_SIZE; "long" is near it.       *)
Line  == [valid : BOOLEAN, target : {"all", "me", "other"}, size : {"short", "long", "edge"}]

ASSUME TcpAssumption == Lines \subseteq Line

VARIABLES
    conn,       \* where handle_client stands for each connection
    inbox,      \* how much of its line the client has sent
    line,       \* the line, as the client means it
    alive,      \* the client's end of the connection exists
    reads,      \* the client reads what it is sent
    answer,     \* the status of the response written, or "none"
    received,   \* the response reached the client in full
    executed,   \* history: the command was executed
    cancelled,  \* the handlers that asyncio.run has cancelled, or dropped
    phase,      \* where the daemon stands
    awaitsClients   \* wait_closed of the Python it runs on awaits open connections

client == <<inbox, line, alive, reads>>
effect == <<answer, executed>>
daemon == <<phase, awaitsClients>>
vars   == <<conn, inbox, line, alive, reads, answer, received, executed, cancelled, phase,
            awaitsClients>>

(* "draining" awaits writer.drain; "flushing" awaits writer.wait_closed. *)
Conn  == {"none", "reading", "draining", "flushing", "closed"}

(* "binding" the UDP socket, then the TCP port; "starting" the HTTP server   *)
(* while TCP clients are accepted already; "stopping" awaits wait_closed; in *)
(* "stopped" and "failed" start has returned, or has failed half way.        *)
Phase == {"binding", "starting", "serving", "stopping", "stopped", "failed", "exited"}

Blank == [valid |-> FALSE, target |-> "all", size |-> "short"]

(* "part" is a line without its end yet; "overrun" is more than 64 KB of it. *)
Inbox == {"nothing", "part", "whole", "overrun", "eof"}

Init ==
    /\ conn = [c \in Client |-> "none"]
    /\ inbox = [c \in Client |-> "nothing"]
    /\ line = [c \in Client |-> Blank]
    /\ alive = [c \in Client |-> FALSE]
    /\ reads = [c \in Client |-> TRUE]
    /\ answer = [c \in Client |-> "none"]
    /\ received = [c \in Client |-> FALSE]
    /\ executed = [c \in Client |-> FALSE]
    /\ cancelled = {}
    /\ phase = "binding"
    /\ awaitsClients \in BOOLEAN

Served(c) == conn[c] \in {"reading", "draining", "flushing"}
-----------------------------------------------------------------------------
(* The clients. *)

(* Nobody closes the listening socket of a start that failed. *)
Listening == phase \in {"starting", "serving", "failed"}

Connect(c) ==
    /\ conn[c] = "none" /\ Listening
    /\ conn' = [conn EXCEPT ![c] = "reading"]
    /\ alive' = [alive EXCEPT ![c] = TRUE]
    /\ \E l \in Lines : line' = [line EXCEPT ![c] = l]
    /\ UNCHANGED <<inbox, reads, effect, received, cancelled, daemon>>

(* More of the line, or its end: a newline, or the end of the stream, which  *)
(* ends the line too when something came before it.                          *)
Send(c) ==
    /\ conn[c] = "reading" /\ alive[c]
    /\ \E i \in Inbox :
         /\ inbox[c] \in IF i = "eof" THEN {"nothing"} ELSE {"nothing", "part"}
         /\ inbox' = [inbox EXCEPT ![c] = i]
    /\ UNCHANGED <<conn, line, alive, reads, effect, received, cancelled, daemon>>

Vanish(c) ==
    /\ Served(c) /\ alive[c]
    /\ alive' = [alive EXCEPT ![c] = FALSE]
    /\ UNCHANGED <<conn, inbox, line, reads, effect, received, cancelled, daemon>>

TurnReading(c) ==
    /\ Served(c) /\ alive[c]
    /\ reads' = [reads EXCEPT ![c] = ~@]
    /\ UNCHANGED <<conn, inbox, line, alive, effect, received, cancelled, daemon>>
-----------------------------------------------------------------------------
(* execute_standard_command behind parse_tcp_command_frame. *)

(* Faulty variants of the definitions below: each breaks a property. *)
ExecutesUnchecked(c) == line[c].target \in {"all", "me"}
AcknowledgesAll(c) == "ACK"
MovesInTurn(c) == \A d \in Client : Served(d) => inbox[d] = "whole"
AllClosed == \A c \in Client : ~Served(c)

HasLine(c) == inbox[c] = "whole"

WellFormed(c) == inbox[c] = "whole" /\ line[c].valid /\ line[c].size # "edge"

Addressed(c) == line[c].target \in {"all", "me"}

Verdict(c) ==
    IF ~WellFormed(c) THEN "ERROR" ELSE IF Addressed(c) THEN "ACK" ELSE "IGNORED"

Executes(c) == WellFormed(c) /\ Addressed(c)

(* An answer that quotes a long line does not fit the socket's buffers. *)
Bulky(c) == line[c].size = "long" /\ answer[c] # "ACK"

Respond(c) ==
    /\ conn[c] = "reading" /\ HasLine(c)
    /\ answer' = [answer EXCEPT ![c] = Verdict(c)]
    /\ executed' = [executed EXCEPT ![c] = Executes(c)]
    /\ conn' = [conn EXCEPT ![c] = "draining"]
    /\ UNCHANGED <<client, received, cancelled, daemon>>

(* No line: the end of the stream, a connection error, or the ValueError of  *)
(* an overrun, which only the finally clause sees.                           *)
GivesUp(c) == inbox[c] \in {"eof", "overrun"} \/ ~alive[c]

HangUp(c) ==
    /\ conn[c] = "reading" /\ GivesUp(c)
    /\ conn' = [conn EXCEPT ![c] = "closed"]
    /\ UNCHANGED <<client, effect, received, cancelled, daemon>>

(* The buffered answer can leave, or the connection is lost. *)
Moves(c) == ~alive[c] \/ reads[c] \/ ~Bulky(c)

Drain(c) ==
    /\ conn[c] = "draining" /\ Moves(c)
    /\ conn' = [conn EXCEPT ![c] = "flushing"]
    /\ UNCHANGED <<client, effect, received, cancelled, daemon>>

Flush(c) ==
    /\ conn[c] = "flushing" /\ Moves(c)
    /\ conn' = [conn EXCEPT ![c] = "closed"]
    /\ received' = [received EXCEPT ![c] = alive[c]]
    /\ UNCHANGED <<client, effect, cancelled, daemon>>
-----------------------------------------------------------------------------
(* The daemon. *)

(* asyncio.run cancels every handler there is.  One that was draining goes on *)
(* to await the flush in its finally clause; the others end.                  *)
CancelHandlers ==
    /\ cancelled' = cancelled \cup {c \in Client : Served(c)}
    /\ conn' = [c \in Client |-> IF conn[c] = "draining" THEN "flushing"
                                 ELSE IF Served(c) THEN "closed" ELSE conn[c]]

Listen ==
    /\ phase = "binding"
    /\ phase' = "starting"
    /\ UNCHANGED <<conn, client, effect, received, cancelled, awaitsClients>>

Online ==
    /\ phase = "starting"
    /\ phase' = "serving"
    /\ UNCHANGED <<conn, client, effect, received, cancelled, awaitsClients>>

(* A port is in use, or the operator interrupts: start has no try before its *)
(* gather, so nothing is closed, and asyncio.run ends what runs.             *)
StartFails ==
    /\ phase \in {"binding", "starting"}
    /\ phase' = IF phase = "binding" THEN "stopped" ELSE "failed"
    /\ CancelHandlers
    /\ UNCHANGED <<client, effect, received, awaitsClients>>

(* gather ends; the server closes its listening socket.  Up to Python 3.10,  *)
(* an interrupt cancels the handlers together with gather.                   *)
Stop ==
    /\ phase = "serving"
    /\ phase' = "stopping"
    /\ \/ UNCHANGED <<conn, cancelled>>
       \/ ~awaitsClients /\ CancelHandlers
    /\ UNCHANGED <<client, effect, received, awaitsClients>>

(* wait_closed, in serve_forever and again in stop; once start has returned,  *)
(* asyncio.run cancels the handlers that are left.                           *)
CloseAwaited == awaitsClients => \A c \in Client : ~Served(c)

StopReturns ==
    /\ phase = "stopping" /\ CloseAwaited
    /\ phase' = "stopped"
    /\ CancelHandlers
    /\ UNCHANGED <<client, effect, received, awaitsClients>>

(* asyncio.run awaits those it cancelled; whoever connected since is dropped. *)
Exit ==
    /\ phase \in {"stopped", "failed"} /\ \A c \in cancelled : ~Served(c)
    /\ phase' = "exited"
    /\ cancelled' = cancelled \cup {c \in Client : Served(c)}
    /\ conn' = [c \in Client |-> IF Served(c) THEN "closed" ELSE conn[c]]
    /\ UNCHANGED <<client, effect, received, awaitsClients>>

Next ==
    \/ \E c \in Client :
         \/ Connect(c) \/ Send(c) \/ Vanish(c) \/ TurnReading(c)
         \/ Respond(c) \/ HangUp(c) \/ Drain(c) \/ Flush(c)
    \/ Listen \/ Online \/ StartFails \/ Stop \/ StopReturns \/ Exit

Spec == Init /\ [][Next]_vars

(* The event loop runs what can go on; clients owe nothing. *)
Fairness ==
    /\ \A c \in Client :
         /\ WF_vars(Respond(c) \/ HangUp(c))
         /\ WF_vars(Drain(c) \/ Flush(c))
    /\ WF_vars(StopReturns) /\ WF_vars(Exit)

FairSpec == Spec /\ Fairness
-----------------------------------------------------------------------------
TypeOK ==
    /\ conn \in [Client -> Conn]
    /\ inbox \in [Client -> Inbox]
    /\ line \in [Client -> Line]
    /\ alive \in [Client -> BOOLEAN]
    /\ reads \in [Client -> BOOLEAN]
    /\ answer \in [Client -> {"none", "ACK", "IGNORED", "ERROR"}]
    /\ received \in [Client -> BOOLEAN]
    /\ executed \in [Client -> BOOLEAN]
    /\ cancelled \subseteq Client
    /\ phase \in Phase
    /\ awaitsClients \in BOOLEAN
    /\ \A c \in Client : conn[c] \in {"draining", "flushing"} => inbox[c] = "whole"

(* The client may act on what it sees: an ACK means that the command was     *)
(* executed; any other answer that it was not; and a connection that the     *)
(* server closed in silence, neither side having gone down, that it was not. *)
OutcomeIsKnown ==
    \A c \in Client :
        /\ received[c] => answer[c] # "none" /\ (executed[c] <=> answer[c] = "ACK")
        /\ conn[c] = "closed" /\ ~received[c] /\ alive[c] /\ c \notin cancelled => ~executed[c]

(* The inductive invariant behind it: what is written is what was done, and  *)
(* a connection answers between reading and closing, and then only.          *)
WritesWhatItDid == \A c \in Client : executed[c] <=> answer[c] = "ACK"

AnswersInOrder ==
    \A c \in Client :
        /\ conn[c] \in {"none", "reading"} => answer[c] = "none" /\ ~received[c]
        /\ conn[c] \in {"draining", "flushing"} => answer[c] # "none" /\ ~received[c]
        /\ received[c] => answer[c] # "none"
        /\ conn[c] = "closed" /\ alive[c] /\ c \notin cancelled =>
             (received[c] <=> answer[c] # "none")

IInv == TypeOK /\ WritesWhatItDid /\ AnswersInOrder

(* What the client of a closed connection has been told: an answer tells the *)
(* outcome, and silence that there was none, unless either side went down.   *)
Told(c) ==
    IF conn[c] # "closed" THEN "nothing"
    ELSE IF received[c] THEN IF answer[c] = "ACK" THEN "done" ELSE "refused"
    ELSE IF alive[c] /\ c \notin cancelled THEN "refused" ELSE "unknown"

Service == INSTANCE CommandService
             WITH Command <- Client,
                  times <- [c \in Client |-> IF executed[c] THEN 1 ELSE 0],
                  told <- [c \in Client |-> Told(c)]

(* The TCP server keeps the promise of CommandService to every connection,   *)
(* through failed starts, interrupts and lost clients: executed at most      *)
(* once, and the truth for whoever is left to hear it.                       *)
ImplementsCommandService == Service!Spec

(* A client that sends a whole line and reads is answered, although others   *)
(* send nothing, stop half way through a line or do not read.                *)
WholeLinesAreAnswered ==
    \A c \in Client :
        [](reads[c]) =>
            ((conn[c] = "reading" /\ inbox[c] = "whole")
                ~> (received[c] \/ ~alive[c] \/ phase \notin {"starting", "serving"}))

(* With clients that read, a daemon that stops, or fails to start, gets down *)
(* and the connections with it, idle or not.  docs/architecture.md 2.1       *)
(* promises the disconnection.  Where wait_closed awaits the clients, nobody *)
(* but the clients can bring it about: none may stay idle for ever.          *)
ShutdownEnds ==
    /\ \A c \in Client : [](reads[c])
    /\ awaitsClients => \A c \in Client : []<>(conn[c] # "reading")
    => (phase \in {"stopping", "stopped", "failed"} ~> phase = "exited")
=============================================================================
