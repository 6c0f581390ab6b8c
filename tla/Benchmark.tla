------------------------------ MODULE Benchmark ------------------------------
(***************************************************************************)
(* The data transfer lab of the dashboard: runDataTransferBenchmark and    *)
(* its callbacks (web/app.js), handle_http_benchmark behind the CORS and   *)
(* error middlewares (server/rest.py), and the benchmark messages of       *)
(* handle_ws_session (server/ws.py).  Transfers overlap and share one      *)
(* panel; connections break and close, timers fire at any time.            *)
(***************************************************************************)
EXTENDS Protocol

CONSTANTS
    Transfer,     \* the transfers of a page
    Sizes         \* the sizes of their payloads, in bytes

ASSUME BenchmarkAssumption == Sizes \subseteq Nat \ {0}

VARIABLES
    status,       \* bench.status
    stage,        \* where the page stands with each transfer
    payload,      \* what it sends
    timer,        \* the ten seconds of a WebSocket transfer are running
    answer,       \* what the node made of it
    verdict,      \* history: the status each transfer last gave the panel
    displayed     \* history: handed to the node's display_handler

vars == <<status, stage, payload, timer, answer, verdict, displayed>>

(* The OPTIONS or the POST of fetch is under way; the readyState of benchWs,  *)
(* "failing" being CLOSING when it was never open; "closed" is CLOSED by      *)
(* somebody else, "over" is the rest.                                         *)
Socket == {"connecting", "open", "closing", "failing"}
Stage == Socket \cup {"new", "preflight", "posting", "closed", "over"}

(* Of the node: results or an error as JSON, a text that is not, the          *)
(* acknowledgement, a close frame, or nothing at all.                         *)
Answer == {"pending", "complete", "error", "text", "ack", "close", "nothing"}

Verdict == {"HTTP Success", "HTTP Failed", "WebSocket Success", "WebSocket Failed",
            "WS Error", "WS Timeout"}

(* aiohttp's limits: it refuses a body or a message of that size. *)
ClientMaxSize == 1048576
MaxMsgSize    == 4194304

HttpPayload(size) ==
    Raw(size, "object",
        [preset |-> Str(Word("1KB")), client_timestamp |-> Float(1), data |-> Str(Word("X"))])

(* The target is read when the socket opens: it may have been deselected.     *)
WsPayload(size, target) ==
    Raw(size, "object",
        [action |-> Str(Word("ws_benchmark")), target_id |-> Str(target),
         preset |-> Str(Word("1KB")), timestamp |-> Float(1), data |-> Str(Word("X"))])

Targets == {Word("node"), Text("", 0, 0, FALSE)}

Nothing == Raw(0, "none", <<>>)

Init ==
    /\ status = "Ready"
    /\ stage = [t \in Transfer |-> "new"]
    /\ payload = [t \in Transfer |-> Nothing]
    /\ timer = [t \in Transfer |-> FALSE]
    /\ answer = [t \in Transfer |-> "pending"]
    /\ verdict = [t \in Transfer |-> "none"]
    /\ displayed = {}

Goes(t, s) == stage' = [stage EXCEPT ![t] = s]

Judge(t, v) == verdict' = [verdict EXCEPT ![t] = v] /\ status' = v

SetTimer(t, on) == timer' = [timer EXCEPT ![t] = on]
-----------------------------------------------------------------------------
(* Faulty variants of the definitions below: each breaks a property. *)
ErrorsAreJson(raw) == IF raw.size >= ClientMaxSize THEN {"error"} ELSE {"complete", "error"}
KeepsTimer(t) == UNCHANGED timer
OnlyWhenOpen(t) == stage[t] = "open"

(* The button. *)
SelectTarget ==
    /\ status' = "Select Target"
    /\ UNCHANGED <<stage, payload, timer, answer, verdict, displayed>>

RunHttp(t) ==
    /\ stage[t] = "new"
    /\ status' = "Transferring..."
    /\ Goes(t, "preflight")
    /\ \E size \in Sizes : payload' = [payload EXCEPT ![t] = HttpPayload(size)]
    /\ UNCHANGED <<timer, answer, verdict, displayed>>

RunWs(t) ==
    /\ stage[t] = "new"
    /\ status' = "Transferring..."
    /\ Goes(t, "connecting")
    /\ SetTimer(t, TRUE)
    /\ UNCHANGED <<payload, answer, verdict, displayed>>
(* The browser refuses to construct the socket. *)
WsThrows(t) ==
    /\ stage[t] = "new"
    /\ Judge(t, "WS Error")
    /\ Goes(t, "over")
    /\ UNCHANGED <<payload, timer, answer, displayed>>
-----------------------------------------------------------------------------
(* cors_middleware answers OPTIONS itself; the browser then posts. *)
Preflight(t) ==
    /\ stage[t] = "preflight"
    /\ Goes(t, "posting")
    /\ UNCHANGED <<status, payload, timer, answer, verdict, displayed>>

(* A body that aiohttp refuses raises an HTTPException, whose text passes     *)
(* both middlewares; a payload that is no benchmark, or a display that        *)
(* raises, becomes JSON in error_middleware.                                  *)
HttpAnswers(raw) ==
    CASE raw.size >= ClientMaxSize -> {"text"}
      [] raw.size < ClientMaxSize /\ ~IsBenchmark(raw) -> {"error"}
      [] OTHER -> {"complete", "error"}

(* Both handlers hand what they accept to display_handler. *)
Displays(t, accepted) == displayed' = displayed \cup {u \in {t} : accepted}

HandleHttpBenchmark(t) ==
    /\ stage[t] = "posting" /\ answer[t] = "pending"
    /\ \E a \in HttpAnswers(payload[t]) : answer' = [answer EXCEPT ![t] = a]
    /\ Displays(t, payload[t].size < ClientMaxSize /\ IsBenchmark(payload[t]))
    /\ UNCHANGED <<status, stage, payload, timer, verdict>>

(* Whatever its code, an answer that parses as JSON is a success. *)
OnResponse(t) ==
    /\ stage[t] = "posting" /\ answer[t] # "pending"
    /\ Judge(t, IF answer[t] \in {"complete", "error"} THEN "HTTP Success" ELSE "HTTP Failed")
    /\ Goes(t, "over")
    /\ UNCHANGED <<payload, timer, answer, displayed>>

(* fetch or resp.json() is rejected: nobody there, or the connection broke. *)
OnFetchError(t) ==
    /\ stage[t] \in {"preflight", "posting"}
    /\ Judge(t, "HTTP Failed")
    /\ Goes(t, "over")
    /\ UNCHANGED <<payload, timer, answer, displayed>>
-----------------------------------------------------------------------------
OnOpen(t) ==
    /\ stage[t] = "connecting"
    /\ Goes(t, "open")
    /\ \E size \in Sizes, target \in Targets :
         payload' = [payload EXCEPT ![t] = WsPayload(size, target)]
    /\ UNCHANGED <<status, timer, answer, verdict, displayed>>

(* A display that raises is only logged, and no answer goes out. *)
WsAnswers(raw) ==
    CASE raw.size >= MaxMsgSize -> {"close"}
      [] raw.size < MaxMsgSize /\ ~IsWsBenchmark(raw) -> {"error"}
      [] OTHER -> {"ack", "nothing"}

(* The message was sent when the socket opened, whatever became of it. *)
HandleWsBenchmark(t) ==
    /\ stage[t] \in {"open", "closing"} /\ answer[t] = "pending"
    /\ \E a \in WsAnswers(payload[t]) : answer' = [answer EXCEPT ![t] = a]
    /\ Displays(t, payload[t].size < MaxMsgSize /\ IsWsBenchmark(payload[t]))
    /\ UNCHANGED <<status, stage, payload, timer, verdict>>

ClearTimer(t) == SetTimer(t, FALSE)

(* Any other message is ignored, and so is one after benchWs.close(). *)
OnAck(t) ==
    /\ stage[t] = "open" /\ answer[t] = "ack"
    /\ ClearTimer(t)
    /\ Judge(t, "WebSocket Success")
    /\ Goes(t, "closing")
    /\ UNCHANGED <<payload, answer, displayed>>

(* The connection is refused or lost, or was closed before it was open. *)
OnError(t) ==
    /\ stage[t] \in Socket
    /\ SetTimer(t, FALSE)
    /\ Judge(t, "WebSocket Failed")
    /\ Goes(t, "over")
    /\ UNCHANGED <<payload, answer, displayed>>

(* An open socket closes without an error: the node sent a close frame, or    *)
(* answers that of the page.  There is no onclose.                            *)
OnClose(t) ==
    /\ stage[t] \in {"open", "closing"}
    /\ Goes(t, IF stage[t] = "open" THEN "closed" ELSE "over")
    /\ UNCHANGED <<status, payload, timer, answer, verdict, displayed>>

TimerCounts(t) == stage[t] \in Socket

(* The callback of setTimeout. *)
OnTimer(t) ==
    /\ timer[t]
    /\ SetTimer(t, FALSE)
    /\ IF TimerCounts(t)
       THEN /\ Goes(t, IF stage[t] = "connecting" THEN "failing" ELSE "closing")
            /\ Judge(t, "WS Timeout")
       ELSE UNCHANGED <<stage, status, verdict>>
    /\ UNCHANGED <<payload, answer, displayed>>

Http(t) == Preflight(t) \/ HandleHttpBenchmark(t) \/ OnResponse(t) \/ OnFetchError(t)

Next ==
    \/ SelectTarget
    \/ \E t \in Transfer :
         \/ RunHttp(t) \/ RunWs(t) \/ WsThrows(t) \/ Http(t)
         \/ OnOpen(t) \/ HandleWsBenchmark(t)
         \/ OnAck(t) \/ OnError(t) \/ OnClose(t) \/ OnTimer(t)

Spec == Init /\ [][Next]_vars

(* A request is answered or breaks; timers fire.  Of a WebSocket that is      *)
(* connecting or open nothing at all is assumed.                              *)
Fairness ==
    \A t \in Transfer :
        WF_vars(Http(t)) /\ WF_vars(OnTimer(t)) /\ WF_vars(stage[t] = "failing" /\ OnError(t))

FairSpec == Spec /\ Fairness
-----------------------------------------------------------------------------
(* The page sends nothing but these. *)
Sent(t) ==
    /\ stage[t] \in {"preflight", "posting"} =>
           \E size \in Sizes : payload[t] = HttpPayload(size)
    /\ stage[t] \in {"open", "closing"} =>
           \E size \in Sizes, target \in Targets : payload[t] = WsPayload(size, target)

TypeOK ==
    /\ status \in Verdict \cup {"Ready", "Select Target", "Transferring..."}
    /\ stage \in [Transfer -> Stage]
    /\ timer \in [Transfer -> BOOLEAN]
    /\ answer \in [Transfer -> Answer]
    /\ verdict \in [Transfer -> Verdict \cup {"none"}]
    /\ displayed \subseteq Transfer
    /\ DOMAIN payload = Transfer
    /\ \A t \in Transfer : Sent(t)

(* Although the page never looks at resp.ok, a success means that the node    *)
(* accepted the payload in full and handed it to its display: the limits of   *)
(* aiohttp answer in no JSON, and no payload of the page is refused by the    *)
(* validators behind them.                                                    *)
Succeeded(t) == verdict[t] \in {"HTTP Success", "WebSocket Success"}

SuccessMeansReceived == \A t \in Transfer : Succeeded(t) => t \in displayed

(* An answer that the page may take for a success is that of a payload which  *)
(* was handed over.                                                           *)
AnswersAreEarned ==
    \A t \in Transfer :
        /\ answer[t] = "ack" => t \in displayed
        /\ stage[t] = "posting" /\ answer[t] \in {"complete", "error"} => t \in displayed
        /\ stage[t] \in {"new", "preflight"} => answer[t] = "pending"

(* The timer runs only for a transfer that has no verdict yet, and a verdict  *)
(* leaves the socket closed or on its way there.                              *)
NothingPending ==
    \A t \in Transfer :
        /\ timer[t] => stage[t] \in {"connecting", "open", "closed"}
        /\ verdict[t] # "none" => stage[t] \in {"closing", "failing", "over"}
        /\ verdict[t] = "none" => stage[t] \notin {"closing", "failing", "over"}

IInv == TypeOK /\ SuccessMeansReceived /\ AnswersAreEarned /\ NothingPending

(* A transfer that has given its verdict gives no other, save that a socket   *)
(* that breaks on its way to being closed still counts as failed: a late      *)
(* acknowledgement, timer or close never replaces a verdict.                  *)
VerdictsStand ==
    [][\A t \in Transfer :
          verdict[t] # "none" /\ verdict'[t] # verdict[t] => verdict'[t] = "WebSocket Failed"]_vars

(* A transfer that is begun comes to show on the panel, and only a socket     *)
(* that the node closes without an answer leaves it at "Transferring...": the *)
(* one ending that no callback of the page hears of.                          *)
PanelSettles ==
    \A t \in Transfer :
        stage[t] \in {"preflight", "posting", "connecting", "open"}
            ~> (status # "Transferring..." \/ stage[t] = "closed")
=============================================================================
