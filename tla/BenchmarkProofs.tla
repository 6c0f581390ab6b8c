--------------------------- MODULE BenchmarkProofs ---------------------------
(***************************************************************************)
(* What a verdict on the benchmark panel is worth, for any number of       *)
(* overlapping transfers and any payload sizes (Benchmark).                *)
(***************************************************************************)
EXTENDS Benchmark, TLAPS

(* The validators refuse nothing that the page sends and aiohttp lets pass:   *)
(* the limits of the application (10 MB) lie above those of the library.      *)
LEMMA PayloadsAreValid ==
    ASSUME NEW size \in Sizes
    PROVE  /\ HttpPayload(size).size = size
           /\ size < ClientMaxSize => IsBenchmark(HttpPayload(size))
           /\ \A target \in Targets :
                /\ WsPayload(size, target).size = size
                /\ size < MaxMsgSize => IsWsBenchmark(WsPayload(size, target))
<1>1. size \in Nat /\ size >= 1
  BY BenchmarkAssumption
<1>2. /\ ClientMaxSize \in Nat /\ MaxMsgSize \in Nat /\ MAX_HTTP_PAYLOAD_SIZE \in Nat
      /\ ClientMaxSize <= MAX_HTTP_PAYLOAD_SIZE /\ MaxMsgSize <= MAX_HTTP_PAYLOAD_SIZE
  BY SMT DEF ClientMaxSize, MaxMsgSize, MAX_HTTP_PAYLOAD_SIZE
<1>3. HttpPayload(size).size = size
  BY DEF HttpPayload, Raw
<1>4. ASSUME size < ClientMaxSize
      PROVE  IsBenchmark(HttpPayload(size))
  <2>1. ParsesTo(HttpPayload(size), MAX_HTTP_PAYLOAD_SIZE)
    BY <1>1, <1>4, <1>2, SMT DEF ParsesTo, HttpPayload, Raw
  <2> QED
    BY <2>1 DEF IsBenchmark, HttpPayload, Raw, Get, IsStr, IsFloat, Str, Float
<1>5. ASSUME NEW target \in Targets
      PROVE  /\ WsPayload(size, target).size = size
             /\ size < MaxMsgSize => IsWsBenchmark(WsPayload(size, target))
  <2>1. WsPayload(size, target).size = size
    BY DEF WsPayload, Raw
  <2>2. ASSUME size < MaxMsgSize
        PROVE  IsWsBenchmark(WsPayload(size, target))
    <3> DEFINE raw == WsPayload(size, target)
    <3>1. ParsesTo(raw, MAX_HTTP_PAYLOAD_SIZE)
      BY <1>1, <2>2, <1>2, SMT DEF ParsesTo, WsPayload, Raw
    <3>2. LET action == Get(raw.dict, "action", Null)
          IN  IsFilled(action) /\ Strip(action.text) = Word("ws_benchmark")
      <4>1. Get(raw.dict, "action", Null) = Str(Word("ws_benchmark"))
        BY DEF WsPayload, Raw, Get
      <4>2. IsFilled(Str(Word("ws_benchmark")))
        BY DEF IsFilled, IsStr, Blank, Str, Word, Text
      <4>3. Str(Word("ws_benchmark")).text = Word("ws_benchmark")
        BY DEF Str
      <4>4. Strip(Word("ws_benchmark")) = Word("ws_benchmark")
        BY DEF Strip, Word, Text
      <4> QED
        BY <4>1, <4>2, <4>3, <4>4
    <3>3. \A field \in {"target_id", "preset", "data"} : IsNullOrStr(Get(raw.dict, field, Null))
      BY DEF WsPayload, Raw, Get, IsNullOrStr, Str
    <3>4. IsFloat(Get(raw.dict, "timestamp", Float(0)))
      BY DEF WsPayload, Raw, Get, IsFloat, Float
    <3> QED
      BY <3>1, <3>2, <3>3, <3>4 DEF IsWsBenchmark
  <2> QED
    BY <2>1, <2>2
<1> QED
  BY <1>3, <1>4, <1>5
-----------------------------------------------------------------------------
USE DEF TypeOK, Stage, Socket, Answer, Verdict

LEMMA InitInv == Init => IInv
  BY DEF Init, IInv, SuccessMeansReceived, AnswersAreEarned, NothingPending, Succeeded, Sent

(* A node's answer to a request goes with what it displayed. *)
LEMMA HandlersKeep ==
    ASSUME IInv, NEW t \in Transfer, HandleHttpBenchmark(t) \/ HandleWsBenchmark(t)
    PROVE  IInv'
<1>1. CASE HandleHttpBenchmark(t)
  <2>1. PICK size \in Sizes : payload[t] = HttpPayload(size)
    BY <1>1 DEF IInv, Sent, HandleHttpBenchmark
  <2>2. PICK a \in HttpAnswers(payload[t]) : answer' = [answer EXCEPT ![t] = a]
    BY <1>1 DEF HandleHttpBenchmark
  <2>3. size \in Nat /\ payload[t].size = size
        /\ (size < ClientMaxSize => IsBenchmark(payload[t]))
    BY <2>1, PayloadsAreValid, BenchmarkAssumption
  <2>4. a \in Answer /\ a # "ack"
        /\ (a \in {"complete", "error"} => size < ClientMaxSize)
    <3>1. CASE size >= ClientMaxSize
      BY <2>3, <3>1 DEF HttpAnswers
    <3>2. CASE size < ClientMaxSize
      <4>1. ~(size >= ClientMaxSize)
        BY <2>3, <3>2, SMT DEF ClientMaxSize
      <4> QED
        BY <2>3, <3>2, <4>1 DEF HttpAnswers
    <3> QED
      BY <2>3, <3>1, <3>2, SMT DEF ClientMaxSize
  <2>5. displayed \subseteq displayed' /\ displayed' \subseteq Transfer
        /\ (a \in {"complete", "error"} => t \in displayed')
    BY <1>1, <2>3, <2>4 DEF HandleHttpBenchmark, Displays, IInv
  <2>6. UNCHANGED <<status, stage, payload, timer, verdict>>
    BY <1>1 DEF HandleHttpBenchmark
  <2>7. TypeOK'
    BY <2>2, <2>4, <2>5, <2>6 DEF IInv, Sent
  <2>8. stage[t] = "posting"
    BY <1>1 DEF HandleHttpBenchmark
  <2>9. AnswersAreEarned'
    BY <2>2, <2>4, <2>5, <2>6, <2>8 DEF IInv, AnswersAreEarned
  <2>10. SuccessMeansReceived' /\ NothingPending'
    BY <2>5, <2>6 DEF IInv, SuccessMeansReceived, NothingPending, Succeeded
  <2> QED
    BY <2>7, <2>9, <2>10 DEF IInv
<1>2. CASE HandleWsBenchmark(t)
  <2>1. PICK size \in Sizes, target \in Targets : payload[t] = WsPayload(size, target)
    BY <1>2 DEF IInv, Sent, HandleWsBenchmark
  <2>2. PICK a \in WsAnswers(payload[t]) : answer' = [answer EXCEPT ![t] = a]
    BY <1>2 DEF HandleWsBenchmark
  <2>3. size \in Nat /\ payload[t].size = size
        /\ (size < MaxMsgSize => IsWsBenchmark(payload[t]))
    BY <2>1, PayloadsAreValid, BenchmarkAssumption
  <2>4. a \in Answer /\ (a = "ack" => size < MaxMsgSize)
    <3>1. CASE size >= MaxMsgSize
      BY <2>3, <3>1 DEF WsAnswers
    <3>2. CASE size < MaxMsgSize
      <4>1. ~(size >= MaxMsgSize)
        BY <2>3, <3>2, SMT DEF MaxMsgSize
      <4> QED
        BY <2>3, <3>2, <4>1 DEF WsAnswers
    <3> QED
      BY <2>3, <3>1, <3>2, SMT DEF MaxMsgSize
  <2>5. displayed \subseteq displayed' /\ displayed' \subseteq Transfer
        /\ (a = "ack" => t \in displayed')
    BY <1>2, <2>3, <2>4 DEF HandleWsBenchmark, Displays, IInv
  <2>6. UNCHANGED <<status, stage, payload, timer, verdict>> 
    BY <1>2 DEF HandleWsBenchmark
  <2>7. TypeOK'
    BY <2>2, <2>4, <2>5, <2>6 DEF IInv, Sent
  <2>8. stage[t] \in {"open", "closing"}
    BY <1>2 DEF HandleWsBenchmark
  <2>9. AnswersAreEarned'
    BY <2>2, <2>4, <2>5, <2>6, <2>8 DEF IInv, AnswersAreEarned
  <2>10. SuccessMeansReceived' /\ NothingPending'
    BY <2>5, <2>6 DEF IInv, SuccessMeansReceived, NothingPending, Succeeded
  <2> QED
    BY <2>7, <2>9, <2>10 DEF IInv
<1> QED
  BY <1>1, <1>2

LEMMA NextInv == IInv /\ [Next]_vars => IInv'
<1> SUFFICES ASSUME IInv, [Next]_vars
             PROVE  IInv'
  OBVIOUS
<1> USE DEF IInv, SuccessMeansReceived, AnswersAreEarned, NothingPending, Succeeded,
            Goes, Judge, SetTimer
<1>1. CASE SelectTarget
  BY <1>1 DEF SelectTarget, Sent
<1>2. ASSUME NEW t \in Transfer, RunHttp(t)
      PROVE  IInv'
  <2>1. PICK size \in Sizes : payload' = [payload EXCEPT ![t] = HttpPayload(size)]
    BY <1>2 DEF RunHttp
  <2>2. /\ stage[t] = "new" /\ stage' = [stage EXCEPT ![t] = "preflight"]
        /\ status' = "Transferring..." /\ UNCHANGED <<timer, answer, verdict, displayed>>
    BY <1>2 DEF RunHttp
  <2>3. ASSUME NEW u \in Transfer
        PROVE  Sent(u)'
    BY <2>1, <2>2 DEF Sent
  <2> QED
    BY <2>1, <2>2, <2>3
<1>3. ASSUME NEW t \in Transfer, RunWs(t)
      PROVE  IInv'
  <2>1. ASSUME NEW u \in Transfer
        PROVE  Sent(u)'
    BY <1>3 DEF RunWs, Sent
  <2> QED
    BY <1>3, <2>1 DEF RunWs
<1>4. ASSUME NEW t \in Transfer, Preflight(t)
      PROVE  IInv'
  <2>1. ASSUME NEW u \in Transfer
        PROVE  Sent(u)'
    BY <1>4 DEF Preflight, Sent
  <2> QED
    BY <1>4, <2>1 DEF Preflight
<1>5. ASSUME NEW t \in Transfer, OnResponse(t)
      PROVE  IInv'
  <2>1. ASSUME NEW u \in Transfer
        PROVE  Sent(u)'
    BY <1>5 DEF OnResponse, Sent
  <2> QED
    BY <1>5, <2>1 DEF OnResponse
<1>6. ASSUME NEW t \in Transfer, OnFetchError(t)
      PROVE  IInv'
  <2>1. ASSUME NEW u \in Transfer
        PROVE  Sent(u)'
    BY <1>6 DEF OnFetchError, Sent
  <2> QED
    BY <1>6, <2>1 DEF OnFetchError
<1>7. ASSUME NEW t \in Transfer, OnOpen(t)
      PROVE  IInv'
  <2>1. PICK size \in Sizes, target \in Targets :
          payload' = [payload EXCEPT ![t] = WsPayload(size, target)]
    BY <1>7 DEF OnOpen
  <2>2. /\ stage[t] = "connecting" /\ stage' = [stage EXCEPT ![t] = "open"]
        /\ UNCHANGED <<status, timer, answer, verdict, displayed>>
    BY <1>7 DEF OnOpen
  <2>3. ASSUME NEW u \in Transfer
        PROVE  Sent(u)'
    BY <2>1, <2>2 DEF Sent
  <2> QED
    BY <2>1, <2>2, <2>3
<1>8. ASSUME NEW t \in Transfer, OnAck(t)
      PROVE  IInv'
  <2>1. ASSUME NEW u \in Transfer
        PROVE  Sent(u)'
    BY <1>8 DEF OnAck, Sent
  <2> QED
    BY <1>8, <2>1 DEF OnAck, ClearTimer
<1>9. ASSUME NEW t \in Transfer, OnError(t)
      PROVE  IInv'
  <2>1. ASSUME NEW u \in Transfer
        PROVE  Sent(u)'
    BY <1>9 DEF OnError, Sent
  <2> QED
    BY <1>9, <2>1 DEF OnError
<1>10. ASSUME NEW t \in Transfer, OnClose(t)
       PROVE  IInv'
  <2>1. ASSUME NEW u \in Transfer
        PROVE  Sent(u)'
    BY <1>10 DEF OnClose, Sent
  <2> QED
    BY <1>10, <2>1 DEF OnClose
<1>11. ASSUME NEW t \in Transfer, OnTimer(t)
       PROVE  IInv'
  <2>1. CASE TimerCounts(t)
    <3>1. PICK s \in {"failing", "closing"} : stage' = [stage EXCEPT ![t] = s]
      BY <1>11, <2>1 DEF OnTimer
    <3>2. stage[t] = "connecting" => stage'[t] = "failing"
      BY <1>11, <2>1 DEF OnTimer
    <3>3. stage[t] \in {"connecting", "open"} /\ verdict[t] = "none"
      BY <1>11, <2>1 DEF OnTimer, TimerCounts
    <3>4. /\ timer' = [timer EXCEPT ![t] = FALSE]
          /\ verdict' = [verdict EXCEPT ![t] = "WS Timeout"] /\ status' = "WS Timeout"
          /\ UNCHANGED <<payload, answer, displayed>>
      BY <1>11, <2>1 DEF OnTimer
    <3>5. ASSUME NEW u \in Transfer
          PROVE  Sent(u)'
      BY <3>1, <3>2, <3>3, <3>4 DEF Sent
    <3>6. TypeOK'
      BY <3>1, <3>4, <3>5
    <3>7. NothingPending'
      BY <3>1, <3>3, <3>4
    <3>8. SuccessMeansReceived' /\ AnswersAreEarned'
      BY <3>1, <3>4
    <3> QED
      BY <3>6, <3>7, <3>8
  <2>2. CASE ~TimerCounts(t)
    <3>1. /\ timer' = [timer EXCEPT ![t] = FALSE]
          /\ UNCHANGED <<status, stage, payload, answer, verdict, displayed>>
      BY <1>11, <2>2 DEF OnTimer
    <3> QED
      BY <3>1 DEF Sent
  <2> QED
    BY <2>1, <2>2
<1>12. ASSUME NEW t \in Transfer, WsThrows(t)
       PROVE  IInv'
  <2>1. ASSUME NEW u \in Transfer
        PROVE  Sent(u)'
    BY <1>12 DEF WsThrows, Sent
  <2> QED
    BY <1>12, <2>1 DEF WsThrows
<1>13. CASE UNCHANGED vars
  BY <1>13 DEF vars, Sent
<1> QED
  BY <1>1, <1>2, <1>3, <1>4, <1>5, <1>6, <1>7, <1>8, <1>9, <1>10, <1>11, <1>12, <1>13,
     HandlersKeep
  DEF Next, Http

(* However the transfers overlap, and whatever breaks, each timer, answer and *)
(* verdict belongs with where its transfer stands (runDataTransferBenchmark). *)
THEOREM Invariance == Spec => []IInv
<1>1. Init => IInv
  BY InitInv
<1>2. IInv /\ [Next]_vars => IInv'
  BY NextInv
<1> QED
  BY <1>1, <1>2, PTL DEF Spec

(* A success on the panel is never that of a payload the node did not take,   *)
(* whether it was refused by aiohttp, by a middleware or by a validator.      *)
THEOREM SuccessIsReceived == Spec => []SuccessMeansReceived
<1>1. IInv => SuccessMeansReceived
  BY DEF IInv
<1> QED
  BY <1>1, Invariance, PTL

(* No timer, answer or close that comes late changes a verdict, except to say *)
(* that the connection broke.                                                 *)
THEOREM LateEventsChangeNoVerdict == Spec => VerdictsStand
<1>1. IInv /\ [Next]_vars =>
        [\A t \in Transfer :
            verdict[t] # "none" /\ verdict'[t] # verdict[t] => verdict'[t] = "WebSocket Failed"]_vars
  <2> SUFFICES ASSUME IInv, Next, NEW u \in Transfer,
                      verdict[u] # "none", verdict'[u] # verdict[u]
               PROVE  verdict'[u] = "WebSocket Failed"
    BY DEF vars
  <2>1. stage[u] \in {"closing", "failing", "over"} /\ ~timer[u]
    BY DEF IInv, NothingPending
  <2>2. PICK t \in Transfer :
          WsThrows(t) \/ OnResponse(t) \/ OnFetchError(t) \/ OnAck(t) \/ OnError(t) \/ OnTimer(t)
    BY DEF Next, Http, SelectTarget, RunHttp, RunWs, Preflight, HandleHttpBenchmark,
           HandleWsBenchmark, OnOpen, OnClose
  <2>3. t = u
    BY <2>2 DEF WsThrows, OnResponse, OnFetchError, OnAck, OnError, OnTimer, Judge, IInv
  <2> QED
    BY <2>1, <2>2, <2>3 DEF WsThrows, OnResponse, OnFetchError, OnAck, OnError, OnTimer, Judge, IInv
<1> QED
  BY <1>1, Invariance, PTL DEF Spec, VerdictsStand
=============================================================================
