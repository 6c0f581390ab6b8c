-------------------------- MODULE CommandProxyProofs --------------------------
(***************************************************************************)
(* Proofs about CommandProxy for any workers, addresses and timeouts.      *)
(***************************************************************************)
EXTENDS CommandProxy, TLAPS

LEMMA InitInv == Init => IInv
<1> SUFFICES ASSUME Init PROVE IInv
  OBVIOUS
<1>1. TypeOK
  BY ProxyAssumption DEF Init, TypeOK, Page, Stage, Forward, Outcome
<1>2. Ordered /\ Truthful
  BY DEF Init, Ordered, Truthful
<1>3. InTime
  BY ProxyAssumption DEF Init, InTime, AbortNeedsDelay
<1> QED
  BY <1>1, <1>2, <1>3 DEF IInv

(* What the execution of a command leaves behind. *)
LEMMA Execution ==
    ASSUME TypeOK, ran = <<>>, NEW d \in Id
    PROVE  /\ Executed(d) \in {"ACK", "IGNORED"}
           /\ RanOn(d) \in Seq(Id)
           /\ Executed(d) = "ACK" => RanOn(d) = <<d>> /\ names \in {All, d} /\ RanOn(d) # <<>>
           /\ Executed(d) = "IGNORED" => RanOn(d) = <<>>
BY DEF TypeOK, Executed, RanOn, Addressed

(* One lemma for each action, and one conjunct of the invariant after another. *)
LEMMA WorldInv ==
    ASSUME IInv,
           \/ \E a \in Addr : Register(a) \/ \E d \in Worker \cup {None} : Restart(a, d)
           \/ \E w \in Worker : Prune(w)
    PROVE  IInv'
<1>1. at' \in [Addr -> Worker \cup {None}] /\ registry' \in [Worker -> Addr \cup {None}]
  BY DEF IInv, TypeOK, Register, Restart, Prune
<1>2. UNCHANGED <<command, browser, proxy, remote, ran>>
  BY DEF Register, Restart, Prune
<1> QED
  BY <1>1, <1>2 DEF IInv, TypeOK, Ordered, Truthful, InTime, AbortNeedsDelay,
     command, browser, proxy, remote

LEMMA PageInv ==
    ASSUME IInv, Dispatch \/ Abort \/ FetchFails \/ RequestLost \/ GetAnswer
    PROVE  IInv'
<1> USE DEF IInv, world, command, browser, proxy, remote
<1>1. TypeOK'
  BY DEF TypeOK, Dispatch, Abort, FetchFails, RequestLost, GetAnswer, Page, Stage
<1>2. Ordered'
  BY DEF Ordered, Dispatch, Abort, FetchFails, RequestLost, GetAnswer
<1>3. Truthful'
  BY DEF Truthful, Dispatch, Abort, FetchFails, RequestLost, GetAnswer
<1>4. InTime'
  <2>1. CASE Dispatch
    BY <2>1, ProxyAssumption DEF Dispatch, Ordered, InTime, AbortNeedsDelay, TypeOK
  <2>2. CASE Abort
    BY <2>2, ProxyAssumption
    DEF Abort, Ordered, InTime, AbortNeedsDelay, TypeOK, Deadline
  <2>3. CASE FetchFails \/ RequestLost \/ GetAnswer
    BY <2>3 DEF FetchFails, RequestLost, GetAnswer, InTime, AbortNeedsDelay
  <2> QED
    BY <2>1, <2>2, <2>3
<1> QED
  BY <1>1, <1>2, <1>3, <1>4

LEMMA ArriveInv == ASSUME IInv, Arrive PROVE IInv'
<1> USE DEF IInv, world, command, browser, proxy, remote
<1>0. master = "arriving" /\ UNCHANGED <<world, command, browser>>
  BY DEF Arrive
<1>1. ran = <<>> /\ worker = "none" /\ verdict = "none"
  BY <1>0 DEF Ordered, TypeOK, Outcome
<1>2. CASE RefuseInvalid \/ RefuseUnknown \/ RunLocally
  <2>1. master' = "replying" /\ since' = 0 /\ UNCHANGED <<dest, remote>>
    BY <1>2 DEF RefuseInvalid, RefuseUnknown, RunLocally, Reply
  <2>2. /\ verdict' \in {"ACK", "IGNORED", "400", "404"}
        /\ ran' \in Seq(Id)
        /\ verdict' = "ACK" => ran' # <<>> /\ \E d \in Id : ran' = <<d>> /\ names \in {All, d}
        /\ verdict' # "ACK" => ran' = <<>>
    <3>1. CASE RefuseInvalid \/ RefuseUnknown
      BY <1>1, <3>1 DEF RefuseInvalid, RefuseUnknown, Reply, TypeOK
    <3>2. CASE RunLocally
      <4>1. Master \in Id
        BY DEF Id
      <4> QED
        BY <1>1, <3>2, <4>1, Execution DEF RunLocally, Reply
    <3> QED
      BY <1>2, <3>1, <3>2
  <2>3. TypeOK'
    BY <1>0, <2>1, <2>2 DEF TypeOK, Outcome, Stage
  <2>4. Ordered'
    BY <1>0, <2>1, <2>2 DEF Ordered
  <2>5. Truthful'
    BY <1>0, <1>1, <2>1, <2>2 DEF Truthful
  <2>6. InTime'
    BY <1>0, <2>1, ProxyAssumption DEF InTime, AbortNeedsDelay, Deadline, TypeOK
  <2> QED
    BY <2>3, <2>4, <2>5, <2>6
<1>3. CASE ForwardKnown
  <2>1. TypeOK'
    BY <1>0, <1>3, ProxyAssumption DEF ForwardKnown, Post, TypeOK, Stage, Forward, Id
  <2>2. Ordered' /\ Truthful'
    BY <1>0, <1>1, <1>3 DEF ForwardKnown, Post, Ordered, Truthful
  <2>3. InTime'
    BY <1>0, <1>3, ProxyAssumption
    DEF ForwardKnown, Post, InTime, AbortNeedsDelay, Deadline, TypeOK
  <2> QED
    BY <2>1, <2>2, <2>3
<1> QED
  BY <1>2, <1>3 DEF Arrive

LEMMA ServeInv == ASSUME IInv, Serve PROVE IInv'
<1> USE DEF IInv, world, command, browser, proxy, remote
<1>1. ran = <<>> /\ dest \in Addr /\ at[dest] \in Id
  BY DEF Serve, Truthful, TypeOK, Id
<1>2. /\ reply' = Executed(at[dest])
      /\ ran' = RanOn(at[dest])
      /\ worker = "going" /\ worker' = "returning" /\ flown' = 0
      /\ UNCHANGED <<world, command, browser, proxy>>
  BY DEF Serve
<1>3. /\ reply' \in {"ACK", "IGNORED"}
      /\ ran' \in Seq(Id)
      /\ reply' = "ACK" => ran' # <<>> /\ \E d \in Id : ran' = <<d>> /\ names \in {All, d}
      /\ reply' = "IGNORED" => ran' = <<>>
  BY <1>1, <1>2, Execution
<1>4. TypeOK'
  BY <1>2, <1>3, ProxyAssumption DEF TypeOK, Forward
<1>5. Ordered' /\ Truthful'
  BY <1>1, <1>2, <1>3 DEF Ordered, Truthful
<1>6. InTime'
  BY <1>2 DEF InTime, AbortNeedsDelay
<1> QED
  BY <1>4, <1>5, <1>6

LEMMA ExchangeInv ==
    ASSUME IInv, Lose \/ PassOn \/ ClientError \/ TimeOut PROVE IInv'
<1> USE DEF IInv, world, command, browser, proxy, remote
<1>1. CASE Lose
  BY <1>1 DEF Lose, TypeOK, Ordered, Truthful, InTime, AbortNeedsDelay, Forward
<1>2. CASE PassOn \/ ClientError \/ TimeOut
  <2>1. /\ master = "posting" /\ master' = "replying" /\ since' = 0
        /\ UNCHANGED <<world, command, browser, dest, flown, reply, ran>>
        /\ verdict' \in {"ACK", "IGNORED", "502", "504"}
    BY <1>2 DEF PassOn, ClientError, OnClientError, TimeOut, Reply, Truthful, TypeOK
  <2>2. /\ worker' \in {worker, "over"} /\ worker' # "none"
        /\ verdict' = "ACK" => ran # <<>>
        /\ verdict' = "IGNORED" => ran = <<>> /\ worker' = "over"
    BY <1>2 DEF PassOn, ClientError, OnClientError, TimeOut, Reply, Truthful, TypeOK, Ordered
  <2>3. TypeOK'
    BY <2>1, <2>2 DEF TypeOK, Outcome, Stage, Forward
  <2>4. Ordered'
    BY <2>1, <2>2 DEF Ordered
  <2>5. Truthful'
    BY <2>1, <2>2 DEF Truthful
  <2>6. InTime'
    BY <2>1, ProxyAssumption DEF InTime, AbortNeedsDelay, Deadline, TypeOK
  <2> QED
    BY <2>3, <2>4, <2>5, <2>6
<1> QED
  BY <1>1, <1>2

LEMMA TickInv == ASSUME IInv, Tick PROVE IInv'
<1> USE DEF IInv, world, command, browser, proxy, remote
<1>1. TypeOK'
  BY ProxyAssumption DEF Tick, Older, TypeOK
<1>2. Ordered'
  BY DEF Tick, Older, Ordered
<1>3. Truthful'
  BY DEF Tick, Truthful
<1>4. InTime'
  BY ProxyAssumption DEF Tick, Older, InTime, AbortNeedsDelay, Deadline, TypeOK, Ordered
<1> QED
  BY <1>1, <1>2, <1>3, <1>4

LEMMA NextInv == IInv /\ [Next]_vars => IInv'
<1>1. IInv /\ Next => IInv'
  BY WorldInv, PageInv, ArriveInv, ServeInv, ExchangeInv, TickInv DEF Next
<1>2. IInv /\ UNCHANGED vars => IInv'
  BY DEF vars, IInv, TypeOK, Ordered, Truthful, InTime, AbortNeedsDelay
<1> QED
  BY <1>1, <1>2

(* The inductive invariant of handle_proxy_command and what it forwards.     *)
THEOREM Invariance == Spec => []IInv
BY InitInv, NextInv, PTL DEF Spec

(* Type correctness; in particular the proxy never posts to no address.      *)
THEOREM TypeCorrect == Spec => []TypeOK
<1>1. IInv => TypeOK
  BY DEF IInv
<1> QED
  BY <1>1, Invariance, PTL

(* handle_proxy_command tells the truth about the command.                   *)
THEOREM VerdictsAreHonest == Spec => []VerdictIsHonest
<1>1. IInv => VerdictIsHonest
  BY DEF IInv, Truthful, VerdictIsHonest
<1> QED
  BY <1>1, Invariance, PTL

(* A proxied command is executed at most once, on a node that it names.      *)
THEOREM CommandsRunAtMostOnce == Spec => []AtMostOnce
<1>1. IInv => AtMostOnce
  BY DEF IInv, Truthful, AtMostOnce
<1> QED
  BY <1>1, Invariance, PTL

(* sendNodeCommand aborts only after transits that cost the difference of    *)
(* the two timeouts; the worker's share is cut off by the proxy's.           *)
THEOREM AbortsNeedDelays == Spec => []AbortNeedsDelay
<1>1. IInv => AbortNeedsDelay
  BY DEF IInv, InTime
<1> QED
  BY <1>1, Invariance, PTL
-----------------------------------------------------------------------------
(* The abstract state that CommandProxy implements. *)
Times == [c \in {Master} |-> Len(ran)]
Tale  == [c \in {Master} |-> Told]

(* Steps before the last word of the page: nothing is told. *)
LEMMA Untold ==
    ASSUME IInv, page \in {"idle", "waiting", "aborted", "failed"},
           page' = page \/ (page = "idle" /\ page' = "waiting")
    PROVE  Tale' = Tale
BY DEF Told, Tale

LEMMA NobodyRuns == ASSUME ran' = ran PROVE Times' = Times
BY DEF Times

(* The execution on a daemon, the master or a worker, is the abstract one.   *)
LEMMA RunningExecutes ==
    ASSUME IInv, Tale' = Tale, Told # "refused", ran = <<>>,
           NEW d \in Id, ran' = RanOn(d)
    PROVE  Service!Execute(Master) \/ UNCHANGED <<Times, Tale>>
<1>1. CASE Addressed(d)
  <2>1. ran' = <<d>> /\ Len(ran) = 0 /\ Len(ran') = 1
    BY <1>1 DEF RanOn
  <2>2. Times' = [Times EXCEPT ![Master] = 1] /\ Times[Master] = 0 /\ Tale[Master] # "refused"
    BY <2>1 DEF Times, Tale
  <2> QED
    BY <2>2 DEF Service!Execute, Times, Tale
<1>2. CASE ~Addressed(d)
  BY <1>2, NobodyRuns DEF RanOn
<1> QED
  BY <1>1, <1>2

LEMMA ArrivalExecutes ==
    ASSUME IInv, Arrive
    PROVE  Service!Execute(Master) \/ UNCHANGED <<Times, Tale>>
<1>1. /\ page' = page /\ page \in {"waiting", "aborted", "failed"}
      /\ ran = <<>> /\ Told # "refused"
  BY DEF Arrive, IInv, Ordered, TypeOK, Page, browser, Told
<1>2. Tale' = Tale
  BY <1>1, Untold
<1>3. CASE RunLocally
  <2>1. Master \in Id
    BY DEF Id
  <2> QED
    BY <1>1, <1>2, <1>3, <2>1, RunningExecutes DEF RunLocally
<1>4. CASE RefuseInvalid \/ RefuseUnknown \/ ForwardKnown
  BY <1>2, <1>4, NobodyRuns DEF RefuseInvalid, RefuseUnknown, ForwardKnown, Post
<1> QED
  BY <1>3, <1>4 DEF Arrive

LEMMA ServingExecutes ==
    ASSUME IInv, Serve
    PROVE  Service!Execute(Master) \/ UNCHANGED <<Times, Tale>>
<1>1. ran = <<>> /\ at[dest] \in Id
  BY DEF Serve, IInv, Truthful, TypeOK, Id
<1>2. Told # "refused"
  BY DEF Serve, IInv, Truthful, TypeOK, Page, Told
<1>3. page' = page /\ verdict' = verdict
  BY DEF Serve, browser, proxy
<1>4. Tale' = Tale
  BY <1>3 DEF Told, Tale
<1> QED
  BY <1>1, <1>2, <1>4, RunningExecutes DEF Serve

(* The page's last word is the abstract Tell, and a true one. *)
LEMMA EndingTells ==
    ASSUME IInv, page = "waiting", page' \in {"answered", "aborted", "failed"},
           ran' = ran, verdict' = verdict
    PROVE  \E t \in Service!Told \ {"nothing"} : Service!Tell(Master, t)
<1>1. Told = "nothing" /\ Told' \in Service!Told \ {"nothing"}
  BY DEF Told, Service!Told
<1>2. (Told' = "done" => verdict = "ACK")
      /\ (Told' = "refused" => verdict \in {"IGNORED", "400", "404"})
  BY DEF Told
<1>3. (Told' = "done" => Len(ran) = 1) /\ (Told' = "refused" => Len(ran) = 0)
  BY <1>2 DEF IInv, Truthful
<1>4. Service!Tell(Master, Told')
  BY <1>1, <1>3 DEF Service!Tell, Times, Tale
<1> QED
  BY <1>1, <1>4

LEMMA ExchangeIsQuiet ==
    ASSUME IInv, PassOn \/ ClientError \/ TimeOut
    PROVE  UNCHANGED <<Times, Tale>>
<1>1. ran' = ran /\ page' = page /\ page \in {"waiting", "aborted", "failed"}
  BY DEF PassOn, ClientError, OnClientError, TimeOut, browser, IInv, Ordered, TypeOK, Page
<1> QED
  BY <1>1, Untold, NobodyRuns

(* From the page to whoever executes it, a proxied command keeps the promise *)
(* of CommandService: executed at most once, and nothing untrue told of it,  *)
(* whatever restarts, is lost or times out in between.                       *)
THEOREM RefinesCommandService == Spec => ImplementsCommandService
<1>1. Init => Service!Init
  BY DEF Init, Service!Init, Told
<1>2. IInv /\ [Next]_vars => [Service!Next]_(Service!vars)
  <2> SUFFICES ASSUME IInv, [Next]_vars
               PROVE  Service!Next \/ UNCHANGED <<Times, Tale>>
    BY DEF Service!vars, Times, Tale
  <2>1. CASE Arrive \/ Serve
    BY <2>1, ArrivalExecutes, ServingExecutes DEF Service!Next
  <2>2. CASE Abort \/ FetchFails \/ (GetAnswer /\ page = "waiting")
    <3>1. /\ page = "waiting" /\ page' \in {"answered", "aborted", "failed"}
          /\ ran' = ran /\ verdict' = verdict
      BY <2>2 DEF Abort, FetchFails, GetAnswer, proxy
    <3> QED
      BY <3>1, EndingTells DEF Service!Next
  <2>3. CASE PassOn \/ ClientError \/ TimeOut
    BY <2>3, ExchangeIsQuiet
  <2>4. CASE UNCHANGED <<page, verdict, ran>>
    BY <2>4 DEF Times, Tale, Told
  <2>5. CASE Dispatch
    BY <2>5, Untold, NobodyRuns DEF Dispatch
  <2>6. ASSUME \/ \E a \in Addr : Register(a) \/ \E d \in Worker \cup {None} : Restart(a, d)
               \/ \E w \in Worker : Prune(w)
               \/ RequestLost \/ (GetAnswer /\ page # "waiting") \/ Lose \/ Tick
               \/ UNCHANGED vars
        PROVE  UNCHANGED <<page, verdict, ran>>
    BY <2>6 DEF Register, Restart, Prune, RequestLost, GetAnswer, Lose, Tick, vars,
       browser, proxy
  <2> QED
    BY <2>1, <2>2, <2>3, <2>4, <2>5, <2>6 DEF Next
<1> QED
  BY <1>1, <1>2, Invariance, PTL DEF Spec, ImplementsCommandService, Service!Spec
=============================================================================
