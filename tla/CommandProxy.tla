---------------------------- MODULE CommandProxy ----------------------------
(***************************************************************************)
(* One command on its way through the master's proxy: sendNodeCommand on   *)
(* the dashboard (web/app.js), handle_proxy_command on the master and      *)
(* handle_http_command on a worker (server/rest.py), and the command they  *)
(* execute (server/commands.py).  Meanwhile daemons stop and restart under *)
(* other ids, and the master's registry follows late.                      *)
(*                                                                         *)
(* Commands share nothing but the registry, which here changes at any      *)
(* time, so one stands for all.  Time is counted in ticks.                 *)
(***************************************************************************)
EXTENDS Integers, Sequences

CONSTANTS
    Worker,          \* the ids of workers
    Master,          \* the id of the master
    Addr,            \* addresses where daemons listen
    None,            \* no daemon at an address, no address for an id
    All,             \* target_id "all", which is also the default
    ProxyTimeout,    \* master_proxy_timeout_sec
    BrowserTimeout,  \* the 4000 ms of the AbortController
    Hop,             \* longest transit between the page and the master
    Flight,          \* longest transit between the master and a worker
    Slack            \* how late the master's event loop may run a due timer

Id == Worker \cup {Master}

ASSUME ProxyAssumption ==
    /\ Master \notin Worker
    /\ None \notin Id \cup Addr
    /\ All \notin Id
    /\ ProxyTimeout \in Nat
    /\ BrowserTimeout \in Nat
    /\ Hop \in Nat
    /\ Flight \in Nat
    /\ Slack \in Nat

VARIABLES
    at,        \* at[a]: the id of the worker that listens at a, or None
    registry,  \* registry[w]: the address of w in the master's tracker, or None
    target,    \* the node id in the path of the request
    names,     \* target_id in its body
    valid,     \* the body passes the validators
    page,      \* where sendNodeCommand stands
    waited,    \* ticks since the fetch
    transit,   \* history: how many of them between page and master
    master,    \* where handle_proxy_command stands
    since,     \* ticks since it entered that stage
    dest,      \* the address looked up
    verdict,   \* what the proxy answers, or "none"
    worker,    \* where the forwarded request stands
    flown,     \* ticks the forwarded request or its answer is under way
    reply,     \* the worker's answer, or "none"
    ran        \* history: the ids that executed the command, in order

world   == <<at, registry>>
command == <<target, names, valid>>
browser == <<page, waited, transit>>
proxy   == <<master, since, dest, verdict>>
remote  == <<worker, flown, reply>>
vars    == <<at, registry, target, names, valid, page, waited, transit, master, since, dest,
             verdict, worker, flown, reply, ran>>

Page    == {"idle", "waiting", "answered", "aborted", "failed"}
Stage   == {"none", "arriving", "posting", "replying", "done"}
Forward == {"none", "going", "returning", "over"}
Outcome == {"none", "ACK", "IGNORED", "400", "404", "502", "504"}

Init ==
    /\ at = [a \in Addr |-> None]
    /\ registry = [w \in Worker |-> None]
    /\ target \in Id
    /\ names \in Id \cup {All}
    /\ valid \in BOOLEAN
    /\ page = "idle"
    /\ waited = 0
    /\ transit = 0
    /\ master = "none"
    /\ since = 0
    /\ dest = None
    /\ verdict = "none"
    /\ worker = "none"
    /\ flown = 0
    /\ reply = "none"
    /\ ran = <<>>
-----------------------------------------------------------------------------
(* A daemon stops, starts or restarts, under any id. *)
Restart(a, d) ==
    /\ at[a] # d
    /\ at' = [at EXCEPT ![a] = d]
    /\ UNCHANGED <<registry, command, browser, proxy, remote, ran>>

(* update_peer on a beacon of the worker that listens at a. *)
Register(a) ==
    /\ at[a] # None
    /\ registry' = [registry EXCEPT ![at[a]] = a]
    /\ UNCHANGED <<at, command, browser, proxy, remote, ran>>

(* prune_stale_peers, after a silence of any length. *)
Prune(w) ==
    /\ registry[w] # None
    /\ registry' = [registry EXCEPT ![w] = None]
    /\ UNCHANGED <<at, command, browser, proxy, remote, ran>>
-----------------------------------------------------------------------------
(* sendNodeCommand. *)
Dispatch ==
    /\ page = "idle"
    /\ page' = "waiting"
    /\ master' = "arriving"
    /\ UNCHANGED <<world, command, waited, transit, since, dest, verdict, remote, ran>>

(* The AbortController fires; the proxy is not told. *)
Abort ==
    /\ page = "waiting" /\ waited >= BrowserTimeout
    /\ page' = "aborted"
    /\ UNCHANGED <<world, command, waited, transit, proxy, remote, ran>>

(* The connection to the master breaks. *)
FetchFails ==
    /\ page = "waiting"
    /\ page' = "failed"
    /\ UNCHANGED <<world, command, waited, transit, proxy, remote, ran>>

(* It broke before the request was read: the handler ends without a word. *)
RequestLost ==
    /\ master = "arriving" /\ page # "waiting"
    /\ master' = "done"
    /\ UNCHANGED <<world, command, browser, since, dest, verdict, remote, ran>>

GetAnswer ==
    /\ master = "replying"
    /\ master' = "done"
    /\ since' = 0
    /\ page' = IF page = "waiting" THEN "answered" ELSE page
    /\ UNCHANGED <<world, command, waited, transit, dest, verdict, remote, ran>>
-----------------------------------------------------------------------------
(* execute_standard_command on the daemon d. *)

(* Faulty variants of the definitions below: each breaks a property. *)
AddressedToAnyone(d) == d \in Id
NoTotalTimeout == ProxyTimeout + Slack + BrowserTimeout
NeverDue == FALSE

Addressed(d) == names \in {All, d}

Executed(d) == IF Addressed(d) THEN "ACK" ELSE "IGNORED"

RanOn(d) == IF Addressed(d) THEN Append(ran, d) ELSE ran

(* handle_proxy_command: once the body is read, everything up to the POST    *)
(* happens without an await.                                                 *)
Reply(v) ==
    /\ master' = "replying"
    /\ since' = 0
    /\ verdict' = v

RefuseInvalid == ~valid /\ Reply("400") /\ UNCHANGED <<dest, remote, ran>>

RunLocally ==
    /\ valid /\ target = Master
    /\ Reply(Executed(Master))
    /\ ran' = RanOn(Master)
    /\ UNCHANGED <<dest, remote>>

RefuseUnknown ==
    /\ valid /\ target # Master /\ registry[target] = None
    /\ Reply("404")
    /\ UNCHANGED <<dest, remote, ran>>

Post ==
    /\ master' = "posting"
    /\ since' = 0
    /\ worker' = "going"
    /\ flown' = 0
    /\ reply' = "none"
    /\ UNCHANGED <<verdict, ran>>

(* A faulty variant of OnClientError. *)
PostsAgain == Post /\ UNCHANGED dest

ForwardKnown ==
    /\ valid /\ target # Master /\ registry[target] # None
    /\ dest' = registry[target]
    /\ Post

Arrive ==
    /\ master = "arriving"
    /\ RefuseInvalid \/ RunLocally \/ RefuseUnknown \/ ForwardKnown
    /\ UNCHANGED <<world, command, browser>>
-----------------------------------------------------------------------------
(* The forwarded request: handle_http_command on whoever listens there now.  *)
Serve ==
    /\ worker = "going" /\ at[dest] # None
    /\ worker' = "returning"
    /\ flown' = 0
    /\ reply' = Executed(at[dest])
    /\ ran' = RanOn(at[dest])
    /\ UNCHANGED <<world, command, browser, proxy>>

(* The network loses the request, or the answer. *)
Lose ==
    /\ worker \in {"going", "returning"}
    /\ worker' = "over"
    /\ UNCHANGED <<world, command, browser, proxy, flown, reply, ran>>

(* The answer of the worker is passed on. *)
PassOn ==
    /\ master = "posting" /\ worker = "returning"
    /\ Reply(reply)
    /\ worker' = "over"
    /\ UNCHANGED <<world, command, browser, dest, flown, reply, ran>>

(* aiohttp.ClientError: refused, or reset at any point of the exchange.      *)
(* A reset does not call back what is under way.                             *)
OnClientError == Reply("502") /\ UNCHANGED <<dest, remote, ran>>

ClientError ==
    /\ master = "posting"
    /\ OnClientError
    /\ UNCHANGED <<world, command, browser>>

(* The total timeout of the POST; the worker is not told. *)
TimeoutDue == since >= ProxyTimeout

TimeOut ==
    /\ master = "posting" /\ TimeoutDue
    /\ Reply("504")
    /\ UNCHANGED <<world, command, browser, dest, remote, ran>>

Deadline == ProxyTimeout + Slack

(* Time passes unless something is as late as it can be.  What flies longer  *)
(* than Flight has been lost.                                                *)
Older(stage, n) == IF stage THEN n + 1 ELSE n

Tick ==
    /\ page = "waiting" \/ master \in {"arriving", "posting", "replying"}
         \/ worker \in {"going", "returning"}
    /\ master \in {"arriving", "replying"} => since < Hop
    /\ master = "posting" => since < Deadline
    /\ worker \in {"going", "returning"} => flown < Flight
    /\ page = "waiting" => waited < BrowserTimeout
    /\ waited' = Older(page = "waiting", waited)
    /\ transit' = Older(page = "waiting" /\ master \in {"arriving", "replying"}, transit)
    /\ since' = Older(master \in {"arriving", "posting", "replying"}, since)
    /\ flown' = Older(worker \in {"going", "returning"}, flown)
    /\ UNCHANGED <<world, command, page, master, dest, verdict, worker, reply, ran>>

Next ==
    \/ \E a \in Addr : Register(a) \/ \E d \in Worker \cup {None} : Restart(a, d)
    \/ \E w \in Worker : Prune(w)
    \/ Dispatch \/ Abort \/ FetchFails \/ RequestLost \/ GetAnswer
    \/ Arrive \/ Serve \/ Lose \/ PassOn \/ ClientError \/ TimeOut
    \/ Tick

Spec == Init /\ [][Next]_vars

(* Timers fire, the page and the master stay connected or the fetch fails,   *)
(* and what is under way arrives or is lost; workers owe nothing.            *)
Fairness ==
    /\ WF_vars(Tick) /\ WF_vars(Arrive) /\ WF_vars(TimeOut)
    /\ WF_vars(GetAnswer) /\ WF_vars(Abort) /\ WF_vars(Lose)

FairSpec == Spec /\ Fairness
-----------------------------------------------------------------------------
TypeOK ==
    /\ at \in [Addr -> Worker \cup {None}]
    /\ registry \in [Worker -> Addr \cup {None}]
    /\ target \in Id /\ names \in Id \cup {All} /\ valid \in BOOLEAN
    /\ page \in Page /\ waited \in 0..BrowserTimeout /\ transit \in Nat
    /\ master \in Stage /\ since \in Nat
    /\ dest \in Addr \cup {None}
    /\ verdict \in Outcome
    /\ worker \in Forward /\ flown \in 0..Flight
    /\ reply \in {"none", "ACK", "IGNORED"}
    /\ ran \in Seq(Id)
    /\ master = "posting" \/ worker # "none" => dest # None

(* What the proxy answers is the truth about the command.  An ACK: it was    *)
(* executed, once, on a node that its body names.  IGNORED, 400 or 404: it   *)
(* was not executed and never will be, so it may be sent again or elsewhere. *)
(* 502 and 504 say nothing about the past: the worker may have executed it,  *)
(* or do so yet.                                                             *)
VerdictIsHonest ==
    /\ verdict = "ACK" =>
         Len(ran) = 1 /\ names \in {All, ran[1]}
    /\ verdict \in {"IGNORED", "400", "404"} => ran = <<>> /\ worker # "going"

(* However lookups, restarts, timeouts and resets interleave, a command is   *)
(* executed at most once, and on a node it names.                            *)
AtMostOnce == Len(ran) <= 1 /\ (ran # <<>> => names \in {All, ran[1]})

(* The timeouts are nested: the operator is told the proxy's verdict, 504    *)
(* included, and not left with the browser's abort, unless request and       *)
(* answer spent the whole difference of the timeouts between page and        *)
(* master.  A slow or dead worker alone never causes an abort.               *)
AbortNeedsDelay ==
    page = "aborted" => ProxyTimeout + Slack + transit >= BrowserTimeout

(* The inductive invariant behind them: where the handler, the forwarded     *)
(* request and the record of executions stand together, and how long the     *)
(* page can have waited at each stage.                                       *)
Ordered ==
    /\ page = "idle" <=> master = "none"
    /\ master = "none" => waited = 0 /\ since = 0
    /\ page = "waiting" => master \in {"arriving", "posting", "replying"}
    /\ page = "answered" => master = "done"
    /\ master \in {"none", "arriving"} => worker = "none" /\ ran = <<>>
    /\ verdict # "none" => master \in {"replying", "done"}
    /\ master = "posting" => worker # "none"

Truthful ==
    /\ ran = <<>> \/ \E d \in Id : ran = <<d>> /\ names \in {All, d}
    /\ worker = "going" => ran = <<>>
    /\ worker = "returning" => reply # "none" /\ (reply = "ACK" <=> ran # <<>>)
    /\ verdict = "ACK" => ran # <<>>
    /\ verdict \in {"IGNORED", "400", "404"} => ran = <<>> /\ worker # "going"

InTime ==
    /\ master \in {"arriving", "replying"} => since <= Hop
    /\ master = "posting" => since <= Deadline
    /\ page = "waiting" =>
         /\ master = "arriving" => waited <= transit
         /\ master = "posting" => waited <= transit + since
         /\ master = "replying" => waited <= transit + Deadline
    /\ AbortNeedsDelay

IInv == TypeOK /\ Ordered /\ Truthful /\ InTime

(* Every command ends for the operator, and every proxied request on the     *)
(* master, although workers may never answer.                                *)
EveryCommandEnds ==
    /\ page = "waiting" ~> page \in {"answered", "aborted", "failed"}
    /\ master = "arriving" ~> master = "done"

(* What the operator has been told: the proxy's verdict, or nothing certain.  *)
Told ==
    CASE page \in {"idle", "waiting"} -> "nothing"
      [] page \in {"aborted", "failed"} -> "unknown"
      [] page = "answered" ->
           CASE verdict = "ACK" -> "done"
             [] verdict \in {"IGNORED", "400", "404"} -> "refused"
             [] OTHER -> "unknown"

Service == INSTANCE CommandService
             WITH Command <- {Master},
                  times <- [c \in {Master} |-> Len(ran)],
                  told <- [c \in {Master} |-> Told]

(* From the page to the worker, across both timeouts and whatever restarts   *)
(* and gets lost in between, the command given to the master keeps the       *)
(* promise of CommandService: at most one node executes it, once, and the    *)
(* operator is told nothing untrue.                                          *)
ImplementsCommandService == Service!Spec
=============================================================================
