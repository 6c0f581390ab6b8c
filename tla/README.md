# Verification of the C2 wireless proof-of-concept

TLA+ models of the node daemon in `src/` (Python, asyncio, aiohttp), checked by
TLC on small instances and, where TLAPS can reach, proved for every instance.
Paths below are relative to the repository root, so the implementation is in
`src/src/`.

## 1. The system

Every host runs one process, `C2NodeDaemon`, as *master* or *worker*. All its
parts share one event loop: code between two `await`s is atomic, and everything
that is hard happens between processes, over the network, or at the awaits.

| Component | State | Operations | Hard behaviour | What makes it correct |
|---|---|---|---|---|
| BeaconService (`beacon.py`) | `seq_num`, `master_ip`, `last_master_contact` | `beacon_sender_loop`, `handle_incoming_beacon` | loss, duplication, delay, one-way routes, restarts | nodes that can hear each other register each other; the master contact clock is truthful |
| PeerTracker (`tracker.py`) | `peers`, with windows and sequence numbers | `update_peer`, `prune_stale_peers`, `to_dict` | stale entries, reboots, reordering | dead peers leave, live ones stay; figures describe what happened |
| Watchdog (`node.py:156`) | none of its own | `failsafe_watchdog_loop` | sampling against arriving beacons | a lost link is reported, and only a lost link |
| WebSocketManager (`server/ws.py`) | `ws_clients`, `running` | `handle_ws_session`, `ws_telemetry_broadcast_loop`, `close_all` | slow clients, joins and leaves during awaits, shutdown | nobody holds up anybody; the set has no leaks; the shutdown ends |
| HttpServer (`server/rest.py`) | `app_runner` | REST endpoints, `handle_proxy_command`, `cleanup` | a peer looked up before an await, timeouts with late execution | a verdict is honest; a command runs at most once, where it was meant to |
| TcpCommandServer (`server/tcp.py`) | `server` | `handle_client`, `start`, `stop` | framing limit, idle clients, stop with open connections | every line is answered; stop ends |
| Command execution (`server/commands.py`) | none | `execute_standard_command` | addressed to another node | only the addressee acts |
| Protocol validators (`protocol.py`) | none | `parse_*` | limits beside the libraries' own; what is stripped here is compared elsewhere | what passes can be relied on by whoever reads it |
| Dashboard (`web/app.js`) | `peers`, `selectedTarget`, `ws`, timers, `bench` | callbacks of a socket, timers, fetches | stale answers, reconnection, unfinished benchmarks | the page shows the newest data; every action ends |
| Daemon life cycle (`node.py:170`, `config.py`) | id, role, ports, `running` flags, tasks | `main`, `start`, cancellation, clean-up | a start that fails half way, order of the shutdown, moves and restarts under another id | whatever is launched can be found; everything is released |

Interactions: BeaconService writes PeerTracker; the watchdog reads
`last_master_contact`; WebSocketManager and HttpServer read PeerTracker (the
broadcast and `/api/status` take a snapshot, the proxy looks a peer up and then
awaits); the dashboard talks to HttpServer and WebSocketManager of the master
and, for benchmarks, to those of the workers; the daemon starts all tasks with
`gather` and stops the servers one after the other.

`PROJECT.json` lists every hazard found in the code at its line, with the
properties that cover it or the reason why none does yet.

## 2. The modules

| Module | Models | Composes or implements |
|---|---|---|
| `Presence` | the abstract promise of discovery: views of nodes that announced themselves recently | – |
| `CommandService` | the abstract promise to whoever commands a daemon: executed at most once, and told nothing untrue | – |
| `Protocol` | `protocol.py`: what each validator accepts and what it makes of it | – |
| `BeaconNetwork` | `beacon.py`, membership in `tracker.py`, the watchdog of `node.py`, for a whole cluster, in time | implements `Presence` (`view <- peers`) |
| `Addressing` | who is where: `main`, `config.py`, the contents of beacons, the entries of one registry, its unicasts and the commands sent by it | extends `Protocol` |
| `LinkQuality` | the metrics that `PeerTracker.update_peer` keeps for one peer | – |
| `WsTelemetry` | `server/ws.py` with the start and the shutdown as WebSocket sessions see them | – |
| `TcpCommand` | `server/tcp.py`, `server/commands.py`, with the start and the shutdown as TCP connections see them | implements `CommandService` |
| `CommandProxy` | one command through dashboard, proxy and worker (`web/app.js`, `server/rest.py`, `server/commands.py`) | implements `CommandService` |
| `Dashboard` | the page's view of the registry (`web/app.js`) | – |
| `Benchmark` | the data transfer lab: page, middlewares, benchmark endpoint and WebSocket messages | extends `Protocol` |
| `BeaconNetworkProofs`, `AddressingProofs`, `LinkQualityProofs`, `WsTelemetryProofs`, `TcpCommandProofs`, `CommandProxyProofs`, `DashboardProofs`, `BenchmarkProofs` | the theorems of the modules they are named after | extend that module and `TLAPS` |
| `MCBeaconNetwork`, `MCTcpCommand`, `MCAddressing` | topologies, command lines, launches and stray datagrams of the instances that TLC checks; the others are given by their `.cfg` alone | extend the module they are named after |

The map in `PROJECT.json` gives the lines behind every definition. Definitions
under a comment "Faulty variants" are not part of any specification: each is a
wrong form of a definition below it (a dropped guard, an off-by-one, a missing
reset), listed in `PROJECT.json` with the property it must break.

### Protocol

An operator `IsX` says what `parse_x` accepts, and another what it returns where
that is not what it was given: `BeaconMessage` strips the id, `TargetOf` strips
the target and takes a blank one for "all". Raw input is its size, whether it
decodes to a JSON object, and that object; a string is a word of some length with
some padding and case, because those are what the validators and their callers
treat differently. Numbers are assumed to fit a float (a larger integer makes
`float()` raise `OverflowError`, which `_validate_float` does not catch).

### BeaconNetwork

Time is counted in ticks. A clock of the code is an age: `silence[n][m]` is
`now - last_seen` of n's entry for m, `sinceContact` is
`now - last_master_contact`. `Tick` may not pass the deadline of a task, so a
task that is due runs at most `Slack` ticks late; this is how a busy event loop
is modelled. An address is the node itself.

- `BeaconLoop` is one iteration of `beacon_sender_loop`: one broadcast, the
  unicast to the master, the unicasts to registered peers and the pruning, which
  the code runs without an await in between.
- `Receive` is `handle_incoming_beacon` with `update_peer`. A datagram stays in
  `net` until it is `MaxDelay` old, so it may be delivered never, once or several
  times, and in any order. `BroadcastRoute` and `UnicastRoute` say who can
  reach whom; a self-loop in the first is the echo of a node's own broadcast.
- `Watchdog` is one iteration of `failsafe_watchdog_loop`. `Armed` reads the
  configured master address, not the learned one, as the code does.
- `Start` and `Crash` start and stop a process; nothing survives.
- `quiet` and `missed` are history variables: how long ago a node beaconed, and
  how many of its beacons were not heard since the last one that was.

### Addressing

What `BeaconNetwork` leaves out: ids, roles, ports and addresses that change.
`Launched` is `main` with its options, environment variables and defaults;
`Starts` what the operating system lets run. Daemons start, stop and move;
`Hear` delivers a beacon at once, `Delay` and `Arrive` late, after its sender has
perhaps gone; `Strays` are what others send to the port. `Receive` is the
validator, the comparison with the own id, the learning of the master and the
update of the entry, the role of which is written when it is created only. There
is no time here: an entry may be pruned at any moment.

### LinkQuality

One sender and one receiver. `Receive` is the whole of `update_peer`, its four
branches on the sequence number included; the windows have a length given by a
constant; times are small integers. `Reboot` resets the sender's counter, `Prune`
drops the entry. What really was sent, lost and rebooted is kept in history
variables, and the properties compare the figures with it. Sums over a window are
`SumFunction` of its terms (`Expectations`, `Losses`, `Steps`).

### WsTelemetry

One task per session, the broadcast task and the shutdown, with an action for
each stretch of code between two awaits. `Wake` and `Gathered` are the two ends
of an iteration of the broadcast, `SendSucceeds`/`SendFails` the results of its
`_send`s, which run concurrently. `CleanUp`, `CloseNext`, `CloseReturns` and
`AllClosed` are `HttpServer.cleanup` with `close_all`. A close first drains what the
client has not read, without a timeout (`draining`, emptied by `Resume` and `Vanish`
only), then awaits the client's answer with one; while it drains, the handler of the
session is not woken, and ends early only by what the client sends (`EndUnread`). A
client that is gone without the server noticing is one that stalls. `Online` is where `start`
creates its tasks; before that sessions are accepted but not broadcast to, and an
interrupt (`StartFails`) leaves the site open until `asyncio.run` cancels the
handlers. What aiohttp does to the handlers that are left is `CancelHandler`,
external.

### TcpCommand

`conn` is where `handle_client` stands: awaiting `readline`, `drain` or
`wait_closed`. `Respond` is the stretch from the line to `write`, with the
parser and the command in it; a line is valid or not, addressed to this node or
not, and short, long or at the limit. `HangUp` is every way to the `finally`
clause without an answer, the `ValueError` of an overrun included. `Listen`,
`Online`, `StartFails`, `Stop`, `StopReturns` and `Exit` are `start` from the bind
to the end of the process; `CancelHandlers` is what `asyncio.run` does to the
handlers that are left. `awaitsClients` distinguishes `Server.wait_closed` up to
Python 3.11, which returns at once on a closed server, from that of 3.12 on, which
waits for the connections; the repository pins no version, and the model chooses.

### CommandProxy

The control of `sendNodeCommand`, `handle_proxy_command` and
`handle_http_command` for one command: commands share nothing but the registry,
which changes at any time (`Register`, `Prune`) and lags behind the daemons,
which stop and start under any id at any address (`Restart`). One action stands
for everything between two awaits. Two timers run, the browser's and the
proxy's. `ran` records who executed the command.

### Dashboard

`registry` is the master's registry with its versions counted; frames and
answers to `/api/status` carry snapshots of it. Frames keep their order within a
connection; answers arrive in any order. A connection that holds `MaxFrames`
frames takes no more, and the master discards it as `WsTelemetry` shows in
detail.

### Benchmark

Each transfer is where `runDataTransferBenchmark` and its callbacks stand, what
it sends, and what the node makes of it; all write the one panel (`status`). A
payload is a size and its fields, so that both aiohttp's limits and the
validators of `Protocol` decide over it. `HttpAnswers` composes the two
middlewares with the handler: a body that aiohttp refuses is answered by a text, an
invalid one or a display that raises by JSON. `OnClose` is the event the page has
no handler for.

## 3. The runs

| Run | Shows | Bounds, and why they are enough |
|---|---|---|
| `beacon_shipped` | the inductive invariant, the four safety properties, pruning accuracy, refinement of `Presence` | a master and a worker, echo of broadcasts, the shipped ratio 4 : 1 : 1 of timeout and periods, a task up to 1 tick late, datagrams up to 2 ticks old. Properties speak of pairs, so two nodes show each case; the theorems cover any number. `MissedCap` is at its least allowed value, below which the history would lose what the properties need |
| `beacon_one_way` | `BidirectionalDiscovery` | broadcasts pass from the worker only; timeout one period, so that pruning between two beacons happens |
| `beacon_watchdog_doc` | finding 1 | no configured address |
| `addressing` | the inductive invariant, who takes a command sent by an entry, convergence of the registry | the listener and two more addresses, so that a daemon can move while another bears its name; four launches: one id as a worker and as a master with another port, the same padded, and the default id with port 0; two stray datagrams; one late datagram at a time, which may be delivered more than once |
| `link_in_order` | the inductive invariant and the properties of the metrics | a window of 2, six beacons, two boots: windows fill and evict, and gaps cross a boot |
| `link_reordered` | finding 2 | the same with datagrams in any order |
| `ws_sessions` | safety and liveness of sessions, broadcast, start and shutdown | two sessions: the properties relate one session to one other |
| `ws_recovered` | finding 3 | one session |
| `tcp_connections` | invariant, outcome, refinement of `CommandService`, liveness | two connections, a line for each verdict and one whose answer exceeds the buffers, both kinds of Python |
| `proxy_command` | invariant, honesty, refinement of `CommandService`, both timers, liveness | two workers and one address, which either may hold: an address may change hands between lookup and POST; 6 and 8 ticks are the shipped 3 s and 4 s, and transits of up to half a second each way are just enough for an abort |
| `dashboard_view` | the inductive invariant, convergence of view and selection | two peers, three versions, two requests, two frames: an answer may be two versions old and overtaken twice |
| `benchmark` | the inductive invariant, success, stability of verdicts, end of every transfer | two transfers, which is what it takes to overlap; three sizes: below both limits of aiohttp, at that of a body, and at that of a message |

`CHECK_DEADLOCK FALSE` is given where the modelled process really ends
(`WsTelemetry`, `TcpCommand`), where the bounds of the instance end it
(`LinkQuality`, whose beacons and boots run out), and where everything may have
happened (`Benchmark`) or be at rest (`Addressing`).

### What the properties say

- `DeadPeersForgotten`: a registry entry is no staler than
  `Timeout + LoopMax + MaxDelay`. The timeout alone, which the documentation
  names, is not a bound: pruning runs once per beacon cycle and on the time of
  arrival.
- `SilenceAccountedFor`, `PruningNeedsLosses`: the accuracy. Silence is paid for
  by beacons not heard, and a live peer is pruned only after a whole timeout of
  them.
- `LostLinkReported`, `AlarmIsJustified`: the watchdog, sampling at its own
  period, neither misses a silence nor reports one that was not there.
- `BidirectionalDiscovery`: unicasting to registered peers makes a one-way
  broadcast route a two-way registration, again and again, over a lossy network.
- `CommandsFindTheNamed`: registry entries go stale, and the proxy posts by them
  (what that does to its verdicts is `VerdictIsHonest`).
  Whoever listens at that address takes the command only if it bears that very
  name. It rests on two validators agreeing on what a name is, `parse_beacon_datagram`
  on the way in and `_validate_command_dict` on the way out, and on the daemon's
  comparison with its id as it was given.
- `RegistriesSettle`: when nobody starts or stops any more and nothing late is
  left, entries lead to daemons that run, every other daemon whose beacons are
  valid is listed and unicast to, wherever it moved and whatever `master_ip` was
  learned, and a wrong role lasts only in an entry that is not pruned any more: one
  that goes on being pruned comes to have the right one. Daemons that announce an
  invalid port or share the listener's id are the exceptions, and the property says
  so. That a single pruning is enough is the theorem `RoleIsRightOncePruned`; as a
  property it would take TLC five minutes.
- `LossIsExact`, `LossNeverOverestimated`, `FlushMeansReboot`,
  `FiguresMatchWindows`: the figures describe what happened, as far as sequence
  numbers allow.
- `ClientsHaveHandlers`, `CloseAllClosesItsCopy`, `BroadcastNotHeldUp`,
  `ReadersAreServed`: nobody leaks, nobody holds up anybody.
- `ShutdownCompletes`: from the beginning of `close_all` on the daemon gets down,
  provided that every client `close_all` finds reads again or goes (see below).
  Whoever joins while it works, and stalled clients that the broadcast has discarded
  already, do not hold it up.
- `OutcomeIsKnown`: a TCP client that is answered, or closed in silence by a
  server that stays up, can tell whether its command was executed. It is false of a
  handler cancelled by the shutdown while it drains, which the property excepts.
- `ImplementsCommandService` (`TcpCommand`, `CommandProxy`): both ways to command
  a daemon keep one promise. What is refused was not executed and never will be,
  what is acknowledged was, and nothing runs twice; an abort, a 502 or a 504 leaves
  the sender in the dark and says so.
- `VerdictIsHonest`: an ACK of the proxy means executed exactly
  once on a node the body names; IGNORED, 400 and 404 mean never; 502 and 504
  leave both open.
- `AbortNeedsDelay`: the nested timeouts. The operator reads the proxy's 504 and
  not the browser's abort unless request and answer spent the second between the
  two timeouts on the way between page and master.
- `ShutdownEnds`: the daemon gets down, from a failed start too. Where
  `wait_closed` awaits the connections, only under the assumption that no client
  stays idle for ever (see below).
- `ViewSettles`, `SelectionSettles`: whatever stale answers are under way. The second
  is stated for a socket that ends up open: while it is not, nothing clears the
  selection (`web/app.js:107`).
- `SuccessMeansReceived`: the page never looks at `resp.ok`, so a success could be
  a refusal in JSON. It is not, and the reason is subtle: what the page sends
  passes the validators, and what is too large for aiohttp is refused in plain
  text, which `resp.json()` rejects. A 500 because the display raised is shown as
  a success, and the payload was received.
- `VerdictsStand`, `PanelSettles`: a timer, an acknowledgement or a close that
  comes late replaces no verdict; and the one ending the page does not hear of is
  a socket that the node closes without an answer, which a message of 4 MiB brings about.

### Findings

Three places where the program does not do what its documentation says; each is
a run that ends in a counterexample.

1. The watchdog never warns a worker that learned its master from beacons
   (`node.py:160`).
2. A beacon that arrives late is taken for a reboot and flushes the loss history
   (`tracker.py:137`).
3. A WebSocket client that was slow once stays connected and gets no telemetry
   any more (`server/ws.py:132`). For the same reason `close_all` does not tell
   it that the daemon goes away (`server/ws.py:136`), although its docstring says
   "all active"; and the page, whose socket is open, does not poll either, which
   is why `ViewSettles` is stated under `NeverDiscarded`.

Other divergences are visible in the models, as a condition of a property or as a
definition, without a run of their own:

- On Python 3.12 or later one idle TCP client keeps the daemon from ending:
  `stop` awaits `wait_closed`, which awaits every connection, and `handle_client`
  reads without a timeout (`server/tcp.py:107` against `docs/architecture.md:95`).
  It is why `ShutdownEnds` assumes clients that do not stay idle where
  `awaitsClients` holds; without that conjunct TLC shows the stuck shutdown.
- One WebSocket client that does not read keeps the daemon from ending too:
  `close_all` awaits `ws.close()`, which drains the connection without a timeout
  before its timed wait for the answer, and no heartbeat ends the connection
  (`server/ws.py:138`, `server/ws.py:56` against `docs/architecture.md:95`, which has
  graceful "client disconnection"). It is the antecedent of `ShutdownCompletes`;
  without it TLC shows the stuck shutdown.
- `SIGTERM` is not trapped (`node.py:288` against `docs/architecture.md:95`): it
  ends the process as a crash does.
- The proxy never compares the body's `target_id` with the node of its path
  (`server/rest.py:267` against `docs/api.md:210`): a body for "all" is executed by
  whoever listens at the address by then. `VerdictIsHonest` therefore speaks of
  the node that the body names, and `CommandsFindTheNamed` of bodies as the
  dashboard builds them.
- A TCP line over 64 KB is closed without the documented `ERROR` answer
  (`server/tcp.py:57`; `GivesUp`), since `readline` raises `ValueError` before the
  validator sees the line. It is harmless in the sense of `OutcomeIsKnown`.
- The limit of 10 MB on HTTP and WebSocket payloads is never reached
  (`protocol.py:19`; `ClientMaxSize`, `MaxMsgSize`): aiohttp refuses a body
  of 1 MiB or more with a 413 in plain text, and closes a WebSocket at 4 MiB.
- A benchmark over WebSocket that never connects may show "WS Timeout" and then
  "WebSocket Failed" (`OnTimer`, then `OnError`): the exception in `VerdictsStand`.
- A daemon given a padded `--id` is listed under the stripped one, ignores
  commands sent to that name, and takes its own broadcasts for a peer's
  (`beacon.py:106`; the condition on padding in `OwnNameIsNotListed`).

## 4. Fairness

- asyncio runs every callback that is ready: weak fairness of each task step.
- Timers fire: weak fairness of `Tick`, or of the action a timer triggers; in
  `BeaconNetwork` time must be able to pass between restarts of other nodes
  (`SF(Tick)`).
- A link that is offered datagrams for ever delivers some (`SF(ReceiveFrom)`, and
  `WF(Hear)` in `Addressing`), and a master that is asked for ever answers some
  requests (`Dashboard`). These are assumptions about the network; nothing in the
  code replaces them.
- A name that nobody bears is pruned in the end (`Addressing`): the beacon loop
  prunes every cycle. One that somebody bears need not be.
- A request of the page is answered or breaks (`WF(Http)` in `Benchmark`). Of a
  WebSocket that is connecting or open nothing is assumed: its timer is what ends it.
- Clients, operators, workers and crashes owe nothing. In `WsTelemetry` that
  includes reading: `CloseReturns` is fair once the close has drained, and no sooner;
  the timeouts on the answer and on a broadcast's sends are the code's and aiohttp's.

## 5. The proofs

All theorems are proved by TLAPS for every value of the constants that satisfies
the named assumption of the module; the sets of nodes, clients, sessions,
addresses and transfers may even be infinite.

**BeaconNetwork.** None of the safety properties is inductive: that an entry is
recent depends on the age of the datagrams in flight, that on the clock since the
last pruning, and the alarm on the contact clock when it was sampled. `IInv` adds
`StoppedIsReset`, `OverdueSincePruning`, `DatagramsAreRecent`,
`EntriesAreRecent`, `AlarmIsTimely`, `AbsenceIsExcused` and `NoSelfPeer`. `Invariance` proves it; from
it follow `TypeCorrect`, `DeadPeersAreForgotten`, `SilenceIsAccountedFor`,
`LostLinksAreReported`, `AlarmsAreJustified`, the action property
`PruningIsAccurate`, and `RefinesPresence`: every step maps to a step of
`Presence` or a stutter, `Tick` to `TimePasses` because an entry at the horizon
would contradict `OverdueSincePruning` and `EntriesAreRecent`.
`BeaconAssumption` asks the history counter `missed` to be able to reach
what a timeout costs; it constrains the bookkeeping, not the program.

**Addressing.** A lemma about the validators carries the rest: whatever
`IsBeacon` accepts, `BeaconMessage` makes a stripped name of 1 to 128 characters
and two ports that can be connected to. `Invariance` follows, with
`EntriesLeadToLastHeard` and `OwnNameIsNotListed`; `CommandsFindWhoWasMeant`
adds that `TargetOf` gives a stripped name back unchanged.
`RoleIsRightOncePruned` rests on `BeaconsAreTheirDaemons`, that a daemon announces its
own name and role, and on `NextKeepsRole`: no step gives an unlisted or rightly listed
name another role than `Announced`. Its conclusion is a `[]` under a `[]`, which PTL
draws from that step.

**LinkQuality.** `IInv` says, of any network, that every figure is that of its
window (`FiguresAreCurrent`: the shortcuts of `update_peer`, the jitter kept while
there is one sample and the loss left alone by a repetition, are right by what was
there before). Of a network that does not reorder it adds two parts. `InOrder`: what
was heard, what is in flight and what the sender will send come in the order of boots
and numbers, with as many beacons between two as their numbers tell, or more across
a boot; so a lower number is a later boot. `GapsAccountedFor`: of the beacons that
the last gaps of the window speak of, at most as many arrived as there are gaps,
exactly as many in the first boot. It speaks of every suffix of the window and not
only of the whole, because the next gap may push the oldest one out; and it bounds
what the gaps expected by `last_seq`, which is why a reboot that goes unnoticed,
because the new boot is heard first at a higher number or at the same, brings at
most one arrival with it. Theorems: `Invariance`, `FiguresAreOfTheWindows` (any
network), `LossesAreExact`, `LossesAreNeverOverestimated` and `FlushesAreReboots` (of
a network that does not reorder; `link_reordered` shows that the last one fails
otherwise).

The figures are folds over windows of any length, and what a fold computes takes
an induction. The library's induction theorems take the property as an operator,
which no installed prover can instantiate; the module states the property as a set
instead, the things that have it, and argues by a minimal counterexample, from
`WFMin` with `NatLessThanWellFounded` for numbers (`SmallestNumber`) and
`FS_StrictSubsetOrderingWellFounded` for the subsets of a finite set
(`SubsetInduction`). On these rest the lemmas about `SumFunctionOnSet`: the fold
exists, any element may be taken first (`SumTakesAny`), and bounds, shifts and zeros
of sums follow.

**WsTelemetry.** `IInv` adds `ClosedAreToldOrOut` and `NoneForgotten` to
`ClientsHaveHandlers`, and says that a close drains only for a client that does not
read; from it `ClientsAreHandled` and `CloseAllKeepsItsWord`.

**TcpCommand.** `IInv` ties the answer written to the command executed
(`WritesWhatItDid`) and to the stage of the handler (`AnswersInOrder`), without
which a connection could close with an answer nobody knows of. Theorems:
`Invariance`, `TypeCorrect`, `OutcomesAreKnown`, `RefinesCommandService`: a
response executes, a flush or a hang-up tells, and the steps that cancel or drop
handlers are `BreakOff` for all of them at once.

**CommandProxy.** `IInv` has three parts: `Ordered` (the stages of page, master
and forwarded request fit), `Truthful` (a request still on its way has not been
executed, an answer on its way back says what happened), `InTime` (how long the
page can have waited at each stage of the handler). `Truthful` is what makes
honesty inductive: the proxy's verdict is taken from an answer, so the answer must
be honest before. Theorems: `Invariance`, `TypeCorrect`, `VerdictsAreHonest`,
`CommandsRunAtMostOnce`, `AbortsNeedDelays`, `RefinesCommandService`.

**Dashboard.** `Invariance`: a snapshot that was past stays past when the
registry changes; frames stay in order because the one that joins is the registry
of now.

**Benchmark.** `PayloadsAreValid` computes that the validators refuse nothing that
the page sends and aiohttp lets pass; `AnswersAreEarned` and `NothingPending` make
the invariant inductive. Theorems: `Invariance`, `SuccessIsReceived`,
`LateEventsChangeNoVerdict`.

**Only model-checked.** All liveness (`BidirectionalDiscovery`,
`RegistriesSettle`, `BroadcastNotHeldUp`, `ReadersAreServed`,
`ShutdownCompletes`, `WholeLinesAreAnswered`, `ShutdownEnds`, `EveryCommandEnds`,
`ViewSettles`, `SelectionSettles`, `PanelSettles`): TLAPS does not reach liveness
under fairness, for want of `ENABLED`.

## 6. Not modelled

- The console banner (`presentation.py`), logging, the figures a transfer shows,
  the markup and the style sheet, the scripts: layout without state. That the
  banner may raise is in `Benchmark`.
- The index page and the static files: read from disk, nothing changes.
- Steps of the wall clock (see the note of that hazard in `PROJECT.json`), and
  rounding for display.
- The UDP port, the DNS probe for the local address, and `SO_REUSEPORT`: two
  daemons on one host share the port, and the kernel decides which of them hears.
- Field names, types and texts of error answers, and the values of the measures
  that a benchmark returns.
- Integers beyond the range of a float in beacons and benchmarks (see `Protocol`).
- Interpreters before Python 3.10: `tracker.py` uses `itertools.pairwise`.
