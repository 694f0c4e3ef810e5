# SafeNet: a TLA+ model

SafeNet is a VPN service: a Flutter/Android client, a FastAPI backend that hands out WireGuard and
sing-box configurations, sells premium through a crypto payment provider and pays referral rewards,
and a number of stand-alone scripts around them. This directory models the parts of it whose
correctness depends on the order in which things happen: TLA+ modules translated from the source,
TLC configurations that check them on small instances, and TLAPS proofs for every size.

Paths below are relative to the repository.

- [1. The system](#1-the-system): inventory of the components
- [2. The modules](#2-the-modules): what models what, state and actions against the code
- [3. The runs](#3-the-runs): what each run checks, bounds, fairness
- [4. The proofs](#4-the-proofs)
- [5. What is assumed, and what is not modelled](#5-what-is-assumed-and-what-is-not-modelled)
- [6. Plan](#6-plan)

`tlc -config X.cfg M` checks module `M` (the `MC...` modules instantiate the others), `tlapm
M.tla` checks the proofs of a `...Proofs` module. `PROJECT.json` maps every definition to its lines.

## 1. The system

### Modelled

**VPN sessions and configuration pool** — `backend/app/api/service.py`,
`services/{wireguard,session_watchdog,entitlements}.py`.
State: the tables `users` and `user_connections`, the WireGuard interface and the traffic shaper of
each VPN server (reached through the wg-manager's HTTP interface), the queue of background tasks.
Operations: `connect`, `smart-connect`, `pool`, `report-blocked`, `heal_pool_task`, the address
allocator, and the watchdog that ends limited sessions every 30 s.
Interaction: the client calls the endpoints; each of them commits rows and then calls wg-manager,
whose failures are only logged; the watchdog and the endpoints meet in the same rows.
Hard: every `await` lets another coroutine run; rows are committed before the calls they announce;
a restart forgets what was in flight.
Correct means: one usable configuration per user and server, limited sessions end, an ACTIVE row has
its tunnel.

**Payments and subscriptions** — `api/{payments_cryptobot,payments_admin,promocodes,subscriptions}.py`,
`services/{entitlements,cryptobot}.py`.
State: `users.premium_until`, `invoices`, `promo_codes`, `promo_code_redemptions`; at the provider,
which invoices were paid.
Operations: three endpoints that open an invoice, the webhook, `grant_premium`, creation,
redemption and revocation of codes.
Interaction: the provider delivers an update again until it is answered 200; the webhook ends in
the referral reward.
Hard: at-least-once delivery, the sale and the premium in two commits, stale copies of the user row.
Correct means: what was sold is granted, once; a code goes to one user; every payment is seen.

**Referral programme** — `api/affiliate.py`, `services/affiliate.py`.
State: affiliate columns of `users`, `referral_transactions`, `withdrawal_requests`; at the provider,
the application's funds.
Operations: `process_referral_reward` inside the webhook, `apply-partner`, `withdraw` (which may
transfer at once), admin `approve` and `reject`, `process_withdrawal`.
Hard: two deliveries of a payment, a transfer that times out after it was carried out, an admin and
the automatic withdrawal at the same row.
Correct means: a payment is rewarded once, the counter that sets the rate counts no referral twice, the
balance is reduced only by what was sent.

**VPN client session** — `lib/providers/service_provider.dart` (class `VpnProvider`),
`lib/core/protocol_juggler.dart`, `lib/services/amo_pool_service.dart`, the buttons of
`lib/screens/home_screen.dart`.
State: the provider's fields (status, selected and active server, start of the session, which of the
two native services is in use), the WireGuard configurations stored on the phone, the calls in flight
and the timer loops alive, and what the two native services are doing.
Operations: `connect` with its three paths (queued sing-box configuration, pool with the protocol
juggler, WireGuard), `disconnect`, `selectServer`, the one-second timer loop with ping measurement,
failover to another server and the five minute limit of a session without full access.
Interaction: asks the backend for pool and configuration; starts and stops the native services
through method channels.
Hard: methods interleave at each await, the guard against a second `connect` comes before the first
await and the state it guards is set after it, loops of earlier sessions may still be alive; a failing
native call may leave its service running, and the failure of a stop is swallowed.
Correct means: when the session is over nothing runs but what a failing call left; a limited session
ends; a connected session has a timer; the active server shown is the one the tunnel goes to.

**Configuration queue** — `lib/core/config_queue.dart`, called by `config_cache_service.dart`.
State: three slots in the phone's secure storage, each a configuration and a time stamp under keys of
their own.
Operations: `dequeue` (find the first live slot, move the following ones forward), `enqueue`.
Interaction: path one of the client's `connect` takes one, and a second one if sing-box does not start;
after a connect a refill is fetched and put in the background. The caller gives up on a take after
five seconds, but the take goes on, beside the next one.
Hard: up to eighteen accesses to the storage with an await at each, refills and other takes between
them, the app killed between any two.
Correct means: a configuration is handed out once, not after its 24 hours, and none is overlooked.

**sing-box service of the Android client** — `SingboxserviceService.kt`, the sing-box channel of
`MainActivity.kt` (both under `android/app/src/main/kotlin/com/safenet/vpn/`).
State: the tun device and its duplicate, descriptor 0 of the app, which is the device while tun2socks is
started, the two child processes (sing-box, tun2socks), the flag that `status` reports; the one request
parked while the permission dialog is open; what Android knows of the service (created, started, to be
destroyed).
Operations: `start`, `stop`, the dialog's result, `onStartCommand`, `onDestroy`, `onRevoke`, the worker
`startVpn`, `stopAll`.
Interaction: the client's `start` is answered when the service was asked to start, not when it runs;
each start has a thread of its own; `stopAll` is run by three kinds of threads without a lock.
Hard: a stop while the worker is half way, two starts, a revocation, a process that dies.
Correct means: nothing is left running or open after a stop or a failure (descriptor 0 is, which is a
finding), a request is answered at most once, a stop ends the session.

**Support** — `api/support.py`, its deployed copy `server_deploy/support.py` with one endpoint more
(`/support/ask`), `server_deploy/ai_support.py`.
State: the tables `support_sessions` and `support_messages`.
Operations: ask the assistant, open or find the active session, create one, write as the user or as
the agent, resolve, rate, read the history.
Interaction: the app, the operator's bot and the assistant write into the same sessions.
Hard: a session is looked for, found open or missing, and written to in a later step; two requests
write one row; a question and its answer are rows with time stamps of their own among others.
Correct means: a user has one open session, nothing is written into a resolved one, a question is
followed by its answer, off-topic questions are turned away.

**Telegram link** — `api/users.py`.
State: `telegram_id`, `link_token` and its expiry in `users`.
Operations: generate a code (the app), link with it and unlink (the bot).
Hard: the bot's requests look the row up and write it in a later step, without asking again.
Correct means: a code is used once and within ten minutes.

**Distributed registry** — `distributed_registry/scripts/{gossip_protocol,registry_crypto}.py`.
State of a node: the registry (gateways, revoked tokens, banned nodes), the log of updates, the
blacklist, the outgoing buffer.
Operations: create a signed update, receive one, hand out what waits to be sent.
Interaction: whoever runs the nodes takes the pending updates of one and gives them to others; the
repository has no transport but the test's loop.
Hard: any order, copies over several ways, copies lost, a hop limit, identifiers made of the
millisecond, signatures checked with the receiver's key.
Correct means: nodes with the same updates agree, an update passes a node once, none gets lost.

**ANO** — `api/ano.py`, `services/ano/*`: graph, causality, prediction, decision memory.
State: a graph of servers, what they stand in and their incidents, with a snapshot on disk; a window
of samples per server; the decisions recorded with their confidence. All but the snapshot in memory.
Operations: `analyze` (a sample in, an incident and a recommendation out), `recommendation`; reports of
outcomes, decay, snapshots and the topology, which only tests call so far.
Interaction: the snapshot is written by a thread under the graph's lock; the rating that the pool and
smart-connect use is a formula of its own and is a constant there.
Hard: windows that slide, advice that feeds on unreported outcomes, a dump cut off by the end of the
process.
Correct means: a cause is named from what the graph holds, a server that stays bad is seen as such,
advice follows what worked.

### Not modelled yet

| Component | State and operations | Hard | Correct means |
|---|---|---|---|
| The rest of the Android services (`StealthserviceService`, `AmneziaWGService`, `FallbackController`, `ByeDPI*`, `SingboxProxyService`, the WireGuard channel of `MainActivity`) | the tunnel handle, a worker per call, the fallback chain, the pending operation of the dialog | a second start replaces the handle before it has succeeded; an overwritten pending call | a stop stops the tunnel that is up, every call is answered |
| Handover state machine, health checker, scout client | phase and pending configuration of a handover; probes | a probe that answers late, timeouts | an old tunnel is dropped only after the new one carries traffic (the state machine is created only by its test) |
| Converters VLESS/Trojan to sing-box | pure | missing fields | a converted configuration is one `isValid` accepts |
| Client accounts, servers, subscriptions | token, user, server list | requests that answer after a logout | what is shown belongs to who is logged in |
| Administration, server status, seeds (`api/{admin,server_status,servers}.py`) | reads, premium granted by hand, server rows | stale rows written back | — |
| Configuration distribution (`api/{iran,config}.py`, `services/{xray,xray_models,regional_profiles}.py`) | built per request; a counter per node | validation of optional fields | what is handed out is valid for the region |
| Blind tokens (`billing_crypto/scripts`) | issued and spent tokens | a token spent twice | a token gives access once |
| Marketing, DNS messenger, Felix, masking | triggers, segments, levels | — | a trigger fires once |
| Node scripts and infrastructure | shell, compose files, a round robin | — | — |
| Screens, localisation, theme, local database, update check | widgets | — | — |
| Earlier copies (`backend_service.py`, `backend_servers.py`), tools, seeds, migrations | nothing imports them | — | — |

## 2. The modules

| Module | What it is |
|---|---|
| `VpnSessions` | the backend's side of a VPN session |
| `Vouchers` | abstract: what promo codes promise |
| `Payments` | invoices, webhook, promo codes, `grant_premium` |
| `Affiliate` | rewards and withdrawals, as operators over the state of `Payments` |
| `Billing` | `Payments` and `Affiliate` composed: the webhook's last part is the reward |
| `VpnProvider` | the client's side of a VPN session |
| `ConfigQueue` | the client's queue of spare configurations |
| `SingboxService` | the Android service behind the sing-box channel |
| `Support` | support sessions, messages and the assistant |
| `TelegramLink` | link codes of the Telegram bot |
| `Gossip` | the distributed registry |
| `TopologyGraph`, `DecisionMemory` | ANO's graph with the causality engine, and its memory, as operators over their state |
| `Ano` | both composed with the predictor and the analysis request |
| `MC...` | the constants' values for TLC |
| `...Proofs` of `VpnSessions`, `Billing` (and `Payments`), `VpnProvider`, `ConfigQueue`, `SingboxService`, `Support`, `Gossip`, `Ano` | theorems and proofs |

In those of the backend and of the client a handler or method is split where the code awaits; its local
variables are a record with a `pc` naming the await it waits at. A step is everything the code does from
one await to the next.

**`VpnSessions`.** `conns` is the `user_connections` table as a sequence (insertion order, which
`ORDER BY created_at DESC` reads backwards); `peers` and `speed` are the servers' WireGuard interface
and traffic shaper; `req` holds a record per HTTP request in flight; `watchdog` the rows its cycle
selected and has not visited; `heals` the queued background tasks. `ConnectLookup`,
`AllocateIp`, `ConnectInsert`, `ConnectReuse`, `AddPeer`, `SpeedTier`, `SetSpeed` are `connect_vpn`
in order; `PoolRead`, `PoolPick`, `PoolInsert`, `PoolReturn` the pool loop; `ReportRead`,
`ReportRevoke` the report; `WatchdogSelect`, `WatchdogRemove`, `WatchdogCommit` one cycle.
Time is three ages of `last_used_at`: never set, under five minutes, over.

**`Payments`.** `premiumUntil` is counted in days; a handler keeps the copy of it that it read first,
as the code does (`expire_on_commit=False`), and `Grant` extends that copy. `WebhookRead` ..
`WebhookMark` .. `Grant` .. `Finish` is the webhook, with the commit of the sale before the commit of
the premium; `RedeemRead`, `RedeemCommit`, `RedeemRefused` the redemption with its guarded `UPDATE`.
`Vouchers` is the promise of the codes; `Payments` refines it through `open`, `closed` and `holders`
computed from the two tables.

**`Affiliate`, `Billing`.** `reward` is what `process_referral_reward` holds at its awaits inside the
webhook's handler, `payout` what a `withdraw` or `approve` request holds. `Billing` replaces
`Finish` of `Payments` by the reward and has everything else of both run side by side.

**`VpnProvider`.** `tap` is a record per `connect` or `disconnect` in flight, `loop` one per timer
loop alive. `Prepared` (token, server list), `Fetched` and `Started` (path one), `PoolAnswered`,
`PoolFailed`, `SingleAnswered`, `CacheRead`, `WireguardAnswered` (the rest of `connect`), `Tried`,
`Waited`, `Halted` (the juggler), `Tick`, `StatsRead`, `PingAnswered`, `PingFailed`, `FailedOver`,
`LimitReached` (the timer loop). `wgCache` says of which server the configuration under a server's
key is: `SingleAnswered` stores what came under the server selected by then, and a session whose
request fails reads it back. `singbox` and `wireguard` are what the native services do; a call to them may fail and
leave its service running (`NativeStop`, `TunnelFailed`), and `stuck` holds the services that run because a
call did. `Off` is that no others run. The ghost variable `odd` records, for the session since the last
fresh `connect`, that path one started it, that calls overlapped, that a failover took place, or that a
configuration was stored under another server when it began: the code gives up track of the native
services or of the server in these cases, and properties say which of them they exclude.

**`ConfigQueue`.** `value` and `stamp` are the two keys of each slot, `call` a record per `dequeue` or
`enqueue` in flight with the locals of the code (`i`, the head found, `next` and `nextTs`). A step is
one access to the storage: `Scan`, `ScanStamp`, `DropValue`, `DropStamp` are `_readSlot` in the search
for the head; `ReadNext`, `ReadNextStamp`, then `MoveValue`, `MoveStamp` or `EmptyValue`, `EmptyStamp`
one turn of the shift; `ClearValue`, `ClearStamp` its end; `Look`, `PutValue`, `PutStamp` are `enqueue`.
`Killed` forgets the calls and keeps the storage. Five ghosts remember when a configuration was stored
(`putAt`), how often it was returned (`handed`), how many takes were cut short or joined by another
(`cuts`), whether a refill ran beside a take or was cut short (`mixed`), and what was live all the time
since the take began (`offered`).

**`SingboxService`.** `thread` is a record per worker, plus the main thread and the binder thread that
calls `onRevoke`; its steps end where a field of the service is read or written or where the code
waits. `Open`, `Dup`, `Spawn`, `Spawned`, `Bridge`, `Bridged`, `Wait` are `startVpn`, each of which may
throw into its `finally`; `StopBridge`, `StopProxy`, `Close` are `stopAll`. `field` holds the four
fields of every service object, `up` what is really open or alive, each named by the worker that
opened it. `stdin` is the worker whose TUN device descriptor 0 of the app still is: `Bridge` puts it
there and takes it away once tun2socks has started, unless the start or the opening of `/dev/null` fails
(`unbridged`). The interface made last (`iface`) is up until its last descriptor is closed, that
one included, or until another start or a revocation replaces it. Android's part (`StartService`,
`StopSelf`, `BringDown`, when `onRevoke` comes, when a process dies) is external: an object that stopped
itself is destroyed once no interface of it is up. The ghost `disturbed` records that a start met a
thread at work or a stop a worker that was starting.

**`Support`.** `requests` holds a record per request: `at = "send"` has read and will insert, `"commit"`
has inserted (`Insert`: the rows take their `created_at`, one apart for question and answer) and will
commit. `AskRead`, `ActiveRead`, `CreateBegin`, `SaveRead`, `AgentRead`, `ResolveRead`, `RateRead` are the
endpoints up to there, refusals left out; `CommitSession`, `CommitAsk`, `CommitMessage`, `CommitResolve`,
`CommitRate` the rest. `/support/ask` passes through `CommitSession` and again through `Insert` if it had
to make a session. The two copies of the API are the same text for the endpoints they share; the map
names one or the other. What the assistant sees of a question is `Features`: the four tests of
`get_answer` are the model's. The ghosts `found`, `seen` and `by` record what a request knew when it began.

**`TelegramLink`.** `LinkRead` and `LinkCommit` or `LinkClear`, `UnlinkRead` and `UnlinkCommit` are the
bot's two requests, split at the write; only changed columns are written and the unique index on
`telegram_id` may refuse. `accepted` counts how often a code was answered with ok.

**`Gossip`.** `registry`, `log`, `blacklist`, `outbox` are a node's fields; `net` the copies on their way.
`Create` is `create_signed_update`, which applies and logs; `Send` is `get_pending_updates` by a caller
that reaches some of the peers; `Receive` is `receive_update` with its ways out: `Ignore`, `Distrust` (a
source whose key is not the receiver's is blacklisted), `Accept`. A clock tick is the resolution of
`time.time()`, several of which fall into the millisecond that names an update. The ghosts `made`,
`applied`, `lost` say what was created, what a node has taken, and which sends failed.

**`TopologyGraph`, `DecisionMemory`, `Ano`.** `nodes` and `edges` are the graph (one edge for a pair, as
in a `DiGraph`), `file` the snapshot, which is `Torn` between its opening and its writing; `Blame` is the
causality engine with its five scores in hundredths. `entries` are the decisions in the order of their
recording, `Best` the first with the highest score, compared without division; `used` is a count of
events in the place of the clock. In `Ano`, `AnalyzeBegin` and `AnalyzeEnd` are the request, split where
the graph's lock is free for the snapshot's thread (`Dump`); `history` are the samples, and
`Forecast` the predictor. Its `tanh` is reduced to a sign: the metrics of the instance are far enough
apart to saturate it. `run` counts equal samples in a row.

## 3. The runs

| Run | Shows | Bounds |
|---|---|---|
| `vpn_serial` | one request at a time: one live row per server, an active row has a start, stale sessions end, while wg-manager fails and the backend restarts | 1 user, 2 servers, 2 rows, pool of 1, 1 restart |
| `vpn_concurrent` | two requests of one user at once, premium bought and lapsed: an ACTIVE row has its tunnel and speed limit when nobody works on it | 1 user, 1 server, 2 rows, 1 address |
| `payments` | premium is what was sold, a code is redeemed once, every payment is seen | a user who waits for answers and one who does not, 2 invoices, 1 code, 2 handlers, 1 restart, a clock that passes the end of a weekly term |
| `billing` | the counter counts no referral twice, what left a balance was sent | a partner with 2 referred users, 2 invoices, 2 deliveries at once, 1 withdrawal, 2 payout requests, timeouts, 1 restart |
| `client_session` | a connected session has its timer, a limited one ends, an ordinary one leaves nothing running but what a failing call left, the server shown is the tunnel's | 2 servers, 1 call, 2 timer loops, 1 protocol, 1 stored configuration, a block after 2 failed pings, native calls that fail |
| `config_queue` | a configuration is handed out once, and once more for each take cut short or joined; an expired one is not taken, a live one not overlooked | 2 takes, 1 refill, 3 configurations, 3 slots, a life of 2 ticks, 2 takes cut short or joined |
| `singbox_service` | a request is answered at most once, nothing is left but the device on descriptor 0, a stop ends a session | 2 starts, 2 stops, 3 service objects, both answers of the dialog, a failure at every step |
| `gossip` | nodes with the same updates agree, an update passes a node once and is kept from a neighbour only by a failed send or its twin | 4 nodes in a line with one key, 1 with its own, 2 updates, 2 hops, 3 ticks, 2 of them in a millisecond |
| `support` | late messages and double sessions come of overlap only, a resolved session stays so, an answer follows its question | 1 user, 2 requests at a time, 2 questions, 2 sessions, 4 time stamps, a history of 2 |
| `ano` | a bad server that stays bad looks normal unless it loses packets; advice that rests on an untried decision is not replaced by what is recorded later; types, across dumps and restarts | 1 server in a data centre in a campus, 2 samples, window of 2 with a baseline of 1, 3 incidents, 3 decisions or outcomes |
| `payments_crash`, `telegram_link` | a counterexample each: what a docstring says and the code does not do | the smallest that shows it |

Why these bounds. Two servers are what it takes to have another one; a pool of one is full and
empty; two rows and one address let the allocator run out; two handlers are two deliveries of an
update, and a third would only be a third of the same. Two timer loops are the loop of the last
session and that of this one; the six properties of `client_session` were also checked with two
calls in flight and one loop (7.9 million states, above the time a run is given), which is where
overlapping taps and configurations stored under another server appear. One stored configuration is
enough to be of the server selected, of another, or missing. A restart needs to happen once between any
two steps. `BlockedAfter` is 2 instead of 3: what matters is that one failure is not a block.

The queue keeps its three slots; three configurations fill it, and a fourth or a second refill were
checked with one take. Configurations are interchangeable, so the run uses symmetry; it checks no
liveness. `singbox_service` is cut off by a constraint at the first disturbance: two of its properties
say nothing of what comes after, and `TypeOK` and `AnsweredOnce` are proved of every behaviour. Two
starts one after the other, a stop that has to create a service to stop, and a third object are within
the bounds.

In `gossip` two hops on a line of four nodes make the hop limit keep an update from the far end, and
the way back to the sender a second copy; the fifth node is the one everybody but itself distrusts.
`support` runs two requests, enough for any two to overlap, and its history is shorter than what can be
written; requests are interchangeable, so it uses symmetry, and it checks no liveness. `ano` has one
server because servers share nothing but the graph, whose incidents do not count as neighbours. The
window of 2 is full, slides and forgets its first sample within three analyses; a window of 3 with a
baseline of 2 and four analyses was checked too (10.8 million states, near the time a run is given).

`vpn_concurrent` and the violations run without fairness of requests: a client owes nothing.

**Fairness.** `VpnSessions`: weak fairness of the watchdog, whose loop catches every exception and
sleeps 30 s, and of queued background tasks, which the event loop runs. `Payments`: weak fairness of
a handler that has started (the event loop resumes it), strong fairness of the delivery of an
update, because the provider delivers again until it is answered and a slot for it is free again and
again. `VpnProvider`: weak fairness of calls and loops, because every awaited call has a timeout or
answers through the platform channel, and of the clock. `SingboxService`: weak fairness of the
threads and of the main thread's queue (the system schedules them), and of the death of a process that
`stopAll` waits for, since after two seconds it is killed by force; none of processes otherwise, of the
dialog, or of the system destroying a service. Nothing is assumed of users, admins or
payments. `Billing`, `ConfigQueue`, `Gossip`, `Support`, `TelegramLink` and `Ano` check safety only: nothing
in the code sends a gossip again, and their requests owe nobody an end.

**Violations.** `payments_crash`: a restart between the two commits loses the premium.
`telegram_link`: two requests with one code both find it unused.

More disagreements are recorded as findings without a run of their own.

- VPN sessions: the allocator does not see addresses of STANDBY rows; a report fails for a user with one
  address on two servers; the background task that refills the pool gets no session and does nothing; a
  reconnect between the watchdog's remove-peer call and its commit leaves a REVOKED row with a tunnel;
  nobody resets `is_premium`, so the watchdog skips users whose premium has run out; the model's docstring
  allows three rows per user and server where the code makes one; two connects at the same time make two.
- Money: two withdrawals pass the check for an active one; the yearly plan grants 360 days; of two payments
  of a user that are marked before either is counted, none is his first, and he is never counted.
- Client: the `finally` of path one forgets that sing-box was started, and the limit stops the wrong
  service; a stop that fails is swallowed, and the session shown as over; a start of WireGuard or a failover
  that fails may leave the tunnel up; a configuration is stored before it has connected, and under the server
  selected by then; a start of tun2socks that fails leaves descriptor 0 of the app the TUN device, which
  nobody closes; `stopAll` has passed tun2socks when the worker starts it, and the session runs on; a full
  configuration queue overwrites its newest entry; an expired head leaves a hole which the next
  configuration fills, in front of older ones; a configuration without a time stamp never expires.
- Support and Telegram: an open session can be rated; the agent cannot resolve one; one of the topic
  words never matches; a request that found an expired code removes a fresh one.
- ANO: a recommendation raises as soon as there is one; advice for one server comes from any other; the
  score uses the last downtime, not the average, so what was never tried wins; the data centre's score
  counts containers, not servers; nodes that an edge creates stay without a type.
- Registry: every process makes its own key, so nodes refuse and blacklist each other.

## 4. The proofs

Every theorem holds for all values of the constants allowed by the named assumptions of its module
(sets of users, servers, handlers of any size, also infinite ones). `ConfigQueue` assumes that the takes
in flight are finitely many, because the end of the app counts them, and `Support` that a question is
neither an answer nor a message of a chat. A theorem that needs more says so in its statement.

**`VpnSessionsProofs`.** `TypeCorrect` by `TypeInv`: the types and what a handler's record holds at
each await (`HandlerOK`: the row it works on exists, the address it was given is of the range),
without which the update of a row would not be one. `ActiveRowsHaveStart` from the same steps.
`OneLiveRowOfSerialUser` says it user by user: who has one request in flight at a time has one usable row
on a server, whatever the requests of others do; `AtMostOneLiveRow` is the case of `SerialClients`, where
all are such users. Both need `SerialInv`: what a handler that waits knows of its user's rows (`UpToDate`:
a connect about to insert has found no row, the pool's `seen` covers the live rows). It survives the
steps of everybody else because in that user's rows these only take some out of use (`Shrinks`,
`SerialFrame`), for which a connect, also of a user who does not wait, must be known to reactivate a row of its own
user (`HandlerSerial`). `ServedWhileUp` (an ACTIVE row nobody works on has
its peer and its speed limit) assumes what the property is about, a wg-manager that answers
(`~WgMayFail`) and a backend that stays up (`MaxRestarts = 0`), and any number of requests of any number
of users: both failures break it, since they are logged and forgotten. `ServedInv` says it of every
ACTIVE row, with the exceptions a handler or the watchdog is responsible for: a request that is adding a
peer holds its row's address (`HandlerServed`), and the watchdog takes peers away only of rows it
selected (`WatchdogServed`).

**`BillingProofs`, of `Payments` alone.** `TypeCorrect` with what a handler works for (`HandOK`, `InvoicesOwned`,
`ChargedExist`). `VouchersImplemented`: `Payments` refines `Vouchers`. The inductive part is
`CodesCounted`: a redeemed code was issued and its use is counted, so the guard of the `UPDATE`
implies the abstract guard `holders[c] = {}`; each action maps to a step of `Vouchers` or to a stutter.
`SalesAddUp` and `NothingGivenAway` bound the premium from below and from above by a sum over the paid
invoices and the redeemed codes, by `SoldInv`: the handler that commits a sale holds a copy of the term
that is up to date (below: `AddsUp`) or not ahead (above: `PaidFor`) until it has granted the sale. The
second assumes `ProviderWaits`, without which two deliveries that both read an invoice as unpaid both
grant it. The sums are the community modules' fold. The library's induction on finite sets takes a
predicate and cannot be used, but it can be stated with a set of sets in the predicate's place: a family
that has every subset of a finite set once it has the subset less any element has the set itself
(`FiniteInduction`, from the well-foundedness of the strict subset ordering). From it come `SumIsNat`,
the sum of one element more and of functions that agree.

**`BillingProofs`, of the composition.** `BillingIsPayments`: hiding the affiliate state, every behaviour
of `Billing` is one of `Payments`; so `BillingKeepsVouchers` and the lemmas about `Payments` carry over
without a new proof, and `BillingAddsUp` too. `BillingTypeCorrect`. `RewardsFollow` (a payment is
rewarded once, after it was marked and granted) by `Linked`: a reward in progress belongs to the sale its
handler has just granted, which `SaleInv` says is paid and granted. `ReferralsCountedOnce` (the counter
is the number of users with a CPA booking, each of whom has one; not everybody who paid has) by
`FirstOnly`: a payment about to count as a first one is the only one of its user that does; the
cardinality step needs that the rows are finitely many (`Finite`), which is part of the invariant because
the sets of the constants may be infinite. `DebitsAreSent` (what a partner earned and no longer has was
sent) is an inequality of sums that each step moves on both sides: the provider's answer adds to what was
sent as it adds to what is being settled, the debit moves it from there to the balance. It needs
`BillingInv` and that both sets are finite (`Bounded`).

**`VpnProviderProofs`.** `TypeCorrect`. `TimerAlways` by `TimerInv`: a connected session also has a
start time, since a loop that found none would end. `OrdinaryTurnsOff` and `ErrorsTurnOff` by
`OrdinaryInv`: while nothing odd has happened, there is one call at a time and no failover or limit
next to it (`Alone`); what runs is what `_usingSingbox` names, but for the juggler's probe and for what
a failing call left (`Accounted`, by `SingboxOurs` and `TunnelOurs`); a call that connects started from
nothing (`CallsKnow`); and what the limit decided to stop is still all that runs (`LimitKnows`). The
property alone is not inductive: it says nothing of the states in between. A fresh `connect` resets the
ghost, so `status = "disconnected"` must imply that the start time is gone whatever happened before,
which is the third conjunct. `ActiveShowsTunnel` has an invariant of its own, since a failover does not
excuse it (`Steady`): no call is in flight while connected, a call or a failover about to start a tunnel
starts that of the selected server, and what is stored under a server is its configuration
(`CacheInOrder`). The last survives only while nobody chooses another server beside a call, hence the
`"mixed"` sessions the property leaves out.

**`ConfigQueueProofs`.** The seventeen actions of calls are first brought into two shapes, what a step of
a take does to its local state and to the storage (`Takes`) and the same of a refill (`Puts`); the proofs
go by these. `TypeCorrect` with `IndexOK`, that a shift stays within the slots. `Known` says that what a
refill brings is in no slot and no other hand until it is stored. `NothingMissed` by `Missed`: what was
live all the time is not in a slot the search has passed, because such a slot was empty or expired and
only something new can get there. `NothingExpired` by `Tidy`: while nothing overlaps and nothing is cut
short, value and time stamp of a slot belong together but for the slot a call is at, and what a shift
carries is what it read (`TakerTidy`). `HandedOnce` assumes `[]OneTake`, that no two takes run at once;
refills run beside them, and the app may end at any point. `CopiesInv` counts the copies of a
configuration in the slots, but for the one slot whose content the shift has used up (`Hole`), in the
take's hands and handed out; while a copy is being moved it counts as two (`Ahead`), and the end of the
app leaves one more at most, which `cuts` counts. That two takes that overlap leave one more at most for
each, which `HandedAtMost` also says, needs the relative order of their shifts, and stays with TLC.

**`SingboxServiceProofs`.** `TypeCorrect`. `OneAnswer`: the request that is parked has not been answered,
nor one that was not made. `OnlyStdinLeftBehind` by `Left`, as long as the run is not disturbed: a thread that
has ended holds nothing open; whatever is up is what the fields of its service object name, so that
`stopAll` finds it; a worker that is starting is the only thread at work; and a thread inside `stopAll`
knows the process it waits for and has dealt with the ones before it. What is on descriptor 0 is there
because it was not put back (`StdinInv`), disturbed or not.

**`GossipProofs`.** `Invariance` carries five parts: `AllMade` (what is kept or on its way was made under
an identifier of its maker's, not in the future, and its maker has applied it), `LogIsApplied` (the log
goes as far as what was applied, and no entry of it came from nowhere), `BlacklistIsForeign` (only a
source with another key is blacklisted), `RegistryIsNewest` and `NothingVanishes`. `NewestWins` is the
induction over orders of arrival; `Convergence` is a consequence of it, since two nodes with the same
updates have the same newest one. `Delivery` needs the log (an update that is stale at its first arrival
has been overtaken by its twin) and the blacklist (who shares the key is heard). `FloodEnds` follows from
the log. Nothing is assumed of the topology, the keys or the number of nodes.

**`SupportProofs`.** The invariant says of a request in flight what the row it works on was
(`Targets`: it exists, and was open if a message is to be written), that its time stamps lie behind the clock
(`Stamped`), and that one about to make a session saw none open (`FoundNone`). `NewestExists` gives the
lookup its row: among any sessions one has the latest time stamp, which a set of any size only has
because rows are added one at a time. `NobodyWritesLate` and `DoublesComeOfOverlap` follow, the second
from `FoundNone` because nobody opens a session again; `ResolvedForGood` from the commits, which write
single columns. `QuestionsAnswered` by `HistoryInv`: time stamps of messages are different, and none lies
among those a request has taken for what it is about to commit (`Apart`), so nothing comes between a
question and its answer, which are committed together. That the history's limit cuts off either both or
the answer alone, and then ends with the question, is a matter of counting messages
(`HistoryAnswers`): those before the answer are those before the question and the question.

**`AnoProofs`.** `TypeCorrect` by `Inv`. That the graph is one is not enough: the blame for an incident is
the best of scores that count what stands around a server, and a count is a number only of a finite
set, so the invariant has that the nodes are finitely many although servers and places need not be.
The best of a ranking, and the first of the best, exist by an induction over the
candidates (`BestExists`, `FirstBestExists`, with a set in the predicate's place as in
`BillingProofs`); the ranking of the memory is one because fractions compared by cross-multiplication
compare transitively (`Cross`). `SlowLooksNormal` by `Steady`: the last `run[s]` samples of a server are
the same. A window full of them has them in its baseline too, whose sum is then the sample times its
length (`SteadySum`, about the library's fold), and nothing differs from its own average.
`UntriedSticks` by `DecisionInv`: a decision nobody has reported on is as it was recorded, with the
confidence, the count and the downtime a new one starts from. So a new one ties with the advised one at best, and
comes later. What `Decay` leaves are entries that were there, no more than before (`KeptType`), by an
induction over the recursive function, which first has to be shown to exist (`KeptTableExists`).

**Only model-checked.** Liveness (`StaleSessionsEnd`, `PaymentsSeen`, `LimitedSessionsEnd`, `StopsEnd`):
TLAPS does not handle fairness. `HandedAtMost` for takes that overlap. Its natural invariant would be that
an overlap adds one copy at most to those `CopiesInv` counts, and that is not so: if a configuration lies in the
first and the last slot and another between them, one take that overlaps another makes four copies of
the two. No history leads there that has not left a disturbance unused before, and it takes the
reachable states to see it. TLC was therefore also given more of them than the run: up to six
disturbances with two takes, and three with three takes, any number of refills (each in one step), one
configuration told apart from the rest. The bound holds in all. The violations have nothing to prove.

## 5. What is assumed, and what is not modelled

- A database commit is atomic and a `SELECT` sees the last commit; a row that is flushed writes the
  columns that changed. Row locks (`FOR UPDATE`) are not needed beyond the order of the steps.
- `ReferredBy` is a constant: nothing in the source writes the column after registration.
- `Hasty` separates users who wait for an answer from those who do not, because the code keeps its
  promise on sums only to the former; `ProviderWaits` says that an update is not delivered again
  while a delivery is handled. Where a property needs them, its comment says so.
- `ClockDays` are the days on which something is looked at; in between nothing changes.
- For `VpnProvider`, a native call takes effect when its answer arrives. It may fail: a stop leaves its
  service as it is, a start of WireGuard may leave the tunnel as it was, take it down or put it up.
  `SingboxService` shows that the answer to a sing-box start comes before that; the two are not composed yet.
- Accesses to the phone's storage are atomic and may be ordered in any way between calls in flight.
- Android: a service object lives until it is stopped and no interface of it is up; `onRevoke` comes on a
  thread of its own, only while an interface is up. A process that was told to end ends before the
  thread that waits for it goes on (by force after two seconds).
- Gossip: whoever calls the nodes delivers whole updates, any number of times and in any order, or not at
  all. Signatures are unforgeable: a receiver accepts what was signed with its own key.
- Support: a transaction that does not end leaves nothing; `created_at` is taken when the rows are
  inserted, and no two are equal.
- Telegram: no code is drawn twice (six characters at random).
- ANO: metrics are integers, and edges join servers and places. Topology, outcomes, decay and snapshots
  have no caller outside the tests; the model lets them happen at any time between requests. A process
  that ends while it writes the snapshot leaves a file that cannot be read, and the next one starts with
  an empty graph.
- `queueLength`, `clearQueue`, `preload` and the compatibility wrappers of the queue have no caller.
- The client's server list is loaded, and the pool's servers are in it (others fall back to the
  selected one in the code, which the model also allows).
- Prices, countries, display texts, traffic counters, QR codes and e-mail are left out: no decision
  depends on them.
- The rest of the table in section 1 is not modelled.

## 6. Plan

In order:

1. Proofs: what holds of `OnlyStdinIsLeft` and `ExpiredIsNotTaken` after a disturbance.
2. `ConfigPool` (abstract: a set of configurations, put, take, expire), implemented by `ConfigQueue`
   for one take and no refill beside it.
3. The rest of the Android services: the WireGuard channel's pending slot, the tunnel handle of
   `StealthVPNService`, the fallback controller, ByeDPI, the proxy test service; and `VpnProvider`
   composed with `SingboxService`, whose start is answered early.
4. `ServerStatus`, `ClientAccount`, `Handover`, `AccessTokens`: small state machines.
5. `Algorithms`: the rating formula, regional profiles, validation of models, converters, round robin,
   version comparison, over bounded inputs against reference definitions.

The number of runs stays at twelve: as steps add runs, a violation gives up its place to them and stays
as a described finding.
