----------------------------- MODULE VpnSessions -----------------------------
(***************************************************************************)
(* The server side of a VPN session: the /service endpoints that hand out  *)
(* WireGuard configurations (connect, smart-connect, pool, report-blocked, *)
(* the background pool healer), the IP allocator and the wg-manager calls  *)
(* behind them, and the watchdog that ends the sessions of users whose     *)
(* trial is over.                                                          *)
(*                                                                         *)
(* Every handler is an asyncio coroutine: it is split where the code       *)
(* awaits, and anything may run between two of its steps.  A handler that  *)
(* writes a row it read earlier writes only the columns it changed, as     *)
(* SQLAlchemy's flush does.                                                *)
(***************************************************************************)
EXTENDS Naturals, Sequences, FiniteSets

CONSTANTS
  Users,         \* rows of the users table
  Servers,       \* active rows of the servers table
  RatedServers,  \* servers NodeRanker scores at least 5 (the pool's threshold)
  IPs,           \* host numbers of the client range, 2..254 in the code
  Requests,      \* HTTP requests that can be in flight at the same time
  Client,        \* the user each request slot belongs to
  Buyers,        \* users who may buy premium in this instance
  PoolSize,      \* configurations in a full pool, 3 in the code
  WgMayFail,     \* whether calls to wg-manager may fail
  MaxConns,      \* bound: rows in user_connections
  MaxRestarts    \* bound: restarts of the backend process

ASSUME SetsAssumption    == RatedServers \subseteq Servers /\ Buyers \subseteq Users
ASSUME IPsAssumption     == IPs \subseteq Nat
ASSUME ClientAssumption  == Client \in [Requests -> Users]
ASSUME NumbersAssumption ==
  /\ PoolSize \in Nat \ {0}
  /\ WgMayFail \in BOOLEAN
  /\ MaxConns \in Nat
  /\ MaxRestarts \in Nat

VARIABLES
  users,     \* what the handlers read of each users row
  conns,     \* user_connections, oldest first; an index stands for id and keys
  peers,     \* rows whose public key is on the WireGuard interface
  speed,     \* tier the traffic shaper holds for each client IP
  req,       \* local state of each request handler
  heals,     \* users with a heal_pool_task queued
  watchdog,  \* local state of the watchdog's cycle
  restarts   \* restarts so far

vars == <<users, conns, peers, speed, req, heals, watchdog, restarts>>

-----------------------------------------------------------------------------
(* Data.                                                                   *)

Status == {"ACTIVE", "STANDBY", "REVOKED"}

\* last_used_at, as far as the watchdog can tell: NULL, less than
\* SESSION_LIMIT_MINUTES ago, or longer ago than that.
Age == {"never", "fresh", "old"}

Tier == {"none", "trial", "premium"}

\* isPremium is the column; paid says premium_until is in the future; parity
\* is post_trial_connect_count % 2.
User == [isPremium : BOOLEAN, paid : BOOLEAN, trial : BOOLEAN, parity : {0, 1}]

Conn == [user : Users, server : Servers, ip : IPs, status : Status, lastUsed : Age]

NoConn == 0

PC == {"idle", "authed", "alloc", "insert", "reuse", "fill", "revoke",
       "addPeer", "speed", "multipleRows", "exhausted"}

\* op tells the two callers of the allocator apart; limited, premium and parity
\* are what the handler's copy of the users row says; seen and count are the pool
\* loop's existing_server_ids and len(configs).
Request ==
  [pc : PC, op : {"none", "connect", "pool"},
   limited : BOOLEAN, premium : BOOLEAN, parity : {0, 1},
   server : Servers \cup {NoConn}, ip : IPs \cup {NoConn}, conn : Nat,
   wasActive : BOOLEAN, seen : SUBSET Servers, count : Nat]

IsUserPremium(u) == u.isPremium /\ u.paid

Limited(u) == ~(IsUserPremium(u) \/ u.trial)

ConnIds == DOMAIN conns

Live(c) == conns[c].status \in {"ACTIVE", "STANDBY"}

LiveOf(u) == {c \in ConnIds : conns[c].user = u /\ Live(c)}

RowsOf(u, s) == {c \in ConnIds : conns[c].user = u /\ conns[c].server = s}

\* ORDER BY created_at DESC LIMIT 1
Newest(c, u, s) == c \in RowsOf(u, s) /\ \A d \in RowsOf(u, s) : d <= c

\* allocate_ip looks at the ACTIVE rows of the server and at no others.
FreeIPs(s) ==
  IPs \ {conns[c].ip : c \in {d \in ConnIds : conns[d].server = s
                                              /\ conns[d].status = "ACTIVE"}}

\* Bound: a new row may be started only while the table has room for it.
Room ==
  Len(conns) + Cardinality({r \in Requests : req[r].pc \in {"alloc", "insert"}})
    < MaxConns

IdleRequest ==
  [pc |-> "idle", op |-> "none", limited |-> FALSE, premium |-> FALSE, parity |-> 0,
   server |-> NoConn, ip |-> NoConn, conn |-> NoConn, wasActive |-> FALSE,
   seen |-> {}, count |-> 0]

NewUser == [isPremium |-> FALSE, paid |-> FALSE, trial |-> TRUE, parity |-> 0]

IdleWatchdog == [pc |-> "idle", rows |-> {}, todo |-> {}]

Init ==
  /\ users = [u \in Users |-> NewUser]
  /\ conns = <<>>
  /\ peers = {}
  /\ speed = [i \in IPs |-> "none"]
  /\ req = [r \in Requests |-> IdleRequest]
  /\ heals = {}
  /\ watchdog = IdleWatchdog
  /\ restarts = 0

-----------------------------------------------------------------------------
(* Entitlement of the users, as far as sessions depend on it.               *)

TrialEnds(u) ==
  /\ users[u].trial
  /\ users' = [users EXCEPT ![u] = [@ EXCEPT !.trial = FALSE]]
  /\ UNCHANGED <<conns, peers, speed, req, heals, watchdog, restarts>>

GrantPremium(u) ==
  /\ u \in Buyers
  /\ ~users[u].paid
  /\ users' = [users EXCEPT ![u] = [@ EXCEPT !.isPremium = TRUE, !.paid = TRUE]]
  /\ UNCHANGED <<conns, peers, speed, req, heals, watchdog, restarts>>

\* premium_until passes.  Nothing in the backend resets is_premium.
PremiumLapses(u) ==
  /\ users[u].paid
  /\ users' = [users EXCEPT ![u] = [@ EXCEPT !.paid = FALSE]]
  /\ UNCHANGED <<conns, peers, speed, req, heals, watchdog, restarts>>

\* The handler that refreshed row c has not finished its wg-manager calls.
Serving(r, c) == req[r].pc \in {"addPeer", "speed"} /\ req[r].conn = c

\* More than SESSION_LIMIT_MINUTES pass since last_used_at: longer than the
\* wg-manager calls after it, which time out after five seconds.
SessionAges(c) ==
  /\ conns[c].lastUsed = "fresh"
  /\ ~\E r \in Requests : Serving(r, c)
  /\ conns' = [conns EXCEPT ![c] = [@ EXCEPT !.lastUsed = "old"]]
  /\ UNCHANGED <<users, peers, speed, req, heals, watchdog, restarts>>

-----------------------------------------------------------------------------
(* Request handlers.                                                       *)

Becomes(r, q) == req' = [req EXCEPT ![r] = q]

Respond(r) == Becomes(r, IdleRequest)

\* get_current_user: the handler keeps the row it loaded here to the end (the
\* counter matters to a limited user's connect only).
Authenticate(r) ==
  LET u == users[Client[r]] IN
  /\ req[r].pc = "idle"
  /\ Becomes(r, [req[r] EXCEPT !.pc = "authed", !.limited = Limited(u),
                          !.premium = IsUserPremium(u),
                          !.parity = IF Limited(u) THEN u.parity ELSE 0])
  /\ UNCHANGED <<users, conns, peers, speed, heals, watchdog, restarts>>

\* POST /connect/{server_id}: look for the user's newest row on the server,
\* whatever its status.
ConnectLookup(r, s) ==
  /\ req[r].pc = "authed"
  /\ \/ /\ RowsOf(Client[r], s) = {}
        /\ Room
        /\ Becomes(r, [req[r] EXCEPT !.pc = "alloc", !.op = "connect", !.server = s])
     \/ \E c \in ConnIds :
          /\ Newest(c, Client[r], s)
          /\ Becomes(r, [req[r] EXCEPT !.pc = "reuse", !.op = "connect",
                          !.server = s, !.conn = c,
                          !.wasActive = (conns[c].status = "ACTIVE")])
  /\ UNCHANGED <<users, conns, peers, speed, heals, watchdog, restarts>>

\* POST /smart-connect: the same with the server NodeRanker rates best or, when
\* none rates above 15, the first; metrics change freely, so it may be any.
SmartConnect(r) == \E s \in Servers : ConnectLookup(r, s)

\* Slip: the address after the lowest free one.
AllocateIp_OffByOne(r) ==
  /\ req[r].pc = "alloc"
  /\ \E i \in FreeIPs(req[r].server) :
       /\ \A j \in FreeIPs(req[r].server) : i <= j
       /\ Becomes(r, [req[r] EXCEPT !.pc = "insert", !.ip = i + 1])
  /\ UNCHANGED <<users, conns, peers, speed, heals, watchdog, restarts>>

\* WireGuardService.allocate_ip: the lowest free address.
AllocateIp(r) ==
  /\ req[r].pc = "alloc"
  /\ \E i \in FreeIPs(req[r].server) :
       /\ \A j \in FreeIPs(req[r].server) : i <= j
       /\ Becomes(r, [req[r] EXCEPT !.pc = "insert", !.ip = i])
  /\ UNCHANGED <<users, conns, peers, speed, heals, watchdog, restarts>>

AllocateFails(r) ==
  /\ req[r].pc = "alloc"
  /\ FreeIPs(req[r].server) = {}
  /\ Becomes(r, [req[r] EXCEPT !.pc = "exhausted"])
  /\ UNCHANGED <<users, conns, peers, speed, heals, watchdog, restarts>>

\* post_trial_connect_count += 1, computed from the row loaded at the start.
CountLimitedConnect(r) ==
  users' = IF req[r].limited
           THEN [users EXCEPT ![Client[r]] = [@ EXCEPT !.parity = 1 - req[r].parity]]
           ELSE users

NewRow(r, status, age) ==
  [user |-> Client[r], server |-> req[r].server, ip |-> req[r].ip,
   status |-> status, lastUsed |-> age]

ConnectInsert(r) ==
  /\ req[r].pc = "insert"
  /\ req[r].op = "connect"
  /\ conns' = Append(conns, NewRow(r, "ACTIVE", "fresh"))
  /\ CountLimitedConnect(r)
  /\ Becomes(r, [req[r] EXCEPT !.pc = "addPeer", !.conn = Len(conns) + 1])
  /\ UNCHANGED <<peers, speed, heals, watchdog, restarts>>

\* Slip: a reactivated row is taken to be registered already.
ConnectReuse_NoRegistration(r) ==
  LET c == req[r].conn IN
  /\ req[r].pc = "reuse"
  /\ conns' = [conns EXCEPT ![c] = [@ EXCEPT
                 !.status = IF req[r].wasActive THEN conns[c].status ELSE "ACTIVE",
                 !.lastUsed = "fresh"]]
  /\ CountLimitedConnect(r)
  /\ Respond(r)
  /\ UNCHANGED <<peers, speed, heals, watchdog, restarts>>

\* The flush writes status only when the handler did not read ACTIVE.
ConnectReuse(r) ==
  LET c == req[r].conn IN
  /\ req[r].pc = "reuse"
  /\ conns' = [conns EXCEPT ![c] = [@ EXCEPT
                 !.status = IF req[r].wasActive THEN conns[c].status ELSE "ACTIVE",
                 !.lastUsed = "fresh"]]
  /\ CountLimitedConnect(r)
  /\ Becomes(r, [req[r] EXCEPT !.pc = "addPeer", !.ip = conns[c].ip])
  /\ UNCHANGED <<peers, speed, heals, watchdog, restarts>>

\* Slip: only ACTIVE rows count as existing.
PoolRead_ActiveOnly(r) ==
  LET existing == {c \in LiveOf(Client[r]) : conns[c].status = "ACTIVE"} IN
  /\ req[r].pc = "authed"
  /\ Becomes(r, [req[r] EXCEPT !.pc = "fill", !.op = "pool",
                          !.seen = {conns[c].server : c \in existing},
                          !.count = Cardinality(existing)])
  /\ UNCHANGED <<users, conns, peers, speed, heals, watchdog, restarts>>

\* POST /pool: the user's live rows, then one new STANDBY row per server the
\* ranker offers until the pool is full.
PoolRead(r) ==
  /\ req[r].pc = "authed"
  /\ Becomes(r, [req[r] EXCEPT !.pc = "fill", !.op = "pool",
                          !.seen = {conns[c].server : c \in LiveOf(Client[r])},
                          !.count = Cardinality(LiveOf(Client[r]))])
  /\ UNCHANGED <<users, conns, peers, speed, heals, watchdog, restarts>>

PoolPick(r, s) ==
  /\ req[r].pc = "fill"
  /\ req[r].count < PoolSize
  /\ s \in RatedServers \ req[r].seen
  /\ Room
  /\ Becomes(r, [req[r] EXCEPT !.pc = "alloc", !.server = s])
  /\ UNCHANGED <<users, conns, peers, speed, heals, watchdog, restarts>>

\* Slip: the first configuration of an empty pool is stored ACTIVE, as the
\* response says, and no session start is written.
PoolInsert_PromoteFirst(r) ==
  /\ req[r].pc = "insert"
  /\ req[r].op = "pool"
  /\ conns' = Append(conns, NewRow(r, IF req[r].count = 0 THEN "ACTIVE" ELSE "STANDBY",
                                   "never"))
  /\ Becomes(r, [req[r] EXCEPT !.pc = "addPeer", !.conn = Len(conns) + 1,
                          !.seen = @ \cup {req[r].server}, !.count = @ + 1])
  /\ UNCHANGED <<users, peers, speed, heals, watchdog, restarts>>

PoolInsert(r) ==
  /\ req[r].pc = "insert"
  /\ req[r].op = "pool"
  /\ conns' = Append(conns, NewRow(r, "STANDBY", "never"))
  /\ Becomes(r, [req[r] EXCEPT !.pc = "addPeer", !.conn = Len(conns) + 1,
                          !.seen = @ \cup {req[r].server}, !.count = @ + 1])
  /\ UNCHANGED <<users, peers, speed, heals, watchdog, restarts>>

\* The loop ends; the promotion of configs[0] touches the response only.
PoolReturn(r) ==
  /\ req[r].pc = "fill"
  /\ req[r].count >= PoolSize \/ RatedServers \subseteq req[r].seen \/ ~Room
  /\ Respond(r)
  /\ UNCHANGED <<users, conns, peers, speed, heals, watchdog, restarts>>

\* add_peer_to_server; a failure is logged and the handler goes on.  A connect
\* that found its row ACTIVE skips the speed limit.
AddPeer(r) ==
  /\ req[r].pc = "addPeer"
  /\ peers' \in {peers \cup {req[r].conn}} \cup (IF WgMayFail THEN {peers} ELSE {})
  /\ IF req[r].wasActive THEN Respond(r)
                         ELSE Becomes(r, [req[r] EXCEPT !.pc = "speed"])
  /\ UNCHANGED <<users, conns, speed, heals, watchdog, restarts>>

\* is_user_premium is asked again here, of the row loaded at the start.
SpeedTier(r) == IF req[r].premium /\ users[Client[r]].paid THEN "premium" ELSE "trial"

SetSpeed(r) ==
  /\ req[r].pc = "speed"
  /\ speed' \in {[speed EXCEPT ![req[r].ip] = SpeedTier(r)]}
                  \cup (IF WgMayFail THEN {speed} ELSE {})
  /\ IF req[r].op = "pool"
     THEN Becomes(r, [req[r] EXCEPT !.pc = "fill", !.server = NoConn,
                          !.ip = NoConn, !.conn = NoConn])
     ELSE Respond(r)
  /\ UNCHANGED <<users, conns, peers, heals, watchdog, restarts>>

\* POST /report-blocked, with the address of a configuration the client was
\* given: scalar_one_or_none() finds nothing, one row, or raises.
ReportRead(r, i) ==
  LET found == {c \in LiveOf(Client[r]) : conns[c].ip = i} IN
  /\ req[r].pc = "authed"
  /\ \/ /\ found = {}
        /\ Respond(r)
     \/ \E c \in found :
          /\ found = {c}
          /\ Becomes(r, [req[r] EXCEPT !.pc = "revoke", !.conn = c])
     \/ /\ \E c, d \in found : c # d
        /\ Becomes(r, [req[r] EXCEPT !.pc = "multipleRows"])
  /\ UNCHANGED <<users, conns, peers, speed, heals, watchdog, restarts>>

ReportRevoke(r) ==
  /\ req[r].pc = "revoke"
  /\ conns' = [conns EXCEPT ![req[r].conn] = [@ EXCEPT !.status = "REVOKED"]]
  /\ heals' = heals \cup {Client[r]}
  /\ Respond(r)
  /\ UNCHANGED <<users, peers, speed, watchdog, restarts>>

\* A handler that raised answers 500.
Fail(r) ==
  /\ req[r].pc \in {"multipleRows", "exhausted"}
  /\ Respond(r)
  /\ UNCHANGED <<users, conns, peers, speed, heals, watchdog, restarts>>

\* heal_pool_task runs with its default argument, the Depends marker, for a
\* session: its first execute raises and the except clause swallows it.
HealPool(u) ==
  /\ u \in heals
  /\ heals' = heals \ {u}
  /\ UNCHANGED <<users, conns, peers, speed, req, watchdog, restarts>>

-----------------------------------------------------------------------------
(* The watchdog: select, then one remove-peer call per row, then commit.   *)

\* The rows the watchdog's query returns.
Expired ==
  {c \in ConnIds : /\ conns[c].status = "ACTIVE"
                   /\ ~users[conns[c].user].isPremium
                   /\ ~users[conns[c].user].trial
                   /\ conns[c].lastUsed = "old"}

WatchdogSelect ==
  /\ watchdog.pc = "idle"
  /\ Expired # {}
  /\ watchdog' = [pc |-> "removing", rows |-> Expired, todo |-> Expired]
  /\ UNCHANGED <<users, conns, peers, speed, req, heals, restarts>>

\* remove_peer_from_server swallows every failure.
WatchdogRemove(c) ==
  /\ watchdog.pc = "removing"
  /\ c \in watchdog.todo
  /\ peers' \in {peers \ {c}} \cup (IF WgMayFail THEN {peers} ELSE {})
  /\ watchdog' = [watchdog EXCEPT !.todo = @ \ {c}]
  /\ UNCHANGED <<users, conns, speed, req, heals, restarts>>

\* Slip: the cycle ends without its commit.
WatchdogCommit_Dropped ==
  /\ watchdog.pc = "removing"
  /\ watchdog.todo = {}
  /\ watchdog' = IdleWatchdog
  /\ UNCHANGED <<users, conns, peers, speed, req, heals, restarts>>

\* Slip: a row is marked only if its peer is seen to be gone.
WatchdogCommit_IfGone ==
  /\ watchdog.pc = "removing"
  /\ watchdog.todo = {}
  /\ conns' = [c \in ConnIds |->
                 IF c \in watchdog.rows \ peers
                 THEN [conns[c] EXCEPT !.status = "REVOKED"] ELSE conns[c]]
  /\ watchdog' = IdleWatchdog
  /\ UNCHANGED <<users, peers, speed, req, heals, restarts>>

WatchdogCommit ==
  /\ watchdog.pc = "removing"
  /\ watchdog.todo = {}
  /\ conns' = [c \in ConnIds |->
                 IF c \in watchdog.rows THEN [conns[c] EXCEPT !.status = "REVOKED"]
                                        ELSE conns[c]]
  /\ watchdog' = IdleWatchdog
  /\ UNCHANGED <<users, peers, speed, req, heals, restarts>>

-----------------------------------------------------------------------------
\* The backend process is restarted: handlers, queued tasks and the watchdog's
\* uncommitted cycle are lost, the database and the interface stay.
Restart ==
  /\ restarts < MaxRestarts
  /\ restarts' = restarts + 1
  /\ req' = [r \in Requests |-> IdleRequest]
  /\ heals' = {}
  /\ watchdog' = IdleWatchdog
  /\ UNCHANGED <<users, conns, peers, speed>>

Entitlement ==
  \/ \E u \in Users : TrialEnds(u) \/ GrantPremium(u) \/ PremiumLapses(u)
  \/ \E c \in ConnIds : SessionAges(c)

Handler(r) ==
  \/ Authenticate(r)
  \/ \E s \in Servers : ConnectLookup(r, s) \/ PoolPick(r, s)
  \/ SmartConnect(r)
  \/ AllocateIp(r) \/ AllocateFails(r)
  \/ ConnectInsert(r) \/ ConnectReuse(r)
  \/ PoolRead(r) \/ PoolInsert(r) \/ PoolReturn(r)
  \/ AddPeer(r) \/ SetSpeed(r)
  \/ \E c \in ConnIds : conns[c].user = Client[r] /\ ReportRead(r, conns[c].ip)
  \/ ReportRevoke(r) \/ Fail(r)

Watchdog ==
  \/ WatchdogSelect
  \/ \E c \in watchdog.todo : WatchdogRemove(c)
  \/ WatchdogCommit

Next ==
  \/ Entitlement
  \/ \E r \in Requests : Handler(r)
  \/ \E u \in Users : HealPool(u)
  \/ Watchdog
  \/ Restart

Spec == Init /\ [][Next]_vars

\* The watchdog's loop never ends (its errors are caught and it sleeps 30 s),
\* and queued background tasks run.  Nobody is obliged to make a request.
Fairness == WF_vars(Watchdog) /\ \A u \in Users : WF_vars(HealPool(u))

FairSpec == Spec /\ Fairness

-----------------------------------------------------------------------------
(* Properties.                                                             *)

TypeOK ==
  /\ users \in [Users -> User]
  /\ conns \in Seq(Conn)
  /\ peers \subseteq ConnIds
  /\ speed \in [IPs -> Tier]
  /\ req \in [Requests -> Request]
  /\ heals \subseteq Users
  /\ watchdog \in [pc : {"idle", "removing"}, rows : SUBSET ConnIds, todo : SUBSET ConnIds]
  /\ restarts \in Nat

\* No user has two requests in flight.
SerialClients == \A q, r \in Requests : Client[q] = Client[r] => q = r

\* A user has at most one usable configuration on a server, and it is the row
\* a new connect would find (connect_vpn takes the newest row of any status, and
\* the pool skips the servers with a live row).  The docstring of UserConnection
\* allows three to a server; the code spreads them over servers.  Holds for
\* clients that send one request at a time: two connects at once both find no
\* row and both insert one.
OneLivePerServer ==
  \A c \in ConnIds : Live(c) => Newest(c, conns[c].user, conns[c].server)

\* An ACTIVE row always has a session start: the watchdog's query skips rows
\* whose last_used_at is NULL, so such a session would never end.
ActiveHasStart == \A c \in ConnIds : conns[c].status = "ACTIVE" => conns[c].lastUsed # "never"

\* Handlers between their commit and their wg-manager calls, and the watchdog
\* between remove-peer and its commit, are still working on these rows.
InHand(c) ==
  \/ \E r \in Requests : Serving(r, c)
  \/ c \in watchdog.rows

\* While wg-manager answers and the backend stays up, every ACTIVE row nobody
\* is working on has its peer on the interface and a speed limit: no order of
\* connects, reports and watchdog cycles leaves a "connected" user without a
\* tunnel (connect_vpn sets the limit only when it did not find the row ACTIVE).
ActiveIsServed ==
  \A c \in ConnIds :
    conns[c].status = "ACTIVE" /\ ~InHand(c)
      => c \in peers /\ speed[conns[c].ip] # "none"

\* A session of a user who never bought premium and whose trial is over ends
\* some time after it is five minutes old, unless it is renewed, whatever
\* wg-manager does and however often the backend restarts.
StaleSessionsEnd == \A c \in 1..MaxConns : (c \in Expired) ~> (c \notin Expired)

=============================================================================
