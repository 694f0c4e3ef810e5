---------------------------- MODULE VpnProvider -----------------------------
(***************************************************************************)
(* The client side of a VPN session: VpnProvider with the ProtocolJuggler  *)
(* it tries protocols with, the one-second timer loop that ends a limited  *)
(* session and detects a block, and the two native services it drives      *)
(* (sing-box, WireGuard).                                                  *)
(*                                                                         *)
(* Dart runs one event at a time: a method is split where it awaits, and   *)
(* taps, timer loops and answers may run between two of its steps.  A      *)
(* native call takes effect when its answer arrives.  It may fail, and     *)
(* then leave running what it was to stop, or up what it was to start.     *)
(***************************************************************************)
EXTENDS Naturals, FiniteSets

CONSTANTS
  Servers,       \* the loaded server list; the pool's servers are among them
  None,          \* null
  Taps,          \* bound: connect and disconnect calls in flight at once
  Loops,         \* bound: timer loops alive at once
  Bundled,       \* whether the build carries sing-box (bundleSingbox)
  Stored,        \* bound: configurations in the store at once
  BlockedAfter,  \* failed pings in a row that mean a block, 3 in the code
  Protocols      \* protocols the pool may bring a sing-box configuration for

ASSUME NoneAssumption      == None \notin Servers
ASSUME BundledAssumption   == Bundled \in BOOLEAN
ASSUME NumbersAssumption   ==
  Protocols \in Nat /\ Stored \in Nat /\ BlockedAfter \in Nat \ {0}

VARIABLES
  status,        \* _status
  usingSingbox,  \* _usingSingbox
  unlimited,     \* _isUnlimitedSession
  selected,      \* _selected
  active,        \* _active
  age,           \* _connectedAt: "none" is null, "due" is five minutes ago
  failedPings,   \* _failedPings
  singbox,       \* SingboxVpnService was started and not stopped since
  wireguard,     \* server the WireGuard tunnel goes to
  stuck,         \* services that run because a call to the service failed
  wgCache,       \* server whose configuration is stored under wg_config_<server>
  tap,           \* local state of each connect or disconnect call
  loop,          \* local state of each timer loop
  odd            \* what is out of the ordinary in this session

session == <<status, usingSingbox, unlimited, selected, active, age, failedPings>>
native  == <<singbox, wireguard, stuck>>
vars    == <<session, native, wgCache, tap, loop, odd>>

-----------------------------------------------------------------------------
(* Data.                                                                   *)

Status == {"disconnected", "connecting", "connected", "disconnecting", "error"}

Backend == {"singbox", "wireguard"}

TapPC ==
  {"idle", "prepare", "fetch", "start", "fetchNext", "startNext", "pool", "single",
   "cached", "wireguard", "try", "ready", "halt", "boot", "bootReady", "bootHalt", "stop"}

\* left: protocols the juggler has not tried; server: the server of the
\* configuration at hand; stops: the native service a disconnect chose to stop.
Tap ==
  [pc : TapPC, left : 0..Protocols, server : Servers \cup {None},
   stops : Backend]

IdleTap == [pc |-> "idle", left |-> 0, server |-> None, stops |-> "wireguard"]

LoopPC == {"none", "asleep", "stats", "ping", "failover", "limit"}

Loop == [pc : LoopPC, server : Servers \cup {None}, stops : Backend]

NoLoop == [pc |-> "none", server |-> None, stops |-> "wireguard"]
Asleep == [NoLoop EXCEPT !.pc = "asleep"]

\* mixed: when the session began a server's configuration was stored under another.
Oddities == {"pathOne", "overlap", "failover", "mixed"}

TypeOK ==
  /\ status \in Status
  /\ usingSingbox \in BOOLEAN
  /\ unlimited \in BOOLEAN
  /\ selected \in Servers
  /\ active \in Servers \cup {None}
  /\ age \in {"none", "young", "due"}
  /\ failedPings \in 0..(BlockedAfter - 1)
  /\ singbox \in BOOLEAN
  /\ wireguard \in Servers \cup {None}
  /\ stuck \subseteq Backend
  /\ wgCache \in [Servers -> Servers \cup {None}]
  /\ tap \in [Taps -> Tap]
  /\ loop \in [Loops -> Loop]
  /\ odd \subseteq Oddities

\* A service runs that no failing call accounts for.
SingboxOurs == singbox /\ "singbox" \notin stuck
TunnelOurs  == wireguard # None /\ "wireguard" \notin stuck

\* Nothing runs but what calls to a service left running when they failed.
Off == ~SingboxOurs /\ ~TunnelOurs

\* Under each server its own configuration is stored, or none.
CacheInOrder == \A s \in Servers : wgCache[s] \in {s, None}

\* Slip: the service of the time before sing-box.
InUse_WireguardOnly == "wireguard"

\* The service stop would be called for.
InUse == IF usingSingbox THEN "singbox" ELSE "wireguard"

\* No call that drives a native service is under way.
Quiet ==
  /\ \A t \in Taps : tap[t].pc = "idle"
  /\ \A l \in Loops : loop[l].pc \notin {"failover", "limit"}

\* A failover took place, which matters unless worse has happened.
MarkFailover ==
  odd' = IF odd \cap {"pathOne", "overlap"} = {} THEN odd \cup {"failover"} ELSE odd

\* A step that starts something, or changes the selection, under such a call.
MarkOverlap == odd' = IF Quiet THEN odd ELSE {"overlap"}

Init ==
  /\ status = "disconnected"
  /\ usingSingbox = FALSE
  /\ unlimited = FALSE
  /\ selected \in Servers
  /\ active = None
  /\ age = "none"
  /\ failedPings = 0
  /\ singbox = FALSE
  /\ wireguard = None
  /\ stuck = {}
  /\ wgCache = [s \in Servers |-> None]
  /\ tap = [t \in Taps |-> IdleTap]
  /\ loop = [l \in Loops |-> NoLoop]
  /\ odd = {}

-----------------------------------------------------------------------------
(* Steps shared by the handlers.                                           *)

Goto(t, pc) == tap' = [tap EXCEPT ![t].pc = pc]

Return(t) == tap' = [tap EXCEPT ![t] = IdleTap]

\* _startTimer: a further loop, whatever loops are still alive.
StartTimer ==
  \E l \in Loops : loop[l].pc = "none" /\ loop' = [loop EXCEPT ![l] = Asleep]

\* _finishConnect
FinishConnect(t) ==
  /\ status' = "connected"
  /\ active' = selected
  /\ age' = "young"
  /\ StartTimer
  /\ Return(t)
  /\ UNCHANGED <<unlimited, selected, failedPings>>

\* connect ends in its catch clause, or the juggler found no way through.
Fail(t) ==
  /\ status' = "error"
  /\ Return(t)
  /\ UNCHANGED <<usingSingbox, unlimited, selected, active, age, failedPings, loop>>

\* Steps of a handler that leave the session as it is.
Continue == UNCHANGED <<session, loop, odd>>

\* start of a service succeeded.
SingboxUp == singbox' = TRUE /\ stuck' = stuck \ {"singbox"} /\ UNCHANGED wireguard
TunnelUp(s) == wireguard' = s /\ stuck' = stuck \ {"wireguard"} /\ UNCHANGED singbox

\* start of WireGuard failed: before it touched the tunnel, after it took down the
\* former one, or after the new one was up (ByeDPI did not start).
TunnelFailed(s) ==
  /\ \/ UNCHANGED <<wireguard, stuck>>
     \/ wireguard' = None /\ stuck' = stuck \ {"wireguard"}
     \/ wireguard' = s /\ stuck' = stuck \cup {"wireguard"}
  /\ UNCHANGED singbox

\* stop of a service, which answers nothing a caller looks at: it stops what runs,
\* or fails and forgets about it.
NativeStop(which) ==
  \/ /\ IF which = "singbox"
        THEN singbox' = FALSE /\ UNCHANGED wireguard
        ELSE wireguard' = None /\ UNCHANGED singbox
     /\ stuck' = stuck \ {which}
  \/ /\ IF which = "singbox" THEN singbox ELSE wireguard # None
     /\ stuck' = stuck \cup {which}
     /\ UNCHANGED <<singbox, wireguard>>

\* The stop disconnect and the limit make: _usingSingbox is reset whatever came of it.
StopNative(which) ==
  /\ NativeStop(which)
  /\ usingSingbox' = (usingSingbox /\ which # "singbox")

-----------------------------------------------------------------------------
(* Connecting.                                                             *)

\* Nothing of an earlier session is left, but what a failing stop left.
Fresh == Off /\ ~usingSingbox /\ Quiet

\* A tap on the button while disconnected, or checkAutoConnect at start-up.
\* The guard of connect against a second call looks at the status, which stays
\* disconnected until the token and the server list have been awaited.
Connect(t) ==
  /\ tap[t].pc = "idle"
  /\ status = "disconnected"
  /\ unlimited' \in BOOLEAN
  /\ tap' = [tap EXCEPT ![t] = [IdleTap EXCEPT !.pc = "prepare"]]
  /\ IF Fresh THEN odd' = (IF CacheInOrder THEN {} ELSE {"mixed"}) ELSE MarkOverlap
  /\ UNCHANGED <<status, usingSingbox, selected, active, age, failedPings>>
  /\ UNCHANGED <<native, loop>>

Prepared(t) ==
  /\ tap[t].pc = "prepare"
  /\ UNCHANGED <<native, odd>>
  /\ \/ Fail(t)                                            \* registration failed
     \/ Return(t) /\ UNCHANGED <<session, loop>>           \* no servers: it throws
     \/ /\ status' = "connecting"
        /\ \/ Bundled /\ Goto(t, "fetch")                  \* the mode is hybrid
           \/ Goto(t, "pool")
        /\ UNCHANGED <<usingSingbox, unlimited, selected, active, age, failedPings, loop>>

\* The finally clause of path one runs on every way out of it, also when the
\* session was connected.
PathOneConnected(t) ==
  /\ SingboxUp
  /\ usingSingbox' = FALSE
  /\ FinishConnect(t)
  /\ odd' = {"pathOne"}

PathOneFailed(t) ==
  /\ usingSingbox' = FALSE
  /\ Goto(t, "pool")
  /\ UNCHANGED <<status, unlimited, selected, active, age, failedPings>>
  /\ UNCHANGED <<native, loop, odd>>

\* A configuration from the queue or the network, within five seconds or not.
Fetched(t) ==
  /\ tap[t].pc \in {"fetch", "fetchNext"}
  /\ \/ /\ Goto(t, IF tap[t].pc = "fetch" THEN "start" ELSE "startNext")
        /\ Continue
        /\ UNCHANGED native
     \/ PathOneFailed(t)

Started(t) ==
  \/ tap[t].pc \in {"start", "startNext"} /\ PathOneConnected(t)
  \/ /\ tap[t].pc = "start"
     /\ Goto(t, "fetchNext")
     /\ Continue
     /\ UNCHANGED native
  \/ tap[t].pc = "startNext" /\ PathOneFailed(t)

\* refreshPool answered: the server of the configuration in use becomes the
\* selected one; n protocols have a valid sing-box configuration.
PoolAnswered(t) ==
  /\ tap[t].pc = "pool"
  /\ \E s \in Servers, n \in 0..Protocols :
       /\ selected' = s
       /\ tap' = IF n > 0
                 THEN [tap EXCEPT ![t].pc = "try", ![t].left = n - 1]
                 ELSE [tap EXCEPT ![t].pc = "wireguard", ![t].server = s]
  /\ UNCHANGED <<status, usingSingbox, unlimited, active, age, failedPings>>
  /\ UNCHANGED <<native, loop, odd>>

\* No pool, or an empty one: one configuration is asked for the selected server.
PoolFailed(t) ==
  /\ tap[t].pc = "pool"
  /\ tap' = [tap EXCEPT ![t].pc = "single", ![t].server = selected]
  /\ UNCHANGED <<session, native, loop, odd>>

\* saveWgCache, which is not awaited and may fail.
Store(under, s) ==
  \/ /\ wgCache' = [wgCache EXCEPT ![under] = s]
     /\ Cardinality({u \in Servers : wgCache[u] # None} \cup {under}) <= Stored
  \/ UNCHANGED wgCache

\* connect answered: the configuration is stored under what is selected by now. If it
\* failed, what is stored there is looked up.
SingleAnswered(t) ==
  /\ tap[t].pc = "single"
  /\ \/ /\ Goto(t, "wireguard")
        /\ Store(selected, tap[t].server)
     \/ /\ tap' = [tap EXCEPT ![t].pc = "cached", ![t].server = selected]
        /\ UNCHANGED wgCache
  /\ Continue
  /\ UNCHANGED native

\* getWgCache answered: what is stored, or nothing, which includes an entry that
\* has expired and is deleted.
CacheRead(t) ==
  /\ tap[t].pc = "cached"
  /\ \/ /\ \E s \in Servers :
             /\ wgCache[tap[t].server] = s
             /\ tap' = [tap EXCEPT ![t].pc = "wireguard", ![t].server = s]
        /\ UNCHANGED <<session, wgCache, loop>>
     \/ /\ wgCache' \in {wgCache, [wgCache EXCEPT ![tap[t].server] = None]}
        /\ Fail(t)
  /\ UNCHANGED <<native, odd>>

\* connectAmnezia, connectHybrid or connectAuto answered.
WireguardAnswered(t) ==
  /\ tap[t].pc = "wireguard"
  /\ \/ TunnelUp(tap[t].server) /\ FinishConnect(t) /\ UNCHANGED usingSingbox
     \/ TunnelFailed(tap[t].server) /\ Fail(t)
  /\ UNCHANGED odd

-----------------------------------------------------------------------------
(* ProtocolJuggler.connectWithFailover: the protocols that have a          *)
(* configuration, in order of priority, then the bootstrap configuration.  *)
(* There are never more protocols than maxFailoverCycles.                  *)

JugglerConnected(t) ==
  /\ usingSingbox' = TRUE
  /\ FinishConnect(t)
  /\ UNCHANGED <<native, odd>>

\* Slip: the loop over the protocols runs one too far.
ProtocolsLeft_OneTooFar(t) == tap[t].left >= 0

ProtocolsLeft(t) == tap[t].left > 0

\* After a protocol that did not start or did not get through: the next one, the
\* bootstrap configuration if it can be loaded, or no connection.
NextProtocol(t) ==
  IF ProtocolsLeft(t)
  THEN /\ tap' = [tap EXCEPT ![t].pc = "try", ![t].left = @ - 1]
       /\ UNCHANGED <<status, unlimited, selected, active, age, failedPings, loop>>
       /\ UNCHANGED usingSingbox
  ELSE \/ /\ Goto(t, "boot")
          /\ UNCHANGED <<status, unlimited, selected, active, age, failedPings, loop>>
          /\ UNCHANGED usingSingbox
       \/ Fail(t)

\* startVpn answered.
Tried(t) ==
  /\ tap[t].pc \in {"try", "boot"}
  /\ UNCHANGED odd
  /\ \/ /\ SingboxUp
        /\ Goto(t, IF tap[t].pc = "try" THEN "ready" ELSE "bootReady")
        /\ UNCHANGED <<session, loop>>
     \/ tap[t].pc = "try" /\ NextProtocol(t) /\ UNCHANGED native
     \/ tap[t].pc = "boot" /\ Fail(t) /\ UNCHANGED native

\* waitUntilReady: the port opened and traffic went through in time, or not.
Waited(t) ==
  /\ tap[t].pc \in {"ready", "bootReady"}
  /\ \/ JugglerConnected(t)
     \/ /\ Goto(t, IF tap[t].pc = "ready" THEN "halt" ELSE "bootHalt")
        /\ Continue
        /\ UNCHANGED native

\* Slip: the bootstrap configuration is not stopped when it is not healthy.
StopVpn_NotBootstrap(t) ==
  IF tap[t].pc = "bootHalt" THEN UNCHANGED native ELSE NativeStop("singbox")

\* The juggler's stopVpn. It knows nothing of _usingSingbox.
StopVpn(t) == NativeStop("singbox")

\* stopVpn and the wait for the port, which goes on when the port stays taken.
Halted(t) ==
  /\ tap[t].pc \in {"halt", "bootHalt"}
  /\ StopVpn(t)
  /\ IF tap[t].pc = "halt" THEN NextProtocol(t) ELSE Fail(t)
  /\ UNCHANGED odd

-----------------------------------------------------------------------------
(* Disconnecting and choosing a server.                                    *)

\* A tap on the button while connected, or while an error is shown.
Disconnect(t) ==
  /\ tap[t].pc = "idle"
  /\ status \in {"connected", "error"}
  /\ status' = "disconnecting"
  /\ tap' = [tap EXCEPT ![t] = [IdleTap EXCEPT !.pc = "stop", !.stops = InUse]]
  /\ MarkOverlap
  /\ UNCHANGED <<usingSingbox, unlimited, selected, active, age, failedPings>>
  /\ UNCHANGED <<native, loop>>

Stopped(t) ==
  /\ tap[t].pc = "stop"
  /\ StopNative(tap[t].stops)
  /\ status' = "disconnected"
  /\ active' = None
  /\ age' = "none"
  /\ Return(t)
  /\ UNCHANGED <<unlimited, selected, failedPings, loop, odd>>

SelectServer(s) ==
  /\ s # selected
  /\ selected' = s
  /\ MarkOverlap
  /\ UNCHANGED <<status, usingSingbox, unlimited, active, age, failedPings>>
  /\ UNCHANGED <<native, tap, loop>>

-----------------------------------------------------------------------------
(* The timer loop.                                                         *)

GotoLoop(l, pc) == loop' = [loop EXCEPT ![l].pc = pc]

\* Slip: the loop also ends when the five minutes have passed and nothing is limited.
SessionOver_WhenDue ==
  status # "connected" \/ age = "none" \/ (age = "due" /\ unlimited)

\* The loop ends when it wakes up to find no session.
SessionOver == status # "connected" \/ age = "none"

\* Slip: the limit looks at WireGuard sessions only, as the traffic counters do.
LimitDue_WireguardOnly == ~unlimited /\ age = "due" /\ ~usingSingbox

\* The five minutes of a session without full access have passed.
LimitDue == ~unlimited /\ age = "due"

\* One second later. Traffic counters are read for WireGuard sessions only.
Tick(l) ==
  /\ loop[l].pc = "asleep"
  /\ IF SessionOver
     THEN loop' = [loop EXCEPT ![l] = NoLoop]
     ELSE IF LimitDue
     THEN loop' = [loop EXCEPT ![l] = [NoLoop EXCEPT !.pc = "limit", !.stops = InUse]]
     ELSE IF usingSingbox THEN \/ GotoLoop(l, "ping")
                               \/ GotoLoop(l, "asleep")
     ELSE GotoLoop(l, "stats")
  /\ UNCHANGED <<session, native, tap, odd>>

\* getStatus answered; every tenth tick measures the ping.
StatsRead(l) ==
  /\ loop[l].pc = "stats"
  /\ \/ GotoLoop(l, "ping")
     \/ GotoLoop(l, "asleep")
  /\ UNCHANGED <<session, native, tap, odd>>

PingAnswered(l) ==
  /\ loop[l].pc = "ping"
  /\ failedPings' = 0
  /\ GotoLoop(l, "asleep")
  /\ UNCHANGED <<status, usingSingbox, unlimited, selected, active, age>>
  /\ UNCHANGED <<native, tap, odd>>

\* One failure too many in a row: the configuration is reported as blocked, which
\* only refreshes the pool, and the pool may hold one for a server other than the
\* selected one.
PingFailed(l) ==
  /\ loop[l].pc = "ping"
  /\ IF failedPings + 1 < BlockedAfter
     THEN /\ failedPings' = failedPings + 1
          /\ GotoLoop(l, "asleep")
          /\ UNCHANGED <<selected, odd>>
     ELSE /\ failedPings' = 0
          /\ \/ GotoLoop(l, "asleep") /\ UNCHANGED <<selected, odd>>
             \/ \E s \in Servers \ {selected} :
                  /\ selected' = s
                  /\ MarkOverlap
                  /\ loop' = [loop EXCEPT ![l].pc = "failover", ![l].server = s]
  /\ UNCHANGED <<status, usingSingbox, unlimited, active, age, native, tap>>

\* Slip: the new server is not shown as the active one.
FailedOver_Unnoticed(l) ==
  /\ loop[l].pc = "failover"
  /\ loop' = [loop EXCEPT ![l] = Asleep]
  /\ TunnelUp(loop[l].server)
  /\ MarkFailover
  /\ UNCHANGED <<session, tap>>

\* connectAuto answered; nobody asks whether the user disconnected meanwhile.
FailedOver(l) ==
  /\ loop[l].pc = "failover"
  /\ loop' = [loop EXCEPT ![l] = Asleep]
  /\ \/ /\ TunnelUp(loop[l].server)
        /\ active' = selected
        /\ MarkFailover
        /\ UNCHANGED status
     \/ /\ TunnelFailed(loop[l].server)
        /\ status' = "error"
        /\ UNCHANGED <<active, odd>>
  /\ UNCHANGED <<usingSingbox, unlimited, selected, age, failedPings, tap>>

\* _disconnectPostTrialLimit
LimitReached(l) ==
  /\ loop[l].pc = "limit"
  /\ StopNative(loop[l].stops)
  /\ status' = "error"
  /\ active' = None
  /\ age' = "none"
  /\ loop' = [loop EXCEPT ![l] = NoLoop]
  /\ UNCHANGED <<unlimited, selected, failedPings, tap, odd>>

FiveMinutesPass ==
  /\ age = "young"
  /\ age' = "due"
  /\ UNCHANGED <<status, usingSingbox, unlimited, selected, active, failedPings>>
  /\ UNCHANGED <<native, wgCache, tap, loop, odd>>

-----------------------------------------------------------------------------
ConnectStep(t) ==
  \/ SingleAnswered(t) \/ CacheRead(t)
  \/ /\ \/ Prepared(t) \/ Fetched(t) \/ Started(t) \/ PoolAnswered(t) \/ PoolFailed(t)
        \/ WireguardAnswered(t) \/ Tried(t) \/ Waited(t) \/ Halted(t)
     /\ UNCHANGED wgCache

TapStep(t) ==
  \/ ConnectStep(t)
  \/ Stopped(t) /\ UNCHANGED wgCache

LoopStep(l) ==
  /\ \/ Tick(l) \/ StatsRead(l) \/ PingAnswered(l) \/ PingFailed(l)
     \/ FailedOver(l) \/ LimitReached(l)
  /\ UNCHANGED wgCache

User ==
  /\ \/ \E t \in Taps : Connect(t) \/ Disconnect(t)
     \/ \E s \in Servers : SelectServer(s)
  /\ UNCHANGED wgCache

Next ==
  \/ User
  \/ \E t \in Taps : TapStep(t)
  \/ \E l \in Loops : LoopStep(l)
  \/ FiveMinutesPass

Spec == Init /\ [][Next]_vars

\* Awaited calls return, timers fire and time passes; the user owes nothing.
FairSpec ==
  /\ Spec
  /\ \A t \in Taps : WF_vars(TapStep(t))
  /\ \A l \in Loops : WF_vars(LoopStep(l))
  /\ WF_vars(FiveMinutesPass)

-----------------------------------------------------------------------------
(* Properties.                                                             *)

\* A connected session always has a timer loop: the loop that will end it when
\* it is limited and notice when it is blocked (service_provider.dart:383-421).
ConnectedHasTimer ==
  status = "connected" => \E l \in Loops : loop[l].pc # "none"

\* A session without full access is over after its five minutes, whatever pings,
\* failovers and further calls happen meanwhile (service_provider.dart:389-393).
LimitedSessionsEnd ==
  status = "connected" /\ ~unlimited ~> status # "connected" \/ unlimited

\* Unless sing-box was started by path one, calls overlapped, or a failover took
\* place, what runs once the user is disconnected is only what a call to that very
\* service left running when it failed: _usingSingbox names the service to stop,
\* also after sessions that left something (service_provider.dart:350-371).
OrdinarySessionsTurnOff ==
  Quiet /\ status = "disconnected" /\ odd \subseteq {"mixed"} => Off

\* An error shown after protocols were tried in vain, bootstrap included, or after
\* the time limit has no service behind it that was not left running by a failing
\* call, if the session was an ordinary one (protocol_juggler.dart:267-317,
\* service_provider.dart:501-509).
ErrorsLeaveNothing ==
  Quiet /\ status = "error" /\ age = "none" /\ odd \subseteq {"mixed"} => Off

\* The server shown as active is the one the WireGuard tunnel goes to, also with a
\* stored configuration and after failovers, unless the user chose another while a
\* call was under way: in this session, or in an earlier one that stored a server's
\* configuration under another for it (service_provider.dart:284-296, 338-348, 480).
ActiveIsTunnel ==
  /\ Quiet /\ status = "connected" /\ ~usingSingbox
  /\ odd \subseteq {"failover"}
  => active = wireguard
=============================================================================
