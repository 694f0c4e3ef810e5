--------------------------- MODULE SingboxService ---------------------------
(***************************************************************************)
(* The sing-box VPN of the Android client: SingboxVpnService with its two  *)
(* child processes, and the part of MainActivity that starts and stops it. *)
(*                                                                         *)
(* Each start runs on a thread of its own (startVpn) and waits there for   *)
(* tun2socks.  stopAll is run by that thread at its end, by the main       *)
(* thread for a stop intent and in onDestroy, and by a binder thread in    *)
(* onRevoke, over the fields of the service and without a lock.  A step is *)
(* the code between two accesses to a shared field, or two waits.          *)
(***************************************************************************)
EXTENDS Naturals, Sequences

CONSTANTS
  Requests,      \* start calls of the client; each has at most one worker thread
  Main,          \* the main thread
  Binder,        \* the thread onRevoke is called on
  None,          \* null
  MaxInstances,  \* bound: service objects created
  MaxStops       \* bound: stop calls of the client

ASSUME ActorsAssumption == Main # Binder /\ {Main, Binder, None} \cap Requests = {}
ASSUME BoundsAssumption == MaxInstances \in Nat /\ MaxStops \in Nat

VARIABLES
  permitted,     \* VpnService.prepare would return null
  dialogs,       \* permission dialogs on the screen
  pending,       \* pendingSingboxResult and pendingSingboxConfig
  asked,         \* requests made
  answers,       \* how often a request was answered
  inbox,         \* intents and onDestroy calls the main thread has not handled
  stops,         \* stop calls made
  started,       \* the last service object that was created, 0 for none
  bound,         \* the service object the system runs, 0 for none
  wanted,        \* it was started and did not stop itself since
  field,         \* tunFd, dupTunFd, singboxProc, tun2socksProc of each object
  isRunning,     \* what status reports
  thread,        \* local state of the workers, the main and the binder thread
  up,            \* what the workers opened: descriptors open, processes alive
  iface,         \* the request whose interface the system made last
  stdin,         \* the request whose TUN device descriptor 0 of the app is
  unbridged,     \* requests for which /dev/null was not put back on descriptor 0
  disturbed      \* a start met a thread at work, or a stop a worker still starting

activity == <<permitted, dialogs, pending, asked, answers>>
system   == <<inbox, stops, started, bound, wanted>>
tunnel   == <<iface, stdin, unbridged>>
vars     == <<activity, system, field, isRunning, thread, up, tunnel, disturbed>>

-----------------------------------------------------------------------------
(* Data.                                                                   *)

Actors    == Requests \cup {Main, Binder}
Instances == 1..MaxInstances
Resources == {"tun", "dup", "singbox", "tun2socks"}
Owner     == Requests \cup {None}

Starting  == {"open", "dup", "spawn", "spawned", "sleep", "bridged"}
Stopping  == {"stopBridge", "stopProxy", "close"}
ThreadPC  == {"idle", "wait", "done"} \cup Starting \cup Stopping

\* proc: the process a thread holds in a local variable, named by its worker.
Thread == [pc : ThreadPC, inst : 0..MaxInstances, proc : Owner]
Idle   == [pc |-> "idle", inst |-> 0, proc |-> None]

Message == [kind : {"start", "stop", "destroy"}, inst : Instances, req : Owner]

TypeOK ==
  /\ permitted \in BOOLEAN
  /\ dialogs \in Nat
  /\ pending \in Owner
  /\ asked \subseteq Requests
  /\ answers \in [Requests -> Nat]
  /\ inbox \in Seq(Message)
  /\ stops \in 0..MaxStops
  /\ started \in 0..MaxInstances
  /\ bound \in {0, started}
  /\ wanted \in BOOLEAN
  /\ field \in [Instances -> [Resources -> Owner]]
  /\ isRunning \in BOOLEAN
  /\ thread \in [Actors -> Thread]
  /\ \A a \in Actors : thread[a].pc # "idle" => thread[a].inst \in Instances
  /\ up \in [Resources -> SUBSET Requests]
  /\ iface \in Owner
  /\ stdin \in Owner
  /\ unbridged \subseteq Requests
  /\ disturbed \in BOOLEAN

Init ==
  /\ permitted \in BOOLEAN
  /\ dialogs = 0
  /\ pending = None
  /\ asked = {}
  /\ answers = [r \in Requests |-> 0]
  /\ inbox = <<>>
  /\ stops = 0
  /\ started = 0
  /\ bound = 0
  /\ wanted = FALSE
  /\ field = [k \in Instances |-> [x \in Resources |-> None]]
  /\ isRunning = FALSE
  /\ thread = [a \in Actors |-> Idle]
  /\ up = [x \in Resources |-> {}]
  /\ iface = None
  /\ stdin = None
  /\ unbridged = {}
  /\ disturbed = FALSE

-----------------------------------------------------------------------------
(* The system's side: startService, stopSelf, the service's life cycle.    *)

\* startService: the running object gets the intent, or a new one is created.
StartService(kind, r) ==
  LET k == IF bound # 0 THEN bound ELSE started + 1 IN
    /\ k \in Instances
    /\ inbox' = Append(inbox, [kind |-> kind, inst |-> k, req |-> r])
    /\ bound' = k
    /\ started' = IF bound # 0 THEN started ELSE k
    /\ wanted' = TRUE

StopSelf(k) == wanted' = (wanted /\ k # bound)

\* An interface is up until the last descriptor of its device is closed.
InterfaceUp ==
  /\ iface # None
  /\ stdin = iface \/ \E x \in {"tun", "dup", "tun2socks"} : iface \in up[x]

\* The system keeps the object of the interface that is up, and destroys one
\* that stopped itself.
BringDown ==
  /\ bound # 0
  /\ ~wanted
  /\ InterfaceUp => thread[iface].inst # bound
  /\ bound' = 0
  /\ inbox' = Append(inbox, [kind |-> "destroy", inst |-> bound, req |-> None])
  /\ UNCHANGED <<activity, stops, started, wanted, field, isRunning, thread, up, tunnel, disturbed>>

-----------------------------------------------------------------------------
(* MainActivity, the sing-box channel.  Its handlers and those of the      *)
(* service run on the main thread, one at a time.                          *)

MainIdle == thread[Main].pc = "idle"

Answered(r) == answers' = [answers EXCEPT ![r] = @ + 1]

\* launchSingbox: the answer does not wait for the tunnel.
LaunchSingbox(r) == StartService("start", r) /\ Answered(r)

\* "start": without permission the request is parked in the one pending slot.
Start(r) ==
  /\ MainIdle
  /\ r \notin asked
  /\ asked' = asked \cup {r}
  /\ \/ /\ permitted
        /\ LaunchSingbox(r)
        /\ UNCHANGED <<dialogs, pending>>
     \/ /\ ~permitted
        /\ pending' = r
        /\ dialogs' = dialogs + 1
        /\ UNCHANGED <<answers, inbox, started, bound, wanted>>
  /\ UNCHANGED <<permitted, stops, field, isRunning, thread, up, tunnel, disturbed>>

\* Slip: the slot keeps the request that was answered.
DialogAnswered_Kept ==
  /\ MainIdle
  /\ dialogs > 0
  /\ dialogs' = dialogs - 1
  /\ pending' = pending
  /\ \E ok \in BOOLEAN :
       /\ permitted' = (permitted \/ ok)
       /\ IF ok /\ pending # None
          THEN LaunchSingbox(pending)
          ELSE /\ answers' = IF pending = None THEN answers
                             ELSE [answers EXCEPT ![pending] = @ + 1]
               /\ UNCHANGED <<inbox, started, bound, wanted>>
  /\ UNCHANGED <<asked, stops, field, isRunning, thread, up, tunnel, disturbed>>

\* onActivityResult
DialogAnswered ==
  /\ MainIdle
  /\ dialogs > 0
  /\ dialogs' = dialogs - 1
  /\ pending' = None
  /\ \E ok \in BOOLEAN :
       /\ permitted' = (permitted \/ ok)
       /\ IF ok /\ pending # None
          THEN LaunchSingbox(pending)
          ELSE /\ answers' = IF pending = None THEN answers
                             ELSE [answers EXCEPT ![pending] = @ + 1]
               /\ UNCHANGED <<inbox, started, bound, wanted>>
  /\ UNCHANGED <<asked, stops, field, isRunning, thread, up, tunnel, disturbed>>

\* "stop": the service is started for it if it does not run.
Stop ==
  /\ MainIdle
  /\ stops < MaxStops
  /\ stops' = stops + 1
  /\ StartService("stop", None)
  /\ UNCHANGED <<activity, field, isRunning, thread, up, tunnel, disturbed>>

-----------------------------------------------------------------------------
(* stopAll, run by any thread on the fields of its service object.         *)

Goto(a, pc) == thread' = [thread EXCEPT ![a].pc = pc]

AllQuiet == \A a \in Actors : thread[a].pc \in {"idle", "done"}

Disturbing == \E r \in Requests : thread[r].pc \in Starting

\* Main and binder thread enter stopAll.
StopAll(a, k) ==
  /\ thread' = [thread EXCEPT ![a] = [pc |-> "stopBridge", inst |-> k, proc |-> None]]
  /\ disturbed' = (disturbed \/ Disturbing)

\* Slip: tun2socks is not told to end.
StopBridge_ProxyOnly(a) ==
  /\ thread[a].pc = "stopBridge"
  /\ isRunning' = FALSE
  /\ thread' = [thread EXCEPT ![a].pc = "stopProxy", ![a].proc = None]
  /\ UNCHANGED <<activity, system, field, up, tunnel, disturbed>>

\* isRunning is cleared, and tun2socks told to end if the field names one.
\* proc.destroy takes effect when the process dies.
StopBridge(a) ==
  /\ thread[a].pc = "stopBridge"
  /\ isRunning' = FALSE
  /\ thread' = [thread EXCEPT ![a].pc = "stopProxy",
                              ![a].proc = field[thread[a].inst].tun2socks]
  /\ UNCHANGED <<activity, system, field, up, tunnel, disturbed>>

\* Slip: without tun2socks there is nothing to stop.
StopProxy_WithBridge(a) ==
  LET k == thread[a].inst IN
    /\ thread[a].pc = "stopProxy"
    /\ thread[a].proc \notin up.tun2socks
    /\ field' = [field EXCEPT ![k].tun2socks = None]
    /\ thread' = [thread EXCEPT ![a].pc = "close",
                                ![a].proc = IF field[k].tun2socks = None THEN None
                                            ELSE field[k].singbox]
    /\ UNCHANGED <<activity, system, isRunning, up, tunnel, disturbed>>

\* tun2socks is gone, after two seconds by force; the same for sing-box.
StopProxy(a) ==
  LET k == thread[a].inst IN
    /\ thread[a].pc = "stopProxy"
    /\ thread[a].proc \notin up.tun2socks
    /\ field' = [field EXCEPT ![k].tun2socks = None]
    /\ thread' = [thread EXCEPT ![a].pc = "close", ![a].proc = field[k].singbox]
    /\ UNCHANGED <<activity, system, isRunning, up, tunnel, disturbed>>

\* sing-box is gone: the descriptors are closed and stopAll returns.  A worker
\* and onRevoke stop the service then.
Close(a) ==
  LET k == thread[a].inst IN
    /\ thread[a].pc = "close"
    /\ thread[a].proc \notin up.singbox
    /\ field' = [field EXCEPT ![k].singbox = None, ![k].dup = None, ![k].tun = None]
    /\ up' = [up EXCEPT !.dup = @ \ {field[k].dup}, !.tun = @ \ {field[k].tun}]
    /\ thread' = [thread EXCEPT ![a] =
                    IF a \in Requests THEN [@ EXCEPT !.pc = "done", !.proc = None] ELSE Idle]
    /\ IF a = Main THEN UNCHANGED wanted ELSE StopSelf(k)
    /\ UNCHANGED <<activity, inbox, stops, started, bound, isRunning, tunnel, disturbed>>

-----------------------------------------------------------------------------
(* The service's callbacks.                                                *)

\* onStartCommand and onDestroy
Handle ==
  /\ MainIdle
  /\ inbox # <<>>
  /\ inbox' = Tail(inbox)
  /\ LET m == Head(inbox) IN
       IF m.kind = "start"
       THEN /\ thread' = [thread EXCEPT ![m.req] = [pc |-> "open", inst |-> m.inst, proc |-> None]]
            /\ disturbed' = (disturbed \/ ~AllQuiet)
       ELSE StopAll(Main, m.inst)
  /\ UNCHANGED <<activity, stops, started, bound, wanted, field, isRunning, up, tunnel>>

\* Slip: called for a service that does not run.
Revoked_NotRunning ==
  /\ thread[Binder].pc = "idle"
  /\ permitted
  /\ permitted' = FALSE
  /\ iface' = None
  /\ StopAll(Binder, bound)
  /\ UNCHANGED <<dialogs, pending, asked, answers, system, field, isRunning, up, stdin, unbridged>>

\* onRevoke: another VPN takes over, or the user revokes the permission; the
\* system has taken the interface down.
Revoked ==
  /\ thread[Binder].pc = "idle"
  /\ bound # 0
  /\ permitted
  /\ InterfaceUp
  /\ permitted' = FALSE
  /\ iface' = None
  /\ StopAll(Binder, bound)
  /\ UNCHANGED <<dialogs, pending, asked, answers, system, field, isRunning, up, stdin, unbridged>>

-----------------------------------------------------------------------------
(* startVpn, on the thread of request r.  Whatever throws leads to the     *)
(* finally clause, which is stopAll and stopSelf.                          *)

Worker(r, pc) == thread[r].pc = pc /\ UNCHANGED <<activity, system, disturbed>>

Finally(r) == thread' = [thread EXCEPT ![r].pc = "stopBridge", ![r].proc = None]

Throws(r) == Finally(r) /\ UNCHANGED <<field, isRunning, up>>

Assign(r, x) == field' = [field EXCEPT ![thread[r].inst][x] = r]
Acquire(r, x) == up' = [up EXCEPT ![x] = @ \cup {r}]

\* A step that takes x, keeps it in the field and goes on.
Take(r, x, pc) ==
  /\ Acquire(r, x)
  /\ Assign(r, x)
  /\ Goto(r, pc)
  /\ UNCHANGED isRunning

\* establish: null without permission.
Open(r) ==
  /\ Worker(r, "open")
  /\ UNCHANGED <<stdin, unbridged>>
  /\ \/ permitted /\ Take(r, "tun", "dup") /\ iface' = r
     \/ Throws(r) /\ UNCHANGED iface

\* The descriptor cannot be duplicated once it was closed.
Dup(r) ==
  /\ Worker(r, "dup")
  /\ UNCHANGED tunnel
  /\ IF r \in up.tun THEN Take(r, "dup", "spawn") ELSE Throws(r)

\* The configuration is written and sing-box started.
Spawn(r) ==
  /\ Worker(r, "spawn")
  /\ UNCHANGED tunnel
  /\ Take(r, "singbox", "spawned") \/ Throws(r)

\* singboxProc!! reads the field again.
Spawned(r) ==
  /\ Worker(r, "spawned")
  /\ UNCHANGED tunnel
  /\ LET p == field[thread[r].inst].singbox IN
       IF p = None
       THEN Throws(r)
       ELSE /\ thread' = [thread EXCEPT ![r].pc = "sleep", ![r].proc = p]
            /\ UNCHANGED <<field, isRunning, up>>

\* After a second and a half: sing-box must be alive and the duplicate open.  It
\* becomes descriptor 0 of the app for tun2socks to inherit; /dev/null is put
\* back there once tun2socks runs, if it can be opened.
Bridge(r) ==
  /\ Worker(r, "sleep")
  /\ UNCHANGED iface
  /\ \/ /\ thread[r].proc \in up.singbox
        /\ r \in up.dup
        /\ \/ /\ Take(r, "tun2socks", "bridged")
              /\ stdin' = None
              /\ UNCHANGED unbridged
           \/ /\ Take(r, "tun2socks", "bridged") \/ Throws(r)
              /\ stdin' = r
              /\ unbridged' = unbridged \cup {r}
     \/ Throws(r) /\ UNCHANGED <<stdin, unbridged>>

\* tun2socksProc!!, and the session counts as running.
Bridged(r) ==
  /\ Worker(r, "bridged")
  /\ UNCHANGED tunnel
  /\ LET p == field[thread[r].inst].tun2socks IN
       IF p = None
       THEN Throws(r)
       ELSE /\ thread' = [thread EXCEPT ![r].pc = "wait", ![r].proc = p]
            /\ isRunning' = TRUE
            /\ UNCHANGED <<field, up>>

\* tun2socks has ended.
Wait(r) ==
  /\ Worker(r, "wait")
  /\ UNCHANGED tunnel
  /\ thread[r].proc \notin up.tun2socks
  /\ Finally(r)
  /\ UNCHANGED <<field, isRunning, up>>

\* A child process ends, told to or not.
Dies(x, r) ==
  /\ r \in up[x]
  /\ up' = [up EXCEPT ![x] = @ \ {r}]
  /\ UNCHANGED <<activity, system, field, isRunning, thread, tunnel, disturbed>>

-----------------------------------------------------------------------------
StopStep(a) == StopBridge(a) \/ StopProxy(a) \/ Close(a)

WorkerStep(r) ==
  \/ Open(r) \/ Dup(r) \/ Spawn(r) \/ Spawned(r) \/ Bridge(r) \/ Bridged(r) \/ Wait(r)
  \/ StopStep(r)

Next ==
  \/ \E r \in Requests : Start(r) \/ WorkerStep(r)
  \/ \E r \in Requests, x \in {"singbox", "tun2socks"} : Dies(x, r)
  \/ DialogAnswered \/ Stop \/ Handle \/ BringDown \/ Revoked
  \/ StopStep(Main) \/ StopStep(Binder)

\* Told to end, a process does: stopAll waits for it.
Killed(a, x, pc) ==
  \E r \in Requests : thread[a].pc = pc /\ thread[a].proc = r /\ Dies(x, r)

Fairness ==
  /\ WF_vars(Handle)
  /\ \A a \in Actors :
       /\ WF_vars(StopStep(a))
       /\ WF_vars(Killed(a, "tun2socks", "stopProxy"))
       /\ WF_vars(Killed(a, "singbox", "close"))
  /\ \A r \in Requests : WF_vars(WorkerStep(r))

Spec == Init /\ [][Next]_vars /\ Fairness

-----------------------------------------------------------------------------
(* Properties.                                                             *)

\* A request of the client is answered at most once (a second answer throws),
\* whatever dialogs are answered in whatever order.
AnsweredOnce == \A r \in Requests : answers[r] <= 1

\* When no thread is at work, no process is left alive and none of the
\* descriptors of tunFd and dupTunFd open, wherever a start failed and whoever
\* stopped it; unless a start met another worker, or a stop a worker that was
\* still starting.  The TUN device itself can stay open: stopAll does not close
\* descriptor 0, where it is when tun2socks failed to start or /dev/null could
\* not be opened, and nothing but the next start puts that right.
OnlyStdinIsLeft ==
  AllQuiet /\ ~disturbed =>
    /\ \A x \in Resources : up[x] = {}
    /\ stdin \in unbridged \cup {None}

\* A stop that finds a session ends it: its worker returns from startVpn.
StopsEnd ==
  \A r \in Requests :
    (thread[Main].pc = "stopBridge" /\ thread[r].pc = "wait" /\ ~disturbed)
      ~> (thread[r].pc = "done" \/ disturbed)
=============================================================================
