------------------------------- MODULE Gossip -------------------------------
(***************************************************************************)
(* The distributed registry: nodes that exchange signed updates of         *)
(* gateways, revoked tokens and banned nodes.  A node applies an update by *)
(* last write wins, logs it and passes it on, up to a number of hops.      *)
(*                                                                         *)
(* The code has no transport: a caller takes get_pending_updates and gives *)
(* each update to receive_update of the peers it reaches.  Send is that    *)
(* caller, who may fail to reach any of them; what was taken is then lost. *)
(* Copies arrive in any order, and more than one of an update, because     *)
(* there is more than one way to a node.                                   *)
(***************************************************************************)
EXTENDS Integers, FiniteSets

CONSTANTS
  Nodes,
  Peers,        \* whom a node sends to
  Key,          \* the key pair of a node: the tests share one, a process makes its own
  Entries,      \* a gateway, a token or a node, with the map of state it is kept in
  MaxHops,      \* max_hops, 5 in the code
  TicksPerMs,   \* ticks of time.time() in the millisecond that names an update
  MaxTime,      \* bound on the clock
  MaxUpdates    \* bound on updates created

ASSUME PeersAssumption  == Peers \in [Nodes -> SUBSET Nodes]
ASSUME KeyAssumption    == Key \in [Nodes -> Nodes]
ASSUME BoundsAssumption == /\ MaxHops \in Nat
                           /\ TicksPerMs \in Nat \ {0}
                           /\ MaxTime \in Nat \ {0}
                           /\ MaxUpdates \in Nat

VARIABLES
  now,          \* the clock, one for all nodes
  registry,     \* state["gateways"], ["revoked_tokens"] and ["node_status"]
  log,          \* update_log: the time stamp under an update's id, 0 for none
  blacklist,
  outbox,       \* outgoing_buffer
  net,          \* copies on their way
  made,         \* ghost: every update created
  applied,      \* ghost: the updates a node has created or accepted
  lost          \* ghost: updates that a node was not sent by their source

local == <<registry, log, blacklist, outbox>>
vars  == <<now, local, net, made, applied, lost>>

-----------------------------------------------------------------------------
(* Data.                                                                   *)

Times   == 1..MaxTime
Ids     == Nodes \X (0..MaxTime)
Updates == [id : Ids, source : Nodes, ts : Times, entry : Entries, value : 1..MaxUpdates]
Copies  == [data : Updates, hops : 0..MaxHops]
Entry   == [ts : 0..MaxTime, value : 0..MaxUpdates]
Absent  == [ts |-> 0, value |-> 0]

TypeOK ==
  /\ now \in Times
  /\ registry \in [Nodes -> [Entries -> Entry]]
  /\ log \in [Nodes -> [Ids -> 0..MaxTime]]
  /\ blacklist \in [Nodes -> SUBSET Nodes]
  /\ outbox \in [Nodes -> SUBSET Copies]
  /\ net \subseteq [to : Nodes, copy : Copies]
  /\ made \subseteq Updates
  /\ applied \in [Nodes -> SUBSET Updates]
  /\ lost \subseteq [to : Nodes, data : Updates]

\* Slip: the id does not say who made the update.
UpdateId_NoNode(n, t) == <<CHOOSE m \in Nodes : TRUE, t \div TicksPerMs>>

\* update_id
UpdateId(n, t) == <<n, t \div TicksPerMs>>

\* Slip: the last to come wins.
Merge_LastToCome(reg, u) == [reg EXCEPT ![u.entry] = [ts |-> u.ts, value |-> u.value]]

\* Last write wins: only a strictly newer time stamp replaces what is there.
Merge(reg, u) ==
  IF u.ts > reg[u.entry].ts
  THEN [reg EXCEPT ![u.entry] = [ts |-> u.ts, value |-> u.value]]
  ELSE reg

\* The node applies u and logs it: create_signed_update and receive_update.
Apply(n, u) ==
  /\ registry' = [registry EXCEPT ![n] = Merge(@, u)]
  /\ log' = [log EXCEPT ![n][u.id] = u.ts]
  /\ applied' = [applied EXCEPT ![n] = @ \cup {u}]

\* verify_signature is called with the receiver's own key.
Verifies(n, u) == Key[n] = Key[u.source]

\* Slip: an update is not stale beside itself.
Stale_OnlyOlder(n, u) == u.ts < log[n][u.id]

\* The update, or one that shares its id and is not older, is in the log.
Stale(n, u) == u.ts <= log[n][u.id]

\* What waits to be sent by the node that made it.
Made(n) == {c.data : c \in {c \in outbox[n] : c.hops = 0}}

-----------------------------------------------------------------------------
(* Steps.                                                                  *)

Init ==
  /\ now = 1
  /\ registry = [n \in Nodes |-> [e \in Entries |-> Absent]]
  /\ log = [n \in Nodes |-> [i \in Ids |-> 0]]
  /\ blacklist = [n \in Nodes |-> {}]
  /\ outbox = [n \in Nodes |-> {}]
  /\ net = {}
  /\ made = {}
  /\ applied = [n \in Nodes |-> {}]
  /\ lost = {}

Tick ==
  /\ now < MaxTime
  /\ now' = now + 1
  /\ UNCHANGED <<local, net, made, applied, lost>>

Create(n, e) ==
  \E v \in 1..MaxUpdates :
    /\ {u.value : u \in made} = 1..(v - 1)
    /\ LET u == [id |-> UpdateId(n, now), source |-> n, ts |-> now,
                 entry |-> e, value |-> v]
       IN /\ Apply(n, u)
          /\ outbox' = [outbox EXCEPT ![n] = @ \cup {[data |-> u, hops |-> 0]}]
          /\ made' = made \cup {u}
    /\ UNCHANGED <<now, blacklist, net, lost>>

\* apply_update of an update the node has made itself.
ApplyAgain(n) ==
  \E u \in made :
    /\ u.source = n
    /\ registry' = [registry EXCEPT ![n] = Merge(@, u)]
    /\ UNCHANGED <<now, log, blacklist, outbox, net, made, applied, lost>>

Send(n) ==
  /\ outbox[n] # {}
  /\ \E reached \in SUBSET Peers[n] :
       /\ net' = net \cup [to : reached, copy : outbox[n]]
       /\ lost' = lost \cup [to : Peers[n] \ reached, data : Made(n)]
  /\ outbox' = [outbox EXCEPT ![n] = {}]
  /\ UNCHANGED <<now, registry, log, blacklist, made, applied>>

\* A source that is blacklisted, an update that is stale or has come too far.
Ignore(n, c) ==
  /\ \/ c.data.source \in blacklist[n]
     \/ Verifies(n, c.data) /\ (Stale(n, c.data) \/ c.hops >= MaxHops)
  /\ UNCHANGED <<local, applied>>

Distrust(n, c) ==
  /\ c.data.source \notin blacklist[n]
  /\ ~Verifies(n, c.data)
  /\ blacklist' = [blacklist EXCEPT ![n] = @ \cup {c.data.source}]
  /\ UNCHANGED <<registry, log, outbox, applied>>

\* Slip: one hop more.
Accept_OneMore(n, c) ==
  /\ c.data.source \notin blacklist[n]
  /\ Verifies(n, c.data)
  /\ ~Stale(n, c.data)
  /\ c.hops <= MaxHops
  /\ Apply(n, c.data)
  /\ outbox' = [outbox EXCEPT ![n] = @ \cup {[c EXCEPT !.hops = @ + 1]}]
  /\ UNCHANGED blacklist

Accept(n, c) ==
  /\ c.data.source \notin blacklist[n]
  /\ Verifies(n, c.data)
  /\ ~Stale(n, c.data)
  /\ c.hops < MaxHops
  /\ Apply(n, c.data)
  /\ outbox' = [outbox EXCEPT ![n] = @ \cup {[c EXCEPT !.hops = @ + 1]}]
  /\ UNCHANGED blacklist

Receive(n) ==
  \E c \in {m.copy : m \in {m \in net : m.to = n}} :
    /\ net' = net \ {[to |-> n, copy |-> c]}
    /\ Ignore(n, c) \/ Distrust(n, c) \/ Accept(n, c)
    /\ UNCHANGED <<now, made, lost>>

Next ==
  \/ Tick
  \/ \E n \in Nodes :
       \/ \E e \in Entries : Create(n, e)
       \/ ApplyAgain(n)
       \/ Send(n)
       \/ Receive(n)

Spec == Init /\ [][Next]_vars

-----------------------------------------------------------------------------
(* Properties.                                                             *)

On(n, e) == {u \in applied[n] : u.entry = e}

\* An entry holds the newest of the updates its node has applied, whatever
\* the order in which they came: _process_validated_update does not lose one.
RegistryIsNewest ==
  \A n \in Nodes, e \in Entries :
    \/ On(n, e) = {} /\ registry[n][e] = Absent
    \/ \E u \in On(n, e) :
         /\ registry[n][e] = [ts |-> u.ts, value |-> u.value]
         /\ \A v \in On(n, e) : v.ts <= u.ts

\* Nodes that have applied the same updates of an entry agree on it, unless two
\* of these updates carry the same time stamp: last write wins converges.
Converges ==
  \A n, m \in Nodes, e \in Entries :
    (On(n, e) = On(m, e) /\ \A u, v \in On(n, e) : u.ts = v.ts => u = v)
      => registry[n][e] = registry[m][e]

\* A node passes an update on only once, although copies come back to it from
\* every neighbour: the log ends the flood, not the hop limit.
ForwardedOnce ==
  [][\A n \in Nodes : \A c \in outbox'[n] \ outbox[n] : c.data \notin applied[n]]_vars


\* Made by the same node in the same millisecond, and so under the same id.
Twins(u, v) == v # u /\ v.source = u.source /\ v.id = u.id

\* What a node is to hear from a neighbour who made it: nothing but a send that
\* failed keeps it away.  It waits to be sent, is on its way, or was applied, if
\* not a newer update under the same id was: of two updates that a node makes in
\* one millisecond, the one that comes first makes the other stale.
NothingVanishes ==
  \A u \in made : \A n \in Peers[u.source] :
    Verifies(n, u) /\ MaxHops > 0 =>
      LET first == [data |-> u, hops |-> 0]
      IN \/ first \in outbox[u.source]
         \/ [to |-> n, copy |-> first] \in net
         \/ [to |-> n, data |-> u] \in lost
         \/ u \in applied[n]
         \/ \E v \in applied[n] : Twins(u, v) /\ v.ts >= u.ts

=============================================================================
