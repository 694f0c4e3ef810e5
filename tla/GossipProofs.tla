---------------------------- MODULE GossipProofs ----------------------------
(***************************************************************************)
(* What holds of Gossip for every set of nodes, every net of peers, every  *)
(* assignment of keys and every hop limit, whatever is lost on the way.    *)
(***************************************************************************)
EXTENDS Gossip, TLAPS

-----------------------------------------------------------------------------
(* The inductive invariant.                                                *)

\* Whatever is kept or on its way was made by somebody, under an id of its
\* maker's, and not in the future; and its maker has applied it.
AllMade ==
  /\ \A n \in Nodes : applied[n] \subseteq made
  /\ \A n \in Nodes : \A c \in outbox[n] : c.data \in made
  /\ \A m \in net : m.copy.data \in made
  /\ \A u \in made : u.id[1] = u.source /\ u.ts <= now /\ u \in applied[u.source]

\* The log of a node goes at least as far as what it has applied, and no entry
\* of it came from nowhere.
LogIsApplied ==
  /\ \A n \in Nodes : \A u \in applied[n] : u.ts <= log[n][u.id]
  /\ \A n \in Nodes, i \in Ids :
       log[n][i] # 0 => \E u \in applied[n] : u.id = i /\ u.ts = log[n][i]

\* Only a source whose signatures do not verify is blacklisted.
BlacklistIsForeign == \A n \in Nodes : \A s \in blacklist[n] : Key[n] # Key[s]

Inv ==
  /\ TypeOK
  /\ AllMade
  /\ LogIsApplied
  /\ BlacklistIsForeign
  /\ RegistryIsNewest
  /\ NothingVanishes

-----------------------------------------------------------------------------
(* Applying an update.                                                     *)

\* A millisecond is not later than its ticks.
LEMMA MillisecondBound ==
  ASSUME NEW t \in Times
  PROVE  t \div TicksPerMs \in 0..MaxTime
  BY BoundsAssumption, Z3 DEF Times

\* Applying an update keeps the types.
LEMMA ApplyTypes ==
  ASSUME TypeOK, NEW n \in Nodes, NEW u \in Updates, Apply(n, u)
  PROVE  /\ registry' \in [Nodes -> [Entries -> Entry]]
         /\ log' \in [Nodes -> [Ids -> 0..MaxTime]]
         /\ applied' \in [Nodes -> SUBSET Updates]
  <1>1. u.ts \in 0..MaxTime /\ u.value \in 0..MaxUpdates /\ u.entry \in Entries /\ u.id \in Ids
    BY BoundsAssumption DEF Updates, Times
  <1>2. Merge(registry[n], u) \in [Entries -> Entry]
    <2>1. [ts |-> u.ts, value |-> u.value] \in Entry
      BY <1>1 DEF Entry
    <2>2. registry[n] \in [Entries -> Entry]
      BY DEF TypeOK
    <2> QED BY <1>1, <2>1, <2>2 DEF Merge
  <1>3. [log[n] EXCEPT ![u.id] = u.ts] \in [Ids -> 0..MaxTime]
    BY <1>1 DEF TypeOK
  <1> QED BY <1>2, <1>3 DEF Apply, TypeOK

\* Applying an update that is not older than the log keeps log and knowledge together.
LEMMA ApplyLog ==
  ASSUME TypeOK, LogIsApplied, NEW n \in Nodes, NEW u \in Updates, Apply(n, u),
         log[n][u.id] <= u.ts
  PROVE  LogIsApplied'
  <1>0. log \in [Nodes -> [Ids -> 0..MaxTime]] /\ applied \in [Nodes -> SUBSET Updates]
    BY DEF TypeOK
  <1>1. u.id \in Ids /\ u.ts \in Nat /\ u.ts # 0
    BY DEF Updates, Times
  <1>2. \A m \in Nodes, i \in Ids :
          log'[m][i] = IF m = n /\ i = u.id THEN u.ts ELSE log[m][i]
    BY <1>0, <1>1 DEF Apply
  <1>3. \A m \in Nodes : applied'[m] = IF m = n THEN applied[m] \cup {u} ELSE applied[m]
    BY <1>0 DEF Apply
  <1>4. ASSUME NEW m \in Nodes, NEW w \in applied'[m]
        PROVE  w.ts <= log'[m][w.id]
    <2>1. w \in Updates /\ w.id \in Ids /\ w.ts \in Nat
      <3>1. w = u \/ w \in applied[m]
        BY <1>3, <1>4
      <3>2. w \in Updates
        BY <1>0, <3>1
      <3> QED BY <3>2 DEF Updates, Times
    <2>2. CASE m = n /\ w.id = u.id
      <3>1. CASE w = u BY <1>1, <1>2, <2>2, <3>1
      <3>2. CASE w # u
        <4>0. w \in applied[n]
          BY <1>3, <1>4, <2>2, <3>2
        <4>1. w.ts <= log[n][u.id]
          BY <2>2, <4>0 DEF LogIsApplied
        <4>2. log[n][u.id] \in Nat
          BY <1>0, <1>1
        <4> QED BY <1>1, <1>2, <2>1, <2>2, <4>1, <4>2
      <3> QED BY <3>1, <3>2
    <2>3. CASE ~(m = n /\ w.id = u.id)
      <3>1. CASE w \in applied[m]
        <4>1. w.ts <= log[m][w.id]
          BY <3>1 DEF LogIsApplied
        <4> QED BY <1>2, <2>1, <2>3, <4>1
      <3>2. CASE w \notin applied[m]
        BY <1>3, <1>4, <2>3, <3>2
      <3> QED BY <3>1, <3>2
    <2> QED BY <2>2, <2>3
  <1>5. ASSUME NEW m \in Nodes, NEW i \in Ids, log'[m][i] # 0
        PROVE  \E w \in applied'[m] : w.id = i /\ w.ts = log'[m][i]
    <2>1. CASE m = n /\ i = u.id
      BY <1>2, <1>3, <2>1
    <2>2. CASE ~(m = n /\ i = u.id)
      <3>1. log[m][i] # 0 /\ log'[m][i] = log[m][i]
        BY <1>2, <1>5, <2>2
      <3>2. PICK w \in applied[m] : w.id = i /\ w.ts = log[m][i]
        BY <3>1 DEF LogIsApplied
      <3>3. w \in applied'[m]
        BY <1>3, <3>2
      <3> QED BY <3>1, <3>2, <3>3
    <2> QED BY <2>1, <2>2
  <1> QED BY <1>4, <1>5 DEF LogIsApplied

\* Applying an update leaves the newest in its entry.
LEMMA ApplyNewest ==
  ASSUME TypeOK, RegistryIsNewest, NEW n \in Nodes, NEW u \in Updates, Apply(n, u)
  PROVE  RegistryIsNewest'
  <1>0. registry \in [Nodes -> [Entries -> Entry]] /\ applied \in [Nodes -> SUBSET Updates]
    BY DEF TypeOK
  <1>1. u.entry \in Entries /\ u.ts \in Nat /\ u.ts > 0
    BY DEF Updates, Times
  <1>2. ASSUME NEW m \in Nodes, NEW e \in Entries, m # n \/ e # u.entry
        PROVE  On(m, e)' = On(m, e) /\ registry'[m][e] = registry[m][e]
    <2>1. applied'[m] = IF m = n THEN applied[m] \cup {u} ELSE applied[m]
      BY <1>0 DEF Apply
    <2>2. On(m, e)' = On(m, e)
      BY <1>2, <2>1 DEF On
    <2>3. registry'[m][e] = registry[m][e]
      BY <1>0, <1>1, <1>2 DEF Apply, Merge
    <2> QED BY <2>2, <2>3
  <1> DEFINE e == u.entry
             old == registry[n][e]
  <1>3. On(n, e)' = On(n, e) \cup {u}
    BY <1>0 DEF Apply, On
  <1>4. registry'[n][e] = IF u.ts > old.ts THEN [ts |-> u.ts, value |-> u.value] ELSE old
    BY <1>0, <1>1 DEF Apply, Merge
  <1>5. old.ts \in Nat
    BY <1>0, <1>1 DEF Entry
  <1>6. \A v \in On(n, e) : v.ts <= old.ts /\ v.ts \in Nat
    <2>1. \A v \in On(n, e) : v.ts \in Nat
      BY <1>0 DEF On, Updates, Times
    <2>2. CASE On(n, e) = {}
      BY <2>2
    <2>3. CASE On(n, e) # {}
      <3>1. PICK w \in On(n, e) : /\ old = [ts |-> w.ts, value |-> w.value]
                                  /\ \A v \in On(n, e) : v.ts <= w.ts
        BY <1>1, <2>3 DEF RegistryIsNewest
      <3>2. old.ts = w.ts
        BY <3>1
      <3> QED BY <2>1, <3>1, <3>2
    <2> QED BY <2>2, <2>3
  <1>7. \E w \in On(n, e)' : /\ registry'[n][e] = [ts |-> w.ts, value |-> w.value]
                             /\ \A v \in On(n, e)' : v.ts <= w.ts
    <2>1. CASE u.ts > old.ts
      BY <1>1, <1>3, <1>4, <1>5, <1>6, <2>1
    <2>2. CASE ~(u.ts > old.ts)
      <3>1. old # Absent
        BY <1>1, <2>2 DEF Absent
      <3>2. PICK w \in On(n, e) : /\ old = [ts |-> w.ts, value |-> w.value]
                                  /\ \A v \in On(n, e) : v.ts <= w.ts
        BY <1>1, <3>1 DEF RegistryIsNewest
      <3>3. u.ts <= w.ts /\ w.ts \in Nat
        BY <1>1, <1>5, <1>6, <2>2, <3>2
      <3> QED BY <1>3, <1>4, <2>2, <3>2, <3>3
    <2> QED BY <2>1, <2>2
  <1> HIDE DEF e, old
  <1>8. ASSUME NEW m \in Nodes, NEW f \in Entries, m # n \/ f # e
        PROVE  \/ On(m, f)' = {} /\ registry'[m][f] = Absent
               \/ \E w \in On(m, f)' : /\ registry'[m][f] = [ts |-> w.ts, value |-> w.value]
                                       /\ \A v \in On(m, f)' : v.ts <= w.ts
    BY <1>2, <1>8 DEF RegistryIsNewest, e
  <1> QED BY <1>7, <1>8 DEF RegistryIsNewest, e

-----------------------------------------------------------------------------
(* What the steps do.                                                      *)

\* Nobody's log is ahead of the clock.
LEMMA LogIsPast ==
  ASSUME TypeOK, AllMade, LogIsApplied, NEW n \in Nodes, NEW i \in Ids
  PROVE  log[n][i] <= now
  <1>1. log[n][i] \in Nat /\ now \in Nat
    BY DEF TypeOK, Times
  <1>2. CASE log[n][i] = 0
    BY <1>1, <1>2
  <1>3. CASE log[n][i] # 0
    <2>1. PICK u \in applied[n] : u.ts = log[n][i]
      BY <1>3 DEF LogIsApplied
    <2>2. u \in made
      BY <2>1 DEF AllMade
    <2> QED BY <2>1, <2>2 DEF AllMade
  <1> QED BY <1>2, <1>3

\* Create makes a new update, applies it and puts its first copy into the buffer.
LEMMA CreateMakes ==
  ASSUME TypeOK, NEW n \in Nodes, NEW e \in Entries, Create(n, e)
  PROVE  \E u \in Updates :
           /\ u \notin made /\ u.source = n /\ u.ts = now /\ u.id[1] = n
           /\ Apply(n, u)
           /\ outbox' = [outbox EXCEPT ![n] = @ \cup {[data |-> u, hops |-> 0]}]
           /\ made' = made \cup {u}
           /\ UNCHANGED <<now, blacklist, net, lost>>
  <1>1. PICK v \in 1..MaxUpdates :
          /\ {u.value : u \in made} = 1..(v - 1)
          /\ LET u == [id |-> UpdateId(n, now), source |-> n, ts |-> now,
                       entry |-> e, value |-> v]
             IN /\ Apply(n, u)
                /\ outbox' = [outbox EXCEPT ![n] = @ \cup {[data |-> u, hops |-> 0]}]
                /\ made' = made \cup {u}
          /\ UNCHANGED <<now, blacklist, net, lost>>
    BY DEF Create
  <1> DEFINE u == [id |-> UpdateId(n, now), source |-> n, ts |-> now, entry |-> e, value |-> v]
  <1>2. now \in Times
    BY DEF TypeOK
  <1>3. UpdateId(n, now) \in Ids /\ UpdateId(n, now)[1] = n
    BY <1>2, MillisecondBound DEF UpdateId, Ids
  <1>4. u \in Updates
    BY <1>2, <1>3 DEF Updates
  <1>5. u \notin made
    <2>1. v \notin 1..(v - 1)
      BY BoundsAssumption
    <2>2. v \notin {w.value : w \in made}
      BY <1>1, <2>1
    <2> QED BY <2>2
  <1> QED BY <1>1, <1>3, <1>4, <1>5

\* Receive takes one copy off the net and ignores, distrusts or accepts it.
LEMMA ReceiveTakes ==
  ASSUME TypeOK, AllMade, NEW n \in Nodes, Receive(n)
  PROVE  \E c \in Copies :
           /\ [to |-> n, copy |-> c] \in net
           /\ c.data \in made /\ c.data \in Updates /\ c.hops \in Nat
           /\ net' = net \ {[to |-> n, copy |-> c]}
           /\ Ignore(n, c) \/ Distrust(n, c) \/ Accept(n, c)
           /\ UNCHANGED <<now, made, lost>>
  <1>1. PICK k \in net :
          /\ k.to = n
          /\ net' = net \ {[to |-> n, copy |-> k.copy]}
          /\ Ignore(n, k.copy) \/ Distrust(n, k.copy) \/ Accept(n, k.copy)
          /\ UNCHANGED <<now, made, lost>>
    BY DEF Receive
  <1>2. k \in [to : Nodes, copy : Copies]
    BY DEF TypeOK
  <1>3. k = [to |-> n, copy |-> k.copy] /\ k.copy \in Copies
    BY <1>1, <1>2
  <1>4. k.copy.data \in Updates /\ k.copy.hops \in Nat
    BY <1>3, BoundsAssumption DEF Copies
  <1>5. k.copy.data \in made
    BY DEF AllMade
  <1> QED BY <1>1, <1>3, <1>4, <1>5

\* A step is of one of these kinds.
LEMMA Steps ==
  ASSUME [Next]_vars
  PROVE  \/ Tick
         \/ \E n \in Nodes, e \in Entries : Create(n, e)
         \/ \E n \in Nodes : ApplyAgain(n) \/ Send(n) \/ Receive(n)
         \/ UNCHANGED vars
  BY DEF Next

-----------------------------------------------------------------------------
(* The invariant is kept.                                                  *)

\* Initially nothing has been made.
LEMMA InvInit == Init => Inv
  <1> SUFFICES ASSUME Init PROVE Inv
    OBVIOUS
  <1>1. TypeOK
    <2>1. 1 \in Times /\ 0 \in 0..MaxTime /\ 0 \in 0..MaxUpdates
      BY BoundsAssumption DEF Times
    <2>2. Absent \in Entry
      BY <2>1 DEF Absent, Entry
    <2> QED BY <2>1, <2>2 DEF TypeOK, Init
  <1>2. AllMade /\ LogIsApplied /\ BlacklistIsForeign /\ NothingVanishes
    BY DEF Init, AllMade, LogIsApplied, BlacklistIsForeign, NothingVanishes
  <1>3. RegistryIsNewest
    BY DEF Init, RegistryIsNewest, On
  <1> QED BY <1>1, <1>2, <1>3 DEF Inv

\* Steps keep the types.
LEMMA StepTypes ==
  ASSUME Inv, [Next]_vars
  PROVE  TypeOK'
  <1> USE DEF Inv
  <1>1. ASSUME Tick PROVE TypeOK'
    BY <1>1, BoundsAssumption DEF TypeOK, Tick, local, Times
  <1>2. ASSUME NEW n \in Nodes, NEW e \in Entries, Create(n, e) PROVE TypeOK'
    <2>1. PICK u \in Updates :
            /\ Apply(n, u)
            /\ outbox' = [outbox EXCEPT ![n] = @ \cup {[data |-> u, hops |-> 0]}]
            /\ made' = made \cup {u}
            /\ UNCHANGED <<now, blacklist, net, lost>>
      BY <1>2, CreateMakes
    <2>2. [data |-> u, hops |-> 0] \in Copies
      BY BoundsAssumption DEF Copies
    <2>3. outbox' \in [Nodes -> SUBSET Copies]
      BY <2>1, <2>2 DEF TypeOK
    <2> QED BY <2>1, <2>3, ApplyTypes DEF TypeOK
  <1>3. ASSUME NEW n \in Nodes, ApplyAgain(n) PROVE TypeOK'
    <2>1. PICK u \in made : registry' = [registry EXCEPT ![n] = Merge(@, u)]
      BY <1>3 DEF ApplyAgain
    <2>2. u \in Updates
      BY DEF TypeOK
    <2>3. Merge(registry[n], u) \in [Entries -> Entry]
      <3>1. [ts |-> u.ts, value |-> u.value] \in Entry /\ u.entry \in Entries
        BY <2>2, BoundsAssumption DEF Entry, Updates, Times
      <3> QED BY <3>1 DEF Merge, TypeOK
    <2> QED BY <1>3, <2>1, <2>3 DEF TypeOK, ApplyAgain
  <1>4. ASSUME NEW n \in Nodes, Send(n) PROVE TypeOK'
    <2>1. PICK reached \in SUBSET Peers[n] :
            /\ net' = net \cup [to : reached, copy : outbox[n]]
            /\ lost' = lost \cup [to : Peers[n] \ reached, data : Made(n)]
      BY <1>4 DEF Send
    <2>2. Peers[n] \subseteq Nodes /\ outbox[n] \subseteq Copies
      BY PeersAssumption DEF TypeOK
    <2>3. Made(n) \subseteq Updates
      BY <2>2 DEF Made, Copies
    <2>4. net' \subseteq [to : Nodes, copy : Copies]
      BY <2>1, <2>2 DEF TypeOK
    <2>5. lost' \subseteq [to : Nodes, data : Updates]
      BY <2>1, <2>2, <2>3 DEF TypeOK
    <2> QED BY <1>4, <2>4, <2>5 DEF TypeOK, Send
  <1>5. ASSUME NEW n \in Nodes, Receive(n) PROVE TypeOK'
    <2>1. PICK c \in Copies :
            /\ c.data \in Updates /\ c.hops \in Nat
            /\ net' = net \ {[to |-> n, copy |-> c]}
            /\ Ignore(n, c) \/ Distrust(n, c) \/ Accept(n, c)
            /\ UNCHANGED <<now, made, lost>>
      BY <1>5, ReceiveTakes
    <2>2. CASE Ignore(n, c)
      BY <2>1, <2>2 DEF TypeOK, Ignore, local
    <2>3. CASE Distrust(n, c)
      <3>1. c.data.source \in Nodes
        BY <2>1 DEF Updates
      <3>2. blacklist' \in [Nodes -> SUBSET Nodes]
        BY <2>3, <3>1 DEF TypeOK, Distrust
      <3> QED BY <2>1, <2>3, <3>2 DEF TypeOK, Distrust
    <2>4. CASE Accept(n, c)
      <3>1. [c EXCEPT !.hops = @ + 1] \in Copies
        BY <2>1, <2>4, BoundsAssumption DEF Accept, Copies
      <3>2. outbox' \in [Nodes -> SUBSET Copies]
        BY <2>4, <3>1 DEF TypeOK, Accept
      <3>3. Apply(n, c.data) /\ UNCHANGED blacklist
        BY <2>4 DEF Accept
      <3> QED BY <2>1, <3>2, <3>3, ApplyTypes DEF TypeOK
    <2> QED BY <2>1, <2>2, <2>3, <2>4
  <1>6. ASSUME UNCHANGED vars PROVE TypeOK'
    BY <1>6 DEF TypeOK, vars, local
  <1> QED BY <1>1, <1>2, <1>3, <1>4, <1>5, <1>6, Steps

\* What is kept or travels was made, and time stamps are not in the future.
LEMMA StepMade ==
  ASSUME Inv, [Next]_vars
  PROVE  AllMade'
  <1> USE DEF Inv
  <1>0. /\ outbox \in [Nodes -> SUBSET Copies] /\ applied \in [Nodes -> SUBSET Updates]
        /\ made \subseteq Updates /\ now \in Nat
    BY DEF TypeOK, Times
  <1>1. ASSUME Tick PROVE AllMade'
    <2>1. \A u \in made : u.ts \in Nat
      BY <1>0 DEF Updates, Times
    <2>2. \A u \in made : u.ts <= now'
      BY <1>0, <1>1, <2>1 DEF AllMade, Tick
    <2> QED BY <1>1, <2>2 DEF AllMade, Tick, local
  <1>2. ASSUME NEW n \in Nodes, NEW e \in Entries, Create(n, e) PROVE AllMade'
    <2>1. PICK u \in Updates :
            /\ u.source = n /\ u.ts = now /\ u.id[1] = n
            /\ Apply(n, u)
            /\ outbox' = [outbox EXCEPT ![n] = @ \cup {[data |-> u, hops |-> 0]}]
            /\ made' = made \cup {u}
            /\ UNCHANGED <<now, blacklist, net, lost>>
      BY <1>2, CreateMakes
    <2>2. \A m \in Nodes : applied'[m] \subseteq made'
      BY <1>0, <2>1 DEF AllMade, Apply
    <2>3. \A m \in Nodes : \A c \in outbox'[m] : c.data \in made'
      BY <1>0, <2>1 DEF AllMade
    <2>4. \A w \in made' : w.id[1] = w.source /\ w.ts <= now'
      BY <1>0, <2>1 DEF AllMade
    <2>5. \A w \in made' : w \in applied'[w.source]
      <3>1. \A m \in Nodes : applied[m] \subseteq applied'[m]
        BY <1>0, <2>1 DEF Apply
      <3>2. u \in applied'[n]
        BY <1>0, <2>1 DEF Apply
      <3>3. \A w \in made : w.source \in Nodes
        BY <1>0 DEF Updates
      <3> QED BY <2>1, <3>1, <3>2, <3>3 DEF AllMade
    <2> QED BY <2>1, <2>2, <2>3, <2>4, <2>5 DEF AllMade
  <1>3. ASSUME NEW n \in Nodes, ApplyAgain(n) PROVE AllMade'
    BY <1>3 DEF AllMade, ApplyAgain
  <1>4. ASSUME NEW n \in Nodes, Send(n) PROVE AllMade'
    <2>1. PICK reached \in SUBSET Peers[n] : net' = net \cup [to : reached, copy : outbox[n]]
      BY <1>4 DEF Send
    <2>2. \A k \in net' : k.copy.data \in made
      BY <2>1 DEF AllMade
    <2>3. \A m \in Nodes : \A c \in outbox'[m] : c.data \in made
      BY <1>0, <1>4 DEF AllMade, Send
    <2> QED BY <1>4, <2>2, <2>3 DEF AllMade, Send
  <1>5. ASSUME NEW n \in Nodes, Receive(n) PROVE AllMade'
    <2>1. PICK c \in Copies :
            /\ c.data \in made /\ c.hops \in Nat
            /\ net' = net \ {[to |-> n, copy |-> c]}
            /\ Ignore(n, c) \/ Distrust(n, c) \/ Accept(n, c)
            /\ UNCHANGED <<now, made, lost>>
      BY <1>5, ReceiveTakes
    <2>2. CASE Ignore(n, c) \/ Distrust(n, c)
      BY <2>1, <2>2 DEF AllMade, Ignore, Distrust, local
    <2>3. CASE Accept(n, c)
      <3>1. [c EXCEPT !.hops = @ + 1].data = c.data
        BY DEF Copies
      <3>2. \A m \in Nodes : \A d \in outbox'[m] : d.data \in made
        BY <1>0, <2>1, <2>3, <3>1 DEF AllMade, Accept
      <3>3. \A m \in Nodes : applied'[m] \subseteq made
        BY <1>0, <2>1, <2>3 DEF AllMade, Accept, Apply
      <3>4. \A u \in made : u.source \in Nodes /\ u \in applied'[u.source]
        BY <1>0, <2>3 DEF AllMade, Accept, Apply, Updates
      <3> QED BY <2>1, <3>2, <3>3, <3>4 DEF AllMade
    <2> QED BY <2>1, <2>2, <2>3
  <1>6. ASSUME UNCHANGED vars PROVE AllMade'
    BY <1>6 DEF AllMade, vars, local
  <1> QED BY <1>1, <1>2, <1>3, <1>4, <1>5, <1>6, Steps

\* The log and what was applied stay together, and so do the entries and the
\* newest of it: both change by Apply only, and in Create under the clock.
LEMMA StepApplied ==
  ASSUME Inv, [Next]_vars
  PROVE  LogIsApplied' /\ RegistryIsNewest'
  <1> USE DEF Inv
  <1>1. ASSUME UNCHANGED <<registry, log, applied>> PROVE LogIsApplied' /\ RegistryIsNewest'
    BY <1>1 DEF LogIsApplied, RegistryIsNewest, On
  <1>2. ASSUME NEW n \in Nodes, NEW e \in Entries, Create(n, e)
        PROVE  LogIsApplied' /\ RegistryIsNewest'
    <2>1. PICK u \in Updates : u.ts = now /\ Apply(n, u)
      BY <1>2, CreateMakes
    <2>2. log[n][u.id] <= u.ts
      BY <2>1, LogIsPast DEF Updates
    <2> QED BY <2>1, <2>2, ApplyLog, ApplyNewest
  <1>3. ASSUME NEW n \in Nodes, ApplyAgain(n) PROVE LogIsApplied' /\ RegistryIsNewest'
    <2>1. PICK u \in made : /\ u.source = n
                            /\ registry' = [registry EXCEPT ![n] = Merge(@, u)]
                            /\ UNCHANGED <<log, applied>>
      BY <1>3 DEF ApplyAgain
    <2>2. u \in applied[n] /\ u \in Updates
      BY <2>1 DEF AllMade, TypeOK
    <2>3. ~(u.ts > registry[n][u.entry].ts)
      <3>1. u \in On(n, u.entry) /\ u.entry \in Entries
        BY <2>2 DEF On, Updates
      <3>2. PICK w \in On(n, u.entry) :
              /\ registry[n][u.entry] = [ts |-> w.ts, value |-> w.value]
              /\ u.ts <= w.ts
        BY <3>1 DEF RegistryIsNewest
      <3>3. w.ts \in Nat /\ u.ts \in Nat
        BY <2>2, <3>2 DEF On, TypeOK, Updates, Times
      <3> QED BY <3>2, <3>3
    <2>4. registry' = registry
      BY <2>1, <2>3 DEF Merge, TypeOK
    <2> QED BY <1>1, <2>1, <2>4
  <1>4. ASSUME NEW n \in Nodes, Receive(n) PROVE LogIsApplied' /\ RegistryIsNewest'
    <2>1. PICK c \in Copies :
            /\ c.data \in Updates
            /\ Ignore(n, c) \/ Distrust(n, c) \/ Accept(n, c)
      BY <1>4, ReceiveTakes
    <2>2. CASE Ignore(n, c) \/ Distrust(n, c)
      BY <1>1, <2>2 DEF Ignore, Distrust, local
    <2>3. CASE Accept(n, c)
      <3>1. log[n][c.data.id] <= c.data.ts
        <4>1. log[n][c.data.id] \in Nat /\ c.data.ts \in Nat
          BY <2>1 DEF TypeOK, Updates, Times
        <4> QED BY <2>3, <4>1 DEF Accept, Stale
      <3> QED BY <2>1, <2>3, <3>1, ApplyLog, ApplyNewest DEF Accept
    <2> QED BY <2>1, <2>2, <2>3
  <1> QED BY <1>1, <1>2, <1>3, <1>4, Steps DEF Tick, Send, vars, local

\* Only sources whose signature does not verify are put on the blacklist.
LEMMA StepBlacklist ==
  ASSUME Inv, [Next]_vars
  PROVE  BlacklistIsForeign'
  <1> USE DEF Inv
  <1>1. ASSUME UNCHANGED blacklist PROVE BlacklistIsForeign'
    BY <1>1 DEF BlacklistIsForeign
  <1>2. ASSUME NEW n \in Nodes, Receive(n) PROVE BlacklistIsForeign'
    <2>1. PICK c \in Copies : Ignore(n, c) \/ Distrust(n, c) \/ Accept(n, c)
      BY <1>2, ReceiveTakes
    <2>2. CASE Distrust(n, c)
      BY <2>2 DEF BlacklistIsForeign, Distrust, Verifies, TypeOK
    <2> QED BY <1>1, <2>1, <2>2 DEF Ignore, Accept, local
  <1> QED BY <1>1, <1>2, Steps DEF Tick, Create, ApplyAgain, Send, vars, local

\* Nothing but a send that failed keeps an update from a neighbour.
LEMMA StepReaches ==
  ASSUME Inv, [Next]_vars
  PROVE  NothingVanishes'
  <1> USE DEF Inv
  <1> DEFINE First(u) == [data |-> u, hops |-> 0]
             Heard(u, n) == \/ First(u) \in outbox[u.source]
                            \/ [to |-> n, copy |-> First(u)] \in net
                            \/ [to |-> n, data |-> u] \in lost
                            \/ u \in applied[n]
                            \/ \E v \in applied[n] : Twins(u, v) /\ v.ts >= u.ts
  <1>0. /\ outbox \in [Nodes -> SUBSET Copies] /\ applied \in [Nodes -> SUBSET Updates]
        /\ made \subseteq Updates
    BY DEF TypeOK
  <1>1. \A u \in made : \A n \in Peers[u.source] : Verifies(n, u) /\ MaxHops > 0 => Heard(u, n)
    BY DEF NothingVanishes
  <1>2. \A u \in made : u.source \in Nodes /\ Peers[u.source] \subseteq Nodes
    BY <1>0, PeersAssumption DEF Updates
  <1>3. ASSUME made' = made,
               ASSUME NEW u \in made, NEW n \in Peers[u.source],
                      Verifies(n, u), MaxHops > 0, Heard(u, n)
               PROVE  Heard(u, n)'
        PROVE  NothingVanishes'
    BY <1>1, <1>3 DEF NothingVanishes, Verifies
  <1>4. ASSUME UNCHANGED <<outbox, net, lost, applied, made>> PROVE NothingVanishes'
    BY <1>4 DEF NothingVanishes, Verifies
  <1>5. ASSUME NEW k \in Nodes, NEW e \in Entries, Create(k, e) PROVE NothingVanishes'
    <2>1. PICK w \in Updates :
            /\ w.source = k
            /\ Apply(k, w)
            /\ outbox' = [outbox EXCEPT ![k] = @ \cup {First(w)}]
            /\ made' = made \cup {w}
            /\ UNCHANGED <<net, lost>>
      BY <1>5, CreateMakes
    <2>2. First(w) \in outbox'[w.source]
      BY <1>0, <2>1
    <2>3. \A m \in Nodes : outbox[m] \subseteq outbox'[m] /\ applied[m] \subseteq applied'[m]
      BY <1>0, <2>1 DEF Apply
    <2>4. ASSUME NEW u \in made, NEW n \in Peers[u.source], Verifies(n, u), MaxHops > 0
          PROVE  Heard(u, n)'
      <3>1. Heard(u, n) /\ n \in Nodes /\ u.source \in Nodes
        BY <1>1, <1>2, <2>4
      <3> QED BY <2>1, <2>3, <3>1
    <2> QED BY <2>1, <2>2, <2>4 DEF NothingVanishes, Verifies
  <1>6. ASSUME NEW k \in Nodes, Send(k) PROVE NothingVanishes'
    <2>1. PICK reached \in SUBSET Peers[k] :
            /\ net' = net \cup [to : reached, copy : outbox[k]]
            /\ lost' = lost \cup [to : Peers[k] \ reached, data : Made(k)]
      BY <1>6 DEF Send
    <2>2. ASSUME NEW u \in made, NEW n \in Peers[u.source], Heard(u, n)
          PROVE  Heard(u, n)'
      <3>1. CASE First(u) \in outbox[u.source] /\ u.source = k
        <4>1. First(u).data = u /\ First(u).hops = 0
          OBVIOUS
        <4>2. u \in Made(k)
          BY <3>1, <4>1 DEF Made
        <4>3. CASE n \in reached
          BY <2>1, <3>1, <4>3
        <4>4. CASE n \notin reached
          BY <2>1, <3>1, <4>2, <4>4
        <4> QED BY <4>3, <4>4
      <3>2. CASE First(u) \in outbox[u.source] /\ u.source # k
        BY <1>0, <1>2, <1>6, <3>2 DEF Send
      <3>3. CASE First(u) \notin outbox[u.source]
        BY <1>6, <2>1, <2>2, <3>3 DEF Send
      <3> QED BY <3>1, <3>2, <3>3
    <2> QED BY <1>3, <1>6, <2>2 DEF Send
  <1>7. ASSUME NEW k \in Nodes, Receive(k) PROVE NothingVanishes'
    <2>1. PICK c \in Copies :
            /\ c.data \in made /\ c.data \in Updates /\ c.hops \in Nat
            /\ net' = net \ {[to |-> k, copy |-> c]}
            /\ Ignore(k, c) \/ Distrust(k, c) \/ Accept(k, c)
            /\ UNCHANGED <<now, made, lost>>
      BY <1>7, ReceiveTakes
    <2>2. \A m \in Nodes : outbox[m] \subseteq outbox'[m] /\ applied[m] \subseteq applied'[m]
      BY <1>0, <2>1 DEF Ignore, Distrust, Accept, Apply, local
    <2>3. ASSUME NEW u \in made, NEW n \in Peers[u.source],
                 Verifies(n, u), MaxHops > 0, Heard(u, n)
          PROVE  Heard(u, n)'
      <3>1. n \in Nodes /\ u.source \in Nodes /\ u \in Updates
        BY <1>0, <1>2
      <3>2. CASE ~(n = k /\ c = First(u))
        <4>1. [to |-> n, copy |-> First(u)] # [to |-> k, copy |-> c]
          BY <3>2
        <4> QED BY <2>1, <2>2, <2>3, <3>1, <4>1
      <3>3. CASE n = k /\ c = First(u)
        <4>1. c.data = u /\ c.hops = 0
          BY <3>3
        <4>2. u.source \notin blacklist[n]
          BY <2>3, <3>1 DEF BlacklistIsForeign, Verifies
        <4>3. CASE Accept(n, c)
          BY <1>0, <3>1, <4>1, <4>3 DEF Accept, Apply
        <4>4. CASE Ignore(n, c)
          <5>1. u.ts <= log[n][u.id]
            BY <2>3, <3>3, <4>1, <4>2, <4>4, BoundsAssumption DEF Ignore, Stale
          <5>2. log[n][u.id] \in Nat /\ log[n][u.id] # 0
            BY <3>1, <5>1 DEF TypeOK, Updates, Times
          <5>3. u.id \in Ids
            BY <3>1 DEF Updates
          <5>4. PICK v \in applied[n] : v.id = u.id /\ v.ts = log[n][u.id]
            BY <3>1, <5>2, <5>3 DEF LogIsApplied
          <5>5. v \in made
            BY <3>1, <5>4 DEF AllMade
          <5>6. v.source = u.source
            BY <5>4, <5>5 DEF AllMade
          <5>7. v.ts \in Nat /\ u.ts \in Nat
            BY <1>0, <3>1, <5>5 DEF Updates, Times
          <5>8. v = u \/ (Twins(u, v) /\ v.ts >= u.ts)
            BY <5>1, <5>2, <5>4, <5>6, <5>7 DEF Twins
          <5>9. v \in applied'[n]
            BY <2>2, <3>1, <5>4
          <5> QED BY <5>8, <5>9
        <4>5. CASE Distrust(n, c)
          BY <2>3, <4>1, <4>5 DEF Distrust
        <4> QED BY <2>1, <3>3, <4>3, <4>4, <4>5
      <3> QED BY <3>2, <3>3
    <2> QED BY <1>3, <2>1, <2>3
  <1> QED BY <1>4, <1>5, <1>6, <1>7, Steps DEF Tick, ApplyAgain, vars, local

\* The invariant is inductive.
LEMMA InvNext ==
  ASSUME Inv, [Next]_vars
  PROVE  Inv'
  BY StepTypes, StepMade, StepApplied, StepBlacklist, StepReaches DEF Inv

-----------------------------------------------------------------------------
(* Theorems.                                                               *)

\* The invariant holds in every reachable state.
THEOREM Invariance == Spec => []Inv
  <1>1. Init => Inv
    BY InvInit
  <1>2. Inv /\ [Next]_vars => Inv'
    BY InvNext
  <1> QED BY <1>1, <1>2, PTL DEF Spec

\* Every variable keeps its type, so no copy goes further than the hop limit.
THEOREM TypeCorrect == Spec => []TypeOK
  <1>1. Inv => TypeOK
    BY DEF Inv
  <1> QED BY <1>1, Invariance, PTL

\* An entry holds the newest update applied, in whatever order updates came.
THEOREM NewestWins == Spec => []RegistryIsNewest
  <1>1. Inv => RegistryIsNewest
    BY DEF Inv
  <1> QED BY <1>1, Invariance, PTL

\* Nodes that have applied the same updates of an entry, no two of them under
\* one time stamp, agree on it.
THEOREM Convergence == Spec => []Converges
  <1>1. RegistryIsNewest /\ TypeOK => Converges
    <2> SUFFICES ASSUME RegistryIsNewest, TypeOK,
                        NEW n \in Nodes, NEW m \in Nodes, NEW e \in Entries,
                        On(n, e) = On(m, e),
                        \A u, v \in On(n, e) : u.ts = v.ts => u = v
                 PROVE  registry[n][e] = registry[m][e]
      BY DEF Converges
    <2>1. CASE On(n, e) = {}
      BY <2>1 DEF RegistryIsNewest
    <2>2. CASE On(n, e) # {}
      <3>1. PICK u \in On(n, e) : /\ registry[n][e] = [ts |-> u.ts, value |-> u.value]
                                  /\ \A w \in On(n, e) : w.ts <= u.ts
        BY <2>2 DEF RegistryIsNewest
      <3>2. PICK v \in On(m, e) : /\ registry[m][e] = [ts |-> v.ts, value |-> v.value]
                                  /\ \A w \in On(m, e) : w.ts <= v.ts
        BY <2>2 DEF RegistryIsNewest
      <3>3. u.ts <= v.ts /\ v.ts <= u.ts /\ u.ts \in Nat /\ v.ts \in Nat
        BY <3>1, <3>2 DEF On, TypeOK, Updates, Times
      <3>4. u = v
        BY <3>3
      <3> QED BY <3>1, <3>2, <3>4
    <2> QED BY <2>1, <2>2
  <1> QED BY <1>1, TypeCorrect, NewestWins, PTL

\* Nothing but a failed send, or a newer update of the same millisecond, keeps
\* an update from a neighbour of its maker.
THEOREM Delivery == Spec => []NothingVanishes
  <1>1. Inv => NothingVanishes
    BY DEF Inv
  <1> QED BY <1>1, Invariance, PTL

\* A node puts an update into its buffer only once, though copies of it come
\* back from all sides.
THEOREM FloodEnds == Spec => ForwardedOnce
  <1> DEFINE Once == \A n \in Nodes : \A c \in outbox'[n] \ outbox[n] : c.data \notin applied[n]
  <1>1. ASSUME Inv, [Next]_vars
        PROVE  Once
    <2> USE <1>1 DEF Inv
    <2>0. outbox \in [Nodes -> SUBSET Copies]
      BY DEF TypeOK
    <2>1. ASSUME NEW n \in Nodes, NEW e \in Entries, Create(n, e) PROVE Once
      <3>1. PICK u \in Updates :
              u \notin made /\ outbox' = [outbox EXCEPT ![n] = @ \cup {[data |-> u, hops |-> 0]}]
        BY <2>1, CreateMakes
      <3>2. \A m \in Nodes : u \notin applied[m]
        BY <3>1 DEF AllMade
      <3> QED BY <2>0, <3>1, <3>2
    <2>2. ASSUME NEW n \in Nodes, Send(n) PROVE Once
      BY <2>0, <2>2 DEF Send
    <2>3. ASSUME NEW n \in Nodes, Receive(n) PROVE Once
      <3>1. PICK c \in Copies :
              /\ c.data \in Updates
              /\ Ignore(n, c) \/ Distrust(n, c) \/ Accept(n, c)
        BY <2>3, ReceiveTakes
      <3>2. CASE Ignore(n, c) \/ Distrust(n, c)
        BY <3>2 DEF Ignore, Distrust, local
      <3>3. CASE Accept(n, c)
        <4>1. c.data \notin applied[n]
          <5>1. log[n][c.data.id] < c.data.ts
            <6>1. log[n][c.data.id] \in Nat /\ c.data.ts \in Nat
              BY <3>1 DEF TypeOK, Updates, Times
            <6> QED BY <3>3, <6>1 DEF Accept, Stale
          <5>2. c.data \in applied[n] => c.data.ts <= log[n][c.data.id]
            BY DEF LogIsApplied
          <5>3. log[n][c.data.id] \in Nat /\ c.data.ts \in Nat
            BY <3>1 DEF TypeOK, Updates, Times
          <5> QED BY <5>1, <5>2, <5>3
        <4>2. [c EXCEPT !.hops = @ + 1].data = c.data
          BY DEF Copies
        <4> QED BY <2>0, <3>3, <4>1, <4>2 DEF Accept
      <3> QED BY <3>1, <3>2, <3>3
    <2>4. ASSUME UNCHANGED outbox PROVE Once
      BY <2>4
    <2> QED BY <1>1, <2>1, <2>2, <2>3, <2>4, Steps DEF Tick, ApplyAgain, vars, local
  <1>2. Once => [Once]_vars
    OBVIOUS
  <1> QED BY <1>1, Invariance, PTL DEF Spec, ForwardedOnce

=============================================================================
