-------------------------- MODULE VpnSessionsProofs --------------------------
(***************************************************************************)
(* What holds of VpnSessions for every set of users, servers, addresses    *)
(* and requests and every bound: the types, that an ACTIVE row has a       *)
(* session start, and, for clients that send one request at a time, that a *)
(* user never has two usable configurations on one server.  While          *)
(* wg-manager answers and nothing restarts: that a row left ACTIVE has its *)
(* peer and a speed limit.                                                 *)
(***************************************************************************)
EXTENDS VpnSessions, SequenceTheorems, FiniteSetTheorems, TLAPS

-----------------------------------------------------------------------------
(* The user_connections table as a sequence.                               *)

\* A table of n well-formed rows is a sequence of rows.
LEMMA TableIsSeq ==
  ASSUME NEW S, NEW n \in Nat, NEW f \in [1..n -> S]
  PROVE  f \in Seq(S) /\ Len(f) = n /\ DOMAIN f = 1..n
  OBVIOUS

\* A row of the table is a well-formed row, and the ids are 1..Len(conns).
LEMMA RowType ==
  ASSUME TypeOK
  PROVE  /\ ConnIds = 1..Len(conns) /\ Len(conns) \in Nat
         /\ conns \in [ConnIds -> Conn]
         /\ \A c \in ConnIds : conns[c] \in Conn
  BY LenProperties, ElementOfSeq DEF TypeOK, ConnIds

\* Replacing rows by well-formed ones keeps the table well formed.
LEMMA SameIds ==
  ASSUME TypeOK, conns' \in [ConnIds -> Conn]
  PROVE  conns' \in Seq(Conn) /\ ConnIds' = ConnIds
  BY RowType, TableIsSeq DEF ConnIds

\* Inserting a row adds the id Len(conns) + 1 and leaves the other rows alone.
LEMMA InsertRow ==
  ASSUME TypeOK, NEW row \in Conn, conns' = Append(conns, row)
  PROVE  /\ conns' \in Seq(Conn)
         /\ Len(conns') = Len(conns) + 1
         /\ ConnIds' = ConnIds \cup {Len(conns) + 1}
         /\ conns'[Len(conns) + 1] = row
         /\ \A c \in ConnIds : conns'[c] = conns[c]
  BY DEF TypeOK, ConnIds

\* The live rows of a user can be counted.
LEMMA LiveCount ==
  ASSUME TypeOK, NEW u
  PROVE  Cardinality(LiveOf(u)) \in Nat
  <1>1. LiveOf(u) \in SUBSET (1..Len(conns)) /\ Len(conns) \in Nat
    BY RowType DEF LiveOf
  <1>2. IsFiniteSet(1..Len(conns))
    BY <1>1, FS_Interval
  <1>3. IsFiniteSet(LiveOf(u))
    BY <1>1, <1>2, FS_Subset
  <1> QED BY <1>3, FS_CardinalityType

-----------------------------------------------------------------------------
(* Types.                                                                  *)

\* What a handler's local state q holds at each of its waiting points: the
\* server it allocates on, the address it was given, the row it works on.
LocalOK(q, ids) ==
  /\ q.pc \in {"alloc", "insert"} => q.server \in Servers
  /\ q.pc \in {"insert", "addPeer", "speed"} => q.ip \in IPs
  /\ q.pc \in {"reuse", "revoke", "addPeer", "speed"} => q.conn \in ids

HandlerOK == \A r \in Requests : LocalOK(req[r], ConnIds)

TypeInv == TypeOK /\ HandlerOK

\* The initial state is well typed.
LEMMA InitTypeInv == Init => TypeInv
  BY ClientAssumption, NumbersAssumption
     DEF Init, TypeInv, TypeOK, HandlerOK, LocalOK, NewUser, IdleRequest, IdleWatchdog, User,
         Conn, Request, PC, Tier, ConnIds, NoConn

\* A handler that moves to a well-formed local state leaves all of them well
\* formed, as long as no row disappears.
LEMMA HandlerStep ==
  ASSUME TypeInv, NEW r \in Requests, NEW q \in Request, Becomes(r, q),
         ConnIds \subseteq ConnIds', LocalOK(q, ConnIds')
  PROVE  req' \in [Requests -> Request] /\ HandlerOK'
  BY DEF TypeInv, TypeOK, HandlerOK, LocalOK, Becomes

\* The idle state is well formed.
LEMMA IdleOK ==
  ASSUME NEW ids PROVE IdleRequest \in Request /\ LocalOK(IdleRequest, ids)
  BY DEF IdleRequest, Request, LocalOK, PC, NoConn

\* A user's row stays a user's row when one of its columns is written.
LEMMA UserUpdate ==
  ASSUME TypeOK, NEW u \in Users, NEW row \in User,
         users' = [users EXCEPT ![u] = row]
  PROVE  users' \in [Users -> User]
  BY DEF TypeOK

\* The end of a trial, premium and the age of a session keep the types.
LEMMA EntitlementTypeInv ==
  ASSUME TypeInv, Entitlement PROVE TypeInv'
  <1>1. ASSUME NEW u \in Users, TrialEnds(u) \/ GrantPremium(u) \/ PremiumLapses(u)
        PROVE  TypeInv'
    <2>1. users[u] \in User
      BY DEF TypeInv, TypeOK
    <2>2. /\ [users[u] EXCEPT !.trial = FALSE] \in User
          /\ [users[u] EXCEPT !.isPremium = TRUE, !.paid = TRUE] \in User
          /\ [users[u] EXCEPT !.paid = FALSE] \in User
      BY <2>1 DEF User
    <2>3. users' \in [Users -> User]
      BY <1>1, <2>2, UserUpdate DEF TrialEnds, GrantPremium, PremiumLapses, TypeInv
    <2> QED
      BY <1>1, <2>3 DEF TypeInv, TypeOK, HandlerOK, TrialEnds, GrantPremium, PremiumLapses, ConnIds
  <1>2. ASSUME NEW c \in ConnIds, SessionAges(c) PROVE TypeInv'
    <2>1. [conns[c] EXCEPT !.lastUsed = "old"] \in Conn
      BY RowType DEF TypeInv, Conn, Age
    <2>2. conns' \in [ConnIds -> Conn]
      BY <1>2, <2>1, RowType DEF SessionAges, TypeInv
    <2> QED
      BY <1>2, <2>2, SameIds DEF SessionAges, TypeInv, TypeOK, HandlerOK
  <1> QED BY <1>1, <1>2 DEF Entitlement


\* A step that changes one handler's local state and nothing else.
LEMMA LocalStep ==
  ASSUME TypeInv, NEW r \in Requests, NEW q \in Request, Becomes(r, q), LocalOK(q, ConnIds),
         UNCHANGED <<users, conns, peers, speed, heals, watchdog, restarts>>
  PROVE  TypeInv'
  <1>1. ConnIds' = ConnIds
    BY DEF ConnIds
  <1>2. req' \in [Requests -> Request] /\ HandlerOK'
    BY <1>1, HandlerStep
  <1> QED BY <1>1, <1>2 DEF TypeInv, TypeOK

\* Authenticating a request keeps the types.
LEMMA AuthenticateTypeInv ==
  ASSUME TypeInv, NEW r \in Requests, Authenticate(r) PROVE TypeInv'
  <1> DEFINE u == users[Client[r]]
             q == [req[r] EXCEPT !.pc = "authed", !.limited = Limited(u),
                                 !.premium = IsUserPremium(u),
                                 !.parity = IF Limited(u) THEN u.parity ELSE 0]
  <1>1. req[r] \in Request /\ u \in User
    BY ClientAssumption DEF TypeInv, TypeOK
  <1>2. u.parity \in {0, 1}
    BY <1>1 DEF User
  <1>3. Limited(u) \in BOOLEAN /\ IsUserPremium(u) \in BOOLEAN
    BY DEF Limited, IsUserPremium
  <1> HIDE DEF u
  <1>4. q \in Request
    BY <1>1, <1>2, <1>3 DEF Request, PC
  <1>5. LocalOK(q, ConnIds)
    BY <1>1 DEF LocalOK, Request
  <1>6. Becomes(r, q)
    BY DEF Authenticate, u
  <1> QED BY <1>4, <1>5, <1>6, LocalStep DEF Authenticate

\* Looking up the user's row keeps the types.
LEMMA ConnectLookupTypeInv ==
  ASSUME TypeInv, NEW r \in Requests, NEW s \in Servers, ConnectLookup(r, s) PROVE TypeInv'
  <1>1. req[r] \in Request
    BY DEF TypeInv, TypeOK
  <1>2. CASE Becomes(r, [req[r] EXCEPT !.pc = "alloc", !.op = "connect", !.server = s])
    <2>1. [req[r] EXCEPT !.pc = "alloc", !.op = "connect", !.server = s] \in Request
      BY <1>1 DEF Request, PC
    <2>2. LocalOK([req[r] EXCEPT !.pc = "alloc", !.op = "connect", !.server = s], ConnIds)
      BY <1>1 DEF Request, LocalOK
    <2> QED BY <1>2, <2>1, <2>2, LocalStep DEF ConnectLookup
  <1>3. ASSUME NEW c \in ConnIds,
               Becomes(r, [req[r] EXCEPT !.pc = "reuse", !.op = "connect",
                             !.server = s, !.conn = c,
                             !.wasActive = (conns[c].status = "ACTIVE")])
        PROVE  TypeInv'
    <2> DEFINE q == [req[r] EXCEPT !.pc = "reuse", !.op = "connect", !.server = s, !.conn = c,
                                   !.wasActive = (conns[c].status = "ACTIVE")]
    <2>1. c \in Nat
      BY RowType DEF TypeInv
    <2>2. q \in Request
      BY <1>1, <2>1 DEF Request, PC
    <2>3. LocalOK(q, ConnIds)
      BY <1>1 DEF Request, LocalOK
    <2> QED BY <1>3, <2>2, <2>3, LocalStep DEF ConnectLookup
  <1> QED BY <1>2, <1>3 DEF ConnectLookup

\* Computing an address keeps the types.
LEMMA AllocateTypeInv ==
  ASSUME TypeInv, NEW r \in Requests, AllocateIp(r) \/ AllocateFails(r) PROVE TypeInv'
  <1>1. req[r] \in Request /\ LocalOK(req[r], ConnIds)
    BY DEF TypeInv, TypeOK, HandlerOK
  <1>2. CASE AllocateIp(r)
    <2>1. PICK i \in FreeIPs(req[r].server) : Becomes(r, [req[r] EXCEPT !.pc = "insert", !.ip = i])
      BY <1>2 DEF AllocateIp
    <2>2. i \in IPs
      BY DEF FreeIPs
    <2>3. [req[r] EXCEPT !.pc = "insert", !.ip = i] \in Request
      BY <1>1, <2>2 DEF Request, PC
    <2>4. LocalOK([req[r] EXCEPT !.pc = "insert", !.ip = i], ConnIds)
      BY <1>1, <1>2, <2>2 DEF Request, LocalOK, AllocateIp
    <2> QED BY <1>2, <2>1, <2>3, <2>4, LocalStep DEF AllocateIp
  <1>3. CASE AllocateFails(r)
    <2>1. [req[r] EXCEPT !.pc = "exhausted"] \in Request
      BY <1>1 DEF Request, PC
    <2>2. LocalOK([req[r] EXCEPT !.pc = "exhausted"], ConnIds)
      BY <1>1 DEF Request, LocalOK
    <2> QED BY <1>3, <2>1, <2>2, LocalStep DEF AllocateFails
  <1> QED BY <1>2, <1>3

\* The steps of the pool loop that write no row keep the types.
LEMMA PoolLoopTypeInv ==
  ASSUME TypeInv, NEW r \in Requests,
         PoolRead(r) \/ PoolReturn(r) \/ \E s \in Servers : PoolPick(r, s)
  PROVE  TypeInv'
  <1>1. req[r] \in Request
    BY DEF TypeInv, TypeOK
  <1>2. CASE PoolRead(r)
    <2> DEFINE seen == {conns[c].server : c \in LiveOf(Client[r])}
               n == Cardinality(LiveOf(Client[r]))
               q == [req[r] EXCEPT !.pc = "fill", !.op = "pool", !.seen = seen, !.count = n]
    <2>1. n \in Nat
      BY LiveCount DEF TypeInv
    <2>2. seen \in SUBSET Servers
      BY RowType DEF TypeInv, LiveOf, Conn
    <2>3. Becomes(r, q)
      BY <1>2 DEF PoolRead
    <2> HIDE DEF seen, n
    <2>4. q \in Request
      BY <1>1, <2>1, <2>2 DEF Request, PC
    <2>5. LocalOK(q, ConnIds)
      BY <1>1 DEF Request, LocalOK
    <2> QED BY <1>2, <2>3, <2>4, <2>5, LocalStep DEF PoolRead
  <1>3. CASE PoolReturn(r)
    BY <1>3, IdleOK, LocalStep DEF PoolReturn, Respond
  <1>4. ASSUME NEW s \in Servers, PoolPick(r, s) PROVE TypeInv'
    <2>1. [req[r] EXCEPT !.pc = "alloc", !.server = s] \in Request
      BY <1>1 DEF Request, PC
    <2>2. LocalOK([req[r] EXCEPT !.pc = "alloc", !.server = s], ConnIds)
      BY <1>1 DEF Request, LocalOK
    <2> QED BY <1>4, <2>1, <2>2, LocalStep DEF PoolPick
  <1> QED BY <1>2, <1>3, <1>4


\* Counting a limited user's connect writes one well-formed users row.
LEMMA CountTypeInv ==
  ASSUME TypeInv, NEW r \in Requests, CountLimitedConnect(r)
  PROVE  users' \in [Users -> User]
  <1>1. Client[r] \in Users /\ users[Client[r]] \in User /\ req[r].parity \in {0, 1}
    BY ClientAssumption DEF TypeInv, TypeOK, Request
  <1>2. [users[Client[r]] EXCEPT !.parity = 1 - req[r].parity] \in User
    BY <1>1 DEF User
  <1>3. CASE req[r].limited
    BY <1>1, <1>2, <1>3, UserUpdate DEF CountLimitedConnect, TypeInv
  <1>4. CASE ~req[r].limited
    BY <1>4 DEF CountLimitedConnect, TypeInv, TypeOK
  <1> QED BY <1>3, <1>4

\* The row a connect inserts is a row.
LEMMA NewRowType ==
  ASSUME TypeInv, NEW r \in Requests, req[r].pc = "insert", NEW st \in Status, NEW age \in Age
  PROVE  NewRow(r, st, age) \in Conn
  BY ClientAssumption DEF TypeInv, HandlerOK, LocalOK, NewRow, Conn

\* Inserting a row, or failing to, keeps the types.
LEMMA InsertTypeInv ==
  ASSUME TypeInv, NEW r \in Requests, ConnectInsert(r) \/ PoolInsert(r) PROVE TypeInv'
  <1> DEFINE n == Len(conns) + 1
  <1>1. req[r] \in Request /\ LocalOK(req[r], ConnIds)
    BY DEF TypeInv, TypeOK, HandlerOK
  <1>2. n \in Nat
    BY RowType DEF TypeInv
  <1>3. CASE ConnectInsert(r)
    <2>1. NewRow(r, "ACTIVE", "fresh") \in Conn
      BY <1>3, NewRowType DEF ConnectInsert, Status, Age
    <2>2. conns' \in Seq(Conn) /\ ConnIds' = ConnIds \cup {n}
      BY <1>3, <2>1, InsertRow DEF ConnectInsert, TypeInv
    <2> HIDE DEF n
    <2>3. [req[r] EXCEPT !.pc = "addPeer", !.conn = n] \in Request
      BY <1>1, <1>2 DEF Request, PC
    <2>4. LocalOK([req[r] EXCEPT !.pc = "addPeer", !.conn = n], ConnIds')
      BY <1>1, <1>3, <2>2 DEF Request, LocalOK, ConnectInsert
    <2>5. req' \in [Requests -> Request] /\ HandlerOK'
      BY <1>3, <2>2, <2>3, <2>4, HandlerStep DEF ConnectInsert, n
    <2>6. users' \in [Users -> User]
      BY <1>3, CountTypeInv DEF ConnectInsert
    <2> QED BY <1>3, <2>2, <2>5, <2>6 DEF ConnectInsert, TypeInv, TypeOK
  <1>4. CASE PoolInsert(r)
    <2> DEFINE q == [req[r] EXCEPT !.pc = "addPeer", !.conn = n,
                                   !.seen = @ \cup {req[r].server}, !.count = @ + 1]
    <2>1. NewRow(r, "STANDBY", "never") \in Conn
      BY <1>4, NewRowType DEF PoolInsert, Status, Age
    <2>2. conns' \in Seq(Conn) /\ ConnIds' = ConnIds \cup {n}
      BY <1>4, <2>1, InsertRow DEF PoolInsert, TypeInv
    <2>3. req[r].server \in Servers /\ req[r].seen \in SUBSET Servers /\ req[r].count \in Nat
      BY <1>1, <1>4 DEF LocalOK, PoolInsert, Request
    <2>4. Becomes(r, q)
      BY <1>4 DEF PoolInsert
    <2> HIDE DEF n
    <2>5. req[r].seen \cup {req[r].server} \in SUBSET Servers /\ req[r].count + 1 \in Nat
      BY <2>3
    <2>6. q \in Request
      BY <1>1, <1>2, <2>5 DEF Request, PC
    <2>7. LocalOK(q, ConnIds')
      BY <1>1, <1>4, <2>2 DEF Request, LocalOK, PoolInsert
    <2>8. req' \in [Requests -> Request] /\ HandlerOK'
      BY <2>2, <2>4, <2>6, <2>7, HandlerStep
    <2> QED BY <1>4, <2>2, <2>8 DEF PoolInsert, TypeInv, TypeOK
  <1> QED BY <1>3, <1>4

\* Taking over the user's row keeps the types.
LEMMA ReuseTypeInv ==
  ASSUME TypeInv, NEW r \in Requests, ConnectReuse(r) PROVE TypeInv'
  <1> DEFINE c == req[r].conn
             q == [req[r] EXCEPT !.pc = "addPeer", !.ip = conns[c].ip]
             st == IF req[r].wasActive THEN conns[c].status ELSE "ACTIVE"
             row == [conns[c] EXCEPT !.status = st, !.lastUsed = "fresh"]
  <1>1. req[r] \in Request /\ c \in ConnIds
    BY DEF TypeInv, TypeOK, HandlerOK, LocalOK, ConnectReuse
  <1>2. conns[c] \in Conn
    BY <1>1, RowType DEF TypeInv
  <1>3. st \in Status /\ conns[c].ip \in IPs
    BY <1>2 DEF Conn, Status
  <1>4. Becomes(r, q) /\ conns' = [conns EXCEPT ![c] = row]
    BY DEF ConnectReuse
  <1> HIDE DEF c, st
  <1>5. row \in Conn
    BY <1>2, <1>3 DEF Conn, Age
  <1>6. conns' \in Seq(Conn) /\ ConnIds' = ConnIds
    BY <1>4, <1>5, RowType, SameIds DEF TypeInv
  <1>7. q \in Request
    BY <1>1, <1>3 DEF Request, PC
  <1>8. LocalOK(q, ConnIds')
    BY <1>1, <1>3, <1>6 DEF Request, LocalOK, c
  <1>9. req' \in [Requests -> Request] /\ HandlerOK'
    BY <1>4, <1>6, <1>7, <1>8, HandlerStep
  <1>10. users' \in [Users -> User]
    BY CountTypeInv DEF ConnectReuse
  <1> QED BY <1>6, <1>9, <1>10 DEF ConnectReuse, TypeInv, TypeOK

\* Registering the peer and setting its speed keep the types.
LEMMA ServeTypeInv ==
  ASSUME TypeInv, NEW r \in Requests, AddPeer(r) \/ SetSpeed(r) PROVE TypeInv'
  <1>1. req[r] \in Request /\ LocalOK(req[r], ConnIds)
    BY DEF TypeInv, TypeOK, HandlerOK
  <1>2. ConnIds' = ConnIds
    BY DEF AddPeer, SetSpeed, ConnIds
  <1>3. CASE AddPeer(r)
    <2>1. peers' \subseteq ConnIds
      BY <1>1, <1>3 DEF AddPeer, TypeInv, TypeOK, LocalOK
    <2>2. [req[r] EXCEPT !.pc = "speed"] \in Request
      BY <1>1 DEF Request, PC
    <2>3. LocalOK([req[r] EXCEPT !.pc = "speed"], ConnIds)
      BY <1>1, <1>3 DEF Request, LocalOK, AddPeer
    <2>4. req' \in [Requests -> Request] /\ HandlerOK'
      BY <1>2, <1>3, <2>2, <2>3, IdleOK, HandlerStep DEF AddPeer, Respond
    <2> QED BY <1>2, <1>3, <2>1, <2>4 DEF AddPeer, TypeInv, TypeOK
  <1>4. CASE SetSpeed(r)
    <2> DEFINE q == [req[r] EXCEPT !.pc = "fill", !.server = NoConn, !.ip = NoConn,
                                   !.conn = NoConn]
    <2>1. SpeedTier(r) \in Tier /\ req[r].ip \in IPs
      BY <1>1, <1>4 DEF SpeedTier, Tier, LocalOK, SetSpeed
    <2>2. speed' \in [IPs -> Tier]
      BY <1>4, <2>1 DEF SetSpeed, TypeInv, TypeOK
    <2>3. q \in Request
      BY <1>1 DEF Request, PC, NoConn
    <2>4. LocalOK(q, ConnIds)
      BY <1>1 DEF Request, LocalOK
    <2>5. req' \in [Requests -> Request] /\ HandlerOK'
      BY <1>2, <1>4, <2>3, <2>4, IdleOK, HandlerStep DEF SetSpeed, Respond
    <2> QED BY <1>2, <1>4, <2>2, <2>5 DEF SetSpeed, TypeInv, TypeOK
  <1> QED BY <1>3, <1>4

\* Reports of blocked configurations and failing requests keep the types.
LEMMA ReportTypeInv ==
  ASSUME TypeInv, NEW r \in Requests,
         (\E i : ReportRead(r, i)) \/ ReportRevoke(r) \/ Fail(r)
  PROVE  TypeInv'
  <1>1. req[r] \in Request /\ LocalOK(req[r], ConnIds)
    BY DEF TypeInv, TypeOK, HandlerOK
  <1>2. ASSUME NEW i, ReportRead(r, i) PROVE TypeInv'
    <2>1. CASE Respond(r)
      BY <1>2, <2>1, IdleOK, LocalStep DEF ReportRead, Respond
    <2>2. ASSUME NEW c \in ConnIds, Becomes(r, [req[r] EXCEPT !.pc = "revoke", !.conn = c])
          PROVE  TypeInv'
      <3>1. c \in Nat
        BY RowType DEF TypeInv
      <3>2. [req[r] EXCEPT !.pc = "revoke", !.conn = c] \in Request
        BY <1>1, <3>1 DEF Request, PC
      <3>3. LocalOK([req[r] EXCEPT !.pc = "revoke", !.conn = c], ConnIds)
        BY <1>1 DEF Request, LocalOK
      <3> QED BY <1>2, <2>2, <3>2, <3>3, LocalStep DEF ReportRead
    <2>3. CASE Becomes(r, [req[r] EXCEPT !.pc = "multipleRows"])
      <3>1. [req[r] EXCEPT !.pc = "multipleRows"] \in Request
        BY <1>1 DEF Request, PC
      <3>2. LocalOK([req[r] EXCEPT !.pc = "multipleRows"], ConnIds)
        BY <1>1 DEF Request, LocalOK
      <3> QED BY <1>2, <2>3, <3>1, <3>2, LocalStep DEF ReportRead
    <2> QED BY <1>2, <2>1, <2>2, <2>3 DEF ReportRead, LiveOf
  <1>3. CASE ReportRevoke(r)
    <2> DEFINE c == req[r].conn
    <2>1. c \in ConnIds
      BY <1>1, <1>3 DEF LocalOK, ReportRevoke
    <2>2. [conns[c] EXCEPT !.status = "REVOKED"] \in Conn
      BY <2>1, RowType DEF TypeInv, Conn, Status
    <2>3. conns' \in Seq(Conn) /\ ConnIds' = ConnIds
      BY <1>3, <2>1, <2>2, RowType, SameIds DEF ReportRevoke, TypeInv
    <2>4. req' \in [Requests -> Request] /\ HandlerOK'
      BY <1>3, <2>3, IdleOK, HandlerStep DEF ReportRevoke, Respond
    <2>5. heals' \subseteq Users
      BY <1>3, ClientAssumption DEF ReportRevoke, TypeInv, TypeOK
    <2> QED BY <1>3, <2>3, <2>4, <2>5 DEF ReportRevoke, TypeInv, TypeOK
  <1>4. CASE Fail(r)
    BY <1>4, IdleOK, LocalStep DEF Fail, Respond
  <1> QED BY <1>2, <1>3, <1>4

\* The healing task, the watchdog and a restart keep the types.
LEMMA BackgroundTypeInv ==
  ASSUME TypeInv, (\E u \in Users : HealPool(u)) \/ Watchdog \/ Restart PROVE TypeInv'
  <1>1. CASE \E u \in Users : HealPool(u)
    BY <1>1 DEF HealPool, TypeInv, TypeOK, HandlerOK, ConnIds
  <1>2. CASE WatchdogSelect
    BY <1>2 DEF WatchdogSelect, Expired, TypeInv, TypeOK, HandlerOK, ConnIds
  <1>3. ASSUME NEW c \in watchdog.todo, WatchdogRemove(c) PROVE TypeInv'
    BY <1>3 DEF WatchdogRemove, TypeInv, TypeOK, HandlerOK, ConnIds
  <1>4. CASE WatchdogCommit
    <2>1. \A c \in ConnIds : [conns[c] EXCEPT !.status = "REVOKED"] \in Conn
      BY RowType DEF TypeInv, Conn, Status
    <2>2. conns' \in [ConnIds -> Conn]
      BY <1>4, <2>1, RowType DEF WatchdogCommit, TypeInv
    <2>3. conns' \in Seq(Conn) /\ ConnIds' = ConnIds
      BY <2>2, SameIds DEF TypeInv
    <2> QED
      BY <1>4, <2>3 DEF WatchdogCommit, IdleWatchdog, TypeInv, TypeOK, HandlerOK
  <1>5. CASE Restart
    <2>1. ConnIds' = ConnIds
      BY <1>5 DEF Restart, ConnIds
    <2>2. req' \in [Requests -> Request] /\ HandlerOK'
      BY <1>5, IdleOK DEF Restart, HandlerOK
    <2> QED BY <1>5, <2>1, <2>2 DEF Restart, IdleWatchdog, TypeInv, TypeOK
  <1> QED BY <1>1, <1>2, <1>3, <1>4, <1>5 DEF Watchdog

\* Every step keeps the types.
LEMMA StepTypeInv == TypeInv /\ [Next]_vars => TypeInv'
  <1> SUFFICES ASSUME TypeInv, [Next]_vars PROVE TypeInv'
    OBVIOUS
  <1>1. ASSUME NEW r \in Requests, Handler(r) PROVE TypeInv'
    BY <1>1, AuthenticateTypeInv, ConnectLookupTypeInv, AllocateTypeInv, PoolLoopTypeInv,
       InsertTypeInv, ReuseTypeInv, ServeTypeInv, ReportTypeInv
       DEF Handler, SmartConnect
  <1>2. CASE UNCHANGED vars
    BY <1>2 DEF vars, TypeInv, TypeOK, HandlerOK, ConnIds
  <1> QED BY <1>1, <1>2, EntitlementTypeInv, BackgroundTypeInv DEF Next

\* Every reachable state is well typed: handlers allocate on known servers,
\* write addresses of the client range and touch rows that exist.
THEOREM TypeCorrect == Spec => []TypeOK
  <1>1. Spec => []TypeInv
    BY InitTypeInv, StepTypeInv, PTL DEF Spec
  <1> QED BY <1>1, PTL DEF TypeInv


-----------------------------------------------------------------------------
(* What every step does to the table.                                      *)

\* A row keeps its user, its server and its address for ever.
KeepsIdentity ==
  /\ ConnIds \subseteq ConnIds'
  /\ \A c \in ConnIds : /\ conns'[c].user = conns[c].user
                        /\ conns'[c].server = conns[c].server
                        /\ conns'[c].ip = conns[c].ip

\* A row becomes ACTIVE only with a session start, and keeps it while ACTIVE.
StartsWhenActive ==
  \A c \in ConnIds' :
    conns'[c].status = "ACTIVE" =>
      \/ conns'[c].lastUsed # "never"
      \/ c \in ConnIds /\ conns[c].status = "ACTIVE" /\ conns'[c].lastUsed = conns[c].lastUsed

\* The handlers that insert a row change no other and give the new row a
\* session start if they make it ACTIVE.
LEMMA InsertTable ==
  ASSUME TypeInv, NEW r \in Requests, ConnectInsert(r) \/ PoolInsert(r)
  PROVE  KeepsIdentity /\ StartsWhenActive
  <1>1. PICK row \in Conn : /\ conns' = Append(conns, row)
                            /\ row.status = "ACTIVE" => row.lastUsed # "never"
    <2>1. CASE ConnectInsert(r)
      <3>1. NewRow(r, "ACTIVE", "fresh") \in Conn
        BY <2>1, NewRowType DEF ConnectInsert, Status, Age
      <3> QED BY <2>1, <3>1 DEF ConnectInsert, NewRow
    <2>2. CASE PoolInsert(r)
      <3>1. NewRow(r, "STANDBY", "never") \in Conn
        BY <2>2, NewRowType DEF PoolInsert, Status, Age
      <3> QED BY <2>2, <3>1 DEF PoolInsert, NewRow
    <2> QED BY <2>1, <2>2
  <1>2. /\ ConnIds' = ConnIds \cup {Len(conns) + 1}
        /\ conns'[Len(conns) + 1] = row
        /\ \A c \in ConnIds : conns'[c] = conns[c]
    BY <1>1, InsertRow DEF TypeInv
  <1> QED BY <1>1, <1>2 DEF KeepsIdentity, StartsWhenActive

\* Writing status and last_used_at of one row.
LEMMA WriteTable ==
  ASSUME TypeInv, NEW c \in ConnIds, NEW st, NEW age,
         conns' = [conns EXCEPT ![c] = [conns[c] EXCEPT !.status = st, !.lastUsed = age]],
         st = "ACTIVE" => age # "never" \/ (conns[c].status = "ACTIVE" /\ age = conns[c].lastUsed)
  PROVE  KeepsIdentity /\ StartsWhenActive /\ ConnIds' = ConnIds
  <1>1. ConnIds' = ConnIds
    BY DEF ConnIds
  <1>2. conns[c] \in Conn /\ conns \in [ConnIds -> Conn]
    BY RowType DEF TypeInv
  <1>3. conns'[c] = [conns[c] EXCEPT !.status = st, !.lastUsed = age]
    BY <1>2
  <1>4. \A d \in ConnIds \ {c} : conns'[d] = conns[d]
    BY <1>2
  <1>5. /\ conns'[c].user = conns[c].user /\ conns'[c].server = conns[c].server
        /\ conns'[c].ip = conns[c].ip /\ conns'[c].status = st /\ conns'[c].lastUsed = age
    BY <1>2, <1>3 DEF Conn
  <1> QED BY <1>1, <1>4, <1>5 DEF KeepsIdentity, StartsWhenActive

\* A step keeps every row's identity, and a row that becomes active gets a start.
LEMMA StepTable == TypeInv /\ [Next]_vars => KeepsIdentity /\ StartsWhenActive
  <1> SUFFICES ASSUME TypeInv, [Next]_vars PROVE KeepsIdentity /\ StartsWhenActive
    OBVIOUS
  <1>1. CASE UNCHANGED conns
    BY <1>1 DEF KeepsIdentity, StartsWhenActive, ConnIds
  <1>2. ASSUME NEW c \in ConnIds, SessionAges(c) PROVE KeepsIdentity /\ StartsWhenActive
    <2>1. conns[c] \in Conn
      BY RowType DEF TypeInv
    <2>2. [conns[c] EXCEPT !.lastUsed = "old"]
            = [conns[c] EXCEPT !.status = conns[c].status, !.lastUsed = "old"]
      BY <2>1 DEF Conn
    <2> QED BY <1>2, <2>2, WriteTable DEF SessionAges
  <1>3. ASSUME NEW r \in Requests, ConnectReuse(r) PROVE KeepsIdentity /\ StartsWhenActive
    <2>1. req[r].conn \in ConnIds
      BY <1>3 DEF ConnectReuse, TypeInv, HandlerOK, LocalOK
    <2> QED BY <1>3, <2>1, WriteTable DEF ConnectReuse
  <1>4. ASSUME NEW r \in Requests, ReportRevoke(r) PROVE KeepsIdentity /\ StartsWhenActive
    <2> DEFINE c == req[r].conn
    <2>1. c \in ConnIds
      BY <1>4 DEF ReportRevoke, TypeInv, HandlerOK, LocalOK
    <2>2. conns[c] \in Conn
      BY <2>1, RowType DEF TypeInv
    <2>3. [conns[c] EXCEPT !.status = "REVOKED"]
            = [conns[c] EXCEPT !.status = "REVOKED", !.lastUsed = conns[c].lastUsed]
      BY <2>2 DEF Conn
    <2> QED BY <1>4, <2>1, <2>3, WriteTable DEF ReportRevoke
  <1>5. CASE WatchdogCommit
    <2>1. ConnIds' = ConnIds /\ \A c \in ConnIds : conns[c] \in Conn
      BY <1>5, RowType DEF WatchdogCommit, ConnIds, TypeInv
    <2>2. \A c \in ConnIds : /\ conns'[c].user = conns[c].user
                             /\ conns'[c].server = conns[c].server
                             /\ conns'[c].ip = conns[c].ip
                             /\ conns'[c].lastUsed = conns[c].lastUsed
                             /\ conns'[c].status \in {conns[c].status, "REVOKED"}
      BY <1>5, <2>1 DEF WatchdogCommit, Conn
    <2> QED BY <2>1, <2>2 DEF KeepsIdentity, StartsWhenActive
  <1>6. ASSUME NEW r \in Requests, Handler(r), ~UNCHANGED conns
        PROVE  ConnectInsert(r) \/ PoolInsert(r) \/ ConnectReuse(r) \/ ReportRevoke(r)
    BY <1>6 DEF Handler, Authenticate, ConnectLookup, PoolPick, AllocateIp, AllocateFails,
                PoolRead, PoolReturn, AddPeer, SetSpeed, ReportRead, Fail, SmartConnect
  <1>7. CASE \E r \in Requests : Handler(r)
    BY <1>1, <1>3, <1>4, <1>6, <1>7, InsertTable
  <1> QED
    BY <1>1, <1>2, <1>5, <1>7
       DEF Next, Entitlement, TrialEnds, GrantPremium, PremiumLapses, HealPool, Watchdog,
           WatchdogSelect, WatchdogRemove, Restart, vars

\* An ACTIVE row always has a session start, so the watchdog's query, which
\* skips NULL last_used_at, can see every session.
THEOREM ActiveRowsHaveStart == Spec => []ActiveHasStart
  <1>1. Init => ActiveHasStart
    BY DEF Init, ActiveHasStart, ConnIds
  <1>2. TypeInv /\ ActiveHasStart /\ [Next]_vars => ActiveHasStart'
    BY StepTable DEF ActiveHasStart, StartsWhenActive
  <1>3. Spec => []TypeInv
    BY InitTypeInv, StepTypeInv, PTL DEF Spec
  <1> QED BY <1>1, <1>2, <1>3, PTL DEF Spec


-----------------------------------------------------------------------------
(* One usable configuration per user and server.                           *)

\* The users who have one request in flight at a time, whatever the others do.
SerialUsers ==
  {u \in Users : \A q, r \in Requests : Client[q] = u /\ Client[r] = u => q = r}

\* OneLivePerServer, of these users.
OneLiveForSerial ==
  \A c \in ConnIds :
    conns[c].user \in SerialUsers /\ Live(c) => Newest(c, conns[c].user, conns[c].server)

\* What a handler still knows about its user's rows when it acts on what it
\* read before an await: the connect's lookup and the pool's set of servers
\* are not yet out of date, because nobody else inserts rows for this user.
UpToDate(r) ==
  /\ req[r].pc = "fill" => req[r].op = "pool"
  /\ req[r].pc = "reuse" =>
       /\ req[r].op = "connect"
       /\ Newest(req[r].conn, Client[r], conns[req[r].conn].server)
  /\ req[r].pc \in {"alloc", "insert"} =>
       \/ req[r].op = "connect" /\ RowsOf(Client[r], req[r].server) = {}
       \/ req[r].op = "pool" /\ req[r].server \notin req[r].seen
  /\ req[r].op = "pool" /\ req[r].pc \in {"fill", "alloc", "insert", "addPeer", "speed"} =>
       \A c \in LiveOf(Client[r]) : conns[c].server \in req[r].seen

\* A connect reactivates a row of its own user, also one who does not wait for
\* his answers, so it is no other user's row that comes to life.
HandlerSerial(r) ==
  /\ req[r].pc = "reuse" => conns[req[r].conn].user = Client[r]
  /\ Client[r] \in SerialUsers => UpToDate(r)

SerialInv == OneLiveForSerial /\ \A r \in Requests : HandlerSerial(r)

\* The table keeps its rows and no row of user u comes to life.
Shrinks(u) ==
  \A c \in ConnIds' : conns'[c].user = u => c \in ConnIds /\ (Live(c)' => Live(c))

\* What a waiting handler knows stays true while its user's rows only shrink.
LEMMA SerialFrame ==
  ASSUME TypeInv, NEW r \in Requests, HandlerSerial(r), KeepsIdentity,
         Client[r] \in SerialUsers => Shrinks(Client[r]),
         req'[r] = req[r]
  PROVE  HandlerSerial(r)'
  <1>1. ASSUME req[r].pc = "reuse" PROVE conns'[req[r].conn].user = Client[r]
    BY <1>1 DEF TypeInv, HandlerOK, LocalOK, KeepsIdentity, HandlerSerial
  <1>2. ASSUME Client[r] \in SerialUsers PROVE UpToDate(r)'
    <2>0. Shrinks(Client[r]) /\ UpToDate(r)
      BY <1>2 DEF HandlerSerial
    <2>1. \A s : RowsOf(Client[r], s)' \subseteq RowsOf(Client[r], s)
      BY <2>0 DEF RowsOf, Shrinks, KeepsIdentity
    <2>2. \A c \in LiveOf(Client[r])' : c \in LiveOf(Client[r]) /\ conns'[c].server = conns[c].server
      BY <2>0 DEF LiveOf, Shrinks, KeepsIdentity
    <2>3. ASSUME req[r].pc = "reuse"
          PROVE  Newest(req[r].conn, Client[r], conns[req[r].conn].server)'
      <3> DEFINE c == req[r].conn
                 s == conns[c].server
      <3>1. c \in ConnIds /\ Newest(c, Client[r], s)
        BY <2>0, <2>3 DEF TypeInv, HandlerOK, LocalOK, UpToDate
      <3>2. c \in ConnIds' /\ conns'[c].user = Client[r] /\ conns'[c].server = s
        BY <3>1 DEF KeepsIdentity, Newest, RowsOf
      <3>3. \A d \in ConnIds' : conns'[d].user = Client[r] /\ conns'[d].server = s => d <= c
        BY <2>0, <3>1 DEF Newest, RowsOf, Shrinks, KeepsIdentity
      <3> QED BY <3>2, <3>3 DEF Newest, RowsOf
    <2>4. RowsOf(Client[r], req[r].server) = {} => RowsOf(Client[r], req[r].server)' = {}
      BY <2>1
    <2> QED BY <2>0, <2>2, <2>3, <2>4 DEF UpToDate
  <1> QED BY <1>1, <1>2 DEF HandlerSerial

\* Rows that were the newest of their user and server stay so while no row is
\* inserted; a row that comes to life must be the newest itself.
LEMMA NewestFrame ==
  ASSUME TypeInv, OneLiveForSerial, KeepsIdentity, ConnIds' = ConnIds,
         \A c \in ConnIds : conns[c].user \in SerialUsers /\ Live(c)' =>
            Live(c) \/ Newest(c, conns[c].user, conns[c].server)
  PROVE  OneLiveForSerial'
  <1>1. \A c \in ConnIds : Newest(c, conns[c].user, conns[c].server)
                             => Newest(c, conns[c].user, conns[c].server)'
    BY DEF Newest, RowsOf, KeepsIdentity
  <1>2. \A c \in ConnIds : conns'[c].user = conns[c].user
    BY DEF KeepsIdentity
  <1> QED BY <1>1, <1>2 DEF OneLiveForSerial

\* Steps of the users, the watchdog, the healer and restarts.
LEMMA BackgroundSerial ==
  ASSUME TypeInv, SerialInv,
         \/ Entitlement \/ (\E u \in Users : HealPool(u)) \/ Watchdog \/ Restart
         \/ UNCHANGED vars
  PROVE  SerialInv'
  <1>1. ConnIds' = ConnIds
    BY DEF Entitlement, TrialEnds, GrantPremium, PremiumLapses, SessionAges, HealPool,
           Watchdog, WatchdogSelect, WatchdogRemove, WatchdogCommit, Restart, vars, ConnIds
  <1>2. KeepsIdentity
    BY StepTable DEF Next
  <1>3. \A c \in ConnIds : conns'[c].status \in {conns[c].status, "REVOKED"}
    <2>1. \A c \in ConnIds : conns[c] \in Conn
      BY RowType DEF TypeInv
    <2>2. CASE \E d \in ConnIds : SessionAges(d)
      BY <2>1, <2>2 DEF SessionAges, Conn
    <2>3. CASE WatchdogCommit
      BY <2>1, <2>3 DEF WatchdogCommit, Conn
    <2>4. CASE UNCHANGED conns
      BY <2>4
    <2> QED
      BY <2>2, <2>3, <2>4 DEF Entitlement, TrialEnds, GrantPremium, PremiumLapses, HealPool,
         Watchdog, WatchdogSelect, WatchdogRemove, Restart, vars
  <1>4. \A c \in ConnIds : Live(c)' => Live(c)
    BY <1>3 DEF Live
  <1>5. OneLiveForSerial'
    BY <1>1, <1>2, <1>4, NewestFrame DEF SerialInv
  <1>6. ASSUME NEW r \in Requests PROVE HandlerSerial(r)'
    <2>1. CASE req'[r] = req[r]
      BY <1>1, <1>2, <1>4, <2>1, SerialFrame DEF Shrinks, SerialInv
    <2>2. CASE req'[r] = IdleRequest
      BY <2>2 DEF IdleRequest, HandlerSerial, UpToDate
    <2>3. req' = req \/ req' = [t \in Requests |-> IdleRequest]
      BY DEF Entitlement, TrialEnds, GrantPremium, PremiumLapses, SessionAges, HealPool,
             Watchdog, WatchdogSelect, WatchdogRemove, WatchdogCommit, Restart, vars
    <2> QED BY <2>1, <2>2, <2>3
  <1> QED BY <1>5, <1>6 DEF SerialInv


\* The state of a handler that moves, and of those that do not.
LEMMA BecomesAt ==
  ASSUME TypeInv, NEW r \in Requests, NEW q, Becomes(r, q)
  PROVE  req'[r] = q /\ \A t \in Requests \ {r} : req'[t] = req[t]
  BY DEF TypeInv, TypeOK, Becomes

\* A step of handler r that does not touch the table: only r's own knowledge
\* has to be shown.
LEMMA QuietHandler ==
  ASSUME TypeInv, SerialInv, NEW r \in Requests, NEW q, Becomes(r, q), UNCHANGED conns,
         HandlerSerial(r)'
  PROVE  SerialInv'
  <1>1. KeepsIdentity /\ ConnIds' = ConnIds /\ \A c \in ConnIds : Live(c)' = Live(c)
    BY DEF KeepsIdentity, ConnIds, Live
  <1>2. OneLiveForSerial'
    BY <1>1, NewestFrame DEF SerialInv
  <1>3. ASSUME NEW t \in Requests \ {r} PROVE HandlerSerial(t)'
    BY <1>1, BecomesAt, SerialFrame DEF Shrinks, SerialInv
  <1> QED BY <1>2, <1>3 DEF SerialInv

\* Handlers that answer know nothing any more.
LEMMA RespondSerial ==
  ASSUME TypeInv, SerialInv, NEW r \in Requests, Respond(r), UNCHANGED conns
  PROVE  SerialInv'
  <1>1. req'[r] = IdleRequest
    BY BecomesAt DEF Respond
  <1>2. HandlerSerial(r)'
    BY <1>1 DEF IdleRequest, HandlerSerial, UpToDate
  <1> QED BY <1>2, QuietHandler DEF Respond

\* connect: the lookup finds no row at all, or the newest one.
LEMMA LookupSerial ==
  ASSUME TypeInv, SerialInv, NEW r \in Requests, NEW s \in Servers, ConnectLookup(r, s)
  PROVE  SerialInv'
  <1>1. req[r] \in Request
    BY DEF TypeInv, TypeOK
  <1>2. CASE /\ RowsOf(Client[r], s) = {}
             /\ Becomes(r, [req[r] EXCEPT !.pc = "alloc", !.op = "connect", !.server = s])
    <2> DEFINE q == [req[r] EXCEPT !.pc = "alloc", !.op = "connect", !.server = s]
    <2>1. req'[r] = q
      BY <1>2, BecomesAt
    <2>2. q.pc = "alloc" /\ q.op = "connect" /\ q.server = s
      BY <1>1 DEF Request
    <2>3. RowsOf(Client[r], s)' = {}
      BY <1>2 DEF ConnectLookup, RowsOf, ConnIds
    <2> HIDE DEF q
    <2>4. HandlerSerial(r)'
      BY <2>1, <2>2, <2>3 DEF HandlerSerial, UpToDate
    <2> QED BY <1>2, <2>4, QuietHandler DEF ConnectLookup
  <1>3. ASSUME NEW c \in ConnIds, Newest(c, Client[r], s),
               Becomes(r, [req[r] EXCEPT !.pc = "reuse", !.op = "connect", !.server = s,
                             !.conn = c, !.wasActive = (conns[c].status = "ACTIVE")])
        PROVE  SerialInv'
    <2> DEFINE q == [req[r] EXCEPT !.pc = "reuse", !.op = "connect", !.server = s,
                             !.conn = c, !.wasActive = (conns[c].status = "ACTIVE")]
    <2>1. req'[r] = q
      BY <1>3, BecomesAt
    <2>2. q.pc = "reuse" /\ q.op = "connect" /\ q.conn = c
      BY <1>1 DEF Request
    <2>3. conns[c].server = s
      BY <1>3 DEF Newest, RowsOf
    <2>4. Newest(c, Client[r], conns[c].server)'
      BY <1>3, <2>3 DEF ConnectLookup, Newest, RowsOf, ConnIds
    <2>5. conns'[c].user = Client[r]
      BY <2>4 DEF Newest, RowsOf
    <2> HIDE DEF q
    <2>6. HandlerSerial(r)'
      BY <2>1, <2>2, <2>4, <2>5 DEF HandlerSerial, UpToDate
    <2> QED BY <1>3, <2>6, QuietHandler DEF ConnectLookup
  <1> QED BY <1>2, <1>3 DEF ConnectLookup

\* The allocator changes neither what the connect nor what the pool found.
LEMMA AllocateSerial ==
  ASSUME TypeInv, SerialInv, NEW r \in Requests, AllocateIp(r)
  PROVE  SerialInv'
  <1>1. req[r] \in Request
    BY DEF TypeInv, TypeOK
  <1>2. PICK i : Becomes(r, [req[r] EXCEPT !.pc = "insert", !.ip = i])
    BY DEF AllocateIp
  <1> DEFINE q == [req[r] EXCEPT !.pc = "insert", !.ip = i]
  <1>3. req'[r] = q
    BY <1>2, BecomesAt
  <1>4. /\ q.pc = "insert" /\ q.op = req[r].op /\ q.server = req[r].server
        /\ q.seen = req[r].seen
    BY <1>1 DEF Request
  <1> HIDE DEF q
  <1>5. HandlerSerial(r)'
    BY <1>3, <1>4 DEF SerialInv, HandlerSerial, UpToDate, AllocateIp, RowsOf, LiveOf, Live, ConnIds
  <1> QED BY <1>2, <1>5, QuietHandler DEF AllocateIp

\* The pool's loop.
LEMMA PoolSerial ==
  ASSUME TypeInv, SerialInv, NEW r \in Requests,
         PoolRead(r) \/ \E s \in Servers : PoolPick(r, s)
  PROVE  SerialInv'
  <1>1. req[r] \in Request
    BY DEF TypeInv, TypeOK
  <1>2. CASE PoolRead(r)
    <2> DEFINE seen == {conns[c].server : c \in LiveOf(Client[r])}
               n == Cardinality(LiveOf(Client[r]))
               q == [req[r] EXCEPT !.pc = "fill", !.op = "pool", !.seen = seen, !.count = n]
    <2>1. Becomes(r, q)
      BY <1>2 DEF PoolRead
    <2>2. req'[r] = q
      BY <2>1, BecomesAt
    <2>3. \A c \in LiveOf(Client[r])' : conns'[c].server \in seen
      BY <1>2 DEF PoolRead, LiveOf, Live, ConnIds
    <2> HIDE DEF seen, n
    <2>4. q.pc = "fill" /\ q.op = "pool" /\ q.seen = seen
      BY <1>1 DEF Request
    <2> HIDE DEF q
    <2>5. HandlerSerial(r)'
      BY <2>2, <2>3, <2>4 DEF HandlerSerial, UpToDate
    <2> QED BY <1>2, <2>1, <2>5, QuietHandler DEF PoolRead
  <1>3. ASSUME NEW s \in Servers, PoolPick(r, s) PROVE SerialInv'
    <2> DEFINE q == [req[r] EXCEPT !.pc = "alloc", !.server = s]
    <2>1. Becomes(r, q)
      BY <1>3 DEF PoolPick
    <2>2. req'[r] = q
      BY <2>1, BecomesAt
    <2>3. q.pc = "alloc" /\ q.op = req[r].op /\ q.server = s /\ q.seen = req[r].seen
      BY <1>1 DEF Request
    <2> HIDE DEF q
    <2>4. HandlerSerial(r)'
      BY <1>3, <2>2, <2>3 DEF SerialInv, HandlerSerial, UpToDate, PoolPick, LiveOf, Live, ConnIds
    <2> QED BY <1>3, <2>1, <2>4, QuietHandler DEF PoolPick
  <1> QED BY <1>2, <1>3

\* wg-manager calls.
LEMMA ServeSerial ==
  ASSUME TypeInv, SerialInv, NEW r \in Requests, AddPeer(r) \/ SetSpeed(r)
  PROVE  SerialInv'
  <1>1. req[r] \in Request
    BY DEF TypeInv, TypeOK
  <1>2. CASE Respond(r)
    BY <1>2, RespondSerial DEF AddPeer, SetSpeed
  <1>3. ASSUME AddPeer(r), Becomes(r, [req[r] EXCEPT !.pc = "speed"]) PROVE SerialInv'
    <2> DEFINE q == [req[r] EXCEPT !.pc = "speed"]
    <2>1. req'[r] = q
      BY <1>3, BecomesAt
    <2>2. q.pc = "speed" /\ q.op = req[r].op /\ q.seen = req[r].seen
      BY <1>1 DEF Request
    <2> HIDE DEF q
    <2>3. HandlerSerial(r)'
      BY <1>3, <2>1, <2>2 DEF SerialInv, HandlerSerial, UpToDate, AddPeer, LiveOf, Live, ConnIds
    <2> QED BY <1>3, <2>3, QuietHandler DEF AddPeer
  <1>4. ASSUME SetSpeed(r), req[r].op = "pool",
               Becomes(r, [req[r] EXCEPT !.pc = "fill", !.server = NoConn, !.ip = NoConn,
                             !.conn = NoConn])
        PROVE  SerialInv'
    <2> DEFINE q == [req[r] EXCEPT !.pc = "fill", !.server = NoConn, !.ip = NoConn,
                                   !.conn = NoConn]
    <2>1. req'[r] = q
      BY <1>4, BecomesAt
    <2>2. q.pc = "fill" /\ q.op = "pool" /\ q.seen = req[r].seen
      BY <1>1, <1>4 DEF Request
    <2> HIDE DEF q
    <2>3. HandlerSerial(r)'
      BY <1>4, <2>1, <2>2 DEF SerialInv, HandlerSerial, UpToDate, SetSpeed, LiveOf, Live, ConnIds
    <2> QED BY <1>4, <2>3, QuietHandler DEF SetSpeed
  <1> QED BY <1>2, <1>3, <1>4 DEF AddPeer, SetSpeed


\* A handler that is about to report, to answer or to fail knows nothing that
\* a later write depends on.
LEMMA ForgetSerial ==
  ASSUME TypeInv, SerialInv, NEW r \in Requests, NEW q, Becomes(r, q), UNCHANGED conns,
         q.pc \notin {"fill", "reuse", "alloc", "insert", "addPeer", "speed"}
  PROVE  SerialInv'
  <1>1. req'[r] = q
    BY BecomesAt
  <1>2. HandlerSerial(r)'
    BY <1>1 DEF HandlerSerial, UpToDate
  <1> QED BY <1>2, QuietHandler

\* The steps that touch neither rows nor pool keep the serial invariant.
LEMMA OtherReadsSerial ==
  ASSUME TypeInv, SerialInv, NEW r \in Requests,
         \/ Authenticate(r) \/ AllocateFails(r) \/ PoolReturn(r) \/ Fail(r)
         \/ \E i : ReportRead(r, i)
  PROVE  SerialInv'
  <1>1. req[r] \in Request
    BY DEF TypeInv, TypeOK
  <1>2. CASE Respond(r)
    BY <1>2, RespondSerial DEF Authenticate, AllocateFails, PoolReturn, Fail, ReportRead
  <1>3. CASE Authenticate(r)
    <2> DEFINE u == users[Client[r]]
               q == [req[r] EXCEPT !.pc = "authed", !.limited = Limited(u),
                                   !.premium = IsUserPremium(u),
                                   !.parity = IF Limited(u) THEN u.parity ELSE 0]
    <2>1. Becomes(r, q) /\ q.pc = "authed"
      BY <1>1, <1>3 DEF Authenticate, Request
    <2> QED BY <1>3, <2>1, ForgetSerial DEF Authenticate
  <1>4. CASE AllocateFails(r)
    <2>1. [req[r] EXCEPT !.pc = "exhausted"].pc = "exhausted"
      BY <1>1 DEF Request
    <2> QED BY <1>4, <2>1, ForgetSerial DEF AllocateFails
  <1>5. ASSUME NEW i, ReportRead(r, i) PROVE SerialInv'
    <2>1. \A c : [req[r] EXCEPT !.pc = "revoke", !.conn = c].pc = "revoke"
      BY <1>1 DEF Request
    <2>2. [req[r] EXCEPT !.pc = "multipleRows"].pc = "multipleRows"
      BY <1>1 DEF Request
    <2>3. ASSUME NEW c, Becomes(r, [req[r] EXCEPT !.pc = "revoke", !.conn = c]) PROVE SerialInv'
      BY <1>5, <2>1, <2>3, ForgetSerial DEF ReportRead
    <2>4. CASE Becomes(r, [req[r] EXCEPT !.pc = "multipleRows"])
      BY <1>5, <2>2, <2>4, ForgetSerial DEF ReportRead
    <2> QED BY <1>2, <1>5, <2>3, <2>4 DEF ReportRead
  <1> QED BY <1>2, <1>3, <1>4, <1>5 DEF PoolReturn, Fail

\* report-blocked: a row dies.
LEMMA RevokeSerial ==
  ASSUME TypeInv, SerialInv, NEW r \in Requests, ReportRevoke(r)
  PROVE  SerialInv'
  <1> DEFINE c == req[r].conn
  <1>1. c \in ConnIds /\ ConnIds' = ConnIds /\ conns[c] \in Conn
    BY RowType DEF TypeInv, HandlerOK, LocalOK, ReportRevoke, ConnIds
  <1>2. KeepsIdentity
    BY StepTable DEF Next, Handler
  <1>3. \A d \in ConnIds : Live(d)' => Live(d)
    <2>1. \A d \in ConnIds \ {c} : conns'[d] = conns[d]
      BY <1>1 DEF ReportRevoke, ConnIds
    <2>2. conns'[c].status = "REVOKED"
      BY <1>1 DEF ReportRevoke, ConnIds, Conn
    <2> QED BY <2>1, <2>2 DEF Live
  <1>4. OneLiveForSerial'
    BY <1>1, <1>2, <1>3, NewestFrame DEF SerialInv
  <1>5. ASSUME NEW t \in Requests \ {r} PROVE HandlerSerial(t)'
    BY <1>1, <1>2, <1>3, BecomesAt, SerialFrame DEF Shrinks, SerialInv, ReportRevoke, Respond
  <1>6. HandlerSerial(r)'
    BY BecomesAt DEF ReportRevoke, Respond, IdleRequest, HandlerSerial, UpToDate
  <1> QED BY <1>4, <1>5, <1>6 DEF SerialInv

\* connect, reactivating the row its lookup found: still the newest.
LEMMA ReuseSerial ==
  ASSUME TypeInv, SerialInv, NEW r \in Requests, ConnectReuse(r)
  PROVE  SerialInv'
  <1> DEFINE c == req[r].conn
             q == [req[r] EXCEPT !.pc = "addPeer", !.ip = conns[c].ip]
  <1>1. c \in ConnIds /\ ConnIds' = ConnIds /\ req[r] \in Request
    BY DEF TypeInv, TypeOK, HandlerOK, LocalOK, ConnectReuse, ConnIds
  <1>2. KeepsIdentity
    BY StepTable DEF Next, Handler
  <1>3. Client[r] \in SerialUsers => Newest(c, Client[r], conns[c].server) /\ req[r].op = "connect"
    BY DEF SerialInv, HandlerSerial, UpToDate, ConnectReuse
  <1>4. conns[c].user = Client[r]
    BY DEF SerialInv, HandlerSerial, ConnectReuse
  <1>5. \A d \in ConnIds \ {c} : Live(d)' = Live(d)
    BY <1>1 DEF ConnectReuse, Live, ConnIds
  <1>6. OneLiveForSerial'
    BY <1>1, <1>2, <1>3, <1>4, <1>5, NewestFrame DEF SerialInv
  <1>7. Becomes(r, q)
    BY DEF ConnectReuse
  <1>8. q.pc = "addPeer" /\ q.op = req[r].op
    BY <1>1 DEF Request
  <1> HIDE DEF q
  <1>9. HandlerSerial(r)'
    BY <1>3, <1>7, <1>8, BecomesAt DEF HandlerSerial, UpToDate
  <1>10. ASSUME NEW t \in Requests \ {r} PROVE HandlerSerial(t)'
    <2>1. Client[t] \in SerialUsers => Client[t] # conns[c].user
      BY <1>4 DEF SerialUsers
    <2>2. Client[t] \in SerialUsers => Shrinks(Client[t])
      BY <1>1, <1>2, <1>5, <2>1 DEF Shrinks, KeepsIdentity
    <2> QED BY <1>2, <1>7, <2>2, BecomesAt, SerialFrame DEF SerialInv
  <1> QED BY <1>6, <1>9, <1>10 DEF SerialInv

\* The row a handler inserts is its user's only live one on that server.
LEMMA InsertSerial ==
  ASSUME TypeInv, SerialInv, NEW r \in Requests,
         ConnectInsert(r) \/ PoolInsert(r)
  PROVE  SerialInv'
  <1> DEFINE n == Len(conns) + 1
             s == req[r].server
  <1>1. req[r] \in Request /\ n \in Nat /\ ConnIds = 1..Len(conns) /\ Len(conns) \in Nat
    BY RowType DEF TypeInv, TypeOK
  <1>2. PICK row \in Conn : /\ conns' = Append(conns, row)
                            /\ row.user = Client[r] /\ row.server = s
    <2>1. CASE ConnectInsert(r)
      <3>1. NewRow(r, "ACTIVE", "fresh") \in Conn
        BY <2>1, NewRowType DEF ConnectInsert, Status, Age
      <3> QED BY <2>1, <3>1 DEF ConnectInsert, NewRow
    <2>2. CASE PoolInsert(r)
      <3>1. NewRow(r, "STANDBY", "never") \in Conn
        BY <2>2, NewRowType DEF PoolInsert, Status, Age
      <3> QED BY <2>2, <3>1 DEF PoolInsert, NewRow
    <2> QED BY <2>1, <2>2
  <1>3. ConnIds' = ConnIds \cup {n} /\ conns'[n] = row /\ \A c \in ConnIds : conns'[c] = conns[c]
    BY <1>2, InsertRow DEF TypeInv
  <1>4. KeepsIdentity
    BY StepTable DEF Next, Handler
  <1>5. \A c \in ConnIds : Live(c)' = Live(c)
    BY <1>3 DEF Live
  <1>6. Client[r] \in SerialUsers => \A c \in LiveOf(Client[r]) : conns[c].server # s
    <2>1. CASE ConnectInsert(r)
      BY <2>1 DEF ConnectInsert, SerialInv, HandlerSerial, UpToDate, RowsOf, LiveOf
    <2>2. CASE PoolInsert(r)
      BY <2>2 DEF PoolInsert, SerialInv, HandlerSerial, UpToDate
    <2> QED BY <2>1, <2>2
  <1>7. OneLiveForSerial'
    <2> SUFFICES ASSUME NEW c \in ConnIds', conns'[c].user \in SerialUsers, Live(c)'
                 PROVE  Newest(c, conns[c].user, conns[c].server)'
      BY DEF OneLiveForSerial
    <2>1. CASE c = n
      BY <1>1, <1>2, <1>3, <2>1 DEF Newest, RowsOf
    <2>2. CASE c \in ConnIds
      <3>1. Live(c) /\ Newest(c, conns[c].user, conns[c].server)
        BY <1>3, <1>5, <2>2 DEF SerialInv, OneLiveForSerial
      <3>2. ~(conns[c].user = Client[r] /\ conns[c].server = s)
        BY <1>3, <1>6, <2>2, <3>1 DEF LiveOf
      <3> QED BY <1>2, <1>3, <2>2, <3>1, <3>2 DEF Newest, RowsOf
    <2> QED BY <1>3, <2>1, <2>2
  <1>8. HandlerSerial(r)'
    <2>1. CASE ConnectInsert(r)
      <3> DEFINE q == [req[r] EXCEPT !.pc = "addPeer", !.conn = n]
      <3>1. Becomes(r, q) /\ q.pc = "addPeer" /\ q.op = "connect"
        BY <1>1, <2>1 DEF ConnectInsert, Request
      <3> HIDE DEF q
      <3> QED BY <3>1, BecomesAt DEF HandlerSerial, UpToDate
    <2>2. CASE PoolInsert(r)
      <3> DEFINE q == [req[r] EXCEPT !.pc = "addPeer", !.conn = n,
                                     !.seen = @ \cup {req[r].server}, !.count = @ + 1]
      <3>1. Becomes(r, q)
        BY <2>2 DEF PoolInsert
      <3>2. q.pc = "addPeer" /\ q.seen = req[r].seen \cup {s}
        BY <1>1 DEF Request
      <3>3. Client[r] \in SerialUsers
              => \A c \in LiveOf(Client[r]) : conns[c].server \in req[r].seen
        BY <2>2 DEF PoolInsert, SerialInv, HandlerSerial, UpToDate
      <3>4. Client[r] \in SerialUsers
              => \A c \in LiveOf(Client[r])' : conns'[c].server \in req[r].seen \cup {s}
        BY <1>2, <1>3, <1>5, <3>3 DEF LiveOf
      <3> HIDE DEF q
      <3> QED BY <3>1, <3>2, <3>4, BecomesAt DEF HandlerSerial, UpToDate
    <2> QED BY <2>1, <2>2
  <1>9. ASSUME NEW t \in Requests \ {r} PROVE HandlerSerial(t)'
    <2>1. Client[t] \in SerialUsers => Client[t] # Client[r]
      BY DEF SerialUsers
    <2>2. Client[t] \in SerialUsers => Shrinks(Client[t])
      BY <1>2, <1>3, <1>5, <2>1 DEF Shrinks
    <2>3. req'[t] = req[t]
      BY BecomesAt DEF ConnectInsert, PoolInsert
    <2> QED BY <1>4, <2>2, <2>3, SerialFrame DEF SerialInv
  <1> QED BY <1>7, <1>8, <1>9 DEF SerialInv

\* Every step keeps the serial invariant.
LEMMA StepSerial == TypeInv /\ SerialInv /\ [Next]_vars => SerialInv'
  <1> SUFFICES ASSUME TypeInv, SerialInv, [Next]_vars PROVE SerialInv'
    OBVIOUS
  <1>1. ASSUME NEW r \in Requests, Handler(r) PROVE SerialInv'
    BY <1>1, LookupSerial, AllocateSerial, PoolSerial, ServeSerial, OtherReadsSerial,
       RevokeSerial, ReuseSerial, InsertSerial DEF Handler, SmartConnect
  <1> QED BY <1>1, BackgroundSerial DEF Next

\* Whatever requests of other users overlap, and whatever the watchdog, the
\* healer, wg-manager and restarts do, a user who sends one request at a time has
\* at most one usable configuration on a server, and connect finds it.
THEOREM OneLiveRowOfSerialUser == Spec => []OneLiveForSerial
  <1>1. Init => SerialInv
    BY DEF Init, IdleRequest, SerialInv, OneLiveForSerial, HandlerSerial, UpToDate, ConnIds
  <1>2. TypeInv /\ SerialInv /\ [Next]_vars => SerialInv'
    BY StepSerial
  <1>3. Spec => []TypeInv
    BY InitTypeInv, StepTypeInv, PTL DEF Spec
  <1>4. Spec => []SerialInv
    BY <1>1, <1>2, <1>3, PTL DEF Spec
  <1> QED BY <1>4, PTL DEF SerialInv

\* So if all clients send one request at a time, every user has at most one usable
\* configuration on a server, and connect finds it.
THEOREM AtMostOneLiveRow == SerialClients => (Spec => []OneLivePerServer)
  <1> SUFFICES ASSUME SerialClients PROVE Spec => []OneLivePerServer
    OBVIOUS
  <1>1. SerialUsers = Users
    BY DEF SerialUsers, SerialClients
  <1>2. TypeOK /\ OneLiveForSerial => OneLivePerServer
    <2> SUFFICES ASSUME TypeOK, OneLiveForSerial, NEW c \in ConnIds, Live(c)
                 PROVE  Newest(c, conns[c].user, conns[c].server)
      BY DEF OneLivePerServer
    <2>1. conns[c].user \in Users
      BY RowType DEF Conn
    <2> QED BY <1>1, <2>1 DEF OneLiveForSerial
  <1> QED BY <1>2, TypeCorrect, OneLiveRowOfSerialUser, PTL

-----------------------------------------------------------------------------
(* Every active row is served.                                             *)

\* The handler is going to set the speed of row c, or to register its peer.
Speeding(r, c) ==
  req[r].conn = c /\ ~req[r].wasActive /\ req[r].pc \in {"addPeer", "speed"}

Adding(r, c) == req[r].conn = c /\ req[r].pc = "addPeer"

HasSpeed(c) == speed[conns[c].ip] # "none" \/ \E r \in Requests : Speeding(r, c)

HasPeer(c) ==
  c \in peers \/ c \in watchdog.rows \/ \E r \in Requests : Adding(r, c)

\* A handler that takes a row it did not find ACTIVE does not skip the speed limit,
\* and the limit it sets is that of the row's address.
HandlerServed(r) ==
  /\ req[r].pc \in {"idle", "authed", "alloc", "insert", "fill", "speed"} => ~req[r].wasActive
  /\ req[r].pc \in {"addPeer", "speed"} => req[r].ip = conns[req[r].conn].ip

\* The watchdog removes the peers of the rows it is going to revoke, and no others.
WatchdogServed ==
  watchdog.todo \subseteq watchdog.rows /\ (watchdog.pc = "idle" => watchdog.rows = {})

ServedInv ==
  /\ \A r \in Requests : HandlerServed(r)
  /\ WatchdogServed
  /\ \A c \in ConnIds : conns[c].status = "ACTIVE" => HasSpeed(c) /\ HasPeer(c)

\* Nothing is served at first.
LEMMA InitServed == Init => ServedInv
  BY DEF Init, ServedInv, HandlerServed, WatchdogServed, IdleRequest, IdleWatchdog, ConnIds

\* A handler that is not serving and does not start to changes nothing here.
LEMMA MoveServed ==
  ASSUME TypeInv, ServedInv, NEW r \in Requests, NEW q, Becomes(r, q),
         UNCHANGED <<conns, peers, speed, watchdog>>,
         req[r].pc \notin {"addPeer", "speed"}, q.pc \notin {"addPeer", "speed"},
         q.pc \in {"idle", "authed", "alloc", "insert", "fill", "speed"} => ~q.wasActive
  PROVE  ServedInv'
  <1>1. req'[r] = q /\ \A t \in Requests \ {r} : req'[t] = req[t]
    BY BecomesAt
  <1>2. ConnIds' = ConnIds
    BY DEF ConnIds
  <1>3. \A t \in Requests : HandlerServed(t)'
    BY <1>1 DEF ServedInv, HandlerServed
  <1>4. \A c \in ConnIds : (HasSpeed(c) => HasSpeed(c)') /\ (HasPeer(c) => HasPeer(c)')
    BY <1>1 DEF HasSpeed, HasPeer, Speeding, Adding
  <1>5. WatchdogServed'
    BY DEF ServedInv, WatchdogServed
  <1> QED BY <1>2, <1>3, <1>4, <1>5 DEF ServedInv

\* The steps of a handler before it writes a row, and those that answer.
LEMMA ReadingServed ==
  ASSUME TypeInv, ServedInv, NEW r \in Requests,
         \/ Authenticate(r) \/ AllocateIp(r) \/ AllocateFails(r) \/ PoolRead(r)
         \/ PoolReturn(r) \/ Fail(r) \/ (\E i : ReportRead(r, i))
         \/ (\E s \in Servers : ConnectLookup(r, s) \/ PoolPick(r, s))
  PROVE  ServedInv'
  <1>1. /\ UNCHANGED <<conns, peers, speed, watchdog>>
        /\ req[r].pc \notin {"addPeer", "speed"}
    BY DEF Authenticate, AllocateIp, AllocateFails, PoolRead, PoolReturn, Fail, ReportRead,
           ConnectLookup, PoolPick
  <1>2. req[r] \in Request /\ HandlerServed(r)
    BY DEF TypeInv, TypeOK, ServedInv
  <1>3. IdleRequest.pc = "idle" /\ ~IdleRequest.wasActive
    BY DEF IdleRequest
  <1>4. CASE Respond(r)
    BY <1>1, <1>3, <1>4, MoveServed DEF Respond
  <1>5. CASE Authenticate(r)
    <2>1. PICK limited, premium, parity :
            Becomes(r, [req[r] EXCEPT !.pc = "authed", !.limited = limited,
                                      !.premium = premium, !.parity = parity])
      BY <1>5 DEF Authenticate
    <2> DEFINE q == [req[r] EXCEPT !.pc = "authed", !.limited = limited,
                                   !.premium = premium, !.parity = parity]
    <2>2. q.pc = "authed" /\ q.wasActive = req[r].wasActive
      BY <1>2 DEF Request
    <2>3. ~req[r].wasActive
      BY <1>2, <1>5 DEF Authenticate, HandlerServed
    <2> QED BY <1>1, <2>1, <2>2, <2>3, MoveServed
  <1>6. ASSUME NEW s \in Servers, ConnectLookup(r, s) PROVE ServedInv'
    <2>1. ~req[r].wasActive
      BY <1>2, <1>6 DEF ConnectLookup, HandlerServed
    <2>2. CASE Becomes(r, [req[r] EXCEPT !.pc = "alloc", !.op = "connect", !.server = s])
      <3> DEFINE q == [req[r] EXCEPT !.pc = "alloc", !.op = "connect", !.server = s]
      <3>1. q.pc = "alloc" /\ q.wasActive = req[r].wasActive
        BY <1>2 DEF Request
      <3> QED BY <1>1, <2>1, <2>2, <3>1, MoveServed
    <2>3. ASSUME NEW c \in ConnIds,
                 Becomes(r, [req[r] EXCEPT !.pc = "reuse", !.op = "connect", !.server = s,
                               !.conn = c, !.wasActive = (conns[c].status = "ACTIVE")])
          PROVE  ServedInv'
      <3> DEFINE q == [req[r] EXCEPT !.pc = "reuse", !.op = "connect", !.server = s,
                               !.conn = c, !.wasActive = (conns[c].status = "ACTIVE")]
      <3>1. q.pc = "reuse"
        BY <1>2 DEF Request
      <3> HIDE DEF q
      <3> QED BY <1>1, <2>3, <3>1, MoveServed DEF q
    <2> QED BY <1>6, <2>2, <2>3 DEF ConnectLookup
  <1>7. CASE AllocateIp(r)
    <2>1. PICK i : Becomes(r, [req[r] EXCEPT !.pc = "insert", !.ip = i])
      BY <1>7 DEF AllocateIp
    <2> DEFINE q == [req[r] EXCEPT !.pc = "insert", !.ip = i]
    <2>2. q.pc = "insert" /\ q.wasActive = req[r].wasActive
      BY <1>2 DEF Request
    <2>3. ~req[r].wasActive
      BY <1>2, <1>7 DEF AllocateIp, HandlerServed
    <2> QED BY <1>1, <2>1, <2>2, <2>3, MoveServed
  <1>8. CASE AllocateFails(r)
    <2> DEFINE q == [req[r] EXCEPT !.pc = "exhausted"]
    <2>1. q.pc = "exhausted"
      BY <1>2 DEF Request
    <2>2. Becomes(r, q)
      BY <1>8 DEF AllocateFails
    <2> QED BY <1>1, <2>1, <2>2, MoveServed
  <1>9. CASE PoolRead(r)
    <2>1. PICK seen, n : Becomes(r, [req[r] EXCEPT !.pc = "fill", !.op = "pool",
                                                   !.seen = seen, !.count = n])
      BY <1>9 DEF PoolRead
    <2> DEFINE q == [req[r] EXCEPT !.pc = "fill", !.op = "pool", !.seen = seen, !.count = n]
    <2>2. q.pc = "fill" /\ q.wasActive = req[r].wasActive
      BY <1>2 DEF Request
    <2>3. ~req[r].wasActive
      BY <1>2, <1>9 DEF PoolRead, HandlerServed
    <2> QED BY <1>1, <2>1, <2>2, <2>3, MoveServed
  <1>10. ASSUME NEW s \in Servers, PoolPick(r, s) PROVE ServedInv'
    <2> DEFINE q == [req[r] EXCEPT !.pc = "alloc", !.server = s]
    <2>1. q.pc = "alloc" /\ q.wasActive = req[r].wasActive
      BY <1>2 DEF Request
    <2>2. Becomes(r, q) /\ ~req[r].wasActive
      BY <1>2, <1>10 DEF PoolPick, HandlerServed
    <2> QED BY <1>1, <2>1, <2>2, MoveServed
  <1>11. ASSUME NEW i, ReportRead(r, i) PROVE ServedInv'
    <2>1. ASSUME NEW c, Becomes(r, [req[r] EXCEPT !.pc = "revoke", !.conn = c])
          PROVE  ServedInv'
      <3> DEFINE q == [req[r] EXCEPT !.pc = "revoke", !.conn = c]
      <3>1. q.pc = "revoke"
        BY <1>2 DEF Request
      <3> QED BY <1>1, <2>1, <3>1, MoveServed
    <2>2. CASE Becomes(r, [req[r] EXCEPT !.pc = "multipleRows"])
      <3> DEFINE q == [req[r] EXCEPT !.pc = "multipleRows"]
      <3>1. q.pc = "multipleRows"
        BY <1>2 DEF Request
      <3> QED BY <1>1, <2>2, <3>1, MoveServed
    <2> QED BY <1>4, <1>11, <2>1, <2>2 DEF ReportRead
  <1> QED BY <1>4, <1>5, <1>6, <1>7, <1>8, <1>9, <1>10, <1>11 DEF PoolReturn, Fail

\* A handler that writes the row it goes on to serve, whether it made the row ACTIVE
\* or refreshed it, leaves every active row served.
LEMMA WriteServed ==
  ASSUME TypeInv, ServedInv, KeepsIdentity, NEW r \in Requests, NEW q, Becomes(r, q),
         UNCHANGED <<peers, speed, watchdog>>,
         req[r].pc \notin {"addPeer", "speed"}, q.pc = "addPeer",
         NEW c \in ConnIds', q.conn = c, q.ip = conns'[c].ip,
         ConnIds' = ConnIds \cup {c},
         \A d \in ConnIds \ {c} : conns'[d] = conns[d],
         conns'[c].status = "ACTIVE" =>
           ~q.wasActive \/ (c \in ConnIds /\ conns[c].status = "ACTIVE")
  PROVE  ServedInv'
  <1>1. req'[r] = q /\ \A t \in Requests \ {r} : req'[t] = req[t]
    BY BecomesAt
  <1>2. ASSUME NEW t \in Requests PROVE HandlerServed(t)'
    <2>1. CASE t = r
      BY <1>1, <2>1 DEF HandlerServed
    <2>2. CASE t # r
      <3>1. req[t].pc \in {"addPeer", "speed"} => req[t].conn \in ConnIds
        BY DEF TypeInv, HandlerOK, LocalOK
      <3> QED BY <1>1, <2>2, <3>1 DEF ServedInv, HandlerServed, KeepsIdentity
    <2> QED BY <2>1, <2>2
  <1>3. WatchdogServed'
    BY DEF ServedInv, WatchdogServed
  <1>4. ASSUME NEW d \in ConnIds PROVE (HasSpeed(d) => HasSpeed(d)') /\ (HasPeer(d) => HasPeer(d)')
    <2>1. conns'[d].ip = conns[d].ip
      BY DEF KeepsIdentity
    <2> QED BY <1>1, <2>1 DEF HasSpeed, HasPeer, Speeding, Adding
  <1>5. HasPeer(c)'
    BY <1>1 DEF HasPeer, Adding
  <1>6. conns'[c].status = "ACTIVE" => HasSpeed(c)'
    <2>1. CASE ~q.wasActive
      BY <1>1, <2>1 DEF HasSpeed, Speeding
    <2>2. CASE c \in ConnIds /\ conns[c].status = "ACTIVE"
      BY <1>4, <2>2 DEF ServedInv
    <2> QED BY <2>1, <2>2
  <1> QED BY <1>2, <1>3, <1>4, <1>5, <1>6 DEF ServedInv

\* The three steps that write a row to serve.
LEMMA WritingServed ==
  ASSUME TypeInv, ServedInv, NEW r \in Requests,
         ConnectInsert(r) \/ PoolInsert(r) \/ ConnectReuse(r)
  PROVE  ServedInv'
  <1>1. KeepsIdentity
    BY StepTable DEF Next, Handler
  <1>2. req[r] \in Request /\ HandlerServed(r) /\ LocalOK(req[r], ConnIds)
    BY DEF TypeInv, TypeOK, HandlerOK, ServedInv
  <1>3. CASE ConnectInsert(r)
    <2>1. PICK n : n = Len(conns) + 1
      OBVIOUS
    <2> DEFINE q == [req[r] EXCEPT !.pc = "addPeer", !.conn = n]
    <2>2. NewRow(r, "ACTIVE", "fresh") \in Conn
      BY <1>3, NewRowType DEF ConnectInsert, Status, Age
    <2>3. /\ ConnIds' = ConnIds \cup {n} /\ conns'[n] = NewRow(r, "ACTIVE", "fresh")
          /\ \A d \in ConnIds : conns'[d] = conns[d]
      BY <1>3, <2>1, <2>2, InsertRow DEF ConnectInsert, TypeInv
    <2>4. conns'[n].ip = req[r].ip
      BY <2>3 DEF NewRow
    <2>5. /\ q.pc = "addPeer" /\ q.conn = n /\ q.ip = req[r].ip
          /\ q.wasActive = req[r].wasActive
      BY <1>2 DEF Request
    <2>6. /\ Becomes(r, q) /\ req[r].pc = "insert" /\ ~req[r].wasActive
          /\ UNCHANGED <<peers, speed, watchdog>>
      BY <1>2, <1>3, <2>1 DEF ConnectInsert, HandlerServed
    <2> HIDE DEF q
    <2> QED BY <1>1, <2>3, <2>4, <2>5, <2>6, WriteServed
  <1>4. CASE PoolInsert(r)
    <2>1. PICK n, seen, count : n = Len(conns) + 1 /\ seen = req[r].seen \cup {req[r].server}
                                /\ count = req[r].count + 1
      OBVIOUS
    <2> DEFINE q == [req[r] EXCEPT !.pc = "addPeer", !.conn = n, !.seen = seen, !.count = count]
    <2>2. NewRow(r, "STANDBY", "never") \in Conn
      BY <1>4, NewRowType DEF PoolInsert, Status, Age
    <2>3. /\ ConnIds' = ConnIds \cup {n} /\ conns'[n] = NewRow(r, "STANDBY", "never")
          /\ \A d \in ConnIds : conns'[d] = conns[d]
      BY <1>4, <2>1, <2>2, InsertRow DEF PoolInsert, TypeInv
    <2>4. conns'[n].ip = req[r].ip
      BY <2>3 DEF NewRow
    <2>5. /\ q.pc = "addPeer" /\ q.conn = n /\ q.ip = req[r].ip
          /\ q.wasActive = req[r].wasActive
      BY <1>2 DEF Request
    <2>6. /\ Becomes(r, q) /\ req[r].pc = "insert" /\ ~req[r].wasActive
          /\ UNCHANGED <<peers, speed, watchdog>>
      BY <1>2, <1>4, <2>1 DEF PoolInsert, HandlerServed
    <2> HIDE DEF q
    <2> QED BY <1>1, <2>3, <2>4, <2>5, <2>6, WriteServed
  <1>5. CASE ConnectReuse(r)
    <2>1. PICK c : c = req[r].conn
      OBVIOUS
    <2>2. c \in ConnIds /\ conns[c] \in Conn /\ conns \in [ConnIds -> Conn]
      BY <1>2, <1>5, <2>1, RowType DEF ConnectReuse, LocalOK, TypeInv
    <2> DEFINE q == [req[r] EXCEPT !.pc = "addPeer", !.ip = conns[c].ip]
               row == [conns[c] EXCEPT
                         !.status = IF req[r].wasActive THEN conns[c].status ELSE "ACTIVE",
                         !.lastUsed = "fresh"]
    <2>3. /\ Becomes(r, q) /\ conns' = [conns EXCEPT ![c] = row] /\ req[r].pc = "reuse"
          /\ UNCHANGED <<peers, speed, watchdog>>
      BY <1>5, <2>1 DEF ConnectReuse
    <2>4. /\ q.pc = "addPeer" /\ q.conn = c /\ q.ip = conns[c].ip
          /\ q.wasActive = req[r].wasActive
      BY <1>2, <2>1 DEF Request
    <2>5. row.ip = conns[c].ip /\ (req[r].wasActive => row.status = conns[c].status)
      BY <2>2 DEF Conn
    <2> HIDE DEF q, row
    <2>6. /\ ConnIds' = ConnIds /\ conns'[c] = row
          /\ \A d \in ConnIds \ {c} : conns'[d] = conns[d]
      BY <2>2, <2>3 DEF ConnIds
    <2> QED BY <1>1, <2>2, <2>3, <2>4, <2>5, <2>6, WriteServed
  <1> QED BY <1>3, <1>4, <1>5

\* Registering the peer and setting the limit, while wg-manager answers.
LEMMA CallsServed ==
  ASSUME ~WgMayFail, TypeInv, ServedInv, NEW r \in Requests, AddPeer(r) \/ SetSpeed(r)
  PROVE  ServedInv'
  <1>1. req[r] \in Request /\ HandlerServed(r) /\ LocalOK(req[r], ConnIds)
    BY DEF TypeInv, TypeOK, HandlerOK, ServedInv
  <1>2. ConnIds' = ConnIds /\ UNCHANGED <<conns, watchdog>>
    BY DEF AddPeer, SetSpeed, ConnIds
  <1>3. IdleRequest.pc = "idle" /\ ~IdleRequest.wasActive
    BY DEF IdleRequest
  <1>4. WatchdogServed'
    BY <1>2 DEF ServedInv, WatchdogServed
  <1>5. PICK c : c = req[r].conn
    OBVIOUS
  <1>6. CASE AddPeer(r)
    <2> DEFINE new == IF req[r].wasActive THEN IdleRequest ELSE [req[r] EXCEPT !.pc = "speed"]
    <2>1. PICK q : q = new
      OBVIOUS
    <2>2. Becomes(r, q) /\ peers' = peers \cup {c} /\ UNCHANGED speed /\ req[r].pc = "addPeer"
      BY <1>5, <1>6, <2>1 DEF AddPeer, Respond
    <2>3. \/ req[r].wasActive /\ q = IdleRequest
          \/ /\ ~req[r].wasActive /\ q.pc = "speed" /\ q.conn = c /\ ~q.wasActive
             /\ q.ip = req[r].ip
      BY <1>1, <1>5, <2>1 DEF Request
    <2>4. req'[r] = q /\ \A t \in Requests \ {r} : req'[t] = req[t]
      BY <2>2, BecomesAt
    <2> HIDE DEF new
    <2>5. \A t \in Requests : HandlerServed(t)'
      BY <1>1, <1>2, <1>3, <1>5, <2>2, <2>3, <2>4 DEF ServedInv, HandlerServed
    <2>6. \A d \in ConnIds : HasSpeed(d) => HasSpeed(d)'
      BY <1>2, <2>2, <2>3, <2>4, <1>5 DEF HasSpeed, Speeding
    <2>7. \A d \in ConnIds : HasPeer(d) => HasPeer(d)'
      BY <1>2, <1>5, <2>2, <2>4 DEF HasPeer, Adding
    <2> QED BY <1>2, <1>4, <2>5, <2>6, <2>7 DEF ServedInv
  <1>7. CASE SetSpeed(r)
    <2> DEFINE new == IF req[r].op = "pool"
                      THEN [req[r] EXCEPT !.pc = "fill", !.server = NoConn, !.ip = NoConn,
                                          !.conn = NoConn]
                      ELSE IdleRequest
    <2>1. PICK q : q = new
      OBVIOUS
    <2>2. /\ Becomes(r, q) /\ speed' = [speed EXCEPT ![req[r].ip] = SpeedTier(r)]
          /\ UNCHANGED peers /\ req[r].pc = "speed"
      BY <1>7, <2>1 DEF SetSpeed, Respond
    <2>3. \/ q = IdleRequest
          \/ q.pc = "fill" /\ q.wasActive = req[r].wasActive
      BY <1>1, <2>1 DEF Request
    <2>4. req'[r] = q /\ \A t \in Requests \ {r} : req'[t] = req[t]
      BY <2>2, BecomesAt
    <2> HIDE DEF new
    <2>5. ~req[r].wasActive
      BY <1>1, <2>2 DEF HandlerServed
    <2>6. \A t \in Requests : HandlerServed(t)'
      BY <1>2, <1>3, <2>3, <2>4, <2>5 DEF ServedInv, HandlerServed
    <2>7. speed \in [IPs -> Tier] /\ req[r].ip = conns[c].ip /\ SpeedTier(r) # "none"
          /\ req[r].ip \in IPs
      BY <1>1, <1>5, <2>2 DEF TypeInv, TypeOK, HandlerServed, SpeedTier, LocalOK
    <2>8. \A d \in ConnIds : HasSpeed(d) => HasSpeed(d)'
      <3> SUFFICES ASSUME NEW d \in ConnIds, HasSpeed(d) PROVE HasSpeed(d)'
        OBVIOUS
      <3>1. CASE conns[d].ip = conns[c].ip
        BY <1>2, <2>2, <2>7, <3>1 DEF HasSpeed
      <3>2. CASE conns[d].ip # conns[c].ip
        BY <1>2, <1>5, <2>2, <2>4, <2>7, <3>2 DEF HasSpeed, Speeding
      <3> QED BY <3>1, <3>2
    <2>9. \A d \in ConnIds : HasPeer(d) => HasPeer(d)'
      BY <1>2, <2>2, <2>4 DEF HasPeer, Adding
    <2> QED BY <1>2, <1>4, <2>6, <2>8, <2>9 DEF ServedInv
  <1> QED BY <1>6, <1>7

\* A step that makes no row ACTIVE and takes nothing from one that stays ACTIVE.
LEMMA FrameServed ==
  ASSUME TypeInv, ServedInv, KeepsIdentity, ConnIds' = ConnIds,
         \A t \in Requests : req'[t] = req[t], UNCHANGED speed, WatchdogServed',
         \A c \in ConnIds : conns'[c].status = "ACTIVE" =>
           /\ conns[c].status = "ACTIVE"
           /\ c \in peers \cup watchdog.rows => c \in peers' \cup watchdog'.rows
  PROVE  ServedInv'
  <1>1. \A t \in Requests : HandlerServed(t)'
    BY DEF TypeInv, HandlerOK, LocalOK, ServedInv, HandlerServed, KeepsIdentity
  <1>2. ASSUME NEW c \in ConnIds, conns'[c].status = "ACTIVE" PROVE HasSpeed(c)' /\ HasPeer(c)'
    BY <1>2 DEF ServedInv, HasSpeed, HasPeer, Speeding, Adding, KeepsIdentity
  <1> QED BY <1>1, <1>2 DEF ServedInv

\* The watchdog, the healer and the users leave every active row served: the watchdog
\* revokes each row whose peer it removes.
LEMMA BackgroundServed ==
  ASSUME TypeInv, ServedInv,
         Entitlement \/ (\E u \in Users : HealPool(u)) \/ Watchdog \/ UNCHANGED vars
  PROVE  ServedInv'
  <1>1. KeepsIdentity
    BY StepTable DEF Next
  <1>2. /\ ConnIds' = ConnIds /\ UNCHANGED <<req, speed>>
        /\ \A c \in ConnIds : conns[c] \in Conn
        /\ conns \in [ConnIds -> Conn]
    BY RowType
       DEF Entitlement, TrialEnds, GrantPremium, PremiumLapses, SessionAges, HealPool,
           Watchdog, WatchdogSelect, WatchdogRemove, WatchdogCommit, vars, ConnIds, TypeInv
  <1>3. CASE UNCHANGED <<conns, peers, watchdog>>
    <2>1. WatchdogServed'
      BY <1>3 DEF ServedInv, WatchdogServed
    <2> QED BY <1>1, <1>2, <1>3, <2>1, FrameServed
  <1>4. ASSUME NEW d \in ConnIds, SessionAges(d) PROVE ServedInv'
    <2>1. \A c \in ConnIds : conns'[c].status = conns[c].status
      BY <1>2, <1>4 DEF SessionAges, Conn
    <2>2. WatchdogServed' /\ UNCHANGED <<peers, watchdog>>
      BY <1>4 DEF SessionAges, ServedInv, WatchdogServed
    <2> QED BY <1>1, <1>2, <2>1, <2>2, FrameServed
  <1>5. CASE WatchdogSelect
    <2>1. WatchdogServed' /\ watchdog.rows = {} /\ UNCHANGED <<conns, peers>>
      BY <1>5 DEF WatchdogSelect, ServedInv, WatchdogServed
    <2> QED BY <1>1, <1>2, <2>1, FrameServed
  <1>6. ASSUME NEW d \in watchdog.todo, WatchdogRemove(d) PROVE ServedInv'
    <2>1. /\ watchdog'.rows = watchdog.rows /\ watchdog'.pc = watchdog.pc
          /\ watchdog'.todo = watchdog.todo \ {d}
          /\ UNCHANGED conns /\ peers \ {d} \subseteq peers'
      BY <1>6 DEF WatchdogRemove, TypeInv, TypeOK
    <2>2. WatchdogServed' /\ d \in watchdog.rows
      BY <2>1 DEF ServedInv, WatchdogServed
    <2> QED BY <1>1, <1>2, <2>1, <2>2, FrameServed
  <1>7. CASE WatchdogCommit
    <2>1. \A c \in ConnIds : conns'[c].status = "ACTIVE" =>
            conns[c].status = "ACTIVE" /\ c \notin watchdog.rows
      BY <1>2, <1>7 DEF WatchdogCommit, Conn
    <2>2. WatchdogServed' /\ UNCHANGED peers
      BY <1>7 DEF WatchdogCommit, IdleWatchdog, WatchdogServed
    <2> QED BY <1>1, <1>2, <2>1, <2>2, FrameServed
  <1> QED BY <1>3, <1>4, <1>5, <1>6, <1>7
    DEF Entitlement, TrialEnds, GrantPremium, PremiumLapses, HealPool, Watchdog, vars

\* A report revokes its row; what is served stays served.
LEMMA RevokeServed ==
  ASSUME TypeInv, ServedInv, NEW r \in Requests, ReportRevoke(r) PROVE ServedInv'
  <1>1. KeepsIdentity
    BY StepTable DEF Next, Handler
  <1>2. PICK c : c = req[r].conn
    OBVIOUS
  <1>3. /\ c \in ConnIds /\ conns[c] \in Conn /\ conns \in [ConnIds -> Conn]
        /\ req[r].pc = "revoke" /\ req'[r] = IdleRequest
        /\ \A t \in Requests \ {r} : req'[t] = req[t]
        /\ UNCHANGED <<peers, speed, watchdog>> /\ ConnIds' = ConnIds
    BY <1>2, RowType, BecomesAt DEF ReportRevoke, Respond, TypeInv, HandlerOK, LocalOK, ConnIds
  <1>4. \A d \in ConnIds : conns'[d].status \in {conns[d].status, "REVOKED"}
    BY <1>2, <1>3 DEF ReportRevoke, Conn
  <1>5. IdleRequest.pc = "idle" /\ ~IdleRequest.wasActive
    BY DEF IdleRequest
  <1>6. WatchdogServed'
    BY <1>3 DEF ServedInv, WatchdogServed
  <1>7. \A t \in Requests : HandlerServed(t)'
    BY <1>1, <1>3, <1>5
       DEF TypeInv, HandlerOK, LocalOK, ServedInv, HandlerServed, KeepsIdentity
  <1>8. \A d \in ConnIds : (HasSpeed(d) => HasSpeed(d)') /\ (HasPeer(d) => HasPeer(d)')
    BY <1>1, <1>3 DEF HasSpeed, HasPeer, Speeding, Adding, KeepsIdentity
  <1> QED BY <1>3, <1>4, <1>6, <1>7, <1>8 DEF ServedInv

\* Every step leaves every active row served, or about to be.
LEMMA StepServed ==
  ASSUME ~WgMayFail, MaxRestarts = 0, TypeInv, ServedInv, [Next]_vars PROVE ServedInv'
  <1>1. ~Restart
    BY DEF Restart, TypeInv, TypeOK
  <1>2. ASSUME NEW r \in Requests, Handler(r) PROVE ServedInv'
    BY <1>2, ReadingServed, WritingServed, CallsServed, RevokeServed DEF Handler, SmartConnect
  <1> QED BY <1>1, <1>2, BackgroundServed DEF Next

\* For any number of users, servers and requests in flight: while wg-manager answers
\* and the backend stays up, an ACTIVE row nobody is working on has its peer on the
\* interface and a speed limit (connect_vpn, create_pool and the watchdog's cycle).
THEOREM ServedWhileUp == ~WgMayFail /\ MaxRestarts = 0 => (Spec => []ActiveIsServed)
  <1> SUFFICES ASSUME ~WgMayFail, MaxRestarts = 0 PROVE Spec => []ActiveIsServed
    OBVIOUS
  <1>1. Init => TypeInv /\ ServedInv
    BY InitTypeInv, InitServed
  <1>2. TypeInv /\ ServedInv /\ [Next]_vars => TypeInv' /\ ServedInv'
    BY StepTypeInv, StepServed
  <1>3. ServedInv => ActiveIsServed
    BY DEF ServedInv, ActiveIsServed, HasSpeed, HasPeer, Speeding, Adding, InHand, Serving
  <1> QED BY <1>1, <1>2, <1>3, PTL DEF Spec
=============================================================================
