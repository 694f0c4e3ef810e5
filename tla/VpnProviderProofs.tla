-------------------------- MODULE VpnProviderProofs -------------------------
(***************************************************************************)
(* What holds of a client session for every set of servers and protocols   *)
(* and any number of calls and timer loops in flight: the types, that a    *)
(* connected session has a timer loop, that once an ordinary session is    *)
(* disconnected or has failed nothing runs but what a failing call to the  *)
(* service left, and that the server shown as active is the one the tunnel *)
(* goes to.                                                                *)
(***************************************************************************)
EXTENDS VpnProvider, TLAPS

-----------------------------------------------------------------------------
(* Types.                                                                  *)

\* The local states handlers start from and return to are well formed.
LEMMA LocalStates ==
  /\ IdleTap \in Tap
  /\ NoLoop \in Loop /\ Asleep \in Loop
  /\ InUse \in Backend
  BY NumbersAssumption
     DEF IdleTap, Tap, TapPC, NoLoop, Asleep, Loop, LoopPC, InUse, Backend

\* A call that moves on to another waiting point, or returns, keeps the types.
LEMMA TapMoves ==
  ASSUME TypeOK, NEW t \in Taps
  PROVE  /\ \A pc \in TapPC : Goto(t, pc) => tap' \in [Taps -> Tap]
         /\ Return(t) => tap' \in [Taps -> Tap]
  <1>1. tap \in [Taps -> Tap]
    BY DEF TypeOK
  <1>2. ASSUME NEW pc \in TapPC PROVE [tap[t] EXCEPT !.pc = pc] \in Tap
    BY <1>1, <1>2 DEF Tap
  <1> QED BY <1>1, <1>2, LocalStates DEF Goto, Return

\* So does a timer loop that moves on.
LEMMA LoopMoves ==
  ASSUME TypeOK, NEW l \in Loops
  PROVE  \A pc \in LoopPC : GotoLoop(l, pc) => loop' \in [Loops -> Loop]
  <1>1. loop \in [Loops -> Loop]
    BY DEF TypeOK
  <1>2. ASSUME NEW pc \in LoopPC PROVE [loop[l] EXCEPT !.pc = pc] \in Loop
    BY <1>1, <1>2 DEF Loop
  <1> QED BY <1>1, <1>2 DEF GotoLoop

\* Starting the timer starts a loop, and stops none.
LEMMA TimerStarts ==
  ASSUME TypeOK, StartTimer
  PROVE  /\ loop' \in [Loops -> Loop]
         /\ \E l \in Loops : loop'[l].pc # "none"
         /\ \A l \in Loops : loop'[l].pc \in {loop[l].pc, "asleep"}
  <1>1. PICK l \in Loops : loop[l].pc = "none" /\ loop' = [loop EXCEPT ![l] = Asleep]
    BY DEF StartTimer
  <1>2. loop'[l].pc = "asleep"
    BY <1>1 DEF TypeOK, Asleep, NoLoop
  <1> QED BY <1>1, <1>2, LocalStates DEF TypeOK

\* The ghost stays within the named oddities.
LEMMA OddType ==
  ASSUME TypeOK, MarkOverlap \/ MarkFailover PROVE odd' \subseteq Oddities
  BY DEF TypeOK, MarkOverlap, MarkFailover, Oddities

NativeOK ==
  /\ singbox \in BOOLEAN
  /\ wireguard \in Servers \cup {None}
  /\ stuck \subseteq Backend

\* Whatever a native call does, the services keep their types.
LEMMA NativeTypes ==
  ASSUME TypeOK
  PROVE  /\ UNCHANGED native => NativeOK'
         /\ SingboxUp => NativeOK'
         /\ \A s \in Servers \cup {None} : TunnelUp(s) \/ TunnelFailed(s) => NativeOK'
         /\ \A which \in Backend : NativeStop(which) => NativeOK'
  BY DEF TypeOK, NativeOK, native, Backend, SingboxUp, TunnelUp, TunnelFailed, NativeStop

\* A session that ends connected or failed is well typed.
LEMMA OutcomeTypes ==
  ASSUME TypeOK, NEW t \in Taps, NativeOK', wgCache' \in [Servers -> Servers \cup {None}],
         odd' \subseteq Oddities
  PROVE  /\ FinishConnect(t) /\ usingSingbox' \in BOOLEAN => TypeOK'
         /\ Fail(t) => TypeOK'
  BY TapMoves, TimerStarts DEF TypeOK, NativeOK, FinishConnect, Fail, Status

\* The initial state is well typed.
LEMMA InitTypes == Init => TypeOK
  <1> SUFFICES ASSUME Init PROVE TypeOK
    OBVIOUS
  <1>1. failedPings \in 0..(BlockedAfter - 1)
    BY NumbersAssumption DEF Init
  <1>2. tap \in [Taps -> Tap] /\ loop \in [Loops -> Loop]
    BY LocalStates DEF Init
  <1> QED BY <1>1, <1>2 DEF Init, TypeOK, Status

\* The steps up to the first native call keep the types.
LEMMA PrepareTypes ==
  ASSUME TypeOK, NEW t \in Taps, UNCHANGED wgCache
  PROVE  /\ Prepared(t) => TypeOK'
         /\ Fetched(t) => TypeOK'
         /\ Started(t) => TypeOK'
  <1>1. PathOneFailed(t) => TypeOK'
    BY TapMoves DEF PathOneFailed, TypeOK, TapPC, native
  <1>2. ASSUME PathOneConnected(t) PROVE TypeOK'
    <2>1. NativeOK' /\ odd' \subseteq Oddities /\ usingSingbox' \in BOOLEAN
      BY <1>2, NativeTypes DEF PathOneConnected, Oddities
    <2>2. wgCache' \in [Servers -> Servers \cup {None}]
      BY DEF TypeOK
    <2> QED BY <1>2, <2>1, <2>2, OutcomeTypes DEF PathOneConnected
  <1>3. ASSUME NEW pc \in TapPC, Goto(t, pc), Continue, UNCHANGED native PROVE TypeOK'
    BY <1>3, TapMoves DEF Continue, TypeOK, session, native
  <1>4. ASSUME Prepared(t) PROVE TypeOK'
    <2>1. CASE Fail(t)
      <3>1. /\ NativeOK' /\ odd' \subseteq Oddities
            /\ wgCache' \in [Servers -> Servers \cup {None}]
        BY <1>4, NativeTypes DEF Prepared, TypeOK
      <3> QED BY <2>1, <3>1, OutcomeTypes
    <2>2. CASE Return(t) /\ UNCHANGED <<session, loop>>
      BY <1>4, <2>2, TapMoves DEF Prepared, native, session, TypeOK
    <2>3. CASE /\ status' = "connecting"
               /\ Goto(t, "fetch") \/ Goto(t, "pool")
               /\ UNCHANGED <<usingSingbox, unlimited, selected, active, age, failedPings, loop>>
      BY <1>4, <2>3, TapMoves DEF Prepared, native, TypeOK, TapPC, Status
    <2> QED BY <1>4, <2>1, <2>2, <2>3 DEF Prepared
  <1>5. Fetched(t) => TypeOK'
    BY <1>1, <1>3 DEF Fetched, TapPC
  <1>6. Started(t) => TypeOK'
    BY <1>1, <1>2, <1>3 DEF Started, TapPC
  <1> QED BY <1>4, <1>5, <1>6

\* So do the answers of the server, the store and the WireGuard service.
LEMMA AnswerTypes ==
  ASSUME TypeOK, NEW t \in Taps
  PROVE  /\ PoolAnswered(t) /\ UNCHANGED wgCache => TypeOK'
         /\ PoolFailed(t) /\ UNCHANGED wgCache => TypeOK'
         /\ SingleAnswered(t) => TypeOK'
         /\ CacheRead(t) => TypeOK'
         /\ WireguardAnswered(t) /\ UNCHANGED wgCache => TypeOK'
  <1>1. tap \in [Taps -> Tap] /\ tap[t] \in Tap /\ selected \in Servers
    BY DEF TypeOK
  <1>2. ASSUME NEW s \in Servers \cup {None}, NEW pc \in TapPC,
               tap' = [tap EXCEPT ![t].pc = pc, ![t].server = s]
        PROVE  tap' \in [Taps -> Tap]
    BY <1>1, <1>2 DEF Tap
  <1>3. tap[t].server \in Servers \cup {None}
    BY <1>1 DEF Tap
  <1>4. ASSUME PoolAnswered(t), UNCHANGED wgCache PROVE TypeOK'
    <2>1. PICK s \in Servers, n \in 0..Protocols :
            /\ selected' = s
            /\ tap' = IF n > 0
                      THEN [tap EXCEPT ![t].pc = "try", ![t].left = n - 1]
                      ELSE [tap EXCEPT ![t].pc = "wireguard", ![t].server = s]
      BY <1>4 DEF PoolAnswered
    <2>2. CASE n > 0
      <3>1. n - 1 \in 0..Protocols
        BY <2>2, NumbersAssumption
      <3>2. tap' \in [Taps -> Tap]
        BY <1>1, <2>1, <2>2, <3>1 DEF Tap, TapPC
      <3> QED BY <1>4, <2>1, <3>2 DEF PoolAnswered, TypeOK, native
    <2>3. CASE ~(n > 0)
      <3>1. tap' \in [Taps -> Tap]
        BY <1>2, <2>1, <2>3 DEF TapPC
      <3> QED BY <1>4, <2>1, <3>1 DEF PoolAnswered, TypeOK, native
    <2> QED BY <2>2, <2>3
  <1>5. ASSUME PoolFailed(t), UNCHANGED wgCache PROVE TypeOK'
    <2>1. tap' \in [Taps -> Tap]
      BY <1>1, <1>2, <1>5 DEF PoolFailed, TapPC
    <2> QED BY <1>5, <2>1 DEF PoolFailed, TypeOK, session, native
  <1>6. ASSUME SingleAnswered(t) PROVE TypeOK'
    <2>1. tap' \in [Taps -> Tap]
      <3>1. CASE Goto(t, "wireguard")
        BY <3>1, TapMoves DEF TapPC
      <3>2. CASE tap' = [tap EXCEPT ![t].pc = "cached", ![t].server = selected]
        BY <1>1, <1>2, <3>2 DEF TapPC
      <3> QED BY <1>6, <3>1, <3>2 DEF SingleAnswered
    <2>2. wgCache' \in [Servers -> Servers \cup {None}]
      BY <1>1, <1>3, <1>6 DEF SingleAnswered, Store, TypeOK
    <2> QED BY <1>6, <2>1, <2>2 DEF SingleAnswered, Continue, TypeOK, session, native
  <1>7. ASSUME CacheRead(t) PROVE TypeOK'
    <2>1. CASE UNCHANGED <<session, wgCache, loop>> /\ ~Fail(t)
      <3>1. PICK s \in Servers :
              tap' = [tap EXCEPT ![t].pc = "wireguard", ![t].server = s]
        BY <1>7, <2>1 DEF CacheRead
      <3>2. tap' \in [Taps -> Tap]
        BY <1>2, <3>1 DEF TapPC
      <3> QED BY <1>7, <2>1, <3>2 DEF CacheRead, TypeOK, session, native
    <2>2. CASE Fail(t) /\ wgCache' \in {wgCache, [wgCache EXCEPT ![tap[t].server] = None]}
      <3>1. NativeOK' /\ odd' \subseteq Oddities
        BY <1>7, NativeTypes DEF CacheRead, TypeOK
      <3>2. wgCache' \in [Servers -> Servers \cup {None}]
        BY <2>2 DEF TypeOK
      <3> QED BY <2>2, <3>1, <3>2, OutcomeTypes
    <2> QED BY <1>7, <2>1, <2>2 DEF CacheRead
  <1>8. ASSUME WireguardAnswered(t), UNCHANGED wgCache PROVE TypeOK'
    <2>1. /\ NativeOK' /\ odd' \subseteq Oddities
          /\ wgCache' \in [Servers -> Servers \cup {None}]
      BY <1>3, <1>8, NativeTypes DEF WireguardAnswered, TypeOK
    <2>2. CASE FinishConnect(t) /\ UNCHANGED usingSingbox
      BY <2>1, <2>2, OutcomeTypes DEF TypeOK
    <2>3. CASE Fail(t)
      BY <2>1, <2>3, OutcomeTypes
    <2> QED BY <1>8, <2>2, <2>3 DEF WireguardAnswered
  <1> QED BY <1>4, <1>5, <1>6, <1>7, <1>8

\* And the juggler's steps.
LEMMA JugglerTypes ==
  ASSUME TypeOK, NEW t \in Taps, UNCHANGED wgCache
  PROVE  /\ Tried(t) => TypeOK'
         /\ Waited(t) => TypeOK'
         /\ Halted(t) => TypeOK'
  <1>1. tap \in [Taps -> Tap] /\ tap[t] \in Tap
    BY DEF TypeOK
  <1>2. ASSUME Fail(t), NativeOK', UNCHANGED odd PROVE TypeOK'
    BY <1>2, OutcomeTypes DEF TypeOK
  <1>3. ASSUME NextProtocol(t), NativeOK', UNCHANGED odd
        PROVE  TypeOK'
    <2>1. CASE ProtocolsLeft(t)
      <3>1. tap[t].left - 1 \in 0..Protocols
        BY <1>1, <2>1, NumbersAssumption DEF ProtocolsLeft, Tap
      <3>2. tap' \in [Taps -> Tap]
        BY <1>1, <1>3, <2>1, <3>1 DEF NextProtocol, Tap, TapPC
      <3> QED BY <1>3, <2>1, <3>2 DEF NextProtocol, TypeOK, NativeOK
    <2>2. CASE ~ProtocolsLeft(t)
      BY <1>2, <1>3, <2>2, TapMoves DEF NextProtocol, TypeOK, TapPC, NativeOK
    <2> QED BY <2>1, <2>2
  <1>4. ASSUME Tried(t) PROVE TypeOK'
    <2>1. NativeOK' /\ UNCHANGED odd
      BY <1>4, NativeTypes DEF Tried
    <2>2. CASE /\ Goto(t, IF tap[t].pc = "try" THEN "ready" ELSE "bootReady")
               /\ UNCHANGED <<session, loop>>
      BY <2>1, <2>2, TapMoves DEF TypeOK, NativeOK, TapPC, session
    <2> QED BY <1>2, <1>3, <1>4, <2>1, <2>2 DEF Tried
  <1>5. ASSUME Waited(t) PROVE TypeOK'
    <2>1. NativeOK' /\ UNCHANGED <<odd, native>>
      BY <1>5, NativeTypes DEF Waited, JugglerConnected, Continue
    <2>2. CASE JugglerConnected(t)
      BY <2>1, <2>2, OutcomeTypes DEF JugglerConnected, TypeOK
    <2>3. CASE /\ Goto(t, IF tap[t].pc = "ready" THEN "halt" ELSE "bootHalt")
               /\ Continue
      BY <2>1, <2>3, TapMoves DEF Continue, TypeOK, NativeOK, TapPC, session
    <2> QED BY <1>5, <2>2, <2>3 DEF Waited
  <1>6. ASSUME Halted(t) PROVE TypeOK'
    <2>1. NativeOK' /\ UNCHANGED odd
      BY <1>6, NativeTypes DEF Halted, StopVpn, Backend
    <2> QED BY <1>2, <1>3, <1>6, <2>1 DEF Halted
  <1> QED BY <1>4, <1>5, <1>6

\* The user's steps and the end of a disconnect keep the types.
LEMMA UserTypes ==
  ASSUME TypeOK, UNCHANGED wgCache
  PROVE  /\ \A t \in Taps : Connect(t) => TypeOK'
         /\ \A t \in Taps : Disconnect(t) => TypeOK'
         /\ \A t \in Taps : Stopped(t) => TypeOK'
         /\ \A s \in Servers : SelectServer(s) => TypeOK'
  <1>1. tap \in [Taps -> Tap]
    BY DEF TypeOK
  <1>2. ASSUME NEW t \in Taps, Connect(t) PROVE TypeOK'
    <2>1. [IdleTap EXCEPT !.pc = "prepare"] \in Tap
      BY LocalStates DEF Tap, TapPC
    <2>2. tap' \in [Taps -> Tap]
      BY <1>1, <1>2, <2>1 DEF Connect
    <2>3. odd' \subseteq Oddities
      BY <1>2, OddType DEF Connect, Oddities
    <2> QED BY <1>2, <2>2, <2>3 DEF Connect, TypeOK, native
  <1>3. ASSUME NEW t \in Taps, Disconnect(t) PROVE TypeOK'
    <2>1. [IdleTap EXCEPT !.pc = "stop", !.stops = InUse] \in Tap
      BY LocalStates, NumbersAssumption DEF IdleTap, Tap, TapPC
    <2>2. tap' \in [Taps -> Tap]
      BY <1>1, <1>3, <2>1 DEF Disconnect
    <2> QED BY <1>3, <2>2, OddType DEF Disconnect, TypeOK, native, Status
  <1>4. ASSUME NEW t \in Taps, Stopped(t) PROVE TypeOK'
    <2>1. tap[t].stops \in Backend
      BY <1>1 DEF Tap
    <2>2. NativeOK'
      BY <1>4, <2>1, NativeTypes DEF Stopped, StopNative
    <2> QED BY <1>4, <2>2, TapMoves DEF Stopped, StopNative, TypeOK, NativeOK, Status
  <1>5. ASSUME NEW s \in Servers, SelectServer(s) PROVE TypeOK'
    BY <1>5, OddType DEF SelectServer, TypeOK, native
  <1> QED BY <1>2, <1>3, <1>4, <1>5

\* The timer loop's steps keep the types.
LEMMA LoopTypes ==
  ASSUME TypeOK, NEW l \in Loops
  PROVE  LoopStep(l) => TypeOK'
  <1> SUFFICES ASSUME UNCHANGED wgCache,
                      \/ Tick(l) \/ StatsRead(l) \/ PingAnswered(l) \/ PingFailed(l)
                      \/ FailedOver(l) \/ LimitReached(l)
               PROVE  TypeOK'
    BY DEF LoopStep
  <1>1. loop \in [Loops -> Loop] /\ loop[l] \in Loop
    BY DEF TypeOK
  <1>2. ASSUME NEW pc \in LoopPC, GotoLoop(l, pc), UNCHANGED <<session, native, tap, odd>>
        PROVE  TypeOK'
    BY <1>2, LoopMoves DEF TypeOK, session, native
  <1>3. ASSUME NEW q \in Loop, loop' = [loop EXCEPT ![l] = q]
        PROVE  loop' \in [Loops -> Loop]
    BY <1>1, <1>3
  <1>4. ASSUME Tick(l) PROVE TypeOK'
    <2>1. [NoLoop EXCEPT !.pc = "limit", !.stops = InUse] \in Loop
      BY LocalStates DEF NoLoop, Loop, LoopPC
    <2>2. loop' \in [Loops -> Loop]
      BY <1>3, <1>4, <2>1, LocalStates, LoopMoves DEF Tick, LoopPC
    <2> QED BY <1>4, <2>2 DEF Tick, TypeOK, session, native
  <1>5. StatsRead(l) => TypeOK'
    BY <1>2 DEF StatsRead, LoopPC
  <1>6. PingAnswered(l) => TypeOK'
    BY LoopMoves, NumbersAssumption DEF PingAnswered, TypeOK, LoopPC, native
  <1>7. ASSUME PingFailed(l) PROVE TypeOK'
    <2>1. CASE failedPings + 1 < BlockedAfter
      BY <1>7, <2>1, LoopMoves, NumbersAssumption DEF PingFailed, TypeOK, LoopPC, native
    <2>2. CASE ~(failedPings + 1 < BlockedAfter)
      <3>1. CASE GotoLoop(l, "asleep") /\ UNCHANGED <<selected, odd>>
        BY <1>7, <2>2, <3>1, LoopMoves, NumbersAssumption DEF PingFailed, TypeOK, LoopPC, native
      <3>2. ASSUME NEW s \in Servers \ {selected}, selected' = s, MarkOverlap,
                   loop' = [loop EXCEPT ![l].pc = "failover", ![l].server = s]
            PROVE  TypeOK'
        <4>1. loop' \in [Loops -> Loop]
          BY <1>1, <3>2 DEF Loop, LoopPC
        <4>2. failedPings' \in 0..(BlockedAfter - 1)
          BY <1>7, <2>2, NumbersAssumption DEF PingFailed
        <4>3. odd' \subseteq Oddities
          BY <3>2, OddType
        <4> QED BY <1>7, <3>2, <4>1, <4>2, <4>3 DEF PingFailed, TypeOK, native
      <3> QED BY <1>7, <2>2, <3>1, <3>2 DEF PingFailed
    <2> QED BY <2>1, <2>2
  <1>8. ASSUME FailedOver(l) PROVE TypeOK'
    <2>1. loop[l].server \in Servers \cup {None}
      BY <1>1 DEF Loop
    <2>2. NativeOK' /\ odd' \subseteq Oddities
      BY <1>8, <2>1, NativeTypes, OddType DEF FailedOver, TypeOK
    <2> QED BY <1>3, <1>8, <2>2, LocalStates DEF FailedOver, TypeOK, NativeOK, Status
  <1>9. ASSUME LimitReached(l) PROVE TypeOK'
    <2>1. loop[l].stops \in Backend
      BY <1>1 DEF Loop
    <2>2. NativeOK'
      BY <1>9, <2>1, NativeTypes DEF LimitReached, StopNative
    <2> QED BY <1>3, <1>9, <2>2, LocalStates
          DEF LimitReached, StopNative, TypeOK, NativeOK, Status
  <1> QED BY <1>4, <1>5, <1>6, <1>7, <1>8, <1>9

\* Every step keeps the types.
LEMMA NextTypes == TypeOK /\ [Next]_vars => TypeOK'
  <1> SUFFICES ASSUME TypeOK, [Next]_vars PROVE TypeOK'
    OBVIOUS
  <1>1. CASE User
    BY <1>1, UserTypes DEF User
  <1>2. ASSUME NEW t \in Taps, TapStep(t) PROVE TypeOK'
    BY <1>2, PrepareTypes, AnswerTypes, JugglerTypes, UserTypes DEF TapStep, ConnectStep
  <1>3. ASSUME NEW l \in Loops, LoopStep(l) PROVE TypeOK'
    BY <1>3, LoopTypes
  <1>4. CASE FiveMinutesPass
    BY <1>4 DEF FiveMinutesPass, TypeOK, native
  <1>5. CASE UNCHANGED vars
    BY <1>5 DEF TypeOK, vars, session, native
  <1> QED BY <1>1, <1>2, <1>3, <1>4, <1>5 DEF Next

\* The session, the native services, the calls and the loops keep their types.
THEOREM TypeCorrect == Spec => []TypeOK
  BY InitTypes, NextTypes, PTL DEF Spec

-----------------------------------------------------------------------------
(* A connected session has a timer.                                        *)

\* Besides the loop itself: a connected session has a start time, without which
\* the loop would end.
TimerInv ==
  /\ TypeOK
  /\ status = "connected" => age # "none"
  /\ ConnectedHasTimer

\* The steps of calls keep a loop for a connected session: the only one that
\* connects starts it.
LEMMA TapStepTimer ==
  ASSUME TimerInv, TypeOK', NEW t \in Taps, TapStep(t)
  PROVE  TimerInv'
  <1>1. CASE FinishConnect(t)
    <2>1. TypeOK
      BY DEF TimerInv
    <2> QED BY <1>1, <2>1, TimerStarts DEF FinishConnect, TimerInv, ConnectedHasTimer
  <1>2. CASE status' # "connected"
    BY <1>2 DEF TimerInv, ConnectedHasTimer
  <1>3. CASE UNCHANGED <<status, age, loop>>
    BY <1>3 DEF TimerInv, ConnectedHasTimer
  <1>4. \/ FinishConnect(t)
        \/ status' # "connected"
        \/ UNCHANGED <<status, age, loop>>
    BY DEF TapStep, ConnectStep, Prepared, Fetched, Started, PoolAnswered, PoolFailed,
           SingleAnswered, CacheRead, WireguardAnswered, Tried, Waited, Halted, Stopped, Fail,
           PathOneConnected, PathOneFailed, JugglerConnected, NextProtocol, Continue, session
  <1> QED BY <1>1, <1>2, <1>3, <1>4

\* A loop ends only when it finds no session, or ends the session itself.
LEMMA LoopStepTimer ==
  ASSUME TimerInv, TypeOK', NEW l \in Loops, LoopStep(l)
  PROVE  TimerInv'
  <1>1. CASE status' # "connected"
    BY <1>1 DEF TimerInv, ConnectedHasTimer
  <1>2. CASE UNCHANGED <<status, age>> /\ loop'[l].pc # "none"
    BY <1>2 DEF TimerInv, ConnectedHasTimer
  <1>3. \/ status' # "connected"
        \/ UNCHANGED <<status, age>> /\ loop'[l].pc # "none"
    <2>1. loop \in [Loops -> Loop]
      BY DEF TimerInv, TypeOK
    <2>2. \A pc \in LoopPC : GotoLoop(l, pc) => loop'[l].pc = pc
      BY <2>1 DEF GotoLoop, Loop
    <2>3. CASE Tick(l)
      BY <2>1, <2>2, <2>3 DEF Tick, TimerInv, SessionOver, NoLoop, LoopPC, session
    <2>4. CASE StatsRead(l) \/ PingAnswered(l)
      BY <2>2, <2>4 DEF StatsRead, PingAnswered, LoopPC, session
    <2>5. CASE PingFailed(l)
      BY <2>1, <2>2, <2>5 DEF PingFailed, LoopPC, Loop
    <2>6. CASE FailedOver(l)
      BY <2>1, <2>6 DEF FailedOver, Asleep, NoLoop
    <2>7. CASE LimitReached(l)
      BY <2>7 DEF LimitReached
    <2> QED BY <2>3, <2>4, <2>5, <2>6, <2>7 DEF LoopStep
  <1> QED BY <1>1, <1>2, <1>3

\* Whatever connects, fails over, times out or is tapped meanwhile, a connected
\* session has a timer loop (service_provider.dart:383-421).
THEOREM TimerAlways == Spec => []ConnectedHasTimer
  <1>1. Init => TimerInv
    BY InitTypes DEF Init, TimerInv, ConnectedHasTimer
  <1>2. TimerInv /\ [Next]_vars => TimerInv'
    <2> SUFFICES ASSUME TimerInv, [Next]_vars PROVE TimerInv'
      OBVIOUS
    <2>1. TypeOK'
      BY NextTypes DEF TimerInv
    <2>2. CASE User
      BY <2>1, <2>2 DEF User, Connect, Disconnect, SelectServer, TimerInv, ConnectedHasTimer
    <2>3. CASE FiveMinutesPass
      BY <2>1, <2>3 DEF FiveMinutesPass, TimerInv, ConnectedHasTimer
    <2>4. CASE UNCHANGED vars
      BY <2>1, <2>4 DEF vars, session, TimerInv, ConnectedHasTimer
    <2> QED BY <2>1, <2>2, <2>3, <2>4, TapStepTimer, LoopStepTimer DEF Next
  <1>3. TimerInv => ConnectedHasTimer
    BY DEF TimerInv
  <1> QED BY <1>1, <1>2, <1>3, PTL DEF Spec

-----------------------------------------------------------------------------
(* An ordinary session turns off.                                          *)

\* The juggler has started sing-box and does not trust it yet, or no longer.
Probing == {"ready", "halt", "bootReady", "bootHalt"}

Connecting(t) == tap[t].pc \notin {"idle", "stop"}

\* One call at a time, and none next to a failover or a limit.
Alone ==
  /\ \A t, u \in Taps : tap[t].pc # "idle" /\ tap[u].pc # "idle" => t = u
  /\ \A t \in Taps, l \in Loops :
       tap[t].pc # "idle" => loop[l].pc \notin {"failover", "limit"}

\* A service that runs is the one _usingSingbox names, but for the juggler's probe
\* and for what a failing call left.
Accounted ==
  /\ SingboxOurs => usingSingbox \/ \E t \in Taps : tap[t].pc \in Probing
  /\ TunnelOurs => ~usingSingbox
  /\ age = "none" /\ (\A t \in Taps : tap[t].pc \notin Probing) => Off /\ ~usingSingbox

\* A call that connects starts from nothing.
CallsKnow ==
  \A t \in Taps :
    /\ Connecting(t) =>
         /\ age = "none" /\ ~usingSingbox /\ ~TunnelOurs
         /\ status = IF tap[t].pc = "prepare" THEN "disconnected" ELSE "connecting"
         /\ tap[t].pc \notin Probing => ~SingboxOurs
    /\ tap[t].pc = "stop" => status = "disconnecting" /\ tap[t].stops = InUse

\* What the limit chose to stop is still all that runs.
LimitKnows ==
  \A l \in Loops : loop[l].pc = "limit" =>
    IF loop[l].stops = "singbox" THEN ~TunnelOurs ELSE ~usingSingbox

Ordinary == Alone /\ Accounted /\ CallsKnow /\ LimitKnows

\* Nothing out of the ordinary in the session, whatever the store held before it.
Plain == odd \subseteq {"mixed"}

OrdinaryInv ==
  /\ TypeOK
  /\ status = "disconnected" => age = "none"
  /\ Plain => Ordinary

\* What t's call may leave behind, next to calls that do not move.
Leaves(t) ==
  /\ SingboxOurs => usingSingbox \/ tap[t].pc \in Probing
  /\ TunnelOurs => ~usingSingbox
  /\ age = "none" /\ tap[t].pc \notin Probing => Off /\ ~usingSingbox
  /\ Connecting(t) =>
       /\ age = "none" /\ ~usingSingbox /\ ~TunnelOurs
       /\ status = IF tap[t].pc = "prepare" THEN "disconnected" ELSE "connecting"
       /\ tap[t].pc \notin Probing => ~SingboxOurs
  /\ tap[t].pc = "stop" => status = "disconnecting" /\ tap[t].stops = InUse

\* A step of the only call in flight, while no loop drives a service, is judged by
\* what it leaves.
LEMMA OneCall ==
  ASSUME NEW t \in Taps,
         \A u \in Taps \ {t} : tap'[u].pc = "idle",
         \A l \in Loops : loop'[l].pc \notin {"failover", "limit"},
         Leaves(t)'
  PROVE  Ordinary'
  <1>1. Alone'
    BY DEF Alone
  <1>2. CallsKnow'
    BY DEF CallsKnow, Leaves, Connecting
  <1>3. LimitKnows'
    BY DEF LimitKnows
  <1>4. Accounted'
    BY DEF Accounted, Leaves
  <1> QED BY <1>1, <1>2, <1>3, <1>4 DEF Ordinary

\* Before a step of a call that connects or stops, it is the only one, and no
\* loop drives a service.
LEMMA CallAlone ==
  ASSUME Ordinary, NEW t \in Taps, tap[t].pc # "idle"
  PROVE  /\ \A u \in Taps \ {t} : tap[u].pc = "idle"
         /\ \A l \in Loops : loop[l].pc \notin {"failover", "limit"}
         /\ Leaves(t)
  BY DEF Ordinary, Alone, Accounted, CallsKnow, Leaves, Probing

\* A native call decides what runs of the session's own of its own service, and
\* leaves the other one alone: a stop that fails leaves nothing that is not recorded.
LEMMA NativeClaims ==
  /\ UNCHANGED native => (SingboxOurs' <=> SingboxOurs) /\ (TunnelOurs' <=> TunnelOurs)
  /\ SingboxUp => (TunnelOurs' <=> TunnelOurs)
  /\ \A s : TunnelUp(s) => (SingboxOurs' <=> SingboxOurs)
  /\ \A s : TunnelFailed(s) =>
       (SingboxOurs' <=> SingboxOurs) /\ (TunnelOurs' => TunnelOurs)
  /\ NativeStop("singbox") => ~SingboxOurs' /\ (TunnelOurs' <=> TunnelOurs)
  /\ NativeStop("wireguard") => ~TunnelOurs' /\ (SingboxOurs' <=> SingboxOurs)
  BY DEF native, SingboxOurs, TunnelOurs, SingboxUp, TunnelUp, TunnelFailed, NativeStop

\* Where a call goes; the other calls stay where they are.
LEMMA CallMoves ==
  ASSUME TypeOK, NEW t \in Taps
  PROVE  /\ \A pc \in TapPC : Goto(t, pc) =>
              tap'[t].pc = pc /\ \A u \in Taps \ {t} : tap'[u] = tap[u]
         /\ Return(t) => tap'[t].pc = "idle" /\ \A u \in Taps \ {t} : tap'[u] = tap[u]
  <1>1. tap \in [Taps -> Tap] /\ tap[t] \in Tap
    BY DEF TypeOK
  <1>2. \A pc \in TapPC : [tap[t] EXCEPT !.pc = pc].pc = pc
    BY <1>1 DEF Tap
  <1>3. IdleTap.pc = "idle"
    BY DEF IdleTap
  <1> QED BY <1>1, <1>2, <1>3 DEF Goto, Return

\* A call that finishes connected leaves an ordinary session when exactly the
\* service it started runs and is named.
LEMMA Finishes ==
  ASSUME OrdinaryInv, Plain, NEW t \in Taps, Connecting(t), FinishConnect(t),
         SingboxOurs' => usingSingbox', TunnelOurs' => ~usingSingbox'
  PROVE  Ordinary'
  <1>1. /\ TypeOK /\ Ordinary /\ tap[t].pc # "idle"
    BY DEF OrdinaryInv, Connecting
  <1>2. \A l \in Loops : loop'[l].pc \notin {"failover", "limit"}
    BY <1>1, CallAlone, TimerStarts DEF FinishConnect
  <1>3. tap'[t].pc = "idle" /\ \A u \in Taps \ {t} : tap'[u].pc = "idle"
    BY <1>1, CallAlone, CallMoves DEF FinishConnect
  <1>4. Leaves(t)'
    BY <1>3 DEF FinishConnect, Leaves, Connecting
  <1> QED BY <1>2, <1>3, <1>4, OneCall

\* One that fails does so with nothing of its own running.
LEMMA Fails ==
  ASSUME OrdinaryInv, Plain, NEW t \in Taps, Connecting(t), Fail(t),
         ~SingboxOurs', ~TunnelOurs'
  PROVE  Ordinary'
  <1>1. /\ TypeOK /\ Ordinary /\ tap[t].pc # "idle"
    BY DEF OrdinaryInv, Connecting
  <1>2. \A l \in Loops : loop'[l].pc \notin {"failover", "limit"}
    BY <1>1, CallAlone DEF Fail
  <1>3. tap'[t].pc = "idle" /\ \A u \in Taps \ {t} : tap'[u].pc = "idle"
    BY <1>1, CallAlone, CallMoves DEF Fail
  <1>4. Leaves(t)'
    BY <1>1, <1>3, CallAlone DEF Fail, Leaves, Connecting, Off
  <1> QED BY <1>2, <1>3, <1>4, OneCall

\* One that moves on is probing exactly when it has started sing-box.
LEMMA MovesOn ==
  ASSUME OrdinaryInv, Plain, NEW t \in Taps, Connecting(t),
         tap'[t].pc \notin {"idle", "stop", "prepare"},
         \A u \in Taps \ {t} : tap'[u] = tap[u],
         tap'[t].pc \in Probing \/ ~SingboxOurs', ~TunnelOurs', ~usingSingbox',
         status' = "connecting", UNCHANGED <<age, loop>>
  PROVE  Ordinary'
  <1>1. /\ TypeOK /\ Ordinary /\ tap[t].pc # "idle"
    BY DEF OrdinaryInv, Connecting
  <1>2. \A l \in Loops : loop'[l].pc \notin {"failover", "limit"}
    BY <1>1, CallAlone
  <1>3. \A u \in Taps \ {t} : tap'[u].pc = "idle"
    BY <1>1, CallAlone
  <1>4. Leaves(t)'
    BY <1>1, <1>3, CallAlone DEF Leaves, Connecting, Off
  <1> QED BY <1>2, <1>3, <1>4, OneCall

\* Every step of a call that connects keeps the session ordinary.
LEMMA ConnectStepOrdinary ==
  ASSUME OrdinaryInv, Plain, Plain', NEW t \in Taps, ConnectStep(t)
  PROVE  Ordinary'
  <1>1. /\ TypeOK /\ Ordinary /\ tap \in [Taps -> Tap] /\ tap[t] \in Tap
    BY DEF OrdinaryInv, TypeOK
  <1>2. Connecting(t)
    BY DEF ConnectStep, Connecting, Prepared, Fetched, Started, PoolAnswered, PoolFailed,
           SingleAnswered, CacheRead, WireguardAnswered, Tried, Waited, Halted
  <1>3. /\ Leaves(t) /\ ~usingSingbox /\ ~TunnelOurs /\ age = "none"
        /\ tap[t].pc \notin Probing => ~SingboxOurs
        /\ tap[t].pc # "prepare" => status = "connecting"
    BY <1>1, <1>2, CallAlone DEF Connecting, Leaves
  <1>4. \A pc \in TapPC : Goto(t, pc) =>
          tap'[t].pc = pc /\ \A u \in Taps \ {t} : tap'[u] = tap[u]
    BY <1>1, CallMoves
  <1>5. ASSUME Prepared(t) PROVE Ordinary'
    <2>1. ~SingboxOurs' /\ ~TunnelOurs'
      BY <1>3, <1>5, NativeClaims DEF Prepared, Probing
    <2>2. CASE Fail(t)
      BY <1>2, <2>1, <2>2, Fails
    <2>3. CASE Return(t) /\ UNCHANGED <<session, loop>>
      <3>1. tap'[t].pc = "idle" /\ \A u \in Taps \ {t} : tap'[u].pc = "idle"
        BY <1>1, <1>2, <2>3, CallAlone, CallMoves DEF Connecting
      <3>2. \A l \in Loops : loop'[l].pc \notin {"failover", "limit"}
        BY <1>1, <1>2, <2>3, CallAlone DEF Connecting
      <3>3. Leaves(t)'
        BY <1>3, <2>1, <2>3, <3>1 DEF Leaves, Connecting, Probing, Off, session
      <3> QED BY <3>1, <3>2, <3>3, OneCall
    <2>4. CASE /\ status' = "connecting"
               /\ Goto(t, "fetch") \/ Goto(t, "pool")
               /\ UNCHANGED <<usingSingbox, age, loop>>
      <3>1. tap'[t].pc \in {"fetch", "pool"} /\ \A u \in Taps \ {t} : tap'[u] = tap[u]
        BY <1>4, <2>4 DEF TapPC
      <3> QED BY <1>2, <1>3, <2>1, <2>4, <3>1, MovesOn
    <2> QED BY <1>5, <2>2, <2>3, <2>4 DEF Prepared
  <1>6. ASSUME PathOneFailed(t), tap[t].pc \notin Probing \cup {"prepare"} PROVE Ordinary'
    <2>1. tap'[t].pc = "pool" /\ \A u \in Taps \ {t} : tap'[u] = tap[u]
      BY <1>4, <1>6 DEF PathOneFailed, TapPC
    <2>2. ~SingboxOurs' /\ ~TunnelOurs'
      BY <1>3, <1>6, NativeClaims DEF PathOneFailed
    <2> QED BY <1>2, <1>3, <1>6, <2>1, <2>2, MovesOn DEF PathOneFailed
  <1>7. ASSUME NEW pc \in TapPC \ {"idle", "stop", "prepare"}, Goto(t, pc),
               tap[t].pc # "prepare", pc \in Probing \/ ~SingboxOurs,
               Continue, UNCHANGED native
        PROVE  Ordinary'
    <2>1. tap'[t].pc = pc /\ \A u \in Taps \ {t} : tap'[u] = tap[u]
      BY <1>4, <1>7
    <2>2. (SingboxOurs' <=> SingboxOurs) /\ ~TunnelOurs'
      BY <1>3, <1>7, NativeClaims
    <2> QED BY <1>2, <1>3, <1>7, <2>1, <2>2, MovesOn DEF Continue, session
  <1>8. Fetched(t) => Ordinary'
    BY <1>3, <1>6, <1>7 DEF Fetched, TapPC, Probing
  <1>9. ASSUME Started(t) PROVE Ordinary'
    <2>1. ~PathOneConnected(t)
      BY DEF PathOneConnected, Plain
    <2> QED BY <1>3, <1>6, <1>7, <1>9, <2>1 DEF Started, TapPC, Probing
  <1>10. ASSUME PoolAnswered(t) PROVE Ordinary'
    <2>1. tap'[t].pc \in {"try", "wireguard"} /\ \A u \in Taps \ {t} : tap'[u] = tap[u]
      BY <1>1, <1>10 DEF PoolAnswered, Tap
    <2>2. ~SingboxOurs' /\ ~TunnelOurs'
      BY <1>3, <1>10, NativeClaims DEF PoolAnswered, Probing
    <2> QED BY <1>2, <1>3, <1>10, <2>1, <2>2, MovesOn DEF PoolAnswered
  <1>11. ASSUME PoolFailed(t) PROVE Ordinary'
    <2>1. tap'[t].pc = "single" /\ \A u \in Taps \ {t} : tap'[u] = tap[u]
      BY <1>1, <1>11 DEF PoolFailed, Tap
    <2>2. ~SingboxOurs' /\ ~TunnelOurs'
      BY <1>3, <1>11, NativeClaims DEF PoolFailed, Probing
    <2> QED BY <1>2, <1>3, <1>11, <2>1, <2>2, MovesOn DEF PoolFailed, session
  <1>12. ASSUME SingleAnswered(t) PROVE Ordinary'
    <2>1. tap'[t].pc \in {"wireguard", "cached"} /\ \A u \in Taps \ {t} : tap'[u] = tap[u]
      <3>1. CASE Goto(t, "wireguard")
        BY <1>4, <3>1 DEF TapPC
      <3>2. CASE tap' = [tap EXCEPT ![t].pc = "cached", ![t].server = selected]
        BY <1>1, <3>2 DEF Tap
      <3> QED BY <1>12, <3>1, <3>2 DEF SingleAnswered
    <2>2. ~SingboxOurs' /\ ~TunnelOurs'
      BY <1>3, <1>12, NativeClaims DEF SingleAnswered, Probing
    <2> QED BY <1>2, <1>3, <1>12, <2>1, <2>2, MovesOn DEF SingleAnswered, Continue, session
  <1>13. ASSUME CacheRead(t) PROVE Ordinary'
    <2>1. ~SingboxOurs' /\ ~TunnelOurs'
      BY <1>3, <1>13, NativeClaims DEF CacheRead, Probing
    <2>2. CASE Fail(t)
      BY <1>2, <2>1, <2>2, Fails
    <2>3. CASE ~Fail(t)
      <3>1. PICK s : tap' = [tap EXCEPT ![t].pc = "wireguard", ![t].server = s]
        BY <1>13, <2>3 DEF CacheRead
      <3>2. tap'[t].pc = "wireguard" /\ \A u \in Taps \ {t} : tap'[u] = tap[u]
        BY <1>1, <3>1 DEF Tap
      <3> QED BY <1>2, <1>3, <1>13, <2>1, <2>3, <3>2, MovesOn DEF CacheRead, session
    <2> QED BY <2>2, <2>3
  <1>14. ASSUME WireguardAnswered(t) PROVE Ordinary'
    <2>1. ~SingboxOurs
      <3>1. tap[t].pc = "wireguard"
        BY <1>14 DEF WireguardAnswered
      <3> QED BY <1>3, <3>1 DEF Probing
    <2>2. CASE TunnelFailed(tap[t].server) /\ Fail(t)
      BY <1>2, <1>3, <2>1, <2>2, NativeClaims, Fails
    <2>3. CASE TunnelUp(tap[t].server) /\ FinishConnect(t) /\ UNCHANGED usingSingbox
      BY <1>2, <1>3, <2>1, <2>3, NativeClaims, Finishes
    <2> QED BY <1>14, <2>2, <2>3 DEF WireguardAnswered
  <1>15. ASSUME NextProtocol(t), ~SingboxOurs', ~TunnelOurs', tap[t].pc # "prepare"
         PROVE  Ordinary'
    <2>1. CASE Fail(t)
      BY <1>2, <1>15, <2>1, Fails
    <2>2. CASE ~Fail(t)
      <3>1. tap'[t].pc \in {"try", "boot"} /\ \A u \in Taps \ {t} : tap'[u] = tap[u]
        BY <1>1, <1>4, <1>15, <2>2 DEF NextProtocol, Tap, TapPC
      <3> QED BY <1>2, <1>3, <1>15, <2>2, <3>1, MovesOn DEF NextProtocol
    <2> QED BY <2>1, <2>2
  <1>16. ASSUME Tried(t) PROVE Ordinary'
    <2>1. ~SingboxOurs /\ tap[t].pc \in {"try", "boot"}
      BY <1>3, <1>16 DEF Tried, Probing
    <2>2. CASE /\ SingboxUp
               /\ Goto(t, IF tap[t].pc = "try" THEN "ready" ELSE "bootReady")
               /\ UNCHANGED <<session, loop>>
      <3>1. tap'[t].pc \in {"ready", "bootReady"} /\ \A u \in Taps \ {t} : tap'[u] = tap[u]
        BY <1>4, <2>2 DEF TapPC
      <3>2. ~TunnelOurs'
        BY <1>3, <2>2, NativeClaims
      <3> QED BY <1>2, <1>3, <2>1, <2>2, <3>1, <3>2, MovesOn DEF Probing, session
    <2>3. ASSUME UNCHANGED native PROVE ~SingboxOurs' /\ ~TunnelOurs'
      BY <1>3, <2>1, <2>3, NativeClaims
    <2> QED BY <1>2, <1>15, <1>16, <2>1, <2>2, <2>3, Fails DEF Tried
  <1>17. ASSUME Waited(t) PROVE Ordinary'
    <2>1. CASE JugglerConnected(t)
      <3>1. ~TunnelOurs'
        BY <1>3, <2>1, NativeClaims DEF JugglerConnected
      <3> QED BY <1>2, <2>1, <3>1, Finishes DEF JugglerConnected
    <2> QED BY <1>7, <1>17, <2>1 DEF Waited, TapPC, Probing
  <1>18. ASSUME Halted(t) PROVE Ordinary'
    <2>1. ~SingboxOurs' /\ ~TunnelOurs'
      BY <1>3, <1>18, NativeClaims DEF Halted, StopVpn
    <2> QED BY <1>2, <1>15, <1>18, <2>1, Fails DEF Halted
  <1> QED BY <1>5, <1>8, <1>9, <1>10, <1>11, <1>12, <1>13, <1>14, <1>16, <1>17, <1>18
          DEF ConnectStep

\* Of the user's taps, a fresh connect starts an ordinary session, and a disconnect
\* of an ordinary one chooses the service that runs.
LEMMA UserOrdinary ==
  ASSUME OrdinaryInv, Plain', User
  PROVE  Ordinary'
  <1>1. TypeOK /\ tap \in [Taps -> Tap]
    BY DEF OrdinaryInv, TypeOK
  <1>2. ASSUME NEW t \in Taps, Connect(t) PROVE Ordinary'
    <2>1. Quiet /\ Off /\ ~usingSingbox
      <3>1. Fresh \/ Plain
        BY <1>2 DEF Connect, MarkOverlap, Plain
      <3>2. CASE Fresh
        BY <3>2 DEF Fresh
      <3>3. CASE ~Fresh
        <4>1. Quiet /\ Plain
          BY <1>2, <3>3 DEF Connect, MarkOverlap, Plain
        <4>2. age = "none" /\ Ordinary
          BY <1>2, <4>1 DEF Connect, OrdinaryInv
        <4> QED BY <4>1, <4>2 DEF Ordinary, Accounted, Quiet, Probing
      <3> QED BY <3>2, <3>3
    <2>2. age = "none"
      BY <1>2 DEF Connect, OrdinaryInv
    <2>3. tap'[t].pc = "prepare" /\ \A u \in Taps \ {t} : tap'[u].pc = "idle"
      BY <1>1, <1>2, <2>1 DEF Connect, Quiet, IdleTap
    <2>4. \A l \in Loops : loop'[l].pc \notin {"failover", "limit"}
      BY <1>2, <2>1 DEF Connect, Quiet
    <2>5. Off'
      BY <1>2, <2>1, NativeClaims DEF Connect, Off
    <2>6. Leaves(t)'
      BY <1>2, <2>1, <2>2, <2>3, <2>5 DEF Connect, Leaves, Connecting, Probing, Off
    <2> QED BY <2>3, <2>4, <2>6, OneCall
  <1>3. ASSUME NEW t \in Taps, Disconnect(t) PROVE Ordinary'
    <2>1. Quiet /\ Plain
      BY <1>3 DEF Disconnect, MarkOverlap, Plain
    <2>2. Ordinary
      BY <2>1 DEF OrdinaryInv
    <2>3. /\ tap'[t].pc = "stop" /\ tap'[t].stops = InUse
          /\ \A u \in Taps \ {t} : tap'[u].pc = "idle"
      BY <1>1, <1>3, <2>1 DEF Disconnect, Quiet, IdleTap
    <2>4. \A l \in Loops : loop'[l].pc \notin {"failover", "limit"}
      BY <1>3, <2>1 DEF Disconnect, Quiet
    <2>5. (SingboxOurs' <=> SingboxOurs) /\ (TunnelOurs' <=> TunnelOurs)
      BY <1>3, NativeClaims DEF Disconnect
    <2>6. Leaves(t)'
      BY <1>3, <2>1, <2>2, <2>3, <2>5
         DEF Disconnect, Leaves, Connecting, Ordinary, Accounted, Quiet, Probing, Off, InUse
    <2> QED BY <2>3, <2>4, <2>6, OneCall
  <1>4. ASSUME NEW s \in Servers, SelectServer(s) PROVE Ordinary'
    <2>1. Plain /\ Ordinary
      BY <1>4 DEF SelectServer, MarkOverlap, OrdinaryInv, Plain
    <2>2. (SingboxOurs' <=> SingboxOurs) /\ (TunnelOurs' <=> TunnelOurs)
      BY <1>4, NativeClaims DEF SelectServer
    <2> QED BY <1>4, <2>1, <2>2
          DEF SelectServer, Ordinary, Alone, Accounted, CallsKnow, LimitKnows, Connecting, Off,
              InUse
  <1> QED BY <1>2, <1>3, <1>4 DEF User

\* A disconnect that chose the service in use leaves nothing of the session running.
LEMMA StoppedOrdinary ==
  ASSUME OrdinaryInv, Plain, NEW t \in Taps, Stopped(t)
  PROVE  Ordinary'
  <1>1. TypeOK /\ Ordinary /\ tap[t].pc = "stop"
    BY DEF OrdinaryInv, Stopped
  <1>2. /\ Leaves(t) /\ tap[t].stops = InUse
        /\ \A u \in Taps \ {t} : tap[u].pc = "idle"
        /\ \A l \in Loops : loop[l].pc \notin {"failover", "limit"}
    BY <1>1, CallAlone DEF Leaves
  <1>3. tap'[t].pc = "idle" /\ \A u \in Taps \ {t} : tap'[u].pc = "idle"
    BY <1>1, <1>2, CallMoves DEF Stopped
  <1>4. \A l \in Loops : loop'[l].pc \notin {"failover", "limit"}
    BY <1>2 DEF Stopped
  <1>5. Off' /\ ~usingSingbox'
    BY <1>1, <1>2, NativeClaims DEF Stopped, StopNative, Leaves, InUse, Off, Probing
  <1>6. Leaves(t)'
    BY <1>3, <1>5 DEF Leaves, Connecting, Off
  <1> QED BY <1>3, <1>4, <1>6, OneCall

\* A loop's step keeps the session ordinary: the limit begins in a connected
\* session, when no call is in flight, with the service in use.
LEMMA LoopStepOrdinary ==
  ASSUME OrdinaryInv, Plain, Plain', NEW l \in Loops, LoopStep(l)
  PROVE  Ordinary'
  <1>1. TypeOK /\ Ordinary /\ loop \in [Loops -> Loop]
    BY DEF OrdinaryInv, TypeOK
  <1>2. \A m \in Loops \ {l} : loop'[m] = loop[m]
    BY <1>1 DEF LoopStep, Tick, StatsRead, PingAnswered, PingFailed, FailedOver, LimitReached,
                GotoLoop
  <1>3. \A pc \in LoopPC : GotoLoop(l, pc) => loop'[l].pc = pc
    BY <1>1 DEF GotoLoop, Loop
  <1>4. ASSUME loop'[l].pc \notin {"failover", "limit"},
               UNCHANGED <<usingSingbox, age, tap>>,
               SingboxOurs' <=> SingboxOurs, TunnelOurs' => TunnelOurs,
               \/ UNCHANGED status
               \/ \A t \in Taps : tap[t].pc = "idle"
        PROVE  Ordinary'
    <2>1. Alone'
      BY <1>1, <1>2, <1>4 DEF Ordinary, Alone
    <2>2. Accounted'
      BY <1>1, <1>4 DEF Ordinary, Accounted, Off
    <2>3. CallsKnow'
      BY <1>1, <1>4 DEF Ordinary, CallsKnow, Connecting, InUse
    <2>4. LimitKnows'
      BY <1>1, <1>2, <1>4 DEF Ordinary, LimitKnows
    <2> QED BY <2>1, <2>2, <2>3, <2>4 DEF Ordinary
  <1>5. ASSUME Tick(l) PROVE Ordinary'
    <2>1. CASE SessionOver \/ ~LimitDue
      <3>1. loop'[l].pc \notin {"failover", "limit"}
        BY <1>1, <1>3, <1>5, <2>1 DEF Tick, NoLoop, LoopPC
      <3> QED BY <1>4, <1>5, <3>1, NativeClaims DEF Tick, session
    <2>2. CASE ~SessionOver /\ LimitDue
      <3>1. status = "connected" /\ age # "none"
        BY <2>2 DEF SessionOver
      <3>2. \A t \in Taps : tap[t].pc = "idle"
        BY <1>1, <3>1 DEF Ordinary, CallsKnow, Connecting
      <3>3. loop'[l].pc = "limit" /\ loop'[l].stops = InUse
        BY <1>1, <1>5, <2>2 DEF Tick, NoLoop
      <3>4. /\ UNCHANGED <<status, usingSingbox, age, tap>>
            /\ (SingboxOurs' <=> SingboxOurs) /\ (TunnelOurs' <=> TunnelOurs)
        BY <1>5, NativeClaims DEF Tick, session
      <3>5. Alone' /\ CallsKnow'
        BY <3>2, <3>4 DEF Alone, CallsKnow, Connecting
      <3>6. Accounted'
        BY <1>1, <3>4 DEF Ordinary, Accounted, Off
      <3>7. LimitKnows'
        BY <1>1, <1>2, <3>3, <3>4 DEF Ordinary, LimitKnows, Accounted, InUse
      <3> QED BY <3>5, <3>6, <3>7 DEF Ordinary
    <2> QED BY <2>1, <2>2
  <1>6. ASSUME StatsRead(l) \/ PingAnswered(l) PROVE Ordinary'
    BY <1>3, <1>4, <1>6, NativeClaims DEF StatsRead, PingAnswered, LoopPC, session
  <1>7. ASSUME PingFailed(l) PROVE Ordinary'
    <2>1. CASE GotoLoop(l, "asleep")
      BY <1>3, <1>4, <1>7, <2>1, NativeClaims DEF PingFailed, LoopPC
    <2>2. CASE ~GotoLoop(l, "asleep")
      <3>1. Quiet
        BY <1>7, <2>2 DEF PingFailed, MarkOverlap, Plain
      <3>2. loop'[l].pc = "failover"
        BY <1>1, <1>7, <2>2 DEF PingFailed, Loop
      <3>3. /\ UNCHANGED <<status, usingSingbox, age, tap>>
            /\ (SingboxOurs' <=> SingboxOurs) /\ (TunnelOurs' <=> TunnelOurs)
        BY <1>7, NativeClaims DEF PingFailed
      <3>4. Alone' /\ CallsKnow'
        BY <3>1, <3>3 DEF Quiet, Alone, CallsKnow, Connecting
      <3>5. Accounted'
        BY <1>1, <3>3 DEF Ordinary, Accounted, Off
      <3>6. LimitKnows'
        BY <1>2, <3>1, <3>2 DEF Quiet, LimitKnows
      <3> QED BY <3>4, <3>5, <3>6 DEF Ordinary
    <2> QED BY <2>1, <2>2
  <1>8. ASSUME FailedOver(l) PROVE Ordinary'
    <2>1. \A t \in Taps : tap[t].pc = "idle"
      BY <1>1, <1>8 DEF FailedOver, Ordinary, Alone
    <2>2. loop'[l].pc = "asleep"
      BY <1>1, <1>8 DEF FailedOver, Asleep, NoLoop
    <2>3. TunnelFailed(loop[l].server)
      BY <1>8 DEF FailedOver, MarkFailover, Plain
    <2> QED BY <1>4, <1>8, <2>1, <2>2, <2>3, NativeClaims DEF FailedOver
  <1>9. ASSUME LimitReached(l) PROVE Ordinary'
    <2>1. \A t \in Taps : tap[t].pc = "idle"
      BY <1>1, <1>9 DEF LimitReached, Ordinary, Alone
    <2>2. Off' /\ ~usingSingbox'
      <3>1. loop[l].stops \in Backend
        BY <1>1 DEF Loop
      <3> QED BY <1>1, <1>9, <2>1, <3>1, NativeClaims
            DEF LimitReached, StopNative, Off, Ordinary, Accounted, LimitKnows, Probing, Backend
    <2>3. Alone' /\ CallsKnow'
      BY <1>9, <2>1 DEF LimitReached, Alone, CallsKnow, Connecting
    <2>4. Accounted' /\ LimitKnows'
      BY <2>2 DEF Accounted, LimitKnows, Off
    <2> QED BY <2>3, <2>4 DEF Ordinary
  <1> QED BY <1>5, <1>6, <1>7, <1>8, <1>9 DEF LoopStep

\* A session that is shown as disconnected has no start time, whatever happened.
LEMMA DisconnectedIsOver ==
  ASSUME TypeOK, status = "disconnected" => age = "none", [Next]_vars
  PROVE  status' = "disconnected" => age' = "none"
  <1>1. ASSUME NEW t \in Taps, ConnectStep(t)
        PROVE  \/ UNCHANGED <<status, age>>
               \/ status' # "disconnected"
    BY <1>1 DEF ConnectStep, Prepared, Fetched, Started, PoolAnswered, PoolFailed,
                SingleAnswered, CacheRead, WireguardAnswered, Tried, Waited, Halted, Fail, FinishConnect,
                PathOneConnected, PathOneFailed, JugglerConnected, NextProtocol, Continue, session
  <1>2. ASSUME NEW l \in Loops, LoopStep(l)
        PROVE  \/ UNCHANGED <<status, age>>
               \/ status' # "disconnected"
    BY <1>2 DEF LoopStep, Tick, StatsRead, PingAnswered, PingFailed, FailedOver, LimitReached,
                session
  <1>3. CASE User
    BY <1>3 DEF User, Connect, Disconnect, SelectServer
  <1>4. CASE FiveMinutesPass
    BY <1>4 DEF FiveMinutesPass
  <1>5. CASE UNCHANGED vars
    BY <1>5 DEF vars, session
  <1>6. ASSUME NEW t \in Taps, Stopped(t) PROVE age' = "none"
    BY <1>6 DEF Stopped
  <1> QED BY <1>1, <1>2, <1>3, <1>4, <1>5, <1>6 DEF Next, TapStep

\* Nothing runs, is in flight or is out of the ordinary at the start.
LEMMA OrdinaryFromStart == Init => OrdinaryInv
  BY InitTypes
     DEF Init, OrdinaryInv, Ordinary, Alone, Accounted, CallsKnow, LimitKnows, Connecting, Off,
         IdleTap, NoLoop, Probing, SingboxOurs, TunnelOurs

\* The invariant that ordinary sessions keep.
LEMMA OrdinaryInductive == OrdinaryInv /\ [Next]_vars => OrdinaryInv'
  <1> SUFFICES ASSUME OrdinaryInv, [Next]_vars PROVE OrdinaryInv'
    OBVIOUS
  <1>1. TypeOK' /\ (status' = "disconnected" => age' = "none")
    BY NextTypes, DisconnectedIsOver DEF OrdinaryInv
  <1> SUFFICES ASSUME Plain' PROVE Ordinary'
    BY <1>1 DEF OrdinaryInv
  <1>2. CASE User
    BY <1>2, UserOrdinary
  <1>3. ASSUME NEW t \in Taps, TapStep(t) PROVE Ordinary'
    <2>1. Plain
      BY <1>3 DEF TapStep, ConnectStep, Prepared, Fetched, Started, PoolAnswered, PoolFailed,
                  SingleAnswered, CacheRead, WireguardAnswered, Tried, Waited, Halted, Stopped,
                  PathOneConnected, PathOneFailed, JugglerConnected, Continue, Plain
    <2> QED BY <1>3, <2>1, ConnectStepOrdinary, StoppedOrdinary DEF TapStep
  <1>4. ASSUME NEW l \in Loops, LoopStep(l) PROVE Ordinary'
    <2>1. Plain
      BY <1>4 DEF LoopStep, Tick, StatsRead, PingAnswered, PingFailed, FailedOver, LimitReached,
                  MarkOverlap, MarkFailover, Plain
    <2> QED BY <1>4, <2>1, LoopStepOrdinary
  <1>5. CASE FiveMinutesPass
    <2>1. Plain /\ Ordinary
      BY <1>5 DEF FiveMinutesPass, OrdinaryInv, Plain
    <2>2. (SingboxOurs' <=> SingboxOurs) /\ (TunnelOurs' <=> TunnelOurs)
      BY <1>5, NativeClaims DEF FiveMinutesPass
    <2> QED BY <1>5, <2>1, <2>2
          DEF FiveMinutesPass, Ordinary, Alone, Accounted, CallsKnow, LimitKnows, Connecting,
              Off, InUse
  <1>6. CASE UNCHANGED vars
    <2>1. Plain /\ Ordinary
      BY <1>6 DEF vars, OrdinaryInv, Plain
    <2>2. (SingboxOurs' <=> SingboxOurs) /\ (TunnelOurs' <=> TunnelOurs)
      BY <1>6, NativeClaims DEF vars
    <2> QED BY <1>6, <2>1, <2>2
          DEF vars, session, Ordinary, Alone, Accounted, CallsKnow, LimitKnows,
              Connecting, Off, InUse
  <1> QED BY <1>2, <1>3, <1>4, <1>5, <1>6 DEF Next

\* Nothing runs once an ordinary session is disconnected but what a failing call to
\* that service left running, however many calls, loops and servers there are
\* (service_provider.dart:350-371).
THEOREM OrdinaryTurnsOff == Spec => []OrdinarySessionsTurnOff
  <1>1. OrdinaryInv => OrdinarySessionsTurnOff
    BY DEF OrdinaryInv, OrdinarySessionsTurnOff, Plain, Ordinary, Accounted, Quiet, Probing
  <1> QED BY <1>1, OrdinaryFromStart, OrdinaryInductive, PTL DEF Spec

\* Nothing but what a failing call left runs behind the error of an ordinary session
\* that found no way through or reached its time limit (protocol_juggler.dart:267-317).
THEOREM ErrorsTurnOff == Spec => []ErrorsLeaveNothing
  <1>1. OrdinaryInv => ErrorsLeaveNothing
    BY DEF OrdinaryInv, ErrorsLeaveNothing, Plain, Ordinary, Accounted, Quiet, Probing
  <1> QED BY <1>1, OrdinaryFromStart, OrdinaryInductive, PTL DEF Spec

-----------------------------------------------------------------------------
(* The server shown as active is the one the tunnel goes to.               *)

\* While a call is under way the session is not connected, and what the call or a
\* failover is going to tunnel to is what is selected. What is stored under a server
\* is its configuration.
Steady ==
  /\ Alone
  /\ \A t \in Taps : tap[t].pc # "idle" => status # "connected"
  /\ \A t \in Taps :
       tap[t].pc \in {"single", "cached", "wireguard"} => tap[t].server = selected
  /\ \A l \in Loops : loop[l].pc = "failover" => loop[l].server = selected
  /\ status = "connected" /\ ~usingSingbox => active = wireguard
  /\ CacheInOrder

SteadyInv == TypeOK /\ (odd \subseteq {"failover"} => Steady)

\* What t's call must keep, next to calls that do not move.
Keeps(t) ==
  /\ tap[t].pc # "idle" => status # "connected"
  /\ tap[t].pc \in {"single", "cached", "wireguard"} => tap[t].server = selected
  /\ status = "connected" /\ ~usingSingbox => active = wireguard
  /\ CacheInOrder

\* A step of the only call in flight is judged by what it keeps.
LEMMA OneCallSteady ==
  ASSUME NEW t \in Taps,
         \A u \in Taps \ {t} : tap'[u].pc = "idle",
         \A l \in Loops : loop'[l].pc \notin {"failover", "limit"},
         Keeps(t)'
  PROVE  Steady'
  BY DEF Steady, Alone, Keeps

\* Before a step of a call it is the only one, and no loop drives a service.
LEMMA SteadyAlone ==
  ASSUME Steady, NEW t \in Taps, tap[t].pc # "idle"
  PROVE  /\ \A u \in Taps \ {t} : tap[u].pc = "idle"
         /\ \A l \in Loops : loop[l].pc \notin {"failover", "limit"}
         /\ Keeps(t) /\ status # "connected"
  BY DEF Steady, Alone, Keeps

\* A step of a call in flight, loops aside.
LEMMA CallSteady ==
  ASSUME TypeOK, Steady, NEW t \in Taps, tap[t].pc # "idle", NEW q,
         tap' = [tap EXCEPT ![t] = q],
         UNCHANGED loop \/ StartTimer,
         q.pc # "idle" => status' # "connected",
         q.pc \in {"single", "cached", "wireguard"} => q.server = selected',
         CacheInOrder',
         status' = "connected" /\ ~usingSingbox' => active' = wireguard'
  PROVE  Steady'
  <1>1. tap \in [Taps -> Tap]
    BY DEF TypeOK
  <1>2. tap'[t] = q /\ \A u \in Taps \ {t} : tap'[u] = tap[u]
    BY <1>1
  <1>3. \A l \in Loops : loop'[l].pc \notin {"failover", "limit"}
    BY SteadyAlone, TimerStarts
  <1>4. \A u \in Taps \ {t} : tap'[u].pc = "idle"
    BY <1>2, SteadyAlone
  <1>5. Keeps(t)'
    BY <1>2 DEF Keeps
  <1> QED BY <1>3, <1>4, <1>5, OneCallSteady

\* Every step of a call that connects keeps the session steady.
LEMMA ConnectStepSteady ==
  ASSUME TypeOK, Steady, NEW t \in Taps, ConnectStep(t),
         odd' \subseteq {"failover"}
  PROVE  Steady'
  <1>1. tap[t].pc # "idle"
    BY DEF ConnectStep, Prepared, Fetched, Started, PoolAnswered, PoolFailed,
           SingleAnswered, CacheRead, WireguardAnswered, Tried, Waited, Halted
  <1>2. status # "connected" /\ Keeps(t)
    BY <1>1, SteadyAlone
  <1>3. tap[t] \in Tap /\ tap \in [Taps -> Tap] /\ selected \in Servers
    BY DEF TypeOK
  <1>stored. CacheInOrder'
    <2>1. CASE SingleAnswered(t)
      <3>1. tap[t].server = selected
        BY <1>2, <2>1 DEF SingleAnswered, Keeps
      <3> QED BY <1>2, <1>3, <2>1, <3>1 DEF SingleAnswered, Store, Keeps, CacheInOrder, TypeOK
    <2>2. CASE CacheRead(t)
      BY <1>2, <2>2 DEF CacheRead, Keeps, CacheInOrder, TypeOK
    <2>3. CASE UNCHANGED wgCache
      BY <1>2, <2>3 DEF Keeps, CacheInOrder
    <2> QED BY <2>1, <2>2, <2>3 DEF ConnectStep
  <1>4. ASSUME Return(t), UNCHANGED loop, status' # "connected" PROVE Steady'
    BY <1>stored, <1>1, <1>4, CallSteady DEF Return, IdleTap
  <1>5. ASSUME NEW pc, Goto(t, pc), UNCHANGED loop, status' # "connected",
               pc \notin {"single", "cached", "wireguard"}
        PROVE  Steady'
    <2>1. PICK q : q = [tap[t] EXCEPT !.pc = pc]
      OBVIOUS
    <2>2. q.pc = pc
      BY <1>3, <2>1 DEF Tap
    <2> QED BY <1>stored, <1>1, <1>5, <2>1, <2>2, CallSteady DEF Goto
  <1>6. Fail(t) => Steady'
    BY <1>4 DEF Fail
  <1>7. ASSUME FinishConnect(t), usingSingbox' \/ wireguard' = selected PROVE Steady'
    BY <1>stored, <1>1, <1>7, CallSteady DEF FinishConnect, Return, IdleTap
  <1>8. CASE Prepared(t)
    <2>1. CASE Return(t) /\ UNCHANGED <<session, loop>>
      BY <1>2, <1>4, <2>1 DEF session
    <2>2. CASE /\ status' = "connecting" /\ UNCHANGED loop
               /\ Goto(t, "fetch") \/ Goto(t, "pool")
      BY <1>5, <2>2
    <2> QED BY <1>6, <1>8, <2>1, <2>2 DEF Prepared
  <1>9. PathOneFailed(t) => Steady'
    BY <1>2, <1>5 DEF PathOneFailed
  <1>10. CASE Fetched(t)
    BY <1>2, <1>5, <1>9, <1>10 DEF Fetched, Continue, session
  <1>11. CASE Started(t)
    <2>1. ~PathOneConnected(t)
      BY DEF PathOneConnected
    <2> QED BY <1>2, <1>5, <1>9, <1>11, <2>1 DEF Started, Continue, session
  <1>12. CASE PoolAnswered(t)
    <2>1. PICK s \in Servers, n \in 0..Protocols :
            /\ selected' = s
            /\ tap' = IF n > 0 THEN [tap EXCEPT ![t].pc = "try", ![t].left = n - 1]
                      ELSE [tap EXCEPT ![t].pc = "wireguard", ![t].server = s]
      BY <1>12 DEF PoolAnswered
    <2>2. UNCHANGED <<status, loop>>
      BY <1>12 DEF PoolAnswered
    <2>3. PICK q : q = IF n > 0 THEN [tap[t] EXCEPT !.pc = "try", !.left = n - 1]
                       ELSE [tap[t] EXCEPT !.pc = "wireguard", !.server = s]
      OBVIOUS
    <2>4. tap' = [tap EXCEPT ![t] = q]
      BY <1>3, <2>1, <2>3
    <2>5. (q.pc = "wireguard" /\ q.server = s) \/ q.pc = "try"
      BY <1>3, <2>3 DEF Tap
    <2> QED BY <1>1, <1>2, <2>1, <2>2, <2>4, <2>5, <1>stored, CallSteady
  <1>13. CASE PoolFailed(t)
    <2>1. PICK q : q = [tap[t] EXCEPT !.pc = "single", !.server = selected]
      OBVIOUS
    <2>2. tap' = [tap EXCEPT ![t] = q] /\ q.pc = "single" /\ q.server = selected
      BY <1>3, <1>13, <2>1 DEF PoolFailed, Tap
    <2>3. UNCHANGED <<status, selected, loop>>
      BY <1>13 DEF PoolFailed, session
    <2> QED BY <1>stored, <1>1, <1>2, <2>2, <2>3, CallSteady
  <1>14. CASE SingleAnswered(t)
    <2>1. UNCHANGED <<status, selected, loop>> /\ tap[t].server = selected
      BY <1>2, <1>14 DEF SingleAnswered, Continue, session, Keeps
    <2>2. PICK q : q = IF Goto(t, "wireguard") THEN [tap[t] EXCEPT !.pc = "wireguard"]
                       ELSE [tap[t] EXCEPT !.pc = "cached", !.server = selected]
      OBVIOUS
    <2>3. tap' = [tap EXCEPT ![t] = q] /\ q.pc # "idle" /\ q.server = selected
      BY <1>3, <1>14, <2>1, <2>2 DEF SingleAnswered, Goto, Tap
    <2> QED BY <1>stored, <1>1, <1>2, <2>1, <2>3, CallSteady
  <1>read. CASE CacheRead(t)
    <2>1. CASE Fail(t)
      BY <1>6, <2>1
    <2>2. CASE ~Fail(t)
      <3>1. tap[t].server = selected
        BY <1>2, <1>read DEF CacheRead, Keeps
      <3>2. PICK s \in Servers :
              wgCache[selected] = s /\ tap' = [tap EXCEPT ![t].pc = "wireguard", ![t].server = s]
        BY <1>read, <2>2, <3>1 DEF CacheRead
      <3>3. s = selected
        BY <1>2, <1>3, <3>2, NoneAssumption DEF Keeps, CacheInOrder
      <3>4. PICK q : q = [tap[t] EXCEPT !.pc = "wireguard", !.server = s]
        OBVIOUS
      <3>5. tap' = [tap EXCEPT ![t] = q] /\ q.pc = "wireguard" /\ q.server = selected
        BY <1>3, <3>2, <3>3, <3>4 DEF Tap
      <3>6. UNCHANGED <<status, selected, loop>>
        BY <1>read, <2>2 DEF CacheRead, session
      <3> QED BY <1>stored, <1>1, <1>2, <3>5, <3>6, CallSteady
    <2> QED BY <2>1, <2>2
  <1>15. CASE WireguardAnswered(t)
    <2>1. tap[t].server = selected
      BY <1>2, <1>15 DEF WireguardAnswered, Keeps
    <2> QED BY <1>6, <1>7, <1>15, <2>1 DEF WireguardAnswered, TunnelUp
  <1>16. NextProtocol(t) => Steady'
    <2> SUFFICES ASSUME NextProtocol(t) PROVE Steady'
      OBVIOUS
    <2>1. CASE ProtocolsLeft(t)
      <3>1. PICK q : q = [tap[t] EXCEPT !.pc = "try", !.left = @ - 1]
        OBVIOUS
      <3>2. tap' = [tap EXCEPT ![t] = q] /\ q.pc = "try" /\ UNCHANGED <<status, loop>>
        BY <1>3, <2>1, <3>1 DEF NextProtocol, Tap
      <3> QED BY <1>stored, <1>1, <1>2, <3>2, CallSteady
    <2>2. CASE ~ProtocolsLeft(t)
      BY <1>2, <1>5, <1>6, <2>2 DEF NextProtocol
    <2> QED BY <2>1, <2>2
  <1>17. CASE Tried(t)
    BY <1>2, <1>5, <1>6, <1>16, <1>17 DEF Tried, session
  <1>18. CASE Waited(t)
    BY <1>2, <1>5, <1>7, <1>18 DEF Waited, JugglerConnected, Continue, session
  <1>19. CASE Halted(t)
    BY <1>6, <1>16, <1>19 DEF Halted
  <1> QED BY <1>8, <1>10, <1>11, <1>12, <1>13, <1>14, <1>15, <1>17, <1>18, <1>19,
            <1>read
          DEF ConnectStep

\* A tap on the button or on another server keeps it steady, or is marked; one that
\* starts afresh makes it so.
LEMMA UserSteady ==
  ASSUME TypeOK, odd \subseteq {"failover"} => Steady, User, odd' \subseteq {"failover"}
  PROVE  Steady'
  <1>1. tap \in [Taps -> Tap] /\ UNCHANGED <<loop, native, active, usingSingbox, wgCache>>
    BY DEF TypeOK, User, Connect, Disconnect, SelectServer
  <1>2. ASSUME Quiet, NEW t \in Taps, NEW q, tap' = [tap EXCEPT ![t] = q],
               q.pc \notin {"single", "cached", "wireguard"}, status' # "connected", CacheInOrder
        PROVE  Steady'
    <2>1. tap'[t] = q /\ \A u \in Taps \ {t} : tap'[u].pc = "idle"
      BY <1>1, <1>2 DEF Quiet
    <2>2. \A l \in Loops : loop'[l].pc \notin {"failover", "limit"}
      BY <1>1, <1>2 DEF Quiet
    <2>3. Keeps(t)'
      BY <1>1, <1>2, <2>1 DEF Keeps, CacheInOrder
    <2> QED BY <2>1, <2>2, <2>3, OneCallSteady
  <1>3. ASSUME NEW t \in Taps, Connect(t) PROVE Steady'
    <2>1. Quiet /\ CacheInOrder
      <3>1. CASE Fresh
        BY <1>3, <3>1 DEF Connect, Fresh
      <3>2. CASE ~Fresh
        BY <1>3, <3>2 DEF Connect, MarkOverlap, Steady
      <3> QED BY <3>1, <3>2
    <2>2. PICK q : q = [IdleTap EXCEPT !.pc = "prepare"]
      OBVIOUS
    <2>3. q.pc = "prepare"
      BY <2>2 DEF IdleTap
    <2> QED BY <1>2, <1>3, <2>1, <2>2, <2>3 DEF Connect
  <1>4. ASSUME NEW t \in Taps, Disconnect(t) PROVE Steady'
    <2>1. Quiet /\ CacheInOrder
      BY <1>4 DEF Disconnect, MarkOverlap, Steady
    <2>2. PICK q : q = [IdleTap EXCEPT !.pc = "stop", !.stops = InUse]
      OBVIOUS
    <2>3. q.pc = "stop"
      BY <2>2 DEF IdleTap
    <2> QED BY <1>2, <1>4, <2>1, <2>2, <2>3 DEF Disconnect
  <1>5. ASSUME NEW s \in Servers, SelectServer(s) PROVE Steady'
    <2>1. Quiet /\ Steady
      BY <1>5 DEF SelectServer, MarkOverlap
    <2>2. UNCHANGED <<tap, loop, status, active, usingSingbox, wireguard>>
      BY <1>1, <1>5 DEF SelectServer, native
    <2> QED BY <1>1, <2>1, <2>2 DEF Steady, Alone, Quiet, CacheInOrder
  <1> QED BY <1>3, <1>4, <1>5 DEF User

\* A loop that begins a failover is going to tunnel to what it has selected, and one
\* that ends it shows what it tunnels to.
LEMMA LoopStepSteady ==
  ASSUME TypeOK, Steady, NEW l \in Loops, LoopStep(l), odd' \subseteq {"failover"}
  PROVE  Steady'
  <1>stored. CacheInOrder'
    BY DEF LoopStep, Steady, CacheInOrder
  <1>1. loop \in [Loops -> Loop] /\ loop[l] \in Loop /\ UNCHANGED tap
    BY DEF TypeOK, LoopStep, Tick, StatsRead, PingAnswered, PingFailed, FailedOver, LimitReached
  <1>2. ASSUME NEW q, loop' = [loop EXCEPT ![l] = q], UNCHANGED selected,
               q.pc # "failover",
               q.pc = "limit" => \A t \in Taps : tap[t].pc = "idle",
               \/ UNCHANGED <<status, usingSingbox, active, wireguard>>
               \/ status' = "error"
               \/ UNCHANGED status /\ active' = wireguard'
        PROVE  Steady'
    <2>1. loop'[l] = q /\ \A m \in Loops \ {l} : loop'[m] = loop[m]
      BY <1>1, <1>2
    <2>2. Alone'
      BY <1>1, <1>2, <2>1 DEF Steady, Alone
    <2>3. \A m \in Loops : loop'[m].pc = "failover" => loop'[m].server = selected'
      BY <1>2, <2>1 DEF Steady
    <2>4. status' = "connected" /\ ~usingSingbox' => active' = wireguard'
      BY <1>2 DEF Steady
    <2>5. \A t \in Taps : tap'[t].pc # "idle" => status' # "connected"
      BY <1>1, <1>2 DEF Steady
    <2> QED BY <1>stored, <1>1, <1>2, <2>2, <2>3, <2>4, <2>5 DEF Steady
  <1>3. ASSUME NEW pc \in {"asleep", "stats", "ping"}, GotoLoop(l, pc), UNCHANGED selected,
               UNCHANGED <<status, usingSingbox, active, wireguard>>
        PROVE  Steady'
    <2>1. PICK q : q = [loop[l] EXCEPT !.pc = pc]
      OBVIOUS
    <2>2. q.pc = pc /\ loop' = [loop EXCEPT ![l] = q]
      BY <1>1, <1>3, <2>1 DEF Loop, GotoLoop
    <2> QED BY <1>2, <1>3, <2>2
  <1>4. CASE Tick(l)
    <2>1. UNCHANGED <<status, usingSingbox, active, wireguard, selected>>
      BY <1>4 DEF Tick, session, native
    <2>2. CASE SessionOver
      BY <1>2, <1>4, <2>1, <2>2 DEF Tick, NoLoop
    <2>3. CASE ~SessionOver /\ LimitDue
      <3>1. \A t \in Taps : tap[t].pc = "idle"
        BY <2>3 DEF SessionOver, Steady
      <3>2. PICK q : q = [NoLoop EXCEPT !.pc = "limit", !.stops = InUse]
        OBVIOUS
      <3>3. q.pc = "limit" /\ loop' = [loop EXCEPT ![l] = q]
        BY <1>4, <2>3, <3>2 DEF Tick, NoLoop
      <3> QED BY <1>2, <2>1, <3>1, <3>3
    <2>4. CASE ~SessionOver /\ ~LimitDue
      BY <1>3, <1>4, <2>1, <2>4 DEF Tick
    <2> QED BY <2>2, <2>3, <2>4
  <1>5. CASE StatsRead(l)
    BY <1>3, <1>5 DEF StatsRead, session, native
  <1>6. CASE PingAnswered(l)
    BY <1>3, <1>6 DEF PingAnswered, native
  <1>7. CASE PingFailed(l)
    <2>1. UNCHANGED <<status, usingSingbox, active, wireguard>>
      BY <1>7 DEF PingFailed, native
    <2>2. CASE GotoLoop(l, "asleep") /\ UNCHANGED selected
      BY <1>3, <2>1, <2>2
    <2>3. CASE ~(GotoLoop(l, "asleep") /\ UNCHANGED selected)
      <3>1. PICK s \in Servers \ {selected} :
              /\ selected' = s /\ MarkOverlap
              /\ loop' = [loop EXCEPT ![l].pc = "failover", ![l].server = s]
        BY <1>7, <2>3 DEF PingFailed
      <3>2. Quiet
        BY <3>1 DEF MarkOverlap
      <3>3. /\ loop'[l].pc = "failover" /\ loop'[l].server = s
            /\ \A m \in Loops \ {l} : loop'[m] = loop[m]
        BY <1>1, <3>1 DEF Loop
      <3>4. \A m \in Loops : loop'[m].pc = "failover" => loop'[m].server = selected'
        BY <3>1, <3>2, <3>3 DEF Quiet
      <3>5. \A t \in Taps : tap'[t].pc = "idle"
        BY <1>1, <3>2 DEF Quiet
      <3> QED BY <1>stored, <2>1, <3>4, <3>5 DEF Steady, Alone
    <2> QED BY <2>2, <2>3
  <1>8. CASE FailedOver(l)
    <2>1. loop[l].server = selected
      BY <1>8 DEF FailedOver, Steady
    <2>2. PICK q : q = Asleep
      OBVIOUS
    <2>3. q.pc = "asleep"
      BY <2>2 DEF Asleep, NoLoop
    <2>4. loop' = [loop EXCEPT ![l] = q] /\ UNCHANGED selected
      BY <1>8, <2>2 DEF FailedOver
    <2>5. \/ status' = "error"
          \/ UNCHANGED status /\ active' = wireguard'
      BY <1>8, <2>1 DEF FailedOver, TunnelUp
    <2> QED BY <1>2, <2>3, <2>4, <2>5
  <1>9. CASE LimitReached(l)
    <2>1. PICK q : q = NoLoop
      OBVIOUS
    <2>2. q.pc = "none"
      BY <2>1 DEF NoLoop
    <2>3. loop' = [loop EXCEPT ![l] = q] /\ UNCHANGED selected /\ status' = "error"
      BY <1>9, <2>1 DEF LimitReached
    <2> QED BY <1>2, <2>2, <2>3
  <1> QED BY <1>4, <1>5, <1>6, <1>7, <1>8, <1>9 DEF LoopStep

LEMMA SteadyInductive == SteadyInv /\ [Next]_vars => SteadyInv'
  <1> SUFFICES ASSUME SteadyInv, [Next]_vars, odd' \subseteq {"failover"} PROVE Steady'
    BY NextTypes DEF SteadyInv
  <1>1. TypeOK /\ (odd \subseteq {"failover"} => Steady)
    BY DEF SteadyInv
  <1>2. CASE User
    BY <1>1, <1>2, UserSteady
  <1>3. ASSUME NEW t \in Taps, ConnectStep(t) PROVE Steady'
    <2>1. odd \subseteq {"failover"}
      BY <1>3 DEF ConnectStep, Prepared, Fetched, Started, PoolAnswered, PoolFailed,
                  SingleAnswered, CacheRead, WireguardAnswered, Tried, Waited, Halted,
                  PathOneConnected, PathOneFailed, JugglerConnected, Continue
    <2> QED BY <1>1, <1>3, <2>1, ConnectStepSteady
  <1>4. ASSUME NEW t \in Taps, Stopped(t), UNCHANGED wgCache PROVE Steady'
    <2>1. Steady
      BY <1>1, <1>4 DEF Stopped
    <2>2. CacheInOrder'
      BY <1>4, <2>1 DEF Steady, CacheInOrder
    <2> QED BY <1>1, <1>4, <2>1, <2>2, CallSteady DEF Stopped, Return, IdleTap
  <1>5. ASSUME NEW l \in Loops, LoopStep(l) PROVE Steady'
    <2>1. odd \subseteq {"failover"}
      BY <1>5 DEF LoopStep, Tick, StatsRead, PingAnswered, PingFailed, FailedOver, LimitReached,
                  MarkOverlap, MarkFailover
    <2> QED BY <1>1, <1>5, <2>1, LoopStepSteady
  <1>6. CASE FiveMinutesPass
    BY <1>1, <1>6 DEF FiveMinutesPass, Steady, Alone, native, CacheInOrder
  <1>7. CASE UNCHANGED vars
    BY <1>1, <1>7 DEF vars, session, native, Steady, Alone, CacheInOrder
  <1> QED BY <1>2, <1>3, <1>4, <1>5, <1>6, <1>7 DEF Next, TapStep

\* The server shown as active is the one the WireGuard tunnel goes to, through any
\* number of sessions and failovers and with stored configurations, unless the user
\* chose another one while a call was under way, in this session or in one whose
\* configuration is still stored (service_provider.dart:284-296, 338-348, 480).
THEOREM ActiveShowsTunnel == Spec => []ActiveIsTunnel
  <1>1. Init => SteadyInv
    BY InitTypes DEF Init, SteadyInv, Steady, Alone, CacheInOrder, IdleTap, NoLoop
  <1>2. SteadyInv => ActiveIsTunnel
    BY DEF SteadyInv, Steady, ActiveIsTunnel
  <1> QED BY <1>1, <1>2, SteadyInductive, PTL DEF Spec
=============================================================================
