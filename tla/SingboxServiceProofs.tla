------------------------ MODULE SingboxServiceProofs ------------------------
(***************************************************************************)
(* What holds of SingboxService for every set of requests and any number   *)
(* of service objects and stop calls: the types, that a request is         *)
(* answered at most once, and that an undisturbed session leaves nothing   *)
(* behind but, at worst, the TUN device on descriptor 0.                   *)
(***************************************************************************)
EXTENDS SingboxService, TLAPS

-----------------------------------------------------------------------------
(* Types.                                                                  *)

LEMMA InitTypes == Init => TypeOK
  <1> SUFFICES ASSUME Init PROVE TypeOK
    OBVIOUS
  <1>1. Idle \in Thread /\ Idle.pc = "idle" /\ None \in Owner
    BY BoundsAssumption DEF Idle, Thread, ThreadPC, Owner
  <1>2. /\ thread \in [Actors -> Thread]
        /\ \A a \in Actors : thread[a].pc # "idle" => thread[a].inst \in Instances
    BY <1>1 DEF Init
  <1>3. field \in [Instances -> [Resources -> Owner]]
    BY <1>1 DEF Init
  <1>4. /\ up \in [Resources -> SUBSET Requests] /\ answers \in [Requests -> Nat]
        /\ inbox \in Seq(Message)
    BY DEF Init
  <1>5. stops \in 0..MaxStops /\ started \in 0..MaxInstances
    BY BoundsAssumption DEF Init
  <1> QED BY <1>1, <1>2, <1>3, <1>4, <1>5 DEF Init, TypeOK

\* A service call puts a message of its own into the inbox.
LEMMA ServiceTypes ==
  ASSUME TypeOK, NEW kind \in {"start", "stop"}, NEW r \in Owner, StartService(kind, r)
  PROVE  /\ inbox' \in Seq(Message) /\ started' \in 0..MaxInstances
         /\ bound' \in {0, started'} /\ wanted' \in BOOLEAN
  <1>1. PICK k : k = IF bound # 0 THEN bound ELSE started + 1
    OBVIOUS
  <1>2. /\ k \in Instances /\ bound' = k /\ wanted' = TRUE
        /\ inbox' = Append(inbox, [kind |-> kind, inst |-> k, req |-> r])
        /\ started' = IF bound # 0 THEN started ELSE k
    BY <1>1 DEF StartService
  <1>3. [kind |-> kind, inst |-> k, req |-> r] \in Message
    BY <1>2 DEF Message
  <1>4. inbox' \in Seq(Message)
    BY <1>2, <1>3 DEF TypeOK
  <1>5. started' \in 0..MaxInstances /\ bound' \in {0, started'}
    BY <1>1, <1>2 DEF TypeOK, Instances
  <1> QED BY <1>2, <1>4, <1>5

\* What is to be shown of the threads when thread a moves on to local state q.
LEMMA ThreadTypes ==
  ASSUME TypeOK, NEW a \in Actors, NEW q \in Thread, q.pc # "idle" => q.inst \in Instances,
         thread' = [thread EXCEPT ![a] = q]
  PROVE  /\ thread' \in [Actors -> Thread]
         /\ \A b \in Actors : thread'[b].pc # "idle" => thread'[b].inst \in Instances
         /\ thread'[a] = q /\ \A b \in Actors \ {a} : thread'[b] = thread[b]
  BY DEF TypeOK

\* The local states a thread that is at work can move to.
LEMMA LocalTypes ==
  ASSUME TypeOK, NEW a \in Actors
  PROVE  /\ thread[a] \in Thread
         /\ \A pc \in ThreadPC : [thread[a] EXCEPT !.pc = pc] \in Thread
         /\ \A pc \in ThreadPC, p \in Owner :
              [thread[a] EXCEPT !.pc = pc, !.proc = p] \in Thread
         /\ thread[a].pc # "idle" => thread[a].inst \in Instances
         /\ thread[a].proc \in Owner /\ thread[a].pc \in ThreadPC
         /\ \A k \in Instances, pc \in ThreadPC, p \in Owner :
              [pc |-> pc, inst |-> k, proc |-> p] \in Thread
         /\ Idle \in Thread
  <1>1. thread[a] \in Thread /\ (thread[a].pc # "idle" => thread[a].inst \in Instances)
    BY DEF TypeOK
  <1>2. /\ \A pc \in ThreadPC : [thread[a] EXCEPT !.pc = pc] \in Thread
        /\ \A pc \in ThreadPC, p \in Owner :
             [thread[a] EXCEPT !.pc = pc, !.proc = p] \in Thread
    BY <1>1 DEF Thread
  <1>3. Idle \in Thread
    BY BoundsAssumption DEF Thread, Idle, Owner, ThreadPC
  <1>4. \A k \in Instances, pc \in ThreadPC, p \in Owner :
          [pc |-> pc, inst |-> k, proc |-> p] \in Thread
    BY BoundsAssumption DEF Thread, Instances
  <1>5. thread[a].proc \in Owner /\ thread[a].pc \in ThreadPC
    BY <1>1 DEF Thread
  <1> QED BY <1>1, <1>2, <1>3, <1>4, <1>5

\* Calls of the activity and the service's life cycle keep the types.
LEMMA ActivityTypes ==
  ASSUME TypeOK, (\E r \in Requests : Start(r)) \/ DialogAnswered \/ Stop \/ BringDown
  PROVE  TypeOK'
  <1>0. /\ UNCHANGED <<field, isRunning, thread, up, iface, stdin, unbridged, disturbed>>
        /\ None \in Owner
    BY DEF Start, DialogAnswered, Stop, BringDown, Owner, tunnel
  <1>1. ASSUME NEW r \in Requests, Start(r) PROVE TypeOK'
    <2>1. r \in Owner
      BY DEF Owner
    <2>2. CASE LaunchSingbox(r) /\ UNCHANGED <<dialogs, pending>>
      <3>1. StartService("start", r)
        BY <2>2 DEF LaunchSingbox
      <3>2. /\ inbox' \in Seq(Message) /\ started' \in 0..MaxInstances
            /\ bound' \in {0, started'} /\ wanted' \in BOOLEAN
        BY <2>1, <3>1, ServiceTypes
      <3>3. answers' \in [Requests -> Nat]
        BY <2>2 DEF LaunchSingbox, Answered, TypeOK
      <3> QED BY <1>0, <1>1, <2>2, <3>2, <3>3 DEF Start, TypeOK
    <2>3. CASE /\ pending' = r /\ dialogs' = dialogs + 1
               /\ UNCHANGED <<answers, inbox, started, bound, wanted>>
      BY <1>0, <1>1, <2>1, <2>3 DEF Start, TypeOK
    <2> QED BY <1>1, <2>2, <2>3 DEF Start
  <1>2. CASE DialogAnswered
    <2>1. /\ dialogs' = dialogs - 1 /\ dialogs > 0 /\ pending' = None
          /\ permitted' \in BOOLEAN /\ UNCHANGED <<asked, stops>>
          /\ \/ pending # None /\ LaunchSingbox(pending)
             \/ /\ answers' = IF pending = None THEN answers
                             ELSE [answers EXCEPT ![pending] = @ + 1]
                /\ UNCHANGED <<inbox, started, bound, wanted>>
      BY <1>2 DEF DialogAnswered, TypeOK
    <2>2. CASE pending # None /\ LaunchSingbox(pending)
      <3>1. StartService("start", pending) /\ pending \in Owner
        BY <2>2 DEF LaunchSingbox, TypeOK
      <3>2. /\ inbox' \in Seq(Message) /\ started' \in 0..MaxInstances
            /\ bound' \in {0, started'} /\ wanted' \in BOOLEAN
        BY <3>1, ServiceTypes
      <3>3. answers' \in [Requests -> Nat]
        BY <2>2 DEF LaunchSingbox, Answered, TypeOK, Owner
      <3> QED BY <1>0, <2>1, <3>2, <3>3 DEF TypeOK
    <2>3. CASE /\ answers' = IF pending = None THEN answers
                             ELSE [answers EXCEPT ![pending] = @ + 1]
               /\ UNCHANGED <<inbox, started, bound, wanted>>
      <3>1. answers' \in [Requests -> Nat]
        BY <2>3 DEF TypeOK, Owner
      <3> QED BY <1>0, <2>1, <2>3, <3>1 DEF TypeOK
    <2> QED BY <2>1, <2>2, <2>3
  <1>3. CASE Stop
    <2>1. StartService("stop", None) /\ stops' \in 0..MaxStops /\ UNCHANGED activity
      BY <1>3, BoundsAssumption DEF Stop, TypeOK
    <2>2. /\ inbox' \in Seq(Message) /\ started' \in 0..MaxInstances
          /\ bound' \in {0, started'} /\ wanted' \in BOOLEAN
      BY <1>0, <2>1, ServiceTypes
    <2> QED BY <1>0, <2>1, <2>2 DEF TypeOK, activity
  <1>4. CASE BringDown
    <2>1. [kind |-> "destroy", inst |-> bound, req |-> None] \in Message
      BY <1>0, <1>4 DEF BringDown, TypeOK, Message, Instances
    <2>2. inbox' \in Seq(Message) /\ bound' \in {0, started'}
      BY <1>4, <2>1 DEF BringDown, TypeOK
    <2> QED BY <1>0, <1>4, <2>2 DEF BringDown, TypeOK, activity
  <1> QED BY <1>1, <1>2, <1>3, <1>4

\* A step of stopAll keeps the types.
LEMMA StopTypes ==
  ASSUME TypeOK, NEW a \in Actors, StopStep(a) PROVE TypeOK'
  <1>1. PICK k : k = thread[a].inst
    OBVIOUS
  <1>2. /\ k \in Instances
        /\ field[k].tun2socks \in Owner /\ field[k].singbox \in Owner
    BY <1>1 DEF StopStep, StopBridge, StopProxy, Close, TypeOK, Resources
  <1>3. {"stopProxy", "close", "done"} \subseteq ThreadPC /\ None \in Owner
    BY DEF ThreadPC, Stopping, Owner
  <1>4. CASE StopBridge(a)
    <2>1. PICK q : q = [thread[a] EXCEPT !.pc = "stopProxy", !.proc = field[k].tun2socks]
      OBVIOUS
    <2>2. thread' = [thread EXCEPT ![a] = q]
      BY <1>1, <1>4, <2>1 DEF StopBridge, TypeOK
    <2>3. q \in Thread /\ q.inst = k
      BY <1>1, <1>2, <1>3, <2>1, LocalTypes DEF Thread
    <2>4. /\ thread' \in [Actors -> Thread]
          /\ \A b \in Actors : thread'[b].pc # "idle" => thread'[b].inst \in Instances
      BY <1>2, <2>2, <2>3, ThreadTypes
    <2> QED BY <1>4, <2>4 DEF StopBridge, TypeOK, activity, system, tunnel
  <1>5. CASE StopProxy(a)
    <2>1. PICK q : q = [thread[a] EXCEPT !.pc = "close", !.proc = field[k].singbox]
      OBVIOUS
    <2>2. thread' = [thread EXCEPT ![a] = q]
      BY <1>1, <1>5, <2>1 DEF StopProxy, TypeOK
    <2>3. q \in Thread /\ q.inst = k
      BY <1>1, <1>2, <1>3, <2>1, LocalTypes DEF Thread
    <2>4. /\ thread' \in [Actors -> Thread]
          /\ \A b \in Actors : thread'[b].pc # "idle" => thread'[b].inst \in Instances
      BY <1>2, <2>2, <2>3, ThreadTypes
    <2>5. field' \in [Instances -> [Resources -> Owner]]
      BY <1>1, <1>3, <1>5 DEF StopProxy, TypeOK
    <2> QED BY <1>5, <2>4, <2>5 DEF StopProxy, TypeOK, activity, system, tunnel
  <1>6. CASE Close(a)
    <2>1. PICK q : q = IF a \in Requests THEN [thread[a] EXCEPT !.pc = "done", !.proc = None]
                       ELSE Idle
      OBVIOUS
    <2>2. thread' = [thread EXCEPT ![a] = q]
      BY <1>6, <2>1 DEF Close, TypeOK
    <2>3. q \in Thread /\ (q.pc # "idle" => q.inst = k)
      BY <1>1, <1>2, <1>3, <2>1, LocalTypes DEF Thread, Idle
    <2>4. /\ thread' \in [Actors -> Thread]
          /\ \A b \in Actors : thread'[b].pc # "idle" => thread'[b].inst \in Instances
      BY <1>2, <2>2, <2>3, ThreadTypes
    <2>5. field' \in [Instances -> [Resources -> Owner]]
      BY <1>1, <1>3, <1>6 DEF Close, TypeOK
    <2>6. up' \in [Resources -> SUBSET Requests] /\ wanted' \in BOOLEAN
      BY <1>6 DEF Close, StopSelf, TypeOK, Resources
    <2> QED BY <1>6, <2>4, <2>5, <2>6 DEF Close, TypeOK, activity, tunnel
  <1> QED BY <1>4, <1>5, <1>6 DEF StopStep

\* So do the callbacks of the service.
LEMMA CallbackTypes ==
  ASSUME TypeOK, Handle \/ Revoked PROVE TypeOK'
  <1>1. /\ Main \in Actors /\ Binder \in Actors /\ None \in Owner
        /\ {"open", "stopBridge"} \subseteq ThreadPC
    BY DEF Actors, Owner, ThreadPC, Starting, Stopping
  <1>2. ASSUME NEW a \in Actors, NEW k \in Instances, StopAll(a, k)
        PROVE  /\ thread' \in [Actors -> Thread] /\ disturbed' \in BOOLEAN
               /\ \A b \in Actors : thread'[b].pc # "idle" => thread'[b].inst \in Instances
    <2>1. PICK q : q = [pc |-> "stopBridge", inst |-> k, proc |-> None]
      OBVIOUS
    <2>2. q \in Thread /\ q.inst = k
      BY <1>1, <2>1, LocalTypes DEF Thread
    <2>3. thread' = [thread EXCEPT ![a] = q]
      BY <1>2, <2>1 DEF StopAll
    <2> QED BY <1>2, <2>2, <2>3, ThreadTypes DEF StopAll, TypeOK
  <1>3. CASE Handle
    <2>1. PICK m : m = Head(inbox)
      OBVIOUS
    <2>2. m \in Message /\ inbox' \in Seq(Message)
      BY <1>3, <2>1 DEF Handle, TypeOK
    <2>3. /\ thread' \in [Actors -> Thread] /\ disturbed' \in BOOLEAN
          /\ \A b \in Actors : thread'[b].pc # "idle" => thread'[b].inst \in Instances
      <3>1. CASE m.kind = "start"
        <4>1. PICK q : q = [pc |-> "open", inst |-> m.inst, proc |-> None]
          OBVIOUS
        <4>2. thread' = [thread EXCEPT ![m.req] = q] /\ disturbed' \in BOOLEAN
          BY <1>3, <2>1, <3>1, <4>1 DEF Handle, TypeOK
        <4>3. m.inst \in Instances /\ q \in Thread /\ q.inst = m.inst
          BY <1>1, <2>2, <4>1, LocalTypes DEF Message, Thread
        <4>4. CASE m.req \in Actors
          BY <4>2, <4>3, <4>4, ThreadTypes
        <4>5. CASE m.req \notin Actors
          <5>1. thread' = thread
            BY <4>2, <4>5 DEF TypeOK
          <5> QED BY <4>2, <5>1 DEF TypeOK
        <4> QED BY <4>4, <4>5
      <3>2. CASE m.kind # "start"
        <4>1. StopAll(Main, m.inst) /\ m.inst \in Instances
          BY <1>3, <2>1, <2>2, <3>2 DEF Handle, Message
        <4> QED BY <1>1, <1>2, <4>1
      <3> QED BY <3>1, <3>2
    <2> QED BY <1>3, <2>2, <2>3 DEF Handle, TypeOK, activity, tunnel
  <1>4. CASE Revoked
    <2>1. StopAll(Binder, bound) /\ bound \in Instances
      BY <1>4 DEF Revoked, TypeOK, Instances
    <2>2. /\ thread' \in [Actors -> Thread] /\ disturbed' \in BOOLEAN
          /\ \A b \in Actors : thread'[b].pc # "idle" => thread'[b].inst \in Instances
      BY <1>1, <1>2, <2>1
    <2> QED BY <1>1, <1>4, <2>2 DEF Revoked, TypeOK, system
  <1> QED BY <1>3, <1>4

\* A worker that moves on, or throws, keeps the types of its thread.
LEMMA WorkerMoves ==
  ASSUME TypeOK, NEW r \in Requests, thread[r].pc # "idle"
  PROVE  /\ \A pc \in ThreadPC :
              Goto(r, pc) =>
                /\ thread' \in [Actors -> Thread]
                /\ \A b \in Actors : thread'[b].pc # "idle" => thread'[b].inst \in Instances
         /\ \A pc \in ThreadPC, p \in Owner :
              thread' = [thread EXCEPT ![r].pc = pc, ![r].proc = p] =>
                /\ thread' \in [Actors -> Thread]
                /\ \A b \in Actors : thread'[b].pc # "idle" => thread'[b].inst \in Instances
  <1>1. r \in Actors /\ thread[r].inst \in Instances /\ thread[r] \in Thread
    BY DEF Actors, TypeOK
  <1>2. ASSUME NEW pc \in ThreadPC, Goto(r, pc)
        PROVE  /\ thread' \in [Actors -> Thread]
               /\ \A b \in Actors : thread'[b].pc # "idle" => thread'[b].inst \in Instances
    <2>1. PICK q : q = [thread[r] EXCEPT !.pc = pc]
      OBVIOUS
    <2>2. thread' = [thread EXCEPT ![r] = q]
      BY <1>2, <2>1 DEF Goto
    <2>3. q \in Thread /\ q.inst = thread[r].inst
      BY <1>1, <2>1, LocalTypes DEF Thread
    <2> QED BY <1>1, <2>2, <2>3, ThreadTypes
  <1>3. ASSUME NEW pc \in ThreadPC, NEW p \in Owner,
               thread' = [thread EXCEPT ![r].pc = pc, ![r].proc = p]
        PROVE  /\ thread' \in [Actors -> Thread]
               /\ \A b \in Actors : thread'[b].pc # "idle" => thread'[b].inst \in Instances
    <2>1. PICK q : q = [thread[r] EXCEPT !.pc = pc, !.proc = p]
      OBVIOUS
    <2>2. thread' = [thread EXCEPT ![r] = q]
      BY <1>1, <1>3, <2>1 DEF TypeOK
    <2>3. q \in Thread /\ q.inst = thread[r].inst
      BY <1>1, <2>1, LocalTypes DEF Thread
    <2> QED BY <1>1, <2>2, <2>3, ThreadTypes
  <1> QED BY <1>2, <1>3

\* So does a worker that takes what it opened.
LEMMA TakeTypes ==
  ASSUME TypeOK, NEW r \in Requests, NEW x \in Resources, NEW pc \in ThreadPC,
         thread[r].pc # "idle", Take(r, x, pc), UNCHANGED <<activity, system, disturbed>>,
         iface' \in Owner, stdin' \in Owner, unbridged' \subseteq Requests
  PROVE  TypeOK'
  <1>1. /\ thread' \in [Actors -> Thread]
        /\ \A b \in Actors : thread'[b].pc # "idle" => thread'[b].inst \in Instances
    BY WorkerMoves DEF Take
  <1>2. field' \in [Instances -> [Resources -> Owner]]
    <2>1. r \in Owner /\ thread[r].inst \in Instances
      BY DEF Owner, TypeOK, Actors
    <2> QED BY <2>1 DEF Take, Assign, TypeOK
  <1>3. up' \in [Resources -> SUBSET Requests]
    BY DEF Take, Acquire, TypeOK
  <1> QED BY <1>1, <1>2, <1>3 DEF Take, TypeOK, activity, system

\* So does every step of a worker.
LEMMA WorkerTypes ==
  ASSUME TypeOK, NEW r \in Requests, WorkerStep(r) PROVE TypeOK'
  <1>1. /\ r \in Actors /\ None \in Owner
        /\ Starting \subseteq ThreadPC /\ {"wait", "stopBridge"} \subseteq ThreadPC
    BY DEF Actors, Owner, ThreadPC, Stopping
  <1>2. CASE StopStep(r)
    BY <1>1, <1>2, StopTypes
  <1>3. CASE \E pc, p : /\ pc \in ThreadPC /\ p \in Owner /\ thread[r].pc # "idle"
                        /\ thread' = [thread EXCEPT ![r].pc = pc, ![r].proc = p]
                        /\ UNCHANGED <<activity, system, disturbed, field, up>>
                        /\ isRunning' \in BOOLEAN
                        /\ iface' \in Owner /\ stdin' \in Owner /\ unbridged' \subseteq Requests
    <2>1. /\ thread' \in [Actors -> Thread]
          /\ \A b \in Actors : thread'[b].pc # "idle" => thread'[b].inst \in Instances
      BY <1>3, WorkerMoves
    <2> QED BY <1>3, <2>1 DEF TypeOK, activity, system
  <1>4. ASSUME thread[r].pc # "idle", Throws(r), UNCHANGED <<activity, system, disturbed>>,
               iface' \in Owner, stdin' \in Owner, unbridged' \subseteq Requests
        PROVE  TypeOK'
    BY <1>1, <1>3, <1>4 DEF Throws, Finally, TypeOK
  <1>13. /\ iface \in Owner /\ stdin \in Owner /\ unbridged \subseteq Requests
         /\ r \in Owner
    BY DEF TypeOK, Owner
  <1>5. CASE Open(r)
    <2>1. iface' \in Owner /\ stdin' \in Owner /\ unbridged' \subseteq Requests
      BY <1>5, <1>13 DEF Open
    <2> QED BY <1>1, <1>4, <1>5, <2>1, TakeTypes DEF Open, Worker, Resources, Starting
  <1>6. CASE Dup(r)
    <2>1. iface' \in Owner /\ stdin' \in Owner /\ unbridged' \subseteq Requests
      BY <1>6, <1>13 DEF Dup, tunnel
    <2> QED BY <1>1, <1>4, <1>6, <2>1, TakeTypes DEF Dup, Worker, Resources, Starting
  <1>7. CASE Spawn(r)
    <2>1. iface' \in Owner /\ stdin' \in Owner /\ unbridged' \subseteq Requests
      BY <1>7, <1>13 DEF Spawn, tunnel
    <2> QED BY <1>1, <1>4, <1>7, <2>1, TakeTypes DEF Spawn, Worker, Resources, Starting
  <1>8. CASE Bridge(r)
    <2>1. iface' \in Owner /\ stdin' \in Owner /\ unbridged' \subseteq Requests
      BY <1>1, <1>8, <1>13 DEF Bridge
    <2> QED BY <1>1, <1>4, <1>8, <2>1, TakeTypes DEF Bridge, Worker, Resources, Starting
  <1>9. \A x \in Resources : thread[r].pc # "idle" => field[thread[r].inst][x] \in Owner
    BY <1>1 DEF TypeOK
  <1>10. CASE Spawned(r)
    BY <1>1, <1>3, <1>4, <1>9, <1>10, <1>13
       DEF Spawned, Worker, Resources, Starting, TypeOK, tunnel
  <1>11. CASE Bridged(r)
    BY <1>1, <1>3, <1>4, <1>9, <1>11, <1>13
       DEF Bridged, Worker, Resources, Starting, tunnel
  <1>12. CASE Wait(r)
    BY <1>1, <1>3, <1>12, <1>13 DEF Wait, Worker, Finally, TypeOK, tunnel
  <1> QED BY <1>2, <1>5, <1>6, <1>7, <1>8, <1>10, <1>11, <1>12 DEF WorkerStep

LEMMA NextTypes == TypeOK /\ [Next]_vars => TypeOK'
  <1> SUFFICES ASSUME TypeOK, [Next]_vars PROVE TypeOK'
    OBVIOUS
  <1>1. ASSUME NEW r \in Requests, NEW x \in {"singbox", "tun2socks"}, Dies(x, r)
        PROVE  TypeOK'
    <2>1. up' \in [Resources -> SUBSET Requests]
      BY <1>1 DEF Dies, TypeOK
    <2> QED BY <1>1, <2>1 DEF Dies, TypeOK, activity, system, tunnel
  <1>2. Main \in Actors /\ Binder \in Actors
    BY DEF Actors
  <1>3. CASE UNCHANGED vars
    BY <1>3 DEF vars, TypeOK, activity, system, tunnel
  <1> QED BY <1>1, <1>2, <1>3, ActivityTypes, StopTypes, CallbackTypes, WorkerTypes DEF Next

\* The types of SingboxService.
THEOREM TypeCorrect == Spec => []TypeOK
  <1> QED BY InitTypes, NextTypes, PTL DEF Spec

-----------------------------------------------------------------------------
(* A request is answered at most once.                                     *)

\* A request that was not made, or waits for a dialog, has no answer yet; the
\* one that waits was made.
AnswerInv ==
  /\ AnsweredOnce
  /\ \A r \in Requests : r \notin asked \/ r = pending => answers[r] = 0
  /\ pending \in asked \cup {None}

LEMMA AnswerInductive == TypeOK /\ AnswerInv /\ [Next]_vars => AnswerInv'
  <1> SUFFICES ASSUME TypeOK, AnswerInv, [Next]_vars PROVE AnswerInv'
    OBVIOUS
  <1>1. /\ answers \in [Requests -> Nat] /\ asked \subseteq Requests
        /\ None \notin Requests /\ pending \in Requests \cup {None}
    BY ActorsAssumption DEF TypeOK, Owner
  <1>2. ASSUME UNCHANGED <<pending, asked, answers>> PROVE AnswerInv'
    BY <1>2 DEF AnswerInv, AnsweredOnce
  <1>3. ASSUME NEW r \in Requests, Start(r) PROVE AnswerInv'
    <2>1. /\ r \notin asked /\ asked' = asked \cup {r} /\ answers[r] = 0 /\ pending # r
          /\ \/ answers' = [answers EXCEPT ![r] = @ + 1] /\ UNCHANGED pending
             \/ pending' = r /\ UNCHANGED answers
      BY <1>1, <1>3 DEF Start, LaunchSingbox, Answered, AnswerInv
    <2> QED BY <1>1, <2>1 DEF AnswerInv, AnsweredOnce
  <1>4. CASE DialogAnswered
    <2>1. /\ pending' = None /\ UNCHANGED asked
          /\ answers' = IF pending = None THEN answers
                        ELSE [answers EXCEPT ![pending] = @ + 1]
      BY <1>4 DEF DialogAnswered, LaunchSingbox, Answered
    <2>2. pending # None => pending \in Requests /\ answers[pending] = 0 /\ pending \in asked
      BY <1>1 DEF AnswerInv
    <2> QED BY <1>1, <2>1, <2>2 DEF AnswerInv, AnsweredOnce
  <1>5. ASSUME NEW a \in Actors, StopStep(a) PROVE AnswerInv'
    BY <1>2, <1>5 DEF StopStep, StopBridge, StopProxy, Close, activity
  <1>6. ASSUME NEW r \in Requests, WorkerStep(r) PROVE AnswerInv'
    <2>1. r \in Actors
      BY DEF Actors
    <2> QED BY <1>2, <1>5, <1>6, <2>1
            DEF WorkerStep, Worker, Open, Dup, Spawn, Spawned, Bridge, Bridged, Wait, activity
  <1>7. ASSUME NEW r \in Requests, NEW x \in {"singbox", "tun2socks"}, Dies(x, r)
        PROVE  AnswerInv'
    BY <1>2, <1>7 DEF Dies, activity
  <1>8. CASE Stop \/ Handle \/ BringDown \/ Revoked
    BY <1>2, <1>8 DEF Stop, Handle, BringDown, Revoked, activity
  <1>9. CASE UNCHANGED vars
    BY <1>2, <1>9 DEF vars, activity
  <1>10. Main \in Actors /\ Binder \in Actors
    BY DEF Actors
  <1> QED BY <1>3, <1>4, <1>5, <1>6, <1>7, <1>8, <1>9, <1>10 DEF Next

\* No request is answered twice, whatever dialogs are answered in whatever order
\* (MainActivity, the sing-box channel).
THEOREM OneAnswer == Spec => []AnsweredOnce
  <1>1. Init => AnswerInv
    BY DEF Init, AnswerInv, AnsweredOnce
  <1>2. AnswerInv => AnsweredOnce
    BY DEF AnswerInv
  <1> QED BY <1>1, <1>2, TypeCorrect, AnswerInductive, PTL DEF Spec

-----------------------------------------------------------------------------
(* Nothing is left behind.                                                 *)

Quiet(a) == thread[a].pc \in {"idle", "done"}

\* What a worker opened is in the fields of its service object, nothing else is
\* at work while it starts, and it has given everything back when it is done.
\* Whoever stops the object knows the process it waits for.
Left ==
  /\ \A r \in Requests : Quiet(r) => \A x \in Resources : r \notin up[x]
  /\ \A x \in Resources : \A r \in up[x] : field[thread[r].inst][x] = r
  /\ \A r \in Requests : thread[r].pc \in Starting => \A a \in Actors \ {r} : Quiet(a)
  /\ \A a \in Actors, r \in Requests : thread[a].inst = thread[r].inst =>
       /\ thread[a].pc = "stopProxy" /\ r \in up.tun2socks => thread[a].proc = r
       /\ thread[a].pc = "close" => r \notin up.tun2socks
       /\ thread[a].pc = "close" /\ r \in up.singbox => thread[a].proc = r

LeftInv == ~disturbed => Left

\* A worker is a thread of its own.
LEMMA WorkersAreActors ==
  /\ Requests \subseteq Actors /\ Main \in Actors /\ Binder \in Actors
  /\ Main \notin Requests /\ Binder \notin Requests
  BY ActorsAssumption DEF Actors

\* Steps that leave threads, fields and what is up alone.
LEMMA IdleLeft ==
  ASSUME Left, UNCHANGED <<field, thread, up>> PROVE Left'
  BY DEF Left, Quiet

\* The end of a process.
LEMMA DiesLeft ==
  ASSUME TypeOK, Left, NEW r \in Requests, NEW x \in {"singbox", "tun2socks"}, Dies(x, r)
  PROVE  Left'
  <1>1. /\ UNCHANGED <<field, thread>>
        /\ up \in [Resources -> SUBSET Requests] /\ up' = [up EXCEPT ![x] = @ \ {r}]
    BY DEF Dies, TypeOK
  <1>2. /\ \A y \in Resources : up'[y] \subseteq up[y]
        /\ up'.tun2socks \subseteq up.tun2socks /\ up'.singbox \subseteq up.singbox
    BY <1>1 DEF Resources
  <1> QED BY <1>1, <1>2 DEF Left, Quiet

\* stopAll clears a field when what it named is gone.
LEMMA StopLeft ==
  ASSUME TypeOK, Left, NEW a \in Actors, StopStep(a) PROVE Left'
  <1>1. PICK k : k = thread[a].inst
    OBVIOUS
  <1>2. /\ thread \in [Actors -> Thread] /\ up \in [Resources -> SUBSET Requests]
        /\ k \in Instances /\ field \in [Instances -> [Resources -> Owner]]
        /\ {"tun", "dup", "singbox", "tun2socks"} = Resources
        /\ ~Quiet(a) /\ thread[a].pc \notin Starting
    BY <1>1 DEF StopStep, StopBridge, StopProxy, Close, TypeOK, Resources, Quiet, Starting
  <1>3. \A r \in Requests : thread[r].pc \notin Starting
    BY <1>2 DEF Left
  <1>4. CASE StopBridge(a)
    <2>1. PICK p : p = field[k].tun2socks
      OBVIOUS
    <2>2. /\ UNCHANGED <<field, up>>
          /\ thread' = [thread EXCEPT ![a].pc = "stopProxy", ![a].proc = p]
      BY <1>1, <1>4, <2>1 DEF StopBridge
    <2>3. /\ thread'[a].pc = "stopProxy" /\ thread'[a].proc = p /\ thread'[a].inst = k
          /\ \A b \in Actors \ {a} : thread'[b] = thread[b]
          /\ \A b \in Actors : thread'[b].inst = thread[b].inst
      BY <1>1, <1>2, <2>2 DEF Thread
    <2>4. \A r \in Requests : thread[r].inst = k /\ r \in up.tun2socks => p = r
      BY <1>2, <2>1 DEF Left
    <2>5. \A r \in Requests : thread'[r].pc \notin Starting
      BY <1>3, <2>3, WorkersAreActors DEF Starting
    <2>6. \A r \in Requests : Quiet(r)' => Quiet(r)
      BY <2>3, WorkersAreActors DEF Quiet
    <2>7. \A b \in Actors, r \in Requests : thread'[b].inst = thread'[r].inst =>
            /\ thread'[b].pc = "stopProxy" /\ r \in up.tun2socks => thread'[b].proc = r
            /\ thread'[b].pc = "close" => r \notin up.tun2socks
            /\ thread'[b].pc = "close" /\ r \in up.singbox => thread'[b].proc = r
      BY <1>1, <2>3, <2>4, WorkersAreActors DEF Left
    <2>8. \A x \in Resources : \A r \in up[x] : field[thread'[r].inst][x] = r
      BY <1>2, <2>3, WorkersAreActors DEF Left
    <2> QED BY <2>2, <2>5, <2>6, <2>7, <2>8 DEF Left
  <1>5. CASE StopProxy(a)
    <2>1. PICK p : p = field[k].singbox
      OBVIOUS
    <2>2. /\ UNCHANGED up /\ field' = [field EXCEPT ![k].tun2socks = None]
          /\ thread' = [thread EXCEPT ![a].pc = "close", ![a].proc = p]
          /\ thread[a].proc \notin up.tun2socks /\ thread[a].pc = "stopProxy"
      BY <1>1, <1>5, <2>1 DEF StopProxy
    <2>3. /\ thread'[a].pc = "close" /\ thread'[a].proc = p /\ thread'[a].inst = k
          /\ \A b \in Actors \ {a} : thread'[b] = thread[b]
          /\ \A b \in Actors : thread'[b].inst = thread[b].inst
      BY <1>1, <1>2, <2>2 DEF Thread
    <2>4. \A r \in Requests : thread[r].inst = k =>
            r \notin up.tun2socks /\ (r \in up.singbox => p = r)
      BY <1>1, <1>2, <2>1, <2>2 DEF Left
    <2>5. \A r \in Requests : thread'[r].pc \notin Starting
      BY <1>3, <2>3, WorkersAreActors DEF Starting
    <2>6. \A r \in Requests : Quiet(r)' => Quiet(r)
      BY <2>3, WorkersAreActors DEF Quiet
    <2>7. \A b \in Actors, r \in Requests : thread'[b].inst = thread'[r].inst =>
            /\ thread'[b].pc = "stopProxy" /\ r \in up.tun2socks => thread'[b].proc = r
            /\ thread'[b].pc = "close" => r \notin up.tun2socks
            /\ thread'[b].pc = "close" /\ r \in up.singbox => thread'[b].proc = r
      BY <1>1, <2>3, <2>4, WorkersAreActors DEF Left
    <2>8. ASSUME NEW x \in Resources, NEW r \in up[x]
          PROVE  field'[thread'[r].inst][x] = r
      <3>1. /\ r \in Requests /\ thread'[r].inst = thread[r].inst
            /\ field[thread[r].inst][x] = r
        BY <1>2, <2>3, WorkersAreActors DEF Left
      <3>2. thread[r].inst = k => x # "tun2socks"
        BY <2>4, <3>1
      <3>3. field'[thread[r].inst][x] = field[thread[r].inst][x]
        BY <1>2, <2>2, <3>2
      <3> QED BY <3>1, <3>3
    <2> QED BY <2>2, <2>5, <2>6, <2>7, <2>8 DEF Left
  <1>6. CASE Close(a)
    <2>1. PICK q : q = IF a \in Requests THEN [thread[a] EXCEPT !.pc = "done", !.proc = None]
                       ELSE Idle
      OBVIOUS
    <2>2. /\ thread' = [thread EXCEPT ![a] = q]
          /\ field' = [field EXCEPT ![k].singbox = None, ![k].dup = None, ![k].tun = None]
          /\ up' = [up EXCEPT !.dup = @ \ {field[k].dup}, !.tun = @ \ {field[k].tun}]
          /\ thread[a].proc \notin up.singbox /\ thread[a].pc = "close"
      BY <1>1, <1>2, <1>6, <2>1 DEF Close
    <2>3. /\ thread'[a] = q /\ q.pc \in {"idle", "done"}
          /\ a \in Requests => q.inst = k
          /\ \A b \in Actors \ {a} : thread'[b] = thread[b]
      BY <1>1, <1>2, <2>1, <2>2 DEF Thread, Idle
    <2>4. \A r \in Requests : thread'[r].inst = thread[r].inst
      BY <1>1, <2>3, WorkersAreActors
    <2>5. /\ up'.tun2socks = up.tun2socks /\ up'.singbox = up.singbox
          /\ up'.tun = up.tun \ {field[k].tun} /\ up'.dup = up.dup \ {field[k].dup}
      BY <1>2, <2>2
    <2>6. \A r \in Requests : thread[r].inst = k => \A x \in Resources : r \notin up'[x]
      BY <1>1, <1>2, <2>2, <2>5 DEF Left
    <2>7. \A r \in Requests : thread'[r].pc \notin Starting
      BY <1>3, <2>3, WorkersAreActors DEF Starting
    <2>8. \A x \in Resources : up'[x] \subseteq up[x]
      BY <1>2, <2>5
    <2>9. ASSUME NEW r \in Requests, Quiet(r)' PROVE \A x \in Resources : r \notin up'[x]
      BY <1>1, <2>3, <2>6, <2>8, <2>9, WorkersAreActors DEF Quiet, Left
    <2>10. \A b \in Actors, r \in Requests : thread'[b].inst = thread'[r].inst =>
            /\ thread'[b].pc = "stopProxy" /\ r \in up'.tun2socks => thread'[b].proc = r
            /\ thread'[b].pc = "close" => r \notin up'.tun2socks
            /\ thread'[b].pc = "close" /\ r \in up'.singbox => thread'[b].proc = r
      BY <2>3, <2>4, <2>5 DEF Left
    <2>11. ASSUME NEW x \in Resources, NEW r \in up'[x]
           PROVE  field'[thread'[r].inst][x] = r
      <3>1. /\ r \in Requests /\ thread'[r].inst = thread[r].inst
            /\ field[thread[r].inst][x] = r /\ thread[r].inst # k
        BY <1>2, <2>4, <2>6, <2>8 DEF Left
      <3>2. thread[r].inst \in Instances
        <4>1. thread[r].pc # "idle"
          BY <1>2, <2>8, <3>1 DEF Left, Quiet
        <4> QED BY <3>1, <4>1, WorkersAreActors DEF TypeOK
      <3>3. field'[thread[r].inst] = field[thread[r].inst]
        BY <1>2, <2>2, <3>1, <3>2
      <3> QED BY <3>1, <3>3
    <2> QED BY <2>7, <2>9, <2>10, <2>11 DEF Left
  <1> QED BY <1>4, <1>5, <1>6 DEF StopStep

\* A start that meets no thread at work, a stop that meets no worker starting.
LEMMA CallbackLeft ==
  ASSUME TypeOK, Left, Handle \/ Revoked, ~disturbed' PROVE Left'
  <1>1. UNCHANGED <<field, up>> /\ thread \in [Actors -> Thread]
    BY DEF Handle, Revoked, TypeOK, system
  <1>2. ASSUME NEW a \in {Main, Binder}, NEW k, StopAll(a, k) PROVE Left'
    <2>1. /\ thread'[a].pc = "stopBridge" /\ a \notin Requests /\ a \in Actors
          /\ \A b \in Actors \ {a} : thread'[b] = thread[b]
          /\ \A r \in Requests : thread'[r] = thread[r] /\ thread[r].pc \notin Starting
      BY <1>1, <1>2, WorkersAreActors DEF StopAll, Disturbing
    <2>2. \A r \in Requests : Quiet(r)' => Quiet(r)
      BY <2>1 DEF Quiet
    <2>3. \A r \in Requests : thread'[r].pc \notin Starting
      BY <2>1
    <2>4. \A b \in Actors, r \in Requests : thread'[b].inst = thread'[r].inst =>
            /\ thread'[b].pc = "stopProxy" /\ r \in up.tun2socks => thread'[b].proc = r
            /\ thread'[b].pc = "close" => r \notin up.tun2socks
            /\ thread'[b].pc = "close" /\ r \in up.singbox => thread'[b].proc = r
      BY <2>1 DEF Left
    <2>5. \A x \in Resources : \A r \in up[x] : field[thread'[r].inst][x] = r
      BY <2>1 DEF Left, TypeOK
    <2> QED BY <1>1, <2>2, <2>3, <2>4, <2>5 DEF Left
  <1>3. CASE Revoked
    BY <1>2, <1>3 DEF Revoked
  <1>4. CASE Handle /\ Head(inbox).kind # "start"
    BY <1>2, <1>4 DEF Handle
  <1>5. CASE Handle /\ Head(inbox).kind = "start"
    <2>1. PICK q, w : /\ q = [pc |-> "open", inst |-> Head(inbox).inst, proc |-> None]
                      /\ w = Head(inbox).req
      OBVIOUS
    <2>2. AllQuiet /\ thread' = [thread EXCEPT ![w] = q]
      BY <1>5, <2>1 DEF Handle
    <2>3. \A r \in Requests, x \in Resources : r \notin up[x]
      BY <2>2, WorkersAreActors DEF AllQuiet, Left, Quiet
    <2>4. /\ \A b \in Actors \ {w} : thread'[b] = thread[b] /\ Quiet(b)'
          /\ w \in Actors => thread'[w].pc = "open"
      BY <1>1, <2>1, <2>2 DEF AllQuiet, Quiet
    <2>5. \A r \in Requests : thread'[r].pc \in Starting => \A a \in Actors \ {r} : Quiet(a)'
      BY <2>4, WorkersAreActors DEF Quiet, Starting
    <2>6. \A b \in Actors : thread'[b].pc \notin {"stopProxy", "close"}
      BY <2>4 DEF Quiet
    <2>7. \A x \in Resources : up[x] = {}
      BY <2>3 DEF TypeOK
    <2> QED BY <1>1, <2>3, <2>5, <2>6, <2>7 DEF Left
  <1> QED BY <1>3, <1>4, <1>5

\* A worker that takes something does so alone, and names it in the field.
LEMMA TakeLeft ==
  ASSUME TypeOK, Left, NEW r \in Requests, NEW x \in Resources, NEW pc \in Starting,
         thread[r].pc \in Starting, Take(r, x, pc)
  PROVE  Left'
  <1>1. PICK k : k = thread[r].inst
    OBVIOUS
  <1>2. /\ thread \in [Actors -> Thread] /\ up \in [Resources -> SUBSET Requests]
        /\ field \in [Instances -> [Resources -> Owner]] /\ k \in Instances
        /\ r \in Actors
    BY <1>1, WorkersAreActors DEF TypeOK, Starting
  <1>3. /\ thread' = [thread EXCEPT ![r].pc = pc] /\ up' = [up EXCEPT ![x] = @ \cup {r}]
        /\ field' = [field EXCEPT ![k][x] = r]
    BY <1>1 DEF Take, Goto, Acquire, Assign
  <1>4. /\ thread'[r].pc = pc /\ thread'[r].inst = k
        /\ \A b \in Actors \ {r} : thread'[b] = thread[b] /\ Quiet(b) /\ Quiet(b)'
    BY <1>1, <1>2, <1>3 DEF Thread, Left, Quiet
  <1>5. \A t \in Requests \ {r}, y \in Resources : t \notin up'[y]
    BY <1>2, <1>3, <1>4, WorkersAreActors DEF Left
  <1>6. ~Quiet(r)' /\ pc \notin {"stopProxy", "close"}
    BY <1>4 DEF Quiet, Starting
  <1>7. \A a \in Actors : thread'[a].pc \notin {"stopProxy", "close"}
    BY <1>4, <1>6 DEF Quiet
  <1>8. ASSUME NEW y \in Resources, NEW t \in up'[y] PROVE field'[thread'[t].inst][y] = t
    <2>1. t = r
      BY <1>2, <1>3, <1>5
    <2>2. y = x \/ r \in up[y]
      BY <1>2, <1>3, <2>1
    <2> QED BY <1>1, <1>2, <1>3, <1>4, <2>1, <2>2 DEF Left
  <1>9. \A t \in Requests : thread'[t].pc \in Starting => \A a \in Actors \ {t} : Quiet(a)'
    BY <1>4, WorkersAreActors DEF Quiet, Starting
  <1> QED BY <1>5, <1>6, <1>7, <1>8, <1>9 DEF Left

\* A worker that goes on with what it has, or gives up.
LEMMA MoveLeft ==
  ASSUME TypeOK, Left, NEW r \in Requests, NEW pc, NEW p,
         thread[r].pc \in Starting \cup {"wait"},
         \/ pc \in Starting \cup {"wait"} /\ thread[r].pc \in Starting
         \/ pc = "stopBridge",
         thread' = [thread EXCEPT ![r].pc = pc, ![r].proc = p], UNCHANGED <<field, up>>
  PROVE  Left'
  <1>1. thread \in [Actors -> Thread] /\ r \in Actors
    BY WorkersAreActors DEF TypeOK
  <1>2. /\ thread'[r].pc = pc
        /\ \A b \in Actors \ {r} : thread'[b] = thread[b]
        /\ \A b \in Actors : thread'[b].inst = thread[b].inst
    BY <1>1 DEF Thread
  <1>3. pc \notin {"idle", "done", "stopProxy", "close"}
    BY DEF Starting
  <1>4. \A t \in Requests : Quiet(t)' => Quiet(t)
    BY <1>2, <1>3, WorkersAreActors DEF Quiet
  <1>5. \A t \in Requests : thread'[t].pc \in Starting => \A a \in Actors \ {t} : Quiet(a)'
    <2> SUFFICES ASSUME NEW t \in Requests, thread'[t].pc \in Starting,
                        NEW a \in Actors \ {t}
                 PROVE  Quiet(a)'
      OBVIOUS
    <2>1. t = r
      <3> SUFFICES ASSUME t # r PROVE FALSE
        OBVIOUS
      <3>1. thread[t].pc \in Starting /\ ~Quiet(r)
        BY <1>2, WorkersAreActors DEF Starting, Quiet
      <3> QED BY <1>1, <3>1 DEF Left
    <2>2. thread[r].pc \in Starting
      BY <1>2, <2>1 DEF Starting
    <2> QED BY <1>2, <2>1, <2>2 DEF Left, Quiet
  <1>6. \A a \in Actors, t \in Requests : thread'[a].inst = thread'[t].inst =>
          /\ thread'[a].pc = "stopProxy" /\ t \in up.tun2socks => thread'[a].proc = t
          /\ thread'[a].pc = "close" => t \notin up.tun2socks
          /\ thread'[a].pc = "close" /\ t \in up.singbox => thread'[a].proc = t
    <2> SUFFICES ASSUME NEW a \in Actors, NEW t \in Requests,
                        thread'[a].inst = thread'[t].inst
                 PROVE  /\ thread'[a].pc = "stopProxy" /\ t \in up.tun2socks =>
                             thread'[a].proc = t
                        /\ thread'[a].pc = "close" => t \notin up.tun2socks
                        /\ thread'[a].pc = "close" /\ t \in up.singbox =>
                             thread'[a].proc = t
      OBVIOUS
    <2>1. thread[a].inst = thread[t].inst
      BY <1>2, WorkersAreActors
    <2>2. CASE a = r
      BY <1>2, <1>3, <2>2
    <2>3. CASE a # r
      <3>1. thread'[a] = thread[a]
        BY <1>2, <2>3
      <3> QED BY <2>1, <3>1 DEF Left
    <2> QED BY <2>2, <2>3
  <1>7. \A x \in Resources : \A t \in up[x] : field[thread'[t].inst][x] = t
    BY <1>2, WorkersAreActors DEF Left, TypeOK
  <1> QED BY <1>4, <1>5, <1>6, <1>7 DEF Left

LEMMA WorkerLeft ==
  ASSUME TypeOK, Left, NEW r \in Requests, WorkerStep(r) PROVE Left'
  <1>1. ASSUME Throws(r), thread[r].pc \in Starting PROVE Left'
    BY <1>1, MoveLeft DEF Throws, Finally
  <1>2. CASE StopStep(r)
    BY <1>2, StopLeft, WorkersAreActors
  <1>3. CASE Open(r)
    BY <1>1, <1>3, TakeLeft DEF Open, Worker, Resources, Starting
  <1>4. CASE Dup(r)
    BY <1>1, <1>4, TakeLeft DEF Dup, Worker, Resources, Starting
  <1>5. CASE Spawn(r)
    BY <1>1, <1>5, TakeLeft DEF Spawn, Worker, Resources, Starting
  <1>6. CASE Bridge(r)
    BY <1>1, <1>6, TakeLeft DEF Bridge, Worker, Resources, Starting
  <1>7. CASE Spawned(r)
    BY <1>1, <1>7, MoveLeft DEF Spawned, Worker, Starting
  <1>8. CASE Bridged(r)
    BY <1>1, <1>8, MoveLeft DEF Bridged, Worker, Starting
  <1>9. CASE Wait(r)
    BY <1>9, MoveLeft DEF Wait, Worker, Finally
  <1> QED BY <1>2, <1>3, <1>4, <1>5, <1>6, <1>7, <1>8, <1>9 DEF WorkerStep

\* Once disturbed, always disturbed.
LEMMA LeftInductive == TypeOK /\ LeftInv /\ [Next]_vars => LeftInv'
  <1> SUFFICES ASSUME TypeOK, LeftInv, [Next]_vars, ~disturbed' PROVE Left'
    BY DEF LeftInv
  <1>1. CASE Handle \/ Revoked
    <2>1. ~disturbed
      BY <1>1 DEF Handle, Revoked, StopAll
    <2> QED BY <1>1, <2>1, CallbackLeft DEF LeftInv
  <1>2. CASE (\E r \in Requests : Start(r)) \/ DialogAnswered \/ Stop \/ BringDown
    <2>1. UNCHANGED <<field, thread, up, disturbed>>
      BY <1>2 DEF Start, DialogAnswered, Stop, BringDown
    <2> QED BY <2>1, IdleLeft DEF LeftInv
  <1>3. ASSUME NEW r \in Requests, WorkerStep(r) PROVE Left'
    <2>1. ~disturbed
      BY <1>3 DEF WorkerStep, Worker, Open, Dup, Spawn, Spawned, Bridge, Bridged, Wait,
                  StopStep, StopBridge, StopProxy, Close
    <2> QED BY <1>3, <2>1, WorkerLeft DEF LeftInv
  <1>4. ASSUME NEW a \in Actors, StopStep(a) PROVE Left'
    <2>1. ~disturbed
      BY <1>4 DEF StopStep, StopBridge, StopProxy, Close
    <2> QED BY <1>4, <2>1, StopLeft DEF LeftInv
  <1>5. ASSUME NEW r \in Requests, NEW x \in {"singbox", "tun2socks"}, Dies(x, r)
        PROVE  Left'
    BY <1>5, DiesLeft DEF LeftInv, Dies
  <1>6. CASE UNCHANGED vars
    BY <1>6, IdleLeft DEF LeftInv, vars
  <1> QED BY <1>1, <1>2, <1>3, <1>4, <1>5, <1>6, WorkersAreActors DEF Next

\* Descriptor 0 is the TUN device only where /dev/null was not put back on it.
StdinInv == stdin \in unbridged \cup {None}

LEMMA StdinInductive == StdinInv /\ [Next]_vars => StdinInv'
  <1> SUFFICES ASSUME StdinInv, [Next]_vars PROVE StdinInv'
    OBVIOUS
  <1>1. ASSUME UNCHANGED <<stdin, unbridged>> PROVE StdinInv'
    BY <1>1 DEF StdinInv
  <1>2. ASSUME NEW r \in Requests, Bridge(r) PROVE StdinInv'
    BY <1>2 DEF Bridge, StdinInv
  <1>3. ASSUME NEW a \in Actors, StopStep(a) PROVE StdinInv'
    BY <1>1, <1>3 DEF StopStep, StopBridge, StopProxy, Close, tunnel
  <1>4. ASSUME NEW r \in Requests, WorkerStep(r) PROVE StdinInv'
    BY <1>1, <1>2, <1>3, <1>4, WorkersAreActors
       DEF WorkerStep, Open, Dup, Spawn, Spawned, Bridged, Wait, tunnel
  <1>5. ASSUME NEW r \in Requests, NEW x \in {"singbox", "tun2socks"}, Dies(x, r)
        PROVE  StdinInv'
    BY <1>1, <1>5 DEF Dies, tunnel
  <1>6. ASSUME NEW r \in Requests, Start(r) PROVE StdinInv'
    BY <1>1, <1>6 DEF Start, tunnel
  <1>7. CASE DialogAnswered \/ Stop \/ Handle \/ BringDown \/ Revoked \/ UNCHANGED vars
    BY <1>1, <1>7 DEF DialogAnswered, Stop, Handle, BringDown, Revoked, vars, tunnel
  <1> QED BY <1>3, <1>4, <1>5, <1>6, <1>7, WorkersAreActors DEF Next

\* Once no thread is at work, every process has ended and every descriptor of
\* tunFd and dupTunFd is closed, wherever the start failed and however many stops
\* came from whatever threads, and descriptor 0 of the app is the TUN device only
\* of a request for which /dev/null was not put back there; unless a start met a
\* thread at work, or a stop a worker that was still starting
\* (SingboxVpnService.startVpn, stopAll).
THEOREM OnlyStdinLeftBehind == Spec => []OnlyStdinIsLeft
  <1>1. Init => LeftInv /\ StdinInv
    <2> SUFFICES ASSUME Init PROVE Left /\ StdinInv
      BY DEF LeftInv
    <2>1. \A a \in Actors : thread[a].pc = "idle"
      BY DEF Init, Idle
    <2>2. (\A x \in Resources : up[x] = {}) /\ StdinInv
      BY DEF Init, StdinInv
    <2> QED BY <2>1, <2>2, WorkersAreActors DEF Left, Starting
  <1>2. TypeOK /\ LeftInv /\ StdinInv => OnlyStdinIsLeft
    <2> SUFFICES ASSUME TypeOK, LeftInv, StdinInv, AllQuiet, ~disturbed
                 PROVE  \A x \in Resources : up[x] = {}
      BY DEF OnlyStdinIsLeft, StdinInv
    <2> QED BY WorkersAreActors DEF LeftInv, Left, Quiet, AllQuiet, TypeOK
  <1> QED BY <1>1, <1>2, TypeCorrect, LeftInductive, StdinInductive, PTL DEF Spec
=============================================================================
