---------------------------- MODULE ConfigQueue -----------------------------
(***************************************************************************)
(* The client's queue of spare sing-box configurations, ConfigQueue over   *)
(* the phone's secure storage: MaxSlots slots, each a value and a time     *)
(* stamp under a key of its own.                                           *)
(*                                                                         *)
(* dequeue and enqueue await every access to the storage.  A step here is  *)
(* one access; other calls run between two of them, time passes, and the   *)
(* app may be killed.  Three paths lead here: path one of connect takes,   *)
(* and leaves a take that lasts over five seconds to itself; it takes the  *)
(* next one if sing-box does not start; and after a connect a refill puts  *)
(* in the background.                                                      *)
(***************************************************************************)
EXTENDS Naturals, FiniteSets

CONSTANTS
  Configs,      \* what the backend hands the client, each download another
  None,         \* null
  Takers,       \* bound: dequeue calls in flight at once
  Putters,      \* bound: enqueue calls in flight at once
  MaxSlots,     \* 3 in the code
  Ttl,          \* how long a configuration lives, 24 hours in the code
  MaxTime,      \* bound on the clock
  MaxCuts       \* bound on what disturbs takes: see cuts

ASSUME SlotsAssumption   == MaxSlots \in Nat \ {0}
ASSUME NoneAssumption    == None \notin Configs \cup Nat
ASSUME BoundsAssumption  == Ttl \in Nat /\ MaxTime \in Nat /\ MaxCuts \in Nat
ASSUME CallsAssumption   == Takers \cap Putters = {} /\ IsFiniteSet(Takers)

VARIABLES
  value,        \* spare_config_IR_i
  stamp,        \* spare_config_ts_IR_i
  call,         \* local state of each dequeue and enqueue
  now,          \* the clock
  putAt,        \* when a configuration was stored, None before
  handed,       \* how often a configuration was returned by dequeue
  cuts,         \* takes cut short by the end of the app or joined by another
  mixed,        \* a refill ran beside a take, or the app was killed within a refill
  offered       \* configurations live since the take under way began, if it is alone

storage == <<value, stamp>>
ghosts  == <<putAt, handed, cuts, mixed, offered>>
vars    == <<storage, call, now, ghosts>>

-----------------------------------------------------------------------------
(* Data.                                                                   *)

Slots == 0..(MaxSlots - 1)
Last  == MaxSlots - 1
Times == 0..MaxTime

TakerPC ==
  {"idle", "scan", "scanStamp", "dropValue", "dropStamp", "next", "nextStamp",
   "moveValue", "moveStamp", "emptyValue", "emptyStamp", "clearValue", "clearStamp"}

PutterPC == {"idle", "look", "putValue", "putStamp"}

\* config: what a take returns or a put stores; next, at: the locals next and
\* nextTs of the shift.
Call(PC) ==
  [pc : PC, i : Slots, config : Configs \cup {None}, next : Configs \cup {None},
   at : Times \cup {None}]

Idle == [pc |-> "idle", i |-> 0, config |-> None, next |-> None, at |-> None]

TypeOK ==
  /\ value \in [Slots -> Configs \cup {None}]
  /\ stamp \in [Slots -> Times \cup {None}]
  /\ call \in [Takers \cup Putters -> Call(TakerPC \cup PutterPC)]
  /\ \A t \in Takers : call[t].pc \in TakerPC
  /\ \A p \in Putters : call[p].pc \in PutterPC
  /\ now \in Times
  /\ putAt \in [Configs -> Times \cup {None}]
  /\ handed \in [Configs -> Nat]
  /\ cuts \in 0..MaxCuts
  /\ mixed \in BOOLEAN
  /\ offered \subseteq Configs

Running(calls) == {c \in calls : call[c].pc # "idle"}

\* Slip: one hour later.
Stale_OneLate(at) == at # None /\ now - at > Ttl

\* A time stamp of the age at which a configuration is given up.
Stale(at) == at # None /\ now - at >= Ttl

\* Configurations in the queue that are still good.
Live == {value[i] : i \in {j \in Slots : ~Stale(stamp[j])}} \ {None}

Init ==
  /\ value = [i \in Slots |-> None]
  /\ stamp = [i \in Slots |-> None]
  /\ call = [c \in Takers \cup Putters |-> Idle]
  /\ now = 0
  /\ putAt = [c \in Configs |-> None]
  /\ handed = [c \in Configs |-> 0]
  /\ cuts = 0
  /\ mixed = FALSE
  /\ offered = {}

-----------------------------------------------------------------------------
(* Accesses to the storage.                                                *)

SetValue(i, v) == value' = [value EXCEPT ![i] = v] /\ UNCHANGED stamp
SetStamp(i, s) == stamp' = [stamp EXCEPT ![i] = s] /\ UNCHANGED value

Goto(c, pc)     == call' = [call EXCEPT ![c].pc = pc]
GotoAt(c, pc, i) == call' = [call EXCEPT ![c].pc = pc, ![c].i = i]

\* Taken before each step that changes what is live.
Watch == offered' = offered \cap Live

\* The rest of a step of a call that goes on.
Going == Watch /\ UNCHANGED <<now, putAt, handed, cuts, mixed>>

-----------------------------------------------------------------------------
(* dequeue.                                                                *)

Dequeue(t) ==
  /\ call[t].pc = "idle"
  /\ LET joined == Running(Takers) # {} IN
       /\ joined => cuts < MaxCuts
       /\ cuts' = IF joined THEN cuts + 1 ELSE cuts
       /\ offered' = IF joined THEN {} ELSE Live
  /\ GotoAt(t, "scan", 0)
  /\ mixed' = (mixed \/ Running(Putters) # {})
  /\ UNCHANGED <<storage, now, putAt, handed>>

Return(t, config) ==
  /\ call' = [call EXCEPT ![t] = Idle]
  /\ handed' = IF config = None THEN handed
               ELSE [handed EXCEPT ![config] = @ + 1]
  /\ UNCHANGED <<now, putAt, cuts, mixed>>

\* Slip: the first empty slot is taken for the end of the queue.
LookFurther_FirstOnly(t) == Return(t, None) /\ Watch

\* Slip: one slot too far.
LookFurther_OneTooFar(t) ==
  IF call[t].i < MaxSlots
  THEN GotoAt(t, "scan", call[t].i + 1) /\ Going
  ELSE Return(t, None) /\ Watch

\* Slot i holds nothing of use: the next one is looked at.
LookFurther(t) ==
  IF call[t].i < Last
  THEN GotoAt(t, "scan", call[t].i + 1) /\ Going
  ELSE Return(t, None) /\ Watch

Scan(t) ==
  /\ call[t].pc = "scan"
  /\ LET raw == value[call[t].i] IN
       IF raw = None
       THEN LookFurther(t)
       ELSE /\ call' = [call EXCEPT ![t].pc = "scanStamp", ![t].config = raw]
            /\ Going
  /\ UNCHANGED storage

\* The head is found: the shift starts at its slot, unless it is the last one.
Shift(t) == Goto(t, IF call[t].i < Last THEN "next" ELSE "clearValue")

\* A value without a time stamp counts as live.
ScanStamp(t) ==
  /\ call[t].pc = "scanStamp"
  /\ IF Stale(stamp[call[t].i])
     THEN call' = [call EXCEPT ![t].pc = "dropValue", ![t].config = None]
     ELSE Shift(t)
  /\ Going
  /\ UNCHANGED storage

DropValue(t) ==
  /\ call[t].pc = "dropValue"
  /\ SetValue(call[t].i, None)
  /\ Goto(t, "dropStamp")
  /\ Going

DropStamp(t) ==
  /\ call[t].pc = "dropStamp"
  /\ SetStamp(call[t].i, None)
  /\ LookFurther(t)

ReadNext(t) ==
  /\ call[t].pc = "next"
  /\ call' = [call EXCEPT ![t].pc = "nextStamp", ![t].next = value[call[t].i + 1]]
  /\ Going
  /\ UNCHANGED storage

ReadNextStamp(t) ==
  /\ call[t].pc = "nextStamp"
  /\ LET at == stamp[call[t].i + 1] IN
       call' = [call EXCEPT ![t].at = at,
                            ![t].pc = IF call[t].next # None /\ at # None
                                      THEN "moveValue" ELSE "emptyValue"]
  /\ Going
  /\ UNCHANGED storage

\* On to the next slot of the shift.
ShiftOn(t) ==
  call' = [call EXCEPT ![t].pc = IF call[t].i + 1 < Last THEN "next" ELSE "clearValue",
                       ![t].i = @ + 1, ![t].next = None, ![t].at = None]

MoveValue(t) ==
  /\ call[t].pc = "moveValue"
  /\ SetValue(call[t].i, call[t].next)
  /\ Goto(t, "moveStamp")
  /\ Going

MoveStamp(t) ==
  /\ call[t].pc = "moveStamp"
  /\ SetStamp(call[t].i, call[t].at)
  /\ ShiftOn(t)
  /\ Going

\* Slip: only a value that has a successor is replaced.
EmptyValue_Kept(t) ==
  /\ call[t].pc = "emptyValue"
  /\ Goto(t, "emptyStamp")
  /\ Going
  /\ UNCHANGED storage

EmptyValue(t) ==
  /\ call[t].pc = "emptyValue"
  /\ SetValue(call[t].i, None)
  /\ Goto(t, "emptyStamp")
  /\ Going

EmptyStamp(t) ==
  /\ call[t].pc = "emptyStamp"
  /\ SetStamp(call[t].i, None)
  /\ ShiftOn(t)
  /\ Going

ClearValue(t) ==
  /\ call[t].pc = "clearValue"
  /\ SetValue(Last, None)
  /\ Goto(t, "clearStamp")
  /\ Going

ClearStamp(t) ==
  /\ call[t].pc = "clearStamp"
  /\ SetStamp(Last, None)
  /\ Return(t, call[t].config)
  /\ Watch

-----------------------------------------------------------------------------
(* enqueue.                                                                *)

\* A refill brings a configuration that was not there before.
Enqueue(p) ==
  /\ call[p].pc = "idle"
  /\ \E c \in Configs :
       /\ putAt[c] = None
       /\ \A q \in Putters : call[q].config # c
       /\ call' = [call EXCEPT ![p] = [Idle EXCEPT !.pc = "look", !.config = c]]
  /\ mixed' = (mixed \/ Running(Takers \cup Putters) # {})
  /\ UNCHANGED <<storage, now, putAt, handed, cuts, offered>>

\* Into the first slot without a value, or over the last one.
Look(p) ==
  /\ call[p].pc = "look"
  /\ LET i == call[p].i IN
       IF value[i] = None \/ i = Last THEN Goto(p, "putValue")
                                      ELSE GotoAt(p, "look", i + 1)
  /\ UNCHANGED <<storage, now, ghosts>>

Stored(p) == putAt' = [putAt EXCEPT ![call[p].config] = now]

PutValue(p) ==
  /\ call[p].pc = "putValue"
  /\ SetValue(call[p].i, call[p].config)
  /\ Goto(p, "putStamp")
  /\ Stored(p)
  /\ Watch
  /\ UNCHANGED <<now, handed, cuts, mixed>>

PutStamp(p) ==
  /\ call[p].pc = "putStamp"
  /\ SetStamp(call[p].i, now)
  /\ call' = [call EXCEPT ![p] = Idle]
  /\ Stored(p)
  /\ Watch
  /\ UNCHANGED <<now, handed, cuts, mixed>>

-----------------------------------------------------------------------------
(* The clock, and the end of the app.                                      *)

Tick ==
  /\ now < MaxTime
  /\ now' = now + 1
  /\ Watch
  /\ UNCHANGED <<storage, call, putAt, handed, cuts, mixed>>

\* The app is killed and started again: what is stored stays, calls are gone.
Killed ==
  /\ Running(Takers \cup Putters) # {}
  /\ cuts + Cardinality(Running(Takers)) <= MaxCuts
  /\ cuts' = cuts + Cardinality(Running(Takers))
  /\ mixed' = (mixed \/ Running(Putters) # {})
  /\ call' = [c \in Takers \cup Putters |-> Idle]
  /\ offered' = {}
  /\ UNCHANGED <<storage, now, putAt, handed>>

TakerStep(t) ==
  \/ Dequeue(t) \/ Scan(t) \/ ScanStamp(t) \/ DropValue(t) \/ DropStamp(t)
  \/ ReadNext(t) \/ ReadNextStamp(t) \/ MoveValue(t) \/ MoveStamp(t)
  \/ EmptyValue(t) \/ EmptyStamp(t) \/ ClearValue(t) \/ ClearStamp(t)

PutterStep(p) == Enqueue(p) \/ Look(p) \/ PutValue(p) \/ PutStamp(p)

Next ==
  \/ \E t \in Takers : TakerStep(t)
  \/ \E p \in Putters : PutterStep(p)
  \/ Tick
  \/ Killed

Spec == Init /\ [][Next]_vars

-----------------------------------------------------------------------------
(* Properties.                                                             *)

\* A configuration is handed out once, and once more at most for every take
\* that was cut short by the end of the app or ran beside another: the shift
\* of dequeue is safe against refills in every interleaving, and what a
\* disturbed shift leaves twice is bounded.
HandedAtMost == \A c \in Configs : handed[c] <= 1 + cuts

Undisturbed == cuts = 0 /\ ~mixed

\* dequeue has found the head of the queue, or has looked at every slot in vain.
Found(t)    == call[t].pc = "scanStamp" /\ call'[t].pc \in {"next", "clearValue"}
NotFound(t) == call[t].pc \in {"scan", "dropStamp"} /\ call'[t].pc = "idle" /\ cuts' = cuts

\* Unless calls overlapped or were cut short, what dequeue picks has been in
\* the queue for less than Ttl, however often it was shifted.
ExpiredIsNotTaken ==
  [][\A t \in Takers :
       Undisturbed /\ Found(t) => now - putAt[call[t].config] < Ttl]_vars

\* With one take at a time, dequeue answers null only if no configuration has
\* been in the queue and live since the call began: neither refills, nor the
\* hole that an expired head leaves, nor what the end of the app left behind
\* hides one from it.
NothingIsMissed ==
  [][\A t \in Takers :
       NotFound(t) => offered \cap Live = {}]_vars

=============================================================================
