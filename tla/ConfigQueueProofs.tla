------------------------- MODULE ConfigQueueProofs --------------------------
(***************************************************************************)
(* What holds of ConfigQueue for every number of slots, every lifetime and *)
(* any number of calls in flight: the types, that an undisturbed queue     *)
(* hands out nothing that has expired, that a take misses nothing, and, as *)
(* long as no two takes run at once, how often a configuration is handed   *)
(* out, whatever refills and ends of the app come between their steps.     *)
(***************************************************************************)
EXTENDS ConfigQueue, FiniteSetTheorems, TLAPS

-----------------------------------------------------------------------------
(* Types.                                                                  *)

Shifting == {"next", "nextStamp", "moveValue", "moveStamp", "emptyValue", "emptyStamp"}

\* A shift stays within the slots, and ends at the last one.
IndexOK ==
  \A t \in Takers :
    /\ call[t].pc \in Shifting => call[t].i < Last
    /\ call[t].pc = "clearValue" => call[t].i = Last

TypeInv == TypeOK /\ IndexOK

\* Arithmetic of the slots.
LEMMA SlotFacts ==
  /\ Last \in Nat /\ 0 \in Slots /\ Last \in Slots /\ Slots \subseteq Nat
  /\ \A i \in Slots : i < Last => i + 1 \in Slots
  /\ \A i \in Slots : i \in Nat /\ (i < Last \/ i = Last)
  BY SlotsAssumption DEF Slots, Last

\* The clock shows a number, which is not null.
LEMMA TimeFacts ==
  /\ \A x \in Times : x \in Nat /\ x # None
  /\ \A c \in Configs : c # None
  /\ 0 \in Times
  BY NoneAssumption, BoundsAssumption DEF Times

LEMMA InitTypes == Init => TypeInv
  <1> SUFFICES ASSUME Init PROVE TypeInv
    OBVIOUS
  <1>1. Idle \in Call(TakerPC \cup PutterPC) /\ Idle.pc = "idle"
    BY SlotFacts DEF Idle, Call, TakerPC
  <1>2. call \in [Takers \cup Putters -> Call(TakerPC \cup PutterPC)]
    BY <1>1 DEF Init
  <1>3. \A c \in Takers \cup Putters : call[c].pc = "idle"
    BY <1>1 DEF Init
  <1>4. /\ \A t \in Takers : call[t].pc \in TakerPC
        /\ \A p \in Putters : call[p].pc \in PutterPC
        /\ IndexOK
    BY <1>3 DEF TakerPC, PutterPC, IndexOK, Shifting
  <1>5. cuts \in 0..MaxCuts
    BY BoundsAssumption DEF Init
  <1> QED BY <1>2, <1>4, <1>5, TimeFacts DEF Init, TypeInv, TypeOK

\* A call of x moves on to local state q.
Moves(x, q) == call' = [call EXCEPT ![x] = q]

\* What q must be for the calls to stay well formed.
LEMMA TakerMoves ==
  ASSUME TypeInv, NEW t \in Takers, NEW q \in Call(TakerPC), Moves(t, q),
         q.pc \in Shifting => q.i < Last, q.pc = "clearValue" => q.i = Last
  PROVE  /\ call' \in [Takers \cup Putters -> Call(TakerPC \cup PutterPC)]
         /\ \A u \in Takers : call'[u].pc \in TakerPC
         /\ \A p \in Putters : call'[p].pc \in PutterPC
         /\ IndexOK'
         /\ call'[t] = q /\ \A x \in (Takers \cup Putters) \ {t} : call'[x] = call[x]
  <1>1. /\ call \in [Takers \cup Putters -> Call(TakerPC \cup PutterPC)]
        /\ q \in Call(TakerPC \cup PutterPC) /\ q.pc \in TakerPC
    BY DEF TypeInv, TypeOK, Call
  <1>2. call'[t] = q /\ \A x \in (Takers \cup Putters) \ {t} : call'[x] = call[x]
    BY <1>1 DEF Moves
  <1>3. call' \in [Takers \cup Putters -> Call(TakerPC \cup PutterPC)]
    BY <1>1 DEF Moves
  <1>4. \A p \in Putters : call'[p].pc \in PutterPC
    BY <1>2, CallsAssumption DEF TypeInv, TypeOK
  <1>5. \A u \in Takers : call'[u].pc \in TakerPC
    BY <1>1, <1>2 DEF TypeInv, TypeOK
  <1>6. IndexOK'
    BY <1>2 DEF TypeInv, IndexOK, Last
  <1> QED BY <1>2, <1>3, <1>4, <1>5, <1>6

LEMMA PutterMoves ==
  ASSUME TypeInv, NEW p \in Putters, NEW q \in Call(PutterPC), Moves(p, q)
  PROVE  /\ call' \in [Takers \cup Putters -> Call(TakerPC \cup PutterPC)]
         /\ \A u \in Takers : call'[u].pc \in TakerPC
         /\ \A r \in Putters : call'[r].pc \in PutterPC
         /\ IndexOK'
         /\ call'[p] = q /\ \A x \in (Takers \cup Putters) \ {p} : call'[x] = call[x]
  <1>1. /\ call \in [Takers \cup Putters -> Call(TakerPC \cup PutterPC)]
        /\ q \in Call(TakerPC \cup PutterPC) /\ q.pc \in PutterPC
    BY DEF TypeInv, TypeOK, Call
  <1>2. call'[p] = q /\ \A x \in (Takers \cup Putters) \ {p} : call'[x] = call[x]
    BY <1>1 DEF Moves
  <1>3. call' \in [Takers \cup Putters -> Call(TakerPC \cup PutterPC)]
    BY <1>1 DEF Moves
  <1>4. \A r \in Putters : call'[r].pc \in PutterPC
    BY <1>1, <1>2 DEF TypeInv, TypeOK
  <1>5. \A u \in Takers : call'[u].pc \in TakerPC /\ call'[u] = call[u]
    BY <1>2, CallsAssumption DEF TypeInv, TypeOK
  <1>6. IndexOK'
    BY <1>5 DEF TypeInv, IndexOK, Last
  <1> QED BY <1>2, <1>3, <1>4, <1>5, <1>6


\* What a step of a take that goes on does to its local state c and to the storage,
\* q being the local state it ends in.
Further(c, q) ==
  \/ c.i < Last /\ q = [c EXCEPT !.pc = "scan", !.i = c.i + 1]
  \/ c.i = Last /\ q = Idle

On(c, q) ==
  q = [c EXCEPT !.pc = IF c.i + 1 < Last THEN "next" ELSE "clearValue",
                !.i = c.i + 1, !.next = None, !.at = None]

Scans(c, q) ==
  /\ UNCHANGED storage
  /\ \/ c.pc = "scan" /\ value[c.i] = None /\ Further(c, q)
     \/ /\ c.pc = "scan" /\ value[c.i] # None
        /\ q = [c EXCEPT !.pc = "scanStamp", !.config = value[c.i]]
     \/ /\ c.pc = "scanStamp" /\ Stale(stamp[c.i])
        /\ q = [c EXCEPT !.pc = "dropValue", !.config = None]
     \/ /\ c.pc = "scanStamp" /\ ~Stale(stamp[c.i])
        /\ q = [c EXCEPT !.pc = IF c.i < Last THEN "next" ELSE "clearValue"]

Reads(c, q) ==
  /\ UNCHANGED storage
  /\ \/ c.pc = "next" /\ q = [c EXCEPT !.pc = "nextStamp", !.next = value[c.i + 1]]
     \/ /\ c.pc = "nextStamp"
        /\ q = [c EXCEPT !.at = stamp[c.i + 1],
                         !.pc = IF c.next # None /\ stamp[c.i + 1] # None
                                THEN "moveValue" ELSE "emptyValue"]

Writes(c, q) ==
  \/ c.pc = "dropValue" /\ SetValue(c.i, None) /\ q = [c EXCEPT !.pc = "dropStamp"]
  \/ c.pc = "dropStamp" /\ SetStamp(c.i, None) /\ Further(c, q)
  \/ c.pc = "moveValue" /\ SetValue(c.i, c.next) /\ q = [c EXCEPT !.pc = "moveStamp"]
  \/ c.pc = "moveStamp" /\ SetStamp(c.i, c.at) /\ On(c, q)
  \/ c.pc = "emptyValue" /\ SetValue(c.i, None) /\ q = [c EXCEPT !.pc = "emptyStamp"]
  \/ c.pc = "emptyStamp" /\ SetStamp(c.i, None) /\ On(c, q)
  \/ c.pc = "clearValue" /\ SetValue(c.i, None) /\ q = [c EXCEPT !.pc = "clearStamp"]

Goes(c, q) == (Scans(c, q) \/ Reads(c, q) \/ Writes(c, q)) /\ UNCHANGED handed

\* The last step of a take that found something.
Ends(c, q) ==
  /\ c.pc = "clearStamp" /\ q = Idle
  /\ SetStamp(Last, None)
  /\ handed' = IF c.config = None THEN handed ELSE [handed EXCEPT ![c.config] = @ + 1]

\* The first step of a take.
Begins(c, q) ==
  LET joined == Running(Takers) # {} IN
    /\ c.pc = "idle" /\ q = [c EXCEPT !.pc = "scan", !.i = 0]
    /\ joined => cuts < MaxCuts
    /\ cuts' = IF joined THEN cuts + 1 ELSE cuts
    /\ offered' = IF joined THEN {} ELSE Live
    /\ mixed' = (mixed \/ Running(Putters) # {})
    /\ UNCHANGED <<storage, handed>>

Takes(t, q) ==
  /\ Moves(t, q)
  /\ UNCHANGED <<now, putAt>>
  /\ \/ Begins(call[t], q)
     \/ /\ Goes(call[t], q) \/ Ends(call[t], q)
        /\ offered' = offered \cap Live
        /\ UNCHANGED <<cuts, mixed>>

\* That is all a take does.
LEMMA TakerTakes ==
  ASSUME TypeInv, NEW t \in Takers, TakerStep(t)
  PROVE  \E q : Takes(t, q)
  <1>1. /\ call \in [Takers \cup Putters -> Call(TakerPC \cup PutterPC)]
        /\ call[t].i \in Slots /\ t \in Takers \cup Putters
    BY DEF TypeInv, TypeOK, Call
  <1>2. \A pc : Goto(t, pc) => Moves(t, [call[t] EXCEPT !.pc = pc])
    BY <1>1 DEF Goto, Moves
  <1>3. \A pc, i : GotoAt(t, pc, i) => Moves(t, [call[t] EXCEPT !.pc = pc, !.i = i])
    BY <1>1 DEF GotoAt, Moves
  <1>4. ASSUME LookFurther(t)
        PROVE  \E q : /\ Moves(t, q) /\ Further(call[t], q)
                      /\ offered' = offered \cap Live
                      /\ UNCHANGED <<now, putAt, cuts, mixed, handed>>
    <2>1. CASE call[t].i < Last
      BY <1>3, <1>4, <2>1 DEF LookFurther, Further, Going, Watch
    <2>2. CASE ~(call[t].i < Last)
      <3>1. call[t].i = Last
        BY <1>1, <2>2, SlotFacts
      <3> QED BY <1>4, <2>2, <3>1 DEF LookFurther, Further, Return, Moves, Watch
    <2> QED BY <2>1, <2>2
  <1>5. CASE Dequeue(t)
    BY <1>3, <1>5 DEF Dequeue, Begins, Takes
  <1>6. CASE Scan(t)
    <2>1. CASE value[call[t].i] = None
      BY <1>4, <1>6, <2>1 DEF Scan, Takes, Goes, Scans
    <2>2. CASE value[call[t].i] # None
      <3>1. Moves(t, [call[t] EXCEPT !.pc = "scanStamp", !.config = value[call[t].i]])
        BY <1>1, <1>6, <2>2 DEF Scan, Moves
      <3> QED BY <1>6, <2>2, <3>1 DEF Scan, Takes, Goes, Scans, Going, Watch
    <2> QED BY <2>1, <2>2
  <1>7. CASE ScanStamp(t)
    <2>1. CASE Stale(stamp[call[t].i])
      <3>1. Moves(t, [call[t] EXCEPT !.pc = "dropValue", !.config = None])
        BY <1>1, <1>7, <2>1 DEF ScanStamp, Moves
      <3> QED BY <1>7, <2>1, <3>1 DEF ScanStamp, Takes, Goes, Scans, Going, Watch
    <2>2. CASE ~Stale(stamp[call[t].i])
      <3>1. Moves(t, [call[t] EXCEPT !.pc = IF call[t].i < Last THEN "next" ELSE "clearValue"])
        BY <1>2, <1>7, <2>2 DEF ScanStamp, Shift
      <3> QED BY <1>7, <2>2, <3>1 DEF ScanStamp, Takes, Goes, Scans, Going, Watch
    <2> QED BY <2>1, <2>2
  <1>8. CASE DropValue(t)
    BY <1>2, <1>8 DEF DropValue, Takes, Goes, Writes, Going, Watch
  <1>9. CASE DropStamp(t)
    BY <1>4, <1>9 DEF DropStamp, Takes, Goes, Writes
  <1>10. CASE ReadNext(t)
    <2>1. Moves(t, [call[t] EXCEPT !.pc = "nextStamp", !.next = value[call[t].i + 1]])
      BY <1>1, <1>10 DEF ReadNext, Moves
    <2> QED BY <1>10, <2>1 DEF ReadNext, Takes, Goes, Reads, Going, Watch
  <1>11. CASE ReadNextStamp(t)
    <2>1. Moves(t, [call[t] EXCEPT !.at = stamp[call[t].i + 1],
                                   !.pc = IF call[t].next # None /\ stamp[call[t].i + 1] # None
                                          THEN "moveValue" ELSE "emptyValue"])
      BY <1>1, <1>11 DEF ReadNextStamp, Moves
    <2> QED BY <1>11, <2>1 DEF ReadNextStamp, Takes, Goes, Reads, Going, Watch
  <1>12. ShiftOn(t) => \E q : Moves(t, q) /\ On(call[t], q)
    BY <1>1 DEF ShiftOn, On, Moves
  <1>13. CASE MoveValue(t)
    BY <1>2, <1>13 DEF MoveValue, Takes, Goes, Writes, Going, Watch
  <1>14. CASE MoveStamp(t)
    BY <1>12, <1>14 DEF MoveStamp, Takes, Goes, Writes, Going, Watch
  <1>15. CASE EmptyValue(t)
    BY <1>2, <1>15 DEF EmptyValue, Takes, Goes, Writes, Going, Watch
  <1>16. CASE EmptyStamp(t)
    BY <1>12, <1>16 DEF EmptyStamp, Takes, Goes, Writes, Going, Watch
  <1>17. CASE ClearValue(t)
    <2>1. call[t].i = Last
      BY <1>17 DEF ClearValue, TypeInv, IndexOK
    <2> QED BY <1>2, <1>17, <2>1 DEF ClearValue, Takes, Goes, Writes, Going, Watch
  <1>18. CASE ClearStamp(t)
    BY <1>18 DEF ClearStamp, Return, Takes, Moves, Ends, Watch
  <1> QED BY <1>5, <1>6, <1>7, <1>8, <1>9, <1>10, <1>11, <1>13, <1>14, <1>15, <1>16, <1>17,
             <1>18 DEF TakerStep

\* Likewise for a refill.
Puts(p, q) ==
  LET c == call[p] IN
  /\ Moves(p, q)
  /\ UNCHANGED <<now, handed, cuts>>
  /\ \/ /\ c.pc = "idle" /\ \E d \in Configs :
             /\ putAt[d] = None
             /\ \A r \in Putters : call[r].config # d
             /\ q = [Idle EXCEPT !.pc = "look", !.config = d]
        /\ mixed' = (mixed \/ Running(Takers \cup Putters) # {})
        /\ UNCHANGED <<storage, putAt, offered>>
     \/ /\ c.pc = "look"
        /\ \/ q = [c EXCEPT !.pc = "putValue"]
           \/ c.i < Last /\ q = [c EXCEPT !.pc = "look", !.i = c.i + 1]
        /\ UNCHANGED <<storage, putAt, mixed, offered>>
     \/ /\ \/ c.pc = "putValue" /\ SetValue(c.i, c.config) /\ q = [c EXCEPT !.pc = "putStamp"]
           \/ c.pc = "putStamp" /\ SetStamp(c.i, now) /\ q = Idle
        /\ putAt' = [putAt EXCEPT ![c.config] = now]
        /\ offered' = offered \cap Live
        /\ UNCHANGED mixed

LEMMA PutterPuts ==
  ASSUME TypeInv, NEW p \in Putters, PutterStep(p)
  PROVE  \E q : Puts(p, q)
  <1>1. /\ call \in [Takers \cup Putters -> Call(TakerPC \cup PutterPC)]
        /\ call[p].i \in Slots /\ p \in Takers \cup Putters
    BY DEF TypeInv, TypeOK, Call
  <1>2. \A pc : Goto(p, pc) => Moves(p, [call[p] EXCEPT !.pc = pc])
    BY <1>1 DEF Goto, Moves
  <1>3. \A pc, i : GotoAt(p, pc, i) => Moves(p, [call[p] EXCEPT !.pc = pc, !.i = i])
    BY <1>1 DEF GotoAt, Moves
  <1>4. CASE Enqueue(p)
    BY <1>4 DEF Enqueue, Puts, Moves
  <1>5. CASE Look(p)
    <2>1. UNCHANGED <<storage, now, putAt, handed, cuts, mixed, offered>>
      BY <1>5 DEF Look, ghosts
    <2>2. CASE Goto(p, "putValue")
      BY <1>2, <1>5, <2>1, <2>2 DEF Look, Puts
    <2>3. CASE call[p].i # Last /\ GotoAt(p, "look", call[p].i + 1)
      <3>1. call[p].i < Last
        BY <1>1, <2>3, SlotFacts
      <3> QED BY <1>3, <1>5, <2>1, <2>3, <3>1 DEF Look, Puts
    <2> QED BY <1>5, <2>2, <2>3 DEF Look
  <1>6. CASE PutValue(p)
    BY <1>2, <1>6 DEF PutValue, Puts, Stored, Watch
  <1>7. CASE PutStamp(p)
    BY <1>7 DEF PutStamp, Puts, Stored, Watch, Moves
  <1> QED BY <1>4, <1>5, <1>6, <1>7 DEF PutterStep

-----------------------------------------------------------------------------

\* A step of a take keeps the types.
LEMMA TakesTypes ==
  ASSUME TypeInv, NEW t \in Takers, NEW q, Takes(t, q)
  PROVE  /\ TypeInv'
         /\ call'[t] = q /\ \A x \in (Takers \cup Putters) \ {t} : call'[x] = call[x]
  <1>1. PICK c : c = call[t]
    OBVIOUS
  <1>2. /\ c \in Call(TakerPC) /\ c.i \in Slots /\ call[t] = c
        /\ value \in [Slots -> Configs \cup {None}] /\ stamp \in [Slots -> Times \cup {None}]
        /\ c.config \in Configs \cup {None} /\ c.next \in Configs \cup {None}
        /\ c.at \in Times \cup {None}
        /\ (c.pc \in Shifting => c.i < Last) /\ (c.pc = "clearValue" => c.i = Last)
    BY <1>1 DEF TypeInv, TypeOK, IndexOK, Call
  <1>3. Idle \in Call(TakerPC) /\ Idle.pc = "idle"
    BY SlotFacts DEF Idle, Call, TakerPC
  <1>4. /\ q \in Call(TakerPC)
        /\ q.pc \in Shifting => q.i < Last
        /\ q.pc = "clearValue" => q.i = Last
    <2>1. CASE Begins(c, q)
      BY <1>2, <2>1, SlotFacts DEF Begins, Call, TakerPC, Shifting
    <2>2. ASSUME Further(c, q)
          PROVE  q \in Call(TakerPC) /\ q.pc \notin Shifting \cup {"clearValue"}
      BY <1>2, <1>3, <2>2, SlotFacts DEF Further, Call, TakerPC, Shifting
    <2>3. CASE Scans(c, q)
      BY <1>2, <2>2, <2>3, SlotFacts DEF Scans, Call, TakerPC, Shifting
    <2>4. CASE Reads(c, q)
      BY <1>2, <2>4, SlotFacts DEF Reads, Call, TakerPC, Shifting
    <2>5. ASSUME On(c, q), c.i < Last
          PROVE  /\ q \in Call(TakerPC)
                 /\ q.pc \in Shifting => q.i < Last
                 /\ q.pc = "clearValue" => q.i = Last
      BY <1>2, <2>5, SlotFacts DEF On, Call, TakerPC, Shifting
    <2>6. CASE Writes(c, q)
      BY <1>2, <2>2, <2>5, <2>6 DEF Writes, Call, TakerPC, Shifting
    <2>7. CASE Ends(c, q)
      BY <1>3, <2>7 DEF Ends, Shifting
    <2> QED BY <1>2, <2>1, <2>3, <2>4, <2>6, <2>7 DEF Takes, Goes
  <1>5. /\ call' \in [Takers \cup Putters -> Call(TakerPC \cup PutterPC)]
        /\ \A u \in Takers : call'[u].pc \in TakerPC
        /\ \A p \in Putters : call'[p].pc \in PutterPC
        /\ IndexOK'
        /\ call'[t] = q /\ \A x \in (Takers \cup Putters) \ {t} : call'[x] = call[x]
    BY <1>4, TakerMoves DEF Takes
  <1>6. value' \in [Slots -> Configs \cup {None}] /\ stamp' \in [Slots -> Times \cup {None}]
    <2>1. CASE UNCHANGED storage
      BY <1>2, <2>1 DEF storage
    <2>2. CASE \E i \in Slots, v \in Configs \cup {None} : SetValue(i, v)
      BY <1>2, <2>2 DEF SetValue
    <2>3. CASE \E i \in Slots, s \in Times \cup {None} : SetStamp(i, s)
      BY <1>2, <2>3 DEF SetStamp
    <2>4. \/ UNCHANGED storage
          \/ \E i \in Slots, v \in Configs \cup {None} : SetValue(i, v)
          \/ \E i \in Slots, s \in Times \cup {None} : SetStamp(i, s)
      BY <1>1, <1>2, SlotFacts DEF Takes, Goes, Begins, Scans, Reads, Writes, Ends
    <2> QED BY <2>1, <2>2, <2>3, <2>4
  <1>7. handed' \in [Configs -> Nat]
    BY <1>1, <1>2 DEF Takes, Goes, Begins, Ends, TypeInv, TypeOK
  <1>8. cuts' \in 0..MaxCuts /\ mixed' \in BOOLEAN
    <2>1. /\ cuts' = cuts \/ (cuts < MaxCuts /\ cuts' = cuts + 1)
          /\ mixed' = mixed \/ mixed' = (mixed \/ Running(Putters) # {})
      BY DEF Takes, Begins
    <2>2. cuts \in 0..MaxCuts /\ mixed \in BOOLEAN
      BY DEF TypeInv, TypeOK
    <2>3. cuts' \in 0..MaxCuts
      BY <2>1, <2>2, BoundsAssumption
    <2> QED BY <2>1, <2>2, <2>3
  <1>9. offered' \subseteq Configs
    <2>1. Live \subseteq Configs
      BY <1>2 DEF Live
    <2> QED BY <2>1 DEF Takes, Begins, TypeInv, TypeOK
  <1> QED BY <1>5, <1>6, <1>7, <1>8, <1>9 DEF Takes, TypeInv, TypeOK

LEMMA PutsTypes ==
  ASSUME TypeInv, NEW p \in Putters, NEW q, Puts(p, q)
  PROVE  /\ TypeInv'
         /\ call'[p] = q /\ \A x \in (Takers \cup Putters) \ {p} : call'[x] = call[x]
  <1>1. PICK c : c = call[p]
    OBVIOUS
  <1>2. /\ c \in Call(PutterPC) /\ c.i \in Slots /\ call[p] = c
        /\ value \in [Slots -> Configs \cup {None}] /\ stamp \in [Slots -> Times \cup {None}]
        /\ c.config \in Configs \cup {None} /\ now \in Times
    BY <1>1 DEF TypeInv, TypeOK, Call
  <1>3. Idle \in Call(PutterPC)
    BY SlotFacts DEF Idle, Call, PutterPC
  <1>4. q \in Call(PutterPC)
    <2>1. CASE \E d \in Configs : q = [Idle EXCEPT !.pc = "look", !.config = d]
      BY <1>3, <2>1 DEF Call, PutterPC
    <2>2. CASE \E pc \in PutterPC : q = [c EXCEPT !.pc = pc]
      BY <1>2, <2>2 DEF Call
    <2>3. CASE c.i < Last /\ q = [c EXCEPT !.pc = "look", !.i = c.i + 1]
      BY <1>2, <2>3, SlotFacts DEF Call, PutterPC
    <2> QED BY <1>1, <1>3, <2>1, <2>2, <2>3 DEF Puts, PutterPC
  <1>5. /\ call' \in [Takers \cup Putters -> Call(TakerPC \cup PutterPC)]
        /\ \A u \in Takers : call'[u].pc \in TakerPC
        /\ \A r \in Putters : call'[r].pc \in PutterPC
        /\ IndexOK'
        /\ call'[p] = q /\ \A x \in (Takers \cup Putters) \ {p} : call'[x] = call[x]
    BY <1>4, PutterMoves DEF Puts
  <1>6. value' \in [Slots -> Configs \cup {None}] /\ stamp' \in [Slots -> Times \cup {None}]
    BY <1>1, <1>2 DEF Puts, SetValue, SetStamp, storage
  <1>7. putAt' \in [Configs -> Times \cup {None}] /\ mixed' \in BOOLEAN
    BY <1>1, <1>2 DEF Puts, TypeInv, TypeOK
  <1>8. offered' \subseteq Configs
    BY DEF Puts, TypeInv, TypeOK
  <1> QED BY <1>5, <1>6, <1>7, <1>8 DEF Puts, TypeInv, TypeOK

\* The clock, and the end of the app.
LEMMA TickTypes == ASSUME TypeInv, Tick PROVE TypeInv'
  <1>1. now' \in Times /\ offered' \subseteq Configs
    BY BoundsAssumption DEF Tick, Watch, TypeInv, TypeOK, Times
  <1>2. UNCHANGED <<value, stamp, call, putAt, handed, cuts, mixed>>
    BY DEF Tick, storage
  <1> QED BY <1>1, <1>2 DEF TypeInv, TypeOK, IndexOK, Last

\* What the end of the app does: it counts the takes it cuts short.
LEMMA KilledEffect ==
  ASSUME TypeInv, Killed
  PROVE  /\ cuts' \in Nat /\ cuts' >= cuts /\ cuts' \in 0..MaxCuts
         /\ (cuts' = cuts => \A t \in Takers : call[t].pc = "idle")
         /\ (\E t \in Takers : call[t].pc # "idle") => cuts' >= cuts + 1
         /\ \A x \in Takers \cup Putters : call'[x] = Idle
         /\ mixed' \/ \A p \in Putters : call[p].pc = "idle"
         /\ \E x \in Takers \cup Putters : call[x].pc # "idle"
  <1>1. IsFiniteSet(Running(Takers))
    BY CallsAssumption, FS_Subset DEF Running
  <1>2. PICK n : n = Cardinality(Running(Takers))
    OBVIOUS
  <1>3. n \in Nat /\ (n = 0 <=> Running(Takers) = {})
    BY <1>1, <1>2, FS_CardinalityType, FS_EmptySet
  <1>4. cuts' = cuts + n /\ cuts + n <= MaxCuts /\ cuts \in Nat
    BY <1>2 DEF Killed, TypeInv, TypeOK
  <1>5. (\E t \in Takers : call[t].pc # "idle") <=> n # 0
    BY <1>3 DEF Running
  <1>6. \A x \in Takers \cup Putters : call'[x] = Idle
    BY DEF Killed
  <1>7. mixed' \/ \A p \in Putters : call[p].pc = "idle"
    BY DEF Killed, Running
  <1>8. \E x \in Takers \cup Putters : call[x].pc # "idle"
    BY DEF Killed, Running
  <1>9. /\ cuts' \in Nat /\ cuts' >= cuts /\ cuts' \in 0..MaxCuts
        /\ cuts' = cuts => n = 0
        /\ n # 0 => cuts' >= cuts + 1
    BY <1>3, <1>4, BoundsAssumption
  <1> QED BY <1>5, <1>6, <1>7, <1>8, <1>9

LEMMA KilledTypes == ASSUME TypeInv, Killed PROVE TypeInv'
  <1>1. Idle \in Call(TakerPC \cup PutterPC) /\ Idle.pc = "idle"
    BY SlotFacts DEF Idle, Call, TakerPC
  <1>2. call' = [c \in Takers \cup Putters |-> Idle]
    BY DEF Killed
  <1>3. /\ \A t \in Takers : call'[t].pc = "idle"
        /\ \A p \in Putters : call'[p].pc = "idle"
    BY <1>1, <1>2
  <1>4. IndexOK'
    BY <1>3 DEF IndexOK, Shifting
  <1>5. cuts' \in 0..MaxCuts
    BY KilledEffect
  <1>6. mixed' \in BOOLEAN /\ offered' = {} /\ UNCHANGED <<value, stamp, now, putAt, handed>>
    BY DEF Killed, storage, TypeInv, TypeOK
  <1> QED BY <1>1, <1>2, <1>3, <1>4, <1>5, <1>6 DEF TypeInv, TypeOK, TakerPC, PutterPC

LEMMA NextTypes == TypeInv /\ [Next]_vars => TypeInv'
  <1> SUFFICES ASSUME TypeInv, [Next]_vars PROVE TypeInv'
    OBVIOUS
  <1>1. CASE UNCHANGED vars
    BY <1>1 DEF vars, storage, ghosts, TypeInv, TypeOK, IndexOK, Last
  <1> QED BY <1>1, TakerTakes, TakesTypes, PutterPuts, PutsTypes, TickTypes, KilledTypes DEF Next

\* The types of ConfigQueue.
THEOREM TypeCorrect == Spec => []TypeOK
  <1>1. TypeInv => TypeOK
    BY DEF TypeInv
  <1> QED BY <1>1, InitTypes, NextTypes, PTL DEF Spec

-----------------------------------------------------------------------------
(* What refills bring is new.                                              *)

\* A refill that has not stored its configuration yet is the only one to know it:
\* no slot, no take and no other refill does, and it was never handed out.
Known ==
  /\ \A p \in Putters : call[p].pc # "idle" => call[p].config \in Configs
  /\ \A p, r \in Putters : call[p].config # None /\ p # r => call[p].config # call[r].config
  /\ \A p \in Putters : call[p].pc \in {"look", "putValue"} => putAt[call[p].config] = None
  /\ \A j \in Slots : value[j] # None => putAt[value[j]] # None
  /\ \A t \in Takers : call[t].config # None => putAt[call[t].config] # None
  /\ \A t \in Takers : call[t].next # None => putAt[call[t].next] # None
  /\ \A d \in Configs : handed[d] # 0 => putAt[d] # None
  /\ \A d \in offered : putAt[d] # None

\* What is live is in a slot.
LEMMA LiveIsStored ==
  ASSUME NEW d \in Live PROVE d # None /\ \E j \in Slots : value[j] = d
  BY DEF Live

LEMMA TakesKnown ==
  ASSUME TypeInv, Known, NEW t \in Takers, NEW q, Takes(t, q) PROVE Known'
  <1>1. PICK c : c = call[t]
    OBVIOUS
  <1>2. /\ c.i \in Slots /\ (c.pc \in Shifting => c.i < Last) /\ call[t] = c
        /\ value \in [Slots -> Configs \cup {None}]
        /\ c.config \in Configs \cup {None} /\ c.next \in Configs \cup {None}
        /\ c.config # None => putAt[c.config] # None
        /\ c.next # None => putAt[c.next] # None
    BY <1>1 DEF TypeInv, TypeOK, IndexOK, Call, Known
  <1>3. call'[t] = q /\ (\A x \in (Takers \cup Putters) \ {t} : call'[x] = call[x])
    BY TakesTypes
  <1>4. \A p \in Putters : call'[p] = call[p]
    BY <1>3, CallsAssumption
  <1>5. putAt' = putAt
    BY DEF Takes
  <1>6. /\ q.config # None => putAt[q.config] # None
        /\ q.next # None => putAt[q.next] # None
    <2>1. Idle.config = None /\ Idle.next = None
      BY DEF Idle
    <2>2. /\ q.config \in {c.config, None, value[c.i]}
          /\ \/ q.next \in {c.next, None}
             \/ c.pc = "next" /\ q.next = value[c.i + 1]
      <3>1. c \in Call(TakerPC \cup PutterPC)
        BY <1>1 DEF TypeInv, TypeOK
      <3> QED BY <1>1, <2>1, <3>1
              DEF Takes, Begins, Goes, Ends, Scans, Reads, Writes, Further, On, Call
    <2>3. value[c.i] # None => putAt[value[c.i]] # None
      BY <1>2 DEF Known
    <2>4. c.pc = "next" /\ value[c.i + 1] # None => putAt[value[c.i + 1]] # None
      BY <1>2, SlotFacts DEF Known, Shifting
    <2> QED BY <1>2, <2>2, <2>3, <2>4
  <1>7. \A j \in Slots : value'[j] # None => putAt[value'[j]] # None
    <2>1. \/ UNCHANGED value
          \/ value' = [value EXCEPT ![c.i] = None]
          \/ value' = [value EXCEPT ![c.i] = c.next]
      BY <1>1 DEF Takes, Begins, Goes, Ends, Scans, Reads, Writes, SetValue, SetStamp, storage
    <2> QED BY <1>2, <2>1 DEF Known
  <1>8. \A d \in Configs : handed'[d] # 0 => putAt[d] # None
    <2>1. \/ UNCHANGED handed
          \/ c.config # None /\ handed' = [handed EXCEPT ![c.config] = @ + 1]
      BY <1>1 DEF Takes, Begins, Goes, Ends
    <2> QED BY <1>2, <2>1 DEF Known, TypeInv, TypeOK
  <1>9. \A d \in offered' : putAt[d] # None
    <2>1. \A d \in Live : putAt[d] # None
      BY LiveIsStored DEF Known
    <2> QED BY <2>1 DEF Takes, Begins, Known
  <1>10. \A u \in Takers :
           /\ call'[u].config # None => putAt[call'[u].config] # None
           /\ call'[u].next # None => putAt[call'[u].next] # None
    BY <1>3, <1>6 DEF Known
  <1> QED BY <1>4, <1>5, <1>7, <1>8, <1>9, <1>10 DEF Known

LEMMA PutsKnown ==
  ASSUME TypeInv, Known, NEW p \in Putters, NEW q, Puts(p, q) PROVE Known'
  <1>1. PICK c : c = call[p]
    OBVIOUS
  <1>2. /\ c \in Call(TakerPC \cup PutterPC) /\ c.i \in Slots /\ call[p] = c
        /\ value \in [Slots -> Configs \cup {None}]
        /\ putAt \in [Configs -> Times \cup {None}] /\ now \in Times /\ now # None
    BY <1>1, TimeFacts DEF TypeInv, TypeOK, Call
  <1>3. /\ call'[p] = q /\ (\A x \in (Takers \cup Putters) \ {p} : call'[x] = call[x])
        /\ TypeInv'
    BY PutsTypes
  <1>4. \A u \in Takers : call'[u] = call[u]
    BY <1>3, CallsAssumption
  <1>5. /\ \A d \in Configs : putAt[d] # None => putAt'[d] # None
        /\ c.pc \in {"putValue", "putStamp"} =>
             c.config \in Configs /\ putAt' = [putAt EXCEPT ![c.config] = now]
        /\ c.pc \in {"idle", "look"} => putAt' = putAt
    BY <1>1, <1>2 DEF Puts, Known
  <1>6. \/ /\ c.pc = "idle" /\ q.pc = "look" /\ q.config \in Configs
           /\ putAt[q.config] = None /\ \A r \in Putters : call[r].config # q.config
        \/ /\ c.pc = "look" /\ q.pc \in {"look", "putValue"} /\ q.config = c.config
        \/ /\ c.pc = "putValue" /\ q.pc = "putStamp" /\ q.config = c.config
        \/ /\ c.pc = "putStamp" /\ q.pc = "idle" /\ q.config = None
    <2>1. CASE c.pc = "idle"
      BY <1>1, <2>1 DEF Puts, Idle
    <2>2. CASE c.pc = "look"
      BY <1>1, <1>2, <2>2 DEF Puts, Call
    <2>3. CASE c.pc = "putValue"
      BY <1>1, <1>2, <2>3 DEF Puts, Call
    <2>4. CASE c.pc = "putStamp"
      BY <1>1, <2>4 DEF Puts, Idle
    <2> QED BY <1>1, <2>1, <2>2, <2>3, <2>4 DEF Puts
  <1>7. \A r \in Putters : call'[r].pc # "idle" => call'[r].config \in Configs
    BY <1>2, <1>3, <1>6 DEF Known
  <1>8. \A r, w \in Putters :
          call'[r].config # None /\ r # w => call'[r].config # call'[w].config
    <2>1. \A r \in Putters \ {p} : q.config # None => call[r].config # q.config
      BY <1>2, <1>6 DEF Known
    <2> QED BY <1>3, <2>1 DEF Known
  <1>9. \A r \in Putters :
          call'[r].pc \in {"look", "putValue"} => putAt'[call'[r].config] = None
    <2>1. CASE c.pc \in {"idle", "look"}
      BY <1>2, <1>3, <1>5, <1>6, <2>1 DEF Known
    <2>2. CASE c.pc \in {"putValue", "putStamp"}
      <3>1. q.pc \notin {"look", "putValue"}
        BY <1>6, <2>2
      <3>2. \A r \in Putters \ {p} : c.config # call[r].config
        BY <1>2, <1>5, <2>2, TimeFacts DEF Known
      <3> QED BY <1>2, <1>3, <1>5, <2>2, <3>1, <3>2 DEF Known
    <2> QED BY <1>6, <2>1, <2>2
  <1>10. \A j \in Slots : value'[j] # None => putAt'[value'[j]] # None
    <2>1. \/ UNCHANGED value
          \/ c.pc = "putValue" /\ value' = [value EXCEPT ![c.i] = c.config]
      BY <1>1 DEF Puts, SetValue, SetStamp, storage
    <2>2. CASE UNCHANGED value
      BY <1>2, <1>5, <2>2 DEF Known
    <2>3. CASE c.pc = "putValue" /\ value' = [value EXCEPT ![c.i] = c.config]
      BY <1>2, <1>5, <2>3 DEF Known
    <2> QED BY <2>1, <2>2, <2>3
  <1>11. \A u \in Takers :
           /\ call'[u].config # None => putAt'[call'[u].config] # None
           /\ call'[u].next # None => putAt'[call'[u].next] # None
    <2>1. \A u \in Takers : call[u].config \in Configs \cup {None}
                            /\ call[u].next \in Configs \cup {None}
      BY DEF TypeInv, TypeOK, Call
    <2> QED BY <1>4, <1>5, <2>1 DEF Known
  <1>12. \A d \in Configs : handed'[d] # 0 => putAt'[d] # None
    BY <1>5 DEF Puts, Known
  <1>13. \A d \in offered' : putAt'[d] # None
    <2>1. offered' \subseteq offered /\ offered \subseteq Configs
      BY DEF Puts, TypeInv, TypeOK
    <2> QED BY <1>5, <2>1 DEF Known
  <1> QED BY <1>7, <1>8, <1>9, <1>10, <1>11, <1>12, <1>13 DEF Known

LEMMA KnownInductive == TypeInv /\ Known /\ [Next]_vars => Known'
  <1> SUFFICES ASSUME TypeInv, Known, [Next]_vars PROVE Known'
    OBVIOUS
  <1>1. CASE Killed
    <2>1. \A x \in Takers \cup Putters : call'[x] = Idle
      BY <1>1, KilledEffect
    <2>2. Idle.pc = "idle" /\ Idle.config = None /\ Idle.next = None
      BY DEF Idle
    <2>3. offered' = {} /\ UNCHANGED <<value, putAt, handed>>
      BY <1>1 DEF Killed, storage
    <2> QED BY <2>1, <2>2, <2>3 DEF Known
  <1>2. CASE Tick
    BY <1>2 DEF Tick, Watch, storage, Known
  <1>3. CASE UNCHANGED vars
    BY <1>3 DEF vars, storage, ghosts, Known
  <1> QED BY <1>1, <1>2, <1>3, TakerTakes, TakesKnown, PutterPuts, PutsKnown DEF Next

LEMMA InitKnown == Init => Known
  BY DEF Init, Known, Idle

-----------------------------------------------------------------------------
(* Nothing is missed.                                                      *)

\* Slot j is behind the search of take t.
Passed(t, j) ==
  \/ call[t].pc \in {"scan", "scanStamp", "dropValue", "dropStamp"} /\ j < call[t].i
  \/ call[t].pc = "dropStamp" /\ j = call[t].i

\* While something is on offer only one take runs, and what is on offer is not in a
\* slot it has passed: it was empty then, and refills bring something new.
Missed ==
  offered # {} =>
    /\ \A t, u \in Takers : call[t].pc # "idle" /\ call[u].pc # "idle" => t = u
    /\ \A t \in Takers, j \in Slots : Passed(t, j) => value[j] \notin offered

LEMMA TakesMissed ==
  ASSUME TypeInv, Known, Missed, NEW t \in Takers, NEW q, Takes(t, q) PROVE Missed'
  <1> SUFFICES ASSUME offered' # {}
               PROVE  /\ \A u, w \in Takers :
                           call'[u].pc # "idle" /\ call'[w].pc # "idle" => u = w
                      /\ \A u \in Takers, j \in Slots : Passed(u, j)' => value'[j] \notin offered'
    BY DEF Missed
  <1>1. PICK c : c = call[t]
    OBVIOUS
  <1>2. /\ c \in Call(TakerPC \cup PutterPC) /\ c.i \in Slots /\ call[t] = c
        /\ value \in [Slots -> Configs \cup {None}]
    BY <1>1 DEF TypeInv, TypeOK, Call
  <1>3. call'[t] = q /\ (\A u \in Takers \ {t} : call'[u] = call[u]) /\ offered' \subseteq Configs
    BY TakesTypes DEF TypeInv, TypeOK
  <1>4. None \notin offered'
    BY <1>3, TimeFacts
  <1>5. CASE Begins(c, q)
    <2>1. Running(Takers) = {}
      BY <1>1, <1>2, <1>5 DEF Begins, Takes, Goes, Scans, Reads, Writes, Ends
    <2>2. \A u \in Takers : call[u].pc = "idle"
      BY <2>1 DEF Running
    <2>3. q.pc = "scan" /\ q.i = 0
      BY <1>2, <1>5 DEF Begins, Call
    <2>4. \A j \in Slots : ~(j < 0)
      BY DEF Slots
    <2> QED BY <1>3, <2>2, <2>3, <2>4 DEF Passed
  <1>6. CASE Goes(c, q) \/ Ends(c, q)
    <2>1. offered' \subseteq offered /\ offered # {} /\ c.pc # "idle"
      BY <1>1, <1>6 DEF Takes, Begins, Goes, Ends, Scans, Reads, Writes
    <2>2. \A u \in Takers \ {t} : call[u].pc = "idle" /\ call'[u].pc = "idle"
      BY <1>2, <1>3, <2>1 DEF Missed
    <2>3. ASSUME NEW j \in Slots,
                 \/ q.pc \in {"scan", "scanStamp", "dropValue", "dropStamp"} /\ j < q.i
                 \/ q.pc = "dropStamp" /\ j = q.i
          PROVE  value'[j] \notin offered'
      <3>1. \/ c.pc \in {"scan", "scanStamp", "dropValue", "dropStamp"} /\ j < c.i
            \/ c.pc = "dropStamp" /\ j = c.i
            => value[j] \notin offered
        BY <1>2, <2>1 DEF Missed, Passed
      <3>2. j \in Nat /\ c.i \in Nat
        BY <1>2, SlotFacts
      <3>3. ASSUME Further(c, q), value[c.i] \notin offered \/ c.pc = "dropStamp",
                   c.pc \in {"scan", "dropStamp"}, UNCHANGED value
            PROVE  value'[j] \notin offered'
        <4>0. q # Idle
          BY <2>3 DEF Idle
        <4>1. q.pc = "scan" /\ q.i = c.i + 1
          BY <1>2, <3>3, <4>0 DEF Further, Call
        <4>2. j < c.i \/ j = c.i
          BY <2>3, <3>2, <4>1
        <4> QED BY <2>1, <3>1, <3>3, <4>2
      <3>4. CASE Scans(c, q)
        <4>1. CASE c.pc = "scan" /\ value[c.i] = None
          <5>1. None \notin offered
            BY TimeFacts DEF TypeInv, TypeOK
          <5> QED BY <3>3, <3>4, <4>1, <5>1 DEF Scans, storage
        <4>2. CASE ~(c.pc = "scan" /\ value[c.i] = None)
          <5>1. /\ c.pc \in {"scan", "scanStamp"} /\ UNCHANGED value
                /\ q.i = c.i /\ q.pc # "dropStamp"
            BY <1>2, <3>4, <4>2 DEF Scans, Call, storage
          <5> QED BY <2>1, <2>3, <3>1, <5>1
        <4> QED BY <4>1, <4>2
      <3>5. CASE Reads(c, q)
        BY <1>2, <2>3, <3>5 DEF Reads, Call
      <3>6. CASE Writes(c, q)
        <4>1. CASE c.pc = "dropStamp"
          BY <3>3, <3>6, <4>1 DEF Writes, SetStamp
        <4>2. CASE c.pc = "dropValue"
          <5>1. value' = [value EXCEPT ![c.i] = None] /\ q.i = c.i
            BY <1>2, <3>6, <4>2 DEF Writes, SetValue, Call
          <5>2. CASE j = c.i
            BY <1>2, <1>4, <5>1, <5>2
          <5>3. CASE j # c.i
            BY <1>2, <2>1, <2>3, <3>1, <4>2, <5>1, <5>3
          <5> QED BY <5>2, <5>3
        <4>3. CASE c.pc \notin {"dropStamp", "dropValue"}
          BY <1>2, <2>3, <3>6, <4>3 DEF Writes, On, Call
        <4> QED BY <4>1, <4>2, <4>3
      <3>7. CASE Ends(c, q)
        BY <2>3, <3>7 DEF Ends, Idle
      <3> QED BY <1>6, <3>4, <3>5, <3>6, <3>7 DEF Goes
    <2> QED BY <1>3, <2>2, <2>3 DEF Passed
  <1> QED BY <1>1, <1>5, <1>6 DEF Takes

LEMMA PutsMissed ==
  ASSUME TypeInv, Known, Missed, NEW p \in Putters, NEW q, Puts(p, q) PROVE Missed'
  <1>1. PICK c : c = call[p]
    OBVIOUS
  <1>2. \A u \in Takers : call'[u] = call[u]
    BY PutsTypes, CallsAssumption
  <1>3. offered' \subseteq offered
    BY DEF Puts
  <1>4. \A j \in Slots : value'[j] = value[j] \/ value'[j] \notin offered
    <2>1. \/ UNCHANGED value
          \/ c.pc = "putValue" /\ value' = [value EXCEPT ![c.i] = c.config]
      BY <1>1 DEF Puts, SetValue, SetStamp, storage
    <2>2. c.pc = "putValue" => c.config \notin offered
      BY <1>1 DEF Known
    <2> QED BY <2>1, <2>2 DEF TypeInv, TypeOK
  <1> QED BY <1>2, <1>3, <1>4 DEF Missed, Passed

LEMMA MissedInductive == TypeInv /\ Known /\ Missed /\ [Next]_vars => Missed'
  <1> SUFFICES ASSUME TypeInv, Known, Missed, [Next]_vars PROVE Missed'
    OBVIOUS
  <1>1. CASE Killed
    BY <1>1 DEF Killed, Missed
  <1>2. CASE Tick
    BY <1>2 DEF Tick, Watch, storage, Missed, Passed
  <1>3. CASE UNCHANGED vars
    BY <1>3 DEF vars, storage, ghosts, Missed, Passed
  <1> QED BY <1>1, <1>2, <1>3, TakerTakes, TakesMissed, PutterPuts, PutsMissed DEF Next

\* A take that gives up has passed every slot.
LEMMA GivesUp ==
  ASSUME TypeInv, Known, Missed, [Next]_vars, NEW t \in Takers, NotFound(t)
  PROVE  offered \cap Live = {}
  <1>1. call[t].pc \in {"scan", "dropStamp"} /\ call'[t].pc = "idle" /\ cuts' = cuts
    BY DEF NotFound
  <1>2. TakerStep(t)
    <2>1. ~Killed
      BY <1>1, KilledEffect
    <2>2. ASSUME NEW u \in Takers, TakerStep(u), u # t PROVE FALSE
      <3>1. PICK q : Takes(u, q)
        BY <2>2, TakerTakes
      <3>2. call'[t] = call[t]
        BY <2>2, <3>1, TakesTypes
      <3> QED BY <1>1, <3>2
    <2>3. ASSUME NEW p \in Putters, PutterStep(p) PROVE FALSE
      <3>1. PICK q : Puts(p, q)
        BY <2>3, PutterPuts
      <3>2. call'[t] = call[t]
        BY <3>1, PutsTypes, CallsAssumption
      <3> QED BY <1>1, <3>2
    <2> QED BY <1>1, <2>1, <2>2, <2>3 DEF Next, Tick, vars
  <1>3. PICK q : Takes(t, q)
    BY <1>2, TakerTakes
  <1>4. PICK c : c = call[t]
    OBVIOUS
  <1>5. /\ call'[t] = q /\ c \in Call(TakerPC \cup PutterPC) /\ c.i \in Slots
    BY <1>3, <1>4, TakesTypes DEF TypeInv, TypeOK, Call
  <1>6. /\ c.pc \in {"scan", "dropStamp"} /\ q.pc = "idle"
        /\ Goes(c, q)
    BY <1>1, <1>3, <1>4, <1>5 DEF Takes, Begins, Ends
  <1>7. c.i = Last /\ (c.pc = "scan" => value[c.i] = None)
    BY <1>5, <1>6 DEF Goes, Scans, Reads, Writes, Further, Call
  <1>8. \A j \in Slots : j < c.i \/ j = c.i
    BY <1>7, SlotFacts
  <1>9. ASSUME offered # {} PROVE \A j \in Slots : value[j] = None \/ value[j] \notin offered
    BY <1>4, <1>6, <1>7, <1>8, <1>9 DEF Missed, Passed
  <1> QED BY <1>9, LiveIsStored

\* dequeue answers null only if nothing in the queue has been live since the call
\* began, while it was the only take, whatever refills came between its steps and
\* whatever takes that were cut short left behind (ConfigQueue.dequeue).
THEOREM NothingMissed == Spec => NothingIsMissed
  <1>1. Init => Missed
    BY DEF Init, Missed
  <1>2. TypeInv /\ Known /\ Missed /\ [Next]_vars =>
          [\A t \in Takers : NotFound(t) => offered \cap Live = {}]_vars
    BY GivesUp
  <1> QED BY <1>1, <1>2, InitTypes, NextTypes, InitKnown, KnownInductive, MissedInductive, PTL
          DEF Spec, NothingIsMissed

-----------------------------------------------------------------------------
(* Nothing expired is taken.                                               *)

\* What the only call under way knows of the slots it is at.
TakerTidy(t) ==
  /\ call[t].pc = "scanStamp" => call[t].config = value[call[t].i] /\ call[t].config # None
  /\ call[t].pc = "nextStamp" => call[t].next = value[call[t].i + 1]
  /\ call[t].pc \in {"moveValue", "moveStamp"} =>
       call[t].next # None /\ call[t].at = putAt[call[t].next]
  /\ call[t].pc = "moveStamp" => value[call[t].i] = call[t].next
  /\ call[t].pc \in {"dropStamp", "emptyStamp"} => value[call[t].i] = None
  /\ call[t].pc = "clearStamp" => value[Last] = None

PutterTidy(p) ==
  call[p].pc = "putStamp" =>
    \A j \in Slots : value[j] = call[p].config <=> j = call[p].i

\* Every value has the stamp of the time it was stored at, but for the one that is
\* being shifted or stored.
Tidy ==
  /\ \A x, y \in Takers \cup Putters : call[x].pc # "idle" /\ call[y].pc # "idle" => x = y
  /\ \A j \in Slots :
       \/ value[j] = None
       \/ stamp[j] = putAt[value[j]]
       \/ \E t \in Takers : call[t].pc = "moveStamp" /\ call[t].i = j
       \/ \E p \in Putters : call[p].pc = "putStamp" /\ call[p].i = j
  /\ \A t \in Takers : TakerTidy(t)
  /\ \A p \in Putters : PutterTidy(p)

TidyInv == Undisturbed => Tidy

LEMMA TakesTidy ==
  ASSUME TypeInv, Known, TidyInv, NEW t \in Takers, NEW q, Takes(t, q) PROVE TidyInv'
  <1> SUFFICES ASSUME Undisturbed' PROVE Tidy'
    BY DEF TidyInv
  <1>1. PICK c : c = call[t]
    OBVIOUS
  <1>2. /\ c \in Call(TakerPC \cup PutterPC) /\ c.i \in Slots /\ call[t] = c
        /\ value \in [Slots -> Configs \cup {None}] /\ stamp \in [Slots -> Times \cup {None}]
        /\ c.pc \in Shifting => c.i < Last
        /\ c.pc = "clearValue" => c.i = Last
    BY <1>1 DEF TypeInv, TypeOK, IndexOK, Call
  <1>3. call'[t] = q /\ (\A x \in (Takers \cup Putters) \ {t} : call'[x] = call[x])
    BY TakesTypes
  <1>4. Undisturbed /\ \A x \in (Takers \cup Putters) \ {t} : call[x].pc = "idle"
    <2>1. CASE Begins(c, q) /\ c.pc = "idle"
      <3>1. cuts \in Nat /\ cuts' = 0 /\ mixed' = FALSE /\ mixed \in BOOLEAN
        BY DEF Undisturbed, TypeInv, TypeOK
      <3>2. Running(Takers) = {} /\ cuts = 0
        BY <2>1, <3>1 DEF Begins
      <3>3. mixed' = (mixed \/ Running(Putters) # {})
        BY <2>1 DEF Begins
      <3>4. Running(Putters) = {} /\ ~mixed
        BY <3>1, <3>3
      <3> QED BY <3>2, <3>4 DEF Running, Undisturbed
    <2>2. CASE c.pc # "idle"
      <3>1. UNCHANGED <<cuts, mixed>>
        BY <1>1, <2>2 DEF Takes, Begins
      <3>2. Undisturbed
        BY <3>1 DEF Undisturbed
      <3> QED BY <1>2, <2>2, <3>2 DEF TidyInv, Tidy
    <2> QED BY <1>1, <2>1, <2>2 DEF Takes, Goes, Scans, Reads, Writes, Ends
  <1>5. \A x \in (Takers \cup Putters) \ {t} : call'[x].pc = "idle"
    BY <1>3, <1>4
  <1>6. /\ TakerTidy(t)
        /\ \A j \in Slots : \/ value[j] = None \/ stamp[j] = putAt[value[j]]
                            \/ c.pc = "moveStamp" /\ c.i = j
    BY <1>2, <1>4, CallsAssumption DEF TidyInv, Tidy
  <1>7. putAt' = putAt /\ Last' = Last
    BY DEF Takes, Last
  <1> SUFFICES /\ \A j \in Slots : \/ value'[j] = None \/ stamp'[j] = putAt[value'[j]]
                                   \/ q.pc = "moveStamp" /\ q.i = j
               /\ TakerTidy(t)'
    BY <1>3, <1>5, <1>7, CallsAssumption DEF Tidy, TakerTidy, PutterTidy
  <1> DEFINE Looks == Further(c, q)
  <1>13. Looks => q.pc \in {"scan", "idle"}
    <2>1. q = Idle => q.pc = "idle"
      BY DEF Idle
    <2>2. q = [c EXCEPT !.pc = "scan", !.i = c.i + 1] => q.pc = "scan"
      BY <1>2 DEF Call
    <2> QED BY <2>1, <2>2 DEF Further
  <1> HIDE DEF Looks
  <1>8. CASE Begins(c, q)
    <2>1. q.pc = "scan" /\ UNCHANGED <<value, stamp>> /\ c.pc = "idle"
      BY <1>2, <1>8 DEF Begins, Call, storage
    <2> QED BY <1>3, <1>6, <2>1 DEF TakerTidy
  <1>9. CASE Scans(c, q)
    <2>1. UNCHANGED <<value, stamp>> /\ c.pc \in {"scan", "scanStamp"}
      BY <1>9 DEF Scans, storage
    <2>2. \/ q.pc \in {"scan", "idle", "dropValue", "next", "clearValue"}
          \/ q.pc = "scanStamp" /\ q.i = c.i /\ q.config = value[c.i] /\ value[c.i] # None
      <3>1. CASE c.pc = "scan" /\ value[c.i] = None
        BY <1>9, <1>13, <3>1 DEF Scans, Looks
      <3>2. CASE c.pc = "scan" /\ value[c.i] # None
        BY <1>2, <1>9, <3>2 DEF Scans, Call
      <3>3. CASE c.pc = "scanStamp"
        BY <1>2, <1>9, <3>3 DEF Scans, Call
      <3> QED BY <2>1, <3>1, <3>2, <3>3
    <2> QED BY <1>3, <1>6, <2>1, <2>2 DEF TakerTidy
  <1>10. CASE Reads(c, q)
    <2>1. UNCHANGED <<value, stamp>> /\ c.pc \in {"next", "nextStamp"}
      BY <1>10 DEF Reads, storage
    <2>2. c.i + 1 \in Slots
      BY <1>2, <2>1, SlotFacts DEF Shifting
    <2>3. CASE c.pc = "next"
      <3>1. q.pc = "nextStamp" /\ q.i = c.i /\ q.next = value[c.i + 1]
        BY <1>2, <1>10, <2>3 DEF Reads, Call
      <3> QED BY <1>3, <1>6, <2>1, <3>1 DEF TakerTidy
    <2>4. CASE c.pc = "nextStamp"
      <3>1. /\ q.next = c.next /\ q.at = stamp[c.i + 1]
            /\ q.pc = "emptyValue" \/ (q.pc = "moveValue" /\ c.next # None)
        <4>1. q = [c EXCEPT !.at = stamp[c.i + 1],
                            !.pc = IF c.next # None /\ stamp[c.i + 1] # None
                                   THEN "moveValue" ELSE "emptyValue"]
          BY <1>10, <2>4 DEF Reads
        <4> QED BY <1>2, <4>1 DEF Call
      <3>2. c.next = value[c.i + 1]
        BY <1>1, <1>6, <2>4 DEF TakerTidy
      <3>3. q.pc = "moveValue" => q.at = putAt[q.next]
        BY <1>6, <2>2, <2>4, <3>1, <3>2
      <3> QED BY <1>3, <1>6, <1>7, <2>1, <2>4, <3>1, <3>3 DEF TakerTidy
    <2> QED BY <2>1, <2>3, <2>4
  <1>11. CASE Writes(c, q)
    <2>1. CASE c.pc = "moveValue"
      <3>1. /\ value' = [value EXCEPT ![c.i] = c.next] /\ UNCHANGED stamp
            /\ q.pc = "moveStamp" /\ q.i = c.i /\ q.next = c.next /\ q.at = c.at
        BY <1>2, <1>11, <2>1 DEF Writes, SetValue, Call
      <3>2. c.next # None /\ c.at = putAt[c.next]
        BY <1>1, <1>6, <2>1 DEF TakerTidy
      <3> QED BY <1>2, <1>3, <1>6, <1>7, <2>1, <3>1, <3>2 DEF TakerTidy
    <2>2. CASE c.pc = "moveStamp"
      <3>1. /\ stamp' = [stamp EXCEPT ![c.i] = c.at] /\ UNCHANGED value
            /\ q.pc \in {"next", "clearValue"}
        BY <1>2, <1>11, <2>2 DEF Writes, SetStamp, On, Call
      <3>2. value[c.i] = c.next /\ c.at = putAt[c.next]
        BY <1>1, <1>6, <2>2 DEF TakerTidy
      <3> QED BY <1>2, <1>3, <1>6, <1>7, <2>2, <3>1, <3>2 DEF TakerTidy
    <2>3. CASE c.pc \in {"dropValue", "emptyValue", "clearValue"}
      <3>1. /\ value' = [value EXCEPT ![c.i] = None] /\ UNCHANGED stamp
            /\ q.pc \in {"dropStamp", "emptyStamp", "clearStamp"} /\ q.i = c.i
            /\ q.pc = "clearStamp" => c.i = Last
        BY <1>2, <1>11, <2>3 DEF Writes, SetValue, Call
      <3> QED BY <1>2, <1>3, <1>6, <1>7, <2>3, <3>1 DEF TakerTidy
    <2>4. CASE c.pc \in {"dropStamp", "emptyStamp"}
      <3>1. /\ stamp' = [stamp EXCEPT ![c.i] = None] /\ UNCHANGED value
            /\ q.pc \in {"scan", "idle", "next", "clearValue"}
        <4>1. CASE c.pc = "dropStamp"
          BY <1>11, <1>13, <4>1 DEF Writes, SetStamp, Looks
        <4>2. CASE c.pc = "emptyStamp"
          BY <1>2, <1>11, <4>2 DEF Writes, SetStamp, On, Call
        <4> QED BY <2>4, <4>1, <4>2
      <3>2. value[c.i] = None
        BY <1>1, <1>6, <2>4 DEF TakerTidy
      <3> QED BY <1>2, <1>3, <1>6, <1>7, <2>4, <3>1, <3>2 DEF TakerTidy
    <2> QED BY <1>11, <2>1, <2>2, <2>3, <2>4 DEF Writes
  <1>12. CASE Ends(c, q)
    <2>1. /\ stamp' = [stamp EXCEPT ![Last] = None] /\ UNCHANGED value
          /\ q.pc = "idle" /\ c.pc = "clearStamp"
      BY <1>12 DEF Ends, SetStamp, Idle
    <2>2. value[Last] = None
      BY <1>1, <1>6, <2>1 DEF TakerTidy
    <2> QED BY <1>2, <1>3, <1>6, <2>1, <2>2, SlotFacts DEF TakerTidy
  <1> QED BY <1>1, <1>8, <1>9, <1>10, <1>11, <1>12 DEF Takes, Goes

LEMMA PutsTidy ==
  ASSUME TypeInv, Known, TidyInv, NEW p \in Putters, NEW q, Puts(p, q) PROVE TidyInv'
  <1> SUFFICES ASSUME Undisturbed' PROVE Tidy'
    BY DEF TidyInv
  <1>1. PICK c : c = call[p]
    OBVIOUS
  <1>2. /\ c \in Call(TakerPC \cup PutterPC) /\ c.i \in Slots /\ call[p] = c
        /\ value \in [Slots -> Configs \cup {None}] /\ stamp \in [Slots -> Times \cup {None}]
        /\ putAt \in [Configs -> Times \cup {None}]
    BY <1>1 DEF TypeInv, TypeOK, Call
  <1>3. call'[p] = q /\ (\A x \in (Takers \cup Putters) \ {p} : call'[x] = call[x])
    BY PutsTypes
  <1>4. Undisturbed /\ \A x \in (Takers \cup Putters) \ {p} : call[x].pc = "idle"
    <2>1. cuts = cuts' /\ cuts' = 0 /\ ~mixed'
      BY DEF Undisturbed, Puts
    <2>2. CASE c.pc = "idle"
      <3>1. mixed' = (mixed \/ Running(Takers \cup Putters) # {})
        BY <1>1, <2>2 DEF Puts
      <3>2. Running(Takers \cup Putters) = {} /\ ~mixed
        BY <2>1, <3>1
      <3> QED BY <2>1, <3>2 DEF Running, Undisturbed
    <2>3. CASE c.pc # "idle"
      <3>1. UNCHANGED mixed
        BY <1>1, <2>3 DEF Puts
      <3>2. Undisturbed
        BY <2>1, <3>1 DEF Undisturbed
      <3> QED BY <1>2, <2>3, <3>2 DEF TidyInv, Tidy
    <2> QED BY <2>2, <2>3
  <1>5. \A x \in (Takers \cup Putters) \ {p} : call'[x].pc = "idle"
    BY <1>3, <1>4
  <1>6. /\ PutterTidy(p)
        /\ \A j \in Slots : \/ value[j] = None \/ stamp[j] = putAt[value[j]]
                            \/ c.pc = "putStamp" /\ c.i = j
    BY <1>2, <1>4, CallsAssumption DEF TidyInv, Tidy
  <1> SUFFICES /\ \A j \in Slots : \/ value'[j] = None \/ stamp'[j] = putAt'[value'[j]]
                                   \/ q.pc = "putStamp" /\ q.i = j
               /\ PutterTidy(p)'
    BY <1>3, <1>5, CallsAssumption DEF Tidy, TakerTidy, PutterTidy
  <1>7. CASE c.pc \in {"idle", "look"}
    <2>1. UNCHANGED <<value, stamp, putAt>> /\ q.pc \in {"look", "putValue"}
      BY <1>1, <1>2, <1>7 DEF Puts, Idle, Call, storage
    <2> QED BY <1>3, <1>6, <1>7, <2>1 DEF PutterTidy
  <1>8. CASE c.pc = "putValue"
    <2>1. /\ value' = [value EXCEPT ![c.i] = c.config] /\ UNCHANGED stamp
          /\ putAt' = [putAt EXCEPT ![c.config] = now]
          /\ q.pc = "putStamp" /\ q.i = c.i /\ q.config = c.config
      BY <1>1, <1>2, <1>8 DEF Puts, SetValue, Call
    <2>2. c.config \in Configs /\ \A j \in Slots : value[j] # c.config
      BY <1>1, <1>8, TimeFacts DEF Known
    <2> QED BY <1>2, <1>3, <1>6, <1>8, <2>1, <2>2 DEF PutterTidy
  <1>9. CASE c.pc = "putStamp"
    <2>1. /\ stamp' = [stamp EXCEPT ![c.i] = now] /\ UNCHANGED value
          /\ putAt' = [putAt EXCEPT ![c.config] = now] /\ q.pc = "idle"
      BY <1>1, <1>9 DEF Puts, SetStamp, Idle
    <2>2. c.config \in Configs /\ \A j \in Slots : value[j] = c.config <=> j = c.i
      BY <1>1, <1>6, <1>9 DEF Known, PutterTidy
    <2> QED BY <1>2, <1>3, <1>6, <1>9, <2>1, <2>2 DEF PutterTidy
  <1> QED BY <1>1, <1>7, <1>8, <1>9 DEF Puts

LEMMA TidyInductive == TypeInv /\ Known /\ TidyInv /\ [Next]_vars => TidyInv'
  <1> SUFFICES ASSUME TypeInv, Known, TidyInv, [Next]_vars PROVE TidyInv'
    OBVIOUS
  <1>1. CASE Killed
    <2>1. cuts' # 0 \/ mixed'
      <3>1. cuts \in Nat
        BY DEF TypeInv, TypeOK
      <3> QED BY <1>1, <3>1, KilledEffect
    <2> QED BY <2>1 DEF TidyInv, Undisturbed
  <1>2. CASE Tick
    BY <1>2 DEF Tick, storage, TidyInv, Undisturbed, Tidy, TakerTidy, PutterTidy, Last
  <1>3. CASE UNCHANGED vars
    BY <1>3 DEF vars, storage, ghosts, TidyInv, Undisturbed, Tidy, TakerTidy, PutterTidy, Last
  <1> QED BY <1>1, <1>2, <1>3, TakerTakes, TakesTidy, PutterPuts, PutsTidy DEF Next

\* What the head of the queue was stored at is what its stamp says.
LEMMA TakesFresh ==
  ASSUME TypeInv, Known, TidyInv, [Next]_vars, NEW t \in Takers, Undisturbed, Found(t)
  PROVE  now - putAt[call[t].config] < Ttl
  <1>1. call[t].pc = "scanStamp" /\ call'[t].pc \in {"next", "clearValue"}
    BY DEF Found
  <1>2. TakerStep(t)
    <2>1. ~Killed
      BY <1>1, KilledEffect DEF Idle
    <2>2. ASSUME NEW u \in Takers, TakerStep(u), u # t PROVE FALSE
      <3>1. PICK q : Takes(u, q)
        BY <2>2, TakerTakes
      <3>2. call'[t] = call[t]
        BY <2>2, <3>1, TakesTypes
      <3> QED BY <1>1, <3>2
    <2>3. ASSUME NEW p \in Putters, PutterStep(p) PROVE FALSE
      <3>1. PICK q : Puts(p, q)
        BY <2>3, PutterPuts
      <3>2. call'[t] = call[t]
        BY <3>1, PutsTypes, CallsAssumption
      <3> QED BY <1>1, <3>2
    <2> QED BY <1>1, <2>1, <2>2, <2>3 DEF Next, Tick, vars
  <1>3. PICK q : Takes(t, q)
    BY <1>2, TakerTakes
  <1>4. PICK c : c = call[t]
    OBVIOUS
  <1>5. /\ call'[t] = q /\ c \in Call(TakerPC \cup PutterPC) /\ c.i \in Slots
        /\ stamp \in [Slots -> Times \cup {None}] /\ now \in Times
        /\ value \in [Slots -> Configs \cup {None}]
        /\ putAt \in [Configs -> Times \cup {None}]
    BY <1>3, <1>4, TakesTypes DEF TypeInv, TypeOK, Call
  <1>6. ~Stale(stamp[c.i])
    <2>1. Scans(c, q)
      BY <1>1, <1>3, <1>4 DEF Takes, Begins, Goes, Reads, Writes, Ends
    <2> QED BY <1>1, <1>4, <1>5, <2>1 DEF Scans, Call
  <1>7. c.config = value[c.i] /\ c.config # None /\ \A x \in Takers \cup Putters : call[x].pc # "idle" => x = t
    BY <1>1, <1>4 DEF TidyInv, Tidy, TakerTidy
  <1>8. stamp[c.i] = putAt[c.config] /\ putAt[c.config] # None
    BY <1>1, <1>5, <1>7, CallsAssumption DEF TidyInv, Tidy, Known
  <1>9. stamp[c.i] \in Nat /\ now \in Nat /\ stamp[c.i] # None
    BY <1>5, <1>8, TimeFacts
  <1>10. now - stamp[c.i] < Ttl
    BY <1>6, <1>9, BoundsAssumption DEF Stale
  <1> QED BY <1>4, <1>8, <1>10

\* Unless calls overlapped or were cut short, what dequeue picks has been in the
\* queue for less than Ttl, however often it was shifted (ConfigQueue.dequeue).
THEOREM NothingExpired == Spec => ExpiredIsNotTaken
  <1>1. Init => TidyInv
    BY DEF Init, TidyInv, Tidy, TakerTidy, PutterTidy, Idle
  <1>2. TypeInv /\ Known /\ TidyInv /\ [Next]_vars =>
          [\A t \in Takers : Undisturbed /\ Found(t) =>
              now - putAt[call[t].config] < Ttl]_vars
    BY TakesFresh
  <1> QED BY <1>1, <1>2, InitTypes, NextTypes, InitKnown, KnownInductive, TidyInductive, PTL
          DEF Spec, ExpiredIsNotTaken

-----------------------------------------------------------------------------
(* How often a configuration is handed out.                                *)

\* No two takes run at once.
OneTake == \A t, u \in Takers : call[t].pc # "idle" /\ call[u].pc # "idle" => t = u

\* The slot whose content no longer counts for a take in local state r: its head, or
\* what it has just copied to the slot before.
Hole(r) ==
  IF r.pc \in {"scanStamp", "dropValue", "next", "nextStamp", "moveValue", "emptyValue",
               "clearValue"}
  THEN {r.i}
  ELSE IF r.pc \in {"moveStamp", "emptyStamp"} THEN {r.i + 1} ELSE {}

Copies(v, d, A) == Cardinality({j \in A : v[j] = d})
Held(d, r)      == IF r.config = d THEN 1 ELSE 0

\* The copies of d in the slots, in the hands of the take and handed out.
Fits(d, r) == Copies(value, d, Slots \ Hole(r)) + Held(d, r) + handed[d] <= 1 + cuts

\* What is to be copied counts twice while it is.
Ahead(d, r) ==
  r.pc \in {"nextStamp", "moveValue"} /\ r.next = d =>
    Copies(value, d, Slots \ {r.i, r.i + 1}) + Held(d, r) + handed[d] <= cuts

CopiesInv ==
  /\ HandedAtMost
  /\ \A t \in Takers : call[t].pc = "idle" => call[t].config = None
  /\ (\A t \in Takers : call[t].pc = "idle") => \A d \in Configs : Fits(d, Idle)
  /\ \A t \in Takers : call[t].pc # "idle" =>
       \A d \in Configs : Fits(d, call[t]) /\ Ahead(d, call[t])

\* Counting copies: of slots that hold d in v, of no more, of one more, of one less.
LEMMA CopiesAreFinite ==
  ASSUME NEW v, NEW d, NEW A \in SUBSET Slots
  PROVE  IsFiniteSet({j \in A : v[j] = d}) /\ Copies(v, d, A) \in Nat
  <1>1. IsFiniteSet(Slots)
    BY SlotFacts, FS_Interval, SlotsAssumption DEF Slots
  <1> QED BY <1>1, FS_Subset, FS_CardinalityType DEF Copies

LEMMA NoMoreCopies ==
  ASSUME NEW v, NEW w, NEW d, NEW A \in SUBSET Slots, NEW B \in SUBSET Slots,
         \A j \in A : w[j] = d => j \in B /\ v[j] = d
  PROVE  Copies(w, d, A) <= Copies(v, d, B)
  <1> DEFINE S == {j \in A : w[j] = d}
             T == {j \in B : v[j] = d}
  <1>1. IsFiniteSet(T)
    BY CopiesAreFinite
  <1>2. S \in SUBSET T
    OBVIOUS
  <1>3. Cardinality(S) <= Cardinality(T)
    <2> HIDE DEF S, T
    <2> QED BY <1>1, <1>2, FS_Subset
  <1> QED BY <1>3 DEF Copies

LEMMA OneMoreCopy ==
  ASSUME NEW v, NEW w, NEW d, NEW A \in SUBSET Slots, NEW B \in SUBSET Slots, NEW k,
         \A j \in A : w[j] = d => j = k \/ (j \in B /\ v[j] = d)
  PROVE  Copies(w, d, A) <= Copies(v, d, B) + 1
  <1> DEFINE S == {j \in A : w[j] = d}
             T == {j \in B : v[j] = d}
  <1>1. IsFiniteSet(T) /\ IsFiniteSet(S) /\ Cardinality(T) \in Nat
    BY CopiesAreFinite, FS_CardinalityType
  <1>2. S \subseteq T \cup {k}
    OBVIOUS
  <1>3. /\ IsFiniteSet(T \cup {k})
        /\ Cardinality(T \cup {k}) = Cardinality(T) \/ Cardinality(T \cup {k}) = Cardinality(T) + 1
    BY <1>1, FS_AddElement
  <1>4. Cardinality(S) <= Cardinality(T \cup {k}) /\ Cardinality(S) \in Nat
    BY <1>1, <1>2, <1>3, FS_Subset, FS_CardinalityType
  <1>5. Cardinality(S) <= Cardinality(T) + 1
    <2> HIDE DEF S, T
    <2> QED BY <1>1, <1>3, <1>4
  <1> QED BY <1>5 DEF Copies

LEMMA OneLessCopy ==
  ASSUME NEW v, NEW w, NEW d, NEW A \in SUBSET Slots, NEW B \in SUBSET Slots, NEW k \in B,
         v[k] = d, \A j \in A : w[j] = d => j # k /\ j \in B /\ v[j] = d
  PROVE  Copies(w, d, A) + 1 <= Copies(v, d, B)
  <1> DEFINE S == {j \in A : w[j] = d}
             T == {j \in B : v[j] = d}
  <1>1. IsFiniteSet(T) /\ IsFiniteSet(S) /\ Cardinality(S) \in Nat
    <2>1. IsFiniteSet(T) /\ IsFiniteSet(S)
      BY CopiesAreFinite
    <2> HIDE DEF S, T
    <2> QED BY <2>1, FS_CardinalityType
  <1>2. S \cup {k} \subseteq T /\ k \notin S
    OBVIOUS
  <1>3. Cardinality(S \cup {k}) = Cardinality(S) + 1
    BY <1>1, <1>2, FS_AddElement
  <1>4. Cardinality(S \cup {k}) <= Cardinality(T)
    BY <1>1, <1>2, FS_Subset
  <1> QED BY <1>3, <1>4 DEF Copies

LEMMA NoCopies ==
  ASSUME NEW v, NEW d, NEW A \in SUBSET Slots, \A j \in A : v[j] # d
  PROVE  Copies(v, d, A) = 0
  <1>1. {j \in A : v[j] = d} = {}
    OBVIOUS
  <1> QED BY <1>1, FS_EmptySet DEF Copies

\* The numbers in Fits and Ahead, and the slots they count.
LEMMA CopyTypes ==
  ASSUME TypeInv, NEW d \in Configs, NEW r
  PROVE  /\ Held(d, r) \in {0, 1} /\ handed[d] \in Nat /\ cuts \in Nat
         /\ Slots \ Hole(r) \in SUBSET Slots /\ Slots \ {r.i, r.i + 1} \in SUBSET Slots
         /\ Copies(value, d, Slots \ Hole(r)) \in Nat
         /\ Copies(value, d, Slots \ {r.i, r.i + 1}) \in Nat
  <1>1. /\ Held(d, r) \in {0, 1} /\ handed[d] \in Nat /\ cuts \in Nat
        /\ Slots \ Hole(r) \in SUBSET Slots /\ Slots \ {r.i, r.i + 1} \in SUBSET Slots
    BY DEF Held, TypeInv, TypeOK
  <1> QED BY <1>1, CopiesAreFinite

\* A step of a take under way moves copies and loses some, but makes none.
LEMMA TakesFit ==
  ASSUME TypeInv, NEW t \in Takers, NEW q, Takes(t, q), call[t].pc # "idle",
         NEW d \in Configs, Fits(d, call[t]), Ahead(d, call[t])
  PROVE  Fits(d, q)' /\ Ahead(d, q)' /\ (q.pc = "idle" => q.config = None)
  <1>1. PICK c : c = call[t]
    OBVIOUS
  <1>2. /\ c \in Call(TakerPC \cup PutterPC) /\ c.i \in Slots /\ c.pc # "idle" /\ Fits(d, c)
        /\ Ahead(d, c) /\ value \in [Slots -> Configs \cup {None}] /\ d # None
        /\ (c.pc \in Shifting => c.i + 1 \in Slots /\ c.i + 1 # c.i) /\ handed \in [Configs -> Nat]
    <2>1. /\ c \in Call(TakerPC \cup PutterPC) /\ c.i \in Slots /\ (c.pc \in Shifting => c.i < Last)
          /\ value \in [Slots -> Configs \cup {None}] /\ handed \in [Configs -> Nat]
      BY <1>1 DEF TypeInv, TypeOK, IndexOK, Call
    <2>2. c.pc \in Shifting => c.i + 1 \in Slots /\ c.i + 1 # c.i
      BY <2>1, SlotFacts
    <2> QED BY <1>1, <2>1, <2>2, TimeFacts
  <1>3. cuts' = cuts /\ (Goes(c, q) \/ Ends(c, q))
    BY <1>1, <1>2 DEF Takes, Begins
  <1>4. TypeInv'
    BY TakesTypes
  <1>5. /\ Held(d, c) \in {0, 1} /\ Held(d, q) \in {0, 1} /\ handed[d] \in Nat /\ cuts \in Nat
        /\ Slots \ Hole(c) \in SUBSET Slots /\ Slots \ {c.i, c.i + 1} \in SUBSET Slots
        /\ Slots \ Hole(q) \in SUBSET Slots /\ Slots \ {q.i, q.i + 1} \in SUBSET Slots
        /\ Copies(value, d, Slots \ Hole(c)) \in Nat
        /\ Copies(value, d, Slots \ {c.i, c.i + 1}) \in Nat
        /\ Copies(value', d, Slots \ Hole(q)) \in Nat
        /\ Copies(value', d, Slots \ {q.i, q.i + 1}) \in Nat
    BY <1>4, CopyTypes, CopiesAreFinite
  <1>6. Copies(value, d, Slots \ Hole(c)) + Held(d, c) + handed[d] <= 1 + cuts
    BY <1>2 DEF Fits
  <1>7. ASSUME \A j \in Slots \ Hole(q) : value'[j] = d => j \notin Hole(c) /\ value[j] = d,
               Held(d, q) <= Held(d, c), handed' = handed
        PROVE  Fits(d, q)'
    <2>1. Copies(value', d, Slots \ Hole(q)) <= Copies(value, d, Slots \ Hole(c))
      BY <1>5, <1>7, NoMoreCopies
    <2> QED BY <1>3, <1>5, <1>6, <1>7, <2>1 DEF Fits
  <1>8. ASSUME Further(c, q) PROVE q.pc \in {"scan", "idle"} /\ Hole(q) = {} /\ Held(d, q) <= Held(d, c)
                                   /\ (q.pc = "idle" => q.config = None)
    <2>1. CASE q = Idle
      BY <1>2, <1>5, <2>1 DEF Idle, Hole, Held
    <2>2. CASE q = [c EXCEPT !.pc = "scan", !.i = c.i + 1]
      <3>1. q.pc = "scan" /\ q.config = c.config
        BY <1>2, <2>2 DEF Call
      <3> QED BY <1>5, <3>1 DEF Hole, Held
    <2> QED BY <1>8, <2>1, <2>2 DEF Further
  <1>9. ASSUME On(c, q) PROVE q.pc \in {"next", "clearValue"} /\ Hole(q) = {c.i + 1} /\ Held(d, q) = Held(d, c)
    <2>1. q.pc \in {"next", "clearValue"} /\ q.i = c.i + 1 /\ q.config = c.config
      BY <1>2, <1>9 DEF On, Call
    <2> QED BY <2>1 DEF Hole, Held
  <1> DEFINE Looks == Further(c, q)
             Shifts == On(c, q)
  <1> HIDE DEF Looks, Shifts
  <1>10. CASE c.pc = "scan" /\ Goes(c, q)
    <2>1. UNCHANGED <<value, handed>> /\ Hole(c) = {}
      BY <1>10 DEF Goes, Scans, Reads, Writes, storage, Hole
    <2>2. CASE Looks
      BY <1>7, <1>8, <2>1, <2>2 DEF Looks, Ahead
    <2>3. CASE value[c.i] # None /\ q = [c EXCEPT !.pc = "scanStamp", !.config = value[c.i]]
      <3>1. q.pc = "scanStamp" /\ q.i = c.i /\ q.config = value[c.i] /\ Hole(q) = {c.i}
        BY <1>2, <2>3 DEF Call, Hole
      <3>2. CASE value[c.i] = d
        <4>1. Copies(value', d, Slots \ Hole(q)) + 1 <= Copies(value, d, Slots \ Hole(c))
          BY <1>2, <1>5, <2>1, <3>1, <3>2, OneLessCopy
        <4> QED BY <1>3, <1>5, <1>6, <2>1, <3>1, <4>1 DEF Fits, Ahead
      <3>3. CASE value[c.i] # d
        <4>1. Held(d, q) = 0
          BY <3>1, <3>3 DEF Held
        <4> QED BY <1>5, <1>7, <2>1, <3>1, <4>1 DEF Ahead
      <3> QED BY <3>2, <3>3
    <2> QED BY <1>10, <2>2, <2>3 DEF Goes, Scans, Reads, Writes, Looks
  <1>11. CASE c.pc = "scanStamp" /\ Goes(c, q)
    <2>1. UNCHANGED <<value, handed>> /\ Hole(c) = {c.i}
      BY <1>11 DEF Goes, Scans, Reads, Writes, storage, Hole
    <2>2. /\ q.pc \in {"dropValue", "next", "clearValue"} /\ q.i = c.i
          /\ q.config = c.config \/ q.config = None
      BY <1>2, <1>11 DEF Goes, Scans, Reads, Writes, Call
    <2>3. Hole(q) = {c.i} /\ Held(d, q) <= Held(d, c)
      BY <1>2, <1>5, <2>2 DEF Hole, Held
    <2> QED BY <1>7, <2>1, <2>2, <2>3 DEF Ahead
  <1>12. CASE c.pc = "next" /\ Goes(c, q)
    <2>1. UNCHANGED <<value, handed>> /\ Hole(c) = {c.i}
      BY <1>12 DEF Goes, Scans, Reads, Writes, storage, Hole
    <2>2. q.pc = "nextStamp" /\ q.i = c.i /\ q.config = c.config /\ q.next = value[c.i + 1]
      BY <1>2, <1>12 DEF Goes, Scans, Reads, Writes, Call
    <2>3. Hole(q) = {c.i} /\ Held(d, q) = Held(d, c)
      BY <2>2 DEF Hole, Held
    <2>4. Fits(d, q)'
      BY <1>5, <1>7, <2>1, <2>3
    <2>5. ASSUME q.next = d
          PROVE  Copies(value', d, Slots \ {q.i, q.i + 1}) + Held(d, q) + handed'[d] <= cuts'
      <3>1. Copies(value', d, Slots \ {q.i, q.i + 1}) + 1 <= Copies(value, d, Slots \ Hole(c))
        <4>1. c.i + 1 \in Slots \ Hole(c) /\ value[c.i + 1] = d
          BY <1>2, <1>12, <2>1, <2>2, <2>5 DEF Shifting
        <4>2. \A j \in Slots \ {q.i, q.i + 1} : value'[j] = d =>
                j # c.i + 1 /\ j \in Slots \ Hole(c) /\ value[j] = d
          BY <2>1, <2>2
        <4> QED BY <1>5, <4>1, <4>2, OneLessCopy
      <3> QED BY <1>3, <1>5, <1>6, <2>1, <2>3, <3>1
    <2> QED BY <2>2, <2>4, <2>5 DEF Ahead
  <1>13. CASE c.pc = "nextStamp" /\ Goes(c, q)
    <2>1. UNCHANGED <<value, handed>> /\ Hole(c) = {c.i}
      BY <1>13 DEF Goes, Scans, Reads, Writes, storage, Hole
    <2>2. q.pc \in {"moveValue", "emptyValue"} /\ q.i = c.i /\ q.config = c.config /\ q.next = c.next
      <3>1. q = [c EXCEPT !.at = stamp[c.i + 1],
                          !.pc = IF c.next # None /\ stamp[c.i + 1] # None
                                 THEN "moveValue" ELSE "emptyValue"]
        BY <1>13 DEF Goes, Scans, Reads, Writes
      <3> QED BY <1>2, <3>1 DEF Call
    <2>3. Hole(q) = {c.i} /\ Held(d, q) = Held(d, c)
      BY <2>2 DEF Hole, Held
    <2>4. Fits(d, q)'
      BY <1>5, <1>7, <2>1, <2>3
    <2> QED BY <1>2, <1>3, <1>13, <2>1, <2>2, <2>3, <2>4 DEF Ahead
  <1>14. CASE c.pc = "moveValue" /\ Goes(c, q)
    <2>1. /\ value' = [value EXCEPT ![c.i] = c.next] /\ handed' = handed
          /\ q = [c EXCEPT !.pc = "moveStamp"]
      BY <1>14 DEF Goes, Scans, Reads, Writes, SetValue
    <2>2. /\ q.pc = "moveStamp" /\ q.i = c.i /\ q.config = c.config
          /\ value'[c.i] = c.next /\ \A j \in Slots : j # c.i => value'[j] = value[j]
      BY <1>2, <2>1 DEF Call
    <2>3. Hole(q) = {c.i + 1} /\ Hole(c) = {c.i} /\ Held(d, q) = Held(d, c)
      BY <1>14, <2>2 DEF Hole, Held
    <2>4. CASE c.next = d
      <3>1. Copies(value', d, Slots \ Hole(q)) <= Copies(value, d, Slots \ {c.i, c.i + 1}) + 1
        <4>1. \A j \in Slots \ Hole(q) : value'[j] = d =>
                j = c.i \/ (j \in Slots \ {c.i, c.i + 1} /\ value[j] = d)
          BY <2>2, <2>3
        <4> QED BY <1>5, <4>1, OneMoreCopy
      <3>2. Copies(value, d, Slots \ {c.i, c.i + 1}) + Held(d, c) + handed[d] <= cuts
        BY <1>2, <1>14, <2>4 DEF Ahead
      <3> QED BY <1>3, <1>5, <2>1, <2>2, <2>3, <3>1, <3>2 DEF Fits, Ahead
    <2>5. CASE c.next # d
      <3>1. \A j \in Slots \ Hole(q) : value'[j] = d => j \notin Hole(c) /\ value[j] = d
        BY <2>2, <2>3, <2>5
      <3>2. Fits(d, q)'
        BY <1>5, <1>7, <2>1, <2>3, <3>1
      <3> QED BY <2>2, <3>2 DEF Ahead
    <2> QED BY <2>4, <2>5
  <1>15. CASE c.pc \in {"dropStamp", "moveStamp", "emptyStamp"} /\ Goes(c, q)
    <2>1. UNCHANGED <<value, handed>>
      BY <1>15 DEF Goes, Scans, Reads, Writes, SetStamp
    <2>2. CASE c.pc = "dropStamp"
      <3>1. Looks /\ Hole(c) = {}
        BY <1>15, <2>2 DEF Goes, Scans, Reads, Writes, Hole, Looks
      <3> QED BY <1>7, <1>8, <2>1, <3>1 DEF Looks, Ahead
    <2>3. CASE c.pc \in {"moveStamp", "emptyStamp"}
      <3>1. Shifts /\ Hole(c) = {c.i + 1}
        BY <1>15, <2>3 DEF Goes, Scans, Reads, Writes, Hole, Shifts
      <3>2. q.pc \in {"next", "clearValue"} /\ Hole(q) = {c.i + 1} /\ Held(d, q) = Held(d, c)
        BY <1>9, <3>1 DEF Shifts
      <3> QED BY <1>5, <1>7, <2>1, <3>1, <3>2 DEF Ahead
    <2> QED BY <1>15, <2>2, <2>3
  <1>16. CASE c.pc \in {"dropValue", "emptyValue", "clearValue"} /\ Goes(c, q)
    <2>1. /\ value' = [value EXCEPT ![c.i] = None] /\ handed' = handed
          /\ q.pc \in {"dropStamp", "emptyStamp", "clearStamp"} /\ q.config = c.config
      BY <1>2, <1>16 DEF Goes, Scans, Reads, Writes, SetValue, Call
    <2>2. Hole(c) = {c.i} /\ Held(d, q) = Held(d, c)
      BY <1>16, <2>1 DEF Hole, Held
    <2>3. \A j \in Slots \ Hole(q) : value'[j] = d => j \notin Hole(c) /\ value[j] = d
      BY <1>2, <2>1, <2>2
    <2> QED BY <1>5, <1>7, <2>1, <2>2, <2>3 DEF Ahead
  <1>17. CASE Ends(c, q)
    <2>1. /\ value' = value /\ q = Idle /\ Hole(c) = {} /\ Hole(q) = {}
          /\ q.pc = "idle" /\ q.config = None
      BY <1>17 DEF Ends, SetStamp, Hole, Idle
    <2>2. Copies(value', d, Slots \ Hole(q)) <= Copies(value, d, Slots \ Hole(c))
      BY <1>5, <2>1, NoMoreCopies
    <2>3. Held(d, q) = 0 /\ handed'[d] <= Held(d, c) + handed[d]
      <3>1. CASE c.config = d
        BY <1>2, <1>17, <2>1, <3>1 DEF Ends, Held
      <3>2. CASE c.config # d
        BY <1>2, <1>17, <2>1, <3>2 DEF Ends, Held, Call
      <3> QED BY <3>1, <3>2
    <2>4. handed'[d] \in Nat
      BY <1>4 DEF TypeInv, TypeOK
    <2> QED BY <1>3, <1>5, <1>6, <2>1, <2>2, <2>3, <2>4 DEF Fits, Ahead
  <1>18. Goes(c, q) => c.pc \in {"scan", "scanStamp", "next", "nextStamp", "moveValue", "dropStamp",
                                 "moveStamp", "emptyStamp", "dropValue", "emptyValue", "clearValue"}
    BY DEF Goes, Scans, Reads, Writes
  <1> QED BY <1>3, <1>10, <1>11, <1>12, <1>13, <1>14, <1>15, <1>16, <1>17, <1>18

\* Local states of a take that counts nothing.
LEMMA NothingCounts ==
  ASSUME NEW d \in Configs
  PROVE  Hole(Idle) = {} /\ Held(d, Idle) = 0 /\ Ahead(d, Idle)
  BY TimeFacts DEF Hole, Held, Ahead, Idle

LEMMA TakesCopies ==
  ASSUME TypeInv, CopiesInv, OneTake, OneTake', NEW t \in Takers, NEW q, Takes(t, q)
  PROVE  CopiesInv'
  <1>1. call'[t] = q /\ \A u \in Takers \ {t} : call'[u] = call[u]
    BY TakesTypes
  <1>2. \A u \in Takers \ {t} : call[u].pc = "idle"
    <2>1. CASE call[t].pc = "idle"
      <3>1. q.pc # "idle"
        <4>1. q = [call[t] EXCEPT !.pc = "scan", !.i = 0] /\ call[t] \in Call(TakerPC \cup PutterPC)
          BY <2>1 DEF Takes, Begins, Goes, Scans, Reads, Writes, Ends, TypeInv, TypeOK
        <4> QED BY <4>1 DEF Call
      <3> QED BY <1>1, <3>1 DEF OneTake
    <2>2. CASE call[t].pc # "idle"
      BY <2>2 DEF OneTake
    <2> QED BY <2>1, <2>2
  <1>3. CASE call[t].pc = "idle"
    <2>1. Begins(call[t], q)
      BY <1>3 DEF Takes, Begins, Goes, Scans, Reads, Writes, Ends
    <2>2. q.pc = "scan" /\ q.config = None
      <3>1. call[t] \in Call(TakerPC \cup PutterPC) /\ call[t].config = None
        BY <1>3 DEF TypeInv, TypeOK, CopiesInv
      <3> QED BY <2>1, <3>1 DEF Begins, Call
    <2>3. UNCHANGED <<value, handed, cuts>>
      <3>1. Running(Takers) = {}
        BY <1>2, <1>3 DEF Running
      <3> QED BY <2>1, <3>1 DEF Begins, storage
    <2>4. \A d \in Configs : Fits(d, Idle)
      BY <1>2, <1>3 DEF CopiesInv
    <2>5. ASSUME NEW d \in Configs PROVE Fits(d, q)' /\ Ahead(d, q)'
      <3>1. Hole(q) = {} /\ Held(d, q) = 0
        BY <2>2, TimeFacts DEF Hole, Held
      <3> QED BY <2>2, <2>3, <2>4, <3>1, NothingCounts DEF Fits, Ahead
    <2>6. HandedAtMost'
      BY <2>3 DEF CopiesInv, HandedAtMost
    <2> QED BY <1>1, <1>2, <2>2, <2>5, <2>6 DEF CopiesInv
  <1>4. CASE call[t].pc # "idle"
    <2>1. ASSUME NEW d \in Configs
          PROVE  Fits(d, q)' /\ Ahead(d, q)' /\ (q.pc = "idle" => q.config = None)
      BY <1>4, <2>1, TakesFit DEF CopiesInv
    <2>2. q.pc = "idle" => q = Idle
      <3>1. CASE Goes(call[t], q)
        <4>1. call[t] \in Call(TakerPC \cup PutterPC)
          BY DEF TypeInv, TypeOK
        <4> QED BY <3>1, <4>1 DEF Goes, Scans, Reads, Writes, Further, On, Call
      <3> QED BY <1>4, <3>1 DEF Takes, Begins, Ends
    <2>3. HandedAtMost'
      <3>1. ASSUME NEW d \in Configs PROVE handed'[d] <= 1 + cuts'
        <4>1. TypeInv'
          BY TakesTypes
        <4>2. /\ Held(d, q) \in {0, 1} /\ handed'[d] \in Nat /\ cuts' \in Nat
              /\ Copies(value', d, Slots \ Hole(q)) \in Nat
          <5>1. Held(d, q) \in {0, 1} /\ handed'[d] \in Nat /\ cuts' \in Nat
            BY <4>1 DEF Held, TypeInv, TypeOK
          <5>2. Slots \ Hole(q) \in SUBSET Slots
            OBVIOUS
          <5> QED BY <5>1, <5>2, CopiesAreFinite
        <4> QED BY <2>1, <4>2 DEF Fits
      <3> QED BY <3>1 DEF HandedAtMost
    <2>4. q.pc = "idle" => \A d \in Configs : Fits(d, Idle)'
      BY <2>1, <2>2
    <2>5. q.pc = "idle" => q.config = None
      BY <2>2 DEF Idle
    <2> QED BY <1>1, <1>2, <2>1, <2>3, <2>4, <2>5 DEF CopiesInv
  <1> QED BY <1>3, <1>4

\* A refill brings a first copy.
LEMMA PutsFit ==
  ASSUME TypeInv, Known, NEW p \in Putters, NEW q, Puts(p, q), NEW d \in Configs, NEW r,
         Fits(d, r), Ahead(d, r),
         r.config # None => putAt[r.config] # None, r.next # None => putAt[r.next] # None
  PROVE  Fits(d, r)' /\ Ahead(d, r)'
  <1>1. UNCHANGED <<handed, cuts>>
    BY DEF Puts
  <1>2. CASE value' = value
    BY <1>1, <1>2 DEF Fits, Ahead
  <1>3. CASE value' # value
    <2>1. /\ call[p].pc = "putValue" /\ value' = [value EXCEPT ![call[p].i] = call[p].config]
      BY <1>3 DEF Puts, SetValue, SetStamp, storage
    <2>2. putAt[call[p].config] = None /\ call[p].config \in Configs
      BY <2>1 DEF Known
    <2>3. /\ \A j \in Slots : value'[j] = value[j] \/ (j = call[p].i /\ value'[j] = call[p].config)
          /\ value \in [Slots -> Configs \cup {None}]
      BY <2>1 DEF TypeInv, TypeOK
    <2>4. /\ Held(d, r) \in {0, 1} /\ handed[d] \in Nat /\ cuts \in Nat
          /\ Slots \ Hole(r) \in SUBSET Slots /\ Slots \ {r.i, r.i + 1} \in SUBSET Slots
          /\ Copies(value, d, Slots \ Hole(r)) \in Nat
          /\ Copies(value, d, Slots \ {r.i, r.i + 1}) \in Nat
          /\ Copies(value', d, Slots \ Hole(r)) \in Nat
          /\ Copies(value', d, Slots \ {r.i, r.i + 1}) \in Nat
      BY CopyTypes, CopiesAreFinite
    <2>5. CASE d = call[p].config
      <3>1. Held(d, r) = 0 /\ r.next # d
        BY <2>2, <2>5, TimeFacts DEF Held
      <3>2. handed[d] = 0
        BY <2>2, <2>5 DEF Known
      <3>3. Copies(value, d, Slots \ Hole(r)) = 0
        <4>1. \A j \in Slots \ Hole(r) : value[j] # d
          BY <2>2, <2>5, TimeFacts DEF Known
        <4> QED BY <2>4, <4>1, NoCopies
      <3>4. Copies(value', d, Slots \ Hole(r)) <= Copies(value, d, Slots \ Hole(r)) + 1
        <4>1. \A j \in Slots \ Hole(r) : value'[j] = d =>
                j = call[p].i \/ (j \in Slots \ Hole(r) /\ value[j] = d)
          BY <2>3
        <4> QED BY <2>4, <4>1, OneMoreCopy
      <3> QED BY <1>1, <2>4, <3>1, <3>2, <3>3, <3>4 DEF Fits, Ahead
    <2>6. CASE d # call[p].config
      <3>1. \A j \in Slots : value'[j] = d => value[j] = d
        BY <2>3, <2>6
      <3>2. Copies(value', d, Slots \ Hole(r)) <= Copies(value, d, Slots \ Hole(r))
        BY <2>4, <3>1, NoMoreCopies
      <3>3. Copies(value', d, Slots \ {r.i, r.i + 1}) <= Copies(value, d, Slots \ {r.i, r.i + 1})
        BY <2>4, <3>1, NoMoreCopies
      <3> QED BY <1>1, <2>4, <3>2, <3>3 DEF Fits, Ahead
    <2> QED BY <2>5, <2>6
  <1> QED BY <1>2, <1>3

LEMMA PutsCopies ==
  ASSUME TypeInv, Known, CopiesInv, NEW p \in Putters, NEW q, Puts(p, q) PROVE CopiesInv'
  <1>1. \A t \in Takers : call'[t] = call[t]
    BY PutsTypes, CallsAssumption
  <1>2. HandedAtMost'
    BY DEF Puts, CopiesInv, HandedAtMost
  <1>3. ASSUME NEW d \in Configs, Fits(d, Idle) PROVE Fits(d, Idle)'
    <2>1. Idle.config = None /\ Idle.next = None
      BY DEF Idle
    <2> QED BY <1>3, <2>1, PutsFit, NothingCounts
  <1>4. ASSUME NEW t \in Takers, call[t].pc # "idle", NEW d \in Configs
        PROVE  (Fits(d, call[t]) /\ Ahead(d, call[t]))'
    <2>1. PICK c : c = call[t]
      OBVIOUS
    <2>2. Fits(d, c)' /\ Ahead(d, c)'
      BY <1>4, <2>1, PutsFit DEF CopiesInv, Known
    <2> QED BY <1>1, <2>1, <2>2
  <1> QED BY <1>1, <1>2, <1>3, <1>4 DEF CopiesInv

\* What the end of the app leaves twice is counted in cuts.
LEMMA KilledCopies == ASSUME TypeInv, CopiesInv, OneTake, Killed PROVE CopiesInv'
  <1>1. /\ cuts' \in Nat /\ cuts' >= cuts /\ cuts \in Nat
        /\ (\E t \in Takers : call[t].pc # "idle") => cuts' >= cuts + 1
        /\ \A t \in Takers : call'[t] = Idle
    <2>1. cuts \in Nat
      BY DEF TypeInv, TypeOK
    <2> QED BY <2>1, KilledEffect
  <1>2. UNCHANGED <<value, handed>> /\ handed \in [Configs -> Nat]
    BY DEF Killed, storage, TypeInv, TypeOK
  <1>3. HandedAtMost'
    BY <1>1, <1>2 DEF CopiesInv, HandedAtMost
  <1>4. ASSUME NEW d \in Configs PROVE Fits(d, Idle)'
    <2>1. /\ Hole(Idle) = {} /\ Held(d, Idle) = 0 /\ handed[d] \in Nat
          /\ Slots \ Hole(Idle) \in SUBSET Slots
          /\ Copies(value, d, Slots \ Hole(Idle)) \in Nat
      BY <1>2, NothingCounts, CopiesAreFinite
    <2>2. CASE \A t \in Takers : call[t].pc = "idle"
      BY <1>1, <1>2, <2>1, <2>2 DEF CopiesInv, Fits
    <2>3. ASSUME NEW t \in Takers, call[t].pc # "idle" PROVE Fits(d, Idle)'
      <3>1. PICK c : c = call[t]
        OBVIOUS
      <3>2. Fits(d, c) /\ cuts' >= cuts + 1
        BY <1>1, <2>3, <3>1 DEF CopiesInv
      <3>3. /\ Slots \ Hole(c) \in SUBSET Slots /\ Held(d, c) \in {0, 1}
            /\ Copies(value, d, Slots \ Hole(c)) \in Nat
        BY CopyTypes
      <3>4. PICK k : Hole(c) \subseteq {k}
        BY DEF Hole
      <3>5. Copies(value, d, Slots \ Hole(Idle)) <= Copies(value, d, Slots \ Hole(c)) + 1
        <4>1. \A j \in Slots \ Hole(Idle) : value[j] = d =>
                j = k \/ (j \in Slots \ Hole(c) /\ value[j] = d)
          BY <3>4
        <4> QED BY <2>1, <3>3, <4>1, OneMoreCopy
      <3> QED BY <1>1, <1>2, <2>1, <3>2, <3>3, <3>5 DEF Fits
    <2> QED BY <2>2, <2>3
  <1> QED BY <1>1, <1>3, <1>4 DEF CopiesInv, Idle

LEMMA CopiesInductive ==
  TypeInv /\ Known /\ CopiesInv /\ OneTake /\ OneTake' /\ [Next]_vars => CopiesInv'
  <1> SUFFICES ASSUME TypeInv, Known, CopiesInv, OneTake, OneTake', [Next]_vars PROVE CopiesInv'
    OBVIOUS
  <1>1. CASE Tick
    BY <1>1 DEF Tick, storage, CopiesInv, HandedAtMost, Fits, Ahead
  <1>2. CASE UNCHANGED vars
    BY <1>2 DEF vars, storage, ghosts, CopiesInv, HandedAtMost, Fits, Ahead
  <1> QED BY <1>1, <1>2, TakerTakes, TakesCopies, PutterPuts, PutsCopies, KilledCopies DEF Next

LEMMA InitCopies == Init => CopiesInv
  <1> SUFFICES ASSUME Init PROVE CopiesInv
    OBVIOUS
  <1>1. \A t \in Takers : call[t] = Idle
    BY DEF Init
  <1>2. Idle.pc = "idle" /\ Idle.config = None
    BY DEF Idle
  <1>3. cuts = 0 /\ \A d \in Configs : handed[d] = 0
    BY DEF Init
  <1>4. ASSUME NEW d \in Configs PROVE Fits(d, Idle)
    <2>1. \A j \in Slots \ Hole(Idle) : value[j] # d
      BY TimeFacts DEF Init
    <2>2. Slots \ Hole(Idle) \in SUBSET Slots
      OBVIOUS
    <2>3. Copies(value, d, Slots \ Hole(Idle)) = 0
      BY <2>1, <2>2, NoCopies
    <2> QED BY <1>3, <2>3, NothingCounts DEF Fits
  <1> QED BY <1>1, <1>2, <1>3, <1>4 DEF CopiesInv, HandedAtMost

\* As long as no two takes run at once, a configuration is handed out once, and once
\* more at most for every take that the end of the app cut short, whatever refills
\* store between two steps of its shift (ConfigQueue.dequeue and enqueue).
THEOREM HandedOnce == Spec /\ []OneTake => []HandedAtMost
  <1>1. CopiesInv => HandedAtMost
    BY DEF CopiesInv
  <1> QED BY <1>1, InitTypes, NextTypes, InitKnown, KnownInductive, InitCopies, CopiesInductive,
             PTL DEF Spec
=============================================================================
