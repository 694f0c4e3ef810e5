--------------------------- MODULE SupportProofs ---------------------------
(***************************************************************************)
(* What holds of Support for any number of users, requests, sessions and   *)
(* messages.  Inv carries what is said of sessions; HistoryInv, on top of  *)
(* it, what is said of questions and their answers.                        *)
(***************************************************************************)
EXTENDS Support, FiniteSetTheorems, TLAPS

-----------------------------------------------------------------------------
(* The inductive invariant.                                                *)

\* Any sessions have a newest one: the lookup with order_by and limit(1) finds
\* one whenever there is one to find.
NewestExists ==
  \A T \in SUBSET (DOMAIN sessions) :
    T # {} => \E s \in T : \A t \in T : sessions[t].stamp <= sessions[s].stamp

\* A request that writes into a session has one, and it was not resolved when
\* the request began.
Targets ==
  \A r \in Requests :
    LET req == requests[r]
    IN /\ req.target <= Len(sessions) /\ req.seen <= Len(sessions)
       /\ req.at # "idle" /\ req.kind \in {"user", "agent", "resolve", "rate"} => req.target # None
       /\ req.kind \in {"ask", "user", "agent"} => req.found = "open"
       /\ req.kind = "ask" => req.text \in Questions

\* Rows that are inserted have taken their time stamps.
Stamped ==
  \A r \in Requests :
    requests[r].at = "commit" /\ requests[r].kind \notin {"resolve", "rate"} =>
      requests[r].stamp + StampsTaken(requests[r]) <= clock

\* A request that is about to make a session found none open.
FoundNone ==
  \A r \in Requests :
    LET req == requests[r]
    IN req.at # "idle" /\ req.kind \in {"ask", "active"} /\ req.target = None =>
         \A s \in Of(req.user) : s <= req.seen => ~Open(s)

Inv ==
  /\ TypeOK
  /\ NewestExists
  /\ Targets
  /\ Stamped
  /\ FoundNone
  /\ NoneIsLate
  /\ DoublesOverlap

-----------------------------------------------------------------------------
(* Data.                                                                   *)

\* The assistant always has an answer.
LEMMA AnswerType ==
  ASSUME NEW q \in Questions
  PROVE  GetAnswer(q) \in Sources
  <1> DEFINE off == CheckTopic(q) = "off_topic"
             faq == SearchFaq(q) /\ (CheckTopic(q) = "vpn" \/ Features[q].words >= 2)
  <1>1. CASE IsGreeting(q)
    BY <1>1 DEF GetAnswer, Sources
  <1>2. CASE ~IsGreeting(q) /\ off
    BY <1>2 DEF GetAnswer, Sources
  <1>3. CASE ~IsGreeting(q) /\ ~off /\ faq
    BY <1>3 DEF GetAnswer, Sources
  <1>4. CASE ~IsGreeting(q) /\ ~off /\ ~faq
    BY <1>4 DEF GetAnswer, Sources
  <1> QED BY <1>1, <1>2, <1>3, <1>4

\* The lookup finds an open session of the user's if there is one, and else none.
LEMMA NewestFinds ==
  ASSUME TypeOK, NewestExists, NEW u \in Users
  PROVE  \/ /\ Newest(u) \in Of(u) /\ Open(Newest(u))
         \/ /\ Newest(u) = None
            /\ \A s \in Of(u) : ~Open(s)
  <1>1. CASE \E s \in Of(u) : Open(s)
    <2> DEFINE T == {s \in Of(u) : Open(s)}
    <2>1. T \in SUBSET (DOMAIN sessions) /\ T # {}
      BY <1>1 DEF Of
    <2>2. \E s \in T : \A t \in T : sessions[t].stamp <= sessions[s].stamp
      BY <2>1 DEF NewestExists
    <2>3. \E s \in Of(u) : Open(s) /\ \A t \in Of(u) : Open(t) => sessions[t].stamp <= sessions[s].stamp
      BY <2>2
    <2>4. Newest(u) = CHOOSE s \in Of(u) :
                        Open(s) /\ \A t \in Of(u) : Open(t) => sessions[t].stamp <= sessions[s].stamp
      BY <1>1 DEF Newest
    <2> QED BY <2>3, <2>4
  <1>2. CASE ~\E s \in Of(u) : Open(s)
    BY <1>2 DEF Newest
  <1> QED BY <1>1, <1>2

\* A request that does nothing.
LEMMA IdleType ==
  /\ Idle \in Request /\ Idle.at = "idle" /\ Idle.kind = "create"
  /\ Idle.target = None /\ Idle.found = "open" /\ Idle.seen = 0
  BY UsersAssumption, BoundsAssumption DEF Idle, Request, Kinds, None, Stamps

-----------------------------------------------------------------------------
(* Steps that start a request.                                             *)

\* What is asked of a request when it starts.
Startable(req) ==
  /\ req \in Request
  /\ req.at # "idle"
  /\ req.at = "commit" => req.kind \in {"resolve", "rate"}
  /\ req.target <= Len(sessions)
  /\ req.kind \in {"user", "agent", "resolve", "rate"} => req.target # None
  /\ req.kind \in {"ask", "user", "agent"} => req.target \notin Resolved
  /\ req.kind = "ask" => req.text \in Questions
  /\ req.kind \in {"ask", "active"} /\ req.target = None =>
       \A s \in Of(req.user) : ~Open(s)

\* A request that starts keeps the invariant.
LEMMA StartKeeps ==
  ASSUME Inv, NEW r \in Requests, NEW req, Startable(req), Start(r, req)
  PROVE  Inv'
  <1> USE DEF Inv
  <1> DEFINE new == [req EXCEPT !.found = IF req.target \in Resolved THEN "resolved" ELSE "open", !.seen = Len(sessions)]
  <1>1. /\ requests' = [requests EXCEPT ![r] = new]
        /\ UNCHANGED <<sessions, messages, clock>>
    BY DEF Start
  <1>2. Len(sessions) \in 0..MaxSessions
    BY DEF TypeOK
  <1>3. /\ new.at = req.at /\ new.kind = req.kind /\ new.user = req.user
        /\ new.target = req.target /\ new.stamp = req.stamp
        /\ new.text = req.text
        /\ new.found = (IF req.target \in Resolved THEN "resolved" ELSE "open") /\ new.seen = Len(sessions)
        /\ new \in Request
    BY <1>2 DEF Startable, Request
  <1> HIDE DEF new
  <1>4. \A q \in Requests : requests'[q] = IF q = r THEN new ELSE requests[q]
    <2>1. requests \in [Requests -> Request]
      BY DEF TypeOK
    <2> QED BY <1>1, <2>1
  <1>5. TypeOK'
    BY <1>1, <1>3 DEF TypeOK
  <1>6. Targets'
    <2>1. /\ new.target <= Len(sessions) /\ new.seen <= Len(sessions)
          /\ new.at # "idle" /\ new.kind \in {"user", "agent", "resolve", "rate"} => new.target # None
          /\ new.kind \in {"ask", "user", "agent"} => new.found = "open"
          /\ new.kind = "ask" => new.text \in Questions
      BY <1>2, <1>3 DEF Startable
    <2> QED BY <1>1, <1>4, <2>1 DEF Targets
  <1>7. Stamped'
    BY <1>1, <1>3, <1>4 DEF Stamped, Startable, StampsTaken
  <1>8. FoundNone'
    BY <1>1, <1>3, <1>4 DEF FoundNone, Startable, Of, Open
  <1>9. NewestExists' /\ NoneIsLate'
    BY <1>1 DEF NewestExists, NoneIsLate
  <1>10. DoublesOverlap'
    <2>1. \A s \in DOMAIN sessions : Open(s)' = Open(s) /\ Unasked(s)' = Unasked(s)
      BY <1>1 DEF Open, Unasked
    <2> QED BY <1>1, <2>1 DEF DoublesOverlap
  <1> QED BY <1>5, <1>6, <1>7, <1>8, <1>9, <1>10

\* Every request starts with what it needs.
LEMMA ReadKeeps ==
  ASSUME Inv, NEW r \in Requests, NEW u \in Users,
         \/ \E q \in Questions : AskRead(r, u, q)
         \/ ActiveRead(r, u)
         \/ CreateBegin(r, u)
         \/ \E s \in DOMAIN sessions : SaveRead(r, u, s) \/ ResolveRead(r, u, s)
         \/ \E s \in DOMAIN sessions, v \in 1..MaxRating : RateRead(r, u, s, v)
         \/ \E s \in DOMAIN sessions : AgentRead(r, s)
  PROVE  Inv'
  <1> USE DEF Inv
  <1>1. sessions \in Seq(SessionRow) /\ Len(sessions) \in 0..MaxSessions
    BY DEF TypeOK
  <1>2. \A s \in DOMAIN sessions : s \in 0..MaxSessions /\ s <= Len(sessions) /\ s # None
                                  /\ sessions[s].user \in Users
    <2>1. DOMAIN sessions = 1..Len(sessions) /\ \A s \in DOMAIN sessions : sessions[s] \in SessionRow
      BY <1>1
    <2>2. \A s \in DOMAIN sessions : sessions[s].user \in Users
      BY <2>1 DEF SessionRow
    <2> QED BY <1>1, <2>1, <2>2, BoundsAssumption DEF None
  <1>3. /\ Idle \in Request /\ Idle.at = "idle" /\ Idle.kind = "create" /\ Idle.target = None
        /\ None \in 0..MaxSessions /\ None <= Len(sessions) /\ None \notin Resolved
    BY <1>1, <1>2, IdleType, BoundsAssumption DEF None, Resolved
  <1>4. ASSUME NEW q \in Questions, AskRead(r, u, q) PROVE Inv'
    <2> DEFINE req == [Idle EXCEPT !.at = "send", !.kind = "ask", !.user = u, !.text = q,
                                   !.target = Newest(u)]
    <2>1. Newest(u) \in 0..MaxSessions /\ Newest(u) <= Len(sessions) /\ Newest(u) \notin Resolved
      BY <1>1, <1>2, <1>3, NewestFinds DEF Resolved, Open, Of
    <2>2. req.at = "send" /\ req.kind = "ask" /\ req.user = u /\ req.target = Newest(u)
          /\ req.text = q /\ req \in Request
      BY <1>3, <2>1 DEF Request, Kinds
    <2>3. Startable(req)
      BY <2>1, <2>2, NewestFinds, <1>2 DEF Startable, Of
    <2> QED BY <1>4, <2>3, StartKeeps DEF AskRead
  <1>5. ASSUME ActiveRead(r, u) PROVE Inv'
    <2> DEFINE req == [Idle EXCEPT !.at = "send", !.kind = "active", !.user = u]
    <2>1. req.at = "send" /\ req.kind = "active" /\ req.user = u /\ req.target = None
          /\ req \in Request
      BY <1>3 DEF Request, Kinds
    <2>2. \A s \in Of(u) : ~Open(s)
      BY <1>2, <1>5, NewestFinds DEF ActiveRead, Of
    <2>3. Startable(req)
      BY <1>3, <2>1, <2>2 DEF Startable
    <2> QED BY <1>5, <2>3, StartKeeps DEF ActiveRead
  <1>6. ASSUME CreateBegin(r, u) PROVE Inv'
    <2> DEFINE req == [Idle EXCEPT !.at = "send", !.user = u]
    <2>1. req.at = "send" /\ req.kind = "create" /\ req.target = None /\ req \in Request
      BY <1>3 DEF Request
    <2>2. Startable(req)
      BY <1>3, <2>1 DEF Startable
    <2> QED BY <1>6, <2>2, StartKeeps DEF CreateBegin
  <1>7. ASSUME NEW s \in DOMAIN sessions, SaveRead(r, u, s) PROVE Inv'
    <2> DEFINE req == [Idle EXCEPT !.at = "send", !.kind = "user", !.user = u, !.target = s]
    <2>1. req.at = "send" /\ req.kind = "user" /\ req.target = s /\ req \in Request
      BY <1>2, <1>3 DEF Request, Kinds
    <2>2. Startable(req)
      BY <1>2, <1>7, <2>1 DEF Startable, SaveRead, Resolved
    <2> QED BY <1>7, <2>2, StartKeeps DEF SaveRead
  <1>8. ASSUME NEW s \in DOMAIN sessions, ResolveRead(r, u, s) PROVE Inv'
    <2> DEFINE req == [Idle EXCEPT !.at = "commit", !.kind = "resolve", !.user = u, !.target = s]
    <2>1. req.at = "commit" /\ req.kind = "resolve" /\ req.target = s /\ req \in Request
      BY <1>2, <1>3 DEF Request, Kinds
    <2>2. Startable(req)
      BY <1>2, <2>1 DEF Startable
    <2> QED BY <1>8, <2>2, StartKeeps DEF ResolveRead
  <1>9. ASSUME NEW s \in DOMAIN sessions, NEW v \in 1..MaxRating, RateRead(r, u, s, v) PROVE Inv'
    <2> DEFINE req == [Idle EXCEPT !.at = "commit", !.kind = "rate", !.user = u, !.target = s,
                                   !.rating = v]
    <2>1. v \in 0..MaxRating
      BY BoundsAssumption
    <2>2. req.at = "commit" /\ req.kind = "rate" /\ req.target = s /\ req \in Request
      BY <1>2, <1>3, <2>1 DEF Request, Kinds
    <2>3. Startable(req)
      BY <1>2, <2>2 DEF Startable
    <2> QED BY <1>9, <2>3, StartKeeps DEF RateRead
  <1>10. ASSUME NEW s \in DOMAIN sessions, AgentRead(r, s) PROVE Inv'
    <2> DEFINE req == [Idle EXCEPT !.at = "send", !.kind = "agent", !.user = sessions[s].user,
                                   !.target = s]
    <2>1. req.at = "send" /\ req.kind = "agent" /\ req.target = s /\ req \in Request
      BY <1>2, <1>3 DEF Request, Kinds
    <2>2. Startable(req)
      BY <1>2, <1>10, <2>1 DEF Startable, AgentRead, Resolved
    <2> QED BY <1>10, <2>2, StartKeeps DEF AgentRead
  <1> QED BY <1>4, <1>5, <1>6, <1>7, <1>8, <1>9, <1>10

-----------------------------------------------------------------------------
(* Steps that write.                                                       *)

\* Rows are inserted under the next time stamps.
LEMMA InsertKeeps ==
  ASSUME Inv, NEW r \in Requests, Insert(r)
  PROVE  Inv'
  <1> USE DEF Inv
  <1> DEFINE req == requests[r]
             new == [req EXCEPT !.at = "commit", !.stamp = clock]
  <1>1. /\ req \in Request /\ req.at = "send" /\ clock \in Stamps /\ clock' = clock + StampsTaken(req)
        /\ clock' <= MaxStamp
        /\ requests' = [requests EXCEPT ![r] = new]
        /\ UNCHANGED <<sessions, messages>>
    BY DEF TypeOK, Insert
  <1>2. /\ new \in Request /\ new.at = "commit" /\ new.stamp = clock /\ new.kind = req.kind
        /\ new.user = req.user /\ new.target = req.target /\ new.found = req.found
        /\ new.seen = req.seen /\ new.text = req.text
    BY <1>1 DEF Request
  <1>3. StampsTaken(new) = StampsTaken(req) /\ StampsTaken(req) \in {1, 2}
    BY <1>2 DEF StampsTaken
  <1>4. clock' \in Stamps /\ clock' >= clock
    BY <1>1, <1>3, BoundsAssumption DEF Stamps
  <1>5. \A q \in Requests : requests'[q] = IF q = r THEN new ELSE requests[q]
    <2>1. requests \in [Requests -> Request]
      BY DEF TypeOK
    <2> QED BY <1>1, <2>1
  <1> HIDE DEF new
  <1>6. TypeOK'
    <2>1. \A m \in messages : m.stamp \in Nat /\ m.stamp < clock
      BY DEF TypeOK, MessageRow, Stamps
    <2>2. \A m \in messages : m.stamp < clock'
      BY <1>1, <1>4, <2>1 DEF Stamps
    <2> QED BY <1>1, <1>2, <1>4, <2>2 DEF TypeOK
  <1>7. Targets'
    BY <1>1, <1>2, <1>5 DEF Targets
  <1>8. Stamped'
    <2>1. ASSUME NEW q \in Requests, q # r,
                 requests[q].at = "commit", requests[q].kind \notin {"resolve", "rate"}
          PROVE  requests[q].stamp + StampsTaken(requests[q]) <= clock'
      <3>1. requests[q].stamp \in Nat /\ StampsTaken(requests[q]) \in {1, 2}
        BY DEF TypeOK, Request, Stamps, StampsTaken
      <3> QED BY <1>1, <1>4, <2>1, <3>1 DEF Stamped, Stamps
    <2>2. new.stamp + StampsTaken(new) <= clock'
      BY <1>1, <1>2, <1>3, <1>4 DEF Stamps
    <2> QED BY <1>5, <2>1, <2>2 DEF Stamped, StampsTaken
  <1>9. FoundNone'
    BY <1>1, <1>2, <1>5 DEF FoundNone, Of, Open
  <1>10. NewestExists' /\ NoneIsLate'
    BY <1>1 DEF NewestExists, NoneIsLate
  <1>11. DoublesOverlap'
    <2>1. \A s \in DOMAIN sessions : Open(s)' = Open(s) /\ Unasked(s)' = Unasked(s)
      BY <1>1 DEF Open, Unasked
    <2> QED BY <1>1, <2>1 DEF DoublesOverlap
  <1> QED BY <1>6, <1>7, <1>8, <1>9, <1>10, <1>11

\* The rows of the sessions change only in whether they are open and how they
\* are rated, and none is opened again.
RowsKept ==
  /\ sessions' \in Seq(SessionRow) /\ Len(sessions') = Len(sessions)
  /\ \A s \in DOMAIN sessions :
       /\ sessions'[s].user = sessions[s].user /\ sessions'[s].stamp = sessions[s].stamp
       /\ sessions'[s].by = sessions[s].by /\ sessions'[s].seen = sessions[s].seen
       /\ sessions'[s].open => sessions[s].open

\* A request that ends, having changed at most such things, keeps the invariant
\* but for what it says of messages.
LEMMA DoneKeeps ==
  ASSUME Inv, NEW r \in Requests, Done(r), RowsKept, UNCHANGED clock
  PROVE  /\ requests' \in [Requests -> Request]
         /\ NewestExists' /\ Targets' /\ Stamped' /\ FoundNone' /\ DoublesOverlap'
  <1> USE DEF Inv
  <1>0. /\ sessions \in Seq(SessionRow) /\ DOMAIN sessions' = DOMAIN sessions
        /\ Len(sessions) \in Nat
    BY DEF TypeOK, RowsKept
  <1>1. requests \in [Requests -> Request]
    BY DEF TypeOK
  <1>3. /\ Idle \in Request /\ Idle.at = "idle" /\ Idle.kind = "create" /\ Idle.target = 0
        /\ Idle.seen = 0 /\ Idle.found = "open"
    BY IdleType DEF None
  <1>4. \A q \in Requests : requests'[q] = IF q = r THEN Idle ELSE requests[q]
    BY <1>1 DEF Done
  <1>5. requests' \in [Requests -> Request]
    BY <1>1, <1>3 DEF Done
  <1>6. Targets'
    BY <1>0, <1>3, <1>4 DEF Targets, RowsKept
  <1>7. Stamped'
    BY <1>3, <1>4 DEF Stamped, StampsTaken
  <1>8. \A u \in Users : Of(u)' = Of(u)
    BY <1>0 DEF Of, RowsKept
  <1>9. \A s \in DOMAIN sessions : Open(s)' => Open(s)
    BY DEF Open, RowsKept
  <1>10. FoundNone'
    <2> SUFFICES ASSUME NEW q \in Requests,
                        requests'[q].at # "idle", requests'[q].kind \in {"ask", "active"},
                        requests'[q].target = None,
                        NEW s \in Of(requests[q].user)', s <= requests'[q].seen
                 PROVE  ~Open(s)'
      BY DEF FoundNone
    <2>1. q # r /\ requests'[q] = requests[q]
      BY <1>3, <1>4
    <2>2. requests[q].user \in Users
      BY <1>1 DEF Request
    <2>3. s \in Of(requests[q].user) /\ s \in DOMAIN sessions
      BY <1>0, <2>1, <2>2 DEF Of, RowsKept
    <2>4. ~Open(s)
      BY <2>1, <2>3 DEF FoundNone
    <2> QED BY <1>9, <2>3, <2>4
  <1>11. NewestExists'
    BY <1>0 DEF NewestExists, RowsKept
  <1>12. DoublesOverlap'
    <2> SUFFICES ASSUME NEW i \in DOMAIN sessions, NEW j \in DOMAIN sessions,
                        Open(i)', Unasked(i)', Open(j)', Unasked(j)', i < j,
                        sessions'[i].user = sessions'[j].user
                 PROVE  sessions'[j].seen < i
      BY <1>0 DEF DoublesOverlap
    <2>1. Open(i) /\ Open(j) /\ Unasked(i) /\ Unasked(j) /\ sessions[i].user = sessions[j].user
      BY <1>9 DEF Unasked, RowsKept
    <2> QED BY <2>1 DEF DoublesOverlap, RowsKept
  <1> QED BY <1>5, <1>6, <1>7, <1>10, <1>11, <1>12

\* Messages are added by requests that found their session open.
LEMMA MessageKeeps ==
  ASSUME Inv, NEW r \in Requests,
         CommitAsk(r) \/ CommitMessage(r)
  PROVE  Inv'
  <1> USE DEF Inv
  <1> DEFINE req == requests[r]
  <1>1. /\ req \in Request /\ req.at = "commit" /\ req.kind \in {"ask", "user", "agent"}
        /\ req.target # None /\ Done(r) /\ UNCHANGED <<sessions, clock>>
    BY DEF TypeOK, CommitAsk, CommitMessage, MakesSession, Targets
  <1>2. req.found = "open" /\ req.target \in Sessions /\ req.target <= Len(sessions)
    BY <1>1, BoundsAssumption DEF Targets, Request, None, Sessions
  <1>3. req.stamp + StampsTaken(req) <= clock /\ req.stamp \in Nat /\ clock \in 0..MaxStamp
    BY <1>1 DEF Stamped, Request, TypeOK, Stamps
  <1>4. messages' \subseteq MessageRow
        /\ \A m \in messages' : /\ m.session <= Len(sessions) /\ m.stamp < clock
                               /\ m.found = "open"
    <2>1. CASE CommitAsk(r)
      <3>1. req.kind = "ask" /\ req.text \in Questions \cup {"chat"} /\ StampsTaken(req) = 2
        BY <1>1, <2>1 DEF CommitAsk, Request, StampsTaken
      <3>2. req.text \in Questions
        BY <1>1, <3>1 DEF Targets
      <3>3. req.stamp \in Stamps /\ req.stamp + 1 \in Stamps
            /\ req.stamp < clock /\ req.stamp + 1 < clock
        BY <1>3, <3>1, BoundsAssumption DEF Stamps
      <3>4. GetAnswer(req.text) \in Sources
        BY <3>2, AnswerType
      <3> DEFINE question == Message(req, req.text, "user", req.stamp)
                 answer   == Message(req, GetAnswer(req.text), "agent", req.stamp + 1)
      <3>5. question \in MessageRow /\ answer \in MessageRow
        BY <1>2, <3>2, <3>3, <3>4 DEF Message, MessageRow
      <3>6. question.session = req.target /\ question.stamp = req.stamp /\ question.found = "open"
            /\ answer.session = req.target /\ answer.stamp = req.stamp + 1 /\ answer.found = "open"
        BY <1>2 DEF Message
      <3>7. messages' = messages \cup {question, answer}
        BY <2>1 DEF CommitAsk
      <3> HIDE DEF question, answer
      <3> QED BY <1>2, <3>3, <3>5, <3>6, <3>7 DEF TypeOK, NoneIsLate
    <2>2. CASE CommitMessage(r)
      <3>1. req.kind \in {"user", "agent"} /\ StampsTaken(req) = 1
        BY <2>2 DEF CommitMessage, StampsTaken
      <3>2. req.stamp \in Stamps /\ req.stamp < clock
        BY <1>3, <3>1, BoundsAssumption DEF Stamps
      <3> DEFINE msg == Message(req, req.text, req.kind, req.stamp)
      <3>3. msg \in MessageRow
        BY <1>1, <1>2, <3>1, <3>2 DEF Message, MessageRow, Request
      <3>4. msg.session = req.target /\ msg.stamp = req.stamp /\ msg.found = "open"
        BY <1>2 DEF Message
      <3>5. messages' = messages \cup {msg}
        BY <2>2 DEF CommitMessage
      <3> HIDE DEF msg
      <3> QED BY <1>2, <3>2, <3>3, <3>4, <3>5 DEF TypeOK, NoneIsLate
    <2> QED BY <2>1, <2>2
  <1>5. RowsKept
    BY <1>1 DEF RowsKept, TypeOK
  <1>6. /\ requests' \in [Requests -> Request]
        /\ NewestExists' /\ Targets' /\ Stamped' /\ FoundNone' /\ DoublesOverlap'
    BY <1>1, <1>5, DoneKeeps
  <1>7. TypeOK' /\ NoneIsLate'
    BY <1>1, <1>4, <1>6 DEF TypeOK, NoneIsLate
  <1> QED BY <1>6, <1>7

\* Resolving and rating change one column each; a failure changes nothing.
LEMMA RowKeeps ==
  ASSUME Inv, NEW r \in Requests,
         CommitResolve(r) \/ CommitRate(r) \/ Fail(r)
  PROVE  Inv' /\ \A s \in Resolved : ~sessions'[s].open
  <1> USE DEF Inv
  <1> DEFINE req == requests[r]
  <1>1. /\ req \in Request /\ Done(r) /\ UNCHANGED <<messages, clock>>
        /\ sessions \in Seq(SessionRow)
        /\ \A s \in DOMAIN sessions : sessions[s] \in SessionRow
    BY DEF TypeOK, CommitResolve, CommitRate, Fail
  <1>2. RowsKept
    <2>1. CASE CommitResolve(r)
      <3>1. req.target \in DOMAIN sessions
        BY <1>1, <2>1 DEF CommitResolve, Targets, Request, None
      <3>2. sessions' = [sessions EXCEPT ![req.target] = [@ EXCEPT !.open = FALSE]]
        BY <2>1 DEF CommitResolve
      <3>3. [sessions[req.target] EXCEPT !.open = FALSE] \in SessionRow
        BY <1>1, <3>1 DEF SessionRow
      <3> QED BY <1>1, <3>1, <3>2, <3>3 DEF RowsKept, SessionRow
    <2>2. CASE CommitRate(r)
      <3>1. req.target \in DOMAIN sessions /\ req.rating \in 0..MaxRating
        BY <1>1, <2>2 DEF CommitRate, Targets, Request, None
      <3>2. sessions' = [sessions EXCEPT ![req.target] = [@ EXCEPT !.rating = req.rating]]
        BY <2>2 DEF CommitRate
      <3>3. [sessions[req.target] EXCEPT !.rating = req.rating] \in SessionRow
        BY <1>1, <3>1 DEF SessionRow
      <3> QED BY <1>1, <3>1, <3>2, <3>3 DEF RowsKept, SessionRow
    <2>3. CASE Fail(r)
      BY <1>1, <2>3 DEF RowsKept, Fail
    <2> QED BY <2>1, <2>2, <2>3
  <1>3. /\ requests' \in [Requests -> Request]
        /\ NewestExists' /\ Targets' /\ Stamped' /\ FoundNone' /\ DoublesOverlap'
    BY <1>1, <1>2, DoneKeeps
  <1>4. TypeOK' /\ NoneIsLate'
    BY <1>1, <1>2, <1>3 DEF TypeOK, NoneIsLate, RowsKept
  <1>5. \A s \in Resolved : ~sessions'[s].open
    BY <1>2 DEF RowsKept, Resolved, Open
  <1> QED BY <1>3, <1>4, <1>5

\* A new session is open; the user's other open ones, if nobody asked for either,
\* came after the request had looked for them.
LEMMA SessionKeeps ==
  ASSUME Inv, NEW r \in Requests, CommitSession(r)
  PROVE  Inv' /\ \A s \in Resolved : ~sessions'[s].open
  <1> USE DEF Inv
  <1> DEFINE req == requests[r]
             n   == Len(sessions) + 1
             row == [user |-> req.user, open |-> TRUE, rating |-> 0, stamp |-> req.stamp,
                     by |-> req.kind, seen |-> req.seen]
             new == requests'[r]
  <1>1. /\ req \in Request /\ req.at = "commit" /\ req.kind \in {"active", "create", "ask"}
        /\ req.target = None /\ sessions' = Append(sessions, row)
        /\ UNCHANGED <<messages, clock>>
        /\ sessions \in Seq(SessionRow) /\ Len(sessions) \in Nat /\ Len(sessions) < MaxSessions
    BY DEF TypeOK, CommitSession, MakesSession
  <1>2. row \in SessionRow
    BY <1>1, BoundsAssumption DEF Request, SessionRow
  <1>3. /\ sessions' \in Seq(SessionRow) /\ Len(sessions') = n /\ sessions'[n] = row
        /\ DOMAIN sessions = 1..(n - 1) /\ DOMAIN sessions' = 1..n
        /\ \A s \in DOMAIN sessions : sessions'[s] = sessions[s] /\ s \in Nat /\ s < n
        /\ n \in Nat
    BY <1>1, <1>2
  <1>4. row.user = req.user /\ row.stamp = req.stamp /\ row.by = req.kind /\ row.seen = req.seen
    OBVIOUS
  <1> HIDE DEF row
  <1>5. /\ new \in Request
        /\ new.target <= n /\ new.seen <= n
        /\ new.kind = "ask" => new.target = n /\ new.at = "send" /\ new.found = "open"
                              /\ new.text \in Questions
        /\ new.kind # "ask" => new.at = "idle"
        /\ new.kind \in {"ask", "create"}
        /\ requests' = [requests EXCEPT ![r] = new]
    <2>0. requests \in [Requests -> Request]
      BY DEF TypeOK
    <2>1. CASE req.kind = "ask"
      <3>1. new = [req EXCEPT !.at = "send", !.target = n]
            /\ requests' = [requests EXCEPT ![r] = new]
        BY <2>0, <2>1 DEF CommitSession
      <3>2. n \in 0..MaxSessions
        BY <1>1, BoundsAssumption
      <3>3. /\ new \in Request /\ new.at = "send" /\ new.target = n /\ new.kind = "ask"
            /\ new.text = req.text /\ new.found = req.found /\ new.seen = req.seen
        BY <1>1, <2>1, <3>1, <3>2 DEF Request
      <3>4. req.seen <= n
        BY <1>1 DEF Targets, Request
      <3> QED BY <1>1, <1>3, <2>1, <3>1, <3>3, <3>4 DEF Targets
    <2>2. CASE req.kind # "ask"
      <3>1. Done(r)
        BY <2>2 DEF CommitSession
      <3>2. new = Idle /\ requests' = [requests EXCEPT ![r] = new]
        BY <2>0, <3>1 DEF Done
      <3> QED BY <1>3, <3>2, IdleType DEF None
    <2> QED BY <2>1, <2>2
  <1> HIDE DEF new
  <1>6. \A q \in Requests : requests'[q] = IF q = r THEN new ELSE requests[q]
    BY <1>5 DEF TypeOK
  <1>7. TypeOK'
    <2>1. \A m \in messages : m.session <= n
      <3>1. \A m \in messages : m.session \in Nat /\ m.session <= Len(sessions)
        BY DEF TypeOK, MessageRow, Sessions
      <3> QED BY <1>1, <3>1
    <2>2. requests' \in [Requests -> Request] /\ n <= MaxSessions
      BY <1>1, <1>5, BoundsAssumption DEF TypeOK
    <2> QED BY <1>1, <1>3, <2>1, <2>2 DEF TypeOK
  <1>8. Targets'
    <2>1. \A q \in Requests : requests[q].target <= n /\ requests[q].seen <= n
      <3>1. \A q \in Requests : /\ requests[q].target \in Nat /\ requests[q].seen \in Nat
                               /\ requests[q].target <= Len(sessions)
                               /\ requests[q].seen <= Len(sessions)
        BY DEF Targets, TypeOK, Request
      <3> QED BY <1>1, <3>1
    <2> QED BY <1>3, <1>5, <1>6, <2>1 DEF Targets, None
  <1>9. Stamped'
    BY <1>1, <1>5, <1>6 DEF Stamped, StampsTaken
  <1>10. FoundNone'
    <2> SUFFICES ASSUME NEW q \in Requests, NEW s \in DOMAIN sessions',
                        requests'[q].at # "idle", requests'[q].kind \in {"ask", "active"},
                        requests'[q].target = None, sessions'[s].user = requests'[q].user,
                        s <= requests'[q].seen
                 PROVE  ~sessions'[s].open
      BY DEF FoundNone, Of, Open
    <2>1. q # r /\ requests'[q] = requests[q]
      BY <1>3, <1>5, <1>6 DEF None
    <2>2. s \in DOMAIN sessions
      <3>1. requests[q].seen <= Len(sessions) /\ requests[q].seen \in Nat
        BY DEF Targets, TypeOK, Request
      <3> QED BY <1>1, <1>3, <2>1, <3>1
    <2> QED BY <1>3, <2>1, <2>2 DEF FoundNone, Of, Open
  <1>11. NewestExists'
    <2> SUFFICES ASSUME NEW T \in SUBSET (DOMAIN sessions'), T # {}
                 PROVE  \E s \in T : \A t \in T : sessions'[t].stamp <= sessions'[s].stamp
      BY DEF NewestExists
    <2> DEFINE U == T \ {n}
    <2>1. U \in SUBSET (DOMAIN sessions)
      BY <1>3
    <2>2. \A s \in DOMAIN sessions' : sessions'[s].stamp \in Nat
      <3>1. \A s \in DOMAIN sessions' : sessions'[s] \in SessionRow
        BY <1>3
      <3> QED BY <3>1 DEF SessionRow, Stamps
    <2>3. CASE U = {}
      BY <2>2, <2>3
    <2>4. CASE U # {}
      <3>1. PICK s \in U : \A t \in U : sessions[t].stamp <= sessions[s].stamp
        BY <2>1, <2>4 DEF NewestExists
      <3>2. \A t \in U : sessions'[t].stamp <= sessions'[s].stamp
        BY <1>3, <2>1, <3>1
      <3>3. CASE n \in T /\ sessions'[n].stamp > sessions'[s].stamp
        <4>1. \A t \in T : sessions'[t].stamp <= sessions'[n].stamp
          BY <2>2, <3>2, <3>3
        <4> QED BY <3>3, <4>1
      <3>4. CASE n \notin T \/ ~(sessions'[n].stamp > sessions'[s].stamp)
        BY <2>2, <3>2, <3>4
      <3> QED BY <3>3, <3>4
    <2> QED BY <2>3, <2>4
  <1>12. DoublesOverlap'
    <2> SUFFICES ASSUME NEW i \in 1..n, NEW j \in 1..n, i < j,
                        sessions'[i].open, sessions'[j].open,
                        sessions'[i].by # "create", sessions'[j].by # "create",
                        sessions'[i].user = sessions'[j].user
                 PROVE  sessions'[j].seen < i
      BY <1>3 DEF DoublesOverlap, Open, Unasked
    <2>1. i \in DOMAIN sessions /\ sessions'[i] = sessions[i]
      BY <1>3
    <2>2. CASE j = n
      <3>1. req.kind \in {"ask", "active"} /\ sessions[i].user = req.user
        BY <1>1, <1>3, <1>4, <2>1, <2>2
      <3>2. ~(i <= req.seen)
        BY <1>1, <2>1, <3>1 DEF FoundNone, Of, Open
      <3>3. req.seen \in Nat
        BY <1>1 DEF Request
      <3> QED BY <1>3, <1>4, <2>2, <3>2, <3>3
    <2>3. CASE j # n
      <3>1. j \in DOMAIN sessions /\ sessions'[j] = sessions[j]
        BY <1>3, <2>3
      <3> QED BY <2>1, <3>1 DEF DoublesOverlap, Open, Unasked
    <2> QED BY <2>2, <2>3
  <1>13. NoneIsLate'
    BY <1>1 DEF NoneIsLate
  <1>14. \A s \in Resolved : ~sessions'[s].open
    BY <1>3 DEF Resolved, Open
  <1> QED BY <1>7, <1>8, <1>9, <1>10, <1>11, <1>12, <1>13, <1>14

-----------------------------------------------------------------------------
(* The invariant holds.                                                    *)

\* Initially there are no sessions and nothing is under way.
LEMMA InvInit == Init => Inv
  <1> SUFFICES ASSUME Init PROVE Inv
    OBVIOUS
  <1>1. sessions = <<>> /\ messages = {} /\ clock = 0 /\ requests = [r \in Requests |-> Idle]
    BY DEF Init
  <1>2. \A r \in Requests : requests[r] = Idle
    BY <1>1
  <1>3. TypeOK
    BY <1>1, IdleType, BoundsAssumption DEF TypeOK, Stamps
  <1>4. Targets /\ Stamped /\ FoundNone
    BY <1>1, <1>2, IdleType DEF Targets, Stamped, FoundNone, None
  <1>5. NewestExists /\ NoneIsLate /\ DoublesOverlap
    BY <1>1 DEF NewestExists, NoneIsLate, DoublesOverlap
  <1> QED BY <1>3, <1>4, <1>5 DEF Inv

\* Steps keep the invariant, and none opens a resolved session.
LEMMA InvNext ==
  ASSUME Inv, [Next]_vars
  PROVE  Inv' /\ \A s \in Resolved : ~sessions'[s].open
  <1>1. ASSUME UNCHANGED sessions PROVE \A s \in Resolved : ~sessions'[s].open
    BY <1>1 DEF Resolved, Open
  <1>2. CASE UNCHANGED vars
    <2>1. UNCHANGED <<sessions, messages, requests, clock>>
      BY <1>2 DEF vars
    <2>2. TypeOK' /\ NewestExists' /\ Targets' /\ Stamped' /\ NoneIsLate'
      BY <2>1 DEF Inv, TypeOK, NewestExists, Targets, Stamped, NoneIsLate
    <2>3. FoundNone' /\ DoublesOverlap'
      BY <2>1 DEF Inv, FoundNone, DoublesOverlap, Of, Open, Unasked
    <2> QED BY <1>1, <2>1, <2>2, <2>3 DEF Inv
  <1>3. CASE Next
    <2>1. PICK r \in Requests :
            \/ \E u \in Users :
                 \/ \E q \in Questions : AskRead(r, u, q)
                 \/ ActiveRead(r, u)
                 \/ CreateBegin(r, u)
                 \/ \E s \in DOMAIN sessions : SaveRead(r, u, s) \/ ResolveRead(r, u, s)
                 \/ \E s \in DOMAIN sessions, v \in 1..MaxRating : RateRead(r, u, s, v)
            \/ \E s \in DOMAIN sessions : AgentRead(r, s)
            \/ Insert(r)
            \/ CommitSession(r) \/ CommitAsk(r) \/ CommitMessage(r)
            \/ CommitResolve(r) \/ CommitRate(r)
            \/ Fail(r)
      BY <1>3 DEF Next
    <2>2. CASE \E u \in Users :
                 \/ \E q \in Questions : AskRead(r, u, q)
                 \/ ActiveRead(r, u)
                 \/ CreateBegin(r, u)
                 \/ \E s \in DOMAIN sessions : SaveRead(r, u, s) \/ ResolveRead(r, u, s)
                 \/ \E s \in DOMAIN sessions, v \in 1..MaxRating : RateRead(r, u, s, v)
      <3>1. UNCHANGED sessions
        BY <2>2 DEF AskRead, ActiveRead, CreateBegin, SaveRead, ResolveRead, RateRead, Start
      <3> QED BY <1>1, <2>2, <3>1, ReadKeeps
    <2>3. CASE \E s \in DOMAIN sessions : AgentRead(r, s)
      <3>1. UNCHANGED sessions
        BY <2>3 DEF AgentRead, Start
      <3>2. \E u \in Users : TRUE
        BY UsersAssumption
      <3> QED BY <1>1, <2>3, <3>1, <3>2, ReadKeeps
    <2>4. CASE Insert(r)
      BY <1>1, <2>4, InsertKeeps DEF Insert
    <2>5. CASE CommitSession(r)
      BY <2>5, SessionKeeps
    <2>6. CASE CommitAsk(r) \/ CommitMessage(r)
      BY <1>1, <2>6, MessageKeeps DEF CommitAsk, CommitMessage
    <2>7. CASE CommitResolve(r) \/ CommitRate(r) \/ Fail(r)
      BY <2>7, RowKeeps
    <2> QED BY <2>1, <2>2, <2>3, <2>4, <2>5, <2>6, <2>7
  <1> QED BY <1>2, <1>3

-----------------------------------------------------------------------------
(* Theorems.                                                               *)

\* The invariant holds in every reachable state.
THEOREM Invariance == Spec => []Inv
  <1>1. Init => Inv
    BY InvInit
  <1>2. Inv /\ [Next]_vars => Inv'
    BY InvNext
  <1> QED BY <1>1, <1>2, PTL DEF Spec

\* Every variable keeps its type, and every message is of a session there is
\* and of a time that has passed.
THEOREM TypeCorrect == Spec => []TypeOK
  <1>1. Inv => TypeOK
    BY DEF Inv
  <1> QED BY <1>1, Invariance, PTL

\* Nobody who comes after a session was resolved writes into it.
THEOREM NobodyWritesLate == Spec => []NoneIsLate
  <1>1. Inv => NoneIsLate
    BY DEF Inv
  <1> QED BY <1>1, Invariance, PTL

\* Two open sessions that nobody asked for come of two lookups at a time.
THEOREM DoublesComeOfOverlap == Spec => []DoublesOverlap
  <1>1. Inv => DoublesOverlap
    BY DEF Inv
  <1> QED BY <1>1, Invariance, PTL

\* A resolved session is never opened again.
THEOREM ResolvedForGood == Spec => ResolvedStays
  <1>1. Inv /\ [Next]_vars => [\A s \in Resolved : ~sessions'[s].open]_vars
    BY InvNext
  <1> QED BY <1>1, Invariance, PTL DEF Spec, ResolvedStays

-----------------------------------------------------------------------------
(* Questions and answers.                                                  *)

\* A request that has taken the time stamps of messages it is about to commit.
Writing(req) == req.at = "commit" /\ req.kind \in {"ask", "user", "agent"}

\* The time stamps of two messages, or of a message and a request, never meet: they
\* are taken in one step, and the answer's is the question's successor.
Apart(req, t) == t < req.stamp \/ req.stamp + StampsTaken(req) <= t

\* The answer to m.
Answers(a, m) ==
  /\ a.session = m.session /\ a.stamp = m.stamp + 1 /\ a.role = "agent" /\ a.text \in Sources
  /\ Features[m.text].off => a.text # "faq"

HistoryInv ==
  /\ IsFiniteSet(messages)
  /\ \A r \in Requests : requests[r].kind # "ask" => requests[r].text = "chat"
  /\ \A r, q \in Requests : r # q /\ Writing(requests[r]) /\ Writing(requests[q]) =>
       \/ requests[r].stamp + StampsTaken(requests[r]) <= requests[q].stamp
       \/ requests[q].stamp + StampsTaken(requests[q]) <= requests[r].stamp
  /\ \A r \in Requests, m \in messages : Writing(requests[r]) => Apart(requests[r], m.stamp)
  /\ \A m, k \in messages : m.stamp = k.stamp => m = k
  /\ \A m \in messages : m.text \in Questions => \E a \in messages : Answers(a, m)

\* What is off topic is not answered from the FAQ.
LEMMA OffTopic == ASSUME NEW q \in Questions, Features[q].off PROVE GetAnswer(q) # "faq"
  <1>1. CheckTopic(q) = "off_topic"
    BY DEF CheckTopic
  <1>2. CASE IsGreeting(q)
    BY <1>2 DEF GetAnswer
  <1>3. CASE ~IsGreeting(q)
    BY <1>1, <1>3 DEF GetAnswer
  <1> QED BY <1>2, <1>3

\* A step that lets request r be new, which writes nothing yet, and adds no message.
LEMMA QuietKeeps ==
  ASSUME Inv, HistoryInv, NEW r \in Requests, NEW new,
         requests' = [requests EXCEPT ![r] = new], UNCHANGED messages,
         ~Writing(new), new.kind # "ask" => new.text = "chat"
  PROVE  HistoryInv'
  <1>1. \A q \in Requests : requests'[q] = IF q = r THEN new ELSE requests[q]
    BY DEF Inv, TypeOK
  <1> QED BY <1>1 DEF HistoryInv, Apart, Answers

\* A request that does nothing writes nothing.
LEMMA IdleIsQuiet == ~Writing(Idle) /\ Idle.text = "chat"
  BY DEF Idle, Writing

LEMMA StartQuiet ==
  ASSUME Inv, HistoryInv, NEW r \in Requests, NEW req, Start(r, req),
         req \in Request, req.at = "send" \/ req.kind \in {"resolve", "rate"},
         req.kind # "ask" => req.text = "chat"
  PROVE  HistoryInv'
  <1> DEFINE new == [req EXCEPT !.found = IF req.target \in Resolved THEN "resolved" ELSE "open",
                                !.seen = Len(sessions)]
  <1>1. requests' = [requests EXCEPT ![r] = new] /\ UNCHANGED messages
    BY DEF Start
  <1>2. new.at = req.at /\ new.kind = req.kind /\ new.text = req.text
    BY DEF Request
  <1> HIDE DEF new
  <1>3. ~Writing(new)
    BY <1>2 DEF Writing
  <1> QED BY <1>1, <1>2, <1>3, QuietKeeps

LEMMA ReadQuiet ==
  ASSUME Inv, HistoryInv, NEW r \in Requests, NEW u \in Users,
         \/ \E q \in Questions : AskRead(r, u, q)
         \/ ActiveRead(r, u)
         \/ CreateBegin(r, u)
         \/ \E s \in DOMAIN sessions : SaveRead(r, u, s) \/ ResolveRead(r, u, s)
         \/ \E s \in DOMAIN sessions, v \in 1..MaxRating : RateRead(r, u, s, v)
         \/ \E s \in DOMAIN sessions : AgentRead(r, s)
  PROVE  HistoryInv'
  <1>1. sessions \in Seq(SessionRow) /\ Len(sessions) \in 0..MaxSessions
    BY DEF Inv, TypeOK
  <1>2. \A s \in DOMAIN sessions : s \in 0..MaxSessions /\ sessions[s].user \in Users
    <2>1. DOMAIN sessions = 1..Len(sessions) /\ \A s \in DOMAIN sessions : sessions[s] \in SessionRow
      BY <1>1
    <2>2. \A s \in DOMAIN sessions : sessions[s].user \in Users
      BY <2>1 DEF SessionRow
    <2> QED BY <1>1, <2>1, <2>2, BoundsAssumption
  <1>3. Idle \in Request /\ Idle.kind = "create" /\ Idle.text = "chat"
    BY IdleType, IdleIsQuiet
  <1>4. ASSUME NEW q \in Questions, AskRead(r, u, q) PROVE HistoryInv'
    <2> DEFINE req == [Idle EXCEPT !.at = "send", !.kind = "ask", !.user = u, !.text = q,
                                   !.target = Newest(u)]
    <2>1. Newest(u) \in 0..MaxSessions
      BY <1>1, <1>2, NewestFinds, BoundsAssumption DEF Inv, Of, None
    <2>2. req \in Request /\ req.at = "send" /\ req.kind = "ask"
      BY <1>3, <2>1 DEF Request, Kinds
    <2> QED BY <1>4, <2>2, StartQuiet DEF AskRead
  <1>5. ASSUME ActiveRead(r, u) PROVE HistoryInv'
    <2> DEFINE req == [Idle EXCEPT !.at = "send", !.kind = "active", !.user = u]
    <2>1. req \in Request /\ req.at = "send" /\ req.text = "chat"
      BY <1>3 DEF Request, Kinds
    <2> QED BY <1>5, <2>1, StartQuiet DEF ActiveRead
  <1>6. ASSUME CreateBegin(r, u) PROVE HistoryInv'
    <2> DEFINE req == [Idle EXCEPT !.at = "send", !.user = u]
    <2>1. req \in Request /\ req.at = "send" /\ req.text = "chat"
      BY <1>3 DEF Request
    <2> QED BY <1>6, <2>1, StartQuiet DEF CreateBegin
  <1>7. ASSUME NEW s \in DOMAIN sessions, SaveRead(r, u, s) PROVE HistoryInv'
    <2> DEFINE req == [Idle EXCEPT !.at = "send", !.kind = "user", !.user = u, !.target = s]
    <2>1. req \in Request /\ req.at = "send" /\ req.text = "chat"
      BY <1>2, <1>3 DEF Request, Kinds
    <2> QED BY <1>7, <2>1, StartQuiet DEF SaveRead
  <1>8. ASSUME NEW s \in DOMAIN sessions, ResolveRead(r, u, s) PROVE HistoryInv'
    <2> DEFINE req == [Idle EXCEPT !.at = "commit", !.kind = "resolve", !.user = u, !.target = s]
    <2>1. req \in Request /\ req.kind = "resolve" /\ req.text = "chat"
      BY <1>2, <1>3 DEF Request, Kinds
    <2> QED BY <1>8, <2>1, StartQuiet DEF ResolveRead
  <1>9. ASSUME NEW s \in DOMAIN sessions, NEW v \in 1..MaxRating, RateRead(r, u, s, v)
        PROVE  HistoryInv'
    <2> DEFINE req == [Idle EXCEPT !.at = "commit", !.kind = "rate", !.user = u, !.target = s,
                                   !.rating = v]
    <2>1. v \in 0..MaxRating
      BY BoundsAssumption
    <2>2. req \in Request /\ req.kind = "rate" /\ req.text = "chat"
      BY <1>2, <1>3, <2>1 DEF Request, Kinds
    <2> QED BY <1>9, <2>2, StartQuiet DEF RateRead
  <1>10. ASSUME NEW s \in DOMAIN sessions, AgentRead(r, s) PROVE HistoryInv'
    <2> DEFINE req == [Idle EXCEPT !.at = "send", !.kind = "agent", !.user = sessions[s].user,
                                   !.target = s]
    <2>1. req \in Request /\ req.at = "send" /\ req.text = "chat"
      BY <1>2, <1>3 DEF Request, Kinds
    <2> QED BY <1>10, <2>1, StartQuiet DEF AgentRead
  <1> QED BY <1>4, <1>5, <1>6, <1>7, <1>8, <1>9, <1>10

\* The stamps an insert takes are later than all others.
LEMMA InsertApart ==
  ASSUME Inv, HistoryInv, NEW r \in Requests, Insert(r)
  PROVE  HistoryInv'
  <1> DEFINE req == requests[r]
             new == [req EXCEPT !.at = "commit", !.stamp = clock]
  <1>1. /\ req \in Request /\ clock \in Nat /\ UNCHANGED messages
        /\ requests' = [requests EXCEPT ![r] = new]
    <2>1. req \in Request /\ clock \in Nat
      BY DEF Inv, TypeOK, Stamps
    <2>2. UNCHANGED messages /\ requests' = [requests EXCEPT ![r] = new]
      BY DEF Insert
    <2> QED BY <2>1, <2>2
  <1>2. new.stamp = clock /\ new.kind = req.kind /\ new.text = req.text
    BY <1>1 DEF Request
  <1>3. StampsTaken(new) \in {1, 2}
    BY DEF StampsTaken
  <1> HIDE DEF new
  <1>4. \A q \in Requests : requests'[q] = IF q = r THEN new ELSE requests[q]
    BY <1>1 DEF Inv, TypeOK
  <1>5. \A q \in Requests : Writing(requests[q]) =>
          requests[q].stamp + StampsTaken(requests[q]) <= new.stamp
    BY <1>2 DEF Inv, Stamped, Writing
  <1>6. \A m \in messages : m.stamp < new.stamp
    BY <1>2 DEF Inv, TypeOK
  <1>7. \A q \in Requests : requests'[q].kind # "ask" => requests'[q].text = "chat"
    BY <1>2, <1>4 DEF HistoryInv
  <1>8. ASSUME NEW p \in Requests, NEW q \in Requests, p # q,
               Writing(requests'[p]), Writing(requests'[q])
        PROVE  \/ requests'[p].stamp + StampsTaken(requests'[p]) <= requests'[q].stamp
               \/ requests'[q].stamp + StampsTaken(requests'[q]) <= requests'[p].stamp
    BY <1>4, <1>5, <1>8 DEF HistoryInv
  <1>9. ASSUME NEW q \in Requests, NEW m \in messages, Writing(requests'[q])
        PROVE  Apart(requests'[q], m.stamp)
    BY <1>4, <1>6, <1>9 DEF HistoryInv, Apart
  <1> QED BY <1>1, <1>7, <1>8, <1>9 DEF HistoryInv, Answers

\* The new messages, one or a question and its answer, have the stamps of their request.
LEMMA WriteKeeps ==
  ASSUME Inv, HistoryInv, NEW r \in Requests, Writing(requests[r]), Done(r),
         NEW added, messages' = messages \cup added, IsFiniteSet(added),
         \A m \in added : ~Apart(requests[r], m.stamp),
         \A m, k \in added : m.stamp = k.stamp => m = k,
         \A m \in added : m.stamp \in Nat,
         \A m \in added : m.text \in Questions => \E a \in added : Answers(a, m)
  PROVE  HistoryInv'
  <1>1. \A q \in Requests : requests'[q] = IF q = r THEN Idle ELSE requests[q]
    BY DEF Inv, TypeOK, Done
  <1>2. IsFiniteSet(messages')
    BY FS_Union DEF HistoryInv
  <1>3. \A q \in Requests : /\ requests[q].stamp \in Nat /\ StampsTaken(requests[q]) \in {1, 2}
    BY DEF Inv, TypeOK, Request, Stamps, StampsTaken
  <1>4. ASSUME NEW m \in messages, NEW k \in added PROVE m.stamp # k.stamp
    BY <1>4 DEF HistoryInv
  <1>5. ASSUME NEW q \in Requests, NEW m \in messages', Writing(requests'[q])
        PROVE  Apart(requests'[q], m.stamp)
    <2>1. q # r /\ requests'[q] = requests[q]
      BY <1>1, <1>5, IdleIsQuiet
    <2>2. CASE m \in messages
      BY <1>5, <2>1, <2>2 DEF HistoryInv
    <2>3. CASE m \in added
      <3>1. \/ requests[r].stamp + StampsTaken(requests[r]) <= requests[q].stamp
            \/ requests[q].stamp + StampsTaken(requests[q]) <= requests[r].stamp
        BY <1>5, <2>1 DEF HistoryInv
      <3>2. m.stamp \in Nat /\ m.stamp >= requests[r].stamp
            /\ m.stamp < requests[r].stamp + StampsTaken(requests[r])
        BY <1>3, <2>3 DEF Apart
      <3> QED BY <1>3, <2>1, <3>1, <3>2 DEF Apart
    <2> QED BY <2>2, <2>3
  <1>6. \A m, k \in messages' : m.stamp = k.stamp => m = k
    BY <1>4 DEF HistoryInv
  <1>7. \A m \in messages' : m.text \in Questions => \E a \in messages' : Answers(a, m)
    BY DEF HistoryInv
  <1>8. /\ \A q \in Requests : requests'[q].kind # "ask" => requests'[q].text = "chat"
        /\ \A p, q \in Requests : p # q /\ Writing(requests'[p]) /\ Writing(requests'[q]) =>
             \/ requests'[p].stamp + StampsTaken(requests'[p]) <= requests'[q].stamp
             \/ requests'[q].stamp + StampsTaken(requests'[q]) <= requests'[p].stamp
    BY <1>1, IdleIsQuiet DEF HistoryInv
  <1> QED BY <1>2, <1>5, <1>6, <1>7, <1>8 DEF HistoryInv, Answers

\* ask_ai commits a question with its answer.
LEMMA AskWrites ==
  ASSUME Inv, HistoryInv, NEW r \in Requests, CommitAsk(r)
  PROVE  HistoryInv'
  <1> DEFINE req == requests[r]
             question == Message(req, req.text, "user", req.stamp)
             answer   == Message(req, GetAnswer(req.text), "agent", req.stamp + 1)
  <1>1. /\ Writing(req) /\ Done(r) /\ messages' = messages \cup {question, answer}
        /\ req.kind = "ask" /\ req.at = "commit" /\ StampsTaken(req) = 2
    BY DEF CommitAsk, Writing, MakesSession, StampsTaken
  <1>2. req.text \in Questions /\ req.stamp \in Nat
    BY <1>1 DEF Inv, Targets, TypeOK, Request, Stamps
  <1>3. /\ question.stamp = req.stamp /\ answer.stamp = req.stamp + 1 /\ question.text = req.text
        /\ answer.text = GetAnswer(req.text) /\ answer.role = "agent"
        /\ answer.session = question.session
    BY DEF Message
  <1> HIDE DEF question, answer
  <1>4. Answers(answer, question)
    BY <1>2, <1>3, AnswerType, OffTopic DEF Answers
  <1>5. answer.text \notin Questions
    BY <1>2, <1>3, AnswerType, QuestionsAssumption
  <1>6. IsFiniteSet({question, answer})
    <2>1. IsFiniteSet({question} \cup {answer})
      BY FS_Singleton, FS_AddElement
    <2>2. {question, answer} = {question} \cup {answer}
      OBVIOUS
    <2> QED BY <2>1, <2>2
  <1>7. \A m \in {question, answer} : m.stamp \in Nat /\ ~Apart(req, m.stamp)
    BY <1>1, <1>2, <1>3 DEF Apart
  <1>8. \A m, k \in {question, answer} : m.stamp = k.stamp => m = k
    BY <1>2, <1>3
  <1>9. \A m \in {question, answer} :
          m.text \in Questions => \E a \in {question, answer} : Answers(a, m)
    BY <1>4, <1>5
  <1> QED BY <1>1, <1>6, <1>7, <1>8, <1>9, WriteKeeps

\* save_message and agent_message commit no question.
LEMMA MessageWrites ==
  ASSUME Inv, HistoryInv, NEW r \in Requests, CommitMessage(r)
  PROVE  HistoryInv'
  <1> DEFINE req == requests[r]
             msg == Message(req, req.text, req.kind, req.stamp)
  <1>1. /\ Writing(req) /\ Done(r) /\ messages' = messages \cup {msg}
        /\ req.kind # "ask" /\ StampsTaken(req) = 1
    BY DEF CommitMessage, Writing, StampsTaken
  <1>2. req.text = "chat" /\ req.stamp \in Nat
    BY <1>1 DEF Inv, HistoryInv, TypeOK, Request, Stamps
  <1>3. msg.stamp = req.stamp /\ msg.text \notin Questions
    BY <1>2, QuestionsAssumption DEF Message
  <1> HIDE DEF msg
  <1>4. msg.stamp \in Nat /\ ~Apart(req, msg.stamp)
    BY <1>1, <1>2, <1>3 DEF Apart
  <1>5. IsFiniteSet({msg})
    BY FS_Singleton
  <1> QED BY <1>1, <1>3, <1>4, <1>5, WriteKeeps

LEMMA HistoryNext ==
  ASSUME Inv, HistoryInv, [Next]_vars
  PROVE  HistoryInv'
  <1>1. CASE UNCHANGED vars
    BY <1>1 DEF vars, HistoryInv, Apart, Answers
  <1>2. ASSUME NEW r \in Requests, CommitSession(r) PROVE HistoryInv'
    <2> DEFINE new == [requests[r] EXCEPT !.at = "send", !.target = Len(sessions) + 1]
    <2>1. requests[r] \in Request /\ UNCHANGED messages
      BY <1>2 DEF Inv, TypeOK, CommitSession
    <2>2. CASE requests[r].kind = "ask"
      <3>1. requests' = [requests EXCEPT ![r] = new]
        BY <1>2, <2>2 DEF CommitSession
      <3>2. new.at = "send" /\ new.kind = "ask"
        BY <2>1, <2>2 DEF Request
      <3> HIDE DEF new
      <3>3. ~Writing(new)
        BY <3>2 DEF Writing
      <3> QED BY <2>1, <3>1, <3>2, <3>3, QuietKeeps
    <2>3. CASE requests[r].kind # "ask"
      BY <1>2, <2>1, <2>3, IdleIsQuiet, QuietKeeps DEF CommitSession, Done
    <2> QED BY <2>2, <2>3
  <1>3. ASSUME NEW r \in Requests, CommitResolve(r) \/ CommitRate(r) \/ Fail(r) PROVE HistoryInv'
    BY <1>3, IdleIsQuiet, QuietKeeps DEF CommitResolve, CommitRate, Fail, Done
  <1>4. \E u \in Users : TRUE
    BY UsersAssumption
  <1>5. CASE Next
    BY <1>2, <1>3, <1>4, <1>5, ReadQuiet, InsertApart, AskWrites, MessageWrites DEF Next
  <1> QED BY <1>1, <1>5

\* The earliest messages of a session up to a limit hold a question's answer, or end
\* with the question.
LEMMA HistoryAnswers == Inv /\ HistoryInv => AskIsAnswered
  <1> SUFFICES ASSUME Inv, HistoryInv, NEW s \in DOMAIN sessions, NEW m \in History(s),
                      m.text \in Questions
               PROVE  \/ \E a \in History(s) :
                           /\ a.stamp = m.stamp + 1 /\ a.role = "agent" /\ a.text \in Sources
                           /\ Features[m.text].off => a.text # "faq"
                      \/ /\ Cardinality(History(s)) = HistoryLimit
                         /\ \A k \in History(s) : k.stamp <= m.stamp
    BY DEF AskIsAnswered
  <1> DEFINE Before(x) == {k \in messages : k.session = s /\ k.stamp < x}
  <1>1. m \in messages /\ m.session = s /\ Cardinality(Before(m.stamp)) < HistoryLimit
    BY DEF History
  <1>2. \A k \in messages : k.stamp \in Nat
    BY DEF Inv, TypeOK, MessageRow, Stamps
  <1>3. \A x : IsFiniteSet(Before(x))
    BY FS_Subset DEF HistoryInv
  <1>4. PICK a \in messages : Answers(a, m)
    BY <1>1 DEF HistoryInv
  <1>5. a.session = s /\ a.stamp = m.stamp + 1
    BY <1>1, <1>4 DEF Answers
  <1>6. Before(a.stamp) = Before(m.stamp) \cup {m} /\ m \notin Before(m.stamp)
    BY <1>1, <1>2, <1>5 DEF HistoryInv
  <1>7. \A k \in messages : k.stamp <= m.stamp => Before(k.stamp) \subseteq Before(m.stamp)
    BY <1>1, <1>2
  <1>8. \A k \in messages : ~(k.stamp <= m.stamp) => Before(a.stamp) \subseteq Before(k.stamp)
    BY <1>1, <1>2, <1>5
  <1>9. \A k \in messages : k.session = s /\ k.stamp <= m.stamp <=> k \in Before(a.stamp)
    BY <1>1, <1>2, <1>5
  <1>10. \A k : k \in History(s) <=> /\ k \in messages /\ k.session = s
                                     /\ Cardinality(Before(k.stamp)) < HistoryLimit
    BY DEF History
  <1> HIDE DEF Before
  <1>11. /\ Cardinality(Before(m.stamp)) \in Nat
         /\ Cardinality(Before(a.stamp)) = Cardinality(Before(m.stamp)) + 1
    BY <1>3, <1>6, FS_AddElement, FS_CardinalityType
  <1>12. CASE Cardinality(Before(a.stamp)) < HistoryLimit
    BY <1>4, <1>5, <1>10, <1>12 DEF Answers
  <1>13. CASE ~(Cardinality(Before(a.stamp)) < HistoryLimit)
    <2>1. Cardinality(Before(a.stamp)) = HistoryLimit
      BY <1>1, <1>11, <1>13, BoundsAssumption
    <2>2. ASSUME NEW k \in messages, k.session = s, k.stamp <= m.stamp PROVE k \in History(s)
      <3>1. Before(k.stamp) \in SUBSET Before(m.stamp)
        BY <1>7, <2>2
      <3>2. Cardinality(Before(k.stamp)) <= Cardinality(Before(m.stamp)) /\ Cardinality(Before(k.stamp)) \in Nat
        BY <1>3, <3>1, FS_Subset, FS_CardinalityType
      <3> QED BY <1>1, <1>10, <1>11, <2>2, <3>2, BoundsAssumption
    <2>3. ASSUME NEW k \in History(s) PROVE k.stamp <= m.stamp
      <3> SUFFICES ASSUME ~(k.stamp <= m.stamp) PROVE FALSE
        OBVIOUS
      <3>1. k \in messages /\ Cardinality(Before(k.stamp)) < HistoryLimit
        BY <1>10
      <3>2. Before(a.stamp) \in SUBSET Before(k.stamp)
        BY <1>8, <3>1
      <3>3. Cardinality(Before(a.stamp)) <= Cardinality(Before(k.stamp)) /\ Cardinality(Before(k.stamp)) \in Nat
        BY <1>3, <3>2, FS_Subset, FS_CardinalityType
      <3> QED BY <2>1, <3>1, <3>3, BoundsAssumption
    <2>4. \A k : k \in History(s) <=> k \in Before(a.stamp)
      <3>1. \A k \in Before(a.stamp) : k \in messages
        BY DEF Before
      <3> QED BY <1>9, <1>10, <2>2, <2>3, <3>1
    <2>5. History(s) = Before(a.stamp)
      BY <2>4
    <2> QED BY <2>1, <2>3, <2>5
  <1> QED BY <1>12, <1>13

\* In the history of a session, a question to the assistant is directly followed by
\* its answer, whatever comes in at the same time, unless the limit of the history
\* cuts it off (ask_ai and get_history).
THEOREM QuestionsAnswered == Spec => []AskIsAnswered
  <1>1. Init => HistoryInv
    <2> SUFFICES ASSUME Init PROVE HistoryInv
      OBVIOUS
    <2>1. messages = {} /\ \A r \in Requests : requests[r] = Idle
      BY DEF Init
    <2> QED BY <2>1, IdleIsQuiet, FS_EmptySet DEF HistoryInv
  <1>2. Inv /\ HistoryInv /\ [Next]_vars => HistoryInv'
    BY HistoryNext
  <1> QED BY <1>1, <1>2, Invariance, HistoryAnswers, PTL DEF Spec
=============================================================================
