------------------------------ MODULE Support ------------------------------
(***************************************************************************)
(* Support conversations: a user's sessions, the messages of the user, of  *)
(* the agent and of the assistant that answers from a built-in FAQ.        *)
(*                                                                         *)
(* A request reads what it needs, sends its rows to the database, where    *)
(* they take their time stamps, and commits; other requests may run in     *)
(* between, and a request that fails before it commits leaves nothing.     *)
(* Requests that the endpoints refuse change nothing and are left out.     *)
(***************************************************************************)
EXTENDS Integers, Sequences, FiniteSets

CONSTANTS
  Users,
  Requests,     \* requests under way at a time
  Questions,    \* what the assistant is asked
  Features,     \* what the assistant sees in a question
  HistoryLimit, \* limit of get_history, 50 in the code
  MaxRating,    \* 5 in the code
  MaxSessions,  \* bound on sessions
  MaxStamp      \* bound on the time stamps taken

ASSUME FeaturesAssumption ==
  Features \in [Questions -> [greets : BOOLEAN, words : Nat, off : BOOLEAN,
                              vpn : BOOLEAN, overlap : Nat]]
ASSUME UsersAssumption == Users # {}
ASSUME BoundsAssumption == /\ HistoryLimit \in Nat
                           /\ MaxRating \in Nat
                           /\ MaxSessions \in Nat \ {0}
                           /\ MaxStamp \in Nat

VARIABLES
  sessions,     \* committed rows of support_sessions, in the order of their commits
  messages,     \* committed rows of support_messages
  requests,
  clock         \* the next created_at

vars == <<sessions, messages, requests, clock>>

-----------------------------------------------------------------------------
(* The assistant: ai_support.                                              *)

Sources == {"greeting", "off_topic", "faq", "fallback"}

ASSUME QuestionsAssumption == Questions \cap (Sources \cup {"chat"}) = {}

IsGreeting(q) == Features[q].greets /\ Features[q].words <= 4

\* The first word list that matches decides.
CheckTopic(q) ==
  CASE Features[q].off                       -> "off_topic"
    [] Features[q].vpn /\ ~Features[q].off   -> "vpn"
    [] OTHER                                 -> "none"

\* Entries of the FAQ that share a word with the question.
SearchFaq(q) == Features[q].overlap >= 1

\* Slip: the topic is looked at after the FAQ.
GetAnswer_FaqFirst(q) ==
  CASE IsGreeting(q) -> "greeting"
    [] ~IsGreeting(q) /\ SearchFaq(q) -> "faq"
    [] ~IsGreeting(q) /\ ~SearchFaq(q) /\ CheckTopic(q) = "off_topic" -> "off_topic"
    [] OTHER -> "fallback"

\* A question of no known topic needs two words to be looked up.
GetAnswer(q) ==
  LET topic == CheckTopic(q)
  IN CASE IsGreeting(q)                            -> "greeting"
       [] ~IsGreeting(q) /\ topic = "off_topic"    -> "off_topic"
       [] /\ ~IsGreeting(q) /\ topic # "off_topic" /\ SearchFaq(q)
          /\ topic = "vpn" \/ Features[q].words >= 2 -> "faq"
       [] OTHER                                    -> "fallback"

-----------------------------------------------------------------------------
(* State.                                                                  *)

Sessions == 1..MaxSessions
Stamps   == 0..MaxStamp
None     == 0

SessionRow == [user : Users, open : BOOLEAN, rating : 0..MaxRating, stamp : Stamps,
               by : {"ask", "active", "create"},  \* ghost: what made it
               seen : 0..MaxSessions]   \* ghost: sessions there were when it was looked for
MessageRow == [session : Sessions, stamp : Stamps, role : {"user", "agent"},
               text : Questions \cup Sources \cup {"chat"},
               found : {"open", "resolved"}]  \* ghost: the session when the request began
Kinds == {"ask", "active", "create", "user", "agent", "resolve", "rate"}
Request == [at : {"idle", "send", "commit"}, kind : Kinds, user : Users,
            target : 0..MaxSessions, text : Questions \cup {"chat"}, rating : 0..MaxRating,
            stamp : Stamps, found : {"open", "resolved"}, seen : 0..MaxSessions]

TypeOK ==
  /\ sessions \in Seq(SessionRow) /\ Len(sessions) <= MaxSessions
  /\ messages \subseteq MessageRow
  /\ requests \in [Requests -> Request]
  /\ clock \in Stamps
  /\ \A m \in messages : m.session <= Len(sessions) /\ m.stamp < clock

Of(u)    == {s \in DOMAIN sessions : sessions[s].user = u}
Open(s)  == sessions[s].open
Unasked(s)  == sessions[s].by # "create"
Resolved == {s \in DOMAIN sessions : ~Open(s)}

\* Slip: a session counts as closed when it is rated.
Newest_Unrated(u) ==
  IF \E s \in Of(u) : sessions[s].rating = 0
  THEN CHOOSE s \in Of(u) : /\ sessions[s].rating = 0
                            /\ \A t \in Of(u) : sessions[t].rating = 0 =>
                                                 sessions[t].stamp <= sessions[s].stamp
  ELSE None

\* The newest open session of the user.
Newest(u) ==
  IF \E s \in Of(u) : Open(s)
  THEN CHOOSE s \in Of(u) :
         Open(s) /\ \A t \in Of(u) : Open(t) => sessions[t].stamp <= sessions[s].stamp
  ELSE None

Idle == [at |-> "idle", kind |-> "create", user |-> CHOOSE u \in Users : TRUE, target |-> None,
         text |-> "chat", rating |-> 0, stamp |-> 0, found |-> "open", seen |-> 0]

Init ==
  /\ sessions = <<>>
  /\ messages = {}
  /\ requests = [r \in Requests |-> Idle]
  /\ clock = 0

-----------------------------------------------------------------------------
(* What a request reads first.                                             *)

Start(r, req) ==
  /\ requests[r].at = "idle"
  /\ requests' = [requests EXCEPT ![r] = [req EXCEPT
                       !.found = IF req.target \in Resolved THEN "resolved" ELSE "open",
                       !.seen = Len(sessions)]]
  /\ UNCHANGED <<sessions, messages, clock>>

\* ask_ai
AskRead(r, u, q) ==
  Start(r, [Idle EXCEPT !.at = "send", !.kind = "ask", !.user = u, !.text = q,
                        !.target = Newest(u)])

\* get_or_create_active_session; one that is found is only shown.
ActiveRead(r, u) ==
  /\ Newest(u) = None
  /\ Start(r, [Idle EXCEPT !.at = "send", !.kind = "active", !.user = u])

\* create_session
CreateBegin(r, u) == Start(r, [Idle EXCEPT !.at = "send", !.user = u])

\* save_message
SaveRead(r, u, s) ==
  /\ s \in Of(u) /\ Open(s)
  /\ Start(r, [Idle EXCEPT !.at = "send", !.kind = "user", !.user = u, !.target = s])

\* Slip: whether the session is open is not asked.
AgentRead_AnySession(r, s) ==
  Start(r, [Idle EXCEPT !.at = "send", !.kind = "agent", !.user = sessions[s].user, !.target = s])

\* agent_message
AgentRead(r, s) ==
  /\ Open(s)
  /\ Start(r, [Idle EXCEPT !.at = "send", !.kind = "agent", !.user = sessions[s].user, !.target = s])

\* resolve_session
ResolveRead(r, u, s) ==
  /\ s \in Of(u) /\ Open(s)
  /\ Start(r, [Idle EXCEPT !.at = "commit", !.kind = "resolve", !.user = u, !.target = s])

\* rate_session, of a session that need not be resolved
RateRead(r, u, s, v) ==
  /\ s \in Of(u)
  /\ Start(r, [Idle EXCEPT !.at = "commit", !.kind = "rate", !.user = u, !.target = s,
                           !.rating = v])

-----------------------------------------------------------------------------
(* What it writes.                                                         *)

\* A request that has no session yet makes one before anything else.
MakesSession(req) == req.kind \in {"active", "create", "ask"} /\ req.target = None

\* Slip: question and answer take one time stamp.
StampsTaken_One(req) == 1

StampsTaken(req) == IF req.kind = "ask" /\ req.target # None THEN 2 ELSE 1

\* The rows are inserted: they take their time stamps, the question's before
\* the answer's, and nobody sees them yet.
Insert(r) ==
  LET req == requests[r]
  IN /\ req.at = "send"
     /\ clock + StampsTaken(req) <= MaxStamp
     /\ clock' = clock + StampsTaken(req)
     /\ requests' = [requests EXCEPT ![r].at = "commit", ![r].stamp = clock]
     /\ UNCHANGED <<sessions, messages>>

Message(req, text, role, t) ==
  [session |-> req.target, stamp |-> t, role |-> role, text |-> text, found |-> req.found]

Done(r) == requests' = [requests EXCEPT ![r] = Idle]

\* The new row; ask_ai goes on with it.
CommitSession(r) ==
  LET req == requests[r]
  IN /\ req.at = "commit" /\ MakesSession(req)
     /\ Len(sessions) < MaxSessions
     /\ sessions' = Append(sessions, [user |-> req.user, open |-> TRUE, rating |-> 0,
                                      stamp |-> req.stamp, by |-> req.kind,
                                      seen |-> req.seen])
     /\ IF req.kind = "ask"
        THEN requests' = [requests EXCEPT ![r].at = "send", ![r].target = Len(sessions) + 1]
        ELSE Done(r)
     /\ UNCHANGED <<messages, clock>>

\* ask_ai: the question and its answer, in one commit.
CommitAsk(r) ==
  LET req == requests[r]
  IN /\ req.at = "commit" /\ req.kind = "ask" /\ ~MakesSession(req)
     /\ messages' = messages \cup
          {Message(req, req.text, "user", req.stamp),
           Message(req, GetAnswer(req.text), "agent", req.stamp + 1)}
     /\ Done(r)
     /\ UNCHANGED <<sessions, clock>>

\* save_message and agent_message: the session's row is not read again.
CommitMessage(r) ==
  LET req == requests[r]
  IN /\ req.at = "commit" /\ req.kind \in {"user", "agent"}
     /\ messages' = messages \cup {Message(req, req.text, req.kind, req.stamp)}
     /\ Done(r)
     /\ UNCHANGED <<sessions, clock>>

CommitResolve(r) ==
  LET req == requests[r]
  IN /\ req.at = "commit" /\ req.kind = "resolve"
     /\ sessions' = [sessions EXCEPT ![req.target].open = FALSE]
     /\ Done(r)
     /\ UNCHANGED <<messages, clock>>

\* Slip: the whole row is written back as it was read.
CommitRate_WholeRow(r) ==
  LET req == requests[r]
  IN /\ req.at = "commit" /\ req.kind = "rate"
     /\ sessions' = [sessions EXCEPT ![req.target].rating = req.rating,
                                     ![req.target].open = (req.found = "open")]
     /\ Done(r)
     /\ UNCHANGED <<messages, clock>>

CommitRate(r) ==
  LET req == requests[r]
  IN /\ req.at = "commit" /\ req.kind = "rate"
     /\ sessions' = [sessions EXCEPT ![req.target].rating = req.rating]
     /\ Done(r)
     /\ UNCHANGED <<messages, clock>>

\* The process dies or the database refuses: what was not committed is gone.
Fail(r) ==
  /\ requests[r].at # "idle"
  /\ Done(r)
  /\ UNCHANGED <<sessions, messages, clock>>

Next ==
  \E r \in Requests :
    \/ \E u \in Users :
         \/ \E q \in Questions : AskRead(r, u, q)
         \/ ActiveRead(r, u)
         \/ CreateBegin(r, u)
         \/ \E s \in DOMAIN sessions : SaveRead(r, u, s) \/ ResolveRead(r, u, s)
         \/ \E s \in DOMAIN sessions, v \in 1..MaxRating : RateRead(r, u, s, v)
    \/ \E s \in DOMAIN sessions : AgentRead(r, s)
    \/ Insert(r)
    \/ CommitSession(r) \/ CommitAsk(r) \/ CommitMessage(r)
    \/ CommitResolve(r) \/ CommitRate(r)
    \/ Fail(r)

Spec == Init /\ [][Next]_vars

-----------------------------------------------------------------------------
(* Properties.                                                             *)

\* A message comes into a resolved session only by a request that was already
\* under way when the session was resolved.
NoneIsLate == \A m \in messages : m.found = "open"

\* A user has two open sessions that he did not ask for only if the second was
\* looked for before the first was there: two requests at a time, both of which
\* find none.
DoublesOverlap ==
  \A i, j \in {s \in DOMAIN sessions : Open(s) /\ Unasked(s)} :
    i < j /\ sessions[i].user = sessions[j].user => sessions[j].seen < i

\* A session that is resolved stays so, whoever writes to its row meanwhile.
ResolvedStays == [][\A s \in Resolved : ~sessions'[s].open]_vars

\* get_history: the earliest messages of a session, up to the limit.
History(s) ==
  {m \in messages : /\ m.session = s
                    /\ Cardinality({k \in messages : k.session = s /\ k.stamp < m.stamp})
                         < HistoryLimit}

\* In the history, what was asked of the assistant is directly followed by its
\* answer, whatever came in at the same time, unless the limit cuts it off;
\* and a question that is off topic is not answered from the FAQ.
AskIsAnswered ==
  \A s \in DOMAIN sessions : \A m \in History(s) :
    m.text \in Questions =>
      \/ \E a \in History(s) :
           /\ a.stamp = m.stamp + 1 /\ a.role = "agent" /\ a.text \in Sources
           /\ Features[m.text].off => a.text # "faq"
      \/ /\ Cardinality(History(s)) = HistoryLimit
         /\ \A k \in History(s) : k.stamp <= m.stamp

=============================================================================
