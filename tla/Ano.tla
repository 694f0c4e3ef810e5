-------------------------------- MODULE Ano --------------------------------
(***************************************************************************)
(* The cognitive layer of SafeNet: an analysis of a server's metrics names *)
(* a cause from the graph, judges the trend of the server's samples, and   *)
(* remembers the recommendation as a decision in shadow mode.              *)
(*                                                                         *)
(* Requests run one at a time on the event loop; only the thread that      *)
(* dumps the graph runs beside them.  Topology, outcomes, decay and dumps  *)
(* come from callers of the engines, as in the tests: no endpoint does it. *)
(***************************************************************************)
EXTENDS TopologyGraph, DecisionMemory, SequencesExt

CONSTANTS
  Metrics,      \* [loss, rtt, jitter], far enough apart for tanh to saturate
  Window,       \* samples kept of a server, 30 in the code
  BaseLength,   \* samples of the baseline, 5 in the code
  Hosting,      \* edges an operator may add: [from, to, relation]
  Nobody,       \* no analysis
  MaxAdded      \* bound on nodes and edges an operator adds

ASSUME WindowAssumption   == BaseLength \in Nat \ {0} /\ Window \in Nat /\ BaseLength < Window
ASSUME MaxAddedAssumption == MaxAdded \in Nat
ASSUME MetricsAssumption  == Metrics \subseteq [loss : Int, rtt : Int, jitter : Int]
ASSUME HostingAssumption  ==
  Hosting \subseteq [from : Servers \cup Places, to : Servers \cup Places, relation : Relations]

VARIABLES
  history,      \* _history
  analysis,     \* the analysis under way
  incidents,    \* incidents so far: no two have the same id
  added,        \* nodes and edges added so far
  run           \* ghost: how many equal samples the server's last ones were in a row

vars == <<graphVars, decisionVars, history, analysis, incidents, added, run>>

Analysis == [incident : Incidents, server : Servers, context : Contexts]

TypeOK ==
  /\ GraphTypeOK /\ DecisionTypeOK
  /\ history \in [Servers -> Seq(Metrics)] /\ \A s \in Servers : Len(history[s]) <= Window
  /\ analysis \in Analysis \cup {Nobody}
  /\ incidents \in 0..MaxIncidents
  /\ added \in 0..MaxAdded
  /\ run \in [Servers -> 0..Window]

Init ==
  /\ GraphInit /\ DecisionInit
  /\ history = [s \in Servers |-> <<>>]
  /\ analysis = Nobody
  /\ incidents = 0
  /\ added = 0
  /\ run = [s \in Servers |-> 0]

-----------------------------------------------------------------------------
(* The predictive engine.                                                  *)

\* Slip: the first samples stay when later ones go.
AddSample_BaseKept(h, m) ==
  IF Len(h) < Window THEN Append(h, m)
  ELSE Append(SubSeq(h, 1, BaseLength) \o SubSeq(h, BaseLength + 2, Window), m)

\* add_sample: the last samples are kept.
AddSample(h, m) == IF Len(h) < Window THEN Append(h, m) ELSE Append(Tail(h), m)

\* The sign of now's distance from the average of the baseline: what tanh leaves of it.
Trend(now, base) ==
  LET sum == FoldSeq(+, 0, base)
  IN CASE Len(base) * now > sum -> 1 [] Len(base) * now < sum -> -1 [] OTHER -> 0

\* forecast_score < FORECAST_CRITICAL, with loss, and each delta, as 0, 1 or -1
Degrades(h) ==
  LET now  == Last(h)
      base == SubSeq(h, 1, BaseLength)
  IN (IF now.loss > 0 THEN 1 ELSE 0)
       + Trend(now.rtt,    [i \in DOMAIN base |-> base[i].rtt])
       + Trend(now.jitter, [i \in DOMAIN base |-> base[i].jitter]) >= 1

\* analyze: sure of it with more than four fifths of the window
Forecast(h) ==
  IF Len(h) < BaseLength \/ ~Degrades(h) THEN "normal"
  ELSE IF 5 * Len(h) > 4 * Window THEN "proactive_handover" ELSE "enhanced_monitoring"

-----------------------------------------------------------------------------
(* POST /ano/analyze                                                       *)

\* The meta agent's evaluate_proposal: in shadow mode a proposal is only recorded.
EvaluateProposal(c, s) == Record(c, Forecast(history[s]))

\* add_sample, and the causality engine up to the incident's node.
AnalyzeBegin(s, m, c) ==
  /\ analysis = Nobody
  /\ incidents < MaxIncidents /\ uses < MaxUses
  /\ history' = [history EXCEPT ![s] = AddSample(@, m)]
  /\ run' = [run EXCEPT ![s] = IF history[s] # <<>> /\ Last(history[s]) = m
                               THEN Least(Window, @ + 1) ELSE 1]
  /\ AddIncident(incidents + 1, s, m)
  /\ incidents' = incidents + 1
  /\ analysis' = [incident |-> incidents + 1, server |-> s, context |-> c]
  /\ UNCHANGED <<decisionVars, added>>

\* Its edge, the forecast and the proposal.  The graph's lock was free in
\* between.
AnalyzeEnd ==
  /\ analysis # Nobody
  /\ AddCause(analysis.incident, analysis.server)
  /\ EvaluateProposal(analysis.context, analysis.server)
  /\ analysis' = Nobody
  /\ UNCHANGED <<history, incidents, added, run>>

(* Callers of the engines.                                                 *)

PlaceServer ==
  /\ analysis = Nobody
  /\ added < MaxAdded
  /\ \/ \E s \in Servers : AddNode(s, [type |-> "server", scope |-> "none"])
     \/ \E e \in Hosting : AddEdge(e.from, e.to, e.relation)
  /\ added' = added + 1
  /\ UNCHANGED <<decisionVars, history, analysis, incidents, run>>

Outcome ==
  /\ analysis = Nobody
  /\ \E i \in DOMAIN entries, status \in {"success", "failed"}, downtime \in Downtimes :
       UpdateResult(i, status, downtime)
  /\ UNCHANGED <<graphVars, history, analysis, incidents, added, run>>

Forget ==
  /\ analysis = Nobody
  /\ Decay
  /\ UNCHANGED <<graphVars, history, analysis, incidents, added, run>>

\* clear_history
ClearHistory(s) ==
  /\ analysis = Nobody
  /\ history' = [history EXCEPT ![s] = <<>>]
  /\ run' = [run EXCEPT ![s] = 0]
  /\ UNCHANGED <<graphVars, decisionVars, analysis, incidents, added>>

\* snapshot_async runs snapshot_sync in a thread.
Dump ==
  /\ SnapshotOpen \/ SnapshotWrite
  /\ UNCHANGED <<decisionVars, history, analysis, incidents, added, run>>

\* Samples and decisions are kept in memory only.
Restart ==
  /\ Load
  /\ entries' = <<>> /\ UNCHANGED uses
  /\ history' = [s \in Servers |-> <<>>]
  /\ run' = [s \in Servers |-> 0]
  /\ analysis' = Nobody
  /\ UNCHANGED <<incidents, added>>

Next ==
  \/ \E s \in Servers, m \in Metrics, c \in Contexts : AnalyzeBegin(s, m, c)
  \/ AnalyzeEnd
  \/ PlaceServer
  \/ Outcome
  \/ Forget
  \/ \E s \in Servers : ClearHistory(s)
  \/ Dump
  \/ Restart

Spec == Init /\ [][Next]_vars

-----------------------------------------------------------------------------
(* Properties.                                                             *)

\* A server that is slow and stays so is judged normal once its samples fill the
\* window: the baseline is the window's oldest samples, and slides with it.
\* Only loss is seen for as long as it lasts.
SteadyLooksNormal ==
  \A s \in Servers :
    run[s] = Window /\ Last(history[s]).loss = 0 => Forecast(history[s]) = "normal"

Untried(c) == Candidates(c) # {} /\ entries[Best(c)].status = "pending"

\* A decision that nobody has tried is advised for as long as it is there: none that
\* is recorded later, whatever the metrics then said, takes its place.
UntriedAdviceSticks ==
  [][IsStrictPrefix(entries, entries') =>
       \A c \in Contexts : Untried(c) => BestAction(c)' = BestAction(c)]_vars

=============================================================================
