--------------------------- MODULE DecisionMemory ---------------------------
(***************************************************************************)
(* The decisions ANO remembers, with how sure it is of them: what was done *)
(* in which context, and what came of it.                                  *)
(***************************************************************************)
EXTENDS Integers, Sequences, FiniteSets

CONSTANTS
  Contexts,     \* records of geo, protocol and provider_source, any of them absent
  Downtimes,    \* seconds, a number under 2, one up to 5, or more
  MaxUses       \* bound on the decisions recorded and the outcomes reported

ASSUME MaxUsesAssumption   == MaxUses \in Nat
ASSUME DowntimesAssumption == Downtimes \subseteq Nat /\ 0 \in Downtimes

VARIABLES
  entries,      \* _entries, in the order in which they were recorded
  uses          \* records and outcomes so far: the clock behind last_used

decisionVars == <<entries, uses>>

Actions   == {"normal", "enhanced_monitoring", "proactive_handover"}
Statuses  == {"pending", "success", "failed"}
Decision  == [context : Contexts, action : Actions, status : Statuses, downtime : Downtimes,
              confidence : 0..100,                  \* in hundredths
              count : 1..(MaxUses + 1), used : 0..MaxUses]

DecisionTypeOK ==
  /\ entries \in Seq(Decision) /\ Len(entries) <= uses
  /\ uses \in 0..MaxUses

DecisionInit == entries = <<>> /\ uses = 0

\* Two of the three fields agree; fields that neither has agree.
Matches(c, d) == Cardinality({k \in DOMAIN c : c[k] = d[k]}) >= 2

Candidates(c) ==
  {i \in DOMAIN entries : entries[i].status # "failed" /\ Matches(entries[i].context, c)}

\* The score of i is not below that of j: confidence * use_count / (1 + downtime).
AtLeast(i, j) ==
  entries[i].confidence * entries[i].count * (1 + entries[j].downtime)
    >= entries[j].confidence * entries[j].count * (1 + entries[i].downtime)

\* Slip: of equals the last is taken.
Best_Last(c) ==
  LET found == Candidates(c)
  IN CHOOSE i \in found : \A j \in found : AtLeast(i, j) /\ (j > i => ~AtLeast(j, i))

\* The first of the candidates with the highest score: the sort is stable.
Best(c) ==
  LET found == Candidates(c)
  IN CHOOSE i \in found : \A j \in found : AtLeast(i, j) /\ (j < i => ~AtLeast(j, i))

\* find_best_action
NoAction == "none"
BestAction(c) == IF Candidates(c) = {} THEN NoAction ELSE entries[Best(c)].action

\* record
Record(c, action) ==
  /\ entries' = Append(entries, [context |-> c, action |-> action, status |-> "pending",
                                 downtime |-> 0, confidence |-> 50, count |-> 1,
                                 used |-> uses + 1])
  /\ uses' = uses + 1

Gain(downtime) == CASE downtime < 2 -> 8 [] downtime \in 2..5 -> 4 [] OTHER -> 1

Judged(conf, status, downtime) ==
  IF status = "success"
  THEN IF conf + Gain(downtime) <= 100 THEN conf + Gain(downtime) ELSE 100
  ELSE IF conf >= 15 THEN conf - 15 ELSE 0

\* update_result
UpdateResult(i, status, downtime) ==
  /\ uses < MaxUses
  /\ entries' = [entries EXCEPT
       ![i].status = status, ![i].downtime = downtime, ![i].count = @ + 1,
       ![i].used = uses + 1, ![i].confidence = Judged(@, status, downtime)]
  /\ uses' = uses + 1

\* What was last used after a time and is thought something of, in its order.
Kept(since) ==
  LET kept[i \in 0..Len(entries)] ==
        IF i = 0 THEN <<>>
        ELSE IF entries[i].used > since /\ entries[i].confidence >= 30
             THEN Append(kept[i - 1], entries[i])
             ELSE kept[i - 1]
  IN kept[Len(entries)]

\* apply_decay: what was last used long ago, and what little is thought of, goes.
Decay ==
  \E since \in {0} \cup {entries[i].used : i \in DOMAIN entries} :
    /\ entries' = Kept(since)
    /\ UNCHANGED uses

=============================================================================
