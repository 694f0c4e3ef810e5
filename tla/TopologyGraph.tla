--------------------------- MODULE TopologyGraph ---------------------------
(***************************************************************************)
(* The knowledge graph of ANO: servers and what they stand in, and the     *)
(* incidents recorded of them.  The causality engine reads it to name the  *)
(* cause of a failure, and writes each incident into it.  A thread of its  *)
(* own dumps the graph to a file, which a new process loads.               *)
(***************************************************************************)
EXTENDS Integers, Sequences, FiniteSets

CONSTANTS
  Servers,
  Places,       \* data centres, providers and autonomous systems
  NoFile, Torn, \* no snapshot; one whose writing was cut off
  MaxIncidents  \* bound on incidents

ASSUME IncidentsAssumption == MaxIncidents \in Nat

VARIABLES
  nodes,        \* node_type of a node, and of an incident its scope
  edges,        \* relation of a pair of nodes: a DiGraph has one edge for a pair
  file,         \* graph_snapshot.pkl
  dumping       \* the snapshot thread holds the lock

graphVars == <<nodes, edges, file, dumping>>

Incidents == 1..MaxIncidents
Ids       == Servers \cup Places \cup Incidents
Relations == {"located_in", "hosted_by", "belongs_to", "caused_by"}
Causes    == <<"server", "datacenter", "asn", "provider", "dpi">>
Scopes    == {Causes[i] : i \in DOMAIN Causes}
Node      == [type : {"server", "place", "incident", "none"}, scope : Scopes \cup {"none"}]

Untyped   == [type |-> "none", scope |-> "none"]

Graph      == [nodes |-> nodes, edges |-> edges]
EmptyGraph == [nodes |-> <<>>, edges |-> <<>>]

IsGraph(g) ==
  /\ DOMAIN g.nodes \subseteq Ids /\ \A n \in DOMAIN g.nodes : g.nodes[n] \in Node
  /\ \A e \in DOMAIN g.edges : {e[1], e[2]} \subseteq DOMAIN g.nodes
  /\ \A e \in DOMAIN g.edges : g.edges[e] \in Relations

GraphTypeOK ==
  /\ IsGraph(Graph)
  /\ file \in {NoFile, Torn} \/ IsGraph(file)
  /\ dumping \in BOOLEAN

-----------------------------------------------------------------------------
(* Reading.                                                                *)

Following(n, rel) == {m \in DOMAIN nodes : <<n, m>> \in DOMAIN edges /\ edges[<<n, m>>] = rel}

\* get_neighbors with depth 2
Neighbors(n, rel) ==
  LET near == Following(n, rel)
  IN (near \cup UNION {Following(m, rel) : m \in near}) \ {n}

\* The confidence calculators, in hundredths.
Least(x, y) == IF x <= y THEN x ELSE y

ServerIsolation(inDc)    == CASE inDc = 0 -> 30 [] inDc \in {1, 2} -> 70 [] OTHER -> 10
DcCorrelation(n)         == Least(80, 20 * n)
AsnCorrelation(n)        == Least(70, 15 * n)
ProviderCorrelation(n)   == Least(60, 12 * n)
DpiSignature(metrics) ==
  IF metrics.loss > 10 /\ metrics.rtt < 100 /\ metrics.jitter < 50 THEN 70
  ELSE IF metrics.loss > 5 /\ metrics.rtt < 80 THEN 40
  ELSE 5

\* The first of the causes with the highest confidence; dividing all by their
\* sum and sorting, which is stable, does not change which that is.
Blame(s, metrics) ==
  LET inDc  == Cardinality(Neighbors(s, "located_in"))
      score == <<ServerIsolation(inDc),
                 DcCorrelation(inDc),
                 AsnCorrelation(Cardinality(Neighbors(s, "belongs_to"))),
                 ProviderCorrelation(Cardinality(Neighbors(s, "hosted_by"))),
                 DpiSignature(metrics)>>
      first == CHOOSE i \in DOMAIN Causes :
                 \A j \in DOMAIN Causes : score[j] <= score[i] /\ (j < i => score[j] < score[i])
  IN Causes[first]

-----------------------------------------------------------------------------
(* Writing.                                                                *)

GraphInit ==
  /\ nodes = EmptyGraph.nodes
  /\ edges = EmptyGraph.edges
  /\ file = NoFile
  /\ dumping = FALSE

\* _load_snapshot: a file that cannot be read counts as an empty graph.
Loaded == IF file \in {NoFile, Torn} THEN EmptyGraph ELSE file

Load ==
  /\ nodes' = Loaded.nodes
  /\ edges' = Loaded.edges
  /\ dumping' = FALSE
  /\ UNCHANGED file

With(f, x, y) == [z \in DOMAIN f \cup {x} |-> IF z = x THEN y ELSE f[z]]

\* A node that is there keeps its type.
AddNode(n, node) ==
  /\ ~dumping
  /\ nodes' = IF n \in DOMAIN nodes THEN nodes ELSE With(nodes, n, node)
  /\ UNCHANGED <<edges, file, dumping>>

\* Slip: the server of an incident is taken to be there.
AddEdge_SourceOnly(n, m, rel) ==
  /\ ~dumping
  /\ edges' = With(edges, <<n, m>>, rel)
  /\ nodes' = IF n \in DOMAIN nodes THEN nodes ELSE With(nodes, n, Untyped)
  /\ UNCHANGED <<file, dumping>>

\* Nodes that are not there are added, without a type.  The edge there was
\* between the two, of whatever relation, is replaced.
AddEdge(n, m, rel) ==
  /\ ~dumping
  /\ edges' = With(edges, <<n, m>>, rel)
  /\ nodes' = [z \in DOMAIN nodes \cup {n, m} |->
                 IF z \in DOMAIN nodes THEN nodes[z] ELSE Untyped]
  /\ UNCHANGED <<file, dumping>>

\* What analyze writes of an incident, in this order.
AddIncident(i, s, metrics) == AddNode(i, [type |-> "incident", scope |-> Blame(s, metrics)])
AddCause(i, s)             == AddEdge(i, s, "caused_by")

\* snapshot_sync: the lock is held while the file, which opening it empties, is
\* written.
SnapshotOpen ==
  /\ ~dumping
  /\ dumping' = TRUE
  /\ file' = Torn
  /\ UNCHANGED <<nodes, edges>>

SnapshotWrite ==
  /\ dumping
  /\ dumping' = FALSE
  /\ file' = Graph
  /\ UNCHANGED <<nodes, edges>>

=============================================================================
