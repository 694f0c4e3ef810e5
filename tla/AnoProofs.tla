----------------------------- MODULE AnoProofs -----------------------------
(***************************************************************************)
(* What holds of the cognitive layer for every set of servers, places and  *)
(* contexts, any window and any interleaving of requests, callers, dumps   *)
(* and restarts: the types, that a server that stays slow is judged normal *)
(* once its samples fill the window, and that a decision nobody has tried  *)
(* is advised whatever is recorded after it.                               *)
(***************************************************************************)
EXTENDS Ano, FiniteSetTheorems, TLAPS

-----------------------------------------------------------------------------
(* Induction, with a set in the place of a predicate.                      *)

\* A set of numbers has a least one.
LEMMA LeastOf ==
  ASSUME NEW T, T \subseteq Nat, T # {}
  PROVE  \E n \in T : \A m \in T : n <= m
  <1>1. PICK n \in T : \A m \in T : <<m, n>> \notin OpToRel(<, Nat)
    BY NatLessThanWellFounded, WFMin
  <1>2. \A m \in T : ~(m < n)
    BY <1>1 DEF OpToRel
  <1> QED BY <1>2

\* What holds of 0, and of a number's successor with the number, holds of all.
LEMMA SetInduction ==
  ASSUME NEW F, 0 \in F, \A n \in Nat : n \in F => n + 1 \in F
  PROVE  Nat \subseteq F
  <1> DEFINE Bad == {n \in Nat : n \notin F}
  <1>1. SUFFICES ASSUME Bad # {} PROVE FALSE
    OBVIOUS
  <1>2. PICK n \in Bad : \A m \in Bad : n <= m
    <2>1. Bad \subseteq Nat
      OBVIOUS
    <2> HIDE DEF Bad
    <2> QED BY <1>1, <2>1, LeastOf
  <1>3. n # 0 /\ n - 1 \in Nat /\ n - 1 \notin Bad
    BY <1>2
  <1>4. n - 1 \in F
    BY <1>3
  <1>5. (n - 1) + 1 \in F
    BY <1>3, <1>4
  <1> QED BY <1>2, <1>3, <1>5

-----------------------------------------------------------------------------
(* The first of the best.                                                  *)

\* R is a total preorder on S: <<i, j>> \in R says that i is not below j.
IsRanking(R, S) ==
  /\ \A i, j \in S : <<i, j>> \in R \/ <<j, i>> \in R
  /\ \A i, j, k \in S : <<i, j>> \in R /\ <<j, k>> \in R => <<i, k>> \in R

IsFirstBest(i, R, S) ==
  i \in S /\ \A j \in S : <<i, j>> \in R /\ (j < i => <<j, i>> \notin R)

\* Of finitely many there is a best: one with the most below it.
LEMMA BestExists ==
  ASSUME NEW S, IsFiniteSet(S), S # {}, NEW R, IsRanking(R, S)
  PROVE  \E i \in S : \A j \in S : <<i, j>> \in R
  <1> DEFINE Below(i) == {j \in S : <<i, j>> \in R}
             Missing(i) == Cardinality(S) - Cardinality(Below(i))
             M == {Missing(i) : i \in S}
  <1>1. \A i \in S : IsFiniteSet(Below(i)) /\ Missing(i) \in Nat
    <2> SUFFICES ASSUME NEW i \in S PROVE IsFiniteSet(Below(i)) /\ Missing(i) \in Nat
      OBVIOUS
    <2>1. Below(i) \subseteq S
      OBVIOUS
    <2> HIDE DEF Below
    <2>2. IsFiniteSet(Below(i)) /\ Cardinality(Below(i)) <= Cardinality(S)
      BY <2>1, FS_Subset
    <2> QED BY <2>2, FS_CardinalityType
  <1>2. PICK i \in S : \A j \in S : Missing(i) <= Missing(j)
    <2>1. M \subseteq Nat /\ M # {}
      BY <1>1
    <2>2. PICK n \in M : \A m \in M : n <= m
      <3> HIDE DEF M
      <3> QED BY <2>1, LeastOf
    <2> QED BY <2>2
  <1>3. ASSUME NEW j \in S, <<i, j>> \notin R PROVE FALSE
    <2>1. <<j, i>> \in R /\ <<j, j>> \in R
      BY <1>3 DEF IsRanking
    <2>2. Below(i) \subseteq Below(j) /\ j \in Below(j) /\ j \notin Below(i)
      BY <1>3, <2>1 DEF IsRanking
    <2>3. Cardinality(Below(i)) < Cardinality(Below(j))
      <3>1. IsFiniteSet(Below(j)) /\ IsFiniteSet(Below(i))
        BY <1>1
      <3> HIDE DEF Below
      <3>2. Cardinality(Below(i)) \in Nat /\ Cardinality(Below(j)) \in Nat
        BY <3>1, FS_CardinalityType
      <3>3. Below(i) # Below(j)
        BY <2>2
      <3> QED BY <2>2, <3>1, <3>2, <3>3, FS_Subset
    <2>4. Cardinality(Below(i)) \in Nat /\ Cardinality(Below(j)) \in Nat /\ Cardinality(S) \in Nat
      <3> HIDE DEF Below
      <3> QED BY <1>1, FS_CardinalityType
    <2>5. Missing(i) <= Missing(j)
      BY <1>2
    <2> HIDE DEF Below
    <2> QED BY <2>3, <2>4, <2>5
  <1> QED BY <1>3

\* There is a first one among the best, and only one.
LEMMA FirstBestExists ==
  ASSUME NEW S, S \subseteq Nat, IsFiniteSet(S), S # {}, NEW R, IsRanking(R, S)
  PROVE  \E i \in S : IsFirstBest(i, R, S)
  <1> DEFINE Top == {i \in S : \A j \in S : <<i, j>> \in R}
  <1>1. PICK i \in Top : \A j \in Top : i <= j
    <2>1. Top \subseteq Nat /\ Top # {}
      BY BestExists
    <2> HIDE DEF Top
    <2> QED BY <2>1, LeastOf
  <1>2. ASSUME NEW j \in S, j < i PROVE <<j, i>> \notin R
    <2>1. PICK k \in S : <<j, k>> \notin R
      BY <1>1, <1>2
    <2> QED BY <1>1, <2>1 DEF IsRanking
  <1> QED BY <1>1, <1>2 DEF IsFirstBest

LEMMA FirstBestUnique ==
  ASSUME NEW S, S \subseteq Nat, NEW R,
         NEW i, IsFirstBest(i, R, S), NEW j, IsFirstBest(j, R, S)
  PROVE  i = j
  <1>1. i \in Nat /\ j \in Nat
    BY DEF IsFirstBest
  <1>2. ~(j < i) /\ ~(i < j)
    BY DEF IsFirstBest
  <1> QED BY <1>1, <1>2

-----------------------------------------------------------------------------
(* The sum of equal samples.  The fold is a function on the sets of indices, *)
(* defined by what it takes next.                                          *)

Chosen(s)        == CHOOSE i \in s : TRUE
Entry(t, w, s)   == IF s = {} THEN 0 ELSE w[Chosen(s)] + t[s \ {Chosen(s)}]
IsTable(t, w, D) == t = [s \in D |-> Entry(t, w, s)]

LEMMA SumIsEntry ==
  \A w : FoldSeq(+, 0, w) = (CHOOSE t : IsTable(t, w, SUBSET DOMAIN w))[DOMAIN w]
  BY DEF FoldSeq, FoldFunction, FoldFunctionOnSet, MapThenFoldSet, IsTable, Entry, Chosen

LEMMA SteadySum ==
  ASSUME NEW n \in Nat, NEW x \in Int, NEW w, DOMAIN w = 1..n, \A i \in 1..n : w[i] = x
  PROVE  FoldSeq(+, 0, w) = n * x
  <1> DEFINE S == 1..n
             g == [s \in SUBSET S |-> Cardinality(s) * x]
             t == CHOOSE f : IsTable(f, w, SUBSET S)
  <1>1. IsFiniteSet(S) /\ Cardinality(S) = n
    BY FS_Interval
  <1>2. \A s \in SUBSET S : IsFiniteSet(s) /\ Cardinality(s) \in Nat
    <2> HIDE DEF S
    <2> QED BY <1>1, FS_Subset, FS_CardinalityType
  <1>3. ASSUME NEW s \in SUBSET S, s # {}
        PROVE  /\ Chosen(s) \in s /\ w[Chosen(s)] = x
               /\ s \ {Chosen(s)} \in SUBSET S
               /\ Cardinality(s) - 1 \in Nat
               /\ Cardinality(s \ {Chosen(s)}) = Cardinality(s) - 1
    <2>1. Chosen(s) \in s
      BY <1>3 DEF Chosen
    <2>2. w[Chosen(s)] = x
      BY <2>1
    <2>3. Cardinality(s \ {Chosen(s)}) = Cardinality(s) - 1
      BY <1>2, <2>1, FS_RemoveElement
    <2>4. s \ {Chosen(s)} \in SUBSET S
      <3> HIDE DEF S
      <3> QED BY <1>3
    <2>5. Cardinality(s) - 1 \in Nat
      BY <1>2, <2>3, <2>4
    <2> QED BY <2>1, <2>2, <2>3, <2>4, <2>5
  <1>4. \A s \in SUBSET S : g[s] = Entry(g, w, s)
    <2> SUFFICES ASSUME NEW s \in SUBSET S PROVE g[s] = Entry(g, w, s)
      OBVIOUS
    <2>1. CASE s = {}
      BY <2>1, FS_EmptySet DEF Entry
    <2>2. CASE s # {}
      <3>1. Entry(g, w, s) = x + (Cardinality(s) - 1) * x
        BY <1>3, <2>2 DEF Entry
      <3>2. x + (Cardinality(s) - 1) * x = Cardinality(s) * x
        BY <1>2
      <3> QED BY <3>1, <3>2
    <2> QED BY <2>1, <2>2
  <1>5. IsTable(g, w, SUBSET S)
    BY <1>4 DEF IsTable
  <1>6. IsTable(t, w, SUBSET S)
    <2> HIDE DEF S, g
    <2> QED BY <1>5
  <1> DEFINE F == {k \in Nat : \A s \in SUBSET S : Cardinality(s) = k => t[s] = k * x}
  <1>7. 0 \in F
    <2> SUFFICES ASSUME NEW s \in SUBSET S, Cardinality(s) = 0 PROVE t[s] = 0 * x
      OBVIOUS
    <2>1. s = {}
      BY <1>2, FS_EmptySet
    <2>2. t[s] = Entry(t, w, s)
      <3> HIDE DEF t, S
      <3> QED BY <1>6 DEF IsTable
    <2> HIDE DEF t
    <2> QED BY <2>1, <2>2 DEF Entry
  <1>8. ASSUME NEW k \in Nat, k \in F PROVE k + 1 \in F
    <2>1. ASSUME NEW s \in SUBSET S, Cardinality(s) = k + 1 PROVE t[s] = (k + 1) * x
      <3>1. s # {}
        BY <2>1, FS_EmptySet
      <3>2. t[s] = Entry(t, w, s)
        <4> HIDE DEF t, S
        <4> QED BY <1>6 DEF IsTable
      <3> HIDE DEF t
      <3>3. t[s \ {Chosen(s)}] = k * x
        BY <1>3, <1>8, <2>1, <3>1
      <3>4. t[s] = x + k * x
        BY <1>3, <3>1, <3>2, <3>3 DEF Entry
      <3> QED BY <3>4
    <2> HIDE DEF t
    <2>2. k + 1 \in Nat
      OBVIOUS
    <2> QED BY <2>1, <2>2
  <1>9. n \in F
    <2> HIDE DEF F
    <2> QED BY <1>7, <1>8, SetInduction
  <1>10. t[S] = n * x
    <2> HIDE DEF t
    <2> QED BY <1>1, <1>9
  <1> QED BY <1>10, SumIsEntry

-----------------------------------------------------------------------------
(* What decay keeps, a function on the decisions looked at so far.         *)

KeptEntry(t, since, i) ==
  IF i = 0 THEN <<>>
  ELSE IF entries[i].used > since /\ entries[i].confidence >= 30
       THEN Append(t[i - 1], entries[i])
       ELSE t[i - 1]

IsKeptTable(t, since, n) == t = [i \in 0..n |-> KeptEntry(t, since, i)]

LEMMA KeptIsEntry ==
  \A since : Kept(since) = (CHOOSE t : IsKeptTable(t, since, Len(entries)))[Len(entries)]
  BY DEF Kept, IsKeptTable, KeptEntry

LEMMA KeptTableExists ==
  ASSUME NEW since
  PROVE  \A n \in Nat : \E t : IsKeptTable(t, since, n)
  <1> DEFINE F == {n \in Nat : \E t : IsKeptTable(t, since, n)}
  <1>1. 0 \in F
    <2>1. IsKeptTable([i \in 0..0 |-> <<>>], since, 0)
      BY DEF IsKeptTable, KeptEntry
    <2> QED BY <2>1
  <1>2. ASSUME NEW n \in Nat, n \in F PROVE n + 1 \in F
    <2>1. PICK t : IsKeptTable(t, since, n)
      BY <1>2
    <2> DEFINE next == [i \in 0..(n + 1) |-> KeptEntry(t, since, i)]
    <2>2. \A i \in 0..n : next[i] = t[i]
      <3>1. \A i \in 0..n : t[i] = KeptEntry(t, since, i)
        BY <2>1 DEF IsKeptTable
      <3> QED BY <3>1
    <2>3. \A i \in 0..(n + 1) : KeptEntry(next, since, i) = KeptEntry(t, since, i)
      <3> HIDE DEF next
      <3>1. \A i \in 0..(n + 1) : i = 0 \/ i - 1 \in 0..n
        OBVIOUS
      <3> QED BY <2>2, <3>1 DEF KeptEntry
    <2>4. IsKeptTable(next, since, n + 1)
      BY <2>3 DEF IsKeptTable
    <2> QED BY <2>4
  <1>3. Nat \subseteq F
    <2> HIDE DEF F
    <2> QED BY <1>1, <1>2, SetInduction
  <1> QED BY <1>3

\* No decision is new, and there are no more than before.
LEMMA KeptType ==
  ASSUME NEW D, entries \in Seq(D), NEW since
  PROVE  Kept(since) \in Seq(D) /\ Len(Kept(since)) <= Len(entries)
  <1> DEFINE N == Len(entries)
             t == CHOOSE f : IsKeptTable(f, since, N)
  <1>1. N \in Nat
    OBVIOUS
  <1>2. IsKeptTable(t, since, N)
    <2> HIDE DEF N
    <2> QED BY <1>1, KeptTableExists
  <1> HIDE DEF t
  <1>3. \A i \in 0..N : t[i] = KeptEntry(t, since, i)
    BY <1>2 DEF IsKeptTable
  <1> DEFINE F == {n \in Nat : n <= N => t[n] \in Seq(D) /\ Len(t[n]) <= n}
  <1>4. 0 \in F
    <2>1. 0 \in 0..N
      BY <1>1
    <2>2. t[0] = <<>>
      BY <1>3, <2>1 DEF KeptEntry
    <2>3. t[0] \in Seq(D) /\ Len(t[0]) <= 0
      BY <2>2
    <2> QED BY <2>3
  <1>5. ASSUME NEW n \in Nat, n \in F, n + 1 <= N PROVE t[n + 1] \in Seq(D) /\ Len(t[n + 1]) <= n + 1
    <2>1. t[n] \in Seq(D) /\ Len(t[n]) <= n
      BY <1>5
    <2>2. t[n + 1] = Append(t[n], entries[n + 1]) \/ t[n + 1] = t[n]
      <3>1. n + 1 \in 0..N /\ n + 1 # 0 /\ (n + 1) - 1 = n
        BY <1>1, <1>5
      <3> QED BY <1>3, <3>1 DEF KeptEntry
    <2>3. entries[n + 1] \in D
      BY <1>5
    <2>4. Append(t[n], entries[n + 1]) \in Seq(D) /\ Len(Append(t[n], entries[n + 1])) = Len(t[n]) + 1
      BY <2>1, <2>3
    <2>5. Len(t[n]) \in Nat
      BY <2>1
    <2>6. CASE t[n + 1] = Append(t[n], entries[n + 1])
      BY <2>1, <2>4, <2>5, <2>6
    <2>7. CASE t[n + 1] = t[n]
      BY <2>1, <2>5, <2>7
    <2> QED BY <2>2, <2>6, <2>7
  <1>6. N \in F
    <2>1. \A n \in Nat : n \in F => n + 1 \in F
      BY <1>5
    <2> HIDE DEF F
    <2> QED BY <1>1, <1>4, <2>1, SetInduction
  <1>7. t[N] \in Seq(D) /\ Len(t[N]) <= N
    BY <1>1, <1>6
  <1>8. Kept(since) = t[N]
    BY KeptIsEntry DEF t
  <1> QED BY <1>7, <1>8

-----------------------------------------------------------------------------
(* The graph.  The finiteness of its nodes makes the counts numbers that the *)
(* scores of the causes are computed from.                                 *)

Finite(g) == IsFiniteSet(DOMAIN g.nodes)

GraphInv ==
  /\ GraphTypeOK
  /\ Finite(Graph)
  /\ file \in {NoFile, Torn} \/ Finite(file)

LEMMA InitGraph == GraphInit => GraphInv
  <1> SUFFICES ASSUME GraphInit PROVE GraphInv
    OBVIOUS
  <1>1. nodes = <<>> /\ edges = <<>> /\ DOMAIN nodes = {} /\ DOMAIN edges = {}
    BY DEF GraphInit, EmptyGraph
  <1>2. IsGraph(Graph)
    BY <1>1 DEF IsGraph, Graph
  <1>3. Finite(Graph)
    BY <1>1, FS_EmptySet DEF Finite, Graph
  <1> QED BY <1>2, <1>3 DEF GraphInit, GraphInv, GraphTypeOK

LEMMA LoadKeeps ==
  ASSUME GraphInv, Load PROVE GraphInv'
  <1>1. IsGraph(Loaded) /\ Finite(Loaded)
    <2>1. CASE file \in {NoFile, Torn}
      <3>1. DOMAIN EmptyGraph.nodes = {} /\ DOMAIN EmptyGraph.edges = {} /\ Loaded = EmptyGraph
        BY <2>1 DEF Loaded, EmptyGraph
      <3> QED BY <3>1, FS_EmptySet DEF IsGraph, Finite
    <2>2. CASE file \notin {NoFile, Torn}
      BY <2>2 DEF Loaded, GraphInv, GraphTypeOK
    <2> QED BY <2>1, <2>2
  <1>2. Graph' = [nodes |-> Loaded.nodes, edges |-> Loaded.edges]
    BY DEF Load, Graph
  <1>3. IsGraph(Graph') /\ Finite(Graph')
    BY <1>1, <1>2 DEF IsGraph, Finite
  <1> QED BY <1>3 DEF Load, GraphInv, GraphTypeOK

LEMMA AddNodeKeeps ==
  ASSUME GraphInv, NEW n \in Ids, NEW node \in Node, AddNode(n, node) PROVE GraphInv'
  <1>1. /\ DOMAIN nodes \subseteq Ids /\ \A z \in DOMAIN nodes : nodes[z] \in Node
        /\ \A e \in DOMAIN edges : {e[1], e[2]} \subseteq DOMAIN nodes
        /\ \A e \in DOMAIN edges : edges[e] \in Relations
        /\ IsFiniteSet(DOMAIN nodes)
    BY DEF GraphInv, GraphTypeOK, IsGraph, Finite, Graph
  <1>2. /\ DOMAIN nodes' = DOMAIN nodes \cup {n}
        /\ \A z \in DOMAIN nodes' : nodes'[z] \in Node
    BY <1>1 DEF AddNode, With
  <1>3. IsFiniteSet(DOMAIN nodes')
    BY <1>1, <1>2, FS_AddElement
  <1>4. IsGraph(Graph') /\ Finite(Graph')
    BY <1>1, <1>2, <1>3 DEF IsGraph, Finite, Graph, AddNode
  <1> QED BY <1>4 DEF AddNode, GraphInv, GraphTypeOK

LEMMA AddEdgeKeeps ==
  ASSUME GraphInv, NEW n \in Ids, NEW m \in Ids, NEW rel \in Relations, AddEdge(n, m, rel)
  PROVE  GraphInv'
  <1>1. /\ DOMAIN nodes \subseteq Ids /\ \A z \in DOMAIN nodes : nodes[z] \in Node
        /\ \A e \in DOMAIN edges : {e[1], e[2]} \subseteq DOMAIN nodes
        /\ \A e \in DOMAIN edges : edges[e] \in Relations
        /\ IsFiniteSet(DOMAIN nodes)
    BY DEF GraphInv, GraphTypeOK, IsGraph, Finite, Graph
  <1>2. Untyped \in Node
    BY DEF Untyped, Node
  <1>3. /\ DOMAIN nodes' = (DOMAIN nodes \cup {n}) \cup {m}
        /\ \A z \in DOMAIN nodes' : nodes'[z] \in Node
    BY <1>1, <1>2 DEF AddEdge
  <1>4. /\ DOMAIN edges' = DOMAIN edges \cup {<<n, m>>}
        /\ \A e \in DOMAIN edges' : edges'[e] \in Relations
    BY <1>1 DEF AddEdge, With
  <1>5. IsFiniteSet(DOMAIN nodes')
    <2>1. IsFiniteSet(DOMAIN nodes \cup {n})
      BY <1>1, FS_AddElement
    <2> QED BY <1>3, <2>1, FS_AddElement
  <1>6. IsGraph(Graph') /\ Finite(Graph')
    BY <1>1, <1>3, <1>4, <1>5 DEF IsGraph, Finite, Graph
  <1> QED BY <1>6 DEF AddEdge, GraphInv, GraphTypeOK

LEMMA DumpKeeps ==
  ASSUME GraphInv, SnapshotOpen \/ SnapshotWrite PROVE GraphInv'
  <1>1. Graph' = Graph
    BY DEF SnapshotOpen, SnapshotWrite, Graph
  <1>2. IsGraph(Graph') /\ Finite(Graph')
    BY <1>1 DEF GraphInv, GraphTypeOK
  <1>3. file' \in {NoFile, Torn} \/ (IsGraph(file') /\ Finite(file'))
    <2>1. CASE SnapshotOpen
      BY <2>1 DEF SnapshotOpen
    <2>2. CASE SnapshotWrite
      BY <1>1, <1>2, <2>2 DEF SnapshotWrite
    <2> QED BY <2>1, <2>2
  <1> QED BY <1>2, <1>3 DEF SnapshotOpen, SnapshotWrite, GraphInv, GraphTypeOK

LEMMA GraphStays ==
  ASSUME GraphInv, UNCHANGED graphVars PROVE GraphInv'
  BY DEF graphVars, GraphInv, GraphTypeOK, Graph, IsGraph, Finite

\* The cause an analysis names is one of the five.
LEMMA BlameIsCause ==
  ASSUME GraphInv, NEW s, NEW metrics PROVE Blame(s, metrics) \in Scopes
  <1>1. ASSUME NEW n, NEW rel PROVE Cardinality(Neighbors(n, rel)) \in Nat
    <2>1. Neighbors(n, rel) \subseteq DOMAIN nodes
      BY DEF Neighbors, Following
    <2>2. IsFiniteSet(DOMAIN nodes)
      BY DEF GraphInv, Finite, Graph
    <2> QED BY <2>1, <2>2, FS_Subset, FS_CardinalityType
  <1> DEFINE inDc  == Cardinality(Neighbors(s, "located_in"))
             score == <<ServerIsolation(inDc),
                        DcCorrelation(inDc),
                        AsnCorrelation(Cardinality(Neighbors(s, "belongs_to"))),
                        ProviderCorrelation(Cardinality(Neighbors(s, "hosted_by"))),
                        DpiSignature(metrics)>>
             R == {p \in (1..5) \X (1..5) : score[p[2]] <= score[p[1]]}
  <1>2. \A i \in 1..5 : score[i] \in Int
    <2>1. DpiSignature(metrics) \in Int
      BY DEF DpiSignature
    <2>2. ServerIsolation(inDc) \in Int
      BY DEF ServerIsolation
    <2>3. DcCorrelation(inDc) \in Int /\ AsnCorrelation(Cardinality(Neighbors(s, "belongs_to"))) \in Int
            /\ ProviderCorrelation(Cardinality(Neighbors(s, "hosted_by"))) \in Int
      BY <1>1 DEF DcCorrelation, AsnCorrelation, ProviderCorrelation, Least
    <2> HIDE DEF inDc
    <2> QED BY <2>1, <2>2, <2>3
  <1> HIDE DEF score
  <1>3. \A i, j \in 1..5 : <<i, j>> \in R <=> score[j] <= score[i]
    OBVIOUS
  <1>4. PICK i \in 1..5 : IsFirstBest(i, R, 1..5)
    <2>1. IsRanking(R, 1..5)
      BY <1>2, <1>3 DEF IsRanking
    <2>2. IsFiniteSet(1..5)
      <3>1. PICK n \in Nat : n = 5
        OBVIOUS
      <3>2. IsFiniteSet(1..n)
        BY FS_Interval
      <3> QED BY <3>1, <3>2
    <2>3. (1..5) \subseteq Nat /\ 1 \in 1..5
      OBVIOUS
    <2> HIDE DEF R
    <2> QED BY <2>1, <2>2, <2>3, FirstBestExists
  <1>5. \A j \in 1..5 : score[j] <= score[i] /\ (j < i => score[j] < score[i])
    BY <1>2, <1>3, <1>4 DEF IsFirstBest
  <1>6. DOMAIN Causes = 1..5
    BY DEF Causes
  <1> DEFINE first == CHOOSE k \in DOMAIN Causes :
                        \A j \in DOMAIN Causes : score[j] <= score[k] /\ (j < k => score[j] < score[k])
  <1>7. first \in DOMAIN Causes
    BY <1>5, <1>6
  <1>8. Blame(s, metrics) = Causes[first]
    BY DEF Blame, score
  <1> QED BY <1>7, <1>8 DEF Scopes

-----------------------------------------------------------------------------
(* The decisions.                                                          *)

\* A decision after n records and outcomes.  One that is pending is as it was
\* recorded: there was no outcome that could change it.
Sound(n) ==
  {d \in Decision :
     /\ d.count <= n + 1
     /\ d.status = "pending" => d.confidence = 50 /\ d.count = 1 /\ d.downtime = 0}

DecisionInv ==
  /\ entries \in Seq(Sound(uses)) /\ Len(entries) <= uses
  /\ uses \in 0..MaxUses

LEMMA DecisionTypes == DecisionInv => DecisionTypeOK
  <1> SUFFICES ASSUME DecisionInv PROVE DecisionTypeOK
    OBVIOUS
  <1>1. \A n : Sound(n) \subseteq Decision
    BY DEF Sound
  <1> HIDE DEF Sound
  <1>2. entries \in Seq(Decision)
    BY <1>1 DEF DecisionInv
  <1> QED BY <1>2 DEF DecisionInv, DecisionTypeOK

\* Time makes no decision unsound.
LEMMA SoundStays ==
  ASSUME DecisionInv
  PROVE  entries \in Seq(Sound(uses + 1))
  <1>1. Sound(uses) \subseteq Sound(uses + 1)
    <2> SUFFICES ASSUME NEW d \in Sound(uses) PROVE d \in Sound(uses + 1)
      OBVIOUS
    <2>1. d \in Decision /\ d.count <= uses + 1 /\ uses \in Nat /\ d.count \in Nat
      BY MaxUsesAssumption DEF Sound, DecisionInv, Decision
    <2>2. d.count <= (uses + 1) + 1
      BY <2>1
    <2> QED BY <2>1, <2>2 DEF Sound
  <1> QED BY <1>1 DEF DecisionInv

LEMMA RecordKeeps ==
  ASSUME DecisionInv, uses < MaxUses, NEW c \in Contexts, NEW action \in Actions, Record(c, action)
  PROVE  DecisionInv'
  <1> DEFINE new == [context |-> c, action |-> action, status |-> "pending", downtime |-> 0,
                     confidence |-> 50, count |-> 1, used |-> uses + 1]
  <1>1. uses \in Nat /\ uses + 1 \in 0..MaxUses /\ MaxUses \in Nat
    BY MaxUsesAssumption DEF DecisionInv
  <1>2. new \in Decision
    BY <1>1, DowntimesAssumption DEF Decision, Statuses
  <1>3. new \in Sound(uses + 1)
    BY <1>1, <1>2 DEF Sound
  <1>4. entries' = Append(entries, new) /\ uses' = uses + 1
    BY DEF Record
  <1> HIDE DEF new
  <1>5. entries' \in Seq(Sound(uses')) /\ Len(entries') = Len(entries) + 1
    BY <1>3, <1>4, SoundStays
  <1> QED BY <1>1, <1>4, <1>5, SoundStays DEF DecisionInv

LEMMA UpdateKeeps ==
  ASSUME DecisionInv, NEW i \in DOMAIN entries, NEW status \in {"success", "failed"},
         NEW downtime \in Downtimes, UpdateResult(i, status, downtime)
  PROVE  DecisionInv' /\ Len(entries') = Len(entries)
  <1> DEFINE new == [entries[i] EXCEPT !.status = status, !.downtime = downtime, !.count = @ + 1,
                                       !.used = uses + 1,
                                       !.confidence = Judged(@, status, downtime)]
  <1>1. uses \in Nat /\ uses + 1 \in 0..MaxUses /\ MaxUses \in Nat
    BY MaxUsesAssumption DEF DecisionInv, UpdateResult
  <1>2. entries[i] \in Decision /\ entries[i].count <= uses + 1
    <2>1. entries[i] \in Sound(uses)
      BY DEF DecisionInv
    <2> QED BY <2>1 DEF Sound
  <1>3. Judged(entries[i].confidence, status, downtime) \in 0..100
    <2>1. entries[i].confidence \in 0..100
      BY <1>2 DEF Decision
    <2>2. Gain(downtime) \in {8, 4, 1}
      BY DEF Gain
    <2> QED BY <2>1, <2>2 DEF Judged
  <1>4. entries[i].count + 1 \in 1..(MaxUses + 1) /\ entries[i].count + 1 <= (uses + 1) + 1
    BY <1>1, <1>2 DEF Decision
  <1>5. new \in Decision
    BY <1>1, <1>2, <1>3, <1>4 DEF Decision, Statuses
  <1>6. new.count = entries[i].count + 1 /\ new.status = status
    BY <1>2 DEF Decision
  <1>7. new \in Sound(uses + 1)
    <2> HIDE DEF new
    <2> QED BY <1>4, <1>5, <1>6 DEF Sound
  <1>8. Len(entries') = Len(entries) /\ entries'[i] = new /\ uses' = uses + 1
          /\ \A j \in DOMAIN entries : j # i => entries'[j] = entries[j]
    BY DEF UpdateResult
  <1> HIDE DEF new
  <1>9. entries' \in Seq(Sound(uses')) /\ Len(entries') = Len(entries)
    <2>1. entries' = [entries EXCEPT ![i] = new]
      BY <1>8 DEF UpdateResult
    <2> HIDE DEF Sound
    <2> QED BY <1>7, <1>8, <2>1, SoundStays
  <1> QED BY <1>1, <1>8, <1>9 DEF DecisionInv

LEMMA DecayKeeps ==
  ASSUME DecisionInv, Decay
  PROVE  DecisionInv' /\ entries' \in Seq(Sound(uses)) /\ Len(entries') <= Len(entries)
  <1>1. PICK since : entries' = Kept(since) /\ UNCHANGED uses
    BY DEF Decay
  <1>2. entries' \in Seq(Sound(uses)) /\ Len(entries') <= Len(entries)
    BY <1>1, KeptType DEF DecisionInv
  <1>3. Len(entries') \in Nat /\ Len(entries) \in Nat /\ uses \in Nat
    BY <1>2 DEF DecisionInv
  <1> QED BY <1>1, <1>2, <1>3 DEF DecisionInv

LEMMA ForgottenKeeps ==
  ASSUME DecisionInv, entries' = <<>>, UNCHANGED uses PROVE DecisionInv'
  BY DEF DecisionInv

LEMMA DecisionsStay ==
  ASSUME DecisionInv, UNCHANGED decisionVars PROVE DecisionInv'
  BY DEF DecisionInv, decisionVars

-----------------------------------------------------------------------------
(* The ranking of the decisions.  Scores are compared by multiplying the one *)
(* with the other's downtime; that is transitive although scores are quotients. *)

LEMMA Cross ==
  ASSUME NEW a \in Nat, NEW b \in Nat, NEW c \in Nat,
         NEW x \in Nat \ {0}, NEW y \in Nat \ {0}, NEW z \in Nat \ {0},
         a * y >= b * x, b * z >= c * y
  PROVE  a * z >= c * x
  <1>1. \A p, q, r \in Nat : p >= q => p * r >= q * r
    OBVIOUS
  <1>2. \A p, q \in Nat, r \in Nat \ {0} : p < q => p * r < q * r
    OBVIOUS
  <1>3. (a * y) * z >= (b * x) * z /\ (b * z) * x >= (c * y) * x
    <2>1. a * y \in Nat /\ b * x \in Nat /\ b * z \in Nat /\ c * y \in Nat
      OBVIOUS
    <2> QED BY <1>1, <2>1
  <1>4. (a * y) * z = (a * z) * y /\ (b * x) * z = (b * z) * x /\ (c * y) * x = (c * x) * y
    OBVIOUS
  <1>5. a * z \in Nat /\ c * x \in Nat /\ (a * z) * y \in Nat /\ (c * x) * y \in Nat
        /\ (b * z) * x \in Nat
    OBVIOUS
  <1>6. ~((a * z) * y < (c * x) * y)
    BY <1>3, <1>4, <1>5
  <1> QED BY <1>2, <1>5, <1>6

Score(i) == entries[i].confidence * entries[i].count
Wait(i)  == 1 + entries[i].downtime

LEMMA ScoreTypes ==
  ASSUME DecisionInv, NEW i \in DOMAIN entries
  PROVE  Score(i) \in Nat /\ Wait(i) \in Nat \ {0}
  <1>1. entries[i] \in Decision
    <2>1. entries[i] \in Sound(uses)
      BY DEF DecisionInv
    <2> QED BY <2>1 DEF Sound
  <1>2. entries[i].confidence \in 0..100 /\ entries[i].count \in 1..(MaxUses + 1)
          /\ entries[i].downtime \in Downtimes
    BY <1>1 DEF Decision
  <1>3. entries[i].confidence \in Nat /\ entries[i].count \in Nat
    BY <1>2, MaxUsesAssumption
  <1>4. entries[i].downtime \in Nat
    BY <1>2, DowntimesAssumption
  <1> QED BY <1>3, <1>4 DEF Score, Wait

Ranking(S) == {p \in S \X S : AtLeast(p[1], p[2])}

LEMMA ScoresRank ==
  ASSUME DecisionInv, NEW S \in SUBSET DOMAIN entries
  PROVE  IsRanking(Ranking(S), S)
  <1>1. \A i, j \in S : <<i, j>> \in Ranking(S) <=> Score(i) * Wait(j) >= Score(j) * Wait(i)
    BY DEF Ranking, AtLeast, Score, Wait
  <1>2. \A i \in S : Score(i) \in Nat /\ Wait(i) \in Nat \ {0}
    BY ScoreTypes
  <1>3. ASSUME NEW i \in S, NEW j \in S
        PROVE  Score(i) * Wait(j) >= Score(j) * Wait(i) \/ Score(j) * Wait(i) >= Score(i) * Wait(j)
    <2>1. Score(i) * Wait(j) \in Nat /\ Score(j) * Wait(i) \in Nat
      BY <1>2
    <2> QED BY <2>1
  <1>4. ASSUME NEW i \in S, NEW j \in S, NEW k \in S,
               Score(i) * Wait(j) >= Score(j) * Wait(i), Score(j) * Wait(k) >= Score(k) * Wait(j)
        PROVE  Score(i) * Wait(k) >= Score(k) * Wait(i)
    BY <1>2, <1>4, Cross
  <1> QED BY <1>1, <1>3, <1>4 DEF IsRanking

\* What find_best_action takes is the first of the best candidates.
LEMMA BestIsFirst ==
  ASSUME DecisionInv, NEW c, Candidates(c) # {}
  PROVE  /\ Best(c) \in Candidates(c)
         /\ \A j \in Candidates(c) :
              AtLeast(Best(c), j) /\ (j < Best(c) => ~AtLeast(j, Best(c)))
  <1> DEFINE S == Candidates(c)
  <1>1. S \subseteq DOMAIN entries /\ DOMAIN entries = 1..Len(entries) /\ Len(entries) \in Nat
    BY DEF Candidates, DecisionInv
  <1>2. S \subseteq Nat /\ IsFiniteSet(S) /\ S # {}
    <2>1. IsFiniteSet(1..Len(entries))
      BY <1>1, FS_Interval
    <2>2. S # {}
      OBVIOUS
    <2> HIDE DEF S
    <2> QED BY <1>1, <2>1, <2>2, FS_Subset
  <1>3. PICK i \in S : IsFirstBest(i, Ranking(S), S)
    <2> HIDE DEF S
    <2>1. IsRanking(Ranking(S), S)
      BY <1>1, ScoresRank
    <2> QED BY <1>2, <2>1, FirstBestExists
  <1>4. \A j \in S : AtLeast(i, j) /\ (j < i => ~AtLeast(j, i))
    BY <1>3 DEF IsFirstBest, Ranking
  <1> HIDE DEF S
  <1>5. Best(c) = CHOOSE k \in S : \A j \in S : AtLeast(k, j) /\ (j < k => ~AtLeast(j, k))
    BY DEF Best, S
  <1> QED BY <1>4, <1>5 DEF S

-----------------------------------------------------------------------------
(* The samples.                                                            *)

\* The last of a server's samples, as many as run says, are equal.
Steady(h, n) == n <= Len(h) /\ \A i \in 1..Len(h) : i > Len(h) - n => h[i] = Last(h)

SamplesInv ==
  /\ history \in [Servers -> Seq(Metrics)]
  /\ run \in [Servers -> 0..Window]
  /\ \A s \in Servers : Len(history[s]) <= Window /\ Steady(history[s], run[s])

LEMMA SampleAdded ==
  ASSUME NEW h \in Seq(Metrics), Len(h) <= Window, NEW n \in 0..Window, Steady(h, n),
         NEW m \in Metrics, NEW k \in 0..Window,
         k <= 1 \/ (k <= n + 1 /\ h # <<>> /\ Last(h) = m)
  PROVE  /\ AddSample(h, m) \in Seq(Metrics) /\ Len(AddSample(h, m)) <= Window
         /\ Steady(AddSample(h, m), k)
  <1>1. Len(h) \in Nat /\ Window \in Nat /\ Window > 1 /\ k \in Nat /\ n \in Nat
    BY WindowAssumption
  <1>2. CASE Len(h) < Window
    <2> DEFINE g == Append(h, m)
    <2>1. AddSample(h, m) = g
      BY <1>2 DEF AddSample
    <2>2. /\ g \in Seq(Metrics) /\ Len(g) = Len(h) + 1
          /\ g[Len(h) + 1] = m /\ \A i \in 1..Len(h) : g[i] = h[i]
      OBVIOUS
    <2> HIDE DEF g
    <2>3. Last(g) = m
      BY <2>2 DEF Last
    <2>4. ASSUME NEW i \in 1..Len(g), i > Len(g) - k PROVE g[i] = m
      <3>1. CASE i = Len(h) + 1
        BY <2>2, <3>1
      <3>2. CASE i # Len(h) + 1
        <4>1. i \in 1..Len(h)
          BY <1>1, <2>2, <3>2
        <4>2. k > 1
          BY <1>1, <2>2, <2>4, <4>1
        <4>3. i > Len(h) - n /\ Last(h) = m
          BY <1>1, <2>2, <2>4, <4>1, <4>2
        <4> QED BY <2>2, <4>1, <4>3 DEF Steady
      <3> QED BY <3>1, <3>2
    <2>5. k <= Len(g) /\ Len(g) <= Window
      BY <1>1, <1>2, <2>2 DEF Steady
    <2> QED BY <2>1, <2>2, <2>3, <2>4, <2>5 DEF Steady
  <1>3. CASE Len(h) = Window
    <2> DEFINE g == Append(Tail(h), m)
    <2>1. AddSample(h, m) = g
      BY <1>1, <1>3 DEF AddSample
    <2>2. h # <<>>
      BY <1>1, <1>3
    <2>3. Tail(h) \in Seq(Metrics) /\ Len(Tail(h)) = Len(h) - 1
            /\ \A i \in 1..(Len(h) - 1) : Tail(h)[i] = h[i + 1]
      BY <2>2
    <2>4. /\ g \in Seq(Metrics) /\ Len(g) = Len(h)
          /\ g[Len(h)] = m /\ \A i \in 1..(Len(h) - 1) : g[i] = h[i + 1]
      BY <1>1, <2>3
    <2> HIDE DEF g
    <2>5. Last(g) = m
      BY <2>4 DEF Last
    <2>6. ASSUME NEW i \in 1..Len(g), i > Len(g) - k PROVE g[i] = m
      <3>1. CASE i = Len(h)
        BY <2>4, <3>1
      <3>2. CASE i # Len(h)
        <4>1. i \in 1..(Len(h) - 1) /\ i + 1 \in 1..Len(h)
          BY <1>1, <2>4, <3>2
        <4>2. k > 1
          BY <1>1, <2>4, <2>6, <4>1
        <4>3. i + 1 > Len(h) - n /\ Last(h) = m
          BY <1>1, <2>4, <2>6, <4>1, <4>2
        <4>4. h[i + 1] = m
          BY <4>1, <4>3 DEF Steady
        <4> QED BY <2>4, <4>1, <4>4
      <3> QED BY <3>1, <3>2
    <2>7. k <= Len(g) /\ Len(g) <= Window
      BY <1>1, <1>3, <2>4
    <2> QED BY <2>1, <2>4, <2>5, <2>6, <2>7 DEF Steady
  <1> QED BY <1>1, <1>2, <1>3

\* A server's samples are steady once they fill the window: then there is no trend.
LEMMA SteadyIsNormal ==
  ASSUME NEW h \in Seq(Metrics), Len(h) <= Window, Steady(h, Window), Last(h).loss = 0
  PROVE  Forecast(h) = "normal"
  <1>1. /\ BaseLength \in Nat \ {0} /\ Window \in Nat /\ BaseLength < Window
        /\ Len(h) = Window /\ Len(h) \in Nat
    BY WindowAssumption DEF Steady
  <1> DEFINE now  == Last(h)
             base == SubSeq(h, 1, BaseLength)
             rtts == [i \in DOMAIN base |-> base[i].rtt]
             jitters == [i \in DOMAIN base |-> base[i].jitter]
  <1>2. \A i \in 1..Window : h[i] = now
    BY <1>1 DEF Steady
  <1>3. base \in Seq(Metrics) /\ Len(base) = BaseLength /\ DOMAIN base = 1..BaseLength
          /\ \A i \in 1..BaseLength : base[i] = now
    BY <1>1, <1>2
  <1>4. now \in Metrics
    BY <1>1, <1>2
  <1>5. now.rtt \in Int /\ now.jitter \in Int
    BY <1>4, MetricsAssumption
  <1> HIDE DEF now, base
  <1>6. ASSUME NEW w, NEW x \in Int, DOMAIN w = 1..BaseLength, Len(w) = BaseLength,
               \A i \in 1..BaseLength : w[i] = x
        PROVE  Trend(x, w) = 0
    <2>1. FoldSeq(+, 0, w) = BaseLength * x
      BY <1>1, <1>6, SteadySum
    <2>2. BaseLength * x \in Int
      BY <1>1
    <2>3. Len(w) * x = BaseLength * x
      BY <1>6
    <2> DEFINE sum == FoldSeq(+, 0, w)
    <2>4. sum = BaseLength * x
      BY <2>1
    <2>5. Trend(x, w) = CASE Len(w) * x > sum -> 1 [] Len(w) * x < sum -> -1 [] OTHER -> 0
      BY DEF Trend
    <2> HIDE DEF sum
    <2>6. ~(Len(w) * x > sum) /\ ~(Len(w) * x < sum)
      BY <2>2, <2>3, <2>4
    <2> QED BY <2>5, <2>6
  <1>7. DOMAIN rtts = 1..BaseLength /\ Len(rtts) = BaseLength
          /\ \A i \in 1..BaseLength : rtts[i] = now.rtt
    BY <1>1, <1>3
  <1>8. DOMAIN jitters = 1..BaseLength /\ Len(jitters) = BaseLength
          /\ \A i \in 1..BaseLength : jitters[i] = now.jitter
    BY <1>1, <1>3
  <1> HIDE DEF rtts, jitters
  <1>9. Trend(now.rtt, rtts) = 0 /\ Trend(now.jitter, jitters) = 0
    BY <1>5, <1>6, <1>7, <1>8
  <1>10. Degrades(h) = (0 + Trend(now.rtt, rtts) + Trend(now.jitter, jitters) >= 1)
    <2>1. now.loss = 0
      BY DEF now
    <2> QED BY <2>1 DEF Degrades, now, base, rtts, jitters
  <1>11. ~Degrades(h)
    <2>1. ~(0 + 0 + 0 >= 1)
      OBVIOUS
    <2> QED BY <1>9, <1>10, <2>1
  <1> QED BY <1>11 DEF Forecast

-----------------------------------------------------------------------------
(* The inductive invariant.                                                *)

\* An analysis under way leaves room for its decision: no outcome comes before it.
AnalysisInv ==
  /\ analysis \in Analysis \cup {Nobody}
  /\ analysis # Nobody => uses < MaxUses
  /\ incidents \in 0..MaxIncidents
  /\ added \in 0..MaxAdded

Inv == GraphInv /\ DecisionInv /\ SamplesInv /\ AnalysisInv

LEMMA InvTypes == Inv => TypeOK
  BY DecisionTypes DEF Inv, GraphInv, SamplesInv, AnalysisInv, TypeOK

LEMMA InitInv == Init => Inv
  <1> SUFFICES ASSUME Init PROVE Inv
    OBVIOUS
  <1>1. GraphInv
    BY InitGraph DEF Init
  <1>2. DecisionInv
    BY MaxUsesAssumption DEF Init, DecisionInit, DecisionInv
  <1>3. SamplesInv
    BY WindowAssumption DEF Init, SamplesInv, Steady
  <1>4. AnalysisInv
    BY IncidentsAssumption, MaxAddedAssumption DEF Init, AnalysisInv
  <1> QED BY <1>1, <1>2, <1>3, <1>4 DEF Inv

LEMMA SamplesStay ==
  ASSUME SamplesInv, UNCHANGED <<history, run>> PROVE SamplesInv'
  BY DEF SamplesInv

\* A forecast is one of the three recommendations.
LEMMA ForecastType == \A h : Forecast(h) \in Actions
  BY DEF Forecast, Actions

LEMMA BeginKeeps ==
  ASSUME Inv, NEW s \in Servers, NEW m \in Metrics, NEW c \in Contexts, AnalyzeBegin(s, m, c)
  PROVE  Inv'
  <1>1. incidents + 1 \in Incidents /\ incidents + 1 \in 0..MaxIncidents
    BY IncidentsAssumption DEF AnalyzeBegin, Inv, AnalysisInv, Incidents
  <1>2. GraphInv'
    <2>1. Blame(s, m) \in Scopes
      BY BlameIsCause DEF Inv
    <2>2. [type |-> "incident", scope |-> Blame(s, m)] \in Node /\ incidents + 1 \in Ids
      BY <1>1, <2>1 DEF Node, Ids
    <2> QED BY <2>2, AddNodeKeeps DEF AnalyzeBegin, AddIncident, Inv
  <1>3. DecisionInv'
    BY DecisionsStay DEF AnalyzeBegin, Inv
  <1>4. SamplesInv'
    <2> DEFINE h == history[s]
               k == IF h # <<>> /\ Last(h) = m THEN Least(Window, run[s] + 1) ELSE 1
    <2>1. h \in Seq(Metrics) /\ Len(h) <= Window /\ run[s] \in 0..Window /\ Steady(h, run[s])
      BY DEF Inv, SamplesInv
    <2>2. k \in 0..Window /\ (k <= 1 \/ (k <= run[s] + 1 /\ h # <<>> /\ Last(h) = m))
      BY <2>1, WindowAssumption DEF Least
    <2>3. history' = [history EXCEPT ![s] = AddSample(h, m)] /\ run' = [run EXCEPT ![s] = k]
      BY DEF AnalyzeBegin
    <2> HIDE DEF h, k
    <2>4. AddSample(h, m) \in Seq(Metrics) /\ Len(AddSample(h, m)) <= Window
            /\ Steady(AddSample(h, m), k)
      BY <2>1, <2>2, SampleAdded
    <2> QED BY <2>2, <2>3, <2>4 DEF Inv, SamplesInv
  <1>5. AnalysisInv'
    BY <1>1 DEF AnalyzeBegin, Inv, AnalysisInv, Analysis, decisionVars
  <1> QED BY <1>2, <1>3, <1>4, <1>5 DEF Inv

LEMMA EndKeeps ==
  ASSUME Inv, AnalyzeEnd PROVE Inv'
  <1>1. analysis \in Analysis /\ uses < MaxUses
    BY DEF AnalyzeEnd, Inv, AnalysisInv
  <1>2. GraphInv'
    <2>1. analysis.incident \in Ids /\ analysis.server \in Ids /\ "caused_by" \in Relations
      BY <1>1 DEF Analysis, Ids, Relations
    <2> QED BY <2>1, AddEdgeKeeps DEF AnalyzeEnd, AddCause, Inv
  <1>3. DecisionInv'
    <2>1. analysis.context \in Contexts
      BY <1>1 DEF Analysis
    <2> QED BY <1>1, <2>1, RecordKeeps, ForecastType DEF AnalyzeEnd, EvaluateProposal, Inv
  <1>4. SamplesInv'
    BY SamplesStay DEF AnalyzeEnd, Inv
  <1>5. AnalysisInv'
    BY DEF AnalyzeEnd, Inv, AnalysisInv
  <1> QED BY <1>2, <1>3, <1>4, <1>5 DEF Inv

LEMMA PlaceKeeps ==
  ASSUME Inv, PlaceServer PROVE Inv'
  <1>1. GraphInv'
    <2>1. ASSUME NEW s \in Servers, AddNode(s, [type |-> "server", scope |-> "none"]) PROVE GraphInv'
      <3>1. s \in Ids /\ [type |-> "server", scope |-> "none"] \in Node
        BY DEF Ids, Node
      <3> QED BY <2>1, <3>1, AddNodeKeeps DEF Inv
    <2>2. ASSUME NEW e \in Hosting, AddEdge(e.from, e.to, e.relation) PROVE GraphInv'
      <3>1. e.from \in Ids /\ e.to \in Ids /\ e.relation \in Relations
        BY HostingAssumption DEF Ids
      <3> QED BY <2>2, <3>1, AddEdgeKeeps DEF Inv
    <2> QED BY <2>1, <2>2 DEF PlaceServer
  <1>2. DecisionInv'
    BY DecisionsStay DEF PlaceServer, Inv
  <1>3. SamplesInv'
    BY SamplesStay DEF PlaceServer, Inv
  <1>4. AnalysisInv'
    BY MaxAddedAssumption DEF PlaceServer, Inv, AnalysisInv
  <1> QED BY <1>1, <1>2, <1>3, <1>4 DEF Inv

LEMMA OutcomeKeeps ==
  ASSUME Inv, Outcome PROVE Inv' /\ Len(entries') = Len(entries)
  <1>1. DecisionInv' /\ Len(entries') = Len(entries)
    BY UpdateKeeps DEF Outcome, Inv
  <1>2. GraphInv' /\ SamplesInv'
    BY GraphStays, SamplesStay DEF Outcome, Inv
  <1>3. AnalysisInv'
    BY DEF Outcome, Inv, AnalysisInv
  <1> QED BY <1>1, <1>2, <1>3 DEF Inv

LEMMA ForgetKeeps ==
  ASSUME Inv, Forget PROVE Inv' /\ Len(entries') <= Len(entries)
  <1>1. DecisionInv' /\ Len(entries') <= Len(entries)
    BY DecayKeeps DEF Forget, Inv
  <1>2. GraphInv' /\ SamplesInv'
    BY GraphStays, SamplesStay DEF Forget, Inv
  <1>3. AnalysisInv'
    BY DEF Forget, Inv, AnalysisInv
  <1> QED BY <1>1, <1>2, <1>3 DEF Inv

LEMMA ClearKeeps ==
  ASSUME Inv, NEW s \in Servers, ClearHistory(s) PROVE Inv'
  <1>1. GraphInv' /\ DecisionInv'
    BY GraphStays, DecisionsStay DEF ClearHistory, Inv
  <1>2. SamplesInv'
    <2>1. Steady(<<>>, 0) /\ 0 \in 0..Window /\ Len(<<>>) <= Window
      BY WindowAssumption DEF Steady
    <2> QED BY <2>1 DEF ClearHistory, Inv, SamplesInv
  <1>3. AnalysisInv'
    BY DEF ClearHistory, Inv, AnalysisInv, decisionVars
  <1> QED BY <1>1, <1>2, <1>3 DEF Inv

LEMMA DumpInv ==
  ASSUME Inv, Dump PROVE Inv'
  <1>1. GraphInv' /\ DecisionInv' /\ SamplesInv'
    BY DumpKeeps, DecisionsStay, SamplesStay DEF Dump, Inv
  <1>2. AnalysisInv'
    BY DEF Dump, Inv, AnalysisInv, decisionVars
  <1> QED BY <1>1, <1>2 DEF Inv

LEMMA RestartKeeps ==
  ASSUME Inv, Restart PROVE Inv'
  <1>1. GraphInv' /\ DecisionInv'
    BY LoadKeeps, ForgottenKeeps DEF Restart, Inv
  <1>2. SamplesInv'
    <2>1. Steady(<<>>, 0) /\ 0 \in 0..Window /\ Len(<<>>) <= Window
      BY WindowAssumption DEF Steady
    <2> QED BY <2>1 DEF Restart, SamplesInv
  <1>3. AnalysisInv'
    BY DEF Restart, Inv, AnalysisInv
  <1> QED BY <1>1, <1>2, <1>3 DEF Inv

LEMMA NextInv == Inv /\ [Next]_vars => Inv'
  <1> SUFFICES ASSUME Inv, [Next]_vars PROVE Inv'
    OBVIOUS
  <1>1. CASE UNCHANGED vars
    <2>1. UNCHANGED graphVars /\ UNCHANGED decisionVars /\ UNCHANGED <<history, run>>
            /\ UNCHANGED <<analysis, incidents, added, uses>>
      BY <1>1 DEF vars, decisionVars
    <2>2. AnalysisInv'
      BY <2>1 DEF Inv, AnalysisInv
    <2> QED BY <2>1, <2>2, GraphStays, DecisionsStay, SamplesStay DEF Inv
  <1>2. ASSUME NEW s \in Servers, NEW m \in Metrics, NEW c \in Contexts, AnalyzeBegin(s, m, c)
        PROVE  Inv'
    BY <1>2, BeginKeeps
  <1>3. CASE AnalyzeEnd
    BY <1>3, EndKeeps
  <1>4. CASE PlaceServer
    BY <1>4, PlaceKeeps
  <1>5. CASE Outcome
    BY <1>5, OutcomeKeeps
  <1>6. CASE Forget
    BY <1>6, ForgetKeeps
  <1>7. ASSUME NEW s \in Servers, ClearHistory(s) PROVE Inv'
    BY <1>7, ClearKeeps
  <1>8. CASE Dump
    BY <1>8, DumpInv
  <1>9. CASE Restart
    BY <1>9, RestartKeeps
  <1> QED BY <1>1, <1>2, <1>3, <1>4, <1>5, <1>6, <1>7, <1>8, <1>9 DEF Next

THEOREM Invariance == Spec => []Inv
  BY InitInv, NextInv, PTL DEF Spec

\* Type correctness of the cognitive layer: the graph stays a graph through edges
\* to servers nobody has placed, cut off dumps and restarts, and every analysis
\* names a cause (GraphEngine.add_edge and _load_snapshot, CausalityEngine.analyze).
THEOREM TypeCorrect == Spec => []TypeOK
  BY Invariance, InvTypes, PTL

\* For every window and every baseline shorter than it, a server whose samples
\* have all been the same for a window is judged normal if it loses nothing,
\* however slow it is (PredictiveEngine.analyze and add_sample).
THEOREM SlowLooksNormal == Spec => []SteadyLooksNormal
  <1>1. Inv => SteadyLooksNormal
    <2> SUFFICES ASSUME Inv, NEW s \in Servers, run[s] = Window, Last(history[s]).loss = 0
                 PROVE  Forecast(history[s]) = "normal"
      BY DEF SteadyLooksNormal
    <2> QED BY SteadyIsNormal DEF Inv, SamplesInv
  <1> QED BY <1>1, Invariance, PTL

-----------------------------------------------------------------------------
(* What is advised.                                                        *)

\* No longer sequence comes of a step that adds nothing.
LEMMA NotLonger ==
  ASSUME NEW S, NEW e \in Seq(S), NEW D, NEW f \in Seq(D), Len(f) <= Len(e)
  PROVE  ~IsStrictPrefix(e, f)
  <1> SUFFICES ASSUME IsStrictPrefix(e, f) PROVE FALSE
    OBVIOUS
  <1>1. Len(e) = Len(f) /\ SubSeq(e, 1, Len(e)) = SubSeq(f, 1, Len(e)) /\ e # f
    BY DEF IsStrictPrefix, IsPrefix
  <1>2. SubSeq(e, 1, Len(e)) = e /\ SubSeq(f, 1, Len(f)) = f
    OBVIOUS
  <1> QED BY <1>1, <1>2

\* A new decision scores what an untried one does, and comes after it.
LEMMA RecordedAfter ==
  ASSUME DecisionInv, NEW d \in Contexts, NEW action \in Actions, Record(d, action),
         NEW c, Untried(c)
  PROVE  BestAction(c)' = BestAction(c)
  <1> DEFINE Now == Candidates(c)
             Then == Candidates(c)'
             Beats(i, j) == entries'[i].confidence * entries'[i].count * (1 + entries'[j].downtime)
                              >= entries'[j].confidence * entries'[j].count * (1 + entries'[i].downtime)
             Is(i) == i \in Then /\ \A j \in Then : Beats(i, j) /\ (j < i => ~Beats(j, i))
  <1>1. PICK b : b = Best(c)
    OBVIOUS
  <1>2. b \in Now /\ \A j \in Now : AtLeast(b, j) /\ (j < b => ~AtLeast(j, b))
    BY <1>1, BestIsFirst DEF Untried
  <1>3. PICK n \in Nat : n = Len(entries)
    BY DEF DecisionInv
  <1>4. DOMAIN entries = 1..n /\ DOMAIN entries' = 1..(n + 1)
          /\ (\A i \in 1..n : entries'[i] = entries[i])
          /\ entries'[n + 1].confidence = 50 /\ entries'[n + 1].count = 1
          /\ entries'[n + 1].downtime = 0
    BY <1>3 DEF DecisionInv, Record
  <1>5. b \in 1..n /\ entries[b].confidence = 50 /\ entries[b].count = 1 /\ entries[b].downtime = 0
    <2>1. b \in 1..n /\ entries[b].status = "pending"
      BY <1>1, <1>2, <1>4 DEF Candidates, Untried
    <2>2. entries[b] \in Sound(uses)
      BY <1>3, <2>1 DEF DecisionInv
    <2> QED BY <2>1, <2>2 DEF Sound
  <1>6. \A i, j \in 1..n : Beats(i, j) <=> AtLeast(i, j)
    BY <1>4 DEF AtLeast
  <1>7. Beats(b, n + 1) /\ ~(n + 1 < b)
    <2>1. entries'[b].confidence = 50 /\ entries'[b].count = 1 /\ entries'[b].downtime = 0
      BY <1>4, <1>5
    <2> QED BY <1>4, <1>5, <2>1
  <1>8. Then \subseteq Now \cup {n + 1}
    BY <1>4 DEF Candidates
  <1>9. Now \subseteq 1..n /\ Now \subseteq Then
    BY <1>4 DEF Candidates
  <1>10. Best(c)' = CHOOSE i : Is(i)
    BY DEF Best, AtLeast
  <1>11. BestAction(c) = entries[b].action
    BY <1>1 DEF BestAction, Untried
  <1>12. Then # {} => BestAction(c)' = entries'[Best(c)'].action
    BY DEF BestAction
  <1> HIDE DEF Now, Then, Beats
  <1>13. Is(b)
    <2>1. ASSUME NEW j \in Then PROVE Beats(b, j) /\ (j < b => ~Beats(j, b))
      <3>1. CASE j = n + 1
        BY <1>7, <3>1
      <3>2. CASE j \in Now
        BY <1>2, <1>5, <1>6, <1>9, <3>2
      <3> QED BY <1>8, <3>1, <3>2
    <2> QED BY <1>2, <1>9, <2>1
  <1>14. ASSUME NEW i, Is(i) PROVE i = b
    <2>1. i \in Nat /\ b \in Nat
      BY <1>5, <1>8, <1>9, <1>14
    <2>2. ~(i < b) /\ ~(b < i)
      BY <1>13, <1>14
    <2> QED BY <2>1, <2>2
  <1>15. Best(c)' = b
    <2> HIDE DEF Is
    <2> QED BY <1>10, <1>13, <1>14
  <1> QED BY <1>2, <1>4, <1>5, <1>9, <1>11, <1>12, <1>15

\* Whatever is recorded after it, a decision nobody has tried is advised for as
\* long as it is there (DecisionMemory.find_best_action and record).
THEOREM UntriedSticks == Spec => UntriedAdviceSticks
  <1>1. ASSUME Inv, [Next]_vars, IsStrictPrefix(entries, entries'), NEW c \in Contexts, Untried(c)
        PROVE  BestAction(c)' = BestAction(c)
    <2>1. ASSUME Len(entries') <= Len(entries), Inv' PROVE FALSE
      BY <1>1, <2>1, NotLonger DEF Inv, DecisionInv
    <2>2. Inv'
      BY <1>1, NextInv
    <2>3. CASE AnalyzeEnd
      <3>1. analysis.context \in Contexts
        BY <1>1, <2>3 DEF AnalyzeEnd, Inv, AnalysisInv, Analysis
      <3> QED BY <1>1, <2>3, <3>1, RecordedAfter, ForecastType DEF AnalyzeEnd, EvaluateProposal, Inv
    <2>4. CASE entries' = entries
      BY <1>1, <2>4 DEF IsStrictPrefix
    <2>5. CASE Outcome
      BY <1>1, <2>1, <2>2, <2>5, OutcomeKeeps DEF Inv, DecisionInv
    <2>6. CASE Forget
      BY <1>1, <2>1, <2>2, <2>6, ForgetKeeps
    <2>7. CASE Restart
      BY <1>1, <2>1, <2>2, <2>7 DEF Restart, Inv, DecisionInv
    <2>8. ASSUME ~AnalyzeEnd, ~Outcome, ~Forget, ~Restart PROVE entries' = entries
      BY <1>1, <2>8 DEF Next, vars, decisionVars, AnalyzeBegin, PlaceServer, ClearHistory, Dump
    <2> QED BY <2>3, <2>4, <2>5, <2>6, <2>7, <2>8
  <1>2. Inv /\ [Next]_vars =>
          [IsStrictPrefix(entries, entries') =>
             \A c \in Contexts : Untried(c) => BestAction(c)' = BestAction(c)]_vars
    BY <1>1
  <1> QED BY <1>2, Invariance, PTL DEF Spec, UntriedAdviceSticks

=============================================================================
