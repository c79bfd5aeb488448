--------------------------- MODULE RepositoryProofs ---------------------------
(***************************************************************************)
(* Theorems about RevisionGraph.tla and Repository.tla, for every universe *)
(* of Seals (the derived graph: also an infinite one), every set of names  *)
(* and every stopping point.  About the graph no induction is needed:      *)
(* reachability is the least closed set, and acyclicity says that every    *)
(* set of nodes has a sink.  The inductive invariant of the repository is  *)
(* TypeOK with Resolvable (what is named can be read) and DraftClosed; the *)
(* action properties follow from it and from the facts about the graph.    *)
(***************************************************************************)
EXTENDS Repository, TLAPS

-----------------------------------------------------------------------------
(* Reachability.                                                           *)

(* What reaches is a Seal. *)
LEMMA ReachIsSeals ==
    ASSUME NEW E, NEW T
    PROVE  Reach(E, T) \subseteq Seal
BY DEF Reach

(* The start is reached. *)
LEMMA ReachStarts ==
    ASSUME NEW E, NEW T \in SUBSET Seal
    PROVE  T \subseteq Reach(E, T)
BY DEF Reach

(* What is reached is closed under the edges that stay among Seals. *)
LEMMA ReachCloses ==
    ASSUME NEW E, NEW T, NEW s \in Reach(E, T), NEW t \in Seal, <<s, t>> \in E
    PROVE  t \in Reach(E, T)
<1>1. SUFFICES ASSUME NEW S \in SUBSET Seal, T \subseteq S,
                      \A e \in E : e[1] \in S => e[2] \in S
               PROVE  t \in S
  BY DEF Reach
<1>2. s \in S
  BY <1>1 DEF Reach
<1>3. <<s, t>>[1] \in S => <<s, t>>[2] \in S
  BY <1>1
<1> QED BY <1>2, <1>3

(* It is the least such set. *)
LEMMA ReachIsLeast ==
    ASSUME NEW E, NEW T, NEW S \in SUBSET Seal, T \subseteq S,
           \A e \in E : e[1] \in S => e[2] \in S
    PROVE  Reach(E, T) \subseteq S
BY DEF Reach

(* More edges or more starting points reach no less. *)
LEMMA ReachIsMonotone ==
    ASSUME NEW E, NEW F, NEW T, NEW U, E \subseteq F, T \subseteq U
    PROVE  Reach(E, T) \subseteq Reach(F, U)
BY DEF Reach

(* Nothing is reached from nowhere. *)
LEMMA ReachFromNothing ==
    ASSUME NEW E
    PROVE  Reach(E, {}) = {}
<1>1. Reach(E, {}) \subseteq {}
  BY ReachIsLeast
<1> QED BY <1>1

-----------------------------------------------------------------------------
(* Bodies and edges.                                                       *)

LEMMA LinksAreSeals ==
    ASSUME NEW s \in Seal
    PROVE  /\ Targets(s) \subseteq Seal
           /\ Asserted(s) \subseteq Seal
           /\ \A l \in Body[s].links : l.target \in Seal /\ l.previous \in SUBSET Seal
<1>1. Body[s] \in SealBody
  BY BodyAssumption
<1>2. \A l \in Body[s].links : l \in CauseLink
  BY <1>1 DEF SealBody
<1> QED BY <1>2 DEF CauseLink, Targets, Asserted

LEMMA CauseEdge ==
    ASSUME NEW nodes, NEW s \in nodes, NEW t \in Targets(s)
    PROVE  <<s, t>> \in CauseEdges(nodes)
BY DEF CauseEdges

LEMMA CauseEdgeEnds ==
    ASSUME NEW nodes, NEW e \in CauseEdges(nodes)
    PROVE  \E s \in nodes : \E t \in Targets(s) : e = <<s, t>>
BY DEF CauseEdges

(* A head and what its Links name are nodes of the graph. *)
LEMMA NodesAreClosed ==
    ASSUME NEW H \in SUBSET Seal
    PROVE  /\ Nodes(H) \subseteq Seal
           /\ H \subseteq Nodes(H)
           /\ \A s \in Nodes(H) : Targets(s) \cup Asserted(s) \subseteq Nodes(H)
<1> DEFINE E == UNION {{s} \X (Targets(s) \cup Asserted(s)) : s \in Seal}
<1>1. Nodes(H) = Reach(E, H)
  BY DEF Nodes
<1>2. Nodes(H) \subseteq Seal /\ H \subseteq Nodes(H)
  BY <1>1, ReachIsSeals, ReachStarts
<1>3. ASSUME NEW s \in Nodes(H), NEW t \in Targets(s) \cup Asserted(s)
      PROVE  t \in Nodes(H)
  <2>1. s \in Seal /\ t \in Seal
    BY <1>2, LinksAreSeals
  <2>2. <<s, t>> \in E
    BY <2>1, <1>3
  <2> QED BY <1>1, <1>3, <2>1, <2>2, ReachCloses
<1> QED BY <1>2, <1>3

(* Fewer heads, fewer nodes. *)
LEMMA NodesAreMonotone ==
    ASSUME NEW H, NEW K, H \subseteq K
    PROVE  Nodes(H) \subseteq Nodes(K)
BY ReachIsMonotone DEF Nodes

(* Fewer nodes and edges cannot close a cycle. *)
LEMMA AcyclicIsAntitone ==
    ASSUME NEW M, NEW N, NEW E, NEW F, M \subseteq N, E \subseteq F, IsAcyclic(N, F)
    PROVE  IsAcyclic(M, E)
BY DEF IsAcyclic

-----------------------------------------------------------------------------
(* The graph a command builds.                                             *)

LEMMA GraphIsGraphOf ==
    ASSUME NEW H \in SUBSET Seal
    PROVE  Graph(H) = GraphOf(H)
<1>1. \A K : GraphOf(K).heads = K
  BY DEF GraphOf
<1>2. GraphOf(H) \in Graphs /\ GraphOf(H).heads = H
  BY <1>1 DEF Graphs
<1>3. \A g \in Graphs : g.heads = H => g = GraphOf(H)
  BY <1>1 DEF Graphs
<1> QED BY <1>2, <1>3 DEF Graph

LEMMA GraphFields ==
    ASSUME NEW H \in SUBSET Seal
    PROVE  /\ Graph(H).heads = H
           /\ Graph(H).nodes = Nodes(H)
           /\ Graph(H).revisions = RevisionEdges(Nodes(H))
           /\ Graph(H).acyclic =
                 IsAcyclic(Nodes(H), CauseEdges(Nodes(H)) \cup RevisionEdges(Nodes(H)))
           /\ Graph(H).active = Reach(RevisionEdges(Nodes(H)), H)
           /\ Graph(H).leaves = Leaves(Reach(RevisionEdges(Nodes(H)), H),
                                       RevisionEdges(Nodes(H)))
<1>1. Graph(H) = GraphOf(H)
  BY GraphIsGraphOf
<1>2. GraphOf(H).heads = H /\ GraphOf(H).nodes = Nodes(H)
  BY DEF GraphOf
<1>3. GraphOf(H).revisions = RevisionEdges(Nodes(H))
  BY DEF GraphOf
<1>4. GraphOf(H).acyclic = IsAcyclic(Nodes(H), CauseEdges(Nodes(H)) \cup RevisionEdges(Nodes(H)))
  BY Zenon DEF GraphOf
<1>5. GraphOf(H).active = Reach(RevisionEdges(Nodes(H)), H)
  BY DEF GraphOf
<1>6. GraphOf(H).leaves = Leaves(Reach(RevisionEdges(Nodes(H)), H), RevisionEdges(Nodes(H)))
  BY DEF GraphOf
<1> QED BY <1>1, <1>2, <1>3, <1>4, <1>5, <1>6, Zenon

LEMMA CauseClosureIs ==
    ASSUME NEW s \in Seal
    PROVE  CauseClosure(s) = Reach(CauseEdges(Seal), Targets(s))
<1> DEFINE entry(t) == [seal |-> t, causes |-> Reach(CauseEdges(Seal), Targets(t))]
<1>1. entry(s) \in CauseClosures /\ entry(s).seal = s
  BY DEF CauseClosures
<1>2. \A c \in CauseClosures : c.seal = s => c = entry(s)
  BY DEF CauseClosures
<1>3. (CHOOSE c \in CauseClosures : c.seal = s) = entry(s)
  BY <1>1, <1>2
<1>4. entry(s).causes = Reach(CauseEdges(Seal), Targets(s))
  OBVIOUS
<1>5. CauseClosure(s) = (CHOOSE c \in CauseClosures : c.seal = s).causes
  BY DEF CauseClosure
<1> HIDE DEF entry
<1> QED BY <1>3, <1>4, <1>5, Zenon

(* Dropping heads from a graph that has no cycle closes none. *)
LEMMA FewerHeadsStayAcyclic ==
    ASSUME NEW K \in SUBSET Seal, NEW H \in SUBSET K, Graph(K).acyclic
    PROVE  Graph(H).acyclic /\ Graph(H).nodes \subseteq Graph(K).nodes
<1>1. H \in SUBSET Seal /\ Nodes(H) \subseteq Nodes(K)
  BY NodesAreMonotone
<1>2. CauseEdges(Nodes(H)) \subseteq CauseEdges(Nodes(K))
  BY <1>1 DEF CauseEdges
<1>3. RevisionEdges(Nodes(H)) \subseteq RevisionEdges(Nodes(K))
  BY <1>1 DEF RevisionEdges
<1>4. IsAcyclic(Nodes(K), CauseEdges(Nodes(K)) \cup RevisionEdges(Nodes(K)))
  BY GraphFields
<1>5. IsAcyclic(Nodes(H), CauseEdges(Nodes(H)) \cup RevisionEdges(Nodes(H)))
  BY <1>1, <1>2, <1>3, <1>4, AcyclicIsAntitone
<1> QED BY <1>1, <1>5, GraphFields

-----------------------------------------------------------------------------
(* Cause closures.                                                         *)

LEMMA CauseClosureCloses ==
    ASSUME NEW s \in Seal
    PROVE  /\ CauseClosure(s) \subseteq Seal
           /\ Targets(s) \subseteq CauseClosure(s)
           /\ \A t \in CauseClosure(s) : Targets(t) \subseteq CauseClosure(s)
<1>1. CauseClosure(s) = Reach(CauseEdges(Seal), Targets(s))
  BY CauseClosureIs
<1>2. CauseClosure(s) \subseteq Seal
  BY <1>1, ReachIsSeals
<1>3. Targets(s) \subseteq CauseClosure(s)
  BY <1>1, LinksAreSeals, ReachStarts
<1>4. ASSUME NEW t \in CauseClosure(s), NEW u \in Targets(t)
      PROVE  u \in CauseClosure(s)
  <2>1. t \in Seal /\ u \in Seal
    BY <1>2, LinksAreSeals
  <2>2. <<t, u>> \in CauseEdges(Seal)
    BY <2>1, CauseEdge
  <2> QED BY <1>1, <2>1, <2>2, ReachCloses
<1> QED BY <1>2, <1>3, <1>4

(* A set that holds the Causes of s and of each of its members holds the   *)
(* whole closure of s.                                                     *)
LEMMA CauseClosureIsLeast ==
    ASSUME NEW s \in Seal, NEW S \in SUBSET Seal, Targets(s) \subseteq S,
           \A t \in S : Targets(t) \subseteq S
    PROVE  CauseClosure(s) \subseteq S
<1>1. \A e \in CauseEdges(Seal) : e[1] \in S => e[2] \in S
  BY CauseEdgeEnds
<1>2. Reach(CauseEdges(Seal), Targets(s)) \subseteq S
  BY <1>1, ReachIsLeast
<1> QED BY <1>2, CauseClosureIs

(* A root rests on nothing. *)
LEMMA RootHasNoCauses ==
    ASSUME NEW s \in Seal, Body[s].root
    PROVE  Targets(s) = {} /\ CauseClosure(s) = {}
<1>1. Targets(s) = {}
  BY BodyAssumption DEF Canonical, Targets
<1> QED BY <1>1, CauseClosureIs, ReachFromNothing

(* Whatever a Seal rests on, it rests on through one of its Causes. *)
LEMMA CauseClosureSplits ==
    ASSUME NEW s \in Seal, NEW u \in CauseClosure(s)
    PROVE  \E t \in Targets(s) : u = t \/ u \in CauseClosure(t)
<1> DEFINE S == {v \in Seal : \E t \in Targets(s) : v = t \/ v \in CauseClosure(t)}
<1>1. Targets(s) \subseteq S
  BY LinksAreSeals
<1>2. ASSUME NEW v \in S, NEW w \in Targets(v)
      PROVE  w \in S
  <2>1. PICK t \in Targets(s) : v = t \/ v \in CauseClosure(t)
    BY <1>2
  <2>2. t \in Seal /\ v \in Seal /\ w \in Seal
    BY <1>2, LinksAreSeals
  <2>3. w \in CauseClosure(t)
    BY <1>2, <2>1, <2>2, CauseClosureCloses
  <2> QED BY <2>1, <2>2, <2>3
<1>3. CauseClosure(s) \subseteq S
  BY <1>1, <1>2, CauseClosureIsLeast
<1> QED BY <1>3

-----------------------------------------------------------------------------
(* Staleness.                                                              *)

(* A current walk stays inside the Cause closure. *)
LEMMA CurrentWalkInClosure ==
    ASSUME NEW H \in SUBSET Seal, NEW h \in Seal
    PROVE  CurrentWalk(Graph(H), h) \subseteq CauseClosure(h)
<1>1. Graph(H).leaves \subseteq Seal
  BY GraphFields, ReachIsSeals DEF Leaves
<1>2. CauseEdges(Graph(H).leaves) \subseteq CauseEdges(Seal)
  BY <1>1 DEF CauseEdges
<1> QED BY <1>2, CauseClosureIs, ReachIsMonotone DEF CurrentWalk

(* The three stale facts, taken together, say exactly that the head or     *)
(* some Seal it rests on is not an active leaf, although the transitive    *)
(* walk stops at the first such Seal (revision_graph.go staleFacts).       *)
THEOREM StaleFactsAreComplete ==
    ASSUME NEW H \in SUBSET Seal, NEW h \in H
    PROVE  IsStale(Graph(H), h) <=> ({h} \cup CauseClosure(h)) \ Graph(H).leaves # {}
<1> DEFINE g == Graph(H)
<1>1. h \in Seal /\ h \in g.active
  <2>1. h \in Reach(RevisionEdges(Nodes(H)), H)
    BY ReachStarts
  <2>2. g.active = Reach(RevisionEdges(Nodes(H)), H)
    BY GraphFields, Zenon
  <2> QED BY <2>1, <2>2
<1>2. Targets(h) \subseteq CauseClosure(h) /\ CauseClosure(h) \subseteq Seal
  BY <1>1, CauseClosureCloses
<1>3. ASSUME IsStale(g, h) PROVE ({h} \cup CauseClosure(h)) \ g.leaves # {}
  <2>1. CASE StaleSelf(g, h)
    BY <2>1 DEF StaleSelf
  <2>2. CASE StaleDirect(g, h) # {}
    BY <1>2, <2>2 DEF StaleDirect
  <2>3. CASE StaleTransitive(g, h) # {}
    <3>1. CurrentWalk(g, h) \ g.leaves # {}
      BY <2>3 DEF StaleTransitive
    <3> QED BY <1>1, <3>1, CurrentWalkInClosure
  <2> QED BY <1>3, <2>1, <2>2, <2>3 DEF IsStale
<1>4. ASSUME ~IsStale(g, h) PROVE ({h} \cup CauseClosure(h)) \ g.leaves = {}
  <2>1. h \in g.leaves /\ Targets(h) \subseteq g.leaves
    BY <1>1, <1>4 DEF IsStale, StaleSelf, StaleDirect
  <2>2. CurrentWalk(g, h) \subseteq g.leaves
    BY <1>4 DEF IsStale, StaleTransitive
  <2>3. CurrentWalk(g, h) \subseteq Seal /\ Targets(h) \subseteq CurrentWalk(g, h)
    BY <1>1, LinksAreSeals, ReachIsSeals, ReachStarts DEF CurrentWalk
  <2>4. ASSUME NEW t \in CurrentWalk(g, h), NEW u \in Targets(t)
        PROVE  u \in CurrentWalk(g, h)
    <3>1. <<t, u>> \in CauseEdges(g.leaves)
      BY <2>2, <2>4, CauseEdge
    <3>2. u \in Seal
      BY <2>3, <2>4, LinksAreSeals
    <3> QED BY <2>4, <3>1, <3>2, ReachCloses DEF CurrentWalk
  <2>5. CauseClosure(h) \subseteq CurrentWalk(g, h)
    BY <1>1, <2>3, <2>4, CauseClosureIsLeast
  <2> QED BY <2>1, <2>2, <2>5
<1> QED BY <1>3, <1>4

(* A head whose whole Cause closure is made of leaves rests on nothing     *)
(* stale.                                                                  *)
LEMMA CurrentCausesAreFresh ==
    ASSUME NEW H \in SUBSET Seal, NEW h \in Seal, CauseClosure(h) \subseteq Graph(H).leaves
    PROVE  StaleDirect(Graph(H), h) = {} /\ StaleTransitive(Graph(H), h) = {}
BY CauseClosureCloses, CurrentWalkInClosure DEF StaleDirect, StaleTransitive

(* In a graph without a cycle, some stale head has no other stale head in  *)
(* its Cause closure (revision_graph.go isFrontier): among the nodes that  *)
(* are a stale head or rest on one, take one without a successor there.    *)
THEOREM FrontierExists ==
    ASSUME NEW H \in SUBSET Seal, Graph(H).acyclic, StaleHeads(Graph(H)) # {}
    PROVE  Frontier(Graph(H)) # {}
<1> DEFINE stale == StaleHeads(Graph(H))
           N     == Nodes(H)
           C     == {s \in N : s \in stale \/ CauseClosure(s) \cap stale # {}}
<1>1. stale \subseteq H /\ H \subseteq N /\ N \subseteq Seal
  BY GraphFields, NodesAreClosed DEF StaleHeads
<1>2. C # {} /\ C \in SUBSET N
  BY <1>1
<1>3. IsAcyclic(N, CauseEdges(N) \cup RevisionEdges(N))
  BY GraphFields
<1>4. PICK s \in C : \A t \in C : <<s, t>> \notin CauseEdges(N) \cup RevisionEdges(N)
  BY <1>2, <1>3, Zenon DEF IsAcyclic
<1>5. s \in N /\ s \in Seal
  BY <1>1
<1>6. CauseClosure(s) \cap stale = {}
  <2> SUFFICES ASSUME NEW u \in CauseClosure(s), u \in stale PROVE FALSE
    OBVIOUS
  <2>1. PICK t \in Targets(s) : u = t \/ u \in CauseClosure(t)
    BY <1>5, CauseClosureSplits
  <2>2. t \in N
    BY <1>5, NodesAreClosed
  <2>3. t \in C
    BY <2>1, <2>2
  <2>4. <<s, t>> \in CauseEdges(N)
    BY <1>5, CauseEdge
  <2> QED BY <1>4, <2>3, <2>4
<1>7. s \in stale
  BY <1>6
<1> QED BY <1>6, <1>7 DEF Frontier

-----------------------------------------------------------------------------
(* Prospective heads.                                                      *)

(* A head of a graph without a cycle names only other nodes: it cannot be  *)
(* its own Cause, nor a previous revision of one of its own Causes.        *)
LEMMA HeadNamesOthers ==
    ASSUME NEW H \in SUBSET Seal, NEW s \in H, Graph(H).acyclic
    PROVE  Targets(s) \cup Asserted(s) \subseteq Graph(H).nodes \ {s}
<1> DEFINE N == Nodes(H)
           E == CauseEdges(N) \cup RevisionEdges(N)
<1>1. s \in N /\ Targets(s) \cup Asserted(s) \subseteq N
  BY NodesAreClosed
<1>2. \A C \in SUBSET N : C # {} => \E u \in C : \A t \in C : <<u, t>> \notin E
  BY GraphFields DEF IsAcyclic
<1>3. s \notin Targets(s)
  <2> SUFFICES ASSUME s \in Targets(s) PROVE FALSE
    OBVIOUS
  <2>1. <<s, s>> \in E
    BY <1>1, CauseEdge
  <2>2. {s} \in SUBSET N /\ {s} # {}
    BY <1>1
  <2> QED BY <1>2, <2>1, <2>2
<1>4. s \notin Asserted(s)
  <2> SUFFICES ASSUME s \in Asserted(s) PROVE FALSE
    OBVIOUS
  <2>1. PICK l \in Body[s].links : s \in l.previous
    BY DEF Asserted
  <2>2. l.target \in Targets(s)
    BY DEF Targets
  <2>3. <<s, l.target>> \in E
    BY <1>1, <2>2, CauseEdge
  <2>4. <<l.target, s>> \in E
    BY <1>1, <2>1 DEF RevisionEdges
  <2>5. {s, l.target} \in SUBSET N /\ {s, l.target} # {}
    BY <1>1, <2>2
  <2> QED BY <1>2, <2>3, <2>4, <2>5
<1> QED BY <1>1, <1>3, <1>4, GraphFields

(* Nor does it rest on itself at any depth. *)
LEMMA HeadIsNotItsCause ==
    ASSUME NEW H \in SUBSET Seal, NEW s \in H, Graph(H).acyclic
    PROVE  s \notin CauseClosure(s)
<1> SUFFICES ASSUME s \in CauseClosure(s) PROVE FALSE
  OBVIOUS
<1> DEFINE N == Nodes(H)
           E == CauseEdges(N) \cup RevisionEdges(N)
           C == {v \in N : s \in CauseClosure(v)}
<1>1. s \in N /\ N \subseteq Seal
  BY NodesAreClosed
<1>2. \A D \in SUBSET N : D # {} => \E u \in D : \A t \in D : <<u, t>> \notin E
  BY GraphFields DEF IsAcyclic
<1>3. C \in SUBSET N /\ s \in C
  BY <1>1
<1>4. PICK u \in C : \A t \in C : <<u, t>> \notin E
  BY <1>2, <1>3
<1>5. u \in N /\ u \in Seal /\ s \in CauseClosure(u)
  BY <1>1, <1>4
<1>6. PICK t \in Targets(u) : s = t \/ s \in CauseClosure(t)
  BY <1>5, CauseClosureSplits
<1>7. t \in N
  BY <1>5, <1>6, NodesAreClosed
<1>8. t \in C
  BY <1>3, <1>6, <1>7
<1>9. <<u, t>> \in E
  BY <1>5, <1>6, CauseEdge
<1> QED BY <1>4, <1>8, <1>9

-----------------------------------------------------------------------------
(* Two Seals with the same Links, one of which stands for the other.       *)

SameLinks(u, s) == Body[u].links = Body[s].links

LEMMA SameLinksSameCauses ==
    ASSUME NEW u \in Seal, NEW s \in Seal, SameLinks(u, s)
    PROVE  /\ Targets(u) = Targets(s) /\ Asserted(u) = Asserted(s)
           /\ CauseClosure(u) = CauseClosure(s)
<1>1. Targets(u) = Targets(s) /\ Asserted(u) = Asserted(s)
  BY DEF SameLinks, Targets, Asserted
<1> QED BY <1>1, CauseClosureIs

(* Exchanging one head for another with the same Links adds no node but    *)
(* that head.                                                              *)
LEMMA ExchangedNodes ==
    ASSUME NEW u \in Seal, NEW s \in Seal, SameLinks(u, s), NEW O \in SUBSET Seal
    PROVE  Nodes({u} \cup O) \subseteq {u} \cup Nodes({s} \cup O)
<1> DEFINE E == UNION {{v} \X (Targets(v) \cup Asserted(v)) : v \in Seal}
           N == Nodes({s} \cup O)
           S == {u} \cup N
<1>1. N \subseteq Seal /\ {s} \cup O \subseteq N
      /\ \A v \in N : Targets(v) \cup Asserted(v) \subseteq N
  BY NodesAreClosed
<1>2. Targets(u) \cup Asserted(u) \subseteq N
  BY <1>1, SameLinksSameCauses
<1>3. \A v \in S : Targets(v) \cup Asserted(v) \subseteq S
  BY <1>1, <1>2
<1>4. \A e \in E : e[1] \in S => e[2] \in S
  BY <1>3
<1>5. S \in SUBSET Seal /\ {u} \cup O \subseteq S
  BY <1>1
<1> HIDE DEF E, S
<1>6. Reach(E, {u} \cup O) \subseteq S
  BY <1>4, <1>5, ReachIsLeast
<1> QED BY <1>6 DEF Nodes, E, S

LEMMA ExchangedRevisions ==
    ASSUME NEW u \in Seal, NEW s \in Seal, SameLinks(u, s), NEW O \in SUBSET Seal
    PROVE  RevisionEdges(Nodes({u} \cup O)) \subseteq RevisionEdges(Nodes({s} \cup O))
<1>1. Nodes({u} \cup O) \subseteq {u} \cup Nodes({s} \cup O) /\ s \in Nodes({s} \cup O)
  BY ExchangedNodes, NodesAreClosed
<1> DEFINE E(v) == UNION {{l.target} \X l.previous : l \in Body[v].links}
<1>2. \A N : RevisionEdges(N) = UNION {E(v) : v \in N}
  BY DEF RevisionEdges
<1>3. E(u) = E(s)
  BY DEF SameLinks
<1> HIDE DEF E
<1> QED BY <1>1, <1>2, <1>3

(* Where neither Seal has a previous revision, everything else is active   *)
(* in one graph exactly when it is in the other.                           *)
LEMMA ExchangedActive ==
    ASSUME NEW u \in Seal, NEW s \in Seal, NEW O \in SUBSET Seal,
           NEW R \in SUBSET (Seal \X Seal),
           \A e \in R : e[1] \notin {u, s}
    PROVE  Reach(R, {u} \cup O) \subseteq {u} \cup Reach(R, {s} \cup O)
<1> DEFINE A == Reach(R, {s} \cup O)
           S == {u} \cup A
<1>1. S \in SUBSET Seal /\ {u} \cup O \subseteq S
  BY ReachIsSeals, ReachStarts
<1>2. ASSUME NEW e \in R, e[1] \in S PROVE e[2] \in S
  <2>1. e[1] \in A /\ e[2] \in Seal /\ e = <<e[1], e[2]>>
    BY <1>2
  <2>2. e[2] \in A
    BY <1>2, <2>1, ReachCloses
  <2> QED BY <2>2
<1> HIDE DEF S
<1> QED BY <1>1, <1>2, ReachIsLeast DEF S

(* Then nothing that either Seal rests on is revised by other leaves in    *)
(* one graph than in the other.                                            *)
LEMMA ExchangedLeaves ==
    ASSUME NEW u \in Seal, NEW s \in Seal, SameLinks(u, s), NEW O \in SUBSET Seal,
           \A e \in Graph({s} \cup O).revisions : e[1] \notin {u, s},
           NEW t \in Seal, t \notin {u, s}
    PROVE  NewerLeaves(Graph({u} \cup O), t) = NewerLeaves(Graph({s} \cup O), t)
<1> DEFINE R == RevisionEdges(Nodes({s} \cup O))
           I == {<<e[2], e[1]>> : e \in R}
           U == Reach(R, {u} \cup O)
           A == Reach(R, {s} \cup O)
           W == Seal \ {u, s}
<1>1. RevisionEdges(Nodes({u} \cup O)) = R
  <2>1. SameLinks(s, u)
    BY DEF SameLinks
  <2>2. RevisionEdges(Nodes({u} \cup O)) \subseteq R
    BY ExchangedRevisions
  <2>3. R \subseteq RevisionEdges(Nodes({u} \cup O))
    BY <2>1, ExchangedRevisions
  <2> QED BY <2>2, <2>3
<1>2. \A e \in R : e[1] \notin {u, s}
  <2>1. {s} \cup O \in SUBSET Seal
    OBVIOUS
  <2>2. Graph({s} \cup O).revisions = R
    BY <2>1, GraphFields
  <2> QED BY <2>2
<1>3. R \in SUBSET (Seal \X Seal)
  BY NodesAreClosed, LinksAreSeals DEF RevisionEdges
<1>4. U \subseteq {u} \cup A /\ A \subseteq {s} \cup U
  BY <1>2, <1>3, ExchangedActive
<1>5. \A v \in W : v \in Leaves(U, R) <=> v \in Leaves(A, R)
  BY <1>2, <1>4 DEF Leaves
<1>6. Reach(I, {t}) \subseteq W
  <2>1. ASSUME NEW e \in R PROVE <<e[2], e[1]>>[2] \in W
    <3>1. e[1] \in Seal
      BY <1>3
    <3> QED BY <1>2, <3>1
  <2>a. \A e \in I : e[1] \in W => e[2] \in W
    BY <2>1
  <2>2. W \in SUBSET Seal /\ {t} \subseteq W
    OBVIOUS
  <2> HIDE DEF I, W
  <2> QED BY <2>a, <2>2, ReachIsLeast
<1>7. /\ NewerLeaves(Graph({u} \cup O), t) = Leaves(U, R) \cap Reach(I, {t})
      /\ NewerLeaves(Graph({s} \cup O), t) = Leaves(A, R) \cap Reach(I, {t})
  BY <1>1, GraphFields DEF NewerLeaves
<1> HIDE DEF R, I, U, A, W
<1> QED BY <1>5, <1>6, <1>7

State == Manifest \cup {None}

-----------------------------------------------------------------------------
(* Types.                                                                  *)

LEMMA NoneIsNothing ==
    /\ None \notin Seal /\ None \notin Manifest
    /\ None \notin Candidate /\ None \notin Path
BY RepositoryAssumption

(* withoutHistoricalReview changes no Link. *)
LEMMA UnreviewedForm ==
    ASSUME NEW s \in Seal
    PROVE  /\ Unreviewed(s) \in Seal /\ IsUnreviewed(Unreviewed(s), s)
           /\ SameLinks(Unreviewed(s), s)
<1>1. Unreviewed(s) \in Seal /\ IsUnreviewed(Unreviewed(s), s)
  BY RepositoryAssumption DEF Unreviewed
<1>2. Body[s] \in SealBody
  BY BodyAssumption
<1> QED BY <1>1, <1>2 DEF IsUnreviewed, SameLinks, SealBody

LEMMA AdvancedIsManifest ==
    ASSUME TypeOK, NEW r \in REF, NEW s \in Seal
    PROVE  Advanced(r, s) \in Manifest
<1>1. NoTags \in Tags
  BY DEF NoTags, Tags
<1>2. refs[r] = None \/ refs[r].tags \in Tags
  BY DEF TypeOK, Manifest
<1> QED BY <1>1, <1>2 DEF Advanced, Manifest

(* A journaled command writes one well-formed record and installs exactly  *)
(* what the record says.                                                   *)
LEMMA JournaledType ==
    ASSUME TypeOK, NEW kind \in Kind, NEW D \in SUBSET REF, NEW after \in [D -> State],
           NEW stop, Journaled(kind, after, stop)
    PROVE  /\ refs' \in [REF -> State]
           /\ journal' \in Seq(Record)
<1> DEFINE tr  == [r \in DOMAIN after |-> [before |-> refs[r], after |-> after[r]]]
           rec == [kind |-> kind,
                   state |-> IF stop >= Committed THEN "COMMITTED" ELSE "PREPARED",
                   transitions |-> tr]
<1>1. journal \in Seq(Record) /\ refs \in [REF -> State]
  BY DEF TypeOK, State
<1>2. tr \in [D -> Transition]
  BY <1>1 DEF Transition, State
<1>3. rec \in Record
  BY <1>2 DEF Record
<1>4. journal' = Append(journal, rec)
  BY DEF Journaled
<1>5. journal' \in Seq(Record)
  BY <1>1, <1>3, <1>4
<1>6. refs' \in [REF -> State]
  BY <1>1 DEF Journaled
<1> QED BY <1>5, <1>6

LEMMA SaveCandidateType ==
    ASSUME TypeOK, NEW r \in REF, NEW s \in Seal, SaveCandidate(r, s)
    PROVE  candidates' \in [REF -> Candidate \cup {None}]
<1>1. CASE candidates[r] # None
  <2>1. candidates[r] \in Candidate
    BY <1>1 DEF TypeOK
  <2>2. EditBase(r).expected = candidates[r].expected
    BY <1>1 DEF EditBase
  <2> QED BY <2>1, <2>2 DEF TypeOK, SaveCandidate, Candidate
<1>2. CASE candidates[r] = None /\ refs[r] # None
  <2>1. refs[r] \in Manifest
    BY <1>2 DEF TypeOK
  <2>2. EditBase(r).expected = refs[r].head
    BY <1>2 DEF EditBase
  <2> QED BY <2>1, <2>2 DEF TypeOK, SaveCandidate, Candidate, Manifest
<1>3. CASE candidates[r] = None /\ refs[r] = None
  <2>1. EditBase(r).expected = None
    BY <1>3 DEF EditBase
  <2> QED BY <2>1 DEF TypeOK, SaveCandidate, Candidate
<1> QED BY <1>1, <1>2, <1>3

(* ClearReview replaces one Candidate by its unreviewed form. *)
LEMMA ClearReviewStep ==
    ASSUME TypeOK, NEW r \in REF, ClearReview(r)
    PROVE  /\ candidates' \in [REF -> Candidate \cup {None}]
           /\ \A q \in REF : \/ candidates'[q] = candidates[q]
                             \/ /\ candidates[q] # None
                                /\ candidates'[q].seal = Unreviewed(candidates[q].seal)
<1>1. candidates[r] \in Candidate
  BY DEF ClearReview, TypeOK
<1>2. candidates[r].seal \in Seal /\ candidates[r].expected \in Seal \cup {None}
  BY <1>1 DEF Candidate
<1>3. Unreviewed(candidates[r].seal) \in Seal
  BY <1>2, UnreviewedForm
<1> DEFINE c == [candidates[r] EXCEPT !.seal = Unreviewed(@)]
<1>4. c = [seal |-> Unreviewed(candidates[r].seal), expected |-> candidates[r].expected]
  BY <1>1 DEF Candidate
<1>5. c \in Candidate /\ c.seal = Unreviewed(candidates[r].seal)
  BY <1>2, <1>3, <1>4 DEF Candidate
<1>6. candidates' = [candidates EXCEPT ![r] = c]
  BY DEF ClearReview
<1> HIDE DEF c
<1> QED BY <1>5, <1>6 DEF TypeOK, ClearReview

LEMMA TypeInit == Init => TypeOK
<1> SUFFICES ASSUME Init PROVE TypeOK
  OBVIOUS
<1>1. NoTags \in Tags
  BY DEF NoTags, Tags
<1>2. refs \in [REF -> Manifest \cup {None}]
  BY <1>1, RepositoryAssumption DEF Init, Manifest
<1>3. objects \subseteq Seal
  <2>1. {InitialHead[r] : r \in REF} \ {None} \in SUBSET Seal
    BY RepositoryAssumption
  <2> QED BY <2>1, GraphFields, NodesAreClosed DEF Init
<1>4. journal \in Seq(Record)
  BY DEF Init
<1> QED BY <1>2, <1>3, <1>4 DEF Init, TypeOK

(* What each journaled command records and installs. *)
LEMMA RecoverType ==
    ASSUME TypeOK, NEW k \in DOMAIN journal, Recover(k)
    PROVE  /\ journal[k] \in Record
           /\ refs' \in [REF -> State]
<1>1. journal[k] \in Record
  BY DEF TypeOK
<1>2. PICK R \in SUBSET REF : journal[k].transitions \in [R -> Transition]
  BY <1>1 DEF Record
<1>3. \A r \in R : journal[k].transitions[r].before \in State
  BY <1>2 DEF Transition, State
<1> QED BY <1>1, <1>2, <1>3 DEF Recover, TypeOK, State

LEMMA TypeNext == TypeOK /\ [Next]_vars => TypeOK'
<1> SUFFICES ASSUME TypeOK, [Next]_vars PROVE TypeOK'
  OBVIOUS
<1>1. ASSUME NEW r \in REF, NEW s \in Seal,
             Add(r, s) \/ Link(r, s) \/ Unlink(r, s) \/ SetReview(r, s)
      PROVE  TypeOK'
  <2>1. SaveCandidate(r, s) /\ UNCHANGED <<objects, refs, sources, journal>>
    BY <1>1 DEF Add, AddCandidate, Link, Unlink, SetReview
  <2> QED BY <2>1, SaveCandidateType DEF TypeOK
<1>2. ASSUME NEW r \in REF, NEW s \in Seal, NEW p \in Path, AddLocalSource(r, s, p)
      PROVE  TypeOK'
  <2>1. SaveCandidate(r, s) /\ UNCHANGED <<objects, refs, journal>>
    BY <1>2 DEF AddLocalSource, AddCandidate
  <2>2. sources' \in [REF -> Path \cup {None}]
    BY <1>2 DEF AddLocalSource, TypeOK
  <2> QED BY <2>1, <2>2, SaveCandidateType DEF TypeOK
<1>3. ASSUME NEW r \in REF, DiscardCandidate(r)
      PROVE  TypeOK'
  BY <1>3 DEF DiscardCandidate, TypeOK
<1>a. ASSUME NEW r \in REF, ClearReview(r)
      PROVE  TypeOK'
  <2>1. UNCHANGED <<objects, refs, sources, journal>>
    BY <1>a DEF ClearReview
  <2> QED BY <1>a, <2>1, ClearReviewStep DEF TypeOK
<1>4. ASSUME NEW r \in REF, NEW p \in Path,
             \/ SourceBind(r, p) \/ SourceUnbind(r, p)
             \/ \E q \in Path : SourceRebind(r, p, q)
      PROVE  TypeOK'
  BY <1>4 DEF SourceBind, SourceUnbind, SourceRebind, TypeOK
<1>5. ASSUME NEW r \in REF, NEW stop \in Stops, SealREF(r, stop)
      PROVE  TypeOK'
  <2> DEFINE s == candidates[r].seal
  <2>1. s \in Seal /\ objects' = objects \cup {s} /\ UNCHANGED sources
    BY <1>5 DEF SealREF, Written, TypeOK, Candidate
  <2>2. candidates' \in [REF -> Candidate \cup {None}]
    BY <1>5 DEF SealREF, TypeOK
  <2>3. CASE stop = Stopped
    <3>1. UNCHANGED <<refs, journal>>
      BY <1>5, <2>3 DEF SealREF
    <3> QED BY <2>1, <2>2, <3>1 DEF TypeOK
  <2>4. CASE stop # Stopped
    <3>1. Journaled("seal", [q \in {r} |-> Advanced(r, s)], stop)
      BY <1>5, <2>4 DEF SealREF
    <3>2. [q \in {r} |-> Advanced(r, s)] \in [{r} -> State]
      BY <2>1, AdvancedIsManifest DEF State
    <3>3. /\ refs' \in [REF -> State] /\ journal' \in Seq(Record)
      BY <3>1, <3>2, JournaledType DEF Kind
    <3> QED BY <2>1, <2>2, <3>3 DEF TypeOK, State
  <2> QED BY <2>3, <2>4
<1>6. ASSUME NEW r \in REF, NEW t \in TagName, NEW stop \in Stops, CreateTag(r, t, stop)
      PROVE  TypeOK'
  <2>1. PICK s \in objects :
           Journaled("tag", [q \in {r} |-> [refs[r] EXCEPT !.tags[t] = s]], stop)
    BY <1>6 DEF CreateTag
  <2>2. refs[r] \in Manifest /\ s \in Seal
    BY <1>6, <2>1 DEF CreateTag, TypeOK
  <2>3. [refs[r] EXCEPT !.tags[t] = s] \in State
    BY <2>2 DEF State, Manifest, Tags
  <2>4. /\ refs' \in [REF -> State] /\ journal' \in Seq(Record)
    BY <2>1, <2>3, JournaledType DEF Kind
  <2> QED BY <1>6, <2>4 DEF CreateTag, TypeOK, State
<1>7. ASSUME NEW old \in REF, NEW new \in REF, NEW stop \in Stops, MoveREF(old, new, stop)
      PROVE  TypeOK'
  <2>1. Journaled("mv", [q \in {old, new} |-> IF q = old THEN None ELSE refs[old]], stop)
    BY <1>7 DEF MoveREF
  <2>2. [q \in {old, new} |-> IF q = old THEN None ELSE refs[old]] \in [{old, new} -> State]
    BY DEF State, TypeOK
  <2>3. /\ refs' \in [REF -> State] /\ journal' \in Seq(Record)
    BY <2>1, <2>2, JournaledType DEF Kind
  <2> QED BY <1>7, <2>3 DEF MoveREF, TypeOK, State
<1>8. ASSUME NEW r \in REF, NEW stop \in Stops, DropREF(r, stop)
      PROVE  TypeOK'
  <2>1. Journaled("ref-drop", [q \in {r} |-> None], stop)
    BY <1>8 DEF DropREF
  <2>2. [q \in {r} |-> None] \in [{r} -> State]
    BY DEF State
  <2>3. /\ refs' \in [REF -> State] /\ journal' \in Seq(Record)
    BY <2>1, <2>2, JournaledType DEF Kind
  <2> QED BY <1>8, <2>3 DEF DropREF, TypeOK, State
<1>9. ASSUME NEW k \in DOMAIN journal, Recover(k)
      PROVE  TypeOK'
  <2>1. refs' \in [REF -> State]
    BY <1>9, RecoverType
  <2> QED BY <1>9, <2>1 DEF Recover, TypeOK, State
<1>10. CASE UNCHANGED vars
  BY <1>10 DEF vars, TypeOK
<1> QED BY <1>1, <1>2, <1>3, <1>a, <1>4, <1>5, <1>6, <1>7, <1>8, <1>9, <1>10 DEF Next

(* The type invariant of Repository, for every instance. *)
THEOREM TypeCorrect == Spec => []TypeOK
<1> QED BY TypeInit, TypeNext, PTL DEF Spec

-----------------------------------------------------------------------------
(* Heads.                                                                  *)

LEMMA HeadsAreSeals ==
    ASSUME TypeOK
    PROVE  /\ Heads \in SUBSET Seal
           /\ \A r \in REF, s \in Seal : ProspectiveHeads(r, s) \in SUBSET Seal
BY DEF TypeOK, Heads, HeadsOf, ProspectiveHeads, Manifest

(* The prospective graph of a Candidate that passes validation resolves    *)
(* every Link of the Candidate without the Candidate itself.               *)
LEMMA ProspectiveResolves ==
    ASSUME TypeOK, NEW r \in REF, NEW s \in Seal, ProspectiveBuilds(r, s)
    PROVE  Targets(s) \cup Asserted(s) \subseteq objects
<1> DEFINE H == ProspectiveHeads(r, s)
<1>1. H \in SUBSET Seal /\ s \in H
  BY HeadsAreSeals DEF ProspectiveHeads
<1>2. Graph(H).acyclic /\ Graph(H).nodes \subseteq objects \cup {s}
  BY DEF ProspectiveBuilds
<1> HIDE DEF H
<1>3. Targets(s) \cup Asserted(s) \subseteq Graph(H).nodes \ {s}
  BY <1>1, <1>2, HeadNamesOthers
<1> QED BY <1>2, <1>3

(* A published Candidate is the head its validation assumed. *)
LEMMA PublishedHeads ==
    ASSUME TypeOK, NEW r \in REF, NEW s \in Seal,
           refs' = [q \in REF |-> IF q \in {r} THEN Advanced(r, s) ELSE refs[q]]
    PROVE  Heads' = ProspectiveHeads(r, s)
<1>1. Advanced(r, s) \in Manifest /\ Advanced(r, s) # None /\ Advanced(r, s).head = s
  BY AdvancedIsManifest, NoneIsNothing DEF Advanced
<1>2. {q \in REF : refs'[q] # None} = {r} \cup {p \in REF \ {r} : refs[p] # None}
  BY <1>1
<1> QED BY <1>1, <1>2 DEF Heads, HeadsOf, ProspectiveHeads

-----------------------------------------------------------------------------
(* What is named can be read.                                              *)

(* A journaled command keeps records and REFs resolvable if what it        *)
(* installs is.                                                            *)
LEMMA JournaledResolves ==
    ASSUME TypeOK, Resolvable, objects \subseteq objects',
           NEW kind, NEW D \in SUBSET REF, NEW after \in [D -> State],
           \A r \in D : ManifestTargets(after[r]) \subseteq objects',
           NEW stop, Journaled(kind, after, stop)
    PROVE  RefsResolvable' /\ RecordsResolvable'
<1> DEFINE tr  == [r \in DOMAIN after |-> [before |-> refs[r], after |-> after[r]]]
           rec == [kind |-> kind,
                   state |-> IF stop >= Committed THEN "COMMITTED" ELSE "PREPARED",
                   transitions |-> tr]
<1>1. \A r \in REF : ManifestTargets(refs[r]) \subseteq objects'
  BY DEF Resolvable, RefsResolvable
<1>2. RefsResolvable'
  <2>1. refs' = refs \/ refs' = [r \in REF |-> IF r \in DOMAIN after THEN after[r] ELSE refs[r]]
    BY DEF Journaled
  <2>2. \A r \in REF : refs'[r] = refs[r] \/ (r \in D /\ refs'[r] = after[r])
    BY <2>1
  <2>3. \A r \in REF : ManifestTargets(refs'[r]) \subseteq objects'
    BY <1>1, <2>2
  <2> QED BY <2>3 DEF RefsResolvable, ManifestTargets
<1>3. RecordsResolvable'
  <2>1. journal' = Append(journal, rec) /\ journal \in Seq(Record)
    BY DEF Journaled, TypeOK
  <2>2. SUFFICES ASSUME NEW k \in DOMAIN journal', NEW r \in DOMAIN journal'[k].transitions
                 PROVE  LET t == journal'[k].transitions[r]
                        IN  ManifestTargets(t.before) \cup ManifestTargets(t.after) \subseteq objects'
    BY DEF RecordsResolvable, ManifestTargets
  <2>3. CASE k \in DOMAIN journal
    <3>1. journal'[k] = journal[k]
      BY <2>1, <2>3
    <3> QED BY <2>2, <2>3, <3>1 DEF Resolvable, RecordsResolvable
  <2>4. CASE k \notin DOMAIN journal
    <3>1. journal'[k] = rec
      BY <2>1, <2>2, <2>4
    <3>2. r \in D /\ rec.transitions[r] = [before |-> refs[r], after |-> after[r]]
      BY <2>2, <3>1
    <3> HIDE DEF rec
    <3> QED BY <1>1, <3>1, <3>2
  <2> QED BY <2>3, <2>4
<1> QED BY <1>2, <1>3

LEMMA SaveCandidateResolves ==
    ASSUME TypeOK, Resolvable, NEW r \in REF, NEW s \in Seal, SaveCandidate(r, s),
           UNCHANGED objects
    PROVE  CandidatesResolvable'
<1>1. Targets(s) \cup Asserted(s) \subseteq objects
  BY ProspectiveResolves DEF SaveCandidate
<1>2. \A q \in REF : candidates'[q] = candidates[q] \/ candidates'[q].seal = s
  BY DEF SaveCandidate, TypeOK
<1> QED BY <1>1, <1>2 DEF Resolvable, CandidatesResolvable

LEMMA ResolvableInit == Init => Resolvable
<1> SUFFICES ASSUME Init PROVE Resolvable
  OBVIOUS
<1> DEFINE H == {InitialHead[r] : r \in REF} \ {None}
<1>1. H \in SUBSET Seal
  BY RepositoryAssumption
<1>2. objects = Nodes(H)
  BY <1>1, GraphFields DEF Init
<1>3. ObjectsResolvable /\ H \subseteq objects
  BY <1>1, <1>2, NodesAreClosed DEF ObjectsResolvable
<1>4. RefsResolvable
  <2>1. \A r \in REF : refs[r] = None \/ refs[r] = [head |-> InitialHead[r], tags |-> NoTags]
    BY DEF Init
  <2>2. \A r \in REF : refs[r] # None => InitialHead[r] \in H
    BY DEF Init
  <2>3. SUFFICES ASSUME NEW r \in REF PROVE ManifestTargets(refs[r]) \subseteq objects
    BY DEF RefsResolvable
  <2>4. CASE refs[r] = None
    BY <2>4 DEF ManifestTargets
  <2>5. CASE refs[r] # None
    <3>a. refs[r] = [head |-> InitialHead[r], tags |-> NoTags]
      BY <2>1, <2>5
    <3>b. refs[r].head = InitialHead[r]
      BY <3>a
    <3>c. refs[r].tags = NoTags
      BY <3>a
    <3>1. refs[r].head = InitialHead[r] /\ refs[r].tags = NoTags
      BY <3>b, <3>c
    <3>2. \A t \in TagName : refs[r].tags[t] = None
      BY <3>1 DEF NoTags
    <3>3. ManifestTargets(refs[r]) \subseteq {InitialHead[r]}
      BY <2>5, <3>1, <3>2 DEF ManifestTargets
    <3> QED BY <1>3, <2>2, <2>5, <3>3
  <2> QED BY <2>4, <2>5
<1>5. CandidatesResolvable /\ RecordsResolvable
  BY DEF Init, CandidatesResolvable, RecordsResolvable
<1> QED BY <1>3, <1>4, <1>5 DEF Resolvable

(* Removing Candidates and adding objects keeps the remaining Candidates   *)
(* resolvable.                                                             *)
LEMMA CandidatesStayResolvable ==
    ASSUME Resolvable, objects \subseteq objects',
           \A q \in REF : candidates'[q] = candidates[q] \/ candidates'[q] = None
    PROVE  CandidatesResolvable'
BY DEF Resolvable, CandidatesResolvable

(* A manifest that keeps its tags, or replaces one, names nothing new but  *)
(* its new head or tag.                                                    *)
LEMMA AdvancedTargets ==
    ASSUME NEW r \in REF, NEW s
    PROVE  ManifestTargets(Advanced(r, s)) \subseteq ManifestTargets(refs[r]) \cup {s}
<1> DEFINE m == Advanced(r, s)
<1>1. m.head = s /\ m.tags = IF refs[r] = None THEN NoTags ELSE refs[r].tags
  BY DEF Advanced
<1>2. \A t \in TagName : m.tags[t] = None \/ (refs[r] # None /\ m.tags[t] = refs[r].tags[t])
  BY <1>1 DEF NoTags
<1> HIDE DEF m
<1>3. ManifestTargets(m) \subseteq ManifestTargets(refs[r]) \cup {s}
  BY <1>1, <1>2 DEF ManifestTargets
<1> QED BY <1>3 DEF m

LEMMA BoundTargets ==
    ASSUME NEW m \in Manifest, NEW t \in TagName, NEW s
    PROVE  ManifestTargets([m EXCEPT !.tags[t] = s]) \subseteq ManifestTargets(m) \cup {s}
<1> DEFINE n == [m EXCEPT !.tags[t] = s]
<1>1. n.head = m.head
  BY DEF Manifest
<1>2. m.tags \in [TagName -> Seal \cup {None}] /\ n.tags = [m.tags EXCEPT ![t] = s]
  BY DEF Manifest, Tags
<1>3. \A u \in TagName : n.tags[u] = m.tags[u] \/ n.tags[u] = s
  BY <1>2
<1>4. m # None
  BY NoneIsNothing
<1> HIDE DEF n
<1>5. ManifestTargets(n) \subseteq ManifestTargets(m) \cup {s}
  BY <1>1, <1>3, <1>4 DEF ManifestTargets
<1> QED BY <1>5 DEF n

LEMMA ResolvableNext == TypeOK /\ Resolvable /\ [Next]_vars => Resolvable'
<1> SUFFICES ASSUME TypeOK, Resolvable, [Next]_vars PROVE Resolvable'
  OBVIOUS
<1>a. ASSUME UNCHANGED <<objects, refs, journal>>, CandidatesResolvable'
      PROVE  Resolvable'
  BY <1>a DEF Resolvable, ObjectsResolvable, RefsResolvable, RecordsResolvable, ManifestTargets
<1>1. ASSUME NEW r \in REF, NEW s \in Seal,
             \/ Add(r, s) \/ Link(r, s) \/ Unlink(r, s) \/ SetReview(r, s)
             \/ \E p \in Path : AddLocalSource(r, s, p)
      PROVE  Resolvable'
  <2>1. SaveCandidate(r, s) /\ UNCHANGED <<objects, refs, journal>>
    BY <1>1 DEF Add, AddCandidate, Link, Unlink, SetReview, AddLocalSource
  <2> QED BY <1>a, <2>1, SaveCandidateResolves
<1>2. ASSUME NEW r \in REF, DiscardCandidate(r)
      PROVE  Resolvable'
  <2>1. UNCHANGED <<objects, refs, journal>>
    BY <1>2 DEF DiscardCandidate
  <2>2. \A q \in REF : candidates'[q] = candidates[q] \/ candidates'[q] = None
    BY <1>2 DEF DiscardCandidate, TypeOK
  <2> QED BY <1>a, <2>1, <2>2, CandidatesStayResolvable
<1>c. ASSUME NEW r \in REF, ClearReview(r)
      PROVE  Resolvable'
  <2>1. UNCHANGED <<objects, refs, journal>>
    BY <1>c DEF ClearReview
  <2>2. \A q \in REF : candidates[q] # None => candidates[q].seal \in Seal
    BY DEF TypeOK, Candidate
  <2>3. \A t \in Seal : /\ Targets(Unreviewed(t)) = Targets(t)
                        /\ Asserted(Unreviewed(t)) = Asserted(t)
    BY UnreviewedForm, SameLinksSameCauses
  <2>4. CandidatesResolvable'
    BY <1>c, <2>1, <2>2, <2>3, ClearReviewStep DEF Resolvable, CandidatesResolvable
  <2> QED BY <1>a, <2>1, <2>4
<1>3. ASSUME NEW r \in REF, NEW p \in Path,
             \/ SourceBind(r, p) \/ SourceUnbind(r, p)
             \/ \E q \in Path : SourceRebind(r, p, q)
      PROVE  Resolvable'
  <2>1. UNCHANGED <<objects, refs, candidates, journal>>
    BY <1>3 DEF SourceBind, SourceUnbind, SourceRebind
  <2> QED BY <1>a, <2>1, CandidatesStayResolvable
<1>4. ASSUME NEW r \in REF, NEW stop \in Stops, SealREF(r, stop)
      PROVE  Resolvable'
  <2> DEFINE s == candidates[r].seal
  <2>1. /\ candidates[r] # None /\ s \in Seal
        /\ objects' = objects \cup {s}
    BY <1>4 DEF SealREF, Written, TypeOK, Candidate
  <2>2. \A q \in REF : candidates'[q] = candidates[q] \/ candidates'[q] = None
    BY <1>4 DEF SealREF, TypeOK
  <2>3. CandidatesResolvable'
    BY <2>1, <2>2, CandidatesStayResolvable
  <2>4. Targets(s) \cup Asserted(s) \subseteq objects
    BY <2>1 DEF Resolvable, CandidatesResolvable
  <2>5. ObjectsResolvable'
    BY <2>1, <2>4 DEF Resolvable, ObjectsResolvable
  <2>6. RefsResolvable' /\ RecordsResolvable'
    <3>1. CASE stop = Stopped
      <4>1. UNCHANGED <<refs, journal>>
        BY <1>4, <3>1 DEF SealREF
      <4> QED BY <2>1, <4>1 DEF Resolvable, RefsResolvable, RecordsResolvable, ManifestTargets
    <3>2. CASE stop # Stopped
      <4> DEFINE after == [q \in {r} |-> Advanced(r, s)]
      <4>1. Journaled("seal", after, stop)
        BY <1>4, <3>2 DEF SealREF
      <4>2. after \in [{r} -> State]
        BY <2>1, AdvancedIsManifest DEF State
      <4>3. ManifestTargets(after[r]) \subseteq ManifestTargets(refs[r]) \cup {s}
        BY AdvancedTargets
      <4>4. \A q \in {r} : ManifestTargets(after[q]) \subseteq objects'
        BY <2>1, <4>3 DEF Resolvable, RefsResolvable
      <4> HIDE DEF after
      <4> QED BY <2>1, <4>1, <4>2, <4>4, JournaledResolves
    <3> QED BY <3>1, <3>2
  <2> QED BY <2>3, <2>5, <2>6 DEF Resolvable
<1>b. ASSUME UNCHANGED <<objects, candidates>>, RefsResolvable', RecordsResolvable'
      PROVE  Resolvable'
  <2>1. CandidatesResolvable'
    BY <1>b, CandidatesStayResolvable
  <2> QED BY <1>b, <2>1 DEF Resolvable, ObjectsResolvable
<1>5. ASSUME NEW r \in REF, NEW t \in TagName, NEW stop \in Stops, CreateTag(r, t, stop)
      PROVE  Resolvable'
  <2>1. PICK s \in objects :
           Journaled("tag", [q \in {r} |-> [refs[r] EXCEPT !.tags[t] = s]], stop)
    BY <1>5 DEF CreateTag
  <2>2. refs[r] \in Manifest /\ s \in Seal /\ UNCHANGED <<objects, candidates>>
    BY <1>5, <2>1 DEF CreateTag, TypeOK
  <2> DEFINE after == [q \in {r} |-> [refs[r] EXCEPT !.tags[t] = s]]
  <2>3. after \in [{r} -> State]
    BY <2>2 DEF State, Manifest, Tags
  <2>4. ManifestTargets(after[r]) \subseteq ManifestTargets(refs[r]) \cup {s}
    BY <2>2, BoundTargets
  <2>5. \A q \in {r} : ManifestTargets(after[q]) \subseteq objects'
    BY <2>1, <2>2, <2>4 DEF Resolvable, RefsResolvable
  <2>6. Journaled("tag", after, stop)
    BY <2>1
  <2> HIDE DEF after
  <2>7. RefsResolvable' /\ RecordsResolvable'
    BY <2>2, <2>3, <2>5, <2>6, JournaledResolves
  <2> QED BY <1>b, <2>2, <2>7
<1>6. ASSUME NEW old \in REF, NEW new \in REF, NEW stop \in Stops, MoveREF(old, new, stop)
      PROVE  Resolvable'
  <2> DEFINE after == [q \in {old, new} |-> IF q = old THEN None ELSE refs[old]]
  <2>1. Journaled("mv", after, stop) /\ UNCHANGED <<objects, candidates>>
    BY <1>6 DEF MoveREF
  <2>2. after \in [{old, new} -> State]
    BY DEF State, TypeOK
  <2>3. \A q \in {old, new} : ManifestTargets(after[q]) \subseteq objects'
    BY <2>1 DEF Resolvable, RefsResolvable, ManifestTargets
  <2> HIDE DEF after
  <2>4. RefsResolvable' /\ RecordsResolvable'
    BY <2>1, <2>2, <2>3, JournaledResolves
  <2> QED BY <1>b, <2>1, <2>4
<1>7. ASSUME NEW r \in REF, NEW stop \in Stops, DropREF(r, stop)
      PROVE  Resolvable'
  <2> DEFINE after == [q \in {r} |-> None]
  <2>1. Journaled("ref-drop", after, stop) /\ UNCHANGED <<objects, candidates>>
    BY <1>7 DEF DropREF
  <2>2. after \in [{r} -> State]
    BY DEF State
  <2>3. \A q \in {r} : ManifestTargets(after[q]) \subseteq objects'
    BY DEF ManifestTargets
  <2> HIDE DEF after
  <2>4. RefsResolvable' /\ RecordsResolvable'
    BY <2>1, <2>2, <2>3, JournaledResolves
  <2> QED BY <1>b, <2>1, <2>4
<1>8. ASSUME NEW k \in DOMAIN journal, Recover(k)
      PROVE  Resolvable'
  <2> DEFINE T == journal[k].transitions
  <2>1. UNCHANGED <<objects, candidates, journal>>
    BY <1>8 DEF Recover
  <2>2. \A r \in REF : refs'[r] = refs[r] \/ (r \in DOMAIN T /\ refs'[r] = T[r].before)
    BY <1>8 DEF Recover
  <2>3. \A r \in DOMAIN T : ManifestTargets(T[r].before) \subseteq objects
    BY DEF Resolvable, RecordsResolvable
  <2>4. \A r \in REF : ManifestTargets(refs[r]) \subseteq objects
    BY DEF Resolvable, RefsResolvable
  <2> HIDE DEF T
  <2>5. \A r \in REF : ManifestTargets(refs'[r]) \subseteq objects
    BY <2>2, <2>3, <2>4
  <2>6. RefsResolvable'
    BY <2>1, <2>5 DEF RefsResolvable, ManifestTargets
  <2>7. RecordsResolvable'
    BY <2>1 DEF Resolvable, RecordsResolvable, ManifestTargets
  <2> QED BY <1>b, <2>1, <2>6, <2>7
<1>9. CASE UNCHANGED vars
  <2>1. UNCHANGED <<objects, refs, candidates, journal>>
    BY <1>9 DEF vars
  <2> QED BY <1>a, <2>1, CandidatesStayResolvable
<1> QED BY <1>1, <1>2, <1>c, <1>3, <1>4, <1>5, <1>6, <1>7, <1>8, <1>9 DEF Next

(* Whatever a REF, a tag, a Candidate, a record or a stored Seal names can *)
(* be read, in every state a command can stop in (Repository!Resolvable).  *)
THEOREM NamesResolve == Spec => []Resolvable
<1> QED BY TypeInit, TypeNext, ResolvableInit, ResolvableNext, PTL DEF Spec

-----------------------------------------------------------------------------
(* Drafts.                                                                 *)

LEMMA DraftClosedInit == Init => DraftClosed
<1> SUFFICES ASSUME Init PROVE DraftClosed
  OBVIOUS
<1> QED BY InitialAssumption DEF Init, DraftClosed

(* Objects only ever grow, by the one Seal that SealREF admits. *)
LEMMA ObjectsStep ==
    ASSUME TypeOK, [Next]_vars
    PROVE  \/ UNCHANGED objects
           \/ \E r \in REF, stop \in Stops : SealREF(r, stop)
BY DEF Next, vars, Add, AddLocalSource, Link, Unlink, SetReview, ClearReview, DiscardCandidate, SourceBind,
       SourceRebind, SourceUnbind, CreateTag, MoveREF, DropREF, Recover

LEMMA DraftClosedNext == TypeOK /\ DraftClosed /\ [Next]_vars => DraftClosed'
<1> SUFFICES ASSUME TypeOK, DraftClosed, [Next]_vars PROVE DraftClosed'
  OBVIOUS
<1>1. CASE UNCHANGED objects
  BY <1>1 DEF DraftClosed
<1>2. ASSUME NEW r \in REF, NEW stop \in Stops, SealREF(r, stop)
      PROVE  DraftClosed'
  <2> DEFINE s == candidates[r].seal
  <2>1. /\ s \in Seal /\ objects' = objects \cup {s}
        /\ \E reviewed \in BOOLEAN : Admissible(r, s, reviewed)
    BY <1>2 DEF SealREF, Written, TypeOK, Candidate
  <2>2. Body[s].draft \/ \A t \in CauseClosure(s) : ~Body[t].draft
    BY <2>1, RootHasNoCauses DEF Admissible
  <2> QED BY <2>1, <2>2 DEF DraftClosed
<1> QED BY <1>1, <1>2, ObjectsStep

(* No stored normal Seal rests on a draft (Repository!DraftClosed): a draft*)
(* is not laundered by any order of publications, drops and recoveries.    *)
THEOREM DraftsStayClosed == Spec => []DraftClosed
<1> QED BY TypeInit, TypeNext, DraftClosedInit, DraftClosedNext, PTL DEF Spec

-----------------------------------------------------------------------------
(* The graph commands leave behind.                                        *)

(* A command that installs no new head cannot break a graph that builds.   *)
LEMMA FewerHeadsBuild ==
    ASSUME TypeOK, GraphBuilds, Heads' \subseteq Heads, objects \subseteq objects'
    PROVE  GraphBuilds'
<1>1. Heads \in SUBSET Seal
  BY HeadsAreSeals
<1>2. Graph(Heads').acyclic /\ Graph(Heads').nodes \subseteq Graph(Heads).nodes
  BY <1>1, FewerHeadsStayAcyclic DEF GraphBuilds
<1> QED BY <1>2 DEF GraphBuilds

LEMMA SameRefsSameHeads ==
    ASSUME UNCHANGED refs
    PROVE  Heads' = Heads
BY DEF Heads, HeadsOf

LEMMA JournaledHeads ==
    ASSUME NEW kind, NEW D \in SUBSET REF, NEW after \in [D -> State],
           \A q \in D : after[q] = None \/ after[q].head \in Heads,
           NEW stop, Journaled(kind, after, stop)
    PROVE  Heads' \subseteq Heads
<1>1. \A q \in REF : refs[q] # None => refs[q].head \in Heads
  BY DEF Heads, HeadsOf
<1>2. refs' = refs \/ refs' = [q \in REF |-> IF q \in D THEN after[q] ELSE refs[q]]
  BY DEF Journaled
<1>3. \A q \in REF : refs'[q] # None => refs'[q].head \in Heads
  BY <1>1, <1>2
<1> QED BY <1>3 DEF Heads, HeadsOf

(* What SealREF does to the heads: nothing, or the head its validation     *)
(* assumed.                                                                *)
LEMMA SealHeads ==
    ASSUME TypeOK, NEW r \in REF, NEW stop \in Stops, SealREF(r, stop)
    PROVE  LET s == candidates[r].seal
           IN  /\ s \in Seal
               /\ objects' = objects \cup {s}
               /\ \E reviewed \in BOOLEAN : Admissible(r, s, reviewed)
               /\ \/ UNCHANGED refs
                  \/ Heads' = ProspectiveHeads(r, s) /\ refs'[r].head = s
<1> DEFINE s == candidates[r].seal
<1>1. /\ s \in Seal /\ objects' = objects \cup {s}
      /\ \E reviewed \in BOOLEAN : Admissible(r, s, reviewed)
  BY DEF SealREF, Written, TypeOK, Candidate
<1>2. CASE UNCHANGED refs
  BY <1>1, <1>2
<1>3. CASE ~UNCHANGED refs
  <2>1. Journaled("seal", [q \in {r} |-> Advanced(r, s)], stop)
    BY <1>3 DEF SealREF
  <2>2. refs' = [q \in REF |-> IF q \in {r} THEN Advanced(r, s) ELSE refs[q]]
    BY <1>3, <2>1 DEF Journaled
  <2>3. Heads' = ProspectiveHeads(r, s)
    BY <1>1, <2>2, PublishedHeads
  <2>4. refs'[r].head = s
    BY <2>2 DEF Advanced
  <2> QED BY <1>1, <2>3, <2>4
<1> QED BY <1>2, <1>3

LEMMA OnlyRecoverClosesStep ==
    TypeOK /\ [Next]_vars => (GraphBuilds /\ ~RecoverStep => GraphBuilds')
<1> SUFFICES ASSUME TypeOK, [Next]_vars, GraphBuilds, ~RecoverStep PROVE GraphBuilds'
  OBVIOUS
<1>a. ASSUME UNCHANGED <<objects, refs>> PROVE GraphBuilds'
  BY <1>a, SameRefsSameHeads, FewerHeadsBuild
<1>1. ASSUME NEW r \in REF, NEW s \in Seal,
             \/ Add(r, s) \/ Link(r, s) \/ Unlink(r, s) \/ SetReview(r, s)
             \/ \E p \in Path : AddLocalSource(r, s, p)
      PROVE  GraphBuilds'
  <2>1. UNCHANGED <<objects, refs>>
    BY <1>1 DEF Add, Link, Unlink, SetReview, AddLocalSource
  <2> QED BY <1>a, <2>1
<1>b. ASSUME NEW r \in REF,
             \/ DiscardCandidate(r) \/ ClearReview(r)
             \/ \E p \in Path : \/ SourceBind(r, p) \/ SourceUnbind(r, p)
                                \/ \E q \in Path : SourceRebind(r, p, q)
      PROVE  GraphBuilds'
  <2>1. UNCHANGED <<objects, refs>>
    BY <1>b DEF DiscardCandidate, ClearReview, SourceBind, SourceUnbind, SourceRebind
  <2> QED BY <1>a, <2>1
<1>2. ASSUME NEW r \in REF, NEW stop \in Stops, SealREF(r, stop)
      PROVE  GraphBuilds'
  <2> DEFINE s == candidates[r].seal
  <2>1. /\ objects' = objects \cup {s}
        /\ \E reviewed \in BOOLEAN : Admissible(r, s, reviewed)
        /\ UNCHANGED refs \/ Heads' = ProspectiveHeads(r, s)
    BY <1>2, SealHeads
  <2>2. CASE UNCHANGED refs
    BY <2>1, <2>2, SameRefsSameHeads, FewerHeadsBuild
  <2>3. CASE Heads' = ProspectiveHeads(r, s)
    BY <2>1, <2>3 DEF Admissible, ProspectiveBuilds, GraphBuilds
  <2> QED BY <2>1, <2>2, <2>3
<1>3. ASSUME NEW r \in REF, NEW t \in TagName, NEW stop \in Stops, CreateTag(r, t, stop)
      PROVE  GraphBuilds'
  <2>1. PICK s \in objects :
           Journaled("tag", [q \in {r} |-> [refs[r] EXCEPT !.tags[t] = s]], stop)
    BY <1>3 DEF CreateTag
  <2>2. refs[r] \in Manifest /\ refs[r] # None /\ s \in Seal /\ UNCHANGED objects
    BY <1>3, <2>1 DEF CreateTag, TypeOK
  <2> DEFINE after == [q \in {r} |-> [refs[r] EXCEPT !.tags[t] = s]]
  <2>3. after \in [{r} -> State]
    BY <2>2 DEF State, Manifest, Tags
  <2>4. after[r].head = refs[r].head
    BY <2>2 DEF Manifest
  <2>5. after[r].head \in Heads
    BY <2>2, <2>4 DEF Heads, HeadsOf
  <2>6. Journaled("tag", after, stop)
    BY <2>1
  <2> HIDE DEF after
  <2>7. Heads' \subseteq Heads
    BY <2>3, <2>5, <2>6, JournaledHeads
  <2> QED BY <2>2, <2>7, FewerHeadsBuild
<1>4. ASSUME NEW old \in REF, NEW new \in REF, NEW stop \in Stops, MoveREF(old, new, stop)
      PROVE  GraphBuilds'
  <2> DEFINE after == [q \in {old, new} |-> IF q = old THEN None ELSE refs[old]]
  <2>1. Journaled("mv", after, stop) /\ UNCHANGED objects /\ refs[old] # None
    BY <1>4 DEF MoveREF
  <2>2. after \in [{old, new} -> State]
    BY DEF State, TypeOK
  <2>3. \A q \in {old, new} : after[q] = None \/ after[q].head \in Heads
    BY <2>1 DEF Heads, HeadsOf
  <2> HIDE DEF after
  <2>4. Heads' \subseteq Heads
    BY <2>1, <2>2, <2>3, JournaledHeads
  <2> QED BY <2>1, <2>4, FewerHeadsBuild
<1>5. ASSUME NEW r \in REF, NEW stop \in Stops, DropREF(r, stop)
      PROVE  GraphBuilds'
  <2> DEFINE after == [q \in {r} |-> None]
  <2>1. Journaled("ref-drop", after, stop) /\ UNCHANGED objects
    BY <1>5 DEF DropREF
  <2>2. after \in [{r} -> State] /\ \A q \in {r} : after[q] = None
    BY DEF State
  <2> HIDE DEF after
  <2>3. Heads' \subseteq Heads
    BY <2>1, <2>2, JournaledHeads
  <2> QED BY <2>1, <2>3, FewerHeadsBuild
<1>6. CASE UNCHANGED vars
  BY <1>a, <1>6 DEF vars
<1> QED BY <1>1, <1>b, <1>2, <1>3, <1>4, <1>5, <1>6 DEF Next, RecoverStep

(* No command but Recover turns a graph that builds into one that does not *)
(* (Repository!OnlyRecoverCloses).                                         *)
THEOREM CommandsKeepTheGraph == Spec => OnlyRecoverCloses
<1>1. TypeOK /\ [Next]_vars => [GraphBuilds /\ ~RecoverStep => GraphBuilds']_vars
  BY OnlyRecoverClosesStep
<1> QED BY <1>1, TypeInit, TypeNext, PTL DEF Spec, OnlyRecoverCloses

(* A record that admits a reviewed Candidate judges the graph its          *)
(* publication creates.                                                    *)
LEMMA AdmittedIsJudged ==
    ASSUME TypeOK, NEW r \in REF, NEW s \in Seal, ProspectiveBuilds(r, s),
           ReviewAdmits(r, s)
    PROVE  Judged(s, Graph(ProspectiveHeads(r, s)))
<1> DEFINE u == Unreviewed(s)
           O == {refs[q].head : q \in {p \in REF \ {r} : refs[p] # None}}
           g == Graph(ProspectiveHeads(r, s))
<1>1. u \in Seal /\ SameLinks(u, s)
  BY UnreviewedForm
<1>2. ProspectiveHeads(r, u) = {u} \cup O /\ ProspectiveHeads(r, s) = {s} \cup O
  BY DEF ProspectiveHeads
<1>3. {u} \cup O \in SUBSET Seal /\ {s} \cup O \in SUBSET Seal
  BY <1>1, <1>2, HeadsAreSeals
<1>4. PICK c \in Body[s].review : /\ Binds(c, Facts(r, s))
                                  /\ c.retained = DOMAIN c.compared
  BY DEF ReviewAdmits
<1>5. /\ Facts(r, s).subject = u
      /\ Facts(r, s).others = {<<q, refs[q].head>> : q \in {p \in REF \ {r} : refs[p] # None}}
      /\ Facts(r, s).compared
            = [t \in CauseClosure(u) |-> NewerLeaves(Graph({u} \cup O), t)]
  BY <1>2 DEF Facts
<1>6. CauseClosure(u) = CauseClosure(s) /\ CauseClosure(s) \subseteq Seal
  BY <1>1, SameLinksSameCauses, CauseClosureCloses
<1>7. /\ c.compared = [t \in CauseClosure(s) |-> NewerLeaves(Graph({u} \cup O), t)]
      /\ c.retained = CauseClosure(s) /\ c.subject = u
  BY <1>4, <1>5, <1>6 DEF Binds
<1>8. g.heads = {s} \cup {o[2] : o \in c.others}
  <2>1. c.others = {<<q, refs[q].head>> : q \in {p \in REF \ {r} : refs[p] # None}}
    BY <1>4, <1>5 DEF Binds
  <2>2. {o[2] : o \in c.others} = O
    <3> DEFINE Q == {p \in REF \ {r} : refs[p] # None}
               Others == {<<q, refs[q].head>> : q \in Q}
    <3>1. ASSUME NEW h \in {o[2] : o \in Others} PROVE h \in O
      <4>1. PICK q \in Q : h = <<q, refs[q].head>>[2]
        OBVIOUS
      <4> QED BY <4>1
    <3>2. ASSUME NEW q \in Q PROVE refs[q].head \in {o[2] : o \in Others}
      <4>1. <<q, refs[q].head>> \in Others /\ <<q, refs[q].head>>[2] = refs[q].head
        OBVIOUS
      <4> HIDE DEF Others
      <4> QED BY <4>1
    <3>3. c.others = Others
      BY <2>1
    <3> HIDE DEF Others
    <3>4. {o[2] : o \in Others} = {refs[q].head : q \in Q}
      BY <3>1, <3>2
    <3> QED BY <3>3, <3>4
  <2>3. g.heads = {s} \cup O
    BY <1>2, <1>3, GraphFields
  <2> QED BY <2>2, <2>3
<1>9. CASE \E e \in g.revisions : e[1] \in {s, u}
  BY <1>7, <1>8, <1>9 DEF Judged
<1>10. CASE \A e \in g.revisions : e[1] \notin {u, s}
  <2>1. s \notin CauseClosure(s) /\ u \notin CauseClosure(s)
    <3>1. g.acyclic /\ Graph({u} \cup O).acyclic
      BY <1>2 DEF ReviewAdmits, ProspectiveBuilds
    <3>2. s \in {s} \cup O /\ u \in {u} \cup O
      OBVIOUS
    <3> HIDE DEF O, u
    <3>3. s \notin CauseClosure(s) /\ u \notin CauseClosure(u)
      BY <1>2, <1>3, <3>1, <3>2, HeadIsNotItsCause
    <3> QED BY <1>6, <3>3
  <2>2. ASSUME NEW t \in CauseClosure(s) PROVE c.compared[t] = NewerLeaves(g, t)
    <3>1. t \in Seal /\ t \notin {u, s}
      BY <1>6, <2>1
    <3>2. \A e \in Graph({s} \cup O).revisions : e[1] \notin {u, s}
      BY <1>2, <1>10
    <3>3. O \in SUBSET Seal
      BY <1>3
    <3>a. u \in Seal /\ s \in Seal /\ SameLinks(u, s)
      BY <1>1
    <3> HIDE DEF u, O
    <3>4. NewerLeaves(Graph({u} \cup O), t) = NewerLeaves(Graph({s} \cup O), t)
      BY <3>a, <3>1, <3>2, <3>3, ExchangedLeaves, ZenonT(60)
    <3> QED BY <1>2, <1>7, <3>4
  <2> QED BY <1>7, <1>8, <2>2 DEF Judged
<1> QED BY <1>9, <1>10

LEMMA FreshStep ==
    TypeOK /\ [Next]_vars =>
        \A r \in REF : \A stop \in Stops :
            LET h == refs'[r].head
                g == Graph(Heads')
            IN  SealREF(r, stop) /\ refs' # refs /\ ~Body[h].draft
                => \/ StaleDirect(g, h) = {} /\ StaleTransitive(g, h) = {}
                   \/ Judged(h, g)
<1> SUFFICES ASSUME TypeOK, NEW r \in REF, NEW stop \in Stops,
                    SealREF(r, stop), refs' # refs, ~Body[refs'[r].head].draft,
                    ~Judged(refs'[r].head, Graph(Heads'))
             PROVE  /\ StaleDirect(Graph(Heads'), refs'[r].head) = {}
                    /\ StaleTransitive(Graph(Heads'), refs'[r].head) = {}
  OBVIOUS
<1> DEFINE s == candidates[r].seal
           H == ProspectiveHeads(r, s)
<1>1. s \in Seal /\ Heads' = H /\ refs'[r].head = s
      /\ \E reviewed \in BOOLEAN : Admissible(r, s, reviewed)
  BY SealHeads
<1>2. H \in SUBSET Seal
  BY <1>1, HeadsAreSeals
<1>3. PICK reviewed \in BOOLEAN : Admissible(r, s, reviewed)
  BY <1>1
<1>4. ~reviewed
  BY <1>1, <1>3, AdmittedIsJudged DEF Admissible
<1>5. CauseClosure(s) \subseteq Graph(H).leaves
  BY <1>1, <1>3, <1>4, RootHasNoCauses DEF Admissible
<1> HIDE DEF H, s
<1>6. StaleDirect(Graph(H), s) = {} /\ StaleTransitive(Graph(H), s) = {}
  BY <1>1, <1>2, <1>5, CurrentCausesAreFresh
<1> QED BY <1>1, <1>6

(* A normal publication installs a head with no stale Cause at any depth   *)
(* in the graph it creates, or one whose review judged exactly that graph  *)
(* (Repository!FreshAtPublication).                                        *)
THEOREM PublicationIsFresh == Spec => FreshAtPublication
<1> QED BY FreshStep, TypeInit, TypeNext, PTL DEF Spec, FreshAtPublication

(* While a REF keeps its Candidate, only its own publication or a recovery *)
(* moves its head.                                                         *)
LEMMA StrandsStep ==
    TypeOK /\ [Next]_vars =>
        \A r \in REF :
            Publishable(r) /\ candidates'[r] = candidates[r] /\ ~Publishable(r)'
            => \/ RecoverStep
               \/ \E stop \in Stops : SealREF(r, stop)
<1> SUFFICES ASSUME TypeOK, [Next]_vars, NEW r \in REF,
                    Publishable(r), candidates'[r] = candidates[r], ~RecoverStep,
                    ~ \E stop \in Stops : SealREF(r, stop)
             PROVE  Publishable(r)'
  OBVIOUS
<1>a. ASSUME HeadOf(r)' = HeadOf(r) PROVE Publishable(r)'
  BY <1>a DEF Publishable, ExpectationHolds
<1>b. ASSUME refs'[r] = refs[r] PROVE Publishable(r)'
  BY <1>a, <1>b DEF HeadOf
<1>c. ASSUME NEW kind, NEW D \in SUBSET REF, NEW after, DOMAIN after = D,
             NEW stop, Journaled(kind, after, stop), r \notin D
      PROVE  refs'[r] = refs[r]
  BY <1>c DEF Journaled
<1>1. CASE UNCHANGED refs
  BY <1>1, <1>b
<1>2. ASSUME NEW q \in REF, NEW stop \in Stops, SealREF(q, stop)
      PROVE  Publishable(r)'
  <2> DEFINE after == [p \in {q} |-> Advanced(q, candidates[q].seal)]
  <2>1. q # r /\ (UNCHANGED refs \/ Journaled("seal", after, stop))
    BY <1>2 DEF SealREF
  <2>2. DOMAIN after = {q}
    OBVIOUS
  <2> HIDE DEF after
  <2> QED BY <1>b, <1>c, <2>1, <2>2
<1>3. ASSUME NEW q \in REF, NEW t \in TagName, NEW stop \in Stops, CreateTag(q, t, stop)
      PROVE  Publishable(r)'
  <2>1. PICK s \in objects :
           Journaled("tag", [p \in {q} |-> [refs[q] EXCEPT !.tags[t] = s]], stop)
    BY <1>3 DEF CreateTag
  <2>2. refs[q] \in Manifest /\ refs[q] # None /\ s \in Seal
    BY <1>3, <2>1 DEF CreateTag, TypeOK
  <2> DEFINE m     == [refs[q] EXCEPT !.tags[t] = s]
             after == [p \in {q} |-> m]
  <2>3. m \in Manifest /\ m.head = refs[q].head
    BY <2>2 DEF Manifest, Tags
  <2>4. m # None
    BY <2>3, NoneIsNothing
  <2>5. Journaled("tag", after, stop)
    BY <2>1
  <2> HIDE DEF m
  <2>6. CASE q # r
    BY <1>b, <1>c, <2>5, <2>6
  <2>7. CASE q = r
    <3>1. refs'[r] = refs[r] \/ refs'[r] = m
      BY <2>5, <2>7 DEF Journaled
    <3> QED BY <1>a, <2>2, <2>3, <2>4, <2>7, <3>1 DEF HeadOf
  <2> QED BY <2>6, <2>7
<1>4. ASSUME NEW old \in REF, NEW new \in REF, NEW stop \in Stops, MoveREF(old, new, stop)
      PROVE  Publishable(r)'
  <2> DEFINE after == [q \in {old, new} |-> IF q = old THEN None ELSE refs[old]]
  <2>1. Journaled("mv", after, stop) /\ r \notin {old, new}
    BY <1>4 DEF MoveREF, Unattended, Publishable
  <2>2. DOMAIN after = {old, new}
    OBVIOUS
  <2> HIDE DEF after
  <2> QED BY <1>b, <1>c, <2>1, <2>2
<1>5. ASSUME NEW q \in REF, NEW stop \in Stops, DropREF(q, stop)
      PROVE  Publishable(r)'
  <2> DEFINE after == [p \in {q} |-> None]
  <2>1. Journaled("ref-drop", after, stop) /\ r \notin {q}
    BY <1>5 DEF DropREF, Unattended, Publishable
  <2>2. DOMAIN after = {q}
    OBVIOUS
  <2> HIDE DEF after
  <2> QED BY <1>b, <1>c, <2>1, <2>2
<1>6. ASSUME NEW q \in REF, NEW s \in Seal,
             \/ Add(q, s) \/ Link(q, s) \/ Unlink(q, s) \/ SetReview(q, s)
             \/ \E p \in Path : AddLocalSource(q, s, p)
      PROVE  UNCHANGED refs
  BY <1>6 DEF Add, Link, Unlink, SetReview, AddLocalSource
<1>7. ASSUME NEW q \in REF,
             \/ DiscardCandidate(q) \/ ClearReview(q)
             \/ \E p \in Path : \/ SourceBind(q, p) \/ SourceUnbind(q, p)
                                \/ \E w \in Path : SourceRebind(q, p, w)
      PROVE  UNCHANGED refs
  BY <1>7 DEF DiscardCandidate, ClearReview, SourceBind, SourceUnbind, SourceRebind
<1>8. CASE UNCHANGED vars
  BY <1>1, <1>8 DEF vars
<1> QED BY <1>1, <1>2, <1>3, <1>4, <1>5, <1>6, <1>7, <1>8 DEF Next, RecoverStep

(* Only recovery takes an unedited Candidate's expected head away from it  *)
(* (Repository!OnlyRecoverStrands).                                        *)
THEOREM CandidatesAreNotStranded == Spec => OnlyRecoverStrands
<1> QED BY StrandsStep, TypeInit, TypeNext, PTL DEF Spec, OnlyRecoverStrands

-----------------------------------------------------------------------------
(* Stale facts of every reachable repository.                              *)

(* The stale labels miss nothing (Repository!StaleIsComplete). *)
THEOREM StaleMissesNothing == Spec => []StaleIsComplete
<1>1. TypeOK => StaleIsComplete
  BY HeadsAreSeals, StaleFactsAreComplete DEF StaleIsComplete
<1> QED BY <1>1, TypeCorrect, PTL

(* Stale work never leaves the frontier empty while the graph builds       *)
(* (Repository!StaleHasFrontier).                                          *)
THEOREM FrontierIsNeverEmpty == Spec => []StaleHasFrontier
<1>1. TypeOK => StaleHasFrontier
  BY HeadsAreSeals, FrontierExists DEF StaleHasFrontier
<1> QED BY <1>1, TypeCorrect, PTL

-----------------------------------------------------------------------------
(* The commands implement the REF namespace.                               *)

LEMMA SameState == /\ Namespace!State = State /\ Namespace!Manifest = Manifest
                   /\ Namespace!NoTags = NoTags
BY DEF Namespace!State, State, Namespace!Manifest, Manifest, Namespace!Tags, Tags,
       Namespace!NoTags, NoTags

(* A journaled command is a Change of the abstract namespace: recorded, and*)
(* then installed as a whole or not at all.                                *)
LEMMA JournaledIsChange ==
    ASSUME TypeOK, NEW kind, NEW D \in SUBSET REF, NEW after, DOMAIN after = D,
           NEW stop, Journaled(kind, after, stop)
    PROVE  Namespace!Change(after)
<1> DEFINE c   == [r \in DOMAIN after |-> [before |-> refs[r], after |-> after[r]]]
           rec == [kind |-> kind,
                   state |-> IF stop >= Committed THEN "COMMITTED" ELSE "PREPARED",
                   transitions |-> c]
<1>1. journal' = Append(journal, rec) /\ journal \in Seq(Record)
  BY DEF Journaled, TypeOK
<1>2. rec.transitions = c
  OBVIOUS
<1>3. \A r \in DOMAIN c : c[r].after = after[r]
  OBVIOUS
<1>4. DOMAIN c = DOMAIN after
  OBVIOUS
<1>5. refs' \in {refs, Namespace!Installed(c, "after")}
  <2>1. refs' = refs \/ refs' = [r \in REF |-> IF r \in DOMAIN after THEN after[r] ELSE refs[r]]
    BY DEF Journaled
  <2>2. Namespace!Installed(c, "after")
           = [r \in REF |-> IF r \in DOMAIN after THEN after[r] ELSE refs[r]]
    BY <1>3, <1>4 DEF Namespace!Installed
  <2> QED BY <2>1, <2>2
<1> HIDE DEF rec, c
<1>6. PICK n \in DOMAIN journal' :
         /\ DOMAIN journal' = DOMAIN journal \cup {n}
         /\ \A k \in DOMAIN journal : journal'[k] = journal[k]
         /\ journal'[n] = rec
  <2>1. DOMAIN journal' = 1 .. Len(journal) + 1 /\ DOMAIN journal = 1 .. Len(journal)
        /\ Len(journal) \in Nat
    BY <1>1
  <2>2. \A k \in DOMAIN journal : journal'[k] = journal[k]
    BY <1>1
  <2>3. journal'[Len(journal) + 1] = rec
    BY <1>1
  <2> QED BY <2>1, <2>2, <2>3
<1>7. Offered' = Offered \cup {c}
  <2>1. Offered' = {journal'[k].transitions : k \in DOMAIN journal'}
    BY DEF Offered
  <2>2. Offered = {journal[k].transitions : k \in DOMAIN journal}
    BY DEF Offered
  <2>3. journal'[n].transitions = c
    BY <1>2, <1>6
  <2>4. \A k \in DOMAIN journal : journal'[k].transitions = journal[k].transitions
    BY <1>6
  <2>5. DOMAIN journal' = DOMAIN journal \cup {n}
    BY <1>6
  <2>6. \A v : v \in Offered' <=> \E k \in DOMAIN journal' : v = journal'[k].transitions
    BY <2>1
  <2>7. \A v : v \in Offered <=> \E k \in DOMAIN journal : v = journal[k].transitions
    BY <2>2
  <2>8. \A v : v \in Offered' => v \in Offered \cup {c}
    BY <2>3, <2>4, <2>5, <2>6, <2>7
  <2>9. \A v : v \in Offered \cup {c} => v \in Offered'
    BY <2>3, <2>4, <2>5, <2>6, <2>7
  <2> QED BY <2>8, <2>9
<1> QED BY <1>5, <1>7 DEF Namespace!Change, c

LEMMA NamespaceInit == Init => Namespace!Init
<1> SUFFICES ASSUME Init PROVE Namespace!Init
  OBVIOUS
<1>1. refs \in [REF -> State]
  BY TypeInit DEF TypeOK, State
<1>2. Offered = {}
  BY DEF Init, Offered
<1> QED BY <1>1, <1>2, SameState DEF Namespace!Init

LEMMA NamespaceNext == TypeOK /\ [Next]_vars => [Namespace!Next]_(Namespace!vars)
<1> SUFFICES ASSUME TypeOK, [Next]_vars PROVE [Namespace!Next]_(Namespace!vars)
  OBVIOUS
<1>a. ASSUME UNCHANGED <<refs, journal>> PROVE UNCHANGED Namespace!vars
  BY <1>a DEF Namespace!vars, Offered
<1>1. ASSUME NEW r \in REF, NEW stop \in Stops, SealREF(r, stop)
      PROVE  [Namespace!Next]_(Namespace!vars)
  <2> DEFINE s == candidates[r].seal
             after == [q \in {r} |-> Advanced(r, s)]
  <2>1. s \in Seal
    BY <1>1, SealHeads
  <2>2. CASE UNCHANGED <<refs, journal>>
    BY <1>a, <2>2
  <2>3. CASE Journaled("seal", after, stop)
    <3>1. Namespace!Change(after)
      BY <2>3, JournaledIsChange
    <3>2. Namespace!Publish(r, s)
      BY <3>1, SameState DEF Namespace!Publish, Advanced
    <3> QED BY <2>1, <3>2 DEF Namespace!Next
  <2> QED BY <1>1, <2>2, <2>3 DEF SealREF
<1>2. ASSUME NEW r \in REF, NEW t \in TagName, NEW stop \in Stops, CreateTag(r, t, stop)
      PROVE  [Namespace!Next]_(Namespace!vars)
  <2>1. PICK s \in objects :
           Journaled("tag", [q \in {r} |-> [refs[r] EXCEPT !.tags[t] = s]], stop)
    BY <1>2 DEF CreateTag
  <2>2. refs[r] # None /\ refs[r].tags[t] = None /\ s \in Seal
    BY <1>2, <2>1 DEF CreateTag, TypeOK
  <2>3. Namespace!Change([q \in {r} |-> [refs[r] EXCEPT !.tags[t] = s]])
    BY <2>1, JournaledIsChange
  <2>4. Namespace!Bind(r, t, s)
    BY <2>2, <2>3 DEF Namespace!Bind
  <2> QED BY <2>2, <2>4 DEF Namespace!Next
<1>3. ASSUME NEW old \in REF, NEW new \in REF, NEW stop \in Stops, MoveREF(old, new, stop)
      PROVE  [Namespace!Next]_(Namespace!vars)
  <2>1. /\ Journaled("mv", [q \in {old, new} |-> IF q = old THEN None ELSE refs[old]], stop)
        /\ old # new /\ refs[old] # None /\ refs[new] = None
    BY <1>3 DEF MoveREF
  <2>2. Namespace!Change([q \in {old, new} |-> IF q = old THEN None ELSE refs[old]])
    BY <2>1, JournaledIsChange
  <2>3. Namespace!Rename(old, new)
    BY <2>1, <2>2 DEF Namespace!Rename
  <2> QED BY <2>3 DEF Namespace!Next
<1>4. ASSUME NEW r \in REF, NEW stop \in Stops, DropREF(r, stop)
      PROVE  [Namespace!Next]_(Namespace!vars)
  <2>1. Journaled("ref-drop", [q \in {r} |-> None], stop) /\ refs[r] # None
    BY <1>4 DEF DropREF
  <2>2. Namespace!Change([q \in {r} |-> None])
    BY <2>1, JournaledIsChange
  <2> QED BY <2>1, <2>2 DEF Namespace!Drop, Namespace!Next
<1>5. ASSUME NEW k \in DOMAIN journal, Recover(k)
      PROVE  [Namespace!Next]_(Namespace!vars)
  <2> DEFINE c == journal[k].transitions
  <2>1. c \in Offered /\ UNCHANGED Offered
    BY <1>5 DEF Offered, Recover
  <2>2. \A r \in DOMAIN c : TransitionState(r, c[r]) = "AFTER"
    BY <1>5 DEF Recover, RecoveryStatus
  <2>3. \A r \in DOMAIN c : refs[r] = c[r].after
    BY <2>2 DEF TransitionState
  <2>4. Namespace!At(c, "after")
    BY <2>3 DEF Namespace!At
  <2>5. refs' = Namespace!Installed(c, "before")
    BY <1>5 DEF Recover, Namespace!Installed
  <2>6. Namespace!Restore(c)
    BY <2>1, <2>4, <2>5 DEF Namespace!Restore
  <2> QED BY <2>1, <2>6 DEF Namespace!Next
<1>6. ASSUME NEW q \in REF, NEW s \in Seal,
             \/ Add(q, s) \/ Link(q, s) \/ Unlink(q, s) \/ SetReview(q, s)
             \/ \E p \in Path : AddLocalSource(q, s, p)
      PROVE  UNCHANGED <<refs, journal>>
  BY <1>6 DEF Add, Link, Unlink, SetReview, AddLocalSource
<1>7. ASSUME NEW q \in REF,
             \/ DiscardCandidate(q) \/ ClearReview(q)
             \/ \E p \in Path : \/ SourceBind(q, p) \/ SourceUnbind(q, p)
                                \/ \E w \in Path : SourceRebind(q, p, w)
      PROVE  UNCHANGED <<refs, journal>>
  BY <1>7 DEF DiscardCandidate, ClearReview, SourceBind, SourceUnbind, SourceRebind
<1>8. CASE UNCHANGED vars
  BY <1>a, <1>8 DEF vars
<1> QED BY <1>a, <1>1, <1>2, <1>3, <1>4, <1>5, <1>6, <1>7, <1>8 DEF Next

(* Repository implements RefNamespace: every command, stopped anywhere, is *)
(* one whole recorded change or none, and Recover restores one exactly     *)
(* (Repository!NamespaceSpec).                                             *)
THEOREM ImplementsNamespace == Spec => NamespaceSpec
<1> QED BY NamespaceInit, NamespaceNext, TypeInit, TypeNext, PTL
        DEF Spec, NamespaceSpec, Namespace!Spec
=============================================================================
