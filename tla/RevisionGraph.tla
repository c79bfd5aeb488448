---------------------------- MODULE RevisionGraph ----------------------------
(***************************************************************************)
(* The derived graph of internal/repository/observation_v5.go and          *)
(* revision_graph.go.  Nothing in it is stored: every command rebuilds it  *)
(* from the heads of the current REFs and the immutable Seals they reach.  *)
(*                                                                         *)
(* A Seal is named by the hash of its bytes, so a Seal name IS its body:   *)
(* Body is a constant function.  Every operator is a function of the set H *)
(* of observed heads.  Reachability is defined as the least closed set, so *)
(* that the same definitions can be evaluated by TLC and reasoned about by *)
(* TLAPS without recursion.                                                *)
(***************************************************************************)
EXTENDS FiniteSets

CONSTANTS Seal,     \* the SealIDs of the instance
          Content,  \* the Material payloads a Seal can name
          Claim,    \* the historical review records a Seal can carry
          Body      \* what the bytes of each Seal say

(* One complete Cause Link: an exact target and the previous revisions of  *)
(* that target which the author of the observing Seal asserts.             *)
CauseLink == [target : Seal, previous : SUBSET Seal]

SealBody == [content : Content, draft : BOOLEAN, root : BOOLEAN,
             links : SUBSET CauseLink, review : SUBSET Claim]

(* domain/v5/validate.go NormalizeProvenance and normalizeCauseLinks: a    *)
(* root has no Cause Link, a non-root has at least one, targets are unique.*)
(* Attachment names are unique, so there is at most one review.            *)
Canonical(b) == /\ b.root <=> b.links = {}
                /\ \A k, l \in b.links : k.target = l.target => k = l
                /\ \A c, d \in b.review : c = d

ASSUME BodyAssumption == /\ Body \in [Seal -> SealBody]
                         /\ \A s \in Seal : Canonical(Body[s])
                         /\ \A s, t \in Seal : Body[s] = Body[t] => s = t

-----------------------------------------------------------------------------
Targets(s)  == {l.target : l \in Body[s].links}
Asserted(s) == UNION {l.previous : l \in Body[s].links}

(* The Seals reachable from T along the edges E, members of T included.    *)
Reach(E, T) ==
    LET Follows(S) == \A e \in E : e[1] \in S => e[2] \in S
        closed     == {S \in SUBSET Seal : T \subseteq S /\ Follows(S)}
    IN  {s \in Seal : \A S \in closed : s \in S}

(* The edges a set of nodes contributes: to its Causes, and from the       *)
(* target of each of its Cause Links to the asserted previous revisions.   *)
CauseEdges(nodes)    == UNION {{s} \X Targets(s) : s \in nodes}
RevisionEdges(nodes) ==
    UNION {UNION {{l.target} \X l.previous : l \in Body[s].links} : s \in nodes}

(* The nodes buildObservedGraph visits from the heads H. *)
Nodes(H) == Reach(UNION {{s} \X (Targets(s) \cup Asserted(s)) : s \in Seal}, H)

(* validateAcyclic: no cycle and no self edge, that is, every set of nodes *)
(* has a member without a successor in the set.                            *)
IsAcyclic(nodes, edges) ==
    \A C \in SUBSET nodes : C # {} => \E s \in C : \A t \in C : <<s, t>> \notin edges

(* isActiveLeaf: active, and no active Seal has it as a previous revision. *)
Leaves(active, revisions) == {s \in active : \A t \in active : <<t, s>> \notin revisions}

(* The observedGraph a command builds; deriveActive starts from the heads  *)
(* and follows revision edges only.                                        *)
GraphOf(H) ==
    LET nodes     == Nodes(H)
        revisions == RevisionEdges(nodes)
        active    == Reach(revisions, H)
    IN  [heads     |-> H,
         nodes     |-> nodes,
         revisions |-> revisions,
         acyclic   |-> IsAcyclic(nodes, CauseEdges(nodes) \cup revisions),
         active    |-> active,
         leaves    |-> Leaves(active, revisions)]

(* The graph of every head set: a table TLC fills once.                    *)
Graphs   == {GraphOf(H) : H \in SUBSET Seal}
Graph(H) == CHOOSE g \in Graphs : g.heads = H

(* The strict Cause closure of every Seal, of any depth; the same.         *)
CauseClosures   == {[seal |-> s, causes |-> Reach(CauseEdges(Seal), Targets(s))] : s \in Seal}
CauseClosure(s) == (CHOOSE c \in CauseClosures : c.seal = s).causes

(* revisionReachable: the scope of a REF@SEAL selector. *)
RevisionClosure(g, h) == Reach(g.revisions, {h})

(* reviewComparisonLeaves: the active leaves that revise t, t included.    *)
NewerLeaves(g, t) == g.leaves \cap Reach({<<e[2], e[1]>> : e \in g.revisions}, {t})

-----------------------------------------------------------------------------
(* staleFacts and firstStalePaths, for a head h of the graph g. *)
StaleSelf(g, h)   == h \in g.active \ g.leaves
StaleDirect(g, h) == Targets(h) \ g.leaves

(* Mutant: the walk looks at the direct Causes only. *)
ShallowWalk(g, h) == Targets(h)

(* The Seals a Cause walk from h reaches when it stops at the first one    *)
(* that is not an active leaf.                                             *)
CurrentWalk(g, h) == Reach(CauseEdges(g.leaves), Targets(h))

StaleTransitive(g, h) ==
    IF StaleDirect(g, h) # {} THEN {} ELSE CurrentWalk(g, h) \ g.leaves

IsStale(g, h) == \/ StaleSelf(g, h)
                 \/ StaleDirect(g, h) # {}
                 \/ StaleTransitive(g, h) # {}

StaleHeads(g) == {h \in g.heads : IsStale(g, h)}

(* Mutant: a stale head counts among what it rests on. *)
ReflexiveFrontier(g) == LET stale == StaleHeads(g)
                        IN  {h \in stale : ({h} \cup CauseClosure(h)) \cap stale = {}}

(* Stale with --frontier: no stale head in the strict Cause closure.       *)
Frontier(g) == LET stale == StaleHeads(g)
               IN  {h \in stale : CauseClosure(h) \cap stale = {}}
=============================================================================
