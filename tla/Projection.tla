------------------------------- MODULE Projection -------------------------------
(***************************************************************************)
(* What the migration from format 4 makes of a history: project_v5.go.     *)
(* A format-4 Seal names one parent revision for everybody; in format 5 a  *)
(* Cause Link says which revisions of its target came before.  Seals that  *)
(* only differed in their parents become one, and revisions between them   *)
(* are dropped: what is lost is listed.                                    *)
(*                                                                         *)
(* A record is named by its bytes, so it is its own name here.  An old     *)
(* Seal is a number instead: no two have one payload, and what they build  *)
(* on came first.  A content stands for its attachments too.               *)
(***************************************************************************)
EXTENDS Naturals, FiniteSets

CONSTANTS None \* no parent, manifest, tag, document or repository

VARIABLES history \* the payload of every format-4 Seal

(* canonical.DecodeSeal *)
Payload(s) == history[s]
Parent(s)  == Payload(s).parent
Targets(s) == {l.target : l \in Payload(s).links}
Needs(s)   == ({Parent(s)} \ {None}) \cup Targets(s)

(* sealClosure.add *)
Closure(roots) ==
    LET reach[s \in DOMAIN history] == {s} \cup UNION {reach[t] : t \in Needs(s)}
    IN  UNION {reach[s] : s \in roots}

-----------------------------------------------------------------------------
(* The records of format 5. *)
Material(content)         == [content |-> content]
Provenance(root, draft, links) == [root |-> root, draft |-> draft, links |-> links]
NewSeal(material, provenance)  == [material |-> material, provenance |-> provenance]

(* What bytes read as: classifyFsckObjects, and the roles of a document.   *)
IsMaterial(blob)   == DOMAIN blob = {"content"}
IsProvenance(blob) == DOMAIN blob = {"root", "draft", "links"}
IsSeal(blob)       == DOMAIN blob = {"material", "provenance"}
Roles(blobs) == {[kind |-> "material", id |-> b] : b \in {b \in blobs : IsMaterial(b)}}
           \cup {[kind |-> "provenance", id |-> b] : b \in {b \in blobs : IsProvenance(b)}}
           \cup {[kind |-> "seal", id |-> b] : b \in {b \in blobs : IsSeal(b)}}

-----------------------------------------------------------------------------
(* Mutant: a link whose target is merged keeps the revisions of one only.  *)
PreviousOfOne(group, target, new) ==
    LET l == CHOOSE l \in group : TRUE
    IN  {new[p] : p \in {Parent(l.target)} \ {None}} \ {target}

(* Mutant: when parent and child are merged, the link precedes itself. *)
PreviousWithTarget(group, target, new) == {new[p] : p \in {Parent(l.target) : l \in group} \ {None}}

Previous(group, target, new) ==
    {new[p] : p \in {Parent(l.target) : l \in group} \ {None}} \ {target}

(* projectCauseLinks: the links to old Seals that are one now are one link.*)
ProjectCauseLinks(s, new) ==
    {LET group == {l \in Payload(s).links : new[l.target] = target}
     IN  [target |-> target, previous |-> Previous(group, target, new),
          messages |-> {l.message : l \in group}] : target \in {new[t] : t \in Targets(s)}}

(* projectOneSeal, in the order of topologicalSealOrder. *)
OldToNew(seals) ==
    LET new[s \in seals] ==
            NewSeal(Material(Payload(s).content),
                    Provenance(Payload(s).links = {}, Payload(s).draft, ProjectCauseLinks(s, new)))
    IN  new

-----------------------------------------------------------------------------
Assertion(observer, child) == [observer |-> observer, child |-> child, parent |-> Parent(child)]
Observed(seals) == {a \in {Assertion(o, c) : o \in seals, c \in seals} :
                        a.child \in Targets(a.observer) /\ a.parent # None}

UnobservedParents(seals) ==
    {[child |-> c, parent |-> Parent(c)] :
        c \in {c \in seals : Parent(c) # None /\ \A s \in seals : c \notin Targets(s)}}

Merged(seals, new) ==
    {m \in {[observer |-> o, olds |-> {t \in Targets(o) : new[t] = new[u]}, target |-> new[u]] :
               o \in seals, u \in seals} :
        Cardinality(m.olds) > 1}

Semantic(seals, new) ==
    [materialized |-> {a \in Observed(seals) : new[a.parent] # new[a.child]},
     collapsed    |-> {a \in Observed(seals) : new[a.parent] = new[a.child]},
     unobserved   |-> UnobservedParents(seals),
     merged       |-> Merged(seals, new)]

(* The edges of the graph of format 5: a Seal builds on its Causes, these  *)
(* on their previous revisions.                                            *)
BuildsOn(seals) ==
    LET links == UNION {s.provenance.links : s \in seals}
    IN  UNION {{s} \X {l.target : l \in s.provenance.links} : s \in seals}
            \cup UNION {{l.target} \X l.previous : l \in links}
HasCycle(edges) == \E ring \in SUBSET {e[1] : e \in edges} \ {{}} :
                      \A x \in ring : \E y \in ring : <<x, y>> \in edges

(* validateProjectedGraph *)
ProjectedGraphHolds(new) == ~HasCycle(BuildsOn({new[s] : s \in DOMAIN new}))
=============================================================================
