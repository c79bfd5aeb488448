----------------------------- MODULE TransferProofs -----------------------------
(***************************************************************************)
(* Theorems about Projection and Transfer, for every format-4 history,     *)
(* every set of REFs and any number of changes: extraction fails for no    *)
(* gap of its own and is bound to one moment, the projection keeps what a  *)
(* history means, and a loaded repository and an answered receipt are what *)
(* they say.                                                               *)
(*                                                                         *)
(* Closure and OldToNew are defined by recursion along a history.  What a  *)
(* Seal names came before it, so a least Seal for which there is no such   *)
(* function, or that reaches too much, cannot exist.                       *)
(***************************************************************************)
EXTENDS Transfer, TLAPS

-----------------------------------------------------------------------------
WF == INSTANCE WellFoundedInduction

LEMMA LeastMember ==
    ASSUME NEW T \in SUBSET Nat, T # {}
    PROVE  \E n \in T : \A m \in T : n <= m
<1> DEFINE R == {ss \in Nat \X Nat : ss[1] < ss[2]}
<1>1. WF!IsWellFoundedOn(R, Nat)
  BY WF!NatLessThanWellFounded DEF WF!OpToRel
<1>2. PICK n \in T : \A m \in T : ~ (<<m, n>> \in R)
  <2> HIDE DEF R
  <2> QED BY <1>1, WF!WFMin
<1>3. \A m \in T : ~(m < n)
  BY <1>2
<1> QED BY <1>3

(* A history: what a Seal needs came before it. *)
HistoryHolds ==
    /\ Len(history) \in Nat /\ Old = 1..Len(history)
    /\ \A s \in Old : /\ Parent(s) \in 1..(s - 1) \cup {None}
                      /\ Targets(s) \subseteq 1..(s - 1)

LEMMA NeedsCameBefore ==
    ASSUME HistoryHolds, NEW s \in Old
    PROVE  /\ \A t \in Needs(s) : t \in Nat /\ t < s /\ t \in Old
           /\ \A t \in Targets(s) : t \in Nat /\ t < s /\ t \in Old
           /\ Parent(s) # None => Parent(s) \in Nat /\ Parent(s) < s /\ Parent(s) \in Old
<1>1. s \in 1..Len(history) /\ Len(history) \in Nat /\ Old = 1..Len(history)
  BY DEF HistoryHolds
<1>2. Parent(s) \in 1..(s - 1) \cup {None} /\ Targets(s) \subseteq 1..(s - 1)
  BY DEF HistoryHolds
<1>3. \A t \in 1..(s - 1) : t \in Nat /\ t < s /\ t \in Old
  BY <1>1
<1> QED BY <1>2, <1>3 DEF Needs

-----------------------------------------------------------------------------
(* The closure of a Seal. *)
Closed(S) == \A s \in S : Needs(s) \subseteq S
Reached(reach, s) == {s} \cup UNION {reach[t] : t \in Needs(s)}

LEMMA ReachExists ==
    ASSUME HistoryHolds, NEW n \in 0..Len(history)
    PROVE  \E reach : reach = [s \in 1..n |-> Reached(reach, s)]
<1> DEFINE Unreached == {k \in 0..Len(history) : ~\E reach : reach = [s \in 1..k |-> Reached(reach, s)]}
<1>1. SUFFICES ASSUME Unreached # {} PROVE FALSE
  BY <1>1
<1>a. Len(history) \in Nat /\ Old = 1..Len(history)
  BY DEF HistoryHolds
<1>2. PICK k \in Unreached : \A j \in Unreached : k <= j
  <2>1. Unreached \in SUBSET Nat
    BY <1>a
  <2> HIDE DEF Unreached
  <2> QED BY <1>1, <2>1, LeastMember
<1>3. k # 0
  <2>1. ASSUME NEW reach PROVE [s \in 1..0 |-> Reached(reach, s)] = <<>>
    OBVIOUS
  <2>2. ASSUME k = 0 PROVE FALSE
    <3>1. <<>> = [s \in 1..0 |-> Reached(<<>>, s)]
      BY <2>1
    <3> QED BY <3>1, <2>2
  <2> QED BY <2>2
<1>4. k \in 1..Len(history) /\ k - 1 \in 0..Len(history) /\ k - 1 \notin Unreached
  BY <1>a, <1>2, <1>3
<1>5. PICK f : f = [s \in 1..(k - 1) |-> Reached(f, s)]
  BY <1>4
<1> DEFINE g == [s \in 1..k |-> IF s = k THEN Reached(f, k) ELSE f[s]]
<1>6. \A s \in 1..k : Reached(g, s) = Reached(f, s)
  <2> SUFFICES ASSUME NEW s \in 1..k PROVE Reached(g, s) = Reached(f, s)
    OBVIOUS
  <2>1. ASSUME NEW t \in Needs(s) PROVE g[t] = f[t]
    <3>1. s \in Old
      BY <1>a, <1>4
    <3>2. t \in Nat /\ t < s /\ t \in Old
      BY <3>1, NeedsCameBefore
    <3>3. t \in 1..k /\ t # k
      BY <1>a, <1>4, <3>2
    <3> QED BY <3>3
  <2> HIDE DEF g
  <2> QED BY <2>1 DEF Reached
<1>7. \A s \in 1..k : g[s] = Reached(g, s)
  <2> SUFFICES ASSUME NEW s \in 1..k PROVE g[s] = Reached(f, s)
    BY <1>6
  <2>1. CASE s = k
    BY <2>1
  <2>2. CASE s # k
    <3>1. s \in 1..(k - 1) /\ g[s] = f[s]
      BY <1>4, <2>2
    <3> HIDE DEF g
    <3> QED BY <3>1, <1>5
  <2> QED BY <2>1, <2>2
<1>8. g = [s \in 1..k |-> Reached(g, s)]
  <2>1. g = [s \in 1..k |-> g[s]]
    OBVIOUS
  <2> HIDE DEF g
  <2> QED BY <1>7, <2>1
<1> HIDE DEF g
<1> QED BY <1>2, <1>8

Reach == CHOOSE reach : reach = [s \in Old |-> Reached(reach, s)]

LEMMA ReachUnfolds ==
    ASSUME HistoryHolds
    PROVE  /\ Reach = [s \in Old |-> Reached(Reach, s)]
           /\ \A roots : Closure(roots) = UNION {Reach[s] : s \in roots}
<1>1. Len(history) \in 0..Len(history) /\ Old = 1..Len(history)
  BY DEF HistoryHolds
<1>2. \E reach : reach = [s \in Old |-> Reached(reach, s)]
  BY <1>1, ReachExists
<1>3. Reach = [s \in Old |-> Reached(Reach, s)]
  BY <1>2 DEF Reach
<1>4. \A roots : Closure(roots) = UNION {Reach[s] : s \in roots}
  BY DEF Closure, Reach, Reached, Old
<1> QED BY <1>3, <1>4

(* What is reached is of the history, with all it needs, ...               *)
LEMMA ReachIsClosed ==
    ASSUME HistoryHolds, NEW s \in Old
    PROVE  Reach[s] \subseteq Old /\ Closed(Reach[s])
<1> DEFINE Open == {k \in Old : ~(Reach[k] \subseteq Old /\ Closed(Reach[k]))}
<1>1. SUFFICES ASSUME Open # {} PROVE FALSE
  BY <1>1
<1>2. PICK k \in Open : \A j \in Open : k <= j
  <2>1. Open \in SUBSET Nat
    BY DEF HistoryHolds
  <2> HIDE DEF Open
  <2> QED BY <1>1, <2>1, LeastMember
<1>3. Reach[k] = {k} \cup UNION {Reach[t] : t \in Needs(k)}
  BY <1>2, ReachUnfolds DEF Reached
<1>4. ASSUME NEW t \in Needs(k)
      PROVE  t \in Old /\ t \in Reach[t] /\ Reach[t] \subseteq Old /\ Closed(Reach[t])
  <2>1. t \in Old /\ t \in Nat /\ t < k /\ k \in Nat
    BY <1>2, NeedsCameBefore DEF HistoryHolds
  <2>2. ~(k <= t)
    BY <2>1
  <2>3. t \in Reach[t]
    BY <2>1, ReachUnfolds DEF Reached
  <2> QED BY <1>2, <2>1, <2>2, <2>3
<1>5. Reach[k] \subseteq Old
  BY <1>2, <1>3, <1>4
<1>6. Closed(Reach[k])
  BY <1>3, <1>4 DEF Closed
<1> QED BY <1>2, <1>5, <1>6

(* ... and no more than a closed set that holds it. *)
LEMMA ReachIsLeast ==
    ASSUME HistoryHolds, NEW S \in SUBSET Old, Closed(S), NEW s \in S
    PROVE  Reach[s] \subseteq S
<1> DEFINE Beyond == {k \in S : ~(Reach[k] \subseteq S)}
<1>1. SUFFICES ASSUME Beyond # {} PROVE FALSE
  BY <1>1
<1>2. PICK k \in Beyond : \A j \in Beyond : k <= j
  <2>0. Old \subseteq Nat
    BY DEF HistoryHolds
  <2>1. Beyond \in SUBSET Nat
    BY <2>0
  <2> HIDE DEF Beyond
  <2> QED BY <1>1, <2>1, LeastMember
<1>3. k \in Old /\ Reach[k] = {k} \cup UNION {Reach[t] : t \in Needs(k)}
  BY <1>2, ReachUnfolds DEF Reached
<1>4. ASSUME NEW t \in Needs(k) PROVE Reach[t] \subseteq S
  <2>1. t \in S /\ t \in Nat /\ t < k /\ k \in Nat
    BY <1>2, <1>3, NeedsCameBefore DEF HistoryHolds, Closed
  <2>2. ~(k <= t)
    BY <2>1
  <2> QED BY <1>2, <2>1, <2>2
<1> QED BY <1>2, <1>3, <1>4

(* sealClosure.add: the closure holds the roots and all they need, and is  *)
(* the least such set.                                                     *)
THEOREM ClosureIsExact ==
    ASSUME HistoryHolds, NEW roots \in SUBSET Old
    PROVE  /\ roots \subseteq Closure(roots) /\ Closure(roots) \subseteq Old /\ Closed(Closure(roots))
           /\ \A S \in SUBSET Old : roots \subseteq S /\ Closed(S) => Closure(roots) \subseteq S
<1>1. Closure(roots) = UNION {Reach[s] : s \in roots}
  BY ReachUnfolds
<1>2. \A s \in roots : s \in Reach[s]
  BY ReachUnfolds DEF Reached
<1>3. \A s \in roots : Reach[s] \subseteq Old /\ Closed(Reach[s])
  BY ReachIsClosed
<1>4. roots \subseteq Closure(roots) /\ Closure(roots) \subseteq Old
  BY <1>1, <1>2, <1>3
<1>5. Closed(Closure(roots))
  BY <1>1, <1>3 DEF Closed
<1>6. ASSUME NEW S \in SUBSET Old, roots \subseteq S, Closed(S)
      PROVE  Closure(roots) \subseteq S
  <2>1. \A s \in roots : Reach[s] \subseteq S
    BY <1>6, ReachIsLeast
  <2> QED BY <1>1, <2>1
<1> QED BY <1>4, <1>5, <1>6

-----------------------------------------------------------------------------
(* The projection of a Seal depends on those of the Seals it links to and  *)
(* of their parents only.                                                  *)
LEMMA LinksDependOnEarlier ==
    ASSUME NEW s, NEW f, NEW g, \A t \in Targets(s) : f[t] = g[t],
           \A t \in Targets(s) : Parent(t) # None => f[Parent(t)] = g[Parent(t)]
    PROVE  ProjectCauseLinks(s, f) = ProjectCauseLinks(s, g)
<1> DEFINE Group(new, target) == {l \in Payload(s).links : new[l.target] = target}
           LinkTo(new, target) ==
               [target |-> target, previous |-> Previous(Group(new, target), target, new),
                messages |-> {l.message : l \in Group(new, target)}]
<1>1. \A l \in Payload(s).links : l.target \in Targets(s)
  BY DEF Targets
<1>2. ASSUME NEW target PROVE LinkTo(f, target) = LinkTo(g, target)
  <2>1. Group(f, target) = Group(g, target)
    BY <1>1
  <2>2. ASSUME NEW group \in SUBSET Payload(s).links
        PROVE  Previous(group, target, f) = Previous(group, target, g)
    <3>1. \A p \in {Parent(l.target) : l \in group} \ {None} : f[p] = g[p]
      BY <1>1
    <3> QED BY <3>1 DEF Previous
  <2>3. Previous(Group(f, target), target, f) = Previous(Group(f, target), target, g)
    BY <2>2
  <2> HIDE DEF Group
  <2> QED BY <2>1, <2>3
<1>3. {f[t] : t \in Targets(s)} = {g[t] : t \in Targets(s)}
  OBVIOUS
<1>4. /\ ProjectCauseLinks(s, f) = {LinkTo(f, target) : target \in {f[t] : t \in Targets(s)}}
      /\ ProjectCauseLinks(s, g) = {LinkTo(g, target) : target \in {g[t] : t \in Targets(s)}}
  BY DEF ProjectCauseLinks
<1> HIDE DEF LinkTo
<1> QED BY <1>2, <1>3, <1>4

ProjectedSeal(s, new) ==
    NewSeal(Material(Payload(s).content),
            Provenance(Payload(s).links = {}, Payload(s).draft, ProjectCauseLinks(s, new)))

LEMMA ProjectionExists ==
    ASSUME HistoryHolds, NEW seals \in SUBSET Old, Closed(seals), NEW n \in 0..Len(history)
    PROVE  \E new : new = [s \in {s \in seals : s <= n} |-> ProjectedSeal(s, new)]
<1> DEFINE UpTo(k) == {s \in seals : s <= k}
           Unprojected == {k \in 0..Len(history) : ~\E new : new = [s \in UpTo(k) |-> ProjectedSeal(s, new)]}
<1>1. SUFFICES ASSUME Unprojected # {} PROVE FALSE
  BY <1>1
<1>a. Len(history) \in Nat /\ Old = 1..Len(history)
  BY DEF HistoryHolds
<1>b. seals \subseteq Nat /\ \A s \in seals : s >= 1
  BY <1>a
<1>2. PICK k \in Unprojected : \A j \in Unprojected : k <= j
  <2>1. Unprojected \in SUBSET Nat
    BY <1>a
  <2> HIDE DEF Unprojected
  <2> QED BY <1>1, <2>1, LeastMember
<1>3. k # 0
  <2>1. UpTo(0) = {}
    <3>1. \A s \in seals : ~(s <= 0)
      BY <1>b
    <3> QED BY <3>1
  <2>2. ASSUME NEW new PROVE [s \in {} |-> ProjectedSeal(s, new)] = <<>>
    OBVIOUS
  <2>3. ASSUME k = 0 PROVE FALSE
    <3>1. <<>> = [s \in UpTo(0) |-> ProjectedSeal(s, <<>>)]
      BY <2>1, <2>2
    <3> QED BY <3>1, <2>3
  <2> QED BY <2>3
<1>4. k \in 1..Len(history) /\ k - 1 \in 0..Len(history) /\ k - 1 \notin Unprojected
  <2>1. k \in 0..Len(history)
    BY <1>2
  <2>2. k \in 1..Len(history) /\ k - 1 \in 0..Len(history) /\ ~(k <= k - 1)
    BY <1>a, <1>3, <2>1
  <2> HIDE DEF Unprojected
  <2> QED BY <1>2, <2>2
<1>5. PICK f : f = [s \in UpTo(k - 1) |-> ProjectedSeal(s, f)]
  BY <1>4
<1> DEFINE g == [s \in UpTo(k) |-> IF s = k THEN ProjectedSeal(k, f) ELSE f[s]]
<1>6. \A s \in UpTo(k) : ProjectedSeal(s, g) = ProjectedSeal(s, f)
  <2> SUFFICES ASSUME NEW s \in UpTo(k) PROVE ProjectedSeal(s, g) = ProjectedSeal(s, f)
    OBVIOUS
  <2>1. s \in Old /\ s \in seals /\ s \in Nat /\ s <= k /\ k \in Nat
    BY <1>a, <1>4
  <2>2. ASSUME NEW t \in Targets(s)
        PROVE  g[t] = f[t] /\ (Parent(t) # None => g[Parent(t)] = f[Parent(t)])
    <3>1. t \in Nat /\ t < s /\ t \in Old /\ t \in seals
      BY <2>1, NeedsCameBefore DEF Closed, Needs
    <3>2. Parent(t) # None => Parent(t) \in Nat /\ Parent(t) < t /\ Parent(t) \in seals
      BY <3>1, NeedsCameBefore DEF Closed, Needs
    <3>3. t \in UpTo(k) /\ t # k
      BY <2>1, <3>1
    <3>4. Parent(t) # None => Parent(t) \in UpTo(k) /\ Parent(t) # k
      BY <2>1, <3>1, <3>2
    <3> HIDE DEF UpTo
    <3> QED BY <3>3, <3>4
  <2> HIDE DEF g
  <2>3. ProjectCauseLinks(s, g) = ProjectCauseLinks(s, f)
    BY <2>2, LinksDependOnEarlier
  <2> QED BY <2>3 DEF ProjectedSeal
<1>7. \A s \in UpTo(k) : g[s] = ProjectedSeal(s, g)
  <2> SUFFICES ASSUME NEW s \in UpTo(k) PROVE g[s] = ProjectedSeal(s, f)
    BY <1>6
  <2>1. CASE s = k
    BY <2>1
  <2>2. CASE s # k
    <3>1. s \in UpTo(k - 1) /\ g[s] = f[s]
      BY <1>b, <1>4, <2>2
    <3> HIDE DEF g, UpTo
    <3> QED BY <3>1, <1>5
  <2> QED BY <2>1, <2>2
<1>8. g = [s \in UpTo(k) |-> ProjectedSeal(s, g)]
  <2>1. g = [s \in UpTo(k) |-> g[s]]
    OBVIOUS
  <2> HIDE DEF g, UpTo
  <2> QED BY <1>7, <2>1
<1> HIDE DEF g, UpTo
<1> QED BY <1>2, <1>8

(* projectOneSeal computes every Seal from those before it. *)
LEMMA ProjectionUnfolds ==
    ASSUME HistoryHolds, NEW seals \in SUBSET Old, Closed(seals)
    PROVE  OldToNew(seals) = [s \in seals |-> ProjectedSeal(s, OldToNew(seals))]
<1>a. Len(history) \in Nat /\ Old = 1..Len(history)
  BY DEF HistoryHolds
<1>1. seals = {s \in seals : s <= Len(history)} /\ Len(history) \in 0..Len(history)
  <2>1. \A s \in seals : s \in 1..Len(history)
    BY <1>a
  <2>2. \A s \in seals : s <= Len(history)
    BY <1>a, <2>1
  <2>3. Len(history) \in 0..Len(history)
    BY <1>a
  <2> QED BY <2>2, <2>3
<1>2. \E new : new = [s \in {s \in seals : s <= Len(history)} |-> ProjectedSeal(s, new)]
  BY <1>1, ProjectionExists
<1>3. \E new : new = [s \in seals |-> ProjectedSeal(s, new)]
  BY <1>1, <1>2
<1>4. OldToNew(seals) = CHOOSE new : new = [s \in seals |-> ProjectedSeal(s, new)]
  BY DEF OldToNew, ProjectedSeal
<1> QED BY <1>3, <1>4

-----------------------------------------------------------------------------
(* What a link, a message or a parent of the old history becomes, for any  *)
(* closed set of Seals.                                                    *)
NewLink(s, new, target) ==
    LET group == {l \in Payload(s).links : new[l.target] = target}
    IN  [target |-> target, previous |-> Previous(group, target, new),
         messages |-> {l.message : l \in group}]

LEMMA LinksUnfold ==
    ASSUME HistoryHolds, NEW seals \in SUBSET Old, Closed(seals), NEW s \in seals, NEW new, new = OldToNew(seals)
    PROVE  new[s].provenance.links = {NewLink(s, new, new[t]) : t \in Targets(s)}
<1>1. new[s] = ProjectedSeal(s, new)
  BY ProjectionUnfolds
<1>2. new[s].provenance.links = ProjectCauseLinks(s, new)
  BY <1>1 DEF ProjectedSeal, NewSeal, Provenance
<1>3. ProjectCauseLinks(s, new) = {NewLink(s, new, target) : target \in {new[t] : t \in Targets(s)}}
  BY DEF ProjectCauseLinks, NewLink
<1> QED BY <1>2, <1>3

(* No link precedes itself. *)
LEMMA LinksAreProper ==
    ASSUME HistoryHolds, NEW seals \in SUBSET Old, Closed(seals)
    PROVE  /\ DOMAIN OldToNew(seals) = seals
           /\ \A s \in seals : \A l \in OldToNew(seals)[s].provenance.links : l.target \notin l.previous
<1> DEFINE new == OldToNew(seals)
<1>1. DOMAIN new = seals
  BY ProjectionUnfolds
<1>2. ASSUME NEW s \in seals, NEW l \in new[s].provenance.links PROVE l.target \notin l.previous
  <2>1. PICK t \in Targets(s) : l = NewLink(s, new, new[t])
    <3> HIDE DEF new
    <3>1. new = OldToNew(seals)
      BY DEF new
    <3> QED BY <1>2, <3>1, LinksUnfold
  <2> HIDE DEF new
  <2> QED BY <2>1 DEF NewLink, Previous
<1> QED BY <1>1, <1>2

(* Every link, message and parent is kept, and there are no others. *)
LEMMA ProjectionKeepsLinks ==
    ASSUME HistoryHolds, NEW seals \in SUBSET Old, Closed(seals), NEW s \in seals, projected = OldToNew(seals)
    PROVE  LinksAreKept(s)
<1> DEFINE links == projected[s].provenance.links
<1>1. links = {NewLink(s, projected, projected[t]) : t \in Targets(s)}
  BY LinksUnfold
<1>2. \A l \in Payload(s).links : l.target \in Targets(s)
  BY DEF Targets
<1>3. ASSUME NEW k \in links, NEW j \in links, k.target = j.target PROVE k = j
  <2>1. \A target : NewLink(s, projected, target).target = target
    BY DEF NewLink
  <2> HIDE DEF links
  <2>2. PICK t, u \in Targets(s) : /\ k = NewLink(s, projected, projected[t])
                                   /\ j = NewLink(s, projected, projected[u])
    BY <1>1, <1>3
  <2> QED BY <1>3, <2>1, <2>2
<1>4. ASSUME NEW l \in Payload(s).links
      PROVE  \E k \in links : k.target = projected[l.target] /\ l.message \in k.messages
  <2>1. NewLink(s, projected, projected[l.target]) \in links
    <3> HIDE DEF links
    <3> QED BY <1>1, <1>2
  <2>2. /\ NewLink(s, projected, projected[l.target]).target = projected[l.target]
        /\ l.message \in NewLink(s, projected, projected[l.target]).messages
    BY DEF NewLink
  <2> HIDE DEF links
  <2> QED BY <2>1, <2>2
<1>5. ASSUME NEW k \in links
      PROVE  /\ \A m \in k.messages :
                    \E l \in Payload(s).links : projected[l.target] = k.target /\ l.message = m
             /\ \A p \in k.previous :
                    \E t \in Targets(s) : /\ projected[t] = k.target /\ Parent(t) # None
                                          /\ projected[Parent(t)] = p
  <2>1. PICK target : k = NewLink(s, projected, target)
    <3> HIDE DEF links
    <3> QED BY <1>1, <1>5
  <2>2. k.target = target
    BY <2>1 DEF NewLink
  <2>3. \A m \in k.messages : \E l \in Payload(s).links : projected[l.target] = target /\ l.message = m
    BY <2>1 DEF NewLink
  <2>4. ASSUME NEW p \in k.previous
        PROVE  \E t \in Targets(s) : projected[t] = target /\ Parent(t) # None /\ projected[Parent(t)] = p
    <3>1. PICK l \in Payload(s).links : /\ projected[l.target] = target /\ Parent(l.target) # None
                                        /\ projected[Parent(l.target)] = p
      BY <2>1, <2>4 DEF NewLink, Previous
    <3> QED BY <1>2, <3>1
  <2> QED BY <2>2, <2>3, <2>4
<1> HIDE DEF links
<1>6. links = projected[s].provenance.links
  BY DEF links
<1> QED BY <1>3, <1>4, <1>5, <1>6 DEF LinksAreKept

LEMMA ProjectionKeepsParents ==
    ASSUME HistoryHolds, Closed(document.seals), document.seals \in SUBSET Old, NEW c \in document.seals,
           projected = OldToNew(document.seals), document.semantic = Semantic(document.seals, projected),
           Parent(c) # None
    PROVE  ParentIsKept(c)
<1> DEFINE observers == {o \in document.seals : c \in Targets(o)}
<1>1. ASSUME observers = {} PROVE [child |-> c, parent |-> Parent(c)] \in document.semantic.unobserved
  <2>1. c \in {d \in document.seals : Parent(d) # None /\ \A o \in document.seals : d \notin Targets(o)}
    BY <1>1
  <2>2. [child |-> c, parent |-> Parent(c)] \in UnobservedParents(document.seals)
    BY <2>1 DEF UnobservedParents
  <2> QED BY <2>2 DEF Semantic
<1>2. ASSUME NEW o \in observers
      PROVE  \/ /\ projected[c] = projected[Parent(c)]
                /\ Assertion(o, c) \in document.semantic.collapsed
             \/ \E k \in projected[o].provenance.links :
                   k.target = projected[c] /\ projected[Parent(c)] \in k.previous
  <2>0. o \in document.seals /\ c \in Targets(o)
    OBVIOUS
  <2>1. CASE projected[c] = projected[Parent(c)]
    <3>1. Assertion(o, c) \in Observed(document.seals)
      BY <2>0 DEF Observed, Assertion
    <3>2. Assertion(o, c).parent = Parent(c) /\ Assertion(o, c).child = c
      BY DEF Assertion
    <3> QED BY <2>1, <3>1, <3>2 DEF Semantic
  <2>2. CASE projected[c] # projected[Parent(c)]
    <3> DEFINE k == NewLink(o, projected, projected[c])
    <3>1. k \in projected[o].provenance.links
      BY <2>0, LinksUnfold
    <3>2. PICK l \in Payload(o).links : l.target = c
      BY <2>0 DEF Targets
    <3>3. l \in {m \in Payload(o).links : projected[m.target] = projected[c]}
      BY <3>2
    <3>4. projected[Parent(c)] \in Previous({m \in Payload(o).links : projected[m.target] = projected[c]},
                                            projected[c], projected)
      BY <2>2, <3>2, <3>3 DEF Previous
    <3>5. k.target = projected[c] /\ projected[Parent(c)] \in k.previous
      BY <3>4 DEF NewLink
    <3> QED BY <3>1, <3>5
  <2> QED BY <2>1, <2>2
<1> QED BY <1>1, <1>2 DEF ParentIsKept

-----------------------------------------------------------------------------
(* The inductive invariant.                                                *)
Documented == {"extracted", "decoded", "failed", "loaded", "used"}
Reread     == {"candidates again", "compare"} \cup Documented
Phase      == {"manifests", "objects", "candidates", "project", "refused", "incomplete", "build", "cycle",
               "manifests again", "objects again"} \cup Reread
(* A capture, of what is in the store now. *)
Capture(seals) == [manifests : [Ref -> Manifest(seals) \cup {None}], stored : SUBSET seals,
                   candidates : SUBSET Ref]

(* Objects come before what names them, and nothing leaves the history of  *)
(* a manifest.                                                             *)
SourceInv ==
    /\ stored \subseteq Old /\ Closed(stored)
    /\ manifests \in [Ref -> Manifest(stored) \cup {None}]
    /\ candidates \subseteq Ref /\ restored \in BOOLEAN /\ changes \in Nat
    /\ past \in [Ref -> SUBSET (Manifest(stored) \cup {None})]
    /\ \A r \in Ref : manifests[r] \in past[r]

(* The first capture has had every manifest it read at some time, and the  *)
(* objects it read after them are enough for all of them.                  *)
FirstInv ==
    /\ pc \in Phase /\ unread \subseteq Ref /\ same \in BOOLEAN
    /\ first \in Capture(stored)
    /\ \A r \in Ref : first.manifests[r] \in past[r] \/ (pc = "manifests" /\ r \in unread)
    /\ pc \notin {"manifests", "objects"} => Named(first.manifests) \subseteq first.stored /\ Closed(first.stored)

(* The moment the first capture was complete, which the second confirms: a *)
(* manifest that had changed by then is different for good.                *)
MomentInv ==
    /\ pc \notin {"manifests", "objects", "candidates"} =>
          /\ moment \in Capture(stored)
          /\ moment.candidates = first.candidates /\ first.stored \subseteq moment.stored
          /\ ~restored => \A r \in Ref : \/ moment.manifests[r] = first.manifests[r]
                                         \/ manifests[r] # first.manifests[r]
    /\ same /\ ~restored =>
          /\ pc = "manifests again" => \A r \in Ref \ unread : moment.manifests[r] = first.manifests[r]
          /\ pc \in {"objects again"} \cup Reread => \A r \in Ref : moment.manifests[r] = first.manifests[r]
    /\ pc \in Reread /\ same => moment.stored = first.stored

(* The document Rooted(c) makes; later, what was decided of it. *)
Extract(c) ==
    [seals |-> Rooted(c), objects |-> {Content(s) : s \in Rooted(c)}, manifests |-> c.manifests,
     semantic |-> Semantic(Rooted(c), OldToNew(Rooted(c))),
     excluded |-> Objects(c.stored) \ Objects(Rooted(c))]
Shaped(d) == d = [seals |-> d.seals, objects |-> d.objects, manifests |-> d.manifests,
                  semantic |-> d.semantic, excluded |-> d.excluded]
DocumentInv ==
    /\ edits \in Nat /\ extracted \in BOOLEAN
    /\ pc \in {"build", "manifests again", "objects again", "candidates again", "compare", "extracted"} =>
          projected = OldToNew(Rooted(first)) /\ first.candidates = {}
    /\ pc \in Documented =>
          /\ same /\ first.candidates = {}
          /\ Shaped(document) /\ document.seals \subseteq Old
          /\ \A b \in document.objects : b = Stray \/ \E s \in Old : b = Content(s)
          /\ extracted => document = Extract(first)
    /\ document # None => pc \in Documented
    /\ pc \in {"decoded", "loaded"} => DocumentHolds(document)

(* projected is a projection, and the names of a repository are of Seals.  *)
RepositoryInv ==
    /\ DOMAIN projected \subseteq Old
    /\ \A s \in DOMAIN projected : \A l \in projected[s].provenance.links : l.target \notin l.previous
    /\ repository # None => Named(repository.manifests) \subseteq Seals(repository)
    /\ pc \in {"loaded", "used"} =>
          /\ repository = [blobs |-> repository.blobs, manifests |-> [r \in Ref |-> repository.manifests[r]]]
          /\ \A r \in Ref : repository.manifests[r] # None =>
                repository.manifests[r] = [head |-> repository.manifests[r].head, tag |-> repository.manifests[r].tag]
          /\ Named(repository.manifests) \subseteq Seals(repository)

(* The use of the repository: objects are never taken away, and while no   *)
(* REF is given back a manifest, one that is as it was loaded always was.  *)
InUse == pc \in {"loaded", "used"}
UseInv ==
    /\ left \subseteq Ref /\ returned \in BOOLEAN /\ DOMAIN had = Ref
    /\ ~InUse => task = "none"
    /\ InUse =>
          /\ "digest" \in DOMAIN receipt
          /\ receipt.digest.blobs \subseteq repository.blobs
          /\ \A r \in Ref :
                /\ repository.manifests[r] \in had[r] /\ receipt.digest.manifests[r] \in had[r]
                /\ ~returned /\ repository.manifests[r] = receipt.digest.manifests[r]
                      => had[r] = {receipt.digest.manifests[r]}

(* What load-receipt has compared lies between the objects as loaded and   *)
(* the objects of now; a name it has compared was that of the REF once.    *)
Passed(parts) == task \in {"digest", "answered"} \/ (task = "compare" /\ part \in parts)
ObjectsCompared ==
    /\ Passed({"roles", "inventory", "names", "head", "tag"}) => MappingsFit(receipt, repository)
    /\ Passed({"inventory", "names", "head", "tag"}) =>
          /\ Roles(receipt.digest.blobs) \subseteq receipt.typed
          /\ receipt.typed \subseteq Roles(repository.blobs)
    /\ Passed({"names", "head", "tag"}) =>
          /\ receipt.digest.blobs \subseteq Inventory(receipt)
          /\ Inventory(receipt) \subseteq repository.blobs

Once(r, field) == \E m \in had[r] : m # None /\ m[field] = receipt.manifests[r][field]
NamesCompared ==
    \A r \in Ref :
        /\ Passed({"head", "tag"}) => \E m \in had[r] : (m = None) = (receipt.manifests[r] = None)
        /\ receipt.manifests[r] # None /\ (Passed({"tag"}) \/ (Passed({"head"}) /\ r \notin left))
              => Once(r, "head")
        /\ receipt.manifests[r] # None /\ (Passed({}) \/ (Passed({"tag"}) /\ r \notin left))
              => Once(r, "tag")

(* A capture holds what each REF had, and once it has been made again, what *)
(* stood when it was complete.                                              *)
Began    == task \in Capturing \cup {"answered"} /\ part # "objects"
Complete == task \in Capturing \cup {"answered"} /\ part \in {"objects again", "refs again", "end"}
Again(r) == task \in Capturing \cup {"answered"} /\ (part = "end" \/ (part = "refs again" /\ r \notin left))
Within(x) == /\ MappingsFit(receipt, x)
             /\ receipt.typed \subseteq Roles(x.blobs) /\ Inventory(receipt) \subseteq x.blobs
LookHolds ==
    Began => /\ look = [blobs |-> look.blobs, manifests |-> [r \in Ref |-> look.manifests[r]]]
             /\ look.blobs \subseteq repository.blobs
             /\ task # "fsck" => Within(look)
             /\ \A r \in Ref : part # "refs" \/ r \notin left => look.manifests[r] \in had[r]
InstantHolds ==
    Complete => /\ look.blobs \subseteq instant.blobs /\ instant.blobs \subseteq repository.blobs
                /\ part # "objects again" => instant.blobs = look.blobs
                /\ \A r \in Ref : instant.manifests[r] \in had[r]
AgainHolds ==
    \A r \in Ref :
        Again(r) /\ ~returned /\ look.manifests[r] = receipt.digest.manifests[r] =>
            /\ instant.manifests[r] = receipt.digest.manifests[r]
            /\ task # "fsck" => NamedIn(receipt.digest.manifests, r)
RecoverInv == /\ ObjectsCompared /\ NamesCompared /\ LookHolds /\ InstantHolds /\ AgainHolds
              /\ task = "answered" => part = "end" /\ receipt.digest = look

TransferInv == /\ HistoryHolds /\ SourceInv /\ FirstInv /\ MomentInv /\ DocumentInv /\ RepositoryInv
               /\ UseInv /\ RecoverInv

-----------------------------------------------------------------------------
(* Every history to choose from is one. *)
LEMMA InitHistory == Init => HistoryHolds
<1> SUFFICES ASSUME Init PROVE HistoryHolds
  OBVIOUS
<1>1. PICK w \in Worlds : history = w.history
  BY DEF Init
<1>2. Len(history) \in Nat /\ Old = 1..Len(history)
  BY <1>1, WorldsAssumption DEF Old
<1>3. ASSUME NEW s \in Old
      PROVE  Parent(s) \in 1..(s - 1) \cup {None} /\ Targets(s) \subseteq 1..(s - 1)
  <2>1. /\ w.history[s].parent \in 1..(s - 1) \cup {None}
        /\ \A l \in w.history[s].links : l.target \in 1..(s - 1)
    BY <1>1, WorldsAssumption DEF Old
  <2> QED BY <1>1, <2>1 DEF Parent, Targets, Payload
<1> QED BY <1>2, <1>3 DEF HistoryHolds

(* load-receipt stores nothing; the others are steps of the repository's   *)
(* use, after it was loaded.                                               *)
LEMMA ReceiptStep ==
    ASSUME LoadReceipt
    PROVE  UNCHANGED <<history, sourceVars, extractVars, projected, document, extracted, useVars, edits>>
  BY DEF LoadReceipt, ReadReceipt, CaptureObjects, CaptureName, ObjectsAgain, NameAgain, EndFsck, CompareObjects,
         CompareNames, CompareName, AllCompared, Answer, Doing

LEMMA UseStep ==
    ASSUME StoreBlob \/ ChangeName \/ EditReceipt
    PROVE  /\ UNCHANGED <<history, sourceVars, unread, first, same, moment, projected, document, extracted>>
           /\ pc \in {"loaded", "used"} /\ pc' \in {pc, "used"}
           /\ edits \in Nat => edits' \in Nat
  BY DEF StoreBlob, ChangeName, EditReceipt, Use, Edit, extractVars

LEMMA SourceOrNot ==
    ASSUME [Next]_vars
    PROVE  StoreSeal \/ ChangeManifest \/ ChangeCandidate \/ UNCHANGED <<history, sourceVars>>
<1>1. CASE \E r \in Ref : ReadManifest(r)
  BY <1>1 DEF ReadManifest
<1>2. CASE ReadObjects
  BY <1>2 DEF ReadObjects
<1>3. CASE ReadCandidates
  BY <1>3 DEF ReadCandidates
<1>4. CASE Project
  BY <1>4 DEF Project, Stop
<1>5. CASE Build
  BY <1>5 DEF Build, Stop
<1>6. CASE Compare
  BY <1>6 DEF Compare
<1>7. CASE Alter \/ Decode \/ Load
  BY <1>7 DEF Alter, Decode, Load
<1>8. CASE StoreBlob \/ ChangeName \/ EditReceipt \/ LoadReceipt
  BY <1>8, ReceiptStep, UseStep
<1>9. CASE UNCHANGED vars
  BY <1>9 DEF vars
<1> QED BY <1>1, <1>2, <1>3, <1>4, <1>5, <1>6, <1>7, <1>8, <1>9 DEF Next

(* The history stays, whoever is at work; what is stored grows. *)
LEMMA HistoryStays ==
    ASSUME HistoryHolds, [Next]_vars
    PROVE  /\ history' = history /\ HistoryHolds' /\ Old' = Old
           /\ \A s : Needs(s)' = Needs(s) /\ Content(s)' = Content(s)
           /\ stored \subseteq stored'
<1>1. history' = history
  BY SourceOrNot DEF StoreSeal, ChangeManifest, ChangeCandidate
<1>2. stored \subseteq stored'
  BY SourceOrNot DEF StoreSeal, ChangeManifest, ChangeCandidate, sourceVars
<1>3. HistoryHolds'
  BY <1>1 DEF HistoryHolds, Old, Parent, Targets, Payload
<1>4. \A s : Needs(s)' = Needs(s) /\ Content(s)' = Content(s)
  BY <1>1 DEF Needs, Content, Parent, Targets, Payload
<1> QED BY <1>1, <1>2, <1>3, <1>4 DEF Old

LEMMA ManifestsGrow ==
    ASSUME NEW S, NEW T, S \subseteq T
    PROVE  /\ Manifest(S) \subseteq Manifest(T)
           /\ [Ref -> Manifest(S) \cup {None}] \subseteq [Ref -> Manifest(T) \cup {None}]
           /\ Capture(S) \subseteq Capture(T)
<1>1. Manifest(S) \subseteq Manifest(T)
  BY DEF Manifest
<1>2. [Ref -> Manifest(S) \cup {None}] \subseteq [Ref -> Manifest(T) \cup {None}]
  BY <1>1
<1> QED BY <1>1, <1>2 DEF Capture

LEMMA SourceInit == Init => SourceInv
<1> SUFFICES ASSUME Init PROVE SourceInv
  OBVIOUS
<1>1. HistoryHolds
  BY InitHistory
<1>2. PICK w \in Worlds : history = w.history /\ stored = 1..w.stored /\ changes = w.changes
  BY DEF Init
<1>3. w.stored \in 0..Len(history) /\ changes \in Nat
  BY <1>2, WorldsAssumption
<1>4. Len(history) \in Nat /\ Old = 1..Len(history)
  BY <1>1 DEF HistoryHolds
<1>5. stored \subseteq Old
  BY <1>2, <1>3, <1>4
<1>6. Closed(stored)
  <2> SUFFICES ASSUME NEW s \in stored, NEW t \in Needs(s) PROVE t \in stored
    BY DEF Closed
  <2>1. t \in Nat /\ t < s /\ t \in Old
    BY <1>1, <1>5, NeedsCameBefore
  <2> QED BY <1>2, <1>3, <1>4, <2>1
<1>7. manifests \in [Ref -> Manifest(stored) \cup {None}]
  BY DEF Init
<1> QED BY <1>3, <1>5, <1>6, <1>7 DEF Init, SourceInv

LEMMA SourceStays ==
    ASSUME HistoryHolds, SourceInv, [Next]_vars
    PROVE  SourceInv'
<1>1. CASE StoreSeal
  <2>1. PICK s \in Old \ stored : Needs(s) \subseteq stored /\ stored' = stored \cup {s}
    BY <1>1 DEF StoreSeal
  <2>2. stored' \subseteq Old' /\ stored \subseteq stored'
    BY <2>1, HistoryStays DEF SourceInv
  <2>3. \A t \in stored' : Needs(t)' \subseteq stored'
    BY <2>1, HistoryStays DEF SourceInv, Closed
  <2>4. Closed(stored)'
    BY <2>3 DEF Closed
  <2>5. /\ UNCHANGED <<manifests, candidates, restored, past>>
        /\ changes > 0 /\ changes' = changes - 1
    BY <1>1 DEF StoreSeal, SourceStep
  <2>6. changes' \in Nat
    BY <2>5 DEF SourceInv
  <2>7. /\ Manifest(stored) \subseteq Manifest(stored')
        /\ [Ref -> Manifest(stored) \cup {None}] \subseteq [Ref -> Manifest(stored') \cup {None}]
    BY <2>2, ManifestsGrow
  <2>8. past \in [Ref -> SUBSET (Manifest(stored') \cup {None})]
    BY <2>7 DEF SourceInv
  <2> QED BY <2>2, <2>4, <2>5, <2>6, <2>7, <2>8 DEF SourceInv, Manifest
<1>2. CASE ChangeManifest
  <2>1. PICK r \in Ref, m \in Manifest(stored) \cup {None} :
           /\ m # manifests[r]
           /\ manifests' = [manifests EXCEPT ![r] = m]
           /\ restored' = (restored \/ m \in past[r])
           /\ past' = [past EXCEPT ![r] = @ \cup {m}]
    BY <1>2 DEF ChangeManifest
  <2>2. UNCHANGED <<history, stored, candidates>> /\ changes > 0 /\ changes' = changes - 1
    BY <1>2 DEF ChangeManifest, SourceStep
  <2>3. changes' \in Nat
    BY <2>2 DEF SourceInv
  <2>4. restored' \in BOOLEAN
    BY <2>1
  <2>5. /\ manifests' \in [Ref -> Manifest(stored) \cup {None}]
        /\ past' \in [Ref -> SUBSET (Manifest(stored) \cup {None})]
    BY <2>1 DEF SourceInv
  <2>6. \A q \in Ref : manifests'[q] \in past'[q]
    BY <2>1 DEF SourceInv
  <2>7. Closed(stored)' /\ stored' \subseteq Old'
    BY <2>2, HistoryStays DEF SourceInv, Closed
  <2> QED BY <2>2, <2>3, <2>4, <2>5, <2>6, <2>7 DEF SourceInv, Manifest
<1>3. CASE ChangeCandidate
  <2>1. /\ UNCHANGED <<history, stored, manifests, past>> /\ changes > 0 /\ changes' = changes - 1
        /\ candidates' \subseteq Ref /\ restored' \in BOOLEAN
    BY <1>3 DEF ChangeCandidate, SourceStep, SourceInv
  <2>2. changes' \in Nat
    BY <2>1 DEF SourceInv
  <2>3. Closed(stored)' /\ stored' \subseteq Old'
    BY <2>1, HistoryStays DEF SourceInv, Closed
  <2> QED BY <2>1, <2>2, <2>3 DEF SourceInv, Manifest
<1>4. CASE UNCHANGED <<history, sourceVars>>
  <2>1. Closed(stored)' /\ stored' \subseteq Old'
    BY <1>4, HistoryStays DEF SourceInv, Closed, sourceVars
  <2> QED BY <1>4, <2>1 DEF SourceInv, sourceVars, Manifest
<1> QED BY <1>1, <1>2, <1>3, <1>4, SourceOrNot

-----------------------------------------------------------------------------
(* No manifest a REF had is forgotten, and a manifest is what it was, or   *)
(* was given back, or is new.                                              *)
LEMMA PastGrows ==
    ASSUME SourceInv, [Next]_vars
    PROVE  /\ \A r \in Ref : past[r] \subseteq past'[r]
           /\ restored => restored'
           /\ ~restored' => \A r \in Ref : manifests'[r] = manifests[r] \/ manifests'[r] \notin past[r]
<1>1. CASE ChangeManifest
  <2>1. PICK r \in Ref, m \in Manifest(stored) \cup {None} :
           /\ manifests' = [manifests EXCEPT ![r] = m]
           /\ restored' = (restored \/ m \in past[r])
           /\ past' = [past EXCEPT ![r] = @ \cup {m}]
    BY <1>1 DEF ChangeManifest
  <2>2. \A q \in Ref : past[q] \subseteq past'[q]
    BY <2>1 DEF SourceInv
  <2>3. \A q \in Ref : manifests'[q] = IF q = r THEN m ELSE manifests[q]
    BY <2>1 DEF SourceInv
  <2>4. (restored => restored') /\ (~restored' => m \notin past[r])
    BY <2>1
  <2> QED BY <2>2, <2>3, <2>4
<1>2. CASE ChangeCandidate
  <2>1. UNCHANGED <<manifests, past>> /\ (restored => restored')
    BY <1>2, Zenon DEF ChangeCandidate
  <2> QED BY <2>1
<1>3. CASE StoreSeal
  BY <1>3 DEF StoreSeal
<1>4. CASE UNCHANGED <<history, sourceVars>>
  BY <1>4 DEF sourceVars
<1> QED BY <1>1, <1>2, <1>3, <1>4, SourceOrNot

LEMMA FirstInit == Init => FirstInv
<1> SUFFICES ASSUME Init PROVE FirstInv
  OBVIOUS
<1>1. pc = "manifests" /\ unread = Ref /\ same = TRUE
  BY DEF Init
<1>2. first \in Capture(stored)
  BY DEF Init, Capture
<1> QED BY <1>1, <1>2 DEF FirstInv, Phase

(* The steps that read nothing into the first capture. *)
LEMMA FirstIsLeft ==
    ASSUME HistoryHolds, SourceInv, FirstInv, [Next]_vars, UNCHANGED <<first, same>>, unread' \subseteq Ref, pc' \in Phase,
           pc \in {"manifests", "objects"} => UNCHANGED <<pc, unread>>,
           pc' \in {"manifests", "objects"} => UNCHANGED pc
    PROVE  FirstInv'
<1>1. stored \subseteq stored' /\ first \in Capture(stored)
  BY HistoryStays DEF FirstInv
<1>2. first' \in Capture(stored')
  BY <1>1, ManifestsGrow
<1>3. \A r \in Ref : first'.manifests[r] \in past'[r] \/ (pc' = "manifests" /\ r \in unread')
  BY PastGrows DEF FirstInv
<1>4. pc' \notin {"manifests", "objects"} => Named(first.manifests) \subseteq first.stored /\ Closed(first.stored)
  BY DEF FirstInv
<1>5. pc' \notin {"manifests", "objects"} => Named(first'.manifests) \subseteq first'.stored /\ Closed(first.stored)'
  BY <1>4, HistoryStays DEF Closed, Named
<1>6. same' \in BOOLEAN
  <2>1. same \in BOOLEAN
    BY DEF FirstInv
  <2>2. same' = same
    OBVIOUS
  <2> QED BY <2>1, <2>2
<1>7. (first \in Capture(stored))'
  BY <1>2 DEF Capture, Manifest
<1> QED BY <1>3, <1>5, <1>6, <1>7 DEF FirstInv, Named

LEMMA FirstStays ==
    ASSUME HistoryHolds, SourceInv, FirstInv, [Next]_vars
    PROVE  FirstInv'
<1>0. pc \in Phase /\ unread \subseteq Ref
  BY DEF FirstInv
<1>1. CASE StoreSeal \/ ChangeManifest \/ ChangeCandidate
  BY <1>0, <1>1, FirstIsLeft DEF StoreSeal, ChangeManifest, ChangeCandidate, extractVars
<1>2. CASE \E r \in Ref : ReadManifest(r)
  <2>1. PICK r \in Ref : ReadManifest(r)
    BY <1>2
  <2>2. unread' = unread \ {r} /\ r \in unread /\ UNCHANGED <<history, sourceVars>>
    BY <2>1 DEF ReadManifest
  <2>3. CASE pc = "manifests"
    <3>1. /\ first' = [first EXCEPT !.manifests[r] = manifests[r]]
          /\ pc' = IF unread' = {} THEN "objects" ELSE pc
          /\ same' = same
      BY <2>1, <2>3 DEF ReadManifest
    <3>2. first' \in Capture(stored)
      BY <3>1 DEF FirstInv, SourceInv, Capture
    <3>3. \A q \in Ref : first'.manifests[q] = IF q = r THEN manifests[r] ELSE first.manifests[q]
      BY <3>1 DEF FirstInv, Capture
    <3>4. \A q \in Ref : first'.manifests[q] \in past[q] \/ q \in unread'
      BY <2>2, <3>3 DEF FirstInv, SourceInv
    <3>5. pc' \in {"manifests", "objects"} /\ pc' \in Phase
      BY <2>3, <3>1 DEF Phase
    <3>6. \A q \in Ref : first'.manifests[q] \in past[q] \/ (pc' = "manifests" /\ q \in unread')
      BY <2>3, <3>1, <3>4
    <3>7. (first \in Capture(stored))'
      BY <2>2, <3>2 DEF Capture, Manifest, sourceVars
    <3> QED BY <2>2, <3>1, <3>5, <3>6, <3>7 DEF FirstInv, sourceVars
  <2>4. CASE pc = "manifests again"
    <3>1. /\ first' = first /\ pc' \in {"manifests again", "objects again"}
          /\ same' \in BOOLEAN
      BY <2>1, <2>4 DEF ReadManifest
    <3>2. pc' \in Phase /\ pc' \notin {"manifests", "objects"}
      BY <3>1 DEF Phase
    <3>3. (first \in Capture(stored))'
      BY <2>2, <3>1 DEF FirstInv, Capture, Manifest, sourceVars
    <3>4. Named(first.manifests) \subseteq first.stored /\ Closed(first.stored)
      BY <2>4 DEF FirstInv
    <3>5. (Named(first.manifests) \subseteq first.stored /\ Closed(first.stored))'
      BY <3>1, <3>4, HistoryStays DEF Named, Closed
    <3>6. \A q \in Ref : first.manifests[q] \in past[q]
      BY <2>4 DEF FirstInv
    <3>7. \A q \in Ref : first'.manifests[q] \in past'[q]
      BY <2>2, <3>1, <3>6 DEF sourceVars
    <3> QED BY <2>2, <1>0, <3>1, <3>2, <3>3, <3>5, <3>7 DEF FirstInv
  <2> QED BY <2>1, <2>3, <2>4 DEF ReadManifest
<1>3. CASE ReadObjects
  <2>1. UNCHANGED <<history, sourceVars, unread>>
    BY <1>3 DEF ReadObjects
  <2>2. CASE pc = "objects"
    <3>1. first' = [first EXCEPT !.stored = stored] /\ pc' = "candidates" /\ same' = same
      BY <1>3, <2>2 DEF ReadObjects
    <3>2. first'.manifests = first.manifests /\ first'.stored = stored /\ first' \in Capture(stored)
      BY <3>1 DEF FirstInv, Capture
    <3>3. \A r \in Ref : first.manifests[r] \in Manifest(stored) \cup {None}
      BY DEF FirstInv, Capture
    <3>4. ASSUME NEW r \in Ref, first.manifests[r] # None
          PROVE  {first.manifests[r].head, first.manifests[r].tag} \ {None} \subseteq stored
      <4>1. first.manifests[r] \in Manifest(stored)
        BY <3>3, <3>4
      <4> QED BY <4>1 DEF Manifest
    <3>5. Named(first.manifests) \subseteq stored
      BY <3>4 DEF Named
    <3>6. (Named(first.manifests) \subseteq first.stored)'
      BY <3>2, <3>5 DEF Named
    <3>7. Closed(first.stored)'
      BY <3>2, HistoryStays DEF SourceInv, Closed
    <3>8. (first \in Capture(stored))'
      BY <2>1, <3>2 DEF Capture, Manifest, sourceVars
    <3>9. \A r \in Ref : first'.manifests[r] \in past'[r]
      BY <2>1, <2>2, <3>2 DEF FirstInv, sourceVars
    <3> QED BY <1>0, <2>1, <3>1, <3>6, <3>7, <3>8, <3>9 DEF FirstInv, Phase, Reread
  <2>3. CASE pc = "objects again"
    <3>1. first' = first /\ pc' = "candidates again" /\ same' \in BOOLEAN
      BY <1>3, <2>3 DEF ReadObjects
    <3>3. (first \in Capture(stored))'
      BY <2>1, <3>1 DEF FirstInv, Capture, Manifest, sourceVars
    <3>4. Named(first.manifests) \subseteq first.stored /\ Closed(first.stored)
      BY <2>3 DEF FirstInv
    <3>5. (Named(first.manifests) \subseteq first.stored /\ Closed(first.stored))'
      BY <3>1, <3>4, HistoryStays DEF Named, Closed
    <3>7. \A q \in Ref : first'.manifests[q] \in past'[q]
      BY <2>1, <2>3, <3>1 DEF FirstInv, sourceVars
    <3> QED BY <1>0, <2>1, <3>1, <3>3, <3>5, <3>7 DEF FirstInv, Phase, Reread
  <2> QED BY <1>3, <2>2, <2>3 DEF ReadObjects
<1>4. CASE ReadCandidates
  <2>1. UNCHANGED <<history, sourceVars, unread>> /\ pc \in {"candidates", "candidates again"}
        /\ pc' \in {"project", "compare"} /\ same' \in BOOLEAN
    BY <1>4 DEF ReadCandidates, FirstInv
  <2>2. first' \in Capture(stored) /\ first'.manifests = first.manifests /\ first'.stored = first.stored
    BY <1>4 DEF ReadCandidates, FirstInv, SourceInv, Capture
  <2>3. (first \in Capture(stored))'
    BY <2>1, <2>2 DEF Capture, Manifest, sourceVars
  <2>4. Named(first.manifests) \subseteq first.stored /\ Closed(first.stored)
    BY <2>1 DEF FirstInv
  <2>5. (Named(first.manifests) \subseteq first.stored /\ Closed(first.stored))'
    BY <2>2, <2>4, HistoryStays DEF Named, Closed
  <2>6. \A q \in Ref : first'.manifests[q] \in past'[q]
    BY <2>1, <2>2 DEF FirstInv, sourceVars
  <2> QED BY <1>0, <2>1, <2>3, <2>5, <2>6 DEF FirstInv, Phase, Reread
<1>5. CASE Project \/ Build
  <2>1. UNCHANGED <<first, same>> /\ pc \in {"project", "build"} /\ unread' \subseteq Ref
        /\ pc' \in {"refused", "incomplete", "build", "cycle", "manifests again"}
    BY <1>0, <1>5 DEF Project, Build, Stop
  <2> QED BY <2>1, FirstIsLeft DEF Phase
<1>6. CASE Compare \/ Alter \/ Decode \/ Load
  <2>1. UNCHANGED <<first, same, unread>> /\ pc \in {"compare", "extracted", "decoded"}
        /\ pc' \in {"refused", "extracted", "decoded", "failed", "loaded"}
    BY <1>6 DEF Compare, Alter, Decode, Load, extractVars
  <2> QED BY <1>0, <2>1, FirstIsLeft DEF Phase, Reread, Documented
<1>7. CASE StoreBlob \/ ChangeName \/ EditReceipt
  <2>1. UNCHANGED <<first, same, unread>> /\ pc \in {"loaded", "used"} /\ pc' \in {"loaded", "used"}
    BY <1>7, UseStep
  <2> QED BY <1>0, <2>1, FirstIsLeft DEF Phase, Reread, Documented
<1>8. CASE LoadReceipt \/ UNCHANGED vars
  BY <1>0, <1>8, FirstIsLeft, ReceiptStep DEF vars, extractVars
<1> QED BY <1>1, <1>2, <1>3, <1>4, <1>5, <1>6, <1>7, <1>8 DEF Next

-----------------------------------------------------------------------------
LEMMA MomentInit == Init => MomentInv
  BY DEF Init, MomentInv, Reread, Documented

(* What the moment says stays true while nothing is read: a manifest that  *)
(* differs from the one captured does not become it again.                 *)
LEMMA MomentHolds ==
    ASSUME HistoryHolds, SourceInv, FirstInv, MomentInv, [Next]_vars, UNCHANGED <<first, moment>>,
           pc \notin {"manifests", "objects", "candidates"}
    PROVE  /\ (moment \in Capture(stored))'
           /\ moment'.candidates = first'.candidates /\ first'.stored \subseteq moment'.stored
           /\ ~restored' => \A r \in Ref : \/ moment'.manifests[r] = first'.manifests[r]
                                           \/ manifests'[r] # first'.manifests[r]
<1>1. moment \in Capture(stored')
  BY HistoryStays, ManifestsGrow DEF MomentInv
<1>2. (moment \in Capture(stored))'
  BY <1>1 DEF Capture, Manifest
<1>3. moment'.candidates = first'.candidates /\ first'.stored \subseteq moment'.stored
  BY DEF MomentInv
<1>4. ASSUME ~restored', NEW r \in Ref, moment.manifests[r] # first.manifests[r]
      PROVE  manifests'[r] # first.manifests[r]
  <2>1. manifests[r] # first.manifests[r]
    BY <1>4, PastGrows DEF MomentInv
  <2>2. first.manifests[r] \in past[r]
    BY DEF FirstInv
  <2>3. manifests'[r] = manifests[r] \/ manifests'[r] \notin past[r]
    BY <1>4, PastGrows
  <2> QED BY <2>1, <2>2, <2>3
<1> QED BY <1>2, <1>3, <1>4

LEMMA MomentIsLeft ==
    ASSUME HistoryHolds, SourceInv, FirstInv, MomentInv, [Next]_vars, UNCHANGED <<first, moment>>, same' => same,
           pc' \notin {"manifests", "objects", "candidates"} => pc \notin {"manifests", "objects", "candidates"},
           pc' = "manifests again" => unread' = Ref \/ UNCHANGED <<pc, unread>>,
           pc' \in {"objects again"} \cup Reread => pc \in {"objects again"} \cup Reread,
           pc' \in Reread => pc \in Reread
    PROVE  MomentInv'
<1>1. restored => restored'
  BY PastGrows
<1>2. ASSUME same', ~restored', pc' = "manifests again", NEW r \in Ref \ unread'
      PROVE  moment'.manifests[r] = first'.manifests[r]
  BY <1>1, <1>2 DEF MomentInv
<1>3. ASSUME same', ~restored', pc' \in {"objects again"} \cup Reread, NEW r \in Ref
      PROVE  moment'.manifests[r] = first'.manifests[r]
  BY <1>1, <1>3 DEF MomentInv
<1>4. pc' \in Reread /\ same' => moment'.stored = first'.stored
  BY DEF MomentInv
<1>5. pc' \notin {"manifests", "objects", "candidates"} =>
          /\ (moment \in Capture(stored))'
          /\ moment'.candidates = first'.candidates /\ first'.stored \subseteq moment'.stored
          /\ ~restored' => \A r \in Ref : \/ moment'.manifests[r] = first'.manifests[r]
                                          \/ manifests'[r] # first'.manifests[r]
  BY MomentHolds
<1> QED BY <1>2, <1>3, <1>4, <1>5 DEF MomentInv

LEMMA MomentStays ==
    ASSUME HistoryHolds, SourceInv, FirstInv, MomentInv, [Next]_vars
    PROVE  MomentInv'
<1> USE DEF Reread, Documented
<1>1. CASE StoreSeal \/ ChangeManifest \/ ChangeCandidate
  <2>1. UNCHANGED <<pc, unread, first, same, moment>>
    BY <1>1 DEF StoreSeal, ChangeManifest, ChangeCandidate, extractVars
  <2> QED BY <2>1, MomentIsLeft
<1>2. CASE \E r \in Ref : ReadManifest(r)
  <2>1. PICK r \in Ref : ReadManifest(r)
    BY <1>2
  <2>2. unread' = unread \ {r} /\ r \in unread /\ UNCHANGED <<history, sourceVars, moment>>
    BY <2>1 DEF ReadManifest
  <2>3. CASE pc = "manifests"
    <3>1. pc' \in {"manifests", "objects"}
      BY <2>1, <2>3 DEF ReadManifest
    <3> QED BY <3>1 DEF MomentInv
  <2>4. CASE pc = "manifests again"
    <3>1. /\ first' = first
          /\ same' = (same /\ first.manifests[r] = manifests[r])
          /\ pc' = IF unread' = {} THEN "objects again" ELSE "manifests again"
      BY <2>1, <2>4 DEF ReadManifest
    <3>2. (same' => same) /\ (same' => first.manifests[r] = manifests[r])
      BY <3>1
    <3>3. ASSUME same', ~restored', NEW q \in Ref \ unread'
          PROVE  moment'.manifests[q] = first'.manifests[q]
      <4>1. ~restored
        BY <2>2, <3>3 DEF sourceVars
      <4>2. CASE q = r
        BY <2>2, <2>4, <3>1, <3>2, <3>3, <4>1, <4>2 DEF MomentInv
      <4>3. CASE q \notin unread
        BY <2>2, <2>4, <3>1, <3>2, <3>3, <4>1, <4>3 DEF MomentInv
      <4> QED BY <2>2, <3>3, <4>2, <4>3
    <3>4. pc' \in {"objects again", "manifests again"} /\ (pc' = "objects again" => unread' = {})
      BY <3>1
    <3>5. /\ (moment \in Capture(stored))'
          /\ moment'.candidates = first'.candidates /\ first'.stored \subseteq moment'.stored
          /\ ~restored' => \A q \in Ref : \/ moment'.manifests[q] = first'.manifests[q]
                                          \/ manifests'[q] # first'.manifests[q]
      BY <2>2, <2>4, <3>1, MomentHolds
    <3> QED BY <3>3, <3>4, <3>5 DEF MomentInv
  <2> QED BY <2>1, <2>3, <2>4 DEF ReadManifest
<1>3. CASE ReadObjects
  <2>1. UNCHANGED <<history, sourceVars, unread, moment>>
    BY <1>3 DEF ReadObjects
  <2>2. CASE pc = "objects"
    <3>1. pc' = "candidates"
      BY <1>3, <2>2 DEF ReadObjects
    <3> QED BY <3>1 DEF MomentInv
  <2>3. CASE pc = "objects again"
    <3>1. first' = first /\ pc' = "candidates again" /\ same' = (same /\ first.stored = stored)
      BY <1>3, <2>3 DEF ReadObjects
    <3>2. (same' => same) /\ (same' => first.stored = stored)
      BY <3>1
    <3>3. /\ (moment \in Capture(stored))'
          /\ moment'.candidates = first'.candidates /\ first'.stored \subseteq moment'.stored
          /\ ~restored' => \A q \in Ref : \/ moment'.manifests[q] = first'.manifests[q]
                                          \/ manifests'[q] # first'.manifests[q]
      BY <2>1, <2>3, <3>1, MomentHolds
    <3>4. same' => moment'.stored = first'.stored
      <4>1. moment.stored \subseteq stored /\ first.stored \subseteq moment.stored
        BY <2>3 DEF MomentInv, Capture
      <4> QED BY <2>1, <3>1, <3>2, <4>1
    <3>5. same' /\ ~restored' => \A r \in Ref : moment'.manifests[r] = first'.manifests[r]
      BY <2>1, <2>3, <3>1, <3>2 DEF MomentInv, sourceVars
    <3> QED BY <3>1, <3>3, <3>4, <3>5 DEF MomentInv
  <2> QED BY <1>3, <2>2, <2>3 DEF ReadObjects
<1>4. CASE ReadCandidates
  <2>1. UNCHANGED <<history, sourceVars, unread>>
    BY <1>4 DEF ReadCandidates
  <2>2. CASE pc = "candidates"
    <3>1. /\ first' = [first EXCEPT !.candidates = candidates] /\ pc' = "project"
          /\ moment' = [manifests |-> manifests, stored |-> stored, candidates |-> candidates]
      BY <1>4, <2>2 DEF ReadCandidates
    <3>2. /\ moment'.manifests = manifests /\ moment'.stored = stored /\ moment'.candidates = candidates
          /\ moment' \in Capture(stored)
      BY <3>1 DEF SourceInv, Capture
    <3>3. first'.candidates = candidates /\ first'.stored \subseteq stored
      BY <3>1 DEF FirstInv, Capture
    <3>4. \A r \in Ref : moment'.manifests[r] = first'.manifests[r] \/ manifests'[r] # first'.manifests[r]
      BY <2>1, <3>2 DEF sourceVars
    <3>5. (moment \in Capture(stored))'
      BY <2>1, <3>2 DEF Capture, Manifest, sourceVars
    <3> QED BY <3>1, <3>2, <3>3, <3>4, <3>5 DEF MomentInv
  <2>3. CASE pc = "candidates again"
    <3>1. UNCHANGED <<first, moment>> /\ pc' = "compare" /\ same' = (same /\ first.candidates = candidates)
      BY <1>4, <2>3 DEF ReadCandidates
    <3>2. same' => same
      BY <3>1
    <3> QED BY <2>3, <3>1, <3>2, MomentIsLeft
  <2> QED BY <1>4, <2>2, <2>3 DEF ReadCandidates
<1>5. CASE Project \/ Build
  <2>1. UNCHANGED <<first, same, moment>> /\ pc \in {"project", "build"}
        /\ pc' \in {"refused", "incomplete", "build", "cycle", "manifests again"}
        /\ (pc' = "manifests again" => unread' = Ref)
    BY <1>5 DEF Project, Build, Stop
  <2> QED BY <2>1, MomentIsLeft
<1>6. CASE Compare \/ Alter \/ Decode \/ Load
  <2>1. UNCHANGED <<first, same, moment>> /\ pc \in {"compare", "extracted", "decoded"}
        /\ pc' \in {"refused", "extracted", "decoded", "failed", "loaded"}
    BY <1>6 DEF Compare, Alter, Decode, Load, extractVars
  <2> QED BY <2>1, MomentIsLeft
<1>7. CASE StoreBlob \/ ChangeName \/ EditReceipt
  <2>1. UNCHANGED <<first, same, moment>> /\ pc \in {"loaded", "used"} /\ pc' \in {"loaded", "used"}
    BY <1>7, UseStep
  <2> QED BY <2>1, MomentIsLeft DEF Reread, Documented
<1>8. CASE LoadReceipt \/ UNCHANGED vars
  <2>1. UNCHANGED extractVars
    BY <1>8, ReceiptStep DEF vars
  <2> QED BY <2>1, MomentIsLeft DEF extractVars
<1> QED BY <1>1, <1>2, <1>3, <1>4, <1>5, <1>6, <1>7, <1>8 DEF Next

-----------------------------------------------------------------------------
(* The document of a capture. *)
LEMMA RootedIsExact ==
    ASSUME HistoryHolds, SourceInv, FirstInv, pc \notin {"manifests", "objects"}
    PROVE  /\ Rooted(first) \in SUBSET Old /\ Closed(Rooted(first))
           /\ Named(first.manifests) \subseteq Rooted(first) /\ Rooted(first) \subseteq first.stored
<1>1. Named(first.manifests) \subseteq first.stored /\ Closed(first.stored) /\ first.stored \subseteq stored
  BY DEF FirstInv, Capture
<1>2. first.stored \in SUBSET Old /\ Named(first.manifests) \in SUBSET Old
  BY <1>1 DEF SourceInv
<1> QED BY <1>1, <1>2, ClosureIsExact DEF Rooted, Roots

LEMMA DocumentIsExtract ==
    ASSUME HistoryHolds, SourceInv, FirstInv, pc \notin {"manifests", "objects"},
           projected = OldToNew(Rooted(first))
    PROVE  DocumentOf(first) = Extract(first) /\ DocumentHolds(DocumentOf(first))
<1> DEFINE seals == Rooted(first)
           d == DocumentOf(first)
<1>1. seals \in SUBSET Old /\ Closed(seals) /\ Named(first.manifests) \subseteq seals
  BY RootedIsExact
<1>2. DOMAIN projected = seals
  BY <1>1, LinksAreProper
<1>3. d = Extract(first)
  BY <1>2 DEF DocumentOf, Extract
<1>4. /\ d.seals = seals /\ d.objects = {Content(s) : s \in seals} /\ d.manifests = first.manifests
      /\ d.semantic = Semantic(seals, projected) /\ d.excluded = Objects(first.stored) \ Objects(seals)
  BY <1>2 DEF DocumentOf
<1>5. \A m \in d.semantic.merged : Cardinality(m.olds) > 1
  BY <1>4 DEF Semantic, Merged
<1>6. d.excluded \cap (d.objects \cup {SealBytes(s) : s \in d.seals}) = {}
  BY <1>4 DEF Objects
<1> HIDE DEF d, seals
<1>7. DocumentHolds(d)
  BY <1>1, <1>4, <1>5, <1>6 DEF DocumentHolds, Closed
<1> QED BY <1>3, <1>7 DEF d

LEMMA ProjectionStays ==
    ASSUME UNCHANGED history
    PROVE  /\ \A seals : OldToNew(seals)' = OldToNew(seals)
           /\ \A seals : Closure(seals)' = Closure(seals)
           /\ \A seals, new : Semantic(seals, new)' = Semantic(seals, new)
<1>1. \A s : Payload(s)' = Payload(s)
  BY DEF Payload
<1>2. \A s : Parent(s)' = Parent(s) /\ Targets(s)' = Targets(s) /\ Needs(s)' = Needs(s)
  BY DEF Payload, Parent, Targets, Needs
<1>3. \A seals : OldToNew(seals)' = OldToNew(seals)
  BY DEF OldToNew, NewSeal, Material, Provenance, ProjectCauseLinks, Previous, Payload, Parent, Targets
<1>4. \A seals : Closure(seals)' = Closure(seals)
  BY DEF Closure, Payload, Parent, Targets, Needs
<1>5. \A seals, new : Semantic(seals, new)' = Semantic(seals, new)
  BY DEF Semantic, Observed, Assertion, UnobservedParents, Merged, Payload, Parent, Targets
<1> QED BY <1>3, <1>4, <1>5

LEMMA ExtractStays ==
    ASSUME UNCHANGED <<history, first>>
    PROVE  Rooted(first)' = Rooted(first) /\ Extract(first)' = Extract(first)
           /\ OldToNew(Rooted(first))' = OldToNew(Rooted(first))
<1>1. Rooted(first)' = Rooted(first)
  BY ProjectionStays DEF Rooted, Roots, Named
<1>2. OldToNew(Rooted(first))' = OldToNew(Rooted(first))
  BY <1>1, ProjectionStays
<1>3. Semantic(Rooted(first), OldToNew(Rooted(first)))' = Semantic(Rooted(first), OldToNew(Rooted(first)))
  BY <1>1, <1>2, ProjectionStays
<1>4. \A s : Content(s)' = Content(s)
  BY DEF Content, Payload
<1>5. (Objects(first.stored) \ Objects(Rooted(first)))' = Objects(first.stored) \ Objects(Rooted(first))
  BY <1>1, <1>4 DEF Objects, SealBytes
<1>6. {Content(s) : s \in Rooted(first)}' = {Content(s) : s \in Rooted(first)}
  BY <1>1, <1>4
<1> QED BY <1>1, <1>2, <1>3, <1>5, <1>6 DEF Extract

LEMMA DocumentStaysHeld ==
    ASSUME UNCHANGED <<history, document>>
    PROVE  DocumentHolds(document)' = DocumentHolds(document)
<1>1. \A s : Needs(s)' = Needs(s) /\ Content(s)' = Content(s)
  BY DEF Payload, Parent, Targets, Needs, Content
<1> QED BY <1>1 DEF DocumentHolds, Named, SealBytes

LEMMA DocumentInit == Init => DocumentInv
<1> SUFFICES ASSUME Init PROVE DocumentInv
  OBVIOUS
<1>1. edits \in Nat
  BY WorldsAssumption DEF Init
<1> QED BY <1>1 DEF Init, DocumentInv, Documented

(* Nothing about a document changes before there is one, ... *)
LEMMA NoDocumentYet ==
    ASSUME SourceInv, FirstInv, DocumentInv, [Next]_vars, UNCHANGED <<history, projected, document, extracted, edits>>,
           pc \notin Documented, pc' \notin Documented,
           pc' \in {"build", "manifests again", "objects again", "candidates again", "compare"} =>
               /\ pc \in {"build", "manifests again", "objects again", "candidates again", "compare"}
               /\ first' = first
    PROVE  DocumentInv'
<1>1. pc' \in {"build", "manifests again", "objects again", "candidates again", "compare"} =>
          projected' = OldToNew(Rooted(first))' /\ first'.candidates = {}
  BY ExtractStays DEF DocumentInv
<1>2. document' = None
  BY DEF DocumentInv
<1>3. edits' \in Nat /\ extracted' \in BOOLEAN
  <2>1. edits \in Nat /\ extracted \in BOOLEAN
    BY DEF DocumentInv
  <2>2. edits' = edits /\ extracted' = extracted
    OBVIOUS
  <2> QED BY <2>1, <2>2
<1> QED BY <1>1, <1>2, <1>3 DEF DocumentInv, Documented

(* ... and the steps of its use leave what it says. *)
LEMMA DocumentIsLeft ==
    ASSUME SourceInv, FirstInv, DocumentInv, [Next]_vars, UNCHANGED <<history, first, same, document, extracted>>,
           edits' \in Nat, pc \in Documented, pc' \in Documented \ {"extracted"},
           pc' \in {"decoded", "loaded"} => pc \in {"decoded", "loaded"} \/ DocumentHolds(document)
    PROVE  DocumentInv'
<1>1. DocumentHolds(document)' = DocumentHolds(document) /\ Extract(first)' = Extract(first)
  BY DocumentStaysHeld, ExtractStays
<1>2. extracted' \in BOOLEAN
  <2>1. extracted \in BOOLEAN
    BY DEF DocumentInv
  <2>2. extracted' = extracted
    OBVIOUS
  <2> QED BY <2>1, <2>2
<1>3. /\ same /\ first.candidates = {} /\ Shaped(document) /\ document.seals \subseteq Old
      /\ \A b \in document.objects : b = Stray \/ \E s \in Old : b = Content(s)
      /\ extracted => document = Extract(first)
  BY DEF DocumentInv
<1>4. Old' = Old /\ \A s : Content(s)' = Content(s)
  BY DEF Old, Content, Payload
<1>5. same' /\ first'.candidates = {} /\ Shaped(document')
  BY <1>3 DEF Shaped
<1>6. document'.seals \subseteq Old' /\ \A b \in document'.objects : b = Stray \/ \E s \in Old' : b = Content(s)'
  BY <1>3, <1>4
<1>7. extracted' => document' = Extract(first)'
  BY <1>1, <1>3
<1>8. pc' \in {"decoded", "loaded"} => DocumentHolds(document)'
  BY <1>1 DEF DocumentInv
<1> QED BY <1>2, <1>5, <1>6, <1>7, <1>8 DEF DocumentInv, Documented, Shaped

LEMMA ChangedHasShape ==
    ASSUME NEW d, Shaped(d), d.seals \subseteq Old, \A b \in d.objects : b = Stray \/ \E s \in Old : b = Content(s),
           NEW e \in Changed(d)
    PROVE  /\ Shaped(e) /\ e.seals \subseteq Old
           /\ \A b \in e.objects : b = Stray \/ \E s \in Old : b = Content(s)
<1>1. CASE \E x : e = [d EXCEPT !.excluded = x] \/ e = [d EXCEPT !.semantic = x] \/ e = [d EXCEPT !.manifests = x]
  BY <1>1 DEF Shaped
<1>2. CASE \E s \in d.seals : e = [d EXCEPT !.seals = @ \ {s}]
  BY <1>2 DEF Shaped
<1>3. CASE \E b \in d.objects : e = [d EXCEPT !.objects = @ \ {b}]
  BY <1>3 DEF Shaped
<1>4. CASE e = [d EXCEPT !.objects = @ \cup {Stray}]
  BY <1>4 DEF Shaped
<1> QED BY <1>1, <1>2, <1>3, <1>4 DEF Changed

LEMMA DocumentStays ==
    ASSUME HistoryHolds, SourceInv, FirstInv, MomentInv, DocumentInv, [Next]_vars
    PROVE  DocumentInv'
<1> USE DEF Documented
<1>1. CASE StoreSeal \/ ChangeManifest \/ ChangeCandidate
  <2>1. UNCHANGED <<history, pc, first, projected, document, extracted, edits>> /\ pc \notin Documented
    BY <1>1 DEF StoreSeal, ChangeManifest, ChangeCandidate, SourceStep, Extracting, extractVars, loadVars
  <2> QED BY <2>1, NoDocumentYet
<1>2. CASE \E r \in Ref : ReadManifest(r)
  <2>1. /\ UNCHANGED <<history, projected, document, extracted, edits>>
        /\ \/ pc = "manifests" /\ pc' \in {"manifests", "objects"}
           \/ pc = "manifests again" /\ pc' \in {"manifests again", "objects again"} /\ first' = first
    BY <1>2 DEF ReadManifest, loadVars
  <2> QED BY <2>1, NoDocumentYet
<1>3. CASE ReadObjects
  <2>1. /\ UNCHANGED <<history, projected, document, extracted, edits>>
        /\ \/ pc = "objects" /\ pc' = "candidates"
           \/ pc = "objects again" /\ pc' = "candidates again" /\ first' = first
    BY <1>3 DEF ReadObjects, loadVars
  <2> QED BY <2>1, NoDocumentYet
<1>4. CASE ReadCandidates
  <2>1. /\ UNCHANGED <<history, projected, document, extracted, edits>>
        /\ \/ pc = "candidates" /\ pc' = "project"
           \/ pc = "candidates again" /\ pc' = "compare" /\ first' = first
    BY <1>4 DEF ReadCandidates, loadVars
  <2> QED BY <2>1, NoDocumentYet
<1>5. CASE Project
  <2>1. /\ pc = "project" /\ UNCHANGED <<history, first, document, extracted, edits>>
        /\ \/ pc' \in {"refused", "incomplete"} /\ UNCHANGED projected
           \/ pc' = "build" /\ first.candidates = {} /\ projected' = OldToNew(Rooted(first))
    BY <1>5 DEF Project, Stop, loadVars
  <2>2. CASE pc' # "build"
    BY <2>1, <2>2, NoDocumentYet
  <2>3. CASE pc' = "build"
    <3>1. projected' = OldToNew(Rooted(first))' /\ first'.candidates = {}
      BY <2>1, <2>3, ExtractStays
    <3>2. document' = None /\ edits' \in Nat
      BY <2>1 DEF DocumentInv
    <3>3. extracted' \in BOOLEAN
      <4>1. extracted \in BOOLEAN
        BY DEF DocumentInv
      <4>2. extracted' = extracted
        BY <2>1
      <4> QED BY <4>1, <4>2
    <3> QED BY <2>3, <3>1, <3>2, <3>3 DEF DocumentInv
  <2> QED BY <2>2, <2>3
<1>6. CASE Build
  <2>1. /\ UNCHANGED <<history, first, projected, document, extracted, edits>>
        /\ pc = "build" /\ pc' \in {"cycle", "incomplete", "manifests again"}
    BY <1>6 DEF Build, Stop, loadVars
  <2> QED BY <2>1, NoDocumentYet
<1>7. CASE Compare
  <2>1. /\ pc = "compare" /\ UNCHANGED <<history, first, same, projected, extracted, edits>>
        /\ \/ pc' = "extracted" /\ same /\ document' = DocumentOf(first)
           \/ pc' = "refused" /\ UNCHANGED document
    BY <1>7 DEF Compare, SameObservation
  <2>2. CASE pc' = "refused"
    BY <2>1, <2>2, NoDocumentYet
  <2>3. CASE pc' = "extracted"
    <3>1. projected = OldToNew(Rooted(first)) /\ first.candidates = {}
      BY <2>1 DEF DocumentInv
    <3>2. document' = Extract(first)
      BY <2>1, <2>3, <3>1, DocumentIsExtract
    <3>3. projected' = OldToNew(Rooted(first))' /\ first'.candidates = {} /\ document' = Extract(first)'
      BY <2>1, <3>1, <3>2, ExtractStays
    <3>4. Shaped(document') /\ document'.seals = Rooted(first) /\ document'.objects = {Content(s) : s \in Rooted(first)}
      BY <3>2 DEF Extract, Shaped
    <3>5. Old' = Old /\ \A s : Content(s)' = Content(s)
      BY <2>1 DEF Old, Content, Payload
    <3>6. Rooted(first) \subseteq Old
      BY <2>1, RootedIsExact
    <3>7. document'.seals \subseteq Old' /\ \A b \in document'.objects : b = Stray \/ \E s \in Old' : b = Content(s)'
      BY <3>4, <3>5, <3>6
    <3>8. edits' \in Nat
      BY <2>1 DEF DocumentInv
    <3>9. extracted' \in BOOLEAN /\ same'
      <4>1. extracted \in BOOLEAN /\ same
        BY <2>1, <2>3 DEF DocumentInv
      <4>2. extracted' = extracted /\ same' = same
        BY <2>1
      <4> QED BY <4>1, <4>2
    <3> QED BY <2>3, <3>3, <3>4, <3>7, <3>8, <3>9 DEF DocumentInv, Shaped
  <2> QED BY <2>1, <2>2, <2>3
<1>8. CASE Alter
  <2>1. /\ pc = "extracted" /\ UNCHANGED <<history, pc, first, same, projected>>
        /\ edits > 0 /\ edits' = edits - 1 /\ extracted' = FALSE /\ document' \in Changed(document)
    BY <1>8 DEF Alter, Edit, extractVars
  <2>2. /\ same /\ first.candidates = {} /\ Shaped(document) /\ document.seals \subseteq Old
        /\ \A b \in document.objects : b = Stray \/ \E s \in Old : b = Content(s)
        /\ projected = OldToNew(Rooted(first))
    BY <2>1 DEF DocumentInv
  <2>3. /\ Shaped(document') /\ document'.seals \subseteq Old
        /\ \A b \in document'.objects : b = Stray \/ \E s \in Old : b = Content(s)
    BY <2>1, <2>2, ChangedHasShape
  <2>4. Old' = Old /\ \A s : Content(s)' = Content(s)
    BY <2>1 DEF Old, Content, Payload
  <2>5. edits' \in Nat
    BY <2>1 DEF DocumentInv
  <2>6. projected' = OldToNew(Rooted(first))' /\ first'.candidates = {}
    BY <2>1, <2>2, ExtractStays
  <2>7. same'
    BY <2>1, <2>2
  <2> QED BY <2>1, <2>3, <2>4, <2>5, <2>6, <2>7 DEF DocumentInv, Shaped
<1>9. CASE Decode
  <2>1. /\ UNCHANGED <<history, first, same, document, extracted, edits>> /\ pc = "extracted"
        /\ (pc' = "decoded" /\ DocumentHolds(document)) \/ pc' = "failed"
    BY <1>9 DEF Decode, loadVars
  <2>2. edits' \in Nat
    BY <2>1 DEF DocumentInv
  <2> QED BY <2>1, <2>2, DocumentIsLeft
<1>10. CASE Load
  <2>1. /\ UNCHANGED <<history, first, same, document, extracted, edits>> /\ pc = "decoded"
        /\ pc' \in {"loaded", "failed"}
    BY <1>10 DEF Load
  <2>2. edits' \in Nat
    BY <2>1 DEF DocumentInv
  <2> QED BY <2>1, <2>2, DocumentIsLeft
<1>11. CASE StoreBlob \/ ChangeName \/ EditReceipt
  <2>1. /\ UNCHANGED <<history, first, same, document, extracted>> /\ pc \in {"loaded", "used"}
        /\ pc' \in {pc, "used"}
    BY <1>11, UseStep
  <2>2. edits \in Nat
    BY DEF DocumentInv
  <2>3. edits' \in Nat
    BY <1>11, <2>2, UseStep
  <2> QED BY <2>1, <2>3, DocumentIsLeft DEF Documented
<1>12. CASE LoadReceipt \/ UNCHANGED vars
  <2>1. UNCHANGED <<history, pc, first, same, projected, document, extracted, edits>>
    BY <1>12, ReceiptStep DEF vars, extractVars, loadVars
  <2>2. edits' \in Nat
    BY <2>1 DEF DocumentInv
  <2>3. CASE pc \notin Documented
    BY <2>1, <2>3, NoDocumentYet
  <2>4. CASE pc \in Documented \ {"extracted"}
    BY <2>1, <2>2, <2>4, DocumentIsLeft
  <2>5. CASE pc = "extracted"
    BY <2>1, <2>2, <2>5, ExtractStays DEF DocumentInv, Shaped, Old, Content, Payload
  <2> QED BY <2>3, <2>4, <2>5
<1> QED BY <1>1, <1>2, <1>3, <1>4, <1>5, <1>6, <1>7, <1>8, <1>9, <1>10, <1>11, <1>12 DEF Next

-----------------------------------------------------------------------------
(* The repository. *)
LEMMA RepositoryInit == Init => RepositoryInv
  BY DEF Init, RepositoryInv

(* Steps that give no repository and leave it what it was. *)
LEMMA RepositoryIsLeft ==
    ASSUME RepositoryInv, UNCHANGED <<history, projected, repository>>,
           pc' \in {"loaded", "used"} => pc \in {"loaded", "used"}
    PROVE  RepositoryInv'
  BY DEF RepositoryInv, Old, Named, Seals, IsSeal

LEMMA ProjectedIsProper ==
    ASSUME HistoryHolds, NEW seals \in SUBSET Old, Closed(seals), UNCHANGED <<history, repository>>,
           projected' = OldToNew(seals), RepositoryInv, pc' \notin {"loaded", "used"}
    PROVE  RepositoryInv'
<1>1. DOMAIN projected' \subseteq Old'
  BY LinksAreProper DEF Old
<1>2. \A s \in DOMAIN projected' : \A l \in projected'[s].provenance.links : l.target \notin l.previous
  BY LinksAreProper
<1> QED BY <1>1, <1>2 DEF RepositoryInv, Named, Seals, IsSeal

LEMMA NamedIsOf ==
    ASSUME NEW refs, NEW x
    PROVE  x \in Named(refs) <=> /\ x # None
                                 /\ \E r \in Ref : refs[r] # None /\ x \in {refs[r].head, refs[r].tag}
  BY DEF Named

LEMMA RepositoryStays ==
    ASSUME HistoryHolds, SourceInv, FirstInv, DocumentInv, RepositoryInv, [Next]_vars
    PROVE  RepositoryInv'
<1>1. CASE StoreSeal \/ ChangeManifest \/ ChangeCandidate
  BY <1>1, RepositoryIsLeft DEF StoreSeal, ChangeManifest, ChangeCandidate, extractVars, loadVars, useVars
<1>2. CASE \E r \in Ref : ReadManifest(r)
  BY <1>2, RepositoryIsLeft DEF ReadManifest, loadVars, useVars
<1>3. CASE ReadObjects \/ ReadCandidates
  BY <1>3, RepositoryIsLeft DEF ReadObjects, ReadCandidates, loadVars, useVars
<1>4. CASE Project
  <2>1. /\ pc = "project" /\ UNCHANGED <<history, repository>> /\ pc' \notin {"loaded", "used"}
        /\ UNCHANGED projected \/ projected' = OldToNew(Rooted(first))
    BY <1>4 DEF Project, Stop, loadVars, useVars
  <2>2. Rooted(first) \in SUBSET Old /\ Closed(Rooted(first))
    BY <2>1, RootedIsExact
  <2> QED BY <2>1, <2>2, RepositoryIsLeft, ProjectedIsProper
<1>5. CASE Build \/ Compare \/ Alter
  BY <1>5, RepositoryIsLeft DEF Build, Stop, Compare, Alter, loadVars, useVars, extractVars
<1>6. CASE Decode
  <2>1. /\ pc = "extracted" /\ UNCHANGED <<history, repository>> /\ pc' \notin {"loaded", "used"}
        /\ UNCHANGED projected \/ (projected' = OldToNew(document.seals) /\ DocumentHolds(document))
    BY <1>6 DEF Decode, loadVars, useVars
  <2>2. document.seals \in SUBSET Old /\ (DocumentHolds(document) => Closed(document.seals))
    BY <2>1 DEF DocumentInv, Documented, DocumentHolds, Closed
  <2> QED BY <2>1, <2>2, RepositoryIsLeft, ProjectedIsProper
<1>7. CASE Load
  <2>1. CASE pc' # "loaded"
    BY <1>7, <2>1, RepositoryIsLeft DEF Load, useVars
  <2>2. CASE pc' = "loaded"
    <3> DEFINE repo == Staged(document, projected)
    <3>1. repository' = repo /\ Fsck(repo) /\ UNCHANGED <<history, projected>>
      BY <1>7, <2>2 DEF Load
    <3>2. repo = [blobs |-> repo.blobs, manifests |-> [r \in Ref |-> repo.manifests[r]]]
      BY DEF Staged, NewManifests
    <3>3. \A r \in Ref : repo.manifests[r] # None =>
              repo.manifests[r] = [head |-> repo.manifests[r].head, tag |-> repo.manifests[r].tag]
      BY DEF Staged, NewManifests
    <3>4. Named(repo.manifests) \subseteq Seals(repo)
      BY <3>1 DEF Fsck
    <3> HIDE DEF repo
    <3>5. DOMAIN projected' \subseteq Old'
          /\ \A s \in DOMAIN projected' : \A l \in projected'[s].provenance.links : l.target \notin l.previous
      BY <3>1 DEF RepositoryInv, Old
    <3>6. (Named(repository.manifests) \subseteq Seals(repository))'
      BY <3>1, <3>4 DEF Named, Seals, IsSeal
    <3> QED BY <3>1, <3>2, <3>3, <3>5, <3>6 DEF RepositoryInv
  <2> QED BY <2>1, <2>2
<1>8. ASSUME StoreBlob \/ ChangeName PROVE RepositoryInv'
  <2>1. pc \in {"loaded", "used"} /\ UNCHANGED <<history, projected>>
    BY <1>8, UseStep
  <2>2. /\ repository = [blobs |-> repository.blobs, manifests |-> [r \in Ref |-> repository.manifests[r]]]
        /\ \A r \in Ref : repository.manifests[r] # None =>
              repository.manifests[r] = [head |-> repository.manifests[r].head, tag |-> repository.manifests[r].tag]
        /\ Named(repository.manifests) \subseteq Seals(repository)
    BY <2>1 DEF RepositoryInv
  <2> DEFINE Whole(repo) ==
                 /\ repo = [blobs |-> repo.blobs, manifests |-> [r \in Ref |-> repo.manifests[r]]]
                 /\ \A r \in Ref : repo.manifests[r] # None =>
                       repo.manifests[r] = [head |-> repo.manifests[r].head, tag |-> repo.manifests[r].tag]
                 /\ Named(repo.manifests) \subseteq Seals(repo)
  <2>3. Whole(repository')
    <3>1. CASE StoreBlob
      <4>1. /\ repository' = [blobs |-> repository.blobs \cup {Stray},
                              manifests |-> [r \in Ref |-> repository.manifests[r]]]
            /\ repository'.manifests = repository.manifests /\ repository.blobs \subseteq repository'.blobs
        BY <2>2, <3>1 DEF StoreBlob
      <4> QED BY <2>2, <4>1 DEF Seals
    <3>2. CASE ChangeName
      <4>0. PICK r \in Ref : \E n \in NewNames(repository.manifests[r]) :
                repository' = [repository EXCEPT !.manifests[r] = n]
        BY <3>2 DEF ChangeName
      <4>1. PICK m \in NewNames(repository.manifests[r]) : repository' = [repository EXCEPT !.manifests[r] = m]
        BY <4>0
      <4>2. /\ repository' = [blobs |-> repository.blobs,
                              manifests |-> [q \in Ref |-> IF q = r THEN m ELSE repository.manifests[q]]]
            /\ repository'.blobs = repository.blobs
            /\ repository'.manifests = [q \in Ref |-> IF q = r THEN m ELSE repository.manifests[q]]
        BY <2>2, <4>1
      <4>3. m # None => /\ m = [head |-> m.head, tag |-> m.tag]
                        /\ {m.head, m.tag} \ {None} \subseteq Seals(repository)
        <5>1. CASE repository.manifests[r] = None
          BY <5>1 DEF NewNames
        <5>2. CASE repository.manifests[r] # None
          <6>1. {repository.manifests[r].head, repository.manifests[r].tag} \ {None} \subseteq Seals(repository)
            BY <2>2, <5>2 DEF Named
          <6>2. repository.manifests[r] = [head |-> repository.manifests[r].head, tag |-> repository.manifests[r].tag]
            BY <2>2, <5>2
          <6> QED BY <5>2, <6>1, <6>2 DEF NewNames
        <5> QED BY <5>1, <5>2
      <4>4. ASSUME NEW x \in Named(repository'.manifests) PROVE x \in Seals(repository)
        <5>1. x # None
          BY <4>4, NamedIsOf
        <5>2. PICK q \in Ref : repository'.manifests[q] # None
                               /\ x \in {repository'.manifests[q].head, repository'.manifests[q].tag}
          BY <4>4, NamedIsOf
        <5>3. CASE q = r
          BY <4>2, <4>3, <5>1, <5>2, <5>3
        <5>4. CASE q # r
          BY <2>2, <4>2, <5>1, <5>2, <5>4, NamedIsOf
        <5> QED BY <5>3, <5>4
      <4>5. \A q \in Ref : repository'.manifests[q] # None =>
                repository'.manifests[q] = [head |-> repository'.manifests[q].head, tag |-> repository'.manifests[q].tag]
        BY <2>2, <4>2, <4>3
      <4>6. Seals(repository') = Seals(repository)
        BY <4>2 DEF Seals
      <4> QED BY <4>2, <4>4, <4>5, <4>6
    <3> QED BY <1>8, <3>1, <3>2
  <2>4. (Named(repository.manifests) \subseteq Seals(repository))'
    BY <2>3 DEF Named, Seals, IsSeal
  <2>5. DOMAIN projected' \subseteq Old'
        /\ \A s \in DOMAIN projected' : \A l \in projected'[s].provenance.links : l.target \notin l.previous
    BY <2>1 DEF RepositoryInv, Old
  <2> QED BY <2>3, <2>4, <2>5 DEF RepositoryInv
<1>9. CASE EditReceipt \/ LoadReceipt
  BY <1>9, RepositoryIsLeft, ReceiptStep, UseStep DEF EditReceipt, useVars, extractVars
<1>10. CASE UNCHANGED vars
  BY <1>10, RepositoryIsLeft DEF vars, extractVars, loadVars, useVars
<1> QED BY <1>1, <1>2, <1>3, <1>4, <1>5, <1>6, <1>7, <1>8, <1>9, <1>10 DEF Next

-----------------------------------------------------------------------------
(* The use of a loaded repository.                                         *)
LEMMA UseInit == Init => UseInv /\ RecoverInv
  BY DEF Init, UseInv, InUse, RecoverInv, ObjectsCompared, NamesCompared, Passed, LookHolds, InstantHolds,
         AgainHolds, Began, Complete, Again, Capturing

LEMMA UseOrNot ==
    ASSUME [Next]_vars
    PROVE  \/ Load \/ StoreBlob \/ ChangeName \/ EditReceipt \/ LoadReceipt
           \/ UNCHANGED <<useVars, recoverVars>> /\ (InUse' <=> InUse)
<1>1. CASE StoreSeal \/ ChangeManifest \/ ChangeCandidate
  BY <1>1 DEF StoreSeal, ChangeManifest, ChangeCandidate, loadVars, extractVars, InUse
<1>2. CASE (\E r \in Ref : ReadManifest(r)) \/ ReadObjects \/ ReadCandidates
  BY <1>2 DEF ReadManifest, ReadObjects, ReadCandidates, loadVars, InUse
<1>3. CASE Project \/ Build
  BY <1>3 DEF Project, Build, Stop, loadVars, InUse
<1>4. CASE Compare \/ Alter \/ Decode
  BY <1>4 DEF Compare, Alter, Decode, loadVars, extractVars, InUse
<1>5. CASE UNCHANGED vars
  BY <1>5 DEF vars, loadVars, extractVars, InUse
<1> QED BY <1>1, <1>2, <1>3, <1>4, <1>5 DEF Next

LEMMA EditedKeepsDigest ==
    ASSUME NEW rc, "digest" \in DOMAIN rc, NEW e \in Edited(rc)
    PROVE  e.digest = rc.digest /\ "digest" \in DOMAIN e
<1> DEFINE Shorter   == {[rc EXCEPT !.mappings = @ \ {m}] : m \in rc.mappings}
           Untyped   == {[rc EXCEPT !.typed = @ \ {t}] : t \in rc.typed}
           Forgotten == {[rc EXCEPT !.unchanged = @ \ {b}] : b \in rc.unchanged}
           Emptied   == {[rc EXCEPT !.groups = {}], [rc EXCEPT !.excluded = {}]}
           Unnamed   == {[rc EXCEPT !.manifests[r] = None] : r \in Ref}
           Renamed   == UNION {{[rc EXCEPT !.old[r].head = m.old, !.manifests[r].head = m.new] : m \in rc.mappings} :
                                  r \in {r \in Ref : rc.manifests[r] # None}}
           Same(x)   == x.digest = rc.digest /\ "digest" \in DOMAIN x
<1>1. Edited(rc) = Shorter \cup Untyped \cup Forgotten \cup Emptied \cup Unnamed \cup Renamed
  BY Zenon DEF Edited
<1>2. \A x \in Shorter : Same(x)
  OBVIOUS
<1>3. \A x \in Untyped : Same(x)
  OBVIOUS
<1>4. \A x \in Forgotten : Same(x)
  OBVIOUS
<1>5. \A x \in Emptied : Same(x)
  OBVIOUS
<1>6. \A x \in Unnamed : Same(x)
  OBVIOUS
<1>7. ASSUME NEW x \in Renamed PROVE Same(x)
  <2>1. PICK r \in Ref : x \in {[rc EXCEPT !.old[r].head = m.old, !.manifests[r].head = m.new] : m \in rc.mappings}
    OBVIOUS
  <2>2. PICK m \in rc.mappings : x = [rc EXCEPT !.old[r].head = m.old, !.manifests[r].head = m.new]
    BY <2>1
  <2> HIDE DEF Shorter, Untyped, Forgotten, Emptied, Unnamed, Renamed
  <2> QED BY <2>2
<1> HIDE DEF Shorter, Untyped, Forgotten, Emptied, Unnamed, Renamed
<1> QED BY <1>1, <1>2, <1>3, <1>4, <1>5, <1>6, <1>7

LEMMA UseStays ==
    ASSUME RepositoryInv, DocumentInv, UseInv, [Next]_vars
    PROVE  UseInv'
<1>1. CASE Load
  <2>1. pc = "decoded" /\ ~InUse /\ task = "none" /\ UNCHANGED recoverVars
    BY <1>1 DEF Load, InUse, UseInv
  <2>2. CASE pc' = "failed"
    BY <1>1, <2>1, <2>2 DEF Load, UseInv, InUse, useVars, recoverVars
  <2>3. CASE pc' = "loaded"
    <3> DEFINE repo == Staged(document, projected)
    <3>1. /\ repository' = repo /\ receipt' = ReceiptOf(document, projected, Digest(repo))
          /\ had' = [r \in Ref |-> {repo.manifests[r]}] /\ returned' = returned
      BY <1>1, <2>3 DEF Load
    <3>2. receipt'.digest = repo /\ "digest" \in DOMAIN receipt'
      BY <3>1 DEF ReceiptOf, Digest
    <3> HIDE DEF repo
    <3> QED BY <2>1, <2>3, <3>1, <3>2 DEF UseInv, InUse, recoverVars
  <2> QED BY <1>1, <2>2, <2>3 DEF Load
<1>2. CASE StoreBlob
  <2>1. /\ InUse /\ InUse' /\ UNCHANGED <<receipt, had, returned, recoverVars>>
        /\ repository' = [repository EXCEPT !.blobs = @ \cup {Stray}]
    BY <1>2 DEF StoreBlob, Use, InUse
  <2>2. repository = [blobs |-> repository.blobs, manifests |-> [r \in Ref |-> repository.manifests[r]]]
    BY <2>1 DEF RepositoryInv, InUse
  <2>3. repository'.blobs = repository.blobs \cup {Stray} /\ repository'.manifests = repository.manifests
    BY <2>1, <2>2
  <2> QED BY <2>1, <2>3 DEF UseInv, recoverVars
<1>3. CASE ChangeName
  <2>0. PICK r \in Ref : \E n \in NewNames(repository.manifests[r]) \ {repository.manifests[r]} :
            /\ repository' = [repository EXCEPT !.manifests[r] = n]
            /\ returned' = (returned \/ n \in had[r]) /\ had' = [had EXCEPT ![r] = @ \cup {n}]
    BY <1>3 DEF ChangeName
  <2>1. PICK m : /\ repository' = [repository EXCEPT !.manifests[r] = m]
                 /\ returned' = (returned \/ m \in had[r]) /\ had' = [had EXCEPT ![r] = @ \cup {m}]
    BY <2>0
  <2>2. InUse /\ InUse' /\ UNCHANGED <<receipt, recoverVars>>
    BY <1>3 DEF ChangeName, Use, InUse
  <2>3. repository = [blobs |-> repository.blobs, manifests |-> [q \in Ref |-> repository.manifests[q]]]
    BY <2>2 DEF RepositoryInv, InUse
  <2>4. /\ repository'.blobs = repository.blobs
        /\ \A q \in Ref : repository'.manifests[q] = IF q = r THEN m ELSE repository.manifests[q]
    BY <2>1, <2>3
  <2>5. DOMAIN had' = Ref /\ \A q \in Ref : had'[q] = IF q = r THEN had[q] \cup {m} ELSE had[q]
    BY <2>1 DEF UseInv
  <2>6. receipt.digest.manifests[r] \in had[r]
    BY <2>2 DEF UseInv
  <2>7. returned' \in BOOLEAN /\ (~returned' => ~returned /\ m \notin had[r])
    BY <2>1 DEF UseInv
  <2> HIDE DEF InUse
  <2> QED BY <2>2, <2>4, <2>5, <2>6, <2>7 DEF UseInv, recoverVars
<1>4. CASE EditReceipt
  <2>1. InUse /\ InUse' /\ UNCHANGED <<repository, had, returned, recoverVars>> /\ receipt' \in Edited(receipt)
    BY <1>4 DEF EditReceipt, InUse, extractVars
  <2>2. receipt'.digest = receipt.digest /\ "digest" \in DOMAIN receipt'
    BY <2>1, EditedKeepsDigest DEF UseInv
  <2> QED BY <2>1, <2>2 DEF UseInv, recoverVars
<1>5. CASE LoadReceipt
  <2>1. UNCHANGED useVars /\ (InUse' <=> InUse)
    BY <1>5, ReceiptStep DEF extractVars, InUse
  <2>2. InUse
    <3>1. task # "none" \/ ReadReceipt
      BY <1>5 DEF LoadReceipt, CaptureObjects, CaptureName, ObjectsAgain, NameAgain, EndFsck, CompareObjects,
             CompareNames, CompareName, AllCompared, Answer, Doing, Capturing
    <3> QED BY <3>1 DEF ReadReceipt, InUse, UseInv
  <2>3. left' \subseteq Ref
    BY <1>5 DEF LoadReceipt, ReadReceipt, CaptureObjects, CaptureName, ObjectsAgain, NameAgain, EndFsck,
           CompareObjects, CompareNames, CompareName, AllCompared, Answer, GoOn, Held, UseInv
  <2> QED BY <2>1, <2>2, <2>3 DEF UseInv, useVars
<1>6. CASE UNCHANGED <<useVars, recoverVars>> /\ (InUse' <=> InUse)
  BY <1>6 DEF UseInv, useVars, recoverVars
<1> QED BY <1>1, <1>2, <1>3, <1>4, <1>5, <1>6, UseOrNot

-----------------------------------------------------------------------------
(* load-receipt.                                                           *)
LEMMA RolesGrow ==
    ASSUME NEW A, NEW B, A \subseteq B
    PROVE  Roles(A) \subseteq Roles(B)
  BY DEF Roles

LEMMA FitGrows ==
    ASSUME NEW x, NEW y, x.blobs \subseteq y.blobs, MappingsFit(receipt, x)
    PROVE  MappingsFit(receipt, y)
  BY DEF MappingsFit, Seals

(* Before it reads anything, and after it has failed. *)
LEMMA NothingRecovered ==
    ASSUME task' \in {"none", "fsck", "refused"}, task' = "fsck" => part' = "objects"
    PROVE  RecoverInv'
  BY DEF RecoverInv, ObjectsCompared, NamesCompared, Passed, LookHolds, InstantHolds,
         AgainHolds, Began, Complete, Again, Capturing

(* The repository in use beside it. *)
LEMMA UseBeside ==
    ASSUME RecoverInv, UNCHANGED <<receipt, recoverVars>>, repository.blobs \subseteq repository'.blobs,
           \A r \in Ref : had[r] \subseteq had'[r], ~returned' => ~returned
    PROVE  RecoverInv'
<1>1. UNCHANGED <<task, part, left, look, instant>>
  BY DEF recoverVars
<1>2. ObjectsCompared'
  <2>1. Passed({"roles", "inventory", "names", "head", "tag"})' => MappingsFit(receipt, repository)'
    BY <1>1, FitGrows DEF RecoverInv, ObjectsCompared, Passed, MappingsFit, Seals, IsSeal
  <2>2. Roles(repository.blobs) \subseteq Roles(repository'.blobs)
    BY RolesGrow
  <2>3. /\ Roles(receipt.digest.blobs)' = Roles(receipt.digest.blobs) /\ Inventory(receipt)' = Inventory(receipt)
        /\ Roles(repository.blobs)' = Roles(repository'.blobs)
    BY DEF Roles, Inventory, IsMaterial, IsProvenance, IsSeal
  <2> QED BY <1>1, <2>1, <2>2, <2>3 DEF RecoverInv, ObjectsCompared, Passed
<1>3. NamesCompared'
  BY <1>1 DEF RecoverInv, NamesCompared, Passed, Once
<1>4. LookHolds'
  <2>1. Within(look)' = Within(look)
    BY <1>1 DEF Within, MappingsFit, Seals, IsSeal, IsMaterial, IsProvenance, Roles, Inventory
  <2> QED BY <1>1, <2>1 DEF RecoverInv, LookHolds, Began
<1>5. InstantHolds'
  BY <1>1 DEF RecoverInv, InstantHolds, Complete
<1>6. AgainHolds'
  BY <1>1 DEF RecoverInv, AgainHolds, Again, NamedIn, Agrees
<1> QED BY <1>1, <1>2, <1>3, <1>4, <1>5, <1>6 DEF RecoverInv

(* A step of load-receipt itself reads what the others leave alone. *)
LEMMA ReadsOnly ==
    ASSUME UNCHANGED useVars
    PROVE  /\ UNCHANGED <<repository, receipt, had, returned>>
           /\ MappingsFit(receipt, repository)' <=> MappingsFit(receipt, repository)
           /\ Roles(receipt.digest.blobs)' = Roles(receipt.digest.blobs)
           /\ Roles(repository.blobs)' = Roles(repository.blobs)
           /\ Inventory(receipt)' = Inventory(receipt)
           /\ \A r, field : Once(r, field)' <=> Once(r, field)
           /\ Within(look)' <=> Within(look')
           /\ \A r : NamedIn(receipt.digest.manifests, r)' <=> NamedIn(receipt.digest.manifests, r)
  BY DEF useVars, MappingsFit, Roles, Inventory, Once, Within, NamedIn, Agrees, Seals, IsSeal, IsMaterial, IsProvenance

(* The captures come before and after the comparison. *)
LEMMA ComparedStays ==
    ASSUME RecoverInv, UNCHANGED useVars,
           (task \in {"digest", "answered"} /\ task' \in {"digest", "answered"}) \/ task' = "fsck"
    PROVE  ObjectsCompared' /\ NamesCompared'
<1>1. ObjectsCompared'
  BY ReadsOnly DEF RecoverInv, ObjectsCompared, Passed
<1>2. NamesCompared'
  BY ReadsOnly DEF RecoverInv, NamesCompared, Passed
<1> QED BY <1>1, <1>2

LEMMA WithinNow ==
    ASSUME RecoverInv, task = "digest"
    PROVE  Within(repository)
  BY DEF RecoverInv, ObjectsCompared, Within, Passed

(* Once all names are compared, a REF that has had one manifest since the  *)
(* load had the one in the receipt. *)
LEMMA NamesSettled ==
    ASSUME RecoverInv, NEW r \in Ref, had[r] = {receipt.digest.manifests[r]}, task = "digest"
    PROVE  NamedIn(receipt.digest.manifests, r)
<1>1. (receipt.digest.manifests[r] = None) = (receipt.manifests[r] = None)
  BY DEF RecoverInv, NamesCompared, Passed
<1>2. receipt.manifests[r] # None => Once(r, "head") /\ Once(r, "tag")
  BY DEF RecoverInv, NamesCompared, Passed
<1> QED BY <1>1, <1>2 DEF Once, NamedIn, Agrees

LEMMA CaptureStays ==
    ASSUME RepositoryInv, UseInv, RecoverInv, UNCHANGED useVars,
           CaptureObjects \/ (\E r \in Ref : CaptureName(r)) \/ ObjectsAgain, task' # "refused"
    PROVE  RecoverInv'
<1>1. /\ task \in Capturing /\ task' = task /\ InUse
      /\ UNCHANGED <<repository, receipt, had, returned>>
  BY ReadsOnly DEF CaptureObjects, CaptureName, ObjectsAgain, Doing, GoOn, UseInv, Capturing
<1>2. ObjectsCompared' /\ NamesCompared'
  BY <1>1, ComparedStays DEF Capturing
<1>3. CASE CaptureObjects
  <2>1. /\ part' = "refs" /\ left' = Ref
        /\ look' = [blobs |-> repository.blobs, manifests |-> [r \in Ref |-> None]]
    BY <1>3 DEF CaptureObjects, GoOn
  <2>2. task # "fsck" => Within(repository)
    BY <1>1, WithinNow DEF Capturing
  <2>3. Within(look') <=> Within(repository)
    BY <2>1 DEF Within, MappingsFit, Seals
  <2>4. LookHolds'
    BY <1>1, <2>1, <2>2, <2>3, ReadsOnly DEF LookHolds, Began
  <2> QED BY <1>1, <1>2, <2>1, <2>4 DEF RecoverInv, InstantHolds, AgainHolds, Complete, Again, Capturing
<1>4. CASE \E r \in Ref : CaptureName(r)
  <2>1. PICK r \in Ref : CaptureName(r)
    BY <1>4
  <2>2. /\ part = "refs" /\ r \in left /\ left' = left \ {r}
        /\ part' = IF left = {r} THEN "objects again" ELSE "refs"
        /\ left = {r} => instant' = repository
        /\ look' = [look EXCEPT !.manifests[r] = repository.manifests[r]]
    BY <2>1 DEF CaptureName, Doing, GoOn
  <2>3. /\ look = [blobs |-> look.blobs, manifests |-> [q \in Ref |-> look.manifests[q]]]
        /\ look.blobs \subseteq repository.blobs /\ (task # "fsck" => Within(look))
        /\ \A q \in Ref : q \notin left => look.manifests[q] \in had[q]
    BY <1>1, <2>2 DEF RecoverInv, LookHolds, Began
  <2>4. /\ look' = [blobs |-> look.blobs,
                    manifests |-> [q \in Ref |-> IF q = r THEN repository.manifests[r] ELSE look.manifests[q]]]
        /\ look'.blobs = look.blobs
        /\ \A q \in Ref : look'.manifests[q] = IF q = r THEN repository.manifests[r] ELSE look.manifests[q]
    <3>1. look = [blobs |-> look.blobs, manifests |-> [q \in Ref |-> look.manifests[q]]]
      BY <2>3
    <3>2. look' = [look EXCEPT !.manifests[r] = repository.manifests[r]]
      BY <2>2
    <3> QED BY <3>1, <3>2
  <2>5. look' = [blobs |-> look'.blobs, manifests |-> [q \in Ref |-> look'.manifests[q]]]
    BY <2>4
  <2>6. \A q \in Ref : repository.manifests[q] \in had[q]
    BY <1>1 DEF UseInv
  <2>7. Within(look') <=> Within(look)
    BY <2>4 DEF Within, MappingsFit, Seals
  <2>8. \A q \in Ref : part' # "refs" \/ q \notin left' => look'.manifests[q] \in had'[q]
    BY <1>1, <2>2, <2>3, <2>4, <2>6
  <2>9. LookHolds'
    BY <1>1, <2>3, <2>4, <2>5, <2>7, <2>8, ReadsOnly DEF LookHolds
  <2>10. InstantHolds'
    BY <1>1, <2>2, <2>3, <2>4, <2>6 DEF InstantHolds, Complete
  <2> QED BY <1>1, <1>2, <2>2, <2>9, <2>10 DEF RecoverInv, AgainHolds, Again, Capturing
<1>5. CASE ObjectsAgain
  <2>1. /\ part = "objects again" /\ part' = "refs again" /\ left' = Ref
        /\ UNCHANGED <<look, instant>> /\ look.blobs = repository.blobs
    BY <1>1, <1>5 DEF ObjectsAgain, Doing, GoOn, Capturing
  <2>2. LookHolds'
    BY <1>1, <2>1, ReadsOnly DEF RecoverInv, LookHolds, Began, Within
  <2>3. /\ look.blobs \subseteq instant.blobs /\ instant.blobs \subseteq repository.blobs
        /\ \A r \in Ref : instant.manifests[r] \in had[r]
    BY <1>1, <2>1 DEF RecoverInv, InstantHolds, Complete
  <2>4. instant.blobs = look.blobs
    BY <2>1, <2>3
  <2>5. InstantHolds'
    BY <1>1, <2>1, <2>3, <2>4 DEF InstantHolds
  <2> QED BY <1>1, <1>2, <2>1, <2>2, <2>5 DEF RecoverInv, AgainHolds, Again, Capturing
<1> QED BY <1>3, <1>4, <1>5

LEMMA AgainStays ==
    ASSUME UseInv, RecoverInv, UNCHANGED useVars, NEW r \in Ref, NameAgain(r), task' # "refused"
    PROVE  RecoverInv'
<1>1. /\ task \in Capturing /\ task' = task /\ InUse
      /\ UNCHANGED <<repository, receipt, had, returned, look, instant>>
      /\ part = "refs again" /\ r \in left /\ left' = left \ {r}
      /\ part' = IF left = {r} THEN "end" ELSE "refs again"
      /\ look.manifests[r] = repository.manifests[r]
  BY ReadsOnly DEF NameAgain, Doing, GoOn, UseInv, Capturing, Unmoved
<1>2. ObjectsCompared' /\ NamesCompared'
  BY <1>1, ComparedStays DEF Capturing
<1>3. Within(look)' <=> Within(look)
  BY <1>1, ReadsOnly
<1>4. LookHolds'
  BY <1>1, <1>3 DEF RecoverInv, LookHolds, Began
<1>5. InstantHolds'
  BY <1>1 DEF RecoverInv, InstantHolds, Complete
<1>6. ASSUME NEW q \in Ref, Again(q)', ~returned, look.manifests[q] = receipt.digest.manifests[q]
      PROVE  /\ instant.manifests[q] = receipt.digest.manifests[q]
             /\ task # "fsck" => NamedIn(receipt.digest.manifests, q)
  <2>1. CASE q # r
    BY <1>1, <1>6, <2>1 DEF RecoverInv, AgainHolds, Again
  <2>2. CASE q = r
    <3>1. had[r] = {receipt.digest.manifests[r]} /\ instant.manifests[r] \in had[r]
      BY <1>1, <1>6, <2>2 DEF UseInv, RecoverInv, InstantHolds, Complete
    <3>2. task # "fsck" => NamedIn(receipt.digest.manifests, r)
      BY <1>1, <3>1, NamesSettled DEF Capturing
    <3> QED BY <2>2, <3>1, <3>2
  <2> QED BY <2>1, <2>2
<1>7. AgainHolds'
  BY <1>1, <1>6, ReadsOnly DEF AgainHolds
<1> QED BY <1>1, <1>2, <1>4, <1>5, <1>7 DEF RecoverInv, Capturing

LEMMA CompareStays ==
    ASSUME UseInv, RecoverInv, UNCHANGED useVars, task' # "refused",
           EndFsck \/ CompareObjects \/ CompareNames \/ (\E r \in Ref : CompareName(r)) \/ AllCompared
    PROVE  RecoverInv'
<1>1. InUse /\ task' \in {"compare", "digest"} /\ (task' = "digest" => part' = "objects")
  BY DEF EndFsck, CompareObjects, CompareNames, CompareName, AllCompared, Doing, GoOn, UseInv
<1>2. UNCHANGED <<repository, receipt, had, returned>>
  BY ReadsOnly
<1>3. ObjectsCompared' /\ NamesCompared' => RecoverInv'
  BY <1>1 DEF RecoverInv, LookHolds, InstantHolds, AgainHolds, Began, Complete, Again, Capturing
<1>4. CASE EndFsck
  <2>1. task' = "compare" /\ part' = "mappings"
    BY <1>4 DEF EndFsck, GoOn
  <2> QED BY <1>3, <2>1 DEF ObjectsCompared, NamesCompared, Passed
<1>5. CASE CompareObjects
  <2>1. \/ part' = "roles" /\ part = "mappings" /\ MappingsFit(receipt, repository)
        \/ part' = "inventory" /\ part = "roles" /\ RolesFit(receipt, repository)
        \/ part' = "names" /\ part = "inventory" /\ InventoryFits(receipt, repository)
    BY <1>5 DEF CompareObjects, GoOn, Doing
  <2>2. task = "compare" /\ task' = "compare"
    BY <1>5 DEF CompareObjects, GoOn, Doing
  <2>3. receipt.digest.blobs \subseteq repository.blobs
    BY <1>1 DEF UseInv
  <2>4. Roles(receipt.digest.blobs) \subseteq Roles(repository.blobs)
    BY <2>3, RolesGrow
  <2>5. ObjectsCompared'
    BY <2>1, <2>2, <2>3, <2>4, ReadsOnly DEF RecoverInv, ObjectsCompared, Passed, RolesFit, InventoryFits
  <2>6. NamesCompared'
    BY <2>1, <2>2 DEF NamesCompared, Passed
  <2> QED BY <1>3, <2>5, <2>6
<1>6. CASE CompareNames
  <2>1. /\ task = "compare" /\ part = "names" /\ task' = "compare" /\ part' = "head" /\ left' = Held(receipt.manifests)
        /\ Held(repository.manifests) = Held(receipt.manifests)
    BY <1>6 DEF CompareNames, GoOn, Doing
  <2>2. ObjectsCompared'
    BY <2>1, ReadsOnly DEF RecoverInv, ObjectsCompared, Passed
  <2>3. \A r \in Ref : \E m \in had[r] : (m = None) = (receipt.manifests[r] = None)
    BY <1>1, <2>1 DEF UseInv, Held
  <2>4. NamesCompared'
    BY <1>2, <2>1, <2>3 DEF NamesCompared, Passed, Held
  <2> QED BY <1>3, <2>2, <2>4
<1>7. CASE \E r \in Ref : CompareName(r)
  <2>1. PICK r \in Ref : CompareName(r)
    BY <1>7
  <2>2. /\ task = "compare" /\ part \in {"head", "tag"} /\ task' = "compare" /\ part' = part /\ left' = left \ {r}
        /\ Agrees(repository.manifests, r, part)
    BY <2>1 DEF CompareName, GoOn, Doing
  <2>3. ObjectsCompared'
    BY <2>2, ReadsOnly DEF RecoverInv, ObjectsCompared, Passed
  <2>4. Once(r, part)
    BY <1>1, <2>2 DEF UseInv, Once, Agrees
  <2>5. NamesCompared'
    BY <1>2, <2>2, <2>4, ReadsOnly DEF RecoverInv, NamesCompared, Passed
  <2> QED BY <1>3, <2>3, <2>5
<1>8. CASE AllCompared
  <2>1. /\ left = {} /\ task = "compare"
        /\ \/ part = "head" /\ task' = "compare" /\ part' = "tag"
           \/ part = "tag" /\ task' = "digest"
        /\ part' = "tag" => left' = Held(receipt.manifests)
    BY <1>8 DEF AllCompared, GoOn, Doing
  <2>2. ObjectsCompared'
    BY <2>1, ReadsOnly DEF RecoverInv, ObjectsCompared, Passed
  <2>3. NamesCompared'
    BY <1>2, <2>1, ReadsOnly DEF RecoverInv, NamesCompared, Passed, Held
  <2> QED BY <1>3, <2>2, <2>3
<1> QED BY <1>4, <1>5, <1>6, <1>7, <1>8

LEMMA AnswerStays ==
    ASSUME RecoverInv, UNCHANGED useVars, Answer, task' # "refused"
    PROVE  RecoverInv'
<1>1. /\ task = "digest" /\ task' = "answered" /\ part = "end" /\ part' = "end"
      /\ UNCHANGED <<repository, receipt, had, returned, look, instant>> /\ receipt.digest = look
  BY ReadsOnly DEF Answer, Doing, GoOn, Digest
<1>2. ObjectsCompared' /\ NamesCompared'
  BY <1>1, ComparedStays
<1>3. Within(look)' <=> Within(look)
  BY <1>1, ReadsOnly
<1>4. LookHolds'
  BY <1>1, <1>3 DEF RecoverInv, LookHolds, Began, Capturing
<1>5. InstantHolds'
  BY <1>1 DEF RecoverInv, InstantHolds, Complete, Capturing
<1>6. AgainHolds'
  BY <1>1, ReadsOnly DEF RecoverInv, AgainHolds, Again, Capturing
<1> QED BY <1>1, <1>2, <1>4, <1>5, <1>6 DEF RecoverInv

LEMMA RecoverStays ==
    ASSUME RepositoryInv, UseInv, RecoverInv, [Next]_vars
    PROVE  RecoverInv'
<1>1. CASE Load
  <2>1. task = "none" /\ task' = task
    BY <1>1 DEF Load, UseInv, InUse, recoverVars
  <2> QED BY <2>1, NothingRecovered
<1>2. CASE StoreBlob
  <2>1. InUse /\ UNCHANGED <<receipt, recoverVars, had, returned>>
        /\ repository' = [repository EXCEPT !.blobs = @ \cup {Stray}]
    BY <1>2 DEF StoreBlob, Use, InUse
  <2>2. repository = [blobs |-> repository.blobs, manifests |-> [q \in Ref |-> repository.manifests[q]]]
    BY <2>1 DEF RepositoryInv, InUse
  <2>3. repository.blobs \subseteq repository'.blobs
    BY <2>1, <2>2
  <2> QED BY <2>1, <2>3, UseBeside
<1>3. CASE ChangeName
  <2>0. PICK r \in Ref : \E n \in NewNames(repository.manifests[r]) \ {repository.manifests[r]} :
            /\ repository' = [repository EXCEPT !.manifests[r] = n]
            /\ returned' = (returned \/ n \in had[r]) /\ had' = [had EXCEPT ![r] = @ \cup {n}]
    BY <1>3 DEF ChangeName
  <2>1. PICK m : /\ repository' = [repository EXCEPT !.manifests[r] = m]
                 /\ returned' = (returned \/ m \in had[r]) /\ had' = [had EXCEPT ![r] = @ \cup {m}]
    BY <2>0
  <2>2. InUse /\ UNCHANGED <<receipt, recoverVars>>
    BY <1>3 DEF ChangeName, Use, InUse
  <2>3. repository = [blobs |-> repository.blobs, manifests |-> [q \in Ref |-> repository.manifests[q]]]
    BY <2>2 DEF RepositoryInv, InUse
  <2>4. repository'.blobs = repository.blobs
    BY <2>1, <2>3
  <2>5. \A q \in Ref : had[q] \subseteq had'[q]
    BY <2>1 DEF UseInv
  <2>6. ~returned' => ~returned
    BY <2>1 DEF UseInv
  <2> QED BY <2>2, <2>4, <2>5, <2>6, UseBeside
<1>4. CASE EditReceipt
  <2>1. task = "none" /\ task' = task
    BY <1>4 DEF EditReceipt, recoverVars
  <2> QED BY <2>1, NothingRecovered
<1>5. CASE LoadReceipt
  <2>1. UNCHANGED useVars
    BY <1>5, ReceiptStep
  <2>2. CASE task' = "refused"
    BY <2>2, NothingRecovered
  <2>3. CASE ReadReceipt
    <3>1. task' \in {"fsck", "refused"} /\ (task' = "fsck" => part' = "objects")
      BY <2>3 DEF ReadReceipt, GoOn
    <3> QED BY <3>1, NothingRecovered
  <2>4. CASE task' # "refused" /\ ~ReadReceipt
    BY <1>5, <2>1, <2>4, CaptureStays, AgainStays, CompareStays, AnswerStays DEF LoadReceipt
  <2> QED BY <2>2, <2>3, <2>4
<1>6. CASE UNCHANGED <<useVars, recoverVars>>
  <2>1. UNCHANGED <<repository, receipt, had, returned, recoverVars>>
    BY <1>6 DEF useVars
  <2> QED BY <2>1, UseBeside
<1> QED BY <1>1, <1>2, <1>3, <1>4, <1>5, <1>6, UseOrNot

-----------------------------------------------------------------------------
(* The invariant holds at every step of an extraction, a load and its      *)
(* receipt, with the old program at work beside them.                      *)
THEOREM TransferIsInductive == Spec => []TransferInv
<1>1. Init => TransferInv
  BY InitHistory, SourceInit, FirstInit, MomentInit, DocumentInit, RepositoryInit, UseInit DEF TransferInv
<1>2. TransferInv /\ [Next]_vars => TransferInv'
  BY HistoryStays, SourceStays, FirstStays, MomentStays, DocumentStays, RepositoryStays,
     UseStays, RecoverStays DEF TransferInv
<1> QED BY <1>1, <1>2, PTL DEF Spec

(* What the state is made of: a projection never puts a Seal before        *)
(* itself, a document lists nothing but contents of the history, and what  *)
(* a repository names it has as a Seal.                                    *)
THEOREM TransferTypes == Spec => []TypeOK
<1>1. TransferInv => TypeOK
  <2> SUFFICES ASSUME TransferInv PROVE TypeOK
    OBVIOUS
  <2>1. stored \subseteq Old
    BY DEF TransferInv, SourceInv
  <2>2. manifests \in [Ref -> Manifest(Old) \cup {None}] /\ first \in Capture(Old)
    BY <2>1, ManifestsGrow DEF TransferInv, SourceInv, FirstInv
  <2>3. candidates \subseteq Ref /\ changes \in Nat /\ restored \in BOOLEAN
    BY DEF TransferInv, SourceInv
  <2>4. unread \subseteq Ref /\ same \in BOOLEAN
    BY DEF TransferInv, FirstInv
  <2>5. edits \in Nat /\ extracted \in BOOLEAN
    BY DEF TransferInv, DocumentInv
  <2>6. document # None =>
            /\ document.seals \subseteq Old
            /\ \A b \in document.objects : b = Stray \/ \E s \in Old : b = Content(s)
    BY DEF TransferInv, DocumentInv
  <2>7. /\ DOMAIN projected \subseteq Old
        /\ \A s \in DOMAIN projected : \A l \in projected[s].provenance.links : l.target \notin l.previous
        /\ repository # None => Named(repository.manifests) \subseteq Seals(repository)
    BY DEF TransferInv, RepositoryInv
  <2>8. left \subseteq Ref /\ returned \in BOOLEAN
    BY DEF TransferInv, UseInv
  <2> QED BY <2>1, <2>2, <2>3, <2>4, <2>5, <2>6, <2>7, <2>8 DEF TypeOK, Capture
<1> QED BY <1>1, TransferIsInductive, PTL

(* An extraction finds no gap, and what it makes is the closure of the     *)
(* REFs, all objects and no Candidate at one moment, however the old       *)
(* program and the two captures interleave (captureSource,                 *)
(* sameObservation).                                                       *)
LEMMA NoGap ==
    ASSUME TransferInv, pc # "incomplete", [Next]_vars
    PROVE  pc' # "incomplete"
<1>1. ASSUME Project PROVE pc' # "incomplete"
  <2>1. pc = "project" /\ Rooted(first) \subseteq first.stored
    BY <1>1, RootedIsExact DEF Project, TransferInv
  <2> QED BY <1>1, <2>1 DEF Project, Stop
<1>2. ASSUME Build PROVE pc' # "incomplete"
  <2>1. pc = "build" /\ DocumentHolds(DocumentOf(first))
    BY <1>2, DocumentIsExtract DEF Build, TransferInv, DocumentInv
  <2> QED BY <1>2, <2>1 DEF Build, Stop
<1>3. ASSUME UNCHANGED pc PROVE pc' # "incomplete"
  BY <1>3
<1>4. ASSUME StoreSeal \/ ChangeManifest \/ ChangeCandidate PROVE UNCHANGED pc
  BY <1>4 DEF StoreSeal, ChangeManifest, ChangeCandidate, extractVars
<1>5. ASSUME (\E r \in Ref : ReadManifest(r)) \/ ReadObjects \/ ReadCandidates PROVE pc' # "incomplete"
  BY <1>5 DEF ReadManifest, ReadObjects, ReadCandidates
<1>6. ASSUME Compare \/ Alter \/ Decode \/ Load PROVE pc' # "incomplete"
  BY <1>6 DEF Compare, Alter, Decode, Load, extractVars
<1>7. ASSUME StoreBlob \/ ChangeName \/ EditReceipt \/ LoadReceipt PROVE pc' # "incomplete"
  BY <1>7, ReceiptStep, UseStep DEF extractVars
<1> QED BY <1>1, <1>2, <1>3, <1>4, <1>5, <1>6, <1>7 DEF Next, vars, extractVars

LEMMA OfOneMoment == TransferInv => DocumentIsOfOneMoment
<1> SUFFICES ASSUME TransferInv, document # None, extracted, ~restored
             PROVE  /\ moment.candidates = {}
                    /\ document.manifests = moment.manifests
                    /\ document.seals = Closure(Named(moment.manifests))
                    /\ document.objects \cup document.excluded \cup {SealBytes(s) : s \in document.seals}
                           = Objects(moment.stored)
  BY DEF DocumentIsOfOneMoment
<1>1. pc \in Documented
  BY DEF TransferInv, DocumentInv
<1>2. same /\ first.candidates = {} /\ document = Extract(first)
  BY <1>1 DEF TransferInv, DocumentInv
<1>3. /\ moment \in Capture(stored) /\ first \in Capture(stored)
      /\ moment.candidates = first.candidates /\ moment.stored = first.stored
      /\ \A r \in Ref : moment.manifests[r] = first.manifests[r]
  BY <1>1, <1>2 DEF TransferInv, FirstInv, MomentInv, Reread, Documented
<1>4. moment.manifests = first.manifests
  BY <1>3 DEF Capture
<1>5. document.manifests = first.manifests /\ document.seals = Rooted(first)
  BY <1>2 DEF Extract
<1>6. Rooted(first) \subseteq first.stored
  BY <1>1, RootedIsExact DEF TransferInv, Documented
<1>7. document.objects \cup document.excluded \cup {SealBytes(s) : s \in document.seals} = Objects(first.stored)
  <2>1. document.objects \cup {SealBytes(s) : s \in document.seals} = Objects(Rooted(first))
    BY <1>2 DEF Extract, Objects
  <2>2. Objects(Rooted(first)) \subseteq Objects(first.stored)
    BY <1>6 DEF Objects
  <2>3. document.excluded = Objects(first.stored) \ Objects(Rooted(first))
    BY <1>2 DEF Extract
  <2> QED BY <2>1, <2>2, <2>3
<1> QED BY <1>2, <1>3, <1>4, <1>5, <1>7 DEF Rooted, Roots

THEOREM DocumentsAreBound == Spec => []DocumentIsBound
<1>1. Init => pc # "incomplete"
  BY DEF Init
<1>2. TransferInv /\ pc # "incomplete" /\ [Next]_vars => (pc # "incomplete")'
  BY NoGap
<1>3. TransferInv /\ pc # "incomplete" => DocumentIsBound
  BY OfOneMoment DEF DocumentIsBound, CaptureIsClosed
<1> QED BY <1>1, <1>2, <1>3, TransferIsInductive, PTL DEF Spec

(* Every link, message and parent of an extracted history is in the new    *)
(* graph or listed as lost, for every history (projectCauseLinks,          *)
(* unobservedParents).                                                     *)
THEOREM MeaningSurvives == Spec => []MeaningIsKept
<1>1. TransferInv => MeaningIsKept
  <2> SUFFICES ASSUME TransferInv, pc = "extracted", extracted, NEW s \in document.seals
               PROVE  LinksAreKept(s) /\ (Parent(s) # None => ParentIsKept(s))
    BY DEF MeaningIsKept
  <2>1. document = Extract(first) /\ projected = OldToNew(Rooted(first))
    BY DEF TransferInv, DocumentInv, Documented
  <2>2. Rooted(first) \in SUBSET Old /\ Closed(Rooted(first))
    BY RootedIsExact DEF TransferInv
  <2>3. document.seals = Rooted(first) /\ document.semantic = Semantic(Rooted(first), OldToNew(Rooted(first)))
    BY <2>1 DEF Extract
  <2>4. HistoryHolds
    BY DEF TransferInv
  <2> QED BY <2>1, <2>2, <2>3, <2>4, ProjectionKeepsLinks, ProjectionKeepsParents
<1> QED BY <1>1, TransferIsInductive, PTL

(* A manifest is not mistaken for no manifest. *)
NoneIsNoManifest == \A h, t : [head |-> h, tag |-> t] # None

(* Whatever document load was given, altered or not, what it loads is the  *)
(* projection of the Seals in it, with the images of its names and the     *)
(* losses of its own history (LoadUniversalBlobV1).                        *)
LEMMA LoadedExactly ==
    ASSUME NoneIsNoManifest, TransferInv, Load, pc' = "loaded"
    PROVE  LoadedIsExact'
<1> DEFINE repo == Staged(document, projected)
<1>1. /\ pc = "decoded" /\ UNCHANGED <<history, projected, document>>
      /\ ProjectionAgrees(document, projected) /\ repository' = repo
  BY DEF Load
<1>2. DocumentHolds(document) /\ document.seals \in SUBSET Old
  BY <1>1 DEF TransferInv, DocumentInv, Documented
<1>3. Closure(Named(document.manifests)) \subseteq document.seals
  <2>1. Closed(document.seals) /\ Named(document.manifests) \subseteq document.seals
    BY <1>2 DEF DocumentHolds, Closed
  <2>2. Named(document.manifests) \in SUBSET Old
    BY <1>2, <2>1
  <2> QED BY <1>2, <2>1, <2>2, ClosureIsExact DEF TransferInv
<1>4. document.semantic = Semantic(document.seals, projected)
  BY <1>1 DEF ProjectionAgrees
<1>5. ASSUME NEW r \in Ref
      PROVE  /\ (document.manifests[r] = None) = (repo.manifests[r] = None)
             /\ document.manifests[r] # None =>
                   /\ repo.manifests[r].head = projected[document.manifests[r].head]
                   /\ document.manifests[r].tag # None =>
                         repo.manifests[r].tag = projected[document.manifests[r].tag]
  <2>1. repo.manifests[r] = IF document.manifests[r] = None THEN None
                            ELSE [head |-> projected[document.manifests[r].head],
                                  tag |-> IF document.manifests[r].tag = None THEN None
                                          ELSE projected[document.manifests[r].tag]]
    BY DEF Staged, NewManifests
  <2> HIDE DEF repo
  <2>2. CASE document.manifests[r] = None
    BY <2>1, <2>2
  <2>3. CASE document.manifests[r] # None
    BY <2>1, <2>3 DEF NoneIsNoManifest
  <2> QED BY <2>2, <2>3
<1>6. {Content(s) : s \in document.seals} \subseteq repo.blobs
  BY <1>2 DEF DocumentHolds, Staged
<1>7. Semantic(document.seals, projected)' = Semantic(document.seals, projected)
      /\ Closure(Named(document.manifests))' = Closure(Named(document.manifests))
  BY <1>1, ProjectionStays DEF Named
<1>8. {Content(s) : s \in document.seals}' = {Content(s) : s \in document.seals}
  BY <1>1 DEF Content, Payload
<1> HIDE DEF repo
<1> QED BY <1>1, <1>3, <1>4, <1>5, <1>6, <1>7, <1>8 DEF LoadedIsExact

THEOREM LoadsAreExact == NoneIsNoManifest => (Spec => []LoadedIsExact)
<1> SUFFICES ASSUME NoneIsNoManifest PROVE Spec => []LoadedIsExact
  OBVIOUS
<1>1. Init => LoadedIsExact
  BY DEF Init, LoadedIsExact
<1>2. TransferInv /\ LoadedIsExact /\ [Next]_vars => LoadedIsExact'
  <2> SUFFICES ASSUME TransferInv, LoadedIsExact, [Next]_vars, pc' = "loaded" PROVE LoadedIsExact'
    BY DEF LoadedIsExact
  <2>1. Load \/ UNCHANGED <<history, pc, projected, document, repository>>
    <3>1. ASSUME StoreBlob \/ ChangeName PROVE FALSE
      BY <3>1 DEF StoreBlob, ChangeName, Use
    <3>2. ASSUME EditReceipt \/ LoadReceipt PROVE UNCHANGED <<history, pc, projected, document, repository>>
      BY <3>2, ReceiptStep DEF EditReceipt, extractVars, useVars
    <3> QED BY <3>1, <3>2 DEF Next, StoreSeal, ChangeManifest, ChangeCandidate, ReadManifest, ReadObjects, ReadCandidates, Project,
           Build, Stop, Compare, Alter, Decode, extractVars, loadVars, useVars, vars
  <2>2. CASE Load
    BY <2>2, LoadedExactly
  <2>3. CASE UNCHANGED <<history, pc, projected, document, repository>>
    <3>1. Semantic(document.seals, projected)' = Semantic(document.seals, projected)
          /\ Closure(Named(document.manifests))' = Closure(Named(document.manifests))
      BY <2>3, ProjectionStays DEF Named
    <3>2. {Content(s) : s \in document.seals}' = {Content(s) : s \in document.seals}
      BY <2>3 DEF Content, Payload
    <3> QED BY <2>3, <3>1, <3>2 DEF LoadedIsExact
  <2> QED BY <2>1, <2>2, <2>3
<1> QED BY <1>1, <1>2, TransferIsInductive, PTL DEF Spec

(* load-receipt reads the repository in pieces and holds no guard.  What   *)
(* it answers is true at one moment of the call all the same: objects only *)
(* grow, so what was compared of them lies between the load and the digest,*)
(* which are equal; and a REF that was given nothing back and is again as  *)
(* loaded has been so throughout (RecoverUniversalLoadReceipt).            *)
THEOREM AnswersAreTrue == Spec => []RecoveredIsTrue
<1>1. TransferInv => RecoveredIsTrue
  <2> SUFFICES ASSUME TransferInv, task = "answered" PROVE RecoveredIsTrue
    BY DEF RecoveredIsTrue
  <2>1. part = "end" /\ receipt.digest = look
    BY DEF TransferInv, RecoverInv
  <2>2. Within(look) /\ instant.blobs = look.blobs
    BY <2>1 DEF TransferInv, RecoverInv, LookHolds, InstantHolds, Began, Complete
  <2>3. /\ MappingsFit(receipt, look) /\ Roles(look.blobs) = receipt.typed
        /\ look.blobs = Inventory(receipt)
    BY <2>1, <2>2 DEF TransferInv, RecoverInv, ObjectsCompared, Passed, Within
  <2>4. MappingsFit(receipt, instant) /\ RolesFit(receipt, instant) /\ InventoryFits(receipt, instant)
    BY <2>2, <2>3, FitGrows DEF RolesFit, InventoryFits
  <2>5. ASSUME ~returned, NEW r \in Ref PROVE NamedIn(instant.manifests, r)
    <3>1. /\ instant.manifests[r] = receipt.digest.manifests[r]
          /\ NamedIn(receipt.digest.manifests, r)
      BY <2>1, <2>5 DEF TransferInv, RecoverInv, AgainHolds, Again
    <3> QED BY <3>1 DEF NamedIn, Agrees
  <2> QED BY <2>4, <2>5 DEF RecoveredIsTrue
<1> QED BY <1>1, TransferIsInductive, PTL

=============================================================================
